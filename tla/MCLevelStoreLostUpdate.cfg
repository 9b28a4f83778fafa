\* Two calls that overlap, no fault at all.
SPECIFICATION Spec
CONSTANTS
  Writers = {service, cli}
  Readers = {reader}
  Keys = {k1, k2}
  Levels = {off, debug}
  Off = off
  Error = Error
  Unanswered = Unanswered
  Inodes = {i1, i2, i3, i4, i5}
  NoInode = NoInode
  Overlap = TRUE
  OpenFails = FALSE
  CopyFails = {}
  DiskFull = FALSE
  RenameFails = FALSE
  Crashes = FALSE
  Upgrade = FALSE
SYMMETRY Symmetry
VIEW View
PROPERTIES SuccessRecorded
