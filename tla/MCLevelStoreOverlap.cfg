\* The service and the command line inside modify_debug_levels at once, with
\* a file that may be removed, copying and renames that may fail and a disk
\* that may be full; nobody is killed.
SPECIFICATION Spec
CONSTANTS
  Writers = {service, cli}
  Readers = {}
  Keys = {k1}
  Levels = {debug}
  Off = debug
  Error = Error
  Unanswered = Unanswered
  Inodes = {i1, i2, i3, i4}
  NoInode = NoInode
  Overlap = TRUE
  OpenFails = TRUE
  CopyFails = {"ok", "failed"}
  DiskFull = TRUE
  RenameFails = TRUE
  Crashes = FALSE
  Upgrade = TRUE
SYMMETRY Symmetry
VIEW View
INVARIANTS NoLeftover
