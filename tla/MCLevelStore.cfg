\* The service and the command line take turns; a reader at any moment;
\* fopen, the copying (where mod_config reports it) and rename may fail, a
\* process may be killed between any two calls.
SPECIFICATION Spec
CONSTANTS
  Writers = {service, cli}
  Readers = {reader}
  Keys = {k1, k2}
  Levels = {off, debug}
  Off = off
  Error = Error
  Unanswered = Unanswered
  Inodes = {i1, i2, i3}
  NoInode = NoInode
  Overlap = FALSE
  OpenFails = TRUE
  CopyFails = {"failed"}
  DiskFull = FALSE
  RenameFails = TRUE
  Crashes = TRUE
  Upgrade = FALSE
SYMMETRY Symmetry
VIEW View
INVARIANTS TypeOK StoreInv
PROPERTIES AtomicStore
CHECK_DEADLOCK TRUE
