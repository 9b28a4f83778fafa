\* The service and the command line, whose calls overlap; scripts fail,
\* processes are killed, the package is upgraded.
SPECIFICATION Spec
CONSTANTS
  Service = service
  Clis = {cli}
  m1 = m1
  m2 = m2
  nobody = nobody
  s1 = s1
  s2 = s2
  s3 = s3
  debug = debug
  warning = warning
  Modules = {m1}
  Subs = {s1}
  SubsOf <- OneEach
  Reboots = {m1}
  All = all
  Coredump = coredump
  Levels = {debug, warning}
  On = debug
  Off = warning
  Verbose = {debug}
  Accepts <- Debug
  Rejects <- None
  Careless = {}
  Misnamed = {}
  Requests <- MCRequests
  Default = default
  NoLevel = NoLevel
  ScriptFails = TRUE
  QueryFails = TRUE
  StoreFails = TRUE
  JournalFaults = {"remove", "create", "fill"}
  Sandboxed = {service}
  Crashes = TRUE
  Upgrade = TRUE
VIEW SharedView
INVARIANTS JournalFollows SwitchesExclude
PROPERTIES SuccessMeansDone RecordedIsInForce
