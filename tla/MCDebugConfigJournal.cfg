\* The service alone in the sandbox of its unit; nothing fails.
SPECIFICATION Spec
CONSTANTS
  Service = service
  Clis = {}
  m1 = m1
  m2 = m2
  nobody = nobody
  s1 = s1
  s2 = s2
  s3 = s3
  debug = debug
  warning = warning
  Modules = {m1}
  Subs = {s1}
  SubsOf <- OneEach
  Reboots = {m1}
  All = all
  Coredump = coredump
  Levels = {debug, warning}
  On = debug
  Off = warning
  Verbose = {debug}
  Accepts <- Debug
  Rejects <- None
  Careless = {}
  Misnamed = {}
  Requests <- MCRequests
  Default = default
  NoLevel = NoLevel
  ScriptFails = FALSE
  QueryFails = FALSE
  StoreFails = FALSE
  JournalFaults = {}
  Sandboxed = {service}
  Crashes = FALSE
  Upgrade = FALSE
VIEW SharedView
PROPERTIES DebugSwitchesJournal
