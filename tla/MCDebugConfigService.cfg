\* The service alone: every kind of argument, scripts that fail or ignore
\* a level, packages that are missing, restarts.
SPECIFICATION Spec
CONSTANTS
  Service = service
  Clis = {}
  m1 = m1
  m2 = m2
  nobody = nobody
  s1 = s1
  s2 = s2
  s3 = s3
  debug = debug
  warning = warning
  Modules = {m1, m2}
  Subs = {s1, s2, s3}
  SubsOf <- MCSubsOf
  Reboots = {m2}
  All = all
  Coredump = coredump
  Levels = {debug, warning, off}
  On = debug
  Off = off
  Verbose = {debug}
  Accepts <- MCAccepts
  Rejects <- MCRejects
  Careless = {s3}
  Misnamed = {s3}
  Requests <- MCServiceRequests
  Default = default
  NoLevel = NoLevel
  ScriptFails = TRUE
  QueryFails = TRUE
  StoreFails = FALSE
  JournalFaults = {}
  Sandboxed = {service}
  Crashes = TRUE
  Upgrade = FALSE
VIEW ServiceView
INVARIANTS TypeOK CacheAgrees
PROPERTIES SuccessMeansDone RecordedIsInForce RebootTold
