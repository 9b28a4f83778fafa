\* Two clients, two calls; the service may die at any moment; polkit answers
\* and scripts end.  No symmetry, which liveness does not allow.
SPECIFICATION Spec
CONSTANTS
  Clients = {c1, c2}
  Levels = {debug, warning}
  Initial = initial
  Results <- MCResults
  MaxCalls = 2
CHECK_DEADLOCK FALSE
INVARIANTS TypeOK OneReply
PROPERTIES OnlyAllowed SignalTellsReply InTurn EveryCallEnds
