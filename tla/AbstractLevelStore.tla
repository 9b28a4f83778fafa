------------------------- MODULE AbstractLevelStore -------------------------
(***************************************************************************)
(* What the file deepin-debug-levels.cfg promises to the code around it: a *)
(* map from a module name to the debug level last recorded for it, which   *)
(* one call changes in a single step or not at all, and which a reader     *)
(* sees at one moment.  LevelStore, the sequence of system calls that      *)
(* modify_debug_levels and config_module_get_debug_level_by_type make,     *)
(* implements it as long as the updates do not overlap.                    *)
(***************************************************************************)
CONSTANTS
  Writers,   \* processes that record levels: the D-Bus service, the command line
  Readers,   \* processes that ask for a level
  Keys,      \* module names, and the two pseudo modules "all" and "coredump"
  Levels,    \* debug levels
  Off,       \* the level reported when nothing was ever recorded
  Error,     \* the answer "cannot tell"
  Unanswered, \* the answer of a query still in progress
  Abandoned  \* how an update that changed nothing may end

Entry == [key : Keys, value : Levels]

VARIABLES
  levels,    \* the map: a function from the keys recorded so far to Levels
  busy,      \* busy[w]: an update by w is in progress
  item,      \* item[w]: what that update records
  result,    \* result[w]: how the last update of w ended
  wanted,    \* wanted[r]: the key r asked for
  answer     \* answer[r]: what it was told

vars == <<levels, busy, item, result, wanted, answer>>

-----------------------------------------------------------------------------

Init ==
  /\ levels = [k \in {} |-> Off]
  /\ busy = [w \in Writers |-> FALSE]
  /\ item \in [Writers -> Entry]
  /\ result = [w \in Writers |-> "none"]
  /\ wanted \in [Readers -> Keys]
  /\ answer = [r \in Readers |-> Error]

(* An update begins.                                                       *)
Call(w) ==
  /\ ~ busy[w]
  /\ busy' = [busy EXCEPT ![w] = TRUE]
  /\ \E e \in Entry : item' = [item EXCEPT ![w] = e]
  /\ result' = [result EXCEPT ![w] = "none"]
  /\ UNCHANGED <<levels, wanted, answer>>

(* The update takes effect, all at once, and reports success.              *)
Commit(w) ==
  /\ busy[w]
  /\ busy' = [busy EXCEPT ![w] = FALSE]
  /\ levels' = [k \in DOMAIN levels \cup {item[w].key} |->
                  IF k = item[w].key THEN item[w].value ELSE levels[k]]
  /\ result' = [result EXCEPT ![w] = "ok"]
  /\ UNCHANGED <<item, wanted, answer>>

(* The update changes nothing: it reports an error, its process dies, or,  *)
(* where Abandoned allows it, the failure goes unnoticed.                  *)
Abandon(w) ==
  /\ busy[w]
  /\ busy' = [busy EXCEPT ![w] = FALSE]
  /\ \E how \in Abandoned : result' = [result EXCEPT ![w] = how]
  /\ UNCHANGED <<levels, item, wanted, answer>>

Ask(r) ==
  /\ answer[r] # Unanswered
  /\ \E k \in Keys : wanted' = [wanted EXCEPT ![r] = k]
  /\ answer' = [answer EXCEPT ![r] = Unanswered]
  /\ UNCHANGED <<levels, busy, item, result>>

(* A query is answered from the map as it is at this moment.  A key that   *)
(* was recorded is never reported as off because it could not be found.    *)
Answer(r) ==
  /\ answer[r] = Unanswered
  /\ \E a \in {Error, IF wanted[r] \in DOMAIN levels
                        THEN levels[wanted[r]] ELSE Off} :
       answer' = [answer EXCEPT ![r] = a]
  /\ UNCHANGED <<levels, busy, item, result, wanted>>

Next ==
  \/ \E w \in Writers : Call(w) \/ Commit(w) \/ Abandon(w)
  \/ \E r \in Readers : Ask(r) \/ Answer(r)

Spec == Init /\ [][Next]_vars
=============================================================================
