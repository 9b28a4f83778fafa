------------------------- MODULE AbstractBusService -------------------------
(***************************************************************************)
(* What the D-Bus service (bus-service.c) promises to its clients,         *)
(* whatever it, polkit and the bus do in between: calls are carried out    *)
(* one after another in the order of their arrival, a call that succeeds   *)
(* has set its level when the answer is sent, one that fails has set its   *)
(* level or left it alone, and no other call's level comes in between.  A  *)
(* call may also be cut, which its client cannot tell from a success: it   *)
(* has set its level or left it alone like a call that failed.             *)
(***************************************************************************)
EXTENDS Naturals, Sequences

CONSTANTS
  Levels,    \* debug levels
  Initial,   \* the level before any call; a call with it asks for no level
  MaxCalls   \* bound: calls issued in all

VARIABLES
  calls,     \* the calls in the order of their arrival
  level      \* the level in force

vars == <<calls, level>>

(* An answer is open until the call returns or gets an error; failing is a *)
(* call that has failed but is not answered yet.                           *)
Open == {"none", "failing"}

Init == calls = <<>> /\ level = Initial

OpenCalls == {i \in DOMAIN calls : calls[i].answer \in Open}
Turn(i) == i \in OpenCalls /\ \A j \in OpenCalls : i <= j

Answered(i, a) == calls' = [calls EXCEPT ![i].answer = a]
Effect(i) == IF calls[i].asks = Initial THEN level ELSE calls[i].asks

Issue ==
  /\ Len(calls) < MaxCalls
  /\ \E l \in Levels \cup {Initial} : calls' = Append(calls, [asks |-> l, answer |-> "none"])
  /\ UNCHANGED level

Return(i) ==
  /\ Turn(i)
  /\ calls[i].answer = "none"
  /\ Answered(i, "return")
  /\ level' = Effect(i)

(* A call turns out to fail, having set its level or not.                  *)
Spoil(i) ==
  /\ Turn(i)
  /\ calls[i].answer = "none"
  /\ Answered(i, "failing")
  /\ level' \in {level, Effect(i)}

Cut(i) ==
  /\ Turn(i)
  /\ calls[i].answer = "none"
  /\ Answered(i, "cut")
  /\ level' \in {level, Effect(i)}

Fail(i) ==
  /\ Turn(i)
  /\ Answered(i, "error")
  /\ UNCHANGED level

(* The service is lost and all its calls with it.                          *)
Lose ==
  /\ OpenCalls # {}
  /\ calls' = [i \in DOMAIN calls |->
                 IF i \in OpenCalls THEN [calls[i] EXCEPT !.answer = "error"] ELSE calls[i]]
  /\ level' \in {level} \cup {Effect(i) : i \in {j \in OpenCalls : Turn(j)}}

Answer == \E i \in OpenCalls : Return(i) \/ Spoil(i) \/ Cut(i) \/ Fail(i)

Next == Issue \/ Answer \/ Lose
Safely == Init /\ [][Next]_vars
Spec == Safely /\ WF_vars(Answer)
=============================================================================
