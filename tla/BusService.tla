----------------------------- MODULE BusService -----------------------------
(***************************************************************************)
(* The D-Bus service as its clients see it (bus-service.c): calls arrive   *)
(* in one queue, one thread takes them in turn, asks polkit about the      *)
(* caller without a timeout, does the work, replies and broadcasts         *)
(* MethodFinished.  The message bus starts the service for the first call  *)
(* and answers for it when it dies.  Clients may lose patience or leave.   *)
(* What a call of SetDebug does to the system is DebugConfig's matter:     *)
(* here it sets one level or, when it fails, perhaps sets it.              *)
(***************************************************************************)
EXTENDS Naturals, Sequences

CONSTANTS
  Clients,   \* D-Bus clients
  Levels,    \* debug levels
  Initial,   \* the level in force before any call
  Results,   \* what the pairs of one SetDebug may come to: sequences of Booleans
  MaxCalls   \* bound: calls issued in all

ASSUME InitialIsNoRequest == Initial \notin Levels
ASSUME ResultsGiven == Results \subseteq Seq(BOOLEAN)

None == 0    \* no call

VARIABLES
  calls,     \* every call so far, in the order the bus saw them
  queue,     \* the calls the service has not taken yet
  gone,      \* the clients that left the bus
  pc,        \* where the service is
  cur,       \* the call it works on
  results,   \* what setting each pair of that call returned
  end,       \* how the loop over its pairs came to its end
  level,     \* the level in force
  signal     \* the result in a MethodFinished that is being sent

service == <<pc, cur, results, end>>
vars == <<calls, queue, gone, service, level, signal>>

Methods == {"SetDebug", "SetCoredump", "GetState"}
Arguments == [method : {"SetDebug"}, level : Levels]
               \cup [method : Methods \ {"SetDebug"}, level : {Initial}]

(* Members of calls: waiting says whether the client still listens,        *)
(* verdict what polkit said, done how the service ended the call ("cut":   *)
(* with a method return, although a pair could not be read), replies the   *)
(* replies that were sent, the bus's own errors included.                  *)
NewCall(c, a) ==
  [client |-> c, method |-> a.method, level |-> a.level, waiting |-> TRUE,
   verdict |-> "none", done |-> "no", replies |-> <<>>]

Waiting(c) == \E i \in DOMAIN calls : calls[i].client = c /\ calls[i].waiting

Init ==
  /\ calls = <<>>
  /\ queue = <<>>
  /\ gone = {}
  /\ pc = "down"
  /\ cur = None
  /\ results = <<>>
  /\ end = "all"
  /\ level = Initial
  /\ signal = "none"

(* No MethodFinished in this step.                                         *)
Silent == signal' = "none"

-----------------------------------------------------------------------------
(* Clients and the bus.                                                    *)

Issue(c) ==
  /\ Len(calls) < MaxCalls
  /\ c \notin gone
  /\ ~ Waiting(c)
  /\ \E a \in Arguments : calls' = Append(calls, NewCall(c, a))
  /\ queue' = Append(queue, Len(calls'))
  /\ UNCHANGED <<gone, service, level>>
  /\ Silent

(* A client gives up on its call, which the service knows nothing about.   *)
TimeOut(c) ==
  /\ Waiting(c)
  /\ calls' = [i \in DOMAIN calls |->
                 IF calls[i].client = c THEN [calls[i] EXCEPT !.waiting = FALSE] ELSE calls[i]]
  /\ UNCHANGED <<queue, gone, service, level>>
  /\ Silent

Leave(c) ==
  /\ c \notin gone
  /\ gone' = gone \cup {c}
  /\ calls' = [i \in DOMAIN calls |->
                 IF calls[i].client = c THEN [calls[i] EXCEPT !.waiting = FALSE] ELSE calls[i]]
  /\ UNCHANGED <<queue, service, level>>
  /\ Silent

(* The bus starts the service for a queued call; it requests its name      *)
(* before it reads the module table.                                       *)
Activate ==
  /\ pc = "down"
  /\ queue # <<>>
  /\ pc' = "load"
  /\ UNCHANGED <<calls, queue, gone, cur, results, end, level>>
  /\ Silent

(* context_read_data.                                                      *)
Load ==
  /\ pc = "load"
  /\ pc' = "loop"
  /\ UNCHANGED <<calls, queue, gone, cur, results, end, level>>
  /\ Silent

(* One reply for call i, and how the service ended the call.               *)
Ended(call, r, d) == [call EXCEPT !.replies = Append(@, r), !.waiting = FALSE, !.done = d]
Replied(i, r, d) == [calls EXCEPT ![i] = Ended(calls[i], r, d)]

(* The service dies or leaves main, while a script may have set the level. *)
(* The bus replies for it to all calls it was to answer.                   *)
Unanswered == {i \in DOMAIN calls : calls[i].replies = <<>>}
Die ==
  /\ pc # "down"
  /\ calls' = [i \in DOMAIN calls |->
                 IF i \in Unanswered
                   THEN [calls[i] EXCEPT !.replies = <<"error">>, !.waiting = FALSE, !.done = "lost"]
                   ELSE calls[i]]
  /\ level' \in {level} \cup (IF pc = "work" /\ calls[cur].method = "SetDebug"
                                THEN {calls[cur].level} ELSE {})
  /\ queue' = <<>>
  /\ pc' = "down"
  /\ cur' = None
  /\ results' = <<>>
  /\ end' = "all"
  /\ UNCHANGED gone
  /\ Silent

-----------------------------------------------------------------------------
(* The main loop and the handlers.                                         *)

(* sd_bus_process dispatches messages in the order of their arrival; the   *)
(* variant takes the latest first.                                         *)
NextPlaceLatest == Len(queue)
NextPlace == 1
Without(n) == [k \in 1 .. Len(queue) - 1 |-> queue[IF k < n THEN k ELSE k + 1]]

(* A call that needs no authorization is answered at once; GetState sends  *)
(* an error reply for a module that is not recorded.                       *)
Take ==
  /\ pc = "loop"
  /\ queue # <<>>
  /\ queue' = Without(NextPlace)
  /\ LET i == queue[NextPlace] IN
     IF calls[i].method = "GetState"
       THEN /\ \E r \in {"return", "error"} : calls' = Replied(i, r, "ok")
            /\ UNCHANGED <<pc, cur>>
       ELSE /\ pc' = "auth"
            /\ cur' = i
            /\ UNCHANGED calls
  /\ UNCHANGED <<gone, results, end, level>>
  /\ Silent

(* polkit asks the user, who allows or refuses; for a caller that left it  *)
(* allows nothing, and the call to polkit may fail.                        *)
Polkit ==
  /\ pc = "auth"
  /\ calls[cur].verdict = "none"
  /\ \E v \in {"no", "failed"} \cup (IF calls[cur].client \in gone THEN {} ELSE {"yes"}) :
       calls' = [calls EXCEPT ![cur].verdict = v]
  /\ UNCHANGED <<queue, gone, service, level>>
  /\ Silent

(* interactive_permission_check returned 0; the variant takes the positive *)
(* result "not authorized" for success.                                    *)
AllowedUnlessError(i) == calls[i].verdict \in {"yes", "no"}
Allowed(i) == calls[i].verdict = "yes"

(* The error reply of a refused call, which sd-bus sends because the       *)
(* handler has set the error; the variant relies on a negative result.     *)
RefusalErrno(i) == IF calls[i].verdict = "failed"
                     THEN Replied(i, "error", "refused")
                     ELSE [calls EXCEPT ![i].done = "refused"]
Refusal(i) == Replied(i, "error", "refused")

Authorize ==
  /\ pc = "auth"
  /\ calls[cur].verdict # "none"
  /\ IF Allowed(cur)
       THEN /\ pc' = "work"
            /\ UNCHANGED <<calls, cur>>
       ELSE /\ calls' = Refusal(cur)
            /\ pc' = "loop"
            /\ cur' = None
  /\ UNCHANGED <<queue, gone, results, end, level>>
  /\ Silent

(* ret: some pair failed; the variant looks at the last pair only.         *)
FailedLast(rs) == rs # <<>> /\ ~ rs[Len(rs)]
Failed(rs) == \E i \in DOMAIN rs : ~ rs[i]

(* The loop of SetDebug ends when all pairs are read, when one cannot be   *)
(* read, which sets the error and leaves ret alone, or the handler gives   *)
(* up with a negative result: the array cannot be entered, or there is no  *)
(* memory for the level of "all".                                          *)
Ends(rs) ==
  {"unread"} \cup (IF rs = <<>> THEN {"gaveUp"} ELSE {"all"})
             \cup (IF rs # <<>> /\ rs[Len(rs)] THEN {"gaveUp"} ELSE {})

(* The level afterwards, when some of the pairs may not have been set.     *)
LevelsLeft(rs, e) ==
  IF rs = <<>> THEN {level}
  ELSE {calls[cur].level} \cup (IF Failed(rs) \/ e = "unread" THEN {level} ELSE {})

(* SetDebug, to the method return, which a call that failed does not get.  *)
WorkSetDebug ==
  /\ pc = "work"
  /\ calls[cur].method = "SetDebug"
  /\ \E rs \in Results : \E e \in Ends(rs) :
       /\ results' = rs
       /\ end' = e
       /\ level' \in LevelsLeft(rs, e)
       /\ calls' = IF Failed(rs) \/ e = "gaveUp" THEN calls
                   ELSE Replied(cur, "return", IF e = "unread" THEN "cut" ELSE "ok")
  /\ pc' = "signal"
  /\ UNCHANGED <<queue, gone, cur>>
  /\ Silent

(* SetCoredump (and InstallDbg, which differs in the script it runs).      *)
WorkSetCoredump ==
  /\ pc = "work"
  /\ calls[cur].method = "SetCoredump"
  /\ \E r \in {"return", "error"} :
       calls' = Replied(cur, r, IF r = "return" THEN "ok" ELSE "failed")
  /\ pc' = "loop"
  /\ cur' = None
  /\ UNCHANGED <<queue, gone, results, end, level>>
  /\ Silent

(* The result announced.  Variants: the need of a reboot wins; the result  *)
(* is spelt as notify.sh spells it.                                        *)
ResultSpelt(rs, reboot) ==
  IF Failed(rs) THEN "fail" ELSE IF reboot THEN "reboot" ELSE "sucess"
ResultRebootFirst(rs, reboot) ==
  IF reboot THEN "reboot" ELSE IF Failed(rs) THEN "fail" ELSE "success"
Result(rs, reboot) ==
  IF Failed(rs) THEN "fail" ELSE IF reboot THEN "reboot" ELSE "success"

(* The handler has set its error for some pair, or gives up.               *)
ErrorSet == end # "all" \/ \E i \in DOMAIN results : ~ results[i]

(* MethodFinished is broadcast, unless the handler gave up; then sd-bus    *)
(* sends the error reply of a handler that has set its error, also after a *)
(* method return.                                                          *)
Finish ==
  /\ pc = "signal"
  /\ IF end = "gaveUp"
       THEN Silent
       ELSE \E reboot \in BOOLEAN : /\ reboot => results # <<>>
                                    /\ signal' = Result(results, reboot)
  /\ calls' = IF ErrorSet
                THEN Replied(cur, "error", IF calls[cur].done = "cut" THEN "cut" ELSE "failed")
                ELSE calls
  /\ pc' = "loop"
  /\ cur' = None
  /\ results' = <<>>
  /\ end' = "all"
  /\ UNCHANGED <<queue, gone, level>>

Work == WorkSetDebug \/ WorkSetCoredump
Serve == Activate \/ Load \/ Take \/ Authorize \/ Work \/ Finish

Next ==
  \/ \E c \in Clients : Issue(c) \/ TimeOut(c) \/ Leave(c)
  \/ Polkit \/ Serve \/ Die

(* The thread runs, scripts end, and whoever polkit asks answers in the    *)
(* end.  Nothing makes a client wait or give up.                           *)
Fairness == WF_vars(Serve) /\ WF_vars(Polkit)

Spec == Init /\ [][Next]_vars /\ Fairness

-----------------------------------------------------------------------------
(* Properties.                                                             *)

TypeOK ==
  /\ calls \in Seq([client : Clients, method : Methods, level : Levels \cup {Initial}, waiting : BOOLEAN,
                    verdict : {"none", "yes", "no", "failed"},
                    done : {"no", "refused", "ok", "cut", "failed", "lost"},
                    replies : Seq({"return", "error"})])
  /\ queue \in Seq(DOMAIN calls)
  /\ gone \subseteq Clients
  /\ pc \in {"down", "load", "loop", "auth", "work", "signal"}
  /\ cur \in DOMAIN calls \cup {None}
  /\ cur # None <=> pc \in {"auth", "work", "signal"}
  /\ results \in Results \cup {<<>>}
  /\ end \in {"all", "unread", "gaveUp"}
  /\ level \in Levels \cup {Initial}
  /\ signal \in {"none", "fail", "reboot", "success"}

(* Each call gets one reply, neither none nor two, once the service has    *)
(* turned to another call or died: sd-bus sends an error by itself when    *)
(* the handler has set one, and method_set_debug replies by itself when ret*)
(* is 0 (bus-service.c:284-294).  The one call with two is "cut": a pair   *)
(* could not be read and no other failed (255-259); its method return goes *)
(* out before the error, so that the client hears of a success.            *)
Settled(call) ==
  \/ call.replies = <<"return">>
  \/ call.replies = <<"error">> /\ call.done # "cut"
  \/ Len(call.replies) = 2 /\ call.replies[1] = "return" /\ call.done = "cut"
OneReply ==
  \A i \in DOMAIN calls :
    IF i \in {queue[j] : j \in DOMAIN queue} THEN calls[i].replies = <<>>
    ELSE IF i = cur
      THEN calls[i].replies = IF calls[i].done = "no" THEN <<>> ELSE <<"return">>
      ELSE Settled(calls[i])

(* The signal and the reply that the client takes, the first, tell the     *)
(* same: MethodFinished says "fail" exactly when that is an error,         *)
(* whichever pair failed, whether or not the last could be read and some   *)
(* module needs a reboot; only a handler that gave up sends no signal, and *)
(* its call gets an error (bus-service.c:236-294).                         *)
SignalTellsReply ==
  [][pc = "signal" /\ pc' = "loop" =>
       LET failed == calls'[cur].replies = <<"error">> IN
       IF end = "gaveUp" THEN signal' = "none" /\ failed
                         ELSE signal' # "none" /\ (signal' = "fail" <=> failed)]_vars

(* A level is changed only for a call whose own sender polkit has allowed, *)
(* however the calls of several clients, their departures and the restarts *)
(* of the service interleave (interactive_permission_check).               *)
OnlyAllowed ==
  [][level' # level => cur # None /\ calls[cur].verdict = "yes" /\ level' = calls[cur].level]_vars

(* What the clients see is a service that carries the calls out one after  *)
(* another in the order of their arrival: a level takes hold when its call *)
(* returns, a call that fails spoils no other, and the latest request to   *)
(* return leaves its level in force even when its client had given up on   *)
(* earlier ones that were still queued (the order in which sd_bus_process  *)
(* takes the calls, and the places where the handlers set and reply).  A   *)
(* call that is cut is one of the third kind AbstractBusService names.     *)
AnswerOf(i) ==
  IF calls[i].replies # <<>>
    THEN IF calls[i].done = "cut" THEN "cut" ELSE calls[i].replies[1]
    ELSE IF i = cur /\ pc = "signal" THEN "failing" ELSE "none"
Seen == [i \in DOMAIN calls |-> [asks |-> calls[i].level, answer |-> AnswerOf(i)]]
Promise == INSTANCE AbstractBusService WITH calls <- Seen
InTurn == Promise!Spec

(* No call stays without an answer, if polkit's questions are answered and *)
(* scripts end (the loop of main and the error replies of the handlers).   *)
EveryCallEnds ==
  \A n \in 1 .. MaxCalls :
    (n \in DOMAIN calls /\ calls[n].replies = <<>>)
      ~> (n \in DOMAIN calls /\ calls[n].replies # <<>>)
=============================================================================
