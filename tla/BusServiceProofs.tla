-------------------------- MODULE BusServiceProofs --------------------------
(***************************************************************************)
(* Theorems about BusService, for any clients, levels, results and number  *)
(* of calls: each call gets one reply, which agrees with the signal, only  *)
(* an authorized call changes a level, and every step of the service is a  *)
(* step of AbstractBusService or none.                                     *)
(***************************************************************************)
EXTENDS BusService, SequenceTheorems, TLAPS

-----------------------------------------------------------------------------
(* The inductive invariant.                                                *)

Dones == {"no", "refused", "ok", "cut", "failed", "lost"}
CallRecord ==
  [client : Clients, method : Methods, level : Levels \cup {Initial}, waiting : BOOLEAN,
   verdict : {"none", "yes", "no", "failed"}, done : Dones, replies : Seq({"return", "error"})]

Queued == {queue[j] : j \in DOMAIN queue}

(* Only SetDebug asks for a level.                                         *)
Asking == \A i \in DOMAIN calls : calls[i].method = "SetDebug" <=> calls[i].level # Initial

Fresh(i) == calls[i].replies = <<>> /\ calls[i].done = "no"

(* The queue has the order of the calls, the current call came before it,  *)
(* and nothing in it has been answered.                                    *)
InOrder ==
  /\ \A j, k \in DOMAIN queue : j < k => queue[j] < queue[k]
  /\ \A j \in DOMAIN queue : cur < queue[j] /\ Fresh(queue[j])

Past == \A i \in DOMAIN calls : i = cur \/ i \in Queued \/ Settled(calls[i])

(* The loop over the pairs of the current call ended with an error reply   *)
(* to come and no method return before it.                                 *)
Fails == Failed(results) \/ end = "gaveUp"

(* How far the current call is.                                            *)
Present ==
  /\ pc \in {"auth", "work"} => calls[cur].done = "no" /\ calls[cur].replies = <<>>
  /\ pc = "work" => calls[cur].verdict = "yes"
  /\ pc = "signal" =>
       IF Fails THEN calls[cur].done = "no" /\ calls[cur].replies = <<>>
       ELSE /\ calls[cur].done = IF end = "unread" THEN "cut" ELSE "ok"
            /\ calls[cur].replies = <<"return">>

Inv == TypeOK /\ Asking /\ InOrder /\ Past /\ Present

(* The types as the proofs use them.                                       *)
LEMMA Types ==
  ASSUME TypeOK
  PROVE  /\ calls \in Seq(CallRecord) /\ Len(calls) \in Nat /\ DOMAIN calls = 1 .. Len(calls)
         /\ queue \in Seq(DOMAIN calls) /\ Len(queue) \in Nat /\ DOMAIN queue = 1 .. Len(queue)
         /\ \A j \in DOMAIN queue : queue[j] \in 1 .. Len(calls)
         /\ \A i \in DOMAIN calls : calls[i] \in CallRecord
         /\ cur \in Nat /\ cur <= Len(calls)
         /\ cur # None <=> cur \in DOMAIN calls
         /\ cur # None <=> pc \in {"auth", "work", "signal"}
<1>1. /\ calls \in Seq(CallRecord) /\ queue \in Seq(DOMAIN calls)
      /\ cur \in DOMAIN calls \cup {None} /\ (cur # None <=> pc \in {"auth", "work", "signal"})
  BY DEF TypeOK, CallRecord, Dones
<1>2. /\ Len(calls) \in Nat /\ DOMAIN calls = 1 .. Len(calls)
      /\ \A i \in DOMAIN calls : calls[i] \in CallRecord
  BY <1>1
<1>3. /\ Len(queue) \in Nat /\ DOMAIN queue = 1 .. Len(queue)
      /\ \A j \in DOMAIN queue : queue[j] \in DOMAIN calls
  BY <1>1
<1>4. cur \in Nat /\ cur <= Len(calls) /\ (cur # None <=> cur \in DOMAIN calls)
  BY <1>1, <1>2 DEF None
<1>5. QED BY <1>1, <1>2, <1>3, <1>4

-----------------------------------------------------------------------------
(* What the steps do to calls.                                             *)

(* A call stays as it is but for what its client and polkit know.          *)
SameAnswer(i) ==
  /\ calls'[i].method = calls[i].method /\ calls'[i].level = calls[i].level
  /\ calls'[i].done = calls[i].done /\ calls'[i].replies = calls[i].replies

SameCalls ==
  /\ calls' \in Seq(CallRecord) /\ Len(calls') = Len(calls)
  /\ \A i \in DOMAIN calls : SameAnswer(i)

LEMMA SeqIsFunction ==
  ASSUME NEW C, NEW s \in Seq(C)
  PROVE  s = [i \in 1 .. Len(s) |-> s[i]]
OBVIOUS

LEMMA SeqOfSameLength ==
  ASSUME NEW C, NEW D, NEW s \in Seq(C), NEW f, f \in [DOMAIN s -> D]
  PROVE  f \in Seq(D) /\ Len(f) = Len(s) /\ DOMAIN f = DOMAIN s
<1>1. Len(s) \in Nat /\ DOMAIN s = 1 .. Len(s)
  OBVIOUS
<1>2. f \in [1 .. Len(s) -> D]
  BY <1>1
<1>3. QED BY <1>1, <1>2, SeqDef

LEMMA ClientsKeepCalls ==
  ASSUME TypeOK, NEW c \in Clients,
         calls' = [i \in DOMAIN calls |->
                     IF calls[i].client = c THEN [calls[i] EXCEPT !.waiting = FALSE] ELSE calls[i]]
  PROVE  SameCalls /\ \A i \in DOMAIN calls : calls'[i].verdict = calls[i].verdict
<1>1. \A i \in DOMAIN calls :
        /\ calls'[i] \in CallRecord /\ SameAnswer(i) /\ calls'[i].verdict = calls[i].verdict
  <2>1. TAKE i \in DOMAIN calls
  <2>2. calls[i] \in CallRecord
    BY Types
  <2>3. calls'[i] = IF calls[i].client = c THEN [calls[i] EXCEPT !.waiting = FALSE] ELSE calls[i]
    OBVIOUS
  <2>4. [calls[i] EXCEPT !.waiting = FALSE] \in CallRecord
    BY <2>2, Zenon DEF CallRecord
  <2>5. CASE calls[i].client = c
    <3>1. calls'[i] = [calls[i] EXCEPT !.waiting = FALSE]
      BY <2>3, <2>5
    <3>2. QED BY <2>2, <2>4, <3>1 DEF CallRecord, SameAnswer
  <2>6. CASE calls[i].client # c
    BY <2>2, <2>3, <2>6 DEF SameAnswer
  <2>7. QED BY <2>5, <2>6
<1>2. calls' \in [DOMAIN calls -> CallRecord]
  BY <1>1
<1>3. calls' \in Seq(CallRecord) /\ Len(calls') = Len(calls)
  <2>1. calls \in Seq(CallRecord)
    BY Types
  <2>2. QED BY <2>1, <1>2, SeqOfSameLength
<1>4. QED BY <1>1, <1>3 DEF SameCalls

(* What a reply changes.                                                   *)
LEMMA ReplyFields ==
  ASSUME TypeOK, NEW i \in DOMAIN calls, NEW r \in {"return", "error"}, NEW d \in Dones,
         calls' = Replied(i, r, d)
  PROVE  /\ calls' \in Seq(CallRecord) /\ Len(calls') = Len(calls)
         /\ \A j \in DOMAIN calls : j # i => calls'[j] = calls[j]
         /\ calls'[i].method = calls[i].method /\ calls'[i].level = calls[i].level
         /\ calls'[i].done = d /\ calls'[i].replies = Append(calls[i].replies, r)
<1>1. calls[i] \in CallRecord
  BY Types
<1> DEFINE new == Ended(calls[i], r, d)
<1>2. calls' = [calls EXCEPT ![i] = new]
  BY DEF Replied
<1>3. Append(calls[i].replies, r) \in Seq({"return", "error"})
  BY <1>1 DEF CallRecord
<1>4. new \in CallRecord
  BY <1>1, <1>3, Zenon DEF CallRecord, Ended
<1>5. /\ new.method = calls[i].method /\ new.level = calls[i].level
      /\ new.done = d /\ new.replies = Append(calls[i].replies, r)
  BY <1>1 DEF CallRecord, Ended
<1> HIDE DEF new
<1>6. calls' \in [DOMAIN calls -> CallRecord]
  BY <1>2, <1>4, Types
<1>7. calls' \in Seq(CallRecord) /\ Len(calls') = Len(calls)
  <2>1. calls \in Seq(CallRecord)
    BY Types
  <2>2. QED BY <2>1, <1>6, SeqOfSameLength
<1>8. calls'[i] = new /\ \A j \in DOMAIN calls : j # i => calls'[j] = calls[j]
  BY <1>2
<1>9. QED BY <1>5, <1>7, <1>8

-----------------------------------------------------------------------------
(* The invariant holds on.                                                 *)

(* The variables other than calls, queue and cur.                          *)
Rest ==
  /\ gone \subseteq Clients
  /\ pc \in {"down", "load", "loop", "auth", "work", "signal"}
  /\ cur # None <=> pc \in {"auth", "work", "signal"}
  /\ results \in Results \cup {<<>>}
  /\ end \in {"all", "unread", "gaveUp"}
  /\ level \in Levels \cup {Initial}
  /\ signal \in {"none", "fail", "reboot", "success"}

LEMMA TypeParts ==
  TypeOK <=> /\ calls \in Seq(CallRecord) /\ queue \in Seq(DOMAIN calls)
             /\ cur \in DOMAIN calls \cup {None} /\ Rest
BY DEF TypeOK, CallRecord, Dones, Rest

LEMMA TypePartsNext ==
  TypeOK' <=> /\ calls' \in Seq(CallRecord) /\ queue' \in Seq(DOMAIN calls')
              /\ cur' \in DOMAIN calls' \cup {None} /\ Rest'
BY DEF TypeOK, CallRecord, Dones, Rest

Shape == calls \in Seq(CallRecord) /\ queue \in Seq(DOMAIN calls) /\ cur \in DOMAIN calls \cup {None}

(* Steps that give no answer.                                              *)
LEMMA QuietStep ==
  ASSUME Inv, SameCalls, UNCHANGED <<queue, cur>>
  PROVE  Shape' /\ Asking' /\ InOrder' /\ Past' /\ DOMAIN calls' = DOMAIN calls
<1>0. TypeOK /\ Asking /\ InOrder /\ Past
  BY DEF Inv
<1>1. calls' \in Seq(CallRecord) /\ DOMAIN calls' = DOMAIN calls
  BY <1>0, Types DEF SameCalls
<1>2. Shape'
  BY <1>0, <1>1, Types DEF Shape, TypeOK
<1>3. Asking'
  BY <1>0, <1>1 DEF Asking, SameCalls, SameAnswer
<1>4. InOrder'
  BY <1>0, <1>1, Types DEF InOrder, Fresh, SameCalls, SameAnswer
<1>5. Past'
  BY <1>0, <1>1 DEF Past, Queued, Settled, SameCalls, SameAnswer
<1>6. QED BY <1>1, <1>2, <1>3, <1>4, <1>5

LEMMA UnchangedCalls ==
  ASSUME TypeOK, UNCHANGED calls
  PROVE  SameCalls
BY Types DEF SameCalls, SameAnswer

(* The service answers the current call, and goes on with it or is done.   *)
LEMMA AnswerStep ==
  ASSUME Inv, cur # None, calls[cur].replies = <<>>, UNCHANGED queue, cur' \in {cur, None},
         NEW r \in {"return", "error"}, NEW d \in Dones, calls' = Replied(cur, r, d),
         d = "cut" => r = "return"
  PROVE  /\ Shape' /\ Asking' /\ InOrder' /\ Past' /\ DOMAIN calls' = DOMAIN calls
         /\ calls'[cur].done = d /\ calls'[cur].replies = <<r>>
<1>0. TypeOK /\ Asking /\ InOrder /\ Past /\ cur \in DOMAIN calls
  BY Types DEF Inv
<1>1. /\ calls' \in Seq(CallRecord) /\ Len(calls') = Len(calls)
      /\ \A j \in DOMAIN calls : j # cur => calls'[j] = calls[j]
      /\ calls'[cur].method = calls[cur].method /\ calls'[cur].level = calls[cur].level
      /\ calls'[cur].done = d /\ calls'[cur].replies = Append(calls[cur].replies, r)
  BY <1>0, ReplyFields
<1>2. DOMAIN calls' = DOMAIN calls
  BY <1>0, <1>1, Types
<1>3. calls'[cur].replies = <<r>> /\ Settled(calls'[cur])
  <2>1. calls'[cur].replies = <<r>>
    BY <1>1
  <2>2. QED BY <1>1, <2>1 DEF Settled
<1>4. Shape'
  BY <1>0, <1>1, <1>2, Types DEF Shape, TypeOK
<1>5. Asking'
  BY <1>0, <1>1, <1>2 DEF Asking
<1>6. \A j \in DOMAIN queue : queue[j] # cur /\ queue[j] \in DOMAIN calls
  BY <1>0, Types DEF InOrder
<1>7. InOrder'
  BY <1>0, <1>1, <1>6, Types DEF InOrder, Fresh, None
<1>8. Past'
  BY <1>0, <1>1, <1>2, <1>3 DEF Past, Queued, Settled
<1>9. QED BY <1>1, <1>2, <1>3, <1>4, <1>5, <1>7, <1>8

LEMMA IssueStep ==
  ASSUME Inv, NEW c \in Clients, Issue(c)
  PROVE  Inv'
<1>0. TypeOK /\ Asking /\ InOrder /\ Past /\ Present /\ Rest
  BY TypeParts DEF Inv
<1>1. PICK a \in Arguments : calls' = Append(calls, NewCall(c, a))
  BY DEF Issue
<1>2. /\ queue' = Append(queue, Len(calls'))
      /\ UNCHANGED <<gone, pc, cur, results, end, level>> /\ signal' = "none"
  BY DEF Issue, service, Silent
<1> DEFINE n == Len(calls) + 1
           new == NewCall(c, a)
<1>3. /\ new \in CallRecord /\ new.replies = <<>> /\ new.done = "no"
      /\ new.method = "SetDebug" <=> new.level # Initial
  <2>1. /\ a.method \in Methods /\ a.level \in Levels \cup {Initial}
        /\ a.method = "SetDebug" <=> a.level # Initial
    BY InitialIsNoRequest DEF Arguments, Methods
  <2>2. /\ new.method = a.method /\ new.level = a.level /\ new.replies = <<>>
        /\ new.done = "no"
    BY DEF NewCall
  <2>3. new \in CallRecord
    <3>1. <<>> \in Seq({"return", "error"})
      OBVIOUS
    <3>2. "none" \in {"none", "yes", "no", "failed"} /\ "no" \in Dones
      BY DEF Dones
    <3>3. QED BY <2>1, <3>1, <3>2, Zenon DEF NewCall, CallRecord
  <2>4. QED BY <2>1, <2>2, <2>3
<1> HIDE DEF new
<1>4. /\ calls' \in Seq(CallRecord) /\ Len(calls') = n /\ DOMAIN calls' = 1 .. n
      /\ calls'[n] = new /\ \A i \in DOMAIN calls : calls'[i] = calls[i]
  BY <1>0, <1>1, <1>3, Types DEF new
<1>5. DOMAIN calls = 1 .. Len(calls) /\ Len(calls) \in Nat /\ DOMAIN calls \subseteq DOMAIN calls'
  BY <1>0, <1>4, Types
<1>6. /\ Len(queue') = Len(queue) + 1 /\ DOMAIN queue' = 1 .. Len(queue) + 1
      /\ queue'[Len(queue) + 1] = n /\ \A j \in DOMAIN queue : queue'[j] = queue[j]
      /\ queue' \in Seq(DOMAIN calls')
  <2>1. queue \in Seq(DOMAIN calls')
    <3>1. queue \in [1 .. Len(queue) -> DOMAIN calls'] /\ Len(queue) \in Nat
      BY <1>0, <1>5, Types
    <3>2. QED BY <3>1, SeqDef
  <2>2. n \in DOMAIN calls'
    BY <1>4, <1>5
  <2>3. queue' = Append(queue, n)
    BY <1>2, <1>4
  <2>4. QED BY <2>1, <2>2, <2>3
<1>7. TypeOK'
  <2>1. Rest'
    BY <1>0, <1>2 DEF Rest
  <2>2. cur' \in DOMAIN calls' \cup {None}
    BY <1>0, <1>2, <1>5, Types
  <2>3. QED BY <1>4, <1>6, <2>1, <2>2, TypePartsNext
<1>8. Asking'
  BY <1>0, <1>3, <1>4, <1>5 DEF Asking
<1>9. InOrder'
  <2>1. \A j \in DOMAIN queue' : j \in DOMAIN queue \/ j = Len(queue) + 1
    BY <1>0, <1>6, Types
  <2>2. \A j \in DOMAIN queue : queue[j] \in DOMAIN calls /\ queue[j] < n /\ j < Len(queue) + 1
    BY <1>0, <1>5, Types
  <2>3. cur < n
    BY <1>0, <1>5, Types
  <2>4. \A j, k \in DOMAIN queue' : j < k => queue'[j] < queue'[k]
    BY <1>0, <1>6, <2>1, <2>2, Types DEF InOrder
  <2>5. \A j \in DOMAIN queue' : cur' < queue'[j] /\ Fresh(queue[j])'
    BY <1>0, <1>2, <1>3, <1>4, <1>6, <2>1, <2>2, <2>3 DEF InOrder, Fresh
  <2>6. QED BY <2>4, <2>5 DEF InOrder
<1>10. Past'
  <2>1. SUFFICES ASSUME NEW i \in DOMAIN calls'
                 PROVE  i = cur' \/ i \in Queued' \/ Settled(calls'[i])
    BY DEF Past
  <2>2. CASE i = n
    <3>1. Len(queue) + 1 \in DOMAIN queue'
      BY <1>0, <1>6, Types
    <3>2. QED BY <1>6, <2>2, <3>1 DEF Queued
  <2>3. CASE i \in DOMAIN calls
    <3>1. CASE i \in Queued
      <4>1. PICK j \in DOMAIN queue : i = queue[j]
        BY <3>1 DEF Queued
      <4>2. j \in DOMAIN queue' /\ queue'[j] = i
        BY <1>0, <1>6, <4>1, Types
      <4>3. QED BY <4>2 DEF Queued
    <3>2. CASE i \notin Queued
      BY <1>0, <1>2, <1>4, <2>3, <3>2 DEF Past, Settled
    <3>3. QED BY <3>1, <3>2
  <2>4. QED BY <1>4, <1>5, <2>2, <2>3
<1>11. Present'
  <2>1. cur # None => calls'[cur] = calls[cur]
    BY <1>0, <1>4, Types
  <2>2. QED BY <1>0, <1>2, <2>1 DEF Present, Rest, Fails, Failed
<1>12. QED BY <1>7, <1>8, <1>9, <1>10, <1>11 DEF Inv

-----------------------------------------------------------------------------
(* One lemma per action.                                                   *)

LEMMA ClientStep ==
  ASSUME Inv, NEW c \in Clients, TimeOut(c) \/ Leave(c)
  PROVE  Inv'
<1>0. TypeOK /\ Present /\ Rest
  BY TypeParts DEF Inv
<1>1. /\ UNCHANGED <<queue, pc, cur, results, end, level>> /\ signal' = "none"
      /\ gone' \subseteq gone \cup {c}
      /\ calls' = [i \in DOMAIN calls |->
                     IF calls[i].client = c THEN [calls[i] EXCEPT !.waiting = FALSE] ELSE calls[i]]
  BY DEF TimeOut, Leave, service, Silent
<1>2. SameCalls /\ \A i \in DOMAIN calls : calls'[i].verdict = calls[i].verdict
  BY <1>0, <1>1, ClientsKeepCalls
<1>3. Shape' /\ Asking' /\ InOrder' /\ Past' /\ DOMAIN calls' = DOMAIN calls
  BY <1>1, <1>2, QuietStep
<1>4. Rest'
  BY <1>0, <1>1 DEF Rest
<1>5. Present'
  BY <1>0, <1>1, <1>2, Types DEF Present, Rest, SameCalls, SameAnswer, Fails, Failed
<1>6. QED BY <1>3, <1>4, <1>5, TypePartsNext DEF Inv, Shape

LEMMA StartStep ==
  ASSUME Inv, Activate \/ Load
  PROVE  Inv'
<1>0. TypeOK /\ Rest
  BY TypeParts DEF Inv
<1>1. /\ UNCHANGED <<calls, queue, gone, cur, results, end, level>> /\ signal' = "none"
      /\ pc \in {"down", "load"} /\ pc' \in {"load", "loop"}
  BY DEF Activate, Load, Silent
<1>2. Shape' /\ Asking' /\ InOrder' /\ Past'
  BY <1>0, <1>1, UnchangedCalls, QuietStep
<1>3. Rest' /\ Present'
  BY <1>0, <1>1 DEF Rest, Present
<1>4. QED BY <1>2, <1>3, TypePartsNext DEF Inv, Shape

LEMMA PolkitStep ==
  ASSUME Inv, Polkit
  PROVE  Inv' /\ SameCalls
<1>0. TypeOK /\ Present /\ Rest /\ pc = "auth" /\ cur \in DOMAIN calls
  BY TypeParts, Types DEF Inv, Polkit
<1>1. /\ UNCHANGED <<queue, gone, pc, cur, results, end, level>> /\ signal' = "none"
  BY DEF Polkit, service, Silent
<1>2. PICK v \in {"no", "failed", "yes"} : calls' = [calls EXCEPT ![cur].verdict = v]
  BY DEF Polkit
<1>3. calls[cur] \in CallRecord
  BY <1>0, Types
<1>4. calls' = [calls EXCEPT ![cur] = [calls[cur] EXCEPT !.verdict = v]]
  BY <1>2
<1>5. [calls[cur] EXCEPT !.verdict = v] \in CallRecord
  <2>1. v \in {"none", "yes", "no", "failed"}
    OBVIOUS
  <2>2. QED BY <1>3, <2>1, Zenon DEF CallRecord
<1>6. calls' \in [DOMAIN calls -> CallRecord]
  BY <1>0, <1>4, <1>5, Types
<1>7. calls' \in Seq(CallRecord) /\ Len(calls') = Len(calls)
  <2>1. calls \in Seq(CallRecord)
    BY <1>0, Types
  <2>2. QED BY <2>1, <1>6, SeqOfSameLength
<1>8. \A i \in DOMAIN calls : SameAnswer(i)
  <2>1. SameAnswer(cur)
    BY <1>0, <1>3, <1>4 DEF SameAnswer, CallRecord
  <2>2. \A i \in DOMAIN calls \ {cur} : calls'[i] = calls[i]
    BY <1>4
  <2>3. QED BY <2>1, <2>2 DEF SameAnswer
<1>9. Shape' /\ Asking' /\ InOrder' /\ Past' /\ DOMAIN calls' = DOMAIN calls
  BY <1>1, <1>7, <1>8, QuietStep DEF SameCalls
<1>10. Rest' /\ Present'
  BY <1>0, <1>1, <1>8 DEF Rest, Present, SameAnswer
<1>11. QED BY <1>7, <1>8, <1>9, <1>10, TypePartsNext DEF Inv, Shape, SameCalls

LEMMA AuthorizeStep ==
  ASSUME Inv, Authorize
  PROVE  Inv'
<1>0. TypeOK /\ Present /\ Rest /\ pc = "auth" /\ cur # None
  BY TypeParts, Types DEF Inv, Authorize
<1>1. UNCHANGED <<queue, gone, results, end, level>> /\ signal' = "none"
  BY DEF Authorize, Silent
<1>2. CASE Allowed(cur)
  <2>1. pc' = "work" /\ UNCHANGED <<calls, cur>>
    BY <1>2 DEF Authorize
  <2>2. Shape' /\ Asking' /\ InOrder' /\ Past'
    BY <1>0, <1>1, <2>1, UnchangedCalls, QuietStep
  <2>3. Rest' /\ Present'
    BY <1>0, <1>1, <1>2, <2>1 DEF Rest, Present, Allowed
  <2>4. QED BY <2>2, <2>3, TypePartsNext DEF Inv, Shape
<1>3. CASE ~ Allowed(cur)
  <2>1. calls' = Replied(cur, "error", "refused") /\ pc' = "loop" /\ cur' = None
    BY <1>3 DEF Authorize, Refusal
  <2>2. calls[cur].replies = <<>> /\ "refused" \in Dones
    BY <1>0 DEF Present, Dones
  <2>3. Shape' /\ Asking' /\ InOrder' /\ Past'
    BY <1>0, <1>1, <2>1, <2>2, AnswerStep
  <2>4. Rest' /\ Present'
    BY <1>0, <1>1, <2>1 DEF Rest, Present
  <2>5. QED BY <2>3, <2>4, TypePartsNext DEF Inv, Shape
<1>4. QED BY <1>2, <1>3

LEMMA SetDebugStep ==
  ASSUME Inv, WorkSetDebug
  PROVE  Inv'
<1>0. TypeOK /\ Present /\ Rest /\ pc = "work" /\ cur # None /\ cur \in DOMAIN calls
  BY TypeParts, Types DEF Inv, WorkSetDebug
<1>1. UNCHANGED <<queue, gone, cur>> /\ signal' = "none" /\ pc' = "signal"
  BY DEF WorkSetDebug, Silent
<1>2. /\ results' \in Results /\ end' \in {"all", "unread", "gaveUp"}
      /\ level' \in {calls[cur].level, level}
      /\ calls' = IF Fails' THEN calls
                  ELSE Replied(cur, "return", IF end' = "unread" THEN "cut" ELSE "ok")
  BY DEF WorkSetDebug, Ends, LevelsLeft, Fails
<1>3. calls[cur].level \in Levels \cup {Initial}
  BY <1>0, Types DEF CallRecord
<1>4. Rest'
  BY <1>0, <1>1, <1>2, <1>3 DEF Rest
<1>5. calls[cur].done = "no" /\ calls[cur].replies = <<>> /\ {"ok", "cut"} \subseteq Dones
  BY <1>0 DEF Present, Dones
<1>6. CASE Fails'
  <2>1. UNCHANGED calls
    BY <1>2, <1>6
  <2>2. Shape' /\ Asking' /\ InOrder' /\ Past'
    BY <1>0, <1>1, <2>1, UnchangedCalls, QuietStep
  <2>3. Present'
    BY <1>1, <1>5, <1>6, <2>1 DEF Present
  <2>4. QED BY <1>4, <2>2, <2>3, TypePartsNext DEF Inv, Shape
<1>7. CASE ~ Fails'
  <2> DEFINE d == IF end' = "unread" THEN "cut" ELSE "ok"
  <2>1. calls' = Replied(cur, "return", d) /\ d \in Dones
    BY <1>2, <1>5, <1>7
  <2> HIDE DEF d
  <2>2. /\ Shape' /\ Asking' /\ InOrder' /\ Past'
        /\ calls'[cur].done = d /\ calls'[cur].replies = <<"return">>
    BY <1>0, <1>1, <1>5, <2>1, AnswerStep
  <2>3. Present'
    BY <1>1, <1>7, <2>2 DEF Present, d
  <2>4. QED BY <1>4, <2>2, <2>3, TypePartsNext DEF Inv, Shape
<1>8. QED BY <1>6, <1>7

LEMMA SetCoredumpStep ==
  ASSUME Inv, WorkSetCoredump
  PROVE  Inv'
<1>0. TypeOK /\ Present /\ Rest /\ pc = "work" /\ cur # None
  BY TypeParts, Types DEF Inv, WorkSetCoredump
<1>1. UNCHANGED <<queue, gone, results, end, level>> /\ signal' = "none" /\ pc' = "loop" /\ cur' = None
  BY DEF WorkSetCoredump, Silent
<1>2. PICK r \in {"return", "error"} :
        calls' = Replied(cur, r, IF r = "return" THEN "ok" ELSE "failed")
  BY DEF WorkSetCoredump
<1>3. calls[cur].replies = <<>> /\ (IF r = "return" THEN "ok" ELSE "failed") \in Dones
  BY <1>0 DEF Present, Dones
<1>4. Shape' /\ Asking' /\ InOrder' /\ Past'
  BY <1>0, <1>1, <1>2, <1>3, AnswerStep
<1>5. Rest' /\ Present'
  BY <1>0, <1>1 DEF Rest, Present
<1>6. QED BY <1>4, <1>5, TypePartsNext DEF Inv, Shape

LEMMA AppendToOne ==
  ASSUME NEW S, NEW s \in Seq(S), NEW e \in S, Len(s) = 1
  PROVE  Len(Append(s, e)) = 2 /\ Append(s, e)[1] = s[1]
<1>1. ASSUME NEW i \in 1 .. Len(s) PROVE Append(s, e)[i] = s[i]
  OBVIOUS
<1>2. Len(Append(s, e)) = Len(s) + 1
  BY AppendProperties
<1>3. QED BY <1>1, <1>2

LEMMA TwoReplies ==
  /\ Len(Append(<<"return">>, "error")) = 2
  /\ Append(<<"return">>, "error")[1] = "return"
  /\ Append(<<"return">>, "error") # <<"error">>
<1> DEFINE s == <<"return">>
<1>1. s \in Seq({"return", "error"}) /\ Len(s) = 1 /\ s[1] = "return" /\ Len(<<"error">>) = 1
  OBVIOUS
<1> HIDE DEF s
<1>2. Len(Append(s, "error")) = 2 /\ Append(s, "error")[1] = "return"
  <2>1. "error" \in {"return", "error"}
    OBVIOUS
  <2>2. QED BY <1>1, <2>1, AppendToOne
<1>3. QED BY <1>1, <1>2 DEF s

LEMMA FinishStep ==
  ASSUME Inv, Finish
  PROVE  /\ Inv'
         /\ IF end = "gaveUp" THEN signal' = "none"
            ELSE signal' \in {"fail", "reboot", "success"} /\ (signal' = "fail" <=> Failed(results))
         /\ calls'[cur].replies = IF Fails THEN <<"error">>
                                  ELSE IF end = "unread" THEN Append(<<"return">>, "error")
                                  ELSE <<"return">>
<1>0. TypeOK /\ Present /\ Rest /\ pc = "signal" /\ cur # None /\ cur \in DOMAIN calls
  BY TypeParts, Types DEF Inv, Finish
<1>1. /\ UNCHANGED <<queue, gone, level>> /\ pc' = "loop" /\ cur' = None
      /\ results' = <<>> /\ end' = "all"
      /\ calls' = IF Failed(results) \/ end # "all"
                    THEN Replied(cur, "error", IF calls[cur].done = "cut" THEN "cut" ELSE "failed")
                    ELSE calls
  BY DEF Finish, ErrorSet, Failed
<1>2. IF end = "gaveUp" THEN signal' = "none"
      ELSE signal' \in {"fail", "reboot", "success"} /\ (signal' = "fail" <=> Failed(results))
  BY DEF Finish, Result, Silent
<1>3. Rest' /\ Present'
  BY <1>0, <1>1, <1>2 DEF Rest, Present
<1>4. CASE Fails
  <2>1. calls[cur].replies = <<>> /\ calls[cur].done = "no" /\ "failed" \in Dones
    BY <1>0, <1>4 DEF Present, Dones
  <2>2. calls' = Replied(cur, "error", "failed")
    BY <1>1, <1>4, <2>1 DEF Fails
  <2>3. Shape' /\ Asking' /\ InOrder' /\ Past' /\ calls'[cur].replies = <<"error">>
    BY <1>0, <1>1, <2>1, <2>2, AnswerStep
  <2>4. QED BY <1>2, <1>3, <1>4, <2>3, TypePartsNext DEF Inv, Shape
<1>5. CASE ~ Fails /\ end = "unread"
  <2>1. calls[cur].replies = <<"return">> /\ calls[cur].done = "cut" /\ "cut" \in Dones
    BY <1>0, <1>5 DEF Present, Dones
  <2>2. calls' = Replied(cur, "error", "cut")
    BY <1>1, <1>5, <2>1
  <2>3. /\ calls' \in Seq(CallRecord) /\ Len(calls') = Len(calls)
        /\ \A j \in DOMAIN calls : j # cur => calls'[j] = calls[j]
        /\ calls'[cur].method = calls[cur].method /\ calls'[cur].level = calls[cur].level
        /\ calls'[cur].done = "cut" /\ calls'[cur].replies = Append(calls[cur].replies, "error")
    BY <1>0, <2>1, <2>2, ReplyFields
  <2>4. DOMAIN calls' = DOMAIN calls
    BY <1>0, <2>3, Types
  <2>5. calls'[cur].replies = Append(<<"return">>, "error") /\ Settled(calls'[cur])
    <3>1. calls'[cur].replies = Append(<<"return">>, "error")
      BY <2>1, <2>3
    <3>2. QED BY <2>3, <3>1, TwoReplies DEF Settled
  <2>6. Shape'
    BY <1>0, <1>1, <2>3, <2>4, Types DEF Shape, TypeOK
  <2>7. Asking'
    BY <2>3, <2>4 DEF Inv, Asking
  <2>8. \A j \in DOMAIN queue : queue[j] # cur /\ queue[j] \in DOMAIN calls /\ cur < queue[j]
    BY <1>0, Types DEF Inv, InOrder
  <2>9. InOrder'
    BY <1>0, <1>1, <2>3, <2>8, Types DEF Inv, InOrder, Fresh, None
  <2>10. Past'
    <3>1. \A j \in DOMAIN calls : j = cur \/ j \in Queued' \/ Settled(calls'[j])
      BY <1>1, <2>3 DEF Inv, Past, Queued
    <3>2. QED BY <2>4, <2>5, <3>1 DEF Past
  <2>11. QED BY <1>2, <1>3, <1>5, <2>5, <2>6, <2>7, <2>9, <2>10, TypePartsNext DEF Inv, Shape
<1>6. CASE ~ Fails /\ end # "unread"
  <2>1. /\ calls' = calls /\ calls[cur].replies = <<"return">> /\ calls[cur].done = "ok"
        /\ SameCalls
    BY <1>0, <1>1, <1>6, UnchangedCalls DEF Present, Fails, Rest
  <2>2. DOMAIN calls' = DOMAIN calls /\ Shape' /\ Asking'
    BY <1>0, <1>1, <2>1, TypeParts DEF Shape, Inv, Asking
  <2>3. InOrder'
    BY <1>0, <1>1, <2>1, Types DEF Inv, InOrder, Fresh, None
  <2>4. Past'
    <3>1. Settled(calls[cur])
      BY <2>1 DEF Settled
    <3>2. QED BY <1>1, <2>1, <3>1 DEF Inv, Past, Queued, Settled
  <2>5. QED BY <1>2, <1>3, <1>6, <2>1, <2>2, <2>3, <2>4, TypePartsNext DEF Inv, Shape
<1>7. QED BY <1>4, <1>5, <1>6

-----------------------------------------------------------------------------
(* Taking a call, and the end of the service.                              *)

LEMMA QueueWithoutHead ==
  ASSUME Inv, queue # <<>>, queue' = Without(NextPlace)
  PROVE  /\ 1 \in DOMAIN queue /\ queue[1] \in DOMAIN calls
         /\ queue' \in Seq(DOMAIN calls) /\ DOMAIN queue' = 1 .. Len(queue) - 1
         /\ \A k \in DOMAIN queue' : k + 1 \in DOMAIN queue /\ queue'[k] = queue[k + 1]
         /\ Queued' = Queued \ {queue[1]}
<1>0. TypeOK /\ InOrder
  BY DEF Inv
<1>1. /\ Len(queue) \in Nat /\ DOMAIN queue = 1 .. Len(queue)
      /\ \A j \in DOMAIN queue : queue[j] \in DOMAIN calls /\ queue[j] \in Nat
  BY <1>0, Types
<1>2. Len(queue) # 0
  BY <1>0, Types
<1>3. 1 \in DOMAIN queue /\ queue[1] \in DOMAIN calls
  BY <1>1, <1>2
<1>4. /\ DOMAIN queue' = 1 .. Len(queue) - 1
      /\ \A k \in DOMAIN queue' : k + 1 \in DOMAIN queue /\ queue'[k] = queue[k + 1]
  <2>1. \A k \in 1 .. Len(queue) - 1 : ~ k < 1 /\ k + 1 \in 1 .. Len(queue)
    BY <1>1
  <2>2. QED BY <1>1, <2>1 DEF Without, NextPlace
<1>5. queue' \in Seq(DOMAIN calls)
  <2>1. queue' \in [1 .. Len(queue) - 1 -> DOMAIN calls]
    BY <1>1, <1>4 DEF Without
  <2>2. Len(queue) - 1 \in Nat
    BY <1>1, <1>2
  <2>3. QED BY <2>1, <2>2, SeqDef
<1>6. Queued' = Queued \ {queue[1]}
  <2>1. \A k \in DOMAIN queue' : queue'[k] \in Queued /\ queue'[k] # queue[1]
    <3>1. SUFFICES ASSUME NEW k \in DOMAIN queue'
                   PROVE  queue'[k] \in Queued /\ queue'[k] # queue[1]
      OBVIOUS
    <3>2. k + 1 \in DOMAIN queue /\ queue'[k] = queue[k + 1] /\ 1 < k + 1
      BY <1>1, <1>4
    <3>3. queue[1] < queue[k + 1]
      BY <1>0, <1>3, <3>2 DEF InOrder
    <3>4. QED BY <1>1, <1>3, <3>2, <3>3 DEF Queued
  <2>2. \A j \in DOMAIN queue : j # 1 => j - 1 \in DOMAIN queue' /\ queue'[j - 1] = queue[j]
    BY <1>1, <1>4
  <2>3. \A i \in Queued \ {queue[1]} : i \in Queued'
    <3>1. SUFFICES ASSUME NEW i \in Queued \ {queue[1]} PROVE i \in Queued'
      OBVIOUS
    <3>2. PICK j \in DOMAIN queue : i = queue[j] /\ j # 1
      BY DEF Queued
    <3>3. j - 1 \in DOMAIN queue' /\ queue'[j - 1] = i
      BY <2>2, <3>2
    <3>4. QED BY <3>3 DEF Queued
  <2>4. \A i \in Queued' : i \in Queued \ {queue[1]}
    BY <2>1, Zenon DEF Queued
  <2>5. QED BY <2>3, <2>4, Zenon
<1>7. QED BY <1>3, <1>4, <1>5, <1>6

LEMMA TakeStep ==
  ASSUME Inv, Take
  PROVE  Inv'
<1>0. TypeOK /\ Asking /\ InOrder /\ Past /\ Rest /\ pc = "loop" /\ queue # <<>>
  BY TypeParts DEF Inv, Take
<1>1. cur = None /\ UNCHANGED <<gone, results, end, level>> /\ signal' = "none"
  BY <1>0, Types DEF Take, Silent
<1> DEFINE i == queue[1]
<1>2. /\ 1 \in DOMAIN queue /\ i \in DOMAIN calls
      /\ queue' \in Seq(DOMAIN calls)
      /\ \A k \in DOMAIN queue' : k + 1 \in DOMAIN queue /\ queue'[k] = queue[k + 1]
      /\ Queued' = Queued \ {i} /\ DOMAIN queue' = 1 .. Len(queue) - 1
  BY <1>0, QueueWithoutHead DEF Take, Inv
<1>3. /\ \A j \in DOMAIN queue' : i < queue'[j] /\ Fresh(queue'[j])
                                    /\ queue'[j] \in DOMAIN calls
      /\ \A j, k \in DOMAIN queue' : j < k => queue'[j] < queue'[k]
  <2>1. \A k \in DOMAIN queue' : k \in Nat /\ 1 < k + 1
    BY <1>0, <1>2, Types
  <2>2. \A j \in DOMAIN queue' : i < queue'[j] /\ Fresh(queue'[j])
                                /\ queue'[j] \in DOMAIN calls
    BY <1>0, <1>2, <2>1, Types DEF InOrder
  <2>3. \A j, k \in DOMAIN queue' : j < k => j + 1 < k + 1
    BY <2>1
  <2>4. QED BY <1>0, <1>2, <2>2, <2>3 DEF InOrder
<1>4. calls[i].replies = <<>> /\ calls[i].done = "no" /\ i \in Nat /\ i # None
  BY <1>0, <1>2, Types DEF InOrder, Fresh, None
<1>5. CASE calls[i].method = "GetState"
  <2>1. PICK r \in {"return", "error"} : calls' = Replied(i, r, "ok")
    BY <1>5 DEF Take, NextPlace
  <2>2. UNCHANGED <<pc, cur>>
    BY <1>5 DEF Take, NextPlace
  <2>3. "ok" \in Dones
    BY DEF Dones
  <2>4. /\ calls' \in Seq(CallRecord) /\ Len(calls') = Len(calls)
        /\ \A j \in DOMAIN calls : j # i => calls'[j] = calls[j]
        /\ calls'[i].method = calls[i].method /\ calls'[i].level = calls[i].level
        /\ calls'[i].done = "ok" /\ calls'[i].replies = Append(calls[i].replies, r)
    BY <1>0, <1>2, <2>1, <2>3, ReplyFields
  <2>5. DOMAIN calls' = DOMAIN calls /\ Settled(calls'[i])
    <3>1. calls'[i].replies = <<r>>
      BY <1>4, <2>4
    <3>2. QED BY <1>0, <2>4, <3>1, Types DEF Settled
  <2>6. Rest' /\ Present'
    BY <1>0, <1>1, <2>2 DEF Rest, Present
  <2>7. TypeOK'
    BY <1>1, <1>2, <2>2, <2>4, <2>5, <2>6, TypePartsNext
  <2>8. Asking'
    BY <1>0, <2>4, <2>5 DEF Asking
  <2>9. InOrder'
    <3>1. \A j \in DOMAIN queue' : calls'[queue'[j]] = calls[queue'[j]] /\ None < queue'[j]
      BY <1>2, <1>3, <1>4, <2>4 DEF None
    <3>2. QED BY <1>1, <1>3, <2>2, <3>1 DEF InOrder, Fresh
  <2>10. Past'
    <3>1. \A j \in DOMAIN calls : j = i \/ j \in Queued' \/ Settled(calls'[j])
      BY <1>0, <1>1, <1>2, <2>4, Types DEF Past, None
    <3>2. QED BY <2>5, <3>1 DEF Past
  <2>11. QED BY <2>6, <2>7, <2>8, <2>9, <2>10 DEF Inv
<1>6. CASE calls[i].method # "GetState"
  <2>1. pc' = "auth" /\ cur' = i /\ UNCHANGED calls
    BY <1>6 DEF Take, NextPlace
  <2>2. Rest' /\ Present'
    BY <1>0, <1>1, <1>4, <2>1 DEF Rest, Present
  <2>3. TypeOK'
    BY <1>0, <1>2, <2>1, <2>2, Types, TypePartsNext
  <2>4. Asking'
    BY <1>0, <2>1 DEF Asking
  <2>5. InOrder'
    BY <1>3, <2>1 DEF InOrder, Fresh
  <2>6. Past'
    BY <1>0, <1>1, <1>2, <2>1, Types DEF Past, Settled, None
  <2>7. QED BY <2>2, <2>3, <2>4, <2>5, <2>6 DEF Inv
<1>7. QED BY <1>5, <1>6

LEMMA DieStep ==
  ASSUME Inv, Die
  PROVE  /\ Inv' /\ DOMAIN calls' = DOMAIN calls
         /\ \A i \in DOMAIN calls :
              /\ calls'[i].level = calls[i].level
              /\ calls'[i].replies = IF calls[i].replies = <<>> THEN <<"error">> ELSE calls[i].replies
              /\ calls'[i].done = IF calls[i].replies = <<>> THEN "lost" ELSE calls[i].done
<1>0. TypeOK /\ Asking /\ Past /\ Present /\ InOrder /\ Rest
  BY TypeParts DEF Inv
<1>1. /\ UNCHANGED gone /\ signal' = "none"
      /\ queue' = <<>> /\ pc' = "down" /\ cur' = None /\ results' = <<>> /\ end' = "all"
      /\ calls' = [i \in DOMAIN calls |->
                     IF i \in Unanswered
                       THEN [calls[i] EXCEPT !.replies = <<"error">>, !.waiting = FALSE, !.done = "lost"]
                       ELSE calls[i]]
  BY Zenon DEF Die, Silent
<1>a. level' = level \/ (pc = "work" /\ level' = calls[cur].level)
  BY DEF Die
<1>b. /\ queue' \in Seq(DOMAIN calls') /\ DOMAIN queue' = {}
  <2>1. \A S : <<>> \in Seq(S)
    OBVIOUS
  <2>2. DOMAIN <<>> = {}
    OBVIOUS
  <2>3. QED BY <1>1, <2>1, <2>2, Zenon
<1>2. ASSUME NEW i \in DOMAIN calls
      PROVE  /\ calls'[i] \in CallRecord
             /\ calls'[i].method = calls[i].method /\ calls'[i].level = calls[i].level
             /\ calls'[i].replies = IF calls[i].replies = <<>> THEN <<"error">> ELSE calls[i].replies
             /\ calls'[i].done = IF calls[i].replies = <<>> THEN "lost" ELSE calls[i].done
  <2>1. calls[i] \in CallRecord
    BY <1>0, Types
  <2>2. CASE i \in Unanswered
    <3>1. calls'[i] = [calls[i] EXCEPT !.replies = <<"error">>, !.waiting = FALSE, !.done = "lost"]
      BY <1>1, <2>2
    <3>2. <<"error">> \in Seq({"return", "error"}) /\ "lost" \in Dones /\ FALSE \in BOOLEAN
      BY DEF Dones
    <3>3. [calls[i] EXCEPT !.replies = <<"error">>, !.waiting = FALSE, !.done = "lost"] \in CallRecord
      BY <2>1, <3>2, Zenon DEF CallRecord
    <3>4. calls[i].replies = <<>>
      BY <2>2 DEF Unanswered
    <3>5. /\ calls'[i].method = calls[i].method /\ calls'[i].level = calls[i].level
          /\ calls'[i].replies = <<"error">> /\ calls'[i].done = "lost"
      BY <2>1, <3>1 DEF CallRecord
    <3>6. QED BY <3>1, <3>3, <3>4, <3>5
  <2>3. CASE i \notin Unanswered
    BY <1>1, <2>1, <2>3 DEF Unanswered
  <2>4. QED BY <2>2, <2>3
<1>3. calls' \in Seq(CallRecord) /\ DOMAIN calls' = DOMAIN calls
  <2>1. calls' \in [DOMAIN calls -> CallRecord]
    BY <1>1, <1>2
  <2>2. calls \in Seq(CallRecord)
    BY <1>0, Types
  <2>3. QED BY <2>1, <2>2, SeqOfSameLength
<1>4. Rest' /\ Present'
  <2>1. pc = "work" => calls[cur].level \in Levels \cup {Initial}
    BY <1>0, Types DEF CallRecord
  <2>2. QED BY <1>0, <1>1, <1>a, <2>1 DEF Rest, Present
<1>5. TypeOK'
  BY <1>1, <1>3, <1>4, <1>b, TypePartsNext
<1>6. Asking'
  BY <1>0, <1>2, <1>3 DEF Asking
<1>7. InOrder'
  BY <1>b DEF InOrder
<1>8. Past'
  <2>1. SUFFICES ASSUME NEW i \in DOMAIN calls PROVE Settled(calls'[i])
    BY <1>3 DEF Past
  <2>2. CASE calls[i].replies = <<>>
    <3>1. calls'[i].replies = <<"error">> /\ calls'[i].done = "lost"
      BY <1>2, <2>2
    <3>2. QED BY <3>1 DEF Settled
  <2>3. CASE calls[i].replies # <<>>
    <3>1. /\ calls'[i].replies = calls[i].replies /\ calls'[i].done = calls[i].done
          /\ i \notin Queued
      BY <1>0, <1>2, <2>3 DEF InOrder, Fresh, Queued
    <3>2. CASE i = cur
      <4>1. calls[i].replies = <<"return">>
        BY <1>0, <2>3, <3>2, Types DEF Present
      <4>2. QED BY <3>1, <4>1 DEF Settled
    <3>3. CASE i # cur
      BY <1>0, <3>1, <3>3 DEF Past, Settled
    <3>4. QED BY <3>2, <3>3
  <2>4. QED BY <2>2, <2>3
<1>9. QED BY <1>2, <1>3, <1>4, <1>5, <1>6, <1>7, <1>8 DEF Inv

-----------------------------------------------------------------------------
(* The theorems.                                                           *)

LEMMA InitInv ==
  ASSUME Init
  PROVE  Inv
<1>1. \A S : <<>> \in Seq(S)
  OBVIOUS
<1>2. DOMAIN <<>> = {}
  OBVIOUS
<1>3. /\ calls = <<>> /\ queue = <<>> /\ gone = {} /\ pc = "down" /\ cur = None /\ results = <<>>
      /\ end = "all" /\ level = Initial /\ signal = "none"
  BY DEF Init
<1>4. Rest
  BY <1>3 DEF Rest
<1>5. TypeOK
  BY <1>1, <1>3, <1>4, TypeParts
<1>6. Asking /\ InOrder /\ Past /\ Present
  BY <1>2, <1>3 DEF Asking, InOrder, Past, Present
<1>7. QED BY <1>5, <1>6 DEF Inv

LEMMA NextInv ==
  ASSUME Inv, [Next]_vars
  PROVE  Inv'
<1>1. CASE UNCHANGED vars
  BY <1>1 DEF vars, service, Inv, TypeOK, Asking, InOrder, Fresh, Past, Queued, Settled,
              Present, Fails, Failed
<1>2. ASSUME NEW c \in Clients, Issue(c) \/ TimeOut(c) \/ Leave(c)
      PROVE  Inv'
  BY <1>2, IssueStep, ClientStep
<1>3. CASE Polkit
  BY <1>3, PolkitStep
<1>4. CASE Serve
  BY <1>4, StartStep, TakeStep, AuthorizeStep, SetDebugStep, SetCoredumpStep, FinishStep
  DEF Serve, Work
<1>5. CASE Die
  BY <1>5, DieStep
<1>6. QED BY <1>1, <1>2, <1>3, <1>4, <1>5 DEF Next

LEMMA InvAlways == Spec => []Inv
BY InitInv, NextInv, PTL DEF Spec

(* The variables of the service and of its calls keep their types.         *)
THEOREM TypeCorrect == Spec => []TypeOK
<1>1. Inv => TypeOK
  BY DEF Inv
<1>2. QED BY <1>1, InvAlways, PTL

(* Each call gets one reply, from a handler, from sd-bus or from the bus,  *)
(* however many calls there are and whoever dies, leaves or gives up; only *)
(* a SetDebug of which a pair could not be read and no other failed is     *)
(* answered twice, by a method return and then by an error                 *)
(* (bus-service.c:255-259, 284-294).                                       *)
THEOREM OneReplyEach == Spec => []OneReply
<1>1. ASSUME Inv PROVE OneReply
  <2>1. SUFFICES ASSUME NEW i \in DOMAIN calls
                 PROVE  IF i \in Queued THEN calls[i].replies = <<>>
                        ELSE IF i = cur
                          THEN calls[i].replies =
                                 IF calls[i].done = "no" THEN <<>> ELSE <<"return">>
                          ELSE Settled(calls[i])
    BY DEF OneReply, Queued
  <2>2. TypeOK /\ InOrder /\ Past /\ Present
    BY <1>1 DEF Inv
  <2>3. CASE i \in Queued
    BY <2>2, <2>3 DEF InOrder, Fresh, Queued
  <2>4. CASE i = cur /\ i \notin Queued
    <3>1. pc \in {"auth", "work", "signal"}
      BY <2>2, <2>4, Types
    <3>2. \/ calls[i].done = "no" /\ calls[i].replies = <<>>
          \/ calls[i].done \in {"ok", "cut"} /\ calls[i].replies = <<"return">>
      BY <2>2, <2>4, <3>1 DEF Present
    <3>3. QED BY <2>4, <3>2
  <2>5. CASE i # cur /\ i \notin Queued
    BY <2>2, <2>5 DEF Past
  <2>6. QED BY <2>3, <2>4, <2>5
<1>2. QED BY <1>1, InvAlways, PTL

(* A level changes only for a call whose own sender polkit has allowed.    *)
THEOREM OnlyAllowedChanges == Spec => OnlyAllowed
<1>1. ASSUME Inv, [Next]_vars, level' # level
      PROVE  cur # None /\ calls[cur].verdict = "yes" /\ level' = calls[cur].level
  <2>1. TypeOK /\ Present
    BY <1>1 DEF Inv
  <2>2. CASE WorkSetDebug
    <3>1. pc = "work" /\ level' \in {calls[cur].level, level}
      BY <2>2 DEF WorkSetDebug, LevelsLeft
    <3>2. QED BY <1>1, <2>1, <3>1, Types DEF Present
  <2>3. CASE Die
    <3>1. pc = "work" /\ level' = calls[cur].level
      BY <1>1, <2>3 DEF Die
    <3>2. QED BY <2>1, <3>1, Types DEF Present
  <2>4. CASE ~ (WorkSetDebug \/ Die)
    BY <1>1, <2>4 DEF Next, Serve, Work, vars, Issue, TimeOut, Leave, Polkit, Activate, Load, Take,
                      Authorize, WorkSetCoredump, Finish
  <2>5. QED BY <2>2, <2>3, <2>4
<1>2. Inv /\ [Next]_vars =>
        [level' # level => cur # None /\ calls[cur].verdict = "yes" /\ level' = calls[cur].level]_vars
  BY <1>1
<1>3. QED BY <1>2, InvAlways, PTL DEF Spec, OnlyAllowed

(* MethodFinished says "fail" exactly when the client hears of an error,   *)
(* that is when the first reply is one, whether or not all pairs could be  *)
(* read; a handler that gives up sends no signal and its call gets an      *)
(* error (bus-service.c:236-294).                                          *)
THEOREM SignalAgrees == Spec => SignalTellsReply
<1> DEFINE failed == calls'[cur].replies = <<"error">>
           agree == IF end = "gaveUp" THEN signal' = "none" /\ failed
                    ELSE signal' # "none" /\ (signal' = "fail" <=> failed)
<1>1. ASSUME Inv, [Next]_vars, pc = "signal", pc' = "loop"
      PROVE  agree
  <2>1. Finish
    BY <1>1 DEF Next, Serve, Work, vars, service, Issue, TimeOut, Leave, Polkit, Activate, Load, Take,
                Authorize, WorkSetDebug, WorkSetCoredump, Die
  <2>2. <<"error">> # <<"return">> /\ <<"error">> # Append(<<"return">>, "error")
    BY TwoReplies
  <2>3. /\ IF end = "gaveUp" THEN signal' = "none"
           ELSE signal' \in {"fail", "reboot", "success"} /\ (signal' = "fail" <=> Failed(results))
        /\ failed <=> Fails
    BY <1>1, <2>1, <2>2, FinishStep
  <2>4. QED BY <2>3 DEF Fails
<1>2. Inv /\ [Next]_vars => [pc = "signal" /\ pc' = "loop" => agree]_vars
  BY <1>1
<1>3. QED BY <1>2, InvAlways, PTL DEF Spec, SignalTellsReply

-----------------------------------------------------------------------------
(* The service carries the calls out in turn.                              *)

SeenCall == [asks : Levels \cup {Initial}, answer : {"none", "failing", "return", "cut", "error"}]

LEMMA SeenFields ==
  ASSUME Inv
  PROVE  /\ Seen \in Seq(SeenCall)
         /\ DOMAIN Seen = DOMAIN calls /\ Len(Seen) = Len(calls)
         /\ \A i \in DOMAIN calls : Seen[i].asks = calls[i].level /\ Seen[i].answer = AnswerOf(i)
         /\ \A i \in DOMAIN calls : AnswerOf(i) \in {"none", "failing"} <=> calls[i].replies = <<>>
<1>0. TypeOK
  BY DEF Inv
<1>1. \A i \in DOMAIN calls :
        /\ calls[i].level \in Levels \cup {Initial}
        /\ AnswerOf(i) \in {"none", "failing", "return", "cut", "error"}
        /\ AnswerOf(i) \in {"none", "failing"} <=> calls[i].replies = <<>>
  <2>1. TAKE i \in DOMAIN calls
  <2>2. calls[i].level \in Levels \cup {Initial} /\ calls[i].replies \in Seq({"return", "error"})
    BY <1>0, Types DEF CallRecord
  <2>3. CASE calls[i].replies = <<>>
    BY <2>2, <2>3 DEF AnswerOf
  <2>4. CASE calls[i].replies # <<>>
    <3>1. calls[i].replies[1] \in {"return", "error"}
      BY <2>2, <2>4
    <3>2. QED BY <2>2, <2>4, <3>1 DEF AnswerOf
  <2>5. QED BY <2>3, <2>4
<1>2. /\ DOMAIN Seen = DOMAIN calls
      /\ \A i \in DOMAIN calls : Seen[i] = [asks |-> calls[i].level, answer |-> AnswerOf(i)]
  BY DEF Seen
<1>3. Seen \in [DOMAIN calls -> SeenCall]
  <2>1. \A i \in DOMAIN calls : [asks |-> calls[i].level, answer |-> AnswerOf(i)] \in SeenCall
    BY <1>1 DEF SeenCall
  <2>2. QED BY <2>1 DEF Seen
<1>4. /\ Seen \in Seq(SeenCall)
      /\ Len(Seen) = Len(calls)
  <2>1. calls \in Seq(CallRecord)
    BY <1>0, Types
  <2>2. QED BY <2>1, <1>3, SeqOfSameLength
<1>5. QED BY <1>1, <1>2, <1>4

(* The current call, or the first of the queue, is the one whose turn it   *)
(* is.                                                                     *)
LEMMA OpenCallsSeen ==
  ASSUME Inv
  PROVE  Promise!OpenCalls = {i \in DOMAIN calls : calls[i].replies = <<>>}
BY SeenFields DEF Promise!OpenCalls, Promise!Open

LEMMA CurrentTurn ==
  ASSUME Inv, cur # None, calls[cur].replies = <<>>
  PROVE  Promise!Turn(cur) /\ cur \in Promise!OpenCalls
<1>0. TypeOK /\ InOrder /\ Past /\ cur \in DOMAIN calls /\ cur \in Nat
  BY Types DEF Inv
<1>1. \A i \in DOMAIN calls : calls[i].replies = <<>> => cur <= i
  <2>1. SUFFICES ASSUME NEW i \in DOMAIN calls, calls[i].replies = <<>> PROVE cur <= i
    OBVIOUS
  <2>2. i = cur \/ i \in Queued
    <3>1. ~ Settled(calls[i])
      BY <2>1 DEF Settled
    <3>2. QED BY <1>0, <3>1 DEF Past
  <2>3. \A j \in DOMAIN queue : cur < queue[j] /\ queue[j] \in Nat
    BY <1>0, Types DEF InOrder
  <2>4. QED BY <1>0, <2>2, <2>3 DEF Queued
<1>2. QED BY <1>0, <1>1, OpenCallsSeen DEF Promise!Turn

LEMMA FirstTurn ==
  ASSUME Inv, cur = None, queue # <<>>
  PROVE  Promise!Turn(queue[1]) /\ queue[1] \in Promise!OpenCalls
<1>0. /\ TypeOK /\ InOrder /\ Past /\ Len(queue) \in Nat /\ DOMAIN queue = 1 .. Len(queue)
      /\ \A j \in DOMAIN queue : queue[j] \in DOMAIN calls /\ queue[j] \in Nat
      /\ queue \in Seq(DOMAIN calls)
  BY Types DEF Inv
<1>1. 1 \in DOMAIN queue
  BY <1>0
<1>2. calls[queue[1]].replies = <<>>
  BY <1>0, <1>1 DEF InOrder, Fresh
<1>3. \A i \in DOMAIN calls : calls[i].replies = <<>> => queue[1] <= i
  <2>1. SUFFICES ASSUME NEW i \in DOMAIN calls, calls[i].replies = <<>> PROVE queue[1] <= i
    OBVIOUS
  <2>2. i # cur
    BY <1>0, Types
  <2>3. i \in Queued
    <3>1. ~ Settled(calls[i])
      BY <2>1 DEF Settled
    <3>2. QED BY <1>0, <2>2, <3>1 DEF Past
  <2>4. PICK j \in DOMAIN queue : i = queue[j]
    BY <2>3 DEF Queued
  <2>5. j = 1 \/ queue[1] < queue[j]
    <3>1. j = 1 \/ 1 < j
      BY <1>0
    <3>2. QED BY <1>0, <1>1, <3>1 DEF InOrder
  <2>6. QED BY <1>0, <1>1, <2>4, <2>5
<1>4. QED BY <1>0, <1>1, <1>2, <1>3, OpenCallsSeen DEF Promise!Turn

(* Steps that change nobody's answer, and those that change one.           *)
LEMMA NoAnswerSeen ==
  ASSUME DOMAIN calls' = DOMAIN calls,
         \A i \in DOMAIN calls : calls'[i].level = calls[i].level /\ AnswerOf(i)' = AnswerOf(i)
  PROVE  Seen' = Seen
BY DEF Seen

LEMMA OneAnswerSeen ==
  ASSUME Inv, DOMAIN calls' = DOMAIN calls,
         \A i \in DOMAIN calls : calls'[i].level = calls[i].level,
         NEW i \in DOMAIN calls, NEW a, AnswerOf(i)' = a,
         \A j \in DOMAIN calls \ {i} : AnswerOf(j)' = AnswerOf(j)
  PROVE  Promise!Answered(i, a)
<1>1. Seen' = [j \in DOMAIN calls |->
                 [asks |-> calls[j].level, answer |-> IF j = i THEN a ELSE AnswerOf(j)]]
  BY DEF Seen
<1>2. [Seen EXCEPT ![i].answer = a] =
        [j \in DOMAIN calls |->
           [asks |-> calls[j].level, answer |-> IF j = i THEN a ELSE AnswerOf(j)]]
  <2>1. /\ DOMAIN Seen = DOMAIN calls
        /\ \A j \in DOMAIN calls : Seen[j] = [asks |-> calls[j].level, answer |-> AnswerOf(j)]
    BY DEF Seen
  <2>2. [Seen[i] EXCEPT !.answer = a] = [asks |-> calls[i].level, answer |-> a]
    BY <2>1
  <2>3. [Seen EXCEPT ![i] = [Seen[i] EXCEPT !.answer = a]] =
          [j \in DOMAIN calls |->
             [asks |-> calls[j].level, answer |-> IF j = i THEN a ELSE AnswerOf(j)]]
    BY <2>1, <2>2
  <2>4. QED BY <2>3
<1>3. QED BY <1>1, <1>2 DEF Promise!Answered

(* A reply to call i, which is the current call or becomes none.           *)
LEMMA ReplySeen ==
  ASSUME Inv, NEW i \in DOMAIN calls, calls[i].replies = <<>>,
         NEW r \in {"return", "error"}, NEW d \in Dones, calls' = Replied(i, r, d),
         i = cur \/ cur = None, cur' \in {cur, None}
  PROVE  Promise!Answered(i, IF d = "cut" THEN "cut" ELSE r)
<1>1. /\ calls' \in Seq(CallRecord) /\ Len(calls') = Len(calls)
      /\ \A j \in DOMAIN calls : j # i => calls'[j] = calls[j]
      /\ calls'[i].level = calls[i].level /\ calls'[i].replies = Append(calls[i].replies, r)
      /\ calls'[i].done = d
  BY ReplyFields DEF Inv
<1>2. DOMAIN calls' = DOMAIN calls
  BY <1>1, Types DEF Inv
<1>3. calls'[i].replies # <<>> /\ calls'[i].replies[1] = r
  BY <1>1
<1>4. AnswerOf(i)' = IF d = "cut" THEN "cut" ELSE r
  BY <1>1, <1>3 DEF AnswerOf
<1>5. \A j \in DOMAIN calls \ {i} : AnswerOf(j)' = AnswerOf(j)
  <2>1. \A j \in DOMAIN calls : j # None
    BY Types DEF Inv, None
  <2>2. \A j \in DOMAIN calls \ {i} : j # cur /\ j # cur'
    BY <2>1
  <2>3. QED BY <1>1, <2>2 DEF AnswerOf
<1>6. \A j \in DOMAIN calls : calls'[j].level = calls[j].level
  BY <1>1
<1>7. QED BY <1>2, <1>4, <1>5, <1>6, OneAnswerSeen

LEMMA IssueSeen ==
  ASSUME Inv, NEW c \in Clients, Issue(c)
  PROVE  Promise!Issue
<1>0. TypeOK
  BY DEF Inv
<1>1. PICK a \in Arguments : calls' = Append(calls, NewCall(c, a))
  BY DEF Issue
<1>2. UNCHANGED <<pc, cur, level>> /\ Len(calls) < MaxCalls
  BY DEF Issue, service
<1>n. PICK n \in Nat : n = Len(calls) + 1
  BY <1>0, Types
<1> DEFINE new == NewCall(c, a)
<1>3. a.level \in Levels \cup {Initial} /\ new.level = a.level /\ new.replies = <<>>
  BY DEF Arguments, NewCall
<1> HIDE DEF new
<1>4. /\ DOMAIN calls' = 1 .. n /\ calls'[n] = new
      /\ \A i \in DOMAIN calls : calls'[i] = calls[i]
  BY <1>0, <1>1, <1>n, Types DEF new
<1>5. /\ DOMAIN calls = 1 .. Len(calls) /\ Len(calls) \in Nat /\ cur # n
      /\ n = Len(calls) + 1
  BY <1>0, <1>n, Types
<1>6. AnswerOf(n)' = "none"
  BY <1>2, <1>3, <1>4, <1>5 DEF AnswerOf
<1>7. \A i \in DOMAIN calls : AnswerOf(i)' = AnswerOf(i) /\ calls'[i].level = calls[i].level
  BY <1>2, <1>4 DEF AnswerOf
<1> DEFINE record == [asks |-> a.level, answer |-> "none"]
<1>8. Seen' = Append(Seen, record)
  <2>1. Seen \in Seq(SeenCall) /\ Len(Seen) = Len(calls) /\ DOMAIN Seen = DOMAIN calls
    BY SeenFields
  <2>2. \A i \in 1 .. n : i \in DOMAIN calls \/ i = n
    BY <1>5
  <2>3. \A i \in DOMAIN calls : Seen'[i] = Seen[i]
    <3>1. TAKE i \in DOMAIN calls
    <3>2. i \in DOMAIN calls'
      BY <1>4, <1>5
    <3>3. QED BY <1>7, <3>2 DEF Seen
  <2>4. n \in DOMAIN calls' /\ Seen'[n] = record
    <3>1. n \in DOMAIN calls'
      BY <1>4, <1>5
    <3>2. QED BY <1>3, <1>4, <1>6, <3>1 DEF Seen
  <2>5. Seen' = [i \in 1 .. n |-> IF i = n THEN record ELSE Seen[i]]
    <3>1. Seen' = [i \in 1 .. n |-> Seen'[i]]
      BY <1>4 DEF Seen
    <3>2. \A i \in 1 .. n : Seen'[i] = IF i = n THEN record ELSE Seen[i]
      BY <2>2, <2>3, <2>4
    <3>3. QED BY <3>1, <3>2
  <2> HIDE DEF record
  <2>6. Append(Seen, record) = [i \in 1 .. n |-> IF i = n THEN record ELSE Seen[i]]
    <3>1. record \in SeenCall
      BY <1>3 DEF record, SeenCall
    <3>2. /\ Append(Seen, record) \in Seq(SeenCall) /\ Len(Append(Seen, record)) = n
          /\ \A i \in 1 .. Len(Seen) : Append(Seen, record)[i] = Seen[i]
          /\ Append(Seen, record)[n] = record
      BY <1>5, <2>1, <3>1, AppendProperties
    <3>3. Append(Seen, record) = [i \in 1 .. n |-> Append(Seen, record)[i]]
      BY <3>2, SeqIsFunction
    <3>4. \A i \in 1 .. n : Append(Seen, record)[i] = IF i = n THEN record ELSE Seen[i]
      BY <1>5, <2>1, <2>2, <3>2
    <3>5. QED BY <3>3, <3>4
  <2>7. QED BY <2>5, <2>6
<1>9. Len(Seen) < MaxCalls
  BY <1>2, SeenFields
<1>10. QED BY <1>2, <1>3, <1>8, <1>9 DEF Promise!Issue

Stutters == Seen' = Seen /\ level' = level

LEMMA QuietSeen ==
  ASSUME Inv, SameCalls, UNCHANGED level,
         \A i \in DOMAIN calls : (i = cur /\ pc = "signal")' <=> (i = cur /\ pc = "signal")
  PROVE  Stutters
<1>1. DOMAIN calls' = DOMAIN calls
  BY Types DEF Inv, SameCalls
<1>2. \A i \in DOMAIN calls : calls'[i].level = calls[i].level /\ AnswerOf(i)' = AnswerOf(i)
  BY DEF SameCalls, SameAnswer, AnswerOf
<1>3. QED BY <1>1, <1>2, NoAnswerSeen DEF Stutters

LEMMA TakeSeen ==
  ASSUME Inv, Take
  PROVE  Promise!Next \/ Stutters
<1> DEFINE i == queue[1]
<1>1. TypeOK /\ Asking /\ pc = "loop" /\ queue # <<>> /\ cur = None /\ UNCHANGED level
  BY Types DEF Inv, Take
<1>2. i \in DOMAIN calls /\ 1 \in DOMAIN queue /\ calls[i].replies = <<>>
  BY <1>1, QueueWithoutHead DEF Take, Inv, InOrder, Fresh
<1>3. CASE calls[i].method = "GetState"
  <2>1. PICK r \in {"return", "error"} : calls' = Replied(i, r, "ok")
    BY <1>3 DEF Take, NextPlace
  <2>2. cur' = cur /\ "ok" \in Dones
    BY <1>3 DEF Take, NextPlace, Dones
  <2>3. Promise!Answered(i, r)
    BY <1>1, <1>2, <2>1, <2>2, ReplySeen
  <2>4. Promise!Turn(i) /\ i \in Promise!OpenCalls
    BY <1>1, FirstTurn
  <2>5. Seen[i].answer = "none" /\ Seen[i].asks = Initial
    BY <1>1, <1>2, <1>3, SeenFields DEF Asking, AnswerOf
  <2>6. Promise!Return(i) \/ Promise!Fail(i)
    BY <1>1, <2>3, <2>4, <2>5 DEF Promise!Return, Promise!Fail, Promise!Effect
  <2>7. QED BY <2>4, <2>6 DEF Promise!Next, Promise!Answer
<1>4. CASE calls[i].method # "GetState"
  <2>1. pc' = "auth" /\ UNCHANGED calls
    BY <1>4 DEF Take, NextPlace
  <2>2. QED BY <1>1, <2>1, UnchangedCalls, QuietSeen
<1>5. QED BY <1>3, <1>4

LEMMA AuthorizeSeen ==
  ASSUME Inv, Authorize
  PROVE  Promise!Next \/ Stutters
<1>1. TypeOK /\ pc = "auth" /\ cur # None /\ cur \in DOMAIN calls /\ UNCHANGED level
  BY Types DEF Inv, Authorize
<1>2. calls[cur].replies = <<>> /\ "refused" \in Dones
  BY <1>1 DEF Inv, Present, Dones
<1>3. CASE Allowed(cur)
  <2>1. pc' = "work" /\ UNCHANGED calls
    BY <1>3 DEF Authorize
  <2>2. QED BY <1>1, <2>1, UnchangedCalls, QuietSeen
<1>4. CASE ~ Allowed(cur)
  <2>1. calls' = Replied(cur, "error", "refused") /\ cur' = None
    BY <1>4 DEF Authorize, Refusal
  <2>2. Promise!Answered(cur, "error")
    BY <1>1, <1>2, <2>1, ReplySeen
  <2>3. Promise!Turn(cur) /\ cur \in Promise!OpenCalls
    BY <1>1, <1>2, CurrentTurn
  <2>4. QED BY <1>1, <2>2, <2>3 DEF Promise!Next, Promise!Answer, Promise!Fail
<1>5. QED BY <1>3, <1>4

LEMMA WorkSeen ==
  ASSUME Inv, Work
  PROVE  Promise!Next
<1>1. TypeOK /\ Asking /\ pc = "work" /\ cur # None /\ cur \in DOMAIN calls
  BY Types DEF Inv, Work, WorkSetDebug, WorkSetCoredump
<1>2. calls[cur].replies = <<>> /\ {"ok", "cut", "failed"} \subseteq Dones
  BY <1>1 DEF Inv, Present, Dones
<1>3. Promise!Turn(cur) /\ cur \in Promise!OpenCalls
  BY <1>1, <1>2, CurrentTurn
<1>4. Seen[cur].answer = "none" /\ Seen[cur].asks = calls[cur].level
  BY <1>1, <1>2, SeenFields DEF AnswerOf
<1>5. Promise!Return(cur) \/ Promise!Spoil(cur) \/ Promise!Cut(cur) \/ Promise!Fail(cur)
        => Promise!Next
  BY <1>3 DEF Promise!Next, Promise!Answer
<1>6. CASE WorkSetDebug
  <2>1. Promise!Effect(cur) = calls[cur].level
    BY <1>1, <1>4, <1>6 DEF WorkSetDebug, Asking, Promise!Effect
  <2>2. /\ level' \in {calls[cur].level, level}
        /\ ~ Fails' /\ end' # "unread" => level' = calls[cur].level
        /\ calls' = IF Fails' THEN calls
                    ELSE Replied(cur, "return", IF end' = "unread" THEN "cut" ELSE "ok")
        /\ pc' = "signal" /\ cur' = cur
    BY <1>6 DEF WorkSetDebug, Ends, LevelsLeft, Fails
  <2>3. CASE Fails'
    <3>1. UNCHANGED calls /\ level' \in {level, Promise!Effect(cur)}
      BY <2>1, <2>2, <2>3
    <3>2. PICK n \in DOMAIN calls : n = cur
      BY <1>1
    <3>3. Promise!Answered(cur, "failing")
      <4>1. DOMAIN calls' = DOMAIN calls /\ \A i \in DOMAIN calls : calls'[i].level = calls[i].level
        BY <3>1
      <4>2. AnswerOf(n)' = "failing" /\ \A j \in DOMAIN calls \ {n} : AnswerOf(j)' = AnswerOf(j)
        BY <1>1, <1>2, <2>2, <3>1, <3>2 DEF AnswerOf
      <4>3. QED BY <1>1, <3>2, <4>1, <4>2, OneAnswerSeen
    <3>4. QED BY <1>3, <1>4, <1>5, <3>1, <3>3 DEF Promise!Spoil
  <2>4. CASE ~ Fails' /\ end' = "unread"
    <3>1. calls' = Replied(cur, "return", "cut") /\ level' \in {level, Promise!Effect(cur)}
      BY <2>1, <2>2, <2>4
    <3>2. Promise!Answered(cur, "cut")
      BY <1>1, <1>2, <2>2, <3>1, ReplySeen
    <3>3. QED BY <1>3, <1>4, <1>5, <3>1, <3>2 DEF Promise!Cut
  <2>5. CASE ~ Fails' /\ end' # "unread"
    <3>1. calls' = Replied(cur, "return", "ok") /\ level' = Promise!Effect(cur)
      BY <2>1, <2>2, <2>5
    <3>2. Promise!Answered(cur, "return")
      BY <1>1, <1>2, <2>2, <3>1, ReplySeen
    <3>3. QED BY <1>3, <1>4, <1>5, <3>1, <3>2 DEF Promise!Return
  <2>6. QED BY <2>3, <2>4, <2>5
<1>7. CASE WorkSetCoredump
  <2>1. /\ Promise!Effect(cur) = level
        /\ UNCHANGED level /\ cur' = None
    BY <1>1, <1>4, <1>7 DEF WorkSetCoredump, Asking, Promise!Effect
  <2>2. PICK r \in {"return", "error"} :
          calls' = Replied(cur, r, IF r = "return" THEN "ok" ELSE "failed")
    BY <1>7 DEF WorkSetCoredump
  <2>3. (IF r = "return" THEN "ok" ELSE "failed") \in Dones \ {"cut"}
    BY <1>2
  <2>4. Promise!Answered(cur, r)
    BY <1>1, <1>2, <2>1, <2>2, <2>3, ReplySeen
  <2>5. QED BY <1>3, <1>4, <1>5, <2>1, <2>4 DEF Promise!Return, Promise!Fail
<1>8. QED BY <1>6, <1>7 DEF Work

LEMMA FinishSeen ==
  ASSUME Inv, Finish
  PROVE  Promise!Next \/ Stutters
<1>1. TypeOK /\ pc = "signal" /\ cur # None /\ cur \in DOMAIN calls
  BY Types DEF Inv, Finish
<1>2. /\ UNCHANGED level /\ pc' = "loop" /\ cur' = None
      /\ calls' = IF Failed(results) \/ end # "all"
                    THEN Replied(cur, "error", IF calls[cur].done = "cut" THEN "cut" ELSE "failed")
                    ELSE calls
  BY DEF Finish, ErrorSet, Failed
<1>3. CASE Fails
  <2>1. calls[cur].replies = <<>> /\ calls[cur].done = "no" /\ "failed" \in Dones
    BY <1>1, <1>3 DEF Inv, Present, Dones
  <2>2. calls' = Replied(cur, "error", "failed")
    BY <1>2, <1>3, <2>1 DEF Fails
  <2>3. Promise!Answered(cur, "error")
    BY <1>1, <1>2, <2>1, <2>2, ReplySeen
  <2>4. Promise!Turn(cur) /\ cur \in Promise!OpenCalls
    BY <1>1, <2>1, CurrentTurn
  <2>5. QED BY <1>2, <2>3, <2>4 DEF Promise!Next, Promise!Answer, Promise!Fail
<1>4. CASE ~ Fails /\ end = "unread"
  <2>1. calls[cur].replies = <<"return">> /\ calls[cur].done = "cut" /\ "cut" \in Dones
    BY <1>1, <1>4 DEF Inv, Present, Dones
  <2>2. calls' = Replied(cur, "error", "cut")
    BY <1>2, <1>4, <2>1
  <2>3. /\ calls' \in Seq(CallRecord) /\ Len(calls') = Len(calls)
        /\ \A j \in DOMAIN calls : j # cur => calls'[j] = calls[j]
        /\ calls'[cur].level = calls[cur].level
        /\ calls'[cur].done = "cut" /\ calls'[cur].replies = Append(calls[cur].replies, "error")
    BY <1>1, <2>1, <2>2, ReplyFields
  <2>4. DOMAIN calls' = DOMAIN calls
    BY <1>1, <2>3, Types
  <2>5. calls[cur].replies # <<>> /\ calls'[cur].replies # <<>>
    <3>1. Append(<<"return">>, "error") # <<>> /\ <<"return">> # <<>>
      OBVIOUS
    <3>2. QED BY <2>1, <2>3, <3>1
  <2>6. PICK n \in DOMAIN calls : n = cur
    BY <1>1
  <2>7. AnswerOf(n) = "cut" /\ AnswerOf(n)' = "cut"
    BY <2>1, <2>3, <2>5, <2>6 DEF AnswerOf
  <2>8. \A j \in DOMAIN calls \ {n} : AnswerOf(j)' = AnswerOf(j) /\ calls'[j].level = calls[j].level
    <3>1. \A j \in DOMAIN calls : j # None
      BY <1>1, Types DEF None
    <3>2. QED BY <1>2, <2>3, <2>6, <3>1 DEF AnswerOf
  <2>9. QED BY <1>2, <2>3, <2>4, <2>6, <2>7, <2>8, NoAnswerSeen DEF Stutters
<1>5. CASE ~ Fails /\ end # "unread"
  <2>1. UNCHANGED calls
    BY <1>1, <1>2, <1>5 DEF Fails, Inv, TypeOK
  <2>2. calls[cur].replies # <<>>
    <3>1. calls[cur].replies = <<"return">>
      BY <1>1, <1>5 DEF Inv, Present
    <3>2. QED BY <3>1
  <2>3. \A i \in DOMAIN calls : AnswerOf(i)' = AnswerOf(i)
    BY <1>2, <2>1, <2>2 DEF AnswerOf
  <2>4. QED BY <1>2, <2>1, <2>3, NoAnswerSeen DEF Stutters
<1>6. QED BY <1>3, <1>4, <1>5

LEMMA DieSeen ==
  ASSUME Inv, Die
  PROVE  Promise!Next \/ Stutters
<1>0. TypeOK
  BY DEF Inv
<1>1. /\ DOMAIN calls' = DOMAIN calls
      /\ \A i \in DOMAIN calls :
           /\ calls'[i].level = calls[i].level
           /\ calls'[i].replies = IF calls[i].replies = <<>> THEN <<"error">> ELSE calls[i].replies
           /\ calls'[i].done = IF calls[i].replies = <<>> THEN "lost" ELSE calls[i].done
  BY DieStep
<1>2. level' = level \/ (pc = "work" /\ calls[cur].method = "SetDebug" /\ level' = calls[cur].level)
  BY DEF Die
<1>3. \A i \in DOMAIN calls :
        AnswerOf(i)' = IF calls[i].replies = <<>> THEN "error" ELSE AnswerOf(i)
  <2>1. TAKE i \in DOMAIN calls
  <2>2. <<"error">> # <<>> /\ <<"error">>[1] = "error"
    OBVIOUS
  <2>3. QED BY <1>1, <2>2 DEF AnswerOf
<1>4. Seen' = [i \in DOMAIN Seen |->
                 IF i \in Promise!OpenCalls THEN [Seen[i] EXCEPT !.answer = "error"] ELSE Seen[i]]
  <2>1. /\ DOMAIN Seen = DOMAIN calls
        /\ \A i \in DOMAIN calls : Seen[i] = [asks |-> calls[i].level, answer |-> AnswerOf(i)]
    BY DEF Seen
  <2>2. \A i \in DOMAIN calls :
          [Seen[i] EXCEPT !.answer = "error"] = [asks |-> calls[i].level, answer |-> "error"]
    BY <2>1
  <2>3. \A i \in DOMAIN calls : i \in Promise!OpenCalls <=> calls[i].replies = <<>>
    BY OpenCallsSeen
  <2>4. Seen' = [i \in DOMAIN calls |-> [asks |-> calls[i].level, answer |-> AnswerOf(i)']]
    BY <1>1 DEF Seen
  <2>5. \A i \in DOMAIN calls :
          [asks |-> calls[i].level, answer |-> AnswerOf(i)'] =
            IF i \in Promise!OpenCalls THEN [Seen[i] EXCEPT !.answer = "error"] ELSE Seen[i]
    BY <1>3, <2>1, <2>2, <2>3
  <2>6. QED BY <2>1, <2>4, <2>5
<1>5. CASE Promise!OpenCalls = {}
  <2>1. Seen' = Seen
    BY <1>4, <1>5 DEF Seen
  <2>2. pc # "work"
    <3>1. pc = "work" => cur # None /\ calls[cur].replies = <<>>
      BY <1>0, Types DEF Inv, Present
    <3>2. QED BY <1>5, <3>1, CurrentTurn
  <2>3. QED BY <1>2, <2>1, <2>2 DEF Stutters
<1>6. CASE Promise!OpenCalls # {}
  <2>1. level' \in {level} \cup {Promise!Effect(i) : i \in {j \in Promise!OpenCalls : Promise!Turn(j)}}
    <3>1. CASE level' = level
      BY <3>1
    <3>2. CASE pc = "work" /\ calls[cur].method = "SetDebug" /\ level' = calls[cur].level
      <4>1. cur \in DOMAIN calls /\ cur # None /\ calls[cur].replies = <<>>
        BY <1>0, <3>2, Types DEF Inv, Present
      <4>2. cur \in {j \in Promise!OpenCalls : Promise!Turn(j)}
        BY <4>1, CurrentTurn
      <4>3. Promise!Effect(cur) = calls[cur].level
        BY <3>2, <4>1, SeenFields DEF Inv, Asking, Promise!Effect
      <4>4. QED BY <3>2, <4>2, <4>3
    <3>3. QED BY <1>2, <3>1, <3>2
  <2>2. QED BY <1>4, <1>6, <2>1 DEF Promise!Next, Promise!Lose
<1>7. QED BY <1>5, <1>6

(* For any clients and any number of calls: what the clients see is a      *)
(* service that carries the calls out one after another in the order of    *)
(* their arrival, that is, every step is one of AbstractBusService's or    *)
(* none.                                                                   *)
THEOREM CallsInTurn == Spec => Promise!Safely
<1>1. ASSUME Init PROVE Promise!Init
  <2>1. calls = <<>> /\ level = Initial
    BY <1>1 DEF Init
  <2>2. Seen = <<>>
    BY <2>1 DEF Seen
  <2>3. QED BY <2>1, <2>2 DEF Promise!Init
<1>2. ASSUME Inv, [Next]_vars
      PROVE  Promise!Next \/ Stutters
  <2>1. CASE UNCHANGED vars
    BY <1>2, <2>1, UnchangedCalls, QuietSeen DEF vars, service, Inv
  <2>2. ASSUME NEW c \in Clients, Issue(c)
        PROVE  Promise!Next
    BY <1>2, <2>2, IssueSeen DEF Promise!Next
  <2>3. ASSUME NEW c \in Clients, TimeOut(c) \/ Leave(c)
        PROVE  Stutters
    <3>1. SameCalls
      BY <1>2, <2>3, ClientsKeepCalls DEF Inv, TimeOut, Leave
    <3>2. UNCHANGED <<level, pc, cur>>
      BY <2>3 DEF TimeOut, Leave, service
    <3>3. QED BY <1>2, <3>1, <3>2, QuietSeen
  <2>4. CASE Polkit
    <3>1. UNCHANGED <<level, pc, cur>>
      BY <2>4 DEF Polkit, service
    <3>2. QED BY <1>2, <2>4, <3>1, PolkitStep, QuietSeen
  <2>5. CASE Activate \/ Load
    <3>1. UNCHANGED <<level, cur, calls>> /\ pc # "signal" /\ pc' # "signal"
      BY <2>5 DEF Activate, Load
    <3>2. QED BY <1>2, <3>1, UnchangedCalls, QuietSeen DEF Inv
  <2>6. CASE Serve /\ ~ (Activate \/ Load)
    BY <1>2, <2>6, TakeSeen, AuthorizeSeen, WorkSeen, FinishSeen DEF Serve
  <2>7. CASE Die
    BY <1>2, <2>7, DieSeen
  <2>8. QED BY <1>2, <2>1, <2>2, <2>3, <2>4, <2>5, <2>6, <2>7 DEF Next
<1>3. Init => Promise!Init
  BY <1>1
<1>4. Inv /\ [Next]_vars => [Promise!Next]_(Promise!vars)
  BY <1>2 DEF Stutters, Promise!vars
<1>5. QED BY <1>3, <1>4, InvAlways, PTL DEF Spec, Promise!Safely
=============================================================================
