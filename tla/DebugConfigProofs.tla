------------------------- MODULE DebugConfigProofs -------------------------
(***************************************************************************)
(* Theorems about DebugConfig, for any modules, submodules, levels,        *)
(* requests and faults: what the calls of the service and of the command   *)
(* line leave behind.                                                      *)
(***************************************************************************)
EXTENDS DebugConfig, SequenceTheorems, TLAPS

-----------------------------------------------------------------------------
(* Calls.                                                                  *)

Places == {"idle", "pair", "module", "script", "pairEnd", "remove", "install",
           "logged", "answer", "coredump", "coredumpEnd"}
PairNames == {Coredump} \cup UNION {{p[i].name : i \in DOMAIN p} : p \in Requests}
Pairs == [name : PairNames, level : Levels]
Call ==
  [pc : Places, pairs : Seq(Pairs), rest : Seq(Pairs), todo : SUBSET Modules,
   module : Names, subs : Seq(Subs), moduleOk : BOOLEAN, pairOk : BOOLEAN, ok : BOOLEAN,
   reboot : BOOLEAN, flag : BOOLEAN, alone : BOOLEAN]

InPair(a) == act[a].pc \in {"module", "script", "pairEnd"}

(* The modules that the current pair names.                                *)
Target(a) == IF Name(a) = All THEN Modules ELSE {Name(a)}

(* What each place in a call implies about the call itself.                *)
Shape(a) ==
  /\ InPair(a) => act[a].rest # <<>> /\ Known(Name(a)) /\ act[a].todo \subseteq Target(a)
  /\ act[a].pc = "script" => act[a].module \in act[a].todo
  /\ act[a].pc = "pairEnd" => act[a].todo = {}
  /\ act[a].pc \in {"coredump", "coredumpEnd"} =>
       act[a].pairs = <<>> /\ act[a].rest # <<>> /\ Name(a) = Coredump
  /\ act[a].pc \in {"remove", "install", "logged", "answer"} =>
       act[a].rest = <<>> \/ act[a].pairs = <<>>
  /\ act[a].pc = "idle" => act[a].pairs = <<>>

(* A call that has run by itself is the only one.                          *)
ByItself ==
  \A a, b \in Actors : a # b /\ Busy(a) /\ Busy(b) => ~ act[a].alone

Typed == TypeOK /\ act \in [Actors -> Call]
Base == Typed /\ ByItself /\ \A a \in Actors : Shape(a)

LEMMA SeqOfSubset ==
  ASSUME NEW S, NEW T, S \subseteq T, NEW s \in Seq(S)
  PROVE  s \in Seq(T)
<1>1. Len(s) \in Nat /\ s \in [1 .. Len(s) -> T]
  OBVIOUS
<1>2. QED BY <1>1, SeqDef

LEMMA RequestPairs ==
  ASSUME NEW p \in Requests
  PROVE  p \in Seq(Pairs)
<1> DEFINE P == [name : {p[i].name : i \in DOMAIN p}, level : Levels]
<1>1. p \in Seq(P)
  BY RequestsGiven
<1>2. P \subseteq Pairs
  <2>1. {p[i].name : i \in DOMAIN p} \subseteq PairNames
    BY Zenon DEF PairNames
  <2>2. QED BY <2>1 DEF Pairs
<1>3. QED BY <1>1, <1>2, SeqOfSubset

LEMMA IdleTyped ==
  IdleCall \in Call /\ IdleCall.pc = "idle" /\ IdleCall.alone /\ IdleCall.pairs = <<>>
<1>1. All \in Names
  BY DEF Names
<1>2. IdleCall \in Call
  BY <1>1 DEF IdleCall, Call, Places
<1>3. QED BY <1>2 DEF IdleCall

(* A step of one call leaves the others as they are.                       *)
LEMMA OneCall ==
  ASSUME Typed, NEW a \in Actors, NEW c \in Call, act' = [act EXCEPT ![a] = c]
  PROVE  /\ act' \in [Actors -> Call]
         /\ act'[a] = c
         /\ \A b \in Actors : b # a => act'[b] = act[b]
BY DEF Typed

-----------------------------------------------------------------------------
(* What the steps do, field by field.                                      *)

Frame(a) == act' \in [Actors -> Call] /\ \A b \in Actors : b # a => act'[b] = act[b]
Same(a) == act'[a].pairs = act[a].pairs /\ act'[a].alone = act[a].alone
SameRest(a) == act'[a].rest = act[a].rest /\ act'[a].reboot = act[a].reboot

LEMMA CallFields ==
  ASSUME Typed, NEW a \in Actors
  PROVE  /\ act[a] \in Call
         /\ act[a].rest # <<>> => /\ Name(a) \in PairNames /\ Level(a) \in Levels
                                  /\ Tail(act[a].rest) \in Seq(Pairs)
                                  /\ Len(Tail(act[a].rest)) = Len(act[a].rest) - 1
         /\ act[a].subs # <<>> => /\ Head(act[a].subs) \in Subs
                                  /\ Tail(act[a].subs) \in Seq(Subs)
<1>1. act[a] \in Call
  BY DEF Typed
<1>2. act[a].rest \in Seq(Pairs) /\ act[a].subs \in Seq(Subs)
  BY <1>1 DEF Call
<1>3. ASSUME act[a].rest # <<>>
      PROVE  /\ Name(a) \in PairNames /\ Level(a) \in Levels
             /\ Tail(act[a].rest) \in Seq(Pairs)
             /\ Len(Tail(act[a].rest)) = Len(act[a].rest) - 1
  <2>1. Head(act[a].rest) \in Pairs
    BY <1>2, <1>3
  <2>2. QED BY <1>2, <1>3, <2>1 DEF Pairs, Name, Level
<1>4. QED BY <1>1, <1>2, <1>3

LEMMA NextPairStep ==
  ASSUME Typed, NEW a \in Actors, NextPair(a)
  PROVE  /\ Frame(a) /\ Same(a)
         /\ act[a].pc = "pair" /\ act[a].rest # <<>>
         /\ act'[a].reboot = act[a].reboot
         /\ UNCHANGED <<system, reply>>
         /\ \/ /\ ~ Known(Name(a)) /\ act'[a].pc = "pair" /\ act'[a].rest = Tail(act[a].rest)
               /\ ~ act'[a].ok
            \/ /\ Known(Name(a)) /\ act'[a].pc = "module" /\ act'[a].rest = act[a].rest
               /\ act'[a].ok = act[a].ok /\ act'[a].pairOk
               /\ act'[a].todo = Target(a)
<1>1. act[a] \in Call /\ act[a].pc = "pair" /\ act[a].rest # <<>>
  BY CallFields DEF NextPair
<1>2. CASE ~ Known(Name(a))
  <2> DEFINE c == [act[a] EXCEPT !.rest = Tail(act[a].rest), !.ok = FALSE]
  <2>1. c \in Call
    BY <1>1, CallFields DEF Call
  <2>2. act' = [act EXCEPT ![a] = c]
    BY <1>2 DEF NextPair
  <2>3. /\ c.pc = "pair" /\ c.rest = Tail(act[a].rest) /\ ~ c.ok /\ c.reboot = act[a].reboot
        /\ c.pairs = act[a].pairs /\ c.alone = act[a].alone
    BY <1>1 DEF Call
  <2>4. QED BY <1>1, <1>2, <2>1, <2>2, <2>3, OneCall DEF NextPair, Frame, Same
<1>3. CASE Known(Name(a))
  <2> DEFINE c == [act[a] EXCEPT !.pc = "module", !.pairOk = TRUE, !.todo = Target(a)]
  <2>1. c \in Call
    <3>1. Target(a) \in SUBSET Modules
      BY <1>3 DEF Known, Names, Target
    <3>2. QED BY <1>1, <3>1 DEF Call, Places
  <2>2. act' = [act EXCEPT ![a] = c]
    BY <1>3 DEF NextPair, Target
  <2>3. /\ c.pc = "module" /\ c.rest = act[a].rest /\ c.ok = act[a].ok /\ c.pairOk
        /\ c.todo = Target(a) /\ c.reboot = act[a].reboot
        /\ c.pairs = act[a].pairs /\ c.alone = act[a].alone
    BY <1>1 DEF Call
  <2>4. QED BY <1>1, <1>3, <2>1, <2>2, <2>3, OneCall DEF NextPair, Frame, Same
<1>4. QED BY <1>2, <1>3

LEMMA StartModuleStep ==
  ASSUME Typed, NEW a \in Actors, StartModule(a)
  PROVE  /\ Frame(a) /\ Same(a) /\ SameRest(a)
         /\ act[a].pc = "module" /\ act'[a].pc = "script"
         /\ act'[a].ok = act[a].ok /\ act'[a].pairOk = act[a].pairOk
         /\ act'[a].todo = act[a].todo /\ act'[a].module \in act[a].todo
         /\ act'[a].subs = SubsOf[act'[a].module] /\ act'[a].moduleOk
         /\ UNCHANGED <<system, reply>>
<1>1. act[a] \in Call /\ act[a].pc = "module"
  BY CallFields DEF StartModule
<1>2. PICK m \in act[a].todo :
        act' = [act EXCEPT ![a] = [act[a] EXCEPT !.pc = "script", !.module = m,
                                                 !.subs = SubsOf[m], !.moduleOk = TRUE]]
  BY DEF StartModule
<1> DEFINE c == [act[a] EXCEPT !.pc = "script", !.module = m,
                               !.subs = SubsOf[m], !.moduleOk = TRUE]
<1>3. m \in Modules /\ m \in Names /\ SubsOf[m] \in Seq(Subs)
  BY <1>1, SubsOfIsSequence DEF Call, Names
<1>4. c \in Call
  BY <1>1, <1>3 DEF Call, Places
<1>5. /\ c.pc = "script" /\ c.module = m /\ c.subs = SubsOf[m] /\ c.moduleOk
      /\ c.ok = act[a].ok /\ c.pairOk = act[a].pairOk /\ c.todo = act[a].todo
      /\ c.rest = act[a].rest /\ c.reboot = act[a].reboot
      /\ c.pairs = act[a].pairs /\ c.alone = act[a].alone
  BY <1>1 DEF Call
<1>6. act' = [act EXCEPT ![a] = c]
  BY <1>2
<1> HIDE DEF c
<1>7. /\ act' \in [Actors -> Call] /\ act'[a] = c
      /\ \A b \in Actors : b # a => act'[b] = act[b]
  BY <1>4, <1>6, OneCall
<1>8. UNCHANGED <<system, reply>>
  BY DEF StartModule
<1>9. QED BY <1>1, <1>5, <1>7, <1>8 DEF Frame, Same, SameRest

LEMMA RunScriptStep ==
  ASSUME Typed, NEW a \in Actors, RunScript(a)
  PROVE  /\ Frame(a) /\ Same(a) /\ SameRest(a)
         /\ act[a].pc = "script" /\ act'[a].pc = "script" /\ act[a].subs # <<>>
         /\ act'[a].ok = act[a].ok /\ act'[a].pairOk = act[a].pairOk
         /\ act'[a].todo = act[a].todo /\ act'[a].module = act[a].module
         /\ act'[a].subs = Tail(act[a].subs)
         /\ \E ok \in BOOLEAN, found \in Answers(Head(act[a].subs)),
               v \in {applied[Head(act[a].subs)], Level(a)} :
              /\ Runs(Head(act[a].subs), Level(a), ok, v)
              /\ applied' = [applied EXCEPT ![Head(act[a].subs)] = v]
              /\ skipped' = Skips(Head(act[a].subs), ok, found)
              /\ act'[a].moduleOk = ModuleOk(a, ok, found)
         /\ UNCHANGED <<installed, file, journal, cached, reply>>
<1>1. act[a] \in Call /\ act[a].pc = "script" /\ act[a].subs # <<>>
  BY CallFields DEF RunScript
<1> DEFINE s == Head(act[a].subs)
<1>2. PICK ok \in BOOLEAN, found \in Answers(s), v \in {applied[s], Level(a)} :
        /\ Runs(s, Level(a), ok, v)
        /\ applied' = [applied EXCEPT ![s] = v]
        /\ skipped' = Skips(s, ok, found)
        /\ act' = [act EXCEPT ![a] =
             [act[a] EXCEPT !.subs = Tail(act[a].subs), !.moduleOk = ModuleOk(a, ok, found)]]
  BY Zenon DEF RunScript
<1> DEFINE c == [act[a] EXCEPT !.subs = Tail(act[a].subs), !.moduleOk = ModuleOk(a, ok, found)]
<1>3. ModuleOk(a, ok, found) \in BOOLEAN
  BY DEF ModuleOk
<1>4. c \in Call
  BY <1>1, <1>3, CallFields DEF Call
<1>5. /\ c.pc = "script" /\ c.module = act[a].module /\ c.subs = Tail(act[a].subs)
      /\ c.moduleOk = ModuleOk(a, ok, found)
      /\ c.ok = act[a].ok /\ c.pairOk = act[a].pairOk /\ c.todo = act[a].todo
      /\ c.rest = act[a].rest /\ c.reboot = act[a].reboot
      /\ c.pairs = act[a].pairs /\ c.alone = act[a].alone
  BY <1>1 DEF Call
<1>6. act' = [act EXCEPT ![a] = c]
  BY <1>2
<1> HIDE DEF c
<1>7. /\ act' \in [Actors -> Call] /\ act'[a] = c
      /\ \A b \in Actors : b # a => act'[b] = act[b]
  BY <1>4, <1>6, OneCall
<1>8. UNCHANGED <<installed, file, journal, cached, reply>>
  BY DEF RunScript
<1>9. /\ Frame(a) /\ Same(a) /\ SameRest(a)
      /\ act'[a].pc = "script" /\ act'[a].subs = Tail(act[a].subs)
      /\ act'[a].ok = act[a].ok /\ act'[a].pairOk = act[a].pairOk
      /\ act'[a].todo = act[a].todo /\ act'[a].module = act[a].module
  BY <1>5, <1>7 DEF Frame, Same, SameRest
<1>10. act'[a].moduleOk = ModuleOk(a, ok, found)
  BY <1>5, <1>7
<1>11. QED BY <1>1, <1>2, <1>8, <1>9, <1>10, Zenon

LEMMA FinishModuleStep ==
  ASSUME Typed, NEW a \in Actors, FinishModule(a)
  PROVE  /\ Frame(a) /\ Same(a) /\ SameRest(a)
         /\ act[a].pc = "script" /\ act[a].subs = <<>>
         /\ act'[a].pc = IF act'[a].todo = {} THEN "pairEnd" ELSE "module"
         /\ act'[a].ok = act[a].ok
         /\ act'[a].pairOk = (act[a].pairOk /\ act[a].moduleOk)
         /\ act'[a].todo = act[a].todo \ {act[a].module}
         /\ IF act[a].moduleOk THEN Modify(act[a].module, Level(a)) ELSE UNCHANGED file
         /\ UNCHANGED <<applied, skipped, installed, journal, cached, reply>>
<1>1. act[a] \in Call /\ act[a].pc = "script" /\ act[a].subs = <<>>
  BY CallFields DEF FinishModule
<1> DEFINE left == act[a].todo \ {act[a].module}
           q == act[a].pairOk /\ act[a].moduleOk
           pc == IF left = {} THEN "pairEnd" ELSE "module"
           c == [act[a] EXCEPT !.todo = left, !.pairOk = q, !.pc = pc]
<1>2. left \in SUBSET Modules /\ q \in BOOLEAN /\ pc \in Places
  BY <1>1 DEF Call, Places
<1>3. c \in Call
  <2> HIDE DEF left, q, pc
  <2>1. QED BY <1>1, <1>2 DEF Call
<1>4. /\ c.pc = pc /\ c.todo = left /\ c.pairOk = q /\ c.ok = act[a].ok
      /\ c.rest = act[a].rest /\ c.reboot = act[a].reboot
      /\ c.pairs = act[a].pairs /\ c.alone = act[a].alone
  <2> HIDE DEF left, q, pc
  <2>1. QED BY <1>1 DEF Call
<1>5. act' = [act EXCEPT ![a] = c]
  BY Zenon DEF FinishModule
<1>6. /\ IF act[a].moduleOk THEN Modify(act[a].module, Level(a)) ELSE UNCHANGED file
      /\ UNCHANGED <<applied, skipped, installed, journal, cached, reply>>
  BY DEF FinishModule, Records
<1> HIDE DEF c
<1>7. /\ act' \in [Actors -> Call] /\ act'[a] = c
      /\ \A b \in Actors : b # a => act'[b] = act[b]
  BY <1>3, <1>5, OneCall
<1>8. QED BY <1>1, <1>4, <1>6, <1>7 DEF Frame, Same, SameRest

LEMMA FinishPairStep ==
  ASSUME Typed, NEW a \in Actors, Shape(a), FinishPair(a)
  PROVE  /\ Frame(a) /\ Same(a)
         /\ act[a].pc = "pairEnd" /\ act'[a].pc = "pair"
         /\ act'[a].ok = (act[a].ok /\ act[a].pairOk)
         /\ act'[a].reboot = (act[a].reboot \/ NeedsReboot(Name(a)))
         /\ act'[a].rest = IF a = Service /\ Name(a) = All THEN <<>> ELSE Tail(act[a].rest)
         /\ IF Name(a) = All /\ act[a].pairOk THEN Modify(All, Level(a)) ELSE UNCHANGED file
         /\ cached' = IF Caches(a) THEN Level(a) ELSE cached
         /\ UNCHANGED <<applied, skipped, installed, journal, reply>>
<1>1. act[a] \in Call /\ act[a].pc = "pairEnd" /\ act[a].rest # <<>>
  BY CallFields DEF FinishPair, Shape, InPair
<1> DEFINE q == act[a].ok /\ act[a].pairOk
           r == act[a].reboot \/ NeedsReboot(Name(a))
           t == IF a = Service /\ Name(a) = All THEN <<>> ELSE Tail(act[a].rest)
           c == [act[a] EXCEPT !.pc = "pair", !.ok = q, !.reboot = r, !.rest = t]
<1>2. q \in BOOLEAN /\ r \in BOOLEAN /\ t \in Seq(Pairs)
  BY <1>1, CallFields
<1>3. c \in Call
  <2> HIDE DEF q, r, t
  <2>1. QED BY <1>1, <1>2 DEF Call, Places
<1>4. /\ c.pc = "pair" /\ c.ok = q /\ c.reboot = r /\ c.rest = t
      /\ c.pairs = act[a].pairs /\ c.alone = act[a].alone
  <2> HIDE DEF q, r, t
  <2>1. QED BY <1>1 DEF Call
<1>5. act' = [act EXCEPT ![a] = c]
  BY Zenon DEF FinishPair, RebootSoFar
<1>6. /\ IF Name(a) = All /\ act[a].pairOk THEN Modify(All, Level(a)) ELSE UNCHANGED file
      /\ cached' = IF Caches(a) THEN Level(a) ELSE cached
      /\ UNCHANGED <<applied, skipped, installed, journal, reply>>
  BY DEF FinishPair
<1> HIDE DEF c
<1>7. /\ act' \in [Actors -> Call] /\ act'[a] = c
      /\ \A b \in Actors : b # a => act'[b] = act[b]
  BY <1>3, <1>5, OneCall
<1>8. QED BY <1>1, <1>4, <1>6, <1>7 DEF Frame, Same

(* A step to another place that changes at most the flag and the result.   *)
LEMMA Moves ==
  ASSUME Typed, NEW a \in Actors, NEW p \in Places, NEW f \in BOOLEAN, NEW k \in BOOLEAN,
         act' = [act EXCEPT ![a] = [act[a] EXCEPT !.pc = p, !.flag = f, !.ok = k]]
  PROVE  /\ Frame(a) /\ Same(a) /\ SameRest(a)
         /\ act'[a].pc = p /\ act'[a].flag = f /\ act'[a].ok = k
         /\ act'[a].todo = act[a].todo /\ act'[a].module = act[a].module
         /\ act'[a].pairOk = act[a].pairOk
<1> DEFINE c == [act[a] EXCEPT !.pc = p, !.flag = f, !.ok = k]
<1>1. act[a] \in Call
  BY CallFields
<1>2. c \in Call
  BY <1>1 DEF Call
<1>3. /\ c.pc = p /\ c.flag = f /\ c.ok = k /\ c.todo = act[a].todo
      /\ c.rest = act[a].rest /\ c.reboot = act[a].reboot /\ c.module = act[a].module
      /\ c.pairs = act[a].pairs /\ c.alone = act[a].alone /\ c.pairOk = act[a].pairOk
  BY <1>1 DEF Call
<1>4. act' = [act EXCEPT ![a] = c]
  OBVIOUS
<1> HIDE DEF c
<1>5. /\ act' \in [Actors -> Call] /\ act'[a] = c
      /\ \A b \in Actors : b # a => act'[b] = act[b]
  BY <1>2, <1>4, OneCall
<1>6. QED BY <1>3, <1>5 DEF Frame, Same, SameRest

(* The same, for the steps that name fewer fields.                         *)
LEMMA MovesOnly ==
  ASSUME Typed, NEW a \in Actors, NEW p, NEW f \in BOOLEAN, NEW k \in BOOLEAN
  PROVE  /\ [act EXCEPT ![a].pc = p]
              = [act EXCEPT ![a] = [act[a] EXCEPT !.pc = p, !.flag = act[a].flag,
                                                  !.ok = act[a].ok]]
         /\ [act EXCEPT ![a] = [@ EXCEPT !.pc = p, !.flag = f]]
              = [act EXCEPT ![a] = [act[a] EXCEPT !.pc = p, !.flag = f, !.ok = act[a].ok]]
         /\ [act EXCEPT ![a] = [@ EXCEPT !.pc = p, !.ok = k]]
              = [act EXCEPT ![a] = [act[a] EXCEPT !.pc = p, !.flag = act[a].flag, !.ok = k]]
         /\ act[a].flag \in BOOLEAN /\ act[a].ok \in BOOLEAN
<1>1. act[a] \in Call
  BY CallFields
<1>2. /\ [act[a] EXCEPT !.pc = p]
           = [act[a] EXCEPT !.pc = p, !.flag = act[a].flag, !.ok = act[a].ok]
      /\ [act[a] EXCEPT !.pc = p, !.flag = f]
           = [act[a] EXCEPT !.pc = p, !.flag = f, !.ok = act[a].ok]
      /\ [act[a] EXCEPT !.pc = p, !.ok = k]
           = [act[a] EXCEPT !.pc = p, !.flag = act[a].flag, !.ok = k]
  BY <1>1 DEF Call
<1>3. act[a].flag \in BOOLEAN /\ act[a].ok \in BOOLEAN
  BY <1>1 DEF Call
<1>4. QED BY <1>2, <1>3, Zenon

LEMMA CheckLogStep ==
  ASSUME Typed, NEW a \in Actors, CheckLog(a)
  PROVE  /\ Frame(a) /\ Same(a) /\ SameRest(a)
         /\ act[a].pc = "pair" /\ act[a].rest = <<>> /\ act'[a].ok = act[a].ok
         /\ \/ act'[a].pc = "remove" /\ act'[a].flag = HasOn
            \/ act'[a].pc = "answer" /\ StoreFails
         /\ UNCHANGED <<system, reply>>
<1>1. /\ act[a].pc = "pair" /\ act[a].rest = <<>>
      /\ UNCHANGED <<system, reply>>
      /\ HasOn \in BOOLEAN
  BY DEF CheckLog, HasOn
<1>2. CASE act' = [act EXCEPT ![a] = [@ EXCEPT !.pc = "remove", !.flag = HasOn]]
  <2>1. act' = [act EXCEPT ![a] =
                  [act[a] EXCEPT !.pc = "remove", !.flag = HasOn, !.ok = act[a].ok]]
    BY <1>1, <1>2, MovesOnly, Zenon
  <2>2. act[a].ok \in BOOLEAN
    BY MovesOnly
  <2>3. QED BY <1>1, <2>1, <2>2, Moves DEF Places
<1>3. CASE StoreFails /\ act' = [act EXCEPT ![a].pc = "answer"]
  <2>1. /\ act' = [act EXCEPT ![a] =
                    [act[a] EXCEPT !.pc = "answer", !.flag = act[a].flag, !.ok = act[a].ok]]
        /\ act[a].flag \in BOOLEAN /\ act[a].ok \in BOOLEAN
    BY <1>1, <1>3, MovesOnly, Zenon
  <2>2. QED BY <1>1, <1>3, <2>1, Moves DEF Places
<1>4. QED BY <1>2, <1>3 DEF CheckLog

LEMMA RemoveSwitchStep ==
  ASSUME Typed, NEW a \in Actors, RemoveSwitch(a)
  PROVE  /\ Frame(a) /\ Same(a) /\ SameRest(a)
         /\ act[a].pc = "remove" /\ act'[a].ok = act[a].ok /\ act'[a].flag = act[a].flag
         /\ \/ /\ act'[a].pc = "install"
               /\ journal' = [journal EXCEPT ![NeedDel(a)] = "absent"]
               /\ a \in Sandboxed => journal[NeedDel(a)] = "absent"
            \/ act'[a].pc = "answer" /\ UNCHANGED journal
         /\ UNCHANGED <<applied, skipped, installed, file, cached, reply>>
<1>1. PICK p \in {"install", "answer"} :
        /\ act' = [act EXCEPT ![a].pc = p]
        /\ \/ /\ p = "install" /\ journal' = [journal EXCEPT ![NeedDel(a)] = "absent"]
              /\ a \in Sandboxed => journal[NeedDel(a)] = "absent"
           \/ p = "answer" /\ UNCHANGED journal
  BY Zenon DEF RemoveSwitch
<1>2. /\ act' = [act EXCEPT ![a] =
                  [act[a] EXCEPT !.pc = p, !.flag = act[a].flag, !.ok = act[a].ok]]
      /\ act[a].flag \in BOOLEAN /\ act[a].ok \in BOOLEAN
  BY <1>1, MovesOnly, Zenon
<1>3. p \in Places
  BY <1>1 DEF Places
<1>4. act[a].pc = "remove" /\ UNCHANGED <<applied, skipped, installed, file, cached, reply>>
  BY DEF RemoveSwitch
<1>5. /\ Frame(a) /\ Same(a) /\ SameRest(a)
      /\ act'[a].pc = p /\ act'[a].ok = act[a].ok /\ act'[a].flag = act[a].flag
  BY <1>2, <1>3, Moves
<1>6. QED BY <1>1, <1>4, <1>5

LEMMA InstallSwitchStep ==
  ASSUME Typed, NEW a \in Actors, InstallSwitch(a)
  PROVE  /\ Frame(a) /\ Same(a) /\ SameRest(a)
         /\ act[a].pc = "install" /\ act'[a].pc \in {"logged", "answer"}
         /\ act'[a].ok = act[a].ok /\ act'[a].flag = act[a].flag
         /\ \/ UNCHANGED journal /\ (act'[a].pc = "logged" => journal[Dest(a)] # "absent")
            \/ /\ journal[Dest(a)] = "absent" /\ a \notin Sandboxed
               /\ \E c \in {"full"} \cup (IF "fill" \in JournalFaults THEN {"empty"} ELSE {}) :
                    journal' = [journal EXCEPT ![Dest(a)] = c]
         /\ UNCHANGED <<applied, skipped, installed, file, cached, reply>>
<1> DEFINE Kept(p) == UNCHANGED journal /\ (p = "logged" => journal[Dest(a)] # "absent")
           Made(c) == journal[Dest(a)] = "absent" /\ a \notin Sandboxed
                        /\ journal' = [journal EXCEPT ![Dest(a)] = c]
           Contents == {"full"} \cup (IF "fill" \in JournalFaults THEN {"empty"} ELSE {})
<1>1. journal \in [{"on", "off"} -> {"absent", "empty", "full"}]
  BY DEF Typed, TypeOK
<1>2. [journal EXCEPT ![Dest(a)] = "absent"] = journal
        \/ journal[Dest(a)] # "absent"
  <2>1. Dest(a) \in {"on", "off"} /\ journal = [k \in {"on", "off"} |-> journal[k]]
    BY <1>1 DEF Dest
  <2>2. QED BY <2>1
<1>3. \E p \in {"logged", "answer"} :
        /\ act' = [act EXCEPT ![a].pc = p]
        /\ Kept(p) \/ \E c \in Contents : Made(c)
  <2>1. CASE journal[Dest(a)] # "absent" /\ act' = [act EXCEPT ![a].pc = "logged"]
               /\ UNCHANGED journal
    BY <2>1
  <2>2. CASE a \notin Sandboxed /\ Copied(a, "full", "logged")
    <3>1. Made("full") /\ "full" \in Contents
      BY <2>2 DEF Copied
    <3>2. QED BY <2>2, <3>1, Zenon DEF Copied
  <2>3. CASE /\ a \notin Sandboxed /\ "fill" \in JournalFaults
             /\ \E place \in {"logged", "answer"} : Copied(a, "empty", place)
    <3>1. PICK place \in {"logged", "answer"} : Copied(a, "empty", place)
      BY <2>3
    <3>2. Made("empty") /\ "empty" \in Contents
      BY <2>3, <3>1 DEF Copied
    <3>3. QED BY <3>1, <3>2, Zenon DEF Copied
  <2>4. CASE Copied(a, "absent", "answer")
    BY <1>2, <2>4 DEF Copied
  <2>5. QED BY <2>1, <2>2, <2>3, <2>4 DEF InstallSwitch
<1>4. PICK p \in {"logged", "answer"} :
        /\ act' = [act EXCEPT ![a].pc = p]
        /\ Kept(p) \/ \E c \in Contents : Made(c)
  BY <1>3
<1>5. /\ act' = [act EXCEPT ![a] =
                  [act[a] EXCEPT !.pc = p, !.flag = act[a].flag, !.ok = act[a].ok]]
      /\ act[a].flag \in BOOLEAN /\ act[a].ok \in BOOLEAN
  BY <1>4, MovesOnly, Zenon
<1>6. act[a].pc = "install" /\ UNCHANGED <<applied, skipped, installed, file, cached, reply>>
  BY DEF InstallSwitch
<1>7. p \in Places
  BY DEF Places
<1>8. /\ Frame(a) /\ Same(a) /\ SameRest(a)
      /\ act'[a].pc = p /\ act'[a].ok = act[a].ok /\ act'[a].flag = act[a].flag
  BY <1>5, <1>7, Moves
<1>9. QED BY <1>4, <1>6, <1>8

LEMMA RunCoredumpStep ==
  ASSUME Typed, NEW a \in Actors, RunCoredump(a)
  PROVE  /\ Frame(a) /\ Same(a) /\ SameRest(a)
         /\ act[a].pc = "coredump" /\ act'[a].pc \in {"coredumpEnd", "answer"}
         /\ UNCHANGED <<system, reply>>
<1>1. \/ act' = [act EXCEPT ![a].pc = "coredumpEnd"]
      \/ act' = [act EXCEPT ![a] = [@ EXCEPT !.pc = "answer", !.ok = FALSE]]
  BY DEF RunCoredump
<1>2. act[a].flag \in BOOLEAN /\ act[a].ok \in BOOLEAN
  BY MovesOnly
<1>3. act[a].pc = "coredump" /\ UNCHANGED <<system, reply>>
  BY DEF RunCoredump
<1>4. CASE act' = [act EXCEPT ![a].pc = "coredumpEnd"]
  <2>1. act' = [act EXCEPT ![a] =
                  [act[a] EXCEPT !.pc = "coredumpEnd", !.flag = act[a].flag, !.ok = act[a].ok]]
    BY <1>2, <1>4, MovesOnly, Zenon
  <2>2. QED BY <1>2, <1>3, <2>1, Moves DEF Places
<1>5. CASE act' = [act EXCEPT ![a] = [@ EXCEPT !.pc = "answer", !.ok = FALSE]]
  <2>1. act' = [act EXCEPT ![a] =
                  [act[a] EXCEPT !.pc = "answer", !.flag = act[a].flag, !.ok = FALSE]]
    BY <1>2, <1>5, MovesOnly, Zenon
  <2>2. QED BY <1>2, <1>3, <2>1, Moves DEF Places
<1>6. QED BY <1>1, <1>4, <1>5

LEMMA FinishCoredumpStep ==
  ASSUME Typed, NEW a \in Actors, FinishCoredump(a)
  PROVE  /\ Frame(a) /\ Same(a) /\ SameRest(a)
         /\ act[a].pc = "coredumpEnd" /\ act'[a].pc = "answer"
         /\ Modify(Coredump, Level(a))
         /\ UNCHANGED <<applied, skipped, installed, journal, cached, reply>>
<1>1. \/ act' = [act EXCEPT ![a].pc = "answer"]
      \/ act' = [act EXCEPT ![a] = [@ EXCEPT !.pc = "answer", !.ok = FALSE]]
  BY DEF FinishCoredump
<1>2. act[a].flag \in BOOLEAN /\ act[a].ok \in BOOLEAN
  BY MovesOnly
<1>3. /\ act[a].pc = "coredumpEnd" /\ Modify(Coredump, Level(a))
      /\ UNCHANGED <<applied, skipped, installed, journal, cached, reply>>
  BY DEF FinishCoredump, Modify
<1>4. CASE act' = [act EXCEPT ![a].pc = "answer"]
  <2>1. act' = [act EXCEPT ![a] =
                  [act[a] EXCEPT !.pc = "answer", !.flag = act[a].flag, !.ok = act[a].ok]]
    BY <1>2, <1>4, MovesOnly, Zenon
  <2>2. QED BY <1>2, <1>3, <2>1, Moves DEF Places
<1>5. CASE act' = [act EXCEPT ![a] = [@ EXCEPT !.pc = "answer", !.ok = FALSE]]
  <2>1. act' = [act EXCEPT ![a] =
                  [act[a] EXCEPT !.pc = "answer", !.flag = act[a].flag, !.ok = FALSE]]
    BY <1>2, <1>5, MovesOnly, Zenon
  <2>2. QED BY <1>2, <1>3, <2>1, Moves DEF Places
<1>6. QED BY <1>1, <1>4, <1>5

LEMMA AnswerStep ==
  ASSUME Typed, NEW a \in Actors, Answer(a)
  PROVE  /\ Frame(a) /\ act[a].pc \in {"logged", "answer"} /\ act'[a] = IdleCall
         /\ reply' = [reply EXCEPT ![a] =
              IF ~ act[a].ok THEN "fail"
              ELSE IF act[a].reboot /\ a = Service THEN "reboot" ELSE "success"]
         /\ UNCHANGED system
<1>1. act' = [act EXCEPT ![a] = IdleCall] /\ act[a].pc \in {"logged", "answer"}
  BY DEF Answer
<1>2. QED BY <1>1, IdleTyped, OneCall DEF Answer, Frame

LEMMA CrashStep ==
  ASSUME Typed, NEW a \in Actors, Crash(a)
  PROVE  /\ Frame(a) /\ Busy(a) /\ act'[a] = IdleCall
         /\ cached' = IF a = Service THEN NoLevel ELSE cached
         /\ \/ UNCHANGED journal
            \/ /\ Crashes /\ act[a].pc = "install" /\ a \notin Sandboxed
               /\ journal' = [journal EXCEPT ![Dest(a)] = "empty"]
         /\ UNCHANGED <<applied, skipped, installed, file, reply>>
<1>1. act' = [act EXCEPT ![a] = IdleCall]
  BY DEF Crash
<1>2. QED BY <1>1, IdleTyped, OneCall DEF Crash, Frame

(* Beginning a call: the others keep all but alone, and nothing counts as  *)
(* passed over or unsaved any more.                                        *)
Begun ==
  /\ skipped' = {} /\ unsaved' = {}
  /\ UNCHANGED <<applied, installed, exists, levels, journal, cached>>

Keeps(b) ==
  /\ act'[b].pc = act[b].pc /\ act'[b].pairs = act[b].pairs /\ act'[b].rest = act[b].rest
  /\ act'[b].todo = act[b].todo /\ act'[b].module = act[b].module
  /\ act'[b].subs = act[b].subs /\ act'[b].moduleOk = act[b].moduleOk
  /\ act'[b].pairOk = act[b].pairOk /\ act'[b].ok = act[b].ok
  /\ act'[b].reboot = act[b].reboot /\ act'[b].flag = act[b].flag

LEMMA StartStep ==
  ASSUME Typed, NEW a \in Actors, NEW call \in Call, call.pc # "idle", Start(a, call)
  PROVE  /\ ~ Busy(a) /\ act' \in [Actors -> Call]
         /\ act'[a] \in {[call EXCEPT !.alone = TRUE], [call EXCEPT !.alone = FALSE]}
         /\ act'[a].alone => \A b \in Actors : ~ Busy(b)
         /\ \A b \in Actors : b # a =>
              /\ Keeps(b)
              /\ act'[b].alone = (act[b].alone /\ ~ Busy(b))
         /\ reply' = [reply EXCEPT ![a] = "none"]
         /\ Begun
<1> DEFINE others == \E b \in Actors \ {a} : Busy(b)
<1>1. /\ ~ Busy(a)
      /\ act' = [b \in Actors |->
                   IF b = a THEN [call EXCEPT !.alone = ~ others]
                   ELSE IF Busy(b) THEN [act[b] EXCEPT !.alone = FALSE] ELSE act[b]]
      /\ reply' = [reply EXCEPT ![a] = "none"]
      /\ Begun
  BY DEF Start, Begun
<1>2. /\ act'[a] = [call EXCEPT !.alone = ~ others]
      /\ [call EXCEPT !.alone = TRUE] \in Call /\ [call EXCEPT !.alone = FALSE] \in Call
      /\ [call EXCEPT !.alone = TRUE].alone /\ ~ [call EXCEPT !.alone = FALSE].alone
  BY <1>1 DEF Call
<1>3. /\ act'[a] \in {[call EXCEPT !.alone = TRUE], [call EXCEPT !.alone = FALSE]}
      /\ act'[a] \in Call
      /\ act'[a].alone => ~ others
  <2>1. CASE others
    BY <1>2, <2>1
  <2>2. CASE ~ others
    BY <1>2, <2>2
  <2>3. QED BY <2>1, <2>2
<1>4. ASSUME NEW b \in Actors, b # a
      PROVE  /\ act'[b] \in Call /\ Keeps(b)
             /\ act'[b].alone = (act[b].alone /\ ~ Busy(b))
  <2>1. act[b] \in Call
    BY CallFields
  <2>2. CASE Busy(b)
    <3> DEFINE c == [act[b] EXCEPT !.alone = FALSE]
    <3>1. act'[b] = c
      BY <1>1, <1>4, <2>2
    <3>2. /\ c \in Call /\ c.alone = FALSE /\ c.pc = act[b].pc /\ c.pairs = act[b].pairs
          /\ c.rest = act[b].rest /\ c.todo = act[b].todo /\ c.module = act[b].module
          /\ c.subs = act[b].subs /\ c.moduleOk = act[b].moduleOk
          /\ c.pairOk = act[b].pairOk /\ c.ok = act[b].ok
          /\ c.reboot = act[b].reboot /\ c.flag = act[b].flag
      BY <2>1 DEF Call
    <3> HIDE DEF c
    <3>3. QED BY <2>2, <3>1, <3>2 DEF Keeps
  <2>3. CASE ~ Busy(b)
    <3>1. act'[b] = act[b]
      BY <1>1, <1>4, <2>3
    <3>2. act[b].alone \in BOOLEAN
      BY <2>1 DEF Call
    <3>3. QED BY <2>1, <2>3, <3>1, <3>2 DEF Keeps
  <2>4. QED BY <2>2, <2>3
<1>5. act' \in [Actors -> Call]
  <2>1. \A b \in Actors : act'[b] \in Call
    BY <1>3, <1>4
  <2>2. QED BY <1>1, <2>1
<1>6. QED BY <1>1, <1>3, <1>4, <1>5

LEMMA SetStep ==
  ASSUME Typed, NEW a \in Actors, Set(a)
  PROVE  /\ ~ Busy(a) /\ act' \in [Actors -> Call]
         /\ act'[a].pc = "pair" /\ act'[a].pairs \in Seq(Pairs)
         /\ act'[a].rest = act'[a].pairs /\ act'[a].ok /\ ~ act'[a].reboot
         /\ act'[a].alone => \A b \in Actors : ~ Busy(b)
         /\ \A b \in Actors : b # a =>
              /\ Keeps(b)
              /\ act'[b].alone = (act[b].alone /\ ~ Busy(b))
         /\ reply' = [reply EXCEPT ![a] = "none"]
         /\ Begun
<1>1. PICK p \in Requests :
        Start(a, [IdleCall EXCEPT !.pc = "pair", !.pairs = p, !.rest = p])
  BY DEF Set
<1> DEFINE c == [IdleCall EXCEPT !.pc = "pair", !.pairs = p, !.rest = p]
<1>2. p \in Seq(Pairs)
  BY RequestPairs
<1>3. /\ c \in Call /\ c.pc = "pair"
      /\ \A k \in BOOLEAN :
           /\ [c EXCEPT !.alone = k].pc = "pair" /\ [c EXCEPT !.alone = k].pairs = p
           /\ [c EXCEPT !.alone = k].rest = p /\ [c EXCEPT !.alone = k].ok
           /\ ~ [c EXCEPT !.alone = k].reboot
  <2>1. IdleCall \in Call /\ IdleCall.ok /\ ~ IdleCall.reboot
    BY IdleTyped DEF IdleCall
  <2>2. QED BY <1>2, <2>1 DEF Call, Places
<1>4. Start(a, c)
  BY <1>1
<1> HIDE DEF c
<1>5. /\ ~ Busy(a) /\ act' \in [Actors -> Call]
      /\ act'[a] \in {[c EXCEPT !.alone = TRUE], [c EXCEPT !.alone = FALSE]}
      /\ act'[a].alone => \A b \in Actors : ~ Busy(b)
      /\ \A b \in Actors : b # a =>
           /\ Keeps(b)
           /\ act'[b].alone = (act[b].alone /\ ~ Busy(b))
      /\ reply' = [reply EXCEPT ![a] = "none"]
      /\ Begun
  BY <1>3, <1>4, StartStep
<1>6. /\ act'[a].pc = "pair" /\ act'[a].pairs = p /\ act'[a].rest = p
      /\ act'[a].ok /\ ~ act'[a].reboot
  BY <1>3, <1>5
<1>7. QED BY <1>2, <1>5, <1>6

LEMMA SetCoredumpStep ==
  ASSUME Typed, NEW a \in Actors, SetCoredump(a)
  PROVE  /\ ~ Busy(a) /\ act' \in [Actors -> Call]
         /\ act'[a].pc = "coredump" /\ act'[a].pairs = <<>> /\ ~ act'[a].reboot
         /\ act'[a].rest # <<>> /\ Head(act'[a].rest).name = Coredump
         /\ act'[a].alone => \A b \in Actors : ~ Busy(b)
         /\ \A b \in Actors : b # a =>
              /\ Keeps(b)
              /\ act'[b].alone = (act[b].alone /\ ~ Busy(b))
         /\ reply' = [reply EXCEPT ![a] = "none"]
         /\ Begun
<1>1. PICK l \in {On, Off} :
        Start(a, [IdleCall EXCEPT !.pc = "coredump",
                                  !.rest = <<[name |-> Coredump, level |-> l]>>])
  BY DEF SetCoredump
<1> DEFINE t == <<[name |-> Coredump, level |-> l]>>
           c == [IdleCall EXCEPT !.pc = "coredump", !.rest = t]
<1>2. t \in Seq(Pairs) /\ t # <<>> /\ Head(t).name = Coredump
  <2>1. [name |-> Coredump, level |-> l] \in Pairs
    <3>1. Coredump \in PairNames /\ l \in Levels
      BY LevelsGiven DEF PairNames
    <3>2. QED BY <3>1 DEF Pairs
  <2>2. QED BY <2>1
<1> HIDE DEF t
<1>3. /\ c \in Call /\ c.pc = "coredump"
      /\ \A k \in BOOLEAN :
           /\ [c EXCEPT !.alone = k].pc = "coredump" /\ [c EXCEPT !.alone = k].pairs = <<>>
           /\ [c EXCEPT !.alone = k].rest = t /\ ~ [c EXCEPT !.alone = k].reboot
  <2>1. IdleCall \in Call /\ IdleCall.pairs = <<>> /\ ~ IdleCall.reboot
    BY IdleTyped DEF IdleCall
  <2>2. QED BY <1>2, <2>1 DEF Call, Places
<1>4. Start(a, c)
  BY <1>1 DEF t
<1> HIDE DEF c
<1>5. /\ ~ Busy(a) /\ act' \in [Actors -> Call]
      /\ act'[a] \in {[c EXCEPT !.alone = TRUE], [c EXCEPT !.alone = FALSE]}
      /\ act'[a].alone => \A b \in Actors : ~ Busy(b)
      /\ \A b \in Actors : b # a =>
           /\ Keeps(b)
           /\ act'[b].alone = (act[b].alone /\ ~ Busy(b))
      /\ reply' = [reply EXCEPT ![a] = "none"]
      /\ Begun
  BY <1>3, <1>4, StartStep
<1>6. /\ act'[a].pc = "coredump" /\ act'[a].pairs = <<>> /\ act'[a].rest = t
      /\ ~ act'[a].reboot
  BY <1>3, <1>5
<1>7. QED BY <1>2, <1>5, <1>6

LEMMA RemoveLevelsStep ==
  ASSUME Typed, RemoveLevels
  PROVE  /\ act' \in [Actors -> Call]
         /\ \A b \in Actors : Keeps(b) /\ act'[b].alone = ~ Busy(b)
         /\ Upgrade /\ exists' = FALSE /\ unsaved' = {} /\ DOMAIN levels' = {}
         /\ UNCHANGED <<applied, skipped, installed, journal, cached, reply>>
<1>1. /\ act' = [a \in Actors |-> [act[a] EXCEPT !.alone = ~ Busy(a)]]
      /\ Upgrade /\ exists' = FALSE /\ unsaved' = {} /\ DOMAIN levels' = {}
      /\ UNCHANGED <<applied, skipped, installed, journal, cached, reply>>
  BY DEF RemoveLevels
<1>2. ASSUME NEW b \in Actors
      PROVE  act'[b] \in Call /\ Keeps(b) /\ act'[b].alone = ~ Busy(b)
  <2>1. act[b] \in Call
    BY CallFields
  <2> DEFINE k == ~ Busy(b)
             c == [act[b] EXCEPT !.alone = k]
  <2>2. act'[b] = c
    BY <1>1
  <2>3. /\ c \in Call /\ c.alone = k /\ c.pc = act[b].pc /\ c.pairs = act[b].pairs
        /\ c.rest = act[b].rest /\ c.todo = act[b].todo /\ c.module = act[b].module
        /\ c.subs = act[b].subs /\ c.moduleOk = act[b].moduleOk
        /\ c.pairOk = act[b].pairOk /\ c.ok = act[b].ok
        /\ c.reboot = act[b].reboot /\ c.flag = act[b].flag
    <3> k \in BOOLEAN
      OBVIOUS
    <3> HIDE DEF k
    <3>1. QED BY <2>1 DEF Call
  <2> HIDE DEF c
  <2>4. QED BY <2>2, <2>3 DEF Keeps
<1>3. act' \in [Actors -> Call]
  BY <1>1, <1>2
<1>4. QED BY <1>1, <1>2, <1>3

-----------------------------------------------------------------------------
(* The types, and the shape of a call.                                     *)

Values ==
  /\ applied \in [Subs -> Levels \cup {Default}]
  /\ installed \subseteq Subs
  /\ exists \in BOOLEAN
  /\ DOMAIN levels \subseteq Names \cup {Coredump}
  /\ \A n \in DOMAIN levels : levels[n] \in Levels
  /\ journal \in [{"on", "off"} -> {"absent", "empty", "full"}]
  /\ cached \in Levels \cup {NoLevel}
  /\ skipped \subseteq Subs
  /\ unsaved \subseteq Names \cup {Coredump}
  /\ reply \in [Actors -> {"none", "fail", "success", "reboot"}]

LEMMA TypedParts ==
  /\ Typed => Values
  /\ Values /\ act \in [Actors -> Call] => Typed
<1>1. Typed => Values
  BY DEF Typed, TypeOK, Values
<1>2. act \in [Actors -> Call] =>
        \A a \in Actors : act[a].pc \in Places /\ act[a].todo \subseteq Modules
  BY DEF Call
<1>3. QED BY <1>1, <1>2 DEF Typed, TypeOK, Values, Places

LEMMA FileTyped ==
  ASSUME Typed, NEW n \in Names \cup {Coredump}, NEW l \in Levels, Modify(n, l)
  PROVE  /\ exists' \in BOOLEAN
         /\ unsaved' \subseteq Names \cup {Coredump}
         /\ DOMAIN levels' \subseteq Names \cup {Coredump}
         /\ \A k \in DOMAIN levels' : levels'[k] \in Levels
<1>1. Values
  BY TypedParts
<1>2. CASE Record(n, l)
  BY <1>1, <1>2 DEF Record, Recorded, Values
<1>3. CASE RecordFails(n)
  BY <1>1, <1>3 DEF RecordFails, Values
<1>4. QED BY <1>2, <1>3 DEF Modify

(* The step of one call keeps what concerns the calls of the others.       *)
LEMMA OthersKeep ==
  ASSUME Base, NEW a \in Actors, Frame(a), Shape(a)', Values',
         Busy(a), act'[a].pc = "idle" \/ act'[a].alone = act[a].alone
  PROVE  Base'
<1>1. Typed'
  BY DEF Frame, Typed, TypeOK, Values, Call, Places
<1>2. ByItself'
  BY DEF Base, ByItself, Frame, Busy
<1>3. ASSUME NEW b \in Actors, b # a
      PROVE  Shape(b)'
  BY <1>3 DEF Base, Frame, Shape, InPair, Known, Name, Target
<1>4. QED BY <1>1, <1>2, <1>3 DEF Base

LEMMA BaseInit == Init => Base
<1> SUFFICES ASSUME Init PROVE Base
  OBVIOUS
<1>1. /\ act = [a \in Actors |-> IdleCall]
      /\ IdleCall \in Call /\ IdleCall.pc = "idle" /\ IdleCall.pairs = <<>>
  BY IdleTyped DEF Init
<1>2. act \in [Actors -> Call] /\ \A a \in Actors : act[a].pc = "idle" /\ act[a].pairs = <<>>
  BY <1>1
<1>3. Values
  <2>1. journal \in [{"on", "off"} -> {"absent", "empty", "full"}]
    BY DEF Init
  <2>2. QED BY <2>1 DEF Init, Values
<1>4. QED BY <1>2, <1>3, TypedParts DEF Base, ByItself, Busy, Shape, InPair

LEMMA BaseScripts ==
  ASSUME Base, NEW a \in Actors,
         NextPair(a) \/ StartModule(a) \/ RunScript(a) \/ FinishModule(a) \/ FinishPair(a)
  PROVE  Base'
<1> USE DEF Busy
<1>1. /\ Typed /\ Values /\ Shape(a) /\ act[a] \in Call
  BY TypedParts, CallFields DEF Base
<1>2. CASE NextPair(a)
  <2>1. /\ Frame(a) /\ Same(a) /\ act[a].pc = "pair" /\ act[a].rest # <<>>
        /\ act'[a].pc = "pair"
             \/ /\ act'[a].pc = "module" /\ Known(Name(a))
                /\ act'[a].rest = act[a].rest /\ act'[a].todo = Target(a)
        /\ UNCHANGED <<system, reply>>
    BY <1>1, <1>2, NextPairStep
  <2>2. Values'
    BY <1>1, <2>1 DEF Values, system, file
  <2>3. Shape(a)'
    BY <2>1 DEF Shape, InPair, Known, Name, Target
  <2>4. QED BY <2>1, <2>2, <2>3, OthersKeep DEF Same
<1>3. CASE StartModule(a)
  <2>1. /\ Frame(a) /\ Same(a) /\ SameRest(a) /\ act[a].pc = "module" /\ act'[a].pc = "script"
        /\ act'[a].todo = act[a].todo /\ act'[a].module \in act[a].todo
        /\ UNCHANGED <<system, reply>>
    BY <1>1, <1>3, StartModuleStep
  <2>2. Values'
    BY <1>1, <2>1 DEF Values, system, file
  <2>3. Shape(a)'
    BY <1>1, <2>1 DEF Shape, InPair, Known, Name, Target, SameRest
  <2>4. QED BY <2>1, <2>2, <2>3, OthersKeep DEF Same
<1>4. CASE RunScript(a)
  <2>1. /\ Frame(a) /\ Same(a) /\ SameRest(a) /\ act[a].pc = "script" /\ act'[a].pc = "script"
        /\ act[a].subs # <<>>
        /\ act'[a].todo = act[a].todo /\ act'[a].module = act[a].module
        /\ \E v \in {applied[Head(act[a].subs)], Level(a)} :
              applied' = [applied EXCEPT ![Head(act[a].subs)] = v]
        /\ \E ok \in BOOLEAN, found \in Answers(Head(act[a].subs)) :
              skipped' = Skips(Head(act[a].subs), ok, found)
        /\ UNCHANGED <<installed, file, journal, cached, reply>>
    BY <1>1, <1>4, RunScriptStep, Zenon
  <2>2. Values'
    <3>1. Level(a) \in Levels /\ Head(act[a].subs) \in Subs
      BY <1>1, <2>1, CallFields DEF Shape, InPair
    <3>2. skipped' \subseteq Subs
      BY <1>1, <2>1, <3>1 DEF Values, Skips
    <3>3. QED BY <1>1, <2>1, <3>1, <3>2 DEF Values, file
  <2>3. Shape(a)'
    BY <1>1, <2>1 DEF Shape, InPair, Known, Name, Target, SameRest
  <2>4. QED BY <2>1, <2>2, <2>3, OthersKeep DEF Same
<1>5. CASE FinishModule(a)
  <2>1. /\ Frame(a) /\ Same(a) /\ SameRest(a) /\ act[a].pc = "script"
        /\ act'[a].pc = IF act'[a].todo = {} THEN "pairEnd" ELSE "module"
        /\ act'[a].todo = act[a].todo \ {act[a].module}
        /\ Modify(act[a].module, Level(a)) \/ UNCHANGED file
        /\ UNCHANGED <<applied, skipped, installed, journal, cached, reply>>
    BY <1>1, <1>5, FinishModuleStep
  <2>2. Values'
    <3>1. Level(a) \in Levels /\ act[a].module \in Names
      BY <1>1, <2>1, CallFields DEF Shape, InPair, Call
    <3>2. CASE Modify(act[a].module, Level(a))
      BY <1>1, <2>1, <3>1, <3>2, FileTyped DEF Values
    <3>3. CASE UNCHANGED file
      BY <1>1, <2>1, <3>3 DEF Values, file
    <3>4. QED BY <2>1, <3>2, <3>3
  <2>3. Shape(a)'
    BY <1>1, <2>1 DEF Shape, InPair, Known, Name, Target, SameRest
  <2>4. QED BY <2>1, <2>2, <2>3, OthersKeep DEF Same
<1>6. CASE FinishPair(a)
  <2>1. /\ Frame(a) /\ Same(a) /\ act[a].pc = "pairEnd" /\ act'[a].pc = "pair"
        /\ Modify(All, Level(a)) \/ UNCHANGED file
        /\ cached' = IF Caches(a) THEN Level(a) ELSE cached
        /\ UNCHANGED <<applied, skipped, installed, journal, reply>>
    BY <1>1, <1>6, FinishPairStep
  <2>2. Values'
    <3>1. Level(a) \in Levels /\ All \in Names
      BY <1>1, <2>1, CallFields DEF Shape, InPair, Names
    <3>2. cached' \in Levels \cup {NoLevel}
      BY <1>1, <2>1, <3>1 DEF Values
    <3>3. CASE Modify(All, Level(a))
      BY <1>1, <2>1, <3>1, <3>2, <3>3, FileTyped DEF Values
    <3>4. CASE UNCHANGED file
      BY <1>1, <2>1, <3>2, <3>4 DEF Values, file
    <3>5. QED BY <2>1, <3>3, <3>4
  <2>3. Shape(a)'
    BY <2>1 DEF Shape, InPair
  <2>4. QED BY <2>1, <2>2, <2>3, OthersKeep DEF Same
<1>7. QED BY <1>2, <1>3, <1>4, <1>5, <1>6

LEMMA BaseLate ==
  ASSUME Base, NEW a \in Actors,
         CheckLog(a) \/ RemoveSwitch(a) \/ InstallSwitch(a)
           \/ RunCoredump(a) \/ FinishCoredump(a) \/ Answer(a) \/ Crash(a)
  PROVE  Base'
<1> USE DEF Busy
<1>1. Typed /\ Values /\ Shape(a) /\ act[a] \in Call
  BY TypedParts, CallFields DEF Base
<1>2. CASE CheckLog(a)
  <2>1. /\ Frame(a) /\ Same(a) /\ SameRest(a) /\ act[a].pc = "pair" /\ act[a].rest = <<>>
        /\ act'[a].pc \in {"remove", "answer"} /\ UNCHANGED <<system, reply>>
    BY <1>1, <1>2, CheckLogStep
  <2>2. Values' /\ Shape(a)'
    BY <1>1, <2>1 DEF Values, system, file, Shape, InPair, SameRest
  <2>3. QED BY <2>1, <2>2, OthersKeep DEF Same
<1>3. CASE RemoveSwitch(a)
  <2>1. /\ Frame(a) /\ Same(a) /\ SameRest(a)
        /\ act[a].pc = "remove" /\ act'[a].pc \in {"install", "answer"}
        /\ UNCHANGED journal \/ journal' = [journal EXCEPT ![NeedDel(a)] = "absent"]
        /\ UNCHANGED <<applied, skipped, installed, file, cached, reply>>
    BY <1>1, <1>3, RemoveSwitchStep
  <2>2. Values'
    BY <1>1, <2>1 DEF Values, file
  <2>3. Shape(a)'
    BY <1>1, <2>1 DEF Shape, InPair, Same, SameRest
  <2>4. QED BY <2>1, <2>2, <2>3, OthersKeep DEF Same
<1>4. CASE InstallSwitch(a)
  <2>1. /\ Frame(a) /\ Same(a) /\ SameRest(a)
        /\ act[a].pc = "install" /\ act'[a].pc \in {"logged", "answer"}
        /\ \/ UNCHANGED journal
           \/ \E c \in {"full", "empty"} : journal' = [journal EXCEPT ![Dest(a)] = c]
        /\ UNCHANGED <<applied, skipped, installed, file, cached, reply>>
    BY <1>1, <1>4, InstallSwitchStep
  <2>2. Values'
    BY <1>1, <2>1 DEF Values, file
  <2>3. Shape(a)'
    BY <1>1, <2>1 DEF Shape, InPair, Same, SameRest
  <2>4. QED BY <2>1, <2>2, <2>3, OthersKeep DEF Same
<1>5. CASE RunCoredump(a)
  <2>1. /\ Frame(a) /\ Same(a) /\ SameRest(a)
        /\ act[a].pc = "coredump" /\ act'[a].pc \in {"coredumpEnd", "answer"}
        /\ UNCHANGED <<system, reply>>
    BY <1>1, <1>5, RunCoredumpStep
  <2>2. Values'
    BY <1>1, <2>1 DEF Values, system, file
  <2>3. Shape(a)'
    BY <1>1, <2>1 DEF Shape, InPair, Name, Same, SameRest
  <2>4. QED BY <2>1, <2>2, <2>3, OthersKeep DEF Same
<1>6. CASE FinishCoredump(a)
  <2>1. /\ Frame(a) /\ Same(a) /\ SameRest(a)
        /\ act[a].pc = "coredumpEnd" /\ act'[a].pc = "answer" /\ Modify(Coredump, Level(a))
        /\ UNCHANGED <<applied, skipped, installed, journal, cached, reply>>
    BY <1>1, <1>6, FinishCoredumpStep
  <2>2. Values'
    <3>1. Level(a) \in Levels
      BY <1>1, <2>1, CallFields DEF Shape
    <3>2. QED BY <1>1, <2>1, <3>1, FileTyped DEF Values
  <2>3. Shape(a)'
    BY <1>1, <2>1 DEF Shape, InPair, Same, SameRest
  <2>4. QED BY <2>1, <2>2, <2>3, OthersKeep DEF Same
<1>7. CASE Answer(a)
  <2>1. /\ Frame(a) /\ act[a].pc \in {"logged", "answer"}
        /\ act'[a].pc = "idle" /\ act'[a].pairs = <<>>
        /\ reply' \in [Actors -> {"none", "fail", "success", "reboot"}]
        /\ UNCHANGED system
    BY <1>1, <1>7, AnswerStep, IdleTyped DEF Values
  <2>2. Values' /\ Shape(a)'
    BY <1>1, <2>1 DEF Values, system, file, Shape, InPair
  <2>3. QED BY <2>1, <2>2, OthersKeep
<1>8. CASE Crash(a)
  <2>1. /\ Frame(a) /\ Busy(a) /\ act'[a].pc = "idle" /\ act'[a].pairs = <<>>
        /\ cached' \in Levels \cup {NoLevel}
        /\ UNCHANGED journal \/ journal' = [journal EXCEPT ![Dest(a)] = "empty"]
        /\ UNCHANGED <<applied, skipped, installed, file, reply>>
    BY <1>1, <1>8, CrashStep, IdleTyped DEF Values
  <2>2. Values' /\ Shape(a)'
    BY <1>1, <2>1 DEF Values, file, Shape, InPair
  <2>3. QED BY <2>1, <2>2, OthersKeep
<1>9. QED BY <1>2, <1>3, <1>4, <1>5, <1>6, <1>7, <1>8

(* A call that begins, or a removal of the levels file.                    *)
LEMMA BaseStarts ==
  ASSUME Base, (\E a \in Actors : Set(a) \/ SetCoredump(a)) \/ RemoveLevels
  PROVE  Base'
<1>1. Typed /\ Values
  BY TypedParts DEF Base
<1>2. ASSUME NEW a \in Actors, Set(a) \/ SetCoredump(a)
      PROVE  Base'
  <2>1. /\ ~ Busy(a) /\ act' \in [Actors -> Call]
        /\ act'[a].pc \in {"pair", "coredump"}
        /\ act'[a].pc = "coredump" =>
             /\ act'[a].pairs = <<>> /\ act'[a].rest # <<>>
             /\ Head(act'[a].rest).name = Coredump
        /\ act'[a].alone => \A b \in Actors : ~ Busy(b)
        /\ \A b \in Actors : b # a => Keeps(b) /\ act'[b].alone = (act[b].alone /\ ~ Busy(b))
        /\ reply' = [reply EXCEPT ![a] = "none"]
        /\ Begun
    BY <1>1, <1>2, SetStep, SetCoredumpStep
  <2>2. Values'
    BY <1>1, <2>1 DEF Values, Begun
  <2>3. Typed'
    BY <2>1, <2>2 DEF Typed, TypeOK, Values, Call, Places
  <2>4. ByItself'
    <3> SUFFICES ASSUME NEW x \in Actors, NEW y \in Actors, x # y, Busy(x)', Busy(y)'
                 PROVE  ~ act'[x].alone
      BY DEF ByItself
    <3>1. CASE x = a
      BY <2>1, <3>1 DEF Busy, Keeps
    <3>2. CASE x # a
      <4>1. Busy(x) /\ act'[x].alone = (act[x].alone /\ ~ Busy(x))
        BY <2>1, <3>2 DEF Busy, Keeps
      <4>2. QED BY <4>1, Zenon
    <3>3. QED BY <3>1, <3>2
  <2>5. ASSUME NEW b \in Actors
        PROVE  Shape(b)'
    <3>1. CASE b = a
      BY <2>1, <3>1 DEF Shape, InPair, Name
    <3>2. CASE b # a
      BY <2>1, <3>2 DEF Base, Keeps, Shape, InPair, Known, Name, Target
    <3>3. QED BY <3>1, <3>2
  <2>6. QED BY <2>3, <2>4, <2>5 DEF Base
<1>3. ASSUME RemoveLevels
      PROVE  Base'
  <2>1. /\ act' \in [Actors -> Call]
        /\ \A b \in Actors : Keeps(b) /\ act'[b].alone = ~ Busy(b)
        /\ exists' = FALSE /\ unsaved' = {} /\ DOMAIN levels' = {}
        /\ UNCHANGED <<applied, skipped, installed, journal, cached, reply>>
    BY <1>1, <1>3, RemoveLevelsStep
  <2>2. Values'
    BY <1>1, <2>1 DEF Values
  <2>3. Typed'
    BY <2>1, <2>2 DEF Typed, TypeOK, Values, Call, Places
  <2>4. ByItself'
    BY <2>1 DEF ByItself, Busy, Keeps
  <2>5. ASSUME NEW b \in Actors
        PROVE  Shape(b)'
    BY <2>1 DEF Base, Keeps, Shape, InPair, Known, Name, Target
  <2>6. QED BY <2>3, <2>4, <2>5 DEF Base
<1>4. QED BY <1>2, <1>3

LEMMA BaseNext == Base /\ [Next]_vars => Base'
<1> SUFFICES ASSUME Base, [Next]_vars PROVE Base'
  OBVIOUS
<1>1. ASSUME NEW a \in Actors, Set(a) \/ SetCoredump(a) \/ Work(a) \/ Crash(a)
      PROVE  Base'
  BY <1>1, BaseScripts, BaseLate, BaseStarts DEF Work
<1>2. ASSUME GetState \/ UNCHANGED vars
      PROVE  Base'
  <2>1. Typed /\ Values
    BY TypedParts DEF Base
  <2>2. act' = act
    BY <1>2 DEF GetState, vars
  <2>3. Values'
    <3>1. CASE GetState
      <4>1. Get(All) \in Levels \cup {NoLevel}
        BY <2>1, LevelsGiven DEF Get, Values
      <4>2. QED BY <2>1, <3>1, <4>1 DEF GetState, Values, file
    <3>2. CASE UNCHANGED vars
      BY <2>1, <3>2 DEF vars, system, file, Values
    <3>3. QED BY <1>2, <3>1, <3>2
  <2>4. Typed'
    BY <2>1, <2>2, <2>3 DEF Typed, TypeOK, Values, Call, Places
  <2>5. ByItself' /\ \A a \in Actors : Shape(a)'
    BY <2>2 DEF Base, ByItself, Busy, Shape, InPair, Known, Name, Target
  <2>6. QED BY <2>4, <2>5 DEF Base
<1>3. QED BY <1>1, <1>2, BaseStarts DEF Next

(* The levels in force, in the file and in the cache are levels, and a     *)
(* call is always at one of the places of SetDebug or SetCoredump, about   *)
(* modules of the table (module_configure.c, bus-service.c:225-294).        *)
THEOREM Typing == Spec => []TypeOK
<1>1. Spec => []Base
  BY BaseInit, BaseNext, PTL DEF Spec
<1>2. Base => TypeOK
  BY DEF Base, Typed
<1>3. QED BY <1>1, <1>2, PTL

-----------------------------------------------------------------------------
(* What a level in the file says about the system.                         *)

(* r is what is left of the sequence s.                                    *)
Suffix(r, s) ==
  /\ Len(r) <= Len(s)
  /\ \A j \in 1 .. Len(r) : r[j] = s[Len(s) - Len(r) + j]

LEMMA SuffixTail ==
  ASSUME NEW S, NEW s \in Seq(S), NEW r \in Seq(S), r # <<>>, Suffix(r, s)
  PROVE  /\ Len(s) - Len(r) \in Nat
         /\ Len(s) - Len(r) + 1 \in 1 .. Len(s)
         /\ Head(r) = s[Len(s) - Len(r) + 1]
         /\ Len(s) - Len(Tail(r)) = Len(s) - Len(r) + 1
         /\ Suffix(Tail(r), s)
<1>1. /\ Len(r) \in Nat \ {0} /\ Len(s) \in Nat /\ Len(r) <= Len(s)
      /\ Len(Tail(r)) = Len(r) - 1
      /\ \A j \in 1 .. Len(r) - 1 : Tail(r)[j] = r[j + 1]
      /\ Head(r) = r[1]
  BY DEF Suffix
<1> DEFINE n == Len(s) - Len(r)
<1>2. n \in 0 .. Len(s) - 1 /\ Head(r) = s[n + 1]
  BY <1>1 DEF Suffix
<1>3. ASSUME NEW j \in 1 .. Len(r) - 1
      PROVE  Tail(r)[j] = s[Len(s) - (Len(r) - 1) + j]
  <2>1. r[j + 1] = s[n + (j + 1)]
    BY <1>1 DEF Suffix
  <2>2. n + (j + 1) = Len(s) - (Len(r) - 1) + j
    BY <1>1
  <2>3. QED BY <1>1, <2>1, <2>2
<1>4. QED BY <1>1, <1>2, <1>3 DEF Suffix

(* The script of s, unless its errors do not count or it was passed over,  *)
(* has applied level l.                                                    *)
Settled(s, l) ==
  PackageInstalled(s) /\ s \notin Careless \cup skipped /\ l \in Accepts[s] => applied[s] = l

(* And has after the step.                                                 *)
Settles(s, l) ==
  PackageInstalled(s) /\ s \notin Careless \cup skipped' /\ l \in Accepts[s] => applied'[s] = l

(* The submodules of the current module whose scripts have run.            *)
Ran(a) == 1 .. (Len(SubsOf[act[a].module]) - Len(act[a].subs))

(* The scripts still to run are the last ones of the module.               *)
Remaining(a) == act[a].pc = "script" => Suffix(act[a].subs, SubsOf[act[a].module])

(* A call by itself: the scripts run for the module have applied the       *)
(* level as long as the module has not failed, and all those of the        *)
(* modules before it as long as the pair has not.                          *)
ModuleForced(a) ==
  act[a].alone /\ act[a].pc = "script" /\ act[a].moduleOk =>
    \A i \in Ran(a) : Settled(SubsOf[act[a].module][i], Level(a))
PairForced(a) ==
  act[a].alone /\ InPair(a) /\ act[a].pairOk =>
    \A m \in Target(a) \ act[a].todo : InForce(m, Level(a))
Forced(a) == Remaining(a) /\ ModuleForced(a) /\ PairForced(a)
ForceInv == Base /\ \A a \in Actors : Forced(a)

LEMMA InForceSettled ==
  \A m, l : InForce(m, l) <=> \A i \in DOMAIN SubsOf[m] : Settled(SubsOf[m][i], l)
BY DEF InForce, Settled

LEMMA SubsTyped ==
  ASSUME NEW m \in Modules
  PROVE  /\ SubsOf[m] \in Seq(Subs) /\ Len(SubsOf[m]) \in Nat
         /\ DOMAIN SubsOf[m] = 1 .. Len(SubsOf[m])
         /\ \A i \in DOMAIN SubsOf[m] : SubsOf[m][i] \in Subs
BY SubsOfIsSequence

(* A script concerns its own submodule alone, leaves one that has the level*)
(* settled, and settles it unless the module fails.                        *)
LEMMA ScriptEffect ==
  ASSUME Base, NEW a \in Actors, RunScript(a), NEW s \in Subs, s = Head(act[a].subs)
  PROVE  /\ \A t \in Subs : t # s => applied'[t] = applied[t] /\ (t \in skipped' <=> t \in skipped)
         /\ Settled(s, Level(a)) => Settles(s, Level(a))
         /\ act'[a].moduleOk => act[a].moduleOk /\ Settles(s, Level(a))
<1>1. PICK ok \in BOOLEAN, found \in Answers(s), v \in {applied[s], Level(a)} :
        /\ Runs(s, Level(a), ok, v)
        /\ applied' = [applied EXCEPT ![s] = v]
        /\ skipped' = Skips(s, ok, found)
        /\ act'[a].moduleOk = ModuleOk(a, ok, found)
  BY RunScriptStep, Zenon DEF Base
<1>2. Values
  BY TypedParts DEF Base
<1>3. /\ \A t \in Subs : t # s => applied'[t] = applied[t]
      /\ applied'[s] = v
  BY <1>1, <1>2 DEF Values
<1>4. \A t : t # s => (t \in skipped' <=> t \in skipped)
  BY <1>1 DEF Skips
<1>5. act'[a].moduleOk => act[a].moduleOk /\ (ok \/ ~ found)
  BY <1>1, Zenon DEF ModuleOk
<1>6. ok /\ s \notin Careless /\ Level(a) \in Accepts[s] => v = Level(a)
  BY <1>1 DEF Runs
<1>7. ~ ok /\ PackageInstalled(s) /\ ~ found => s \in skipped'
  BY <1>1 DEF Skips
<1>8. Settled(s, Level(a)) => Settles(s, Level(a))
  <2>1. CASE v = Level(a)
    BY <1>3, <2>1 DEF Settles
  <2>2. CASE v = applied[s] /\ v # Level(a)
    <3>1. CASE ok
      BY <1>3, <1>6, <2>2, <3>1 DEF Settles
    <3>2. CASE ~ ok
      <4>1. s \in skipped => s \in skipped'
        BY <1>1, <3>2 DEF Skips
      <4>2. QED BY <1>3, <2>2, <4>1 DEF Settled, Settles
    <3>3. QED BY <3>1, <3>2
  <2>3. QED BY <2>1, <2>2
<1>9. (ok \/ ~ found) => Settles(s, Level(a))
  BY <1>3, <1>6, <1>7, Zenon DEF Settles
<1>10. QED BY <1>3, <1>4, <1>5, <1>8, <1>9, Zenon

LEMMA WorkFrame ==
  ASSUME Typed, NEW a \in Actors, Shape(a), Work(a) \/ Crash(a)
  PROVE  Frame(a) /\ Busy(a) /\ (act'[a].pc = "idle" \/ Same(a))
<1> USE DEF Busy
<1>1. CASE NextPair(a) \/ StartModule(a) \/ RunScript(a) \/ FinishModule(a) \/ FinishPair(a)
  BY <1>1, NextPairStep, StartModuleStep, RunScriptStep, FinishModuleStep, FinishPairStep
<1>2. CASE CheckLog(a) \/ RemoveSwitch(a) \/ InstallSwitch(a)
             \/ RunCoredump(a) \/ FinishCoredump(a)
  BY <1>2, CheckLogStep, RemoveSwitchStep, InstallSwitchStep, RunCoredumpStep,
     FinishCoredumpStep
<1>3. CASE Answer(a) \/ Crash(a)
  BY <1>3, AnswerStep, CrashStep, IdleTyped
<1>4. QED BY <1>1, <1>2, <1>3 DEF Work

(* A call that begins and a removal of the levels file leave no call that  *)
(* is under way by itself.                                                 *)
LEMMA Interrupts ==
  ASSUME Typed, (\E a \in Actors : Set(a) \/ SetCoredump(a)) \/ RemoveLevels,
         NEW b \in Actors, Busy(b)'
  PROVE  act'[b].pc \in {"pair", "coredump"} \/ (Keeps(b) /\ ~ act'[b].alone)
<1>1. ASSUME NEW a \in Actors, Set(a) \/ SetCoredump(a)
      PROVE  act'[b].pc \in {"pair", "coredump"} \/ (Keeps(b) /\ ~ act'[b].alone)
  <2>1. act'[a].pc \in {"pair", "coredump"}
    BY <1>1, SetStep, SetCoredumpStep
  <2>2. b # a => Keeps(b) /\ act'[b].alone = (act[b].alone /\ ~ Busy(b))
    BY <1>1, SetStep, SetCoredumpStep
  <2>3. QED BY <2>1, <2>2, Zenon DEF Busy, Keeps
<1>2. CASE RemoveLevels
  BY <1>2, RemoveLevelsStep DEF Busy, Keeps
<1>3. QED BY <1>1, <1>2

(* The last script of a module that did not fail leaves it in force.       *)
LEMMA ForcedModule ==
  ASSUME Base, NEW a \in Actors, Forced(a),
         act[a].pc = "script", act[a].subs = <<>>, act[a].alone, act[a].moduleOk
  PROVE  InForce(act[a].module, Level(a))
<1>1. act[a].module \in Modules /\ Len(act[a].subs) = 0
  BY CallFields DEF Base, Shape, Call
<1>2. Ran(a) = DOMAIN SubsOf[act[a].module]
  BY <1>1, SubsTyped DEF Ran
<1>3. QED BY <1>2, InForceSettled DEF Forced, ModuleForced

LEMMA OthersForced ==
  ASSUME ForceInv, NEW a \in Actors, Frame(a), Busy(a), NEW b \in Actors, b # a
  PROVE  Forced(b)'
<1>1. act'[b] = act[b] /\ (Busy(b) => ~ act[b].alone) /\ Forced(b)
  BY DEF ForceInv, Base, ByItself, Frame
<1>2. Remaining(b)'
  BY <1>1 DEF Forced, Remaining
<1>3. ~ act'[b].alone \/ act'[b].pc = "idle"
  BY <1>1 DEF Busy
<1>4. QED BY <1>2, <1>3 DEF Forced, ModuleForced, PairForced, InPair

LEMMA ForceScript ==
  ASSUME ForceInv, NEW a \in Actors, RunScript(a)
  PROVE  Forced(a)'
<1>1. /\ Base /\ Typed /\ Shape(a) /\ act[a] \in Call
      /\ Remaining(a) /\ ModuleForced(a) /\ PairForced(a)
  BY CallFields DEF ForceInv, Base, Forced
<1>2. /\ Same(a) /\ SameRest(a)
      /\ act[a].pc = "script" /\ act'[a].pc = "script" /\ act[a].subs # <<>>
      /\ act'[a].pairOk = act[a].pairOk
      /\ act'[a].todo = act[a].todo /\ act'[a].module = act[a].module
      /\ act'[a].subs = Tail(act[a].subs)
      /\ installed' = installed
  BY <1>1, RunScriptStep
<1> DEFINE whole == SubsOf[act[a].module]
           s == Head(act[a].subs)
           n == Len(whole) - Len(act[a].subs)
<1>3. act[a].module \in Modules
  BY <1>1, <1>2 DEF Shape, Call
<1>4. /\ whole \in Seq(Subs) /\ act[a].subs \in Seq(Subs) /\ s \in Subs
      /\ Len(whole) \in Nat
      /\ \A i \in 1 .. Len(whole) : whole[i] \in Subs
  BY <1>1, <1>2, <1>3, SubsTyped, CallFields DEF Call
<1>5. /\ Suffix(Tail(act[a].subs), whole)
      /\ s = whole[n + 1] /\ n \in Nat /\ n + 1 \in 1 .. Len(whole)
      /\ Len(whole) - Len(Tail(act[a].subs)) = n + 1
  <2>1. Suffix(act[a].subs, whole)
    BY <1>1, <1>2 DEF Remaining
  <2> HIDE DEF whole
  <2>2. QED BY <1>2, <1>4, <2>1, SuffixTail
<1>6. Remaining(a)'
  BY <1>2, <1>5 DEF Remaining
<1>7. /\ Level(a)' = Level(a) /\ Target(a)' = Target(a)
      /\ whole' = whole /\ Ran(a) = 1 .. n /\ Ran(a)' = 1 .. n + 1
  BY <1>2, <1>5 DEF SameRest, Level, Target, Name, Ran
<1>8. /\ \A t \in Subs : t # s => applied'[t] = applied[t] /\ (t \in skipped' <=> t \in skipped)
      /\ Settled(s, Level(a)) => Settles(s, Level(a))
      /\ act'[a].moduleOk => act[a].moduleOk /\ Settles(s, Level(a))
  BY <1>1, <1>4, ScriptEffect
<1>9. \A t \in Subs : Settled(t, Level(a)) => Settles(t, Level(a))
  BY <1>8 DEF Settled, Settles
<1>10. ModuleForced(a)'
  <2> SUFFICES ASSUME act'[a].alone, act'[a].moduleOk
               PROVE  \A i \in 1 .. n + 1 : Settles(whole[i], Level(a))
    BY <1>2, <1>7 DEF ModuleForced, Settled, Settles, PackageInstalled
  <2>1. act[a].alone /\ act[a].moduleOk
    BY <1>2, <1>8 DEF Same
  <2>2. \A i \in 1 .. n : Settled(whole[i], Level(a))
    BY <1>1, <1>2, <1>7, <2>1 DEF ModuleForced
  <2> HIDE DEF n, s, whole
  <2>3. ASSUME NEW i \in 1 .. n + 1
        PROVE  Settles(whole[i], Level(a))
    <3>1. CASE i = n + 1
      BY <1>5, <1>8, <3>1
    <3>2. CASE i # n + 1
      <4>1. i \in 1 .. n
        BY <1>5, <3>2
      <4>2. i \in 1 .. Len(whole)
        BY <1>4, <1>5, <4>1
      <4>3. QED BY <1>4, <1>9, <2>2, <4>1, <4>2
    <3>3. QED BY <3>1, <3>2
  <2>4. QED BY <2>3
<1>11. PairForced(a)'
  <2> SUFFICES ASSUME act'[a].alone, act'[a].pairOk, NEW k \in Target(a) \ act[a].todo
               PROVE  \A i \in DOMAIN SubsOf[k] : Settles(SubsOf[k][i], Level(a))
    BY <1>2, <1>7 DEF PairForced, InForce, Settles, PackageInstalled
  <2>1. k \in Modules /\ InForce(k, Level(a))
    <3>1. InPair(a)
      BY <1>2 DEF InPair
    <3>2. k \in Modules
      BY <1>1, <3>1 DEF Shape, Known, Names, Target
    <3>3. QED BY <1>1, <1>2, <3>1, <3>2 DEF PairForced, Same
  <2>2. \A i \in DOMAIN SubsOf[k] : SubsOf[k][i] \in Subs /\ Settled(SubsOf[k][i], Level(a))
    BY <2>1, InForceSettled, SubsTyped
  <2>3. QED BY <1>9, <2>2
<1>12. QED BY <1>6, <1>10, <1>11 DEF Forced

LEMMA ForceWork ==
  ASSUME ForceInv, NEW a \in Actors,
         Work(a) \/ Crash(a)
  PROVE  Forced(a)'
<1>1. /\ Base /\ Typed /\ Shape(a) /\ act[a] \in Call
      /\ Remaining(a) /\ ModuleForced(a) /\ PairForced(a)
  BY CallFields DEF ForceInv, Base, Forced
<1>2. ASSUME ~ InPair(a)'
      PROVE  Forced(a)'
  BY <1>2 DEF InPair, Forced, Remaining, ModuleForced, PairForced
<1>3. CASE NextPair(a)
  <2>1. CASE act'[a].pc = "pair"
    BY <1>2, <2>1 DEF InPair
  <2>2. CASE act'[a].pc # "pair"
    <3>1. /\ act'[a].pc = "module" /\ act'[a].rest = act[a].rest /\ act'[a].todo = Target(a)
      BY <1>1, <1>3, <2>2, NextPairStep
    <3>2. Target(a)' = Target(a)
      BY <3>1 DEF Target, Name
    <3>3. QED BY <3>1, <3>2 DEF Forced, Remaining, ModuleForced, PairForced
  <2>3. QED BY <2>1, <2>2
<1>4. CASE StartModule(a)
  <2>1. /\ Same(a) /\ SameRest(a) /\ act[a].pc = "module" /\ act'[a].pc = "script"
        /\ act'[a].pairOk = act[a].pairOk /\ act'[a].todo = act[a].todo
        /\ act'[a].module \in act[a].todo
        /\ act'[a].subs = SubsOf[act'[a].module]
        /\ UNCHANGED <<system, reply>>
    BY <1>1, <1>4, StartModuleStep
  <2>2. act'[a].module \in Modules
    BY <1>1, <2>1 DEF Call
  <2>3. Suffix(act'[a].subs, SubsOf[act'[a].module]) /\ Ran(a)' = {}
    <3>1. Len(SubsOf[act'[a].module]) \in Nat
      BY <2>2, SubsTyped
    <3>2. QED BY <2>1, <3>1 DEF Suffix, Ran
  <2>4. Remaining(a)' /\ ModuleForced(a)'
    BY <2>1, <2>3 DEF Remaining, ModuleForced
  <2>5. PairForced(a)'
    BY <1>1, <2>1 DEF PairForced, InPair, Same, SameRest, Target, Name, Level,
                     InForce, PackageInstalled, system
  <2>6. QED BY <2>4, <2>5 DEF Forced
<1>5. CASE RunScript(a)
  BY <1>5, ForceScript
<1>6. CASE FinishModule(a)
  <2>1. /\ Same(a) /\ SameRest(a) /\ act[a].pc = "script" /\ act[a].subs = <<>>
        /\ act'[a].pc \in {"module", "pairEnd"}
        /\ act'[a].pairOk = (act[a].pairOk /\ act[a].moduleOk)
        /\ act'[a].todo = act[a].todo \ {act[a].module}
        /\ UNCHANGED <<applied, skipped, installed>>
    BY <1>1, <1>6, FinishModuleStep
  <2>2. Remaining(a)' /\ ModuleForced(a)'
    BY <2>1 DEF Remaining, ModuleForced
  <2>3. act[a].alone /\ act[a].moduleOk => InForce(act[a].module, Level(a))
    BY <1>1, <2>1, ForcedModule DEF ForceInv
  <2>4. PairForced(a)'
    <3> SUFFICES ASSUME act'[a].alone, act'[a].pairOk, NEW k \in Target(a)' \ act'[a].todo
                 PROVE  InForce(k, Level(a))'
      BY DEF PairForced
    <3>1. act[a].alone /\ act[a].pairOk /\ act[a].moduleOk
      <4>1. act'[a].alone = act[a].alone
        BY <2>1 DEF Same
      <4>2. QED BY <2>1, <4>1, Zenon
    <3>2. k \in Target(a) /\ (k \notin act[a].todo \/ k = act[a].module)
      BY <2>1 DEF SameRest, Target, Name
    <3>3. InForce(k, Level(a))
      BY <1>1, <2>1, <2>3, <3>1, <3>2 DEF PairForced, InPair
    <3>4. QED BY <2>1, <3>3 DEF InForce, PackageInstalled, SameRest, Level
  <2>5. QED BY <2>2, <2>4 DEF Forced
<1>7. CASE FinishPair(a)
  BY <1>1, <1>2, <1>7, FinishPairStep DEF InPair
<1>8. CASE CheckLog(a)
  BY <1>1, <1>2, <1>8, CheckLogStep DEF InPair
<1>9. CASE RemoveSwitch(a)
  BY <1>1, <1>2, <1>9, RemoveSwitchStep DEF InPair
<1>10. CASE InstallSwitch(a)
  BY <1>1, <1>2, <1>10, InstallSwitchStep DEF InPair
<1>11. CASE RunCoredump(a)
  BY <1>1, <1>2, <1>11, RunCoredumpStep DEF InPair
<1>12. CASE FinishCoredump(a)
  BY <1>1, <1>2, <1>12, FinishCoredumpStep DEF InPair
<1>13. CASE Answer(a)
  BY <1>1, <1>2, <1>13, AnswerStep, IdleTyped DEF InPair
<1>14. CASE Crash(a)
  BY <1>1, <1>2, <1>14, CrashStep, IdleTyped DEF InPair
<1>15. QED BY <1>3, <1>4, <1>5, <1>6, <1>7, <1>8, <1>9, <1>10, <1>11, <1>12, <1>13, <1>14
       DEF Work

LEMMA ForceNext == ForceInv /\ [Next]_vars => ForceInv'
<1> SUFFICES ASSUME ForceInv, [Next]_vars PROVE ForceInv'
  OBVIOUS
<1>1. Base /\ Base' /\ Typed
  BY BaseNext DEF ForceInv, Base
<1>2. ASSUME NEW a \in Actors, Work(a) \/ Crash(a)
      PROVE  ForceInv'
  <2>1. Frame(a) /\ Busy(a)
    BY <1>1, <1>2, WorkFrame DEF ForceInv, Base
  <2>2. QED BY <1>1, <1>2, <2>1, ForceWork, OthersForced DEF ForceInv
<1>3. ASSUME (\E a \in Actors : Set(a) \/ SetCoredump(a)) \/ RemoveLevels
      PROVE  ForceInv'
  <2>1. ASSUME NEW b \in Actors
        PROVE  InPair(b)' => Keeps(b) /\ ~ act'[b].alone
    BY <1>1, <1>3, Interrupts DEF InPair, Busy
  <2>2. ASSUME NEW b \in Actors
        PROVE  Forced(b)'
    <3>1. Forced(b)
      BY DEF ForceInv
    <3>2. CASE ~ InPair(b)'
      BY <3>2 DEF Forced, Remaining, ModuleForced, PairForced, InPair
    <3>3. CASE InPair(b)'
      BY <2>1, <3>1, <3>3 DEF Forced, Remaining, ModuleForced, PairForced, Keeps
    <3>4. QED BY <3>2, <3>3
  <2>3. QED BY <1>1, <2>2 DEF ForceInv
<1>4. ASSUME GetState \/ UNCHANGED vars
      PROVE  ForceInv'
  <2>1. UNCHANGED <<applied, skipped, installed, act>>
    BY <1>4 DEF GetState, vars, system
  <2>2. ASSUME NEW b \in Actors
        PROVE  Forced(b)'
    BY <2>1 DEF ForceInv, Forced, Remaining, ModuleForced, PairForced, InPair, Ran, Settled,
                InForce, PackageInstalled, Target, Name, Level
  <2>3. QED BY <1>1, <2>2 DEF ForceInv
<1>5. QED BY <1>2, <1>3, <1>4 DEF Next

(* The steps that write the levels file.                                   *)
SameFile == UNCHANGED <<exists, levels>>

LEMMA FileSteps ==
  ASSUME Base, [Next]_vars
  PROVE  \/ SameFile
         \/ RemoveLevels
         \/ \E a \in Actors : FinishModule(a) \/ FinishPair(a) \/ FinishCoredump(a)
<1>1. ASSUME NEW a \in Actors, Set(a) \/ SetCoredump(a)
      PROVE  SameFile
  BY <1>1, SetStep, SetCoredumpStep DEF Base, Begun, SameFile
<1>2. ASSUME NEW a \in Actors, Work(a) \/ Crash(a),
             ~ (FinishModule(a) \/ FinishPair(a) \/ FinishCoredump(a))
      PROVE  SameFile
  BY <1>2 DEF Work, NextPair, StartModule, RunScript, CheckLog, RemoveSwitch, InstallSwitch,
              RunCoredump, Answer, Crash, system, file, SameFile
<1>3. ASSUME GetState \/ UNCHANGED vars
      PROVE  SameFile
  BY <1>3 DEF GetState, vars, system, file, SameFile
<1>4. QED BY <1>1, <1>2, <1>3 DEF Next

(* A record changes the line it is for, and no other.                      *)
LEMMA ModifyChanges ==
  ASSUME NEW n, NEW l, Modify(n, l), NEW k, Changed(k)
  PROVE  k = n /\ levels'[k] = l
<1>1. CASE Record(n, l)
  BY <1>1 DEF Record, Recorded, Changed
<1>2. CASE RecordFails(n)
  BY <1>2 DEF RecordFails, Changed
<1>3. QED BY <1>1, <1>2 DEF Modify

LEMMA RecordedStep ==
  ASSUME ForceInv, [Next]_vars, NEW a \in Actors, act[a].alone, act'[a] # act[a]
  PROVE  /\ \A m \in Modules : Changed(m) => InForce(m, levels'[m])
         /\ Changed(All) => \A m \in Modules : InForce(m, levels'[All])
<1>1. Base /\ Typed /\ Shape(a) /\ act[a] \in Call /\ Forced(a)
  BY CallFields DEF ForceInv, Base
<1>2. CASE SameFile
  BY <1>2 DEF Changed, SameFile
<1>3. CASE RemoveLevels
  BY <1>1, <1>3, RemoveLevelsStep DEF Changed
<1>4. ASSUME NEW b \in Actors, FinishModule(b) \/ FinishPair(b) \/ FinishCoredump(b)
      PROVE  b = a
  BY <1>1, <1>4, WorkFrame DEF Work, Frame, Base
<1>5. CASE FinishModule(a)
  <2>1. /\ act[a].pc = "script" /\ act[a].subs = <<>>
        /\ IF act[a].moduleOk THEN Modify(act[a].module, Level(a)) ELSE UNCHANGED file
    BY <1>1, <1>5, FinishModuleStep
  <2>2. CASE act[a].moduleOk
    <3>1. InForce(act[a].module, Level(a)) /\ act[a].module \in Modules
      BY <1>1, <2>1, <2>2, ForcedModule DEF Shape, Call
    <3>2. QED BY <2>1, <2>2, <3>1, ModifyChanges, ModulesAreNoPseudo
  <2>3. CASE ~ act[a].moduleOk
    BY <1>2, <2>1, <2>3 DEF file, SameFile
  <2>4. QED BY <2>2, <2>3
<1>6. CASE FinishPair(a)
  <2>1. /\ act[a].pc = "pairEnd"
        /\ IF Name(a) = All /\ act[a].pairOk THEN Modify(All, Level(a)) ELSE UNCHANGED file
    BY <1>1, <1>6, FinishPairStep
  <2>2. CASE Name(a) = All /\ act[a].pairOk
    <3>1. \A m \in Modules : InForce(m, Level(a))
      BY <1>1, <2>1, <2>2 DEF Forced, PairForced, InPair, Shape, Target
    <3>2. QED BY <2>1, <2>2, <3>1, ModifyChanges, ModulesAreNoPseudo
  <2>3. CASE ~ (Name(a) = All /\ act[a].pairOk)
    BY <1>2, <2>1, <2>3 DEF file, SameFile
  <2>4. QED BY <2>2, <2>3
<1>7. CASE FinishCoredump(a)
  <2>1. Modify(Coredump, Level(a))
    BY <1>1, <1>7, FinishCoredumpStep
  <2>2. QED BY <2>1, ModifyChanges, ModulesAreNoPseudo DEF Names
<1>8. QED BY <1>1, <1>2, <1>3, <1>4, <1>5, <1>6, <1>7, FileSteps

LEMMA ForceAlways == Spec => []ForceInv
<1>1. Init => ForceInv
  BY BaseInit, IdleTyped
     DEF Init, ForceInv, Forced, Remaining, ModuleForced, PairForced, InPair
<1>2. QED BY <1>1, ForceNext, PTL DEF Spec

(* A call that runs by itself lets a level into the levels file only when  *)
(* the level is in force in every submodule of the module whose package is *)
(* installed, and a level for "all" only when it is in force in every      *)
(* module, whatever scripts fail, records are lost or processes killed.    *)
(* The one exception are the scripts that failed while dpkg-query failed   *)
(* too (check_package_installed, module_configure.c:642-671;               *)
(* config_modules_set_debug_level_internal and _all, 674-714).             *)
THEOREM RecordsWhatIsInForce == Spec => RecordedIsInForce
<1>1. Spec => []ForceInv
  BY ForceAlways
<1>2. ForceInv /\ [Next]_vars =>
        [\A a \in Actors : act[a].alone /\ act'[a] # act[a] =>
           /\ \A m \in Modules : Changed(m) => InForce(m, levels'[m])
           /\ Changed(All) => \A m \in Modules : InForce(m, levels'[All])]_vars
  BY RecordedStep
<1>3. QED BY <1>1, <1>2, PTL DEF Spec, RecordedIsInForce

-----------------------------------------------------------------------------
(* Journald's files, and the cached level.                                 *)

(* Between the two halves of set_journal_log the unwanted switch is gone.  *)
Removed(a) == act[a].pc = "install" => journal[NeedDel(a)] = "absent"
SwitchInv == Base /\ SwitchesExclude /\ \A a \in Actors \ Sandboxed : Removed(a)

(* What the steps of a call do to journald's files.                        *)
LEMMA SwitchSteps ==
  ASSUME Base, NEW a \in Actors, Work(a) \/ Crash(a)
  PROVE  \/ RemoveSwitch(a) \/ InstallSwitch(a)
         \/ UNCHANGED journal /\ act'[a].pc # "install"
         \/ /\ Crashes /\ act[a].pc = "install" /\ a \notin Sandboxed /\ act'[a] = IdleCall
            /\ journal' = [journal EXCEPT ![Dest(a)] = "empty"]
<1>1. Typed /\ Shape(a)
  BY DEF Base
<1>2. CASE NextPair(a) \/ StartModule(a) \/ RunScript(a) \/ FinishModule(a) \/ FinishPair(a)
  BY <1>1, <1>2, NextPairStep, StartModuleStep, RunScriptStep, FinishModuleStep,
     FinishPairStep DEF system
<1>3. CASE CheckLog(a) \/ RunCoredump(a) \/ FinishCoredump(a) \/ Answer(a)
  BY <1>1, <1>3, CheckLogStep, RunCoredumpStep, FinishCoredumpStep, AnswerStep,
     IdleTyped DEF system
<1>4. CASE Crash(a)
  BY <1>1, <1>4, CrashStep, IdleTyped
<1>5. QED BY <1>2, <1>3, <1>4 DEF Work

LEMMA QuietSteps ==
  ASSUME Base, [Next]_vars,
         ~ \E a \in Actors : Work(a) \/ Crash(a)
  PROVE  /\ UNCHANGED journal
         /\ \A b \in Actors : act'[b].pc # "install" \/ Keeps(b)
<1>1. Typed
  BY DEF Base
<1>2. ASSUME NEW a \in Actors, Set(a) \/ SetCoredump(a)
      PROVE  /\ UNCHANGED journal
             /\ \A b \in Actors : act'[b].pc # "install" \/ Keeps(b)
  BY <1>1, <1>2, SetStep, SetCoredumpStep DEF Begun
<1>3. RemoveLevels => UNCHANGED journal /\ \A b \in Actors : Keeps(b)
  BY <1>1, RemoveLevelsStep
<1>4. GetState \/ UNCHANGED vars => UNCHANGED journal /\ \A b \in Actors : Keeps(b)
  BY DEF GetState, vars, system, Keeps
<1>5. QED BY <1>2, <1>3, <1>4 DEF Next

(* Processes in a sandbox aside, there is at most one.                     *)
OneWriter == \A a, b \in Actors \ Sandboxed : a = b

LEMMA SwitchNext == OneWriter /\ SwitchInv /\ [Next]_vars => SwitchInv'
<1> SUFFICES ASSUME OneWriter, SwitchInv, [Next]_vars PROVE SwitchInv'
  OBVIOUS
<1>1. Base /\ Base' /\ Typed /\ Values /\ SwitchesExclude
  BY BaseNext, TypedParts DEF SwitchInv, Base
<1>2. SUFFICES ASSUME NEW w \in Actors \ Sandboxed PROVE SwitchesExclude' /\ Removed(w)'
  <2>1. CASE Actors \ Sandboxed = {}
    <3>1. UNCHANGED journal
      <4>1. ASSUME NEW a \in Actors, Work(a) \/ Crash(a)
            PROVE  UNCHANGED journal
        <5>1. a \in Sandboxed
          BY <2>1
        <5>2. CASE RemoveSwitch(a)
          <6>1. NeedDel(a) \in {"on", "off"}
            BY DEF NeedDel
          <6>2. QED BY <1>1, <5>1, <5>2, <6>1, RemoveSwitchStep DEF Values
        <5>3. CASE InstallSwitch(a)
          BY <1>1, <5>1, <5>3, InstallSwitchStep
        <5>4. QED BY <1>1, <4>1, <5>1, <5>2, <5>3, SwitchSteps
      <4>2. QED BY <1>1, <4>1, QuietSteps
    <3>2. QED BY <1>1, <2>1, <3>1 DEF SwitchInv, SwitchesExclude
  <2>2. CASE Actors \ Sandboxed # {}
    BY <1>1, <1>2, <2>2 DEF SwitchInv
  <2>3. QED BY <2>1, <2>2
<1>3. w \in Actors /\ w \notin Sandboxed /\ Removed(w) /\ \A b \in Actors : b # w => b \in Sandboxed
  BY DEF SwitchInv, OneWriter
<1>4. ASSUME UNCHANGED journal, act'[w].pc # "install" \/ Keeps(w)
      PROVE  SwitchesExclude' /\ Removed(w)'
  BY <1>1, <1>3, <1>4 DEF SwitchesExclude, Removed, NeedDel, Keeps
<1>5. CASE RemoveSwitch(w)
  <2>1. /\ act'[w].flag = act[w].flag
        /\ \/ act'[w].pc = "install" /\ journal' = [journal EXCEPT ![NeedDel(w)] = "absent"]
           \/ act'[w].pc = "answer" /\ UNCHANGED journal
    BY <1>1, <1>3, <1>5, RemoveSwitchStep
  <2>2. NeedDel(w)' = NeedDel(w) /\ NeedDel(w) \in {"on", "off"}
    BY <2>1 DEF NeedDel
  <2>3. QED BY <1>1, <2>1, <2>2 DEF SwitchesExclude, Removed, Values
<1>6. ASSUME act[w].pc = "install", act'[w].pc # "install",
             \E c : journal' = [journal EXCEPT ![Dest(w)] = c]
      PROVE  SwitchesExclude' /\ Removed(w)'
  <2>1. journal[NeedDel(w)] = "absent" /\ {Dest(w), NeedDel(w)} = {"on", "off"}
        /\ Dest(w) # NeedDel(w)
    BY <1>3, <1>6 DEF Removed, Dest, NeedDel
  <2>2. journal'[NeedDel(w)] = "absent"
    BY <1>1, <1>6, <2>1 DEF Values
  <2>3. QED BY <1>6, <2>1, <2>2 DEF SwitchesExclude, Removed
<1>7. CASE InstallSwitch(w)
  <2>1. /\ act[w].pc = "install" /\ act'[w].pc # "install"
        /\ UNCHANGED journal \/ \E c : journal' = [journal EXCEPT ![Dest(w)] = c]
    BY <1>1, <1>3, <1>7, InstallSwitchStep, Zenon
  <2>2. QED BY <1>4, <1>6, <2>1
<1>8. ASSUME NEW a \in Actors, a # w, Work(a) \/ Crash(a)
      PROVE  SwitchesExclude' /\ Removed(w)'
  <2>1. Keeps(w) /\ a \in Sandboxed
    BY <1>1, <1>3, <1>8, WorkFrame DEF Base, Frame, Keeps
  <2>2. UNCHANGED journal
    <3>1. CASE RemoveSwitch(a)
      <4>1. NeedDel(a) \in {"on", "off"}
        BY DEF NeedDel
      <4>2. QED BY <1>1, <2>1, <3>1, <4>1, RemoveSwitchStep DEF Values
    <3>2. CASE InstallSwitch(a)
      BY <1>1, <2>1, <3>2, InstallSwitchStep
    <3>3. QED BY <1>1, <1>8, <2>1, <3>1, <3>2, SwitchSteps
  <2>3. QED BY <1>4, <2>1, <2>2
<1>9. ASSUME Work(w) \/ Crash(w)
      PROVE  SwitchesExclude' /\ Removed(w)'
  <2>1. CASE /\ act[w].pc = "install" /\ act'[w] = IdleCall
             /\ journal' = [journal EXCEPT ![Dest(w)] = "empty"]
    BY <1>6, <2>1, IdleTyped
  <2>2. QED BY <1>1, <1>3, <1>4, <1>5, <1>7, <1>9, <2>1, SwitchSteps
<1>10. QED BY <1>1, <1>3, <1>4, <1>8, <1>9, QuietSteps

(* While all processes but one run in the sandbox that keeps the service   *)
(* from journald's files, journald never has both switch files, whatever   *)
(* scripts, files and calls fail and wherever a process is killed          *)
(* (set_journal_log, which removes the one before it copies the other,     *)
(* module_configure.c:206-238).                                            *)
THEOREM SwitchesApart == OneWriter /\ Spec => []SwitchesExclude
<1>1. Init => SwitchInv
  BY BaseInit, IdleTyped DEF Init, SwitchInv, SwitchesExclude, Removed
<1>2. OneWriter /\ SwitchInv /\ [Next]_vars => SwitchInv'
  BY SwitchNext
<1>3. SwitchInv => SwitchesExclude
  BY DEF SwitchInv
<1>4. OneWriter /\ Spec => []SwitchInv
  <2> SUFFICES ASSUME OneWriter PROVE Spec => []SwitchInv
    OBVIOUS
  <2>1. SwitchInv /\ [Next]_vars => SwitchInv'
    BY <1>2
  <2>2. QED BY <1>1, <2>1, PTL DEF Spec
<1>5. QED BY <1>3, <1>4, PTL

Alone == Clis \subseteq {Service}

(* The service is told of off before there is a file, so the file begins   *)
(* without a level for all.                                                *)
CacheInv ==
  /\ Base
  /\ ~ exists => DOMAIN levels = {}
  /\ cached # NoLevel => IF All \in DOMAIN levels THEN cached = levels[All] ELSE cached = Off

LEMMA OneActor ==
  ASSUME Alone, Base, [Next]_vars
  PROVE  \/ Work(Service) \/ Crash(Service)
         \/ SameFile /\ UNCHANGED cached
         \/ GetState \/ RemoveLevels
<1>1. Actors = {Service}
  BY DEF Alone, Actors
<1>2. Set(Service) \/ SetCoredump(Service) => SameFile /\ UNCHANGED cached
  BY <1>1, SetStep, SetCoredumpStep DEF Base, Begun, SameFile
<1>3. UNCHANGED vars => SameFile /\ UNCHANGED cached
  BY DEF vars, system, file, SameFile
<1>4. QED BY <1>1, <1>2, <1>3 DEF Next

LEMMA CacheNext ==
  Alone /\ ~ Upgrade /\ ~ StoreFails /\ CacheInv /\ [Next]_vars => CacheInv'
<1> SUFFICES ASSUME Alone, ~ Upgrade, ~ StoreFails, CacheInv, [Next]_vars PROVE CacheInv'
  OBVIOUS
<1>1. /\ Actors = {Service} /\ Base /\ Base' /\ Typed /\ Values /\ Shape(Service)
      /\ act[Service] \in Call
  BY BaseNext, TypedParts, CallFields DEF Alone, Actors, CacheInv, Base
<1> DEFINE a == Service
<1>2. ASSUME SameFile, cached' = cached \/ cached' = NoLevel
      PROVE  CacheInv'
  BY <1>1, <1>2 DEF CacheInv, SameFile
<1>3. ASSUME NEW n, n # All, NEW l, Record(n, l), cached' = cached
      PROVE  CacheInv'
  BY <1>1, <1>3 DEF CacheInv, Record, Recorded
<1>4. \A n, l : Modify(n, l) => Record(n, l)
  BY DEF Modify, RecordFails
<1>5. CASE FinishModule(a)
  <2>1. /\ act[a].pc = "script" /\ cached' = cached
        /\ IF act[a].moduleOk THEN Modify(act[a].module, Level(a)) ELSE UNCHANGED file
    BY <1>1, <1>5, FinishModuleStep
  <2>2. act[a].module # All
    BY <1>1, <2>1, ModulesAreNoPseudo DEF Shape, Call
  <2>3. QED BY <1>2, <1>3, <1>4, <2>1, <2>2 DEF file, SameFile
<1>6. CASE FinishPair(a)
  <2>1. /\ IF Name(a) = All /\ act[a].pairOk THEN Modify(All, Level(a)) ELSE UNCHANGED file
        /\ cached' = IF Caches(a) THEN Level(a) ELSE cached
    BY <1>1, <1>6, FinishPairStep
  <2>2. CASE Name(a) = All /\ act[a].pairOk
    <3>1. Record(All, Level(a)) /\ cached' = Level(a)
      BY <1>4, <2>1, <2>2 DEF Caches
    <3>2. QED BY <1>1, <3>1 DEF CacheInv, Record, Recorded
  <2>3. CASE ~ (Name(a) = All /\ act[a].pairOk)
    <3>1. SameFile /\ cached' = cached
      BY <2>1, <2>3, Zenon DEF Caches, file, SameFile
    <3>2. QED BY <1>2, <3>1
  <2>4. QED BY <2>2, <2>3
<1>7. CASE FinishCoredump(a)
  <2>1. Modify(Coredump, Level(a)) /\ cached' = cached
    BY <1>1, <1>7, FinishCoredumpStep
  <2>2. Coredump # All
    BY ModulesAreNoPseudo DEF Names
  <2>3. QED BY <1>3, <1>4, <2>1, <2>2
<1>8. ASSUME Work(a) \/ Crash(a),
             ~ (FinishModule(a) \/ FinishPair(a) \/ FinishCoredump(a))
      PROVE  SameFile /\ (cached' = cached \/ cached' = NoLevel)
  BY <1>8 DEF Work, NextPair, StartModule, RunScript, CheckLog, RemoveSwitch, InstallSwitch,
              RunCoredump, Answer, Crash, system, file, SameFile
<1>9. CASE GetState
  <2>1. SameFile /\ cached' = IF Get(All) # NoLevel THEN Get(All) ELSE cached
    BY <1>9 DEF GetState, file, SameFile
  <2>2. CASE Get(All) = NoLevel
    BY <1>2, <2>1, <2>2
  <2>3. CASE Get(All) # NoLevel
    BY <1>1, <2>1, <2>3 DEF CacheInv, Get, SameFile
  <2>4. QED BY <2>2, <2>3
<1>10. ~ RemoveLevels
  BY DEF RemoveLevels
<1>11. QED BY <1>2, <1>5, <1>6, <1>7, <1>8, <1>9, <1>10, OneActor DEF CacheInv

(* While the service is the only process that sets levels, and it can      *)
(* write the file, the level of "all" it caches is the one in the file,    *)
(* also in the middle of a call (method_set_debug and method_get_state,    *)
(* bus-service.c:264-279 and 382-427).                                     *)
THEOREM CacheIsFile == Alone /\ ~ Upgrade /\ ~ StoreFails /\ Spec => []CacheAgrees
<1>1. Init => CacheInv
  BY BaseInit DEF Init, CacheInv
<1>2. CacheInv => CacheAgrees
  BY DEF CacheInv, CacheAgrees
<1>3. Alone /\ ~ Upgrade /\ ~ StoreFails /\ Spec => []CacheInv
  <2> SUFFICES ASSUME Alone, ~ Upgrade, ~ StoreFails PROVE Spec => []CacheInv
    OBVIOUS
  <2>1. CacheInv /\ [Next]_vars => CacheInv'
    BY CacheNext
  <2>2. QED BY <1>1, <2>1, PTL DEF Spec
<1>4. QED BY <1>2, <1>3, PTL

-----------------------------------------------------------------------------
(* How far a call has come with its pairs.                                 *)

InPairs(a) == act[a].pc \in {"pair", "module", "script", "pairEnd"}
Position(a) == Len(act[a].pairs) - Len(act[a].rest)

(* The pairs behind a call that count.                                     *)
Passed(a) == {i \in Counted(a) : i <= Position(a)}

(* What is left are the last pairs, and the service has met no "all".      *)
Progress(a) ==
  InPairs(a) =>
    /\ Suffix(act[a].rest, act[a].pairs)
    /\ a = Service /\ act[a].rest # <<>> =>
         \A j \in 1 .. Position(a) : act[a].pairs[j].name # All

(* A step is a step of the call of b, or leaves all of it but alone.       *)
LEMMA StepKinds ==
  ASSUME Base, [Next]_vars, NEW b \in Actors
  PROVE  Work(b) \/ Crash(b) \/ Set(b) \/ SetCoredump(b) \/ Keeps(b)
<1>1. Typed
  BY DEF Base
<1>2. ASSUME NEW a \in Actors, a # b, Work(a) \/ Crash(a)
      PROVE  Keeps(b)
  BY <1>2, WorkFrame DEF Base, Frame, Keeps
<1>3. ASSUME NEW a \in Actors, a # b, Set(a) \/ SetCoredump(a)
      PROVE  Keeps(b)
  BY <1>1, <1>3, SetStep, SetCoredumpStep
<1>4. RemoveLevels => Keeps(b)
  BY <1>1, RemoveLevelsStep
<1>5. GetState \/ UNCHANGED vars => Keeps(b)
  BY DEF GetState, vars, Keeps
<1>6. QED BY <1>2, <1>3, <1>4, <1>5 DEF Next

(* Apart from NextPair and FinishPair, the steps of a call leave its pairs,*)
(* whether they need a reboot, and a failure.                              *)
LEMMA RestKept ==
  ASSUME Base, NEW a \in Actors, Work(a) \/ Crash(a), ~ NextPair(a), ~ FinishPair(a)
  PROVE  \/ act'[a] = IdleCall
         \/ /\ Same(a) /\ SameRest(a) /\ (InPairs(a)' => InPairs(a))
            /\ act[a].pairs # <<>> => act'[a].ok = act[a].ok
<1>1. Typed /\ Shape(a)
  BY DEF Base
<1>2. CASE StartModule(a) \/ RunScript(a) \/ FinishModule(a)
  BY <1>1, <1>2, StartModuleStep, RunScriptStep, FinishModuleStep DEF InPairs
<1>3. CASE CheckLog(a) \/ RemoveSwitch(a) \/ InstallSwitch(a)
  BY <1>1, <1>3, CheckLogStep, RemoveSwitchStep, InstallSwitchStep DEF InPairs
<1>4. CASE RunCoredump(a) \/ FinishCoredump(a)
  BY <1>1, <1>4, RunCoredumpStep, FinishCoredumpStep DEF InPairs, Shape
<1>5. CASE Answer(a) \/ Crash(a)
  BY <1>1, <1>5, AnswerStep, CrashStep
<1>6. QED BY <1>2, <1>3, <1>4, <1>5 DEF Work

(* The current pair, and where a call stands after it.                     *)
LEMMA NextPosition ==
  ASSUME Base, NEW a \in Actors, Progress(a), InPairs(a), act[a].rest # <<>>
  PROVE  /\ Position(a) \in Nat /\ Position(a) + 1 \in DOMAIN act[a].pairs
         /\ Head(act[a].rest) = act[a].pairs[Position(a) + 1]
         /\ Len(act[a].pairs) - Len(Tail(act[a].rest)) = Position(a) + 1
         /\ Suffix(Tail(act[a].rest), act[a].pairs)
         /\ Position(a) + 1 \in Counted(a)
<1>1. act[a].pairs \in Seq(Pairs) /\ act[a].rest \in Seq(Pairs)
  BY CallFields DEF Base, Call
<1>2. Suffix(act[a].rest, act[a].pairs)
  BY DEF Progress
<1>3. /\ Position(a) \in Nat /\ Position(a) + 1 \in 1 .. Len(act[a].pairs)
      /\ Head(act[a].rest) = act[a].pairs[Position(a) + 1]
      /\ Len(act[a].pairs) - Len(Tail(act[a].rest)) = Position(a) + 1
      /\ Suffix(Tail(act[a].rest), act[a].pairs)
  BY <1>1, <1>2, SuffixTail DEF Position
<1>4. Position(a) + 1 \in DOMAIN act[a].pairs
  BY <1>1, <1>3
<1>5. Position(a) + 1 \in Counted(a)
  <2>1. CASE a # Service
    BY <1>4, <2>1 DEF Counted
  <2>2. CASE a = Service
    <3>1. \A j \in 1 .. Position(a) : act[a].pairs[j].name # All
      BY <2>2 DEF Progress
    <3> DEFINE k == Position(a) + 1
    <3>2. k - 1 = Position(a) /\ k \in DOMAIN act[a].pairs
      BY <1>3, <1>4
    <3> HIDE DEF k
    <3>3. k \in Counted(a)
      BY <2>2, <3>1, <3>2 DEF Counted
    <3>4. QED BY <3>3 DEF k
  <2>3. QED BY <2>1, <2>2
<1>6. QED BY <1>3, <1>4, <1>5

LEMMA ProgressNext ==
  ASSUME Base, [Next]_vars, NEW a \in Actors, Progress(a)
  PROVE  Progress(a)'
<1>1. Typed /\ Shape(a) /\ act[a] \in Call
  BY CallFields DEF Base
<1>2. CASE Keeps(a)
  BY <1>2 DEF Keeps, Progress, InPairs, Position
<1>3. ASSUME act'[a].rest = <<>>, Same(a)
      PROVE  Progress(a)'
  <2>1. act[a].pairs \in Seq(Pairs)
    BY <1>1 DEF Call
  <2>2. Len(act[a].pairs) \in Nat /\ Len(<<>>) = 0
    BY <2>1
  <2>3. Suffix(<<>>, act[a].pairs)
    BY <2>2 DEF Suffix
  <2>4. QED BY <1>3, <2>3 DEF Same, Progress
<1>4. ASSUME act'[a].rest = Tail(act[a].rest), Same(a), InPairs(a), act[a].rest # <<>>,
             a = Service => Name(a) # All
      PROVE  Progress(a)'
  <2>1. /\ Position(a) \in Nat /\ Head(act[a].rest) = act[a].pairs[Position(a) + 1]
        /\ Position(a)' = Position(a) + 1
        /\ Suffix(act'[a].rest, act'[a].pairs)
    BY <1>4, NextPosition DEF Same, Position
  <2>2. ASSUME a = Service, NEW j \in 1 .. Position(a) + 1
        PROVE  act[a].pairs[j].name # All
    <3>1. CASE j = Position(a) + 1
      BY <1>4, <2>1, <2>2, <3>1 DEF Name
    <3>2. CASE j # Position(a) + 1
      <4>1. j \in 1 .. Position(a)
        BY <2>1, <3>2
      <4>2. QED BY <1>4, <2>2, <4>1 DEF Progress
    <3>3. QED BY <3>1, <3>2
  <2>3. QED BY <1>4, <2>1, <2>2 DEF Progress, Same
<1>5. CASE NextPair(a)
  <2>1. /\ Same(a) /\ act[a].pc = "pair" /\ act[a].rest # <<>>
        /\ \/ ~ Known(Name(a)) /\ act'[a].rest = Tail(act[a].rest)
           \/ act'[a].rest = act[a].rest
    BY <1>1, <1>5, NextPairStep
  <2>2. InPairs(a)
    BY <2>1 DEF InPairs
  <2>3. CASE ~ Known(Name(a)) /\ act'[a].rest = Tail(act[a].rest)
    <3>1. Name(a) # All
      BY <2>3 DEF Known, Names
    <3>2. QED BY <1>4, <2>1, <2>2, <2>3, <3>1
  <2>4. CASE act'[a].rest = act[a].rest
    BY <2>1, <2>2, <2>4 DEF Progress, Position, Same
  <2>5. QED BY <2>1, <2>3, <2>4
<1>6. CASE FinishPair(a)
  <2>1. /\ Same(a) /\ act[a].pc = "pairEnd" /\ act[a].rest # <<>>
        /\ act'[a].rest = IF a = Service /\ Name(a) = All THEN <<>> ELSE Tail(act[a].rest)
    BY <1>1, <1>6, FinishPairStep DEF Shape, InPair
  <2>2. InPairs(a)
    BY <2>1 DEF InPairs
  <2>3. QED BY <1>3, <1>4, <2>1, <2>2
<1>7. CASE (Work(a) \/ Crash(a)) /\ ~ NextPair(a) /\ ~ FinishPair(a)
  <2>1. CASE act'[a] = IdleCall
    BY <2>1, IdleTyped DEF Progress, InPairs
  <2>2. CASE Same(a) /\ SameRest(a) /\ (InPairs(a)' => InPairs(a))
    BY <2>2 DEF Progress, Position, Same, SameRest
  <2>3. QED BY <1>7, <2>1, <2>2, RestKept
<1>8. CASE Set(a)
  <2>1. act'[a].rest = act'[a].pairs /\ act'[a].pairs \in Seq(Pairs)
    BY <1>1, <1>8, SetStep
  <2>2. Len(act'[a].pairs) \in Nat /\ Position(a)' = 0
    BY <2>1 DEF Position
  <2>3. Suffix(act'[a].rest, act'[a].pairs)
    BY <2>1, <2>2 DEF Suffix
  <2>4. QED BY <2>2, <2>3 DEF Progress
<1>9. CASE SetCoredump(a)
  BY <1>1, <1>9, SetCoredumpStep DEF Progress, InPairs
<1>10. QED BY <1>2, <1>5, <1>6, <1>7, <1>8, <1>9, StepKinds

(* A call under way has no answer yet.                                     *)
Unanswered == \A a \in Actors : Busy(a) => reply[a] = "none"
ProgressInv == Base /\ Unanswered /\ \A a \in Actors : Progress(a)

LEMMA UnansweredNext == Base /\ Unanswered /\ [Next]_vars => Unanswered'
<1> SUFFICES ASSUME Base, Unanswered, [Next]_vars PROVE Unanswered'
  OBVIOUS
<1>1. Typed /\ Values
  BY TypedParts DEF Base
<1>2. ASSUME NEW a \in Actors, Set(a) \/ SetCoredump(a)
      PROVE  Unanswered'
  <2>1. /\ reply' = [reply EXCEPT ![a] = "none"]
        /\ \A b \in Actors : b # a => Keeps(b)
    BY <1>1, <1>2, SetStep, SetCoredumpStep
  <2>2. QED BY <1>1, <2>1 DEF Unanswered, Busy, Keeps, Values
<1>3. ASSUME NEW a \in Actors, Answer(a)
      PROVE  Unanswered'
  <2>1. /\ \A b \in Actors : b # a => act'[b] = act[b] /\ reply'[b] = reply[b]
        /\ act'[a].pc = "idle"
    BY <1>1, <1>3, AnswerStep, IdleTyped DEF Frame, Values
  <2>2. QED BY <2>1 DEF Unanswered, Busy
<1>4. ASSUME NEW a \in Actors, Work(a) \/ Crash(a), ~ Answer(a)
      PROVE  Unanswered'
  <2>1. UNCHANGED reply /\ Busy(a) /\ \A b \in Actors : b # a => act'[b] = act[b]
    <3>1. UNCHANGED reply
      BY <1>4 DEF Work, NextPair, StartModule, RunScript, FinishModule, FinishPair, CheckLog,
                  RemoveSwitch, InstallSwitch, RunCoredump, FinishCoredump, Crash
    <3>2. QED BY <1>1, <1>4, <3>1, WorkFrame DEF Base, Frame
  <2>2. QED BY <2>1 DEF Unanswered, Busy
<1>5. CASE RemoveLevels
  BY <1>1, <1>5, RemoveLevelsStep DEF Unanswered, Busy, Keeps
<1>6. CASE GetState \/ UNCHANGED vars
  BY <1>6 DEF GetState, vars, Unanswered, Busy
<1>7. QED BY <1>2, <1>3, <1>4, <1>5, <1>6 DEF Next

LEMMA ProgressAlways == Spec => []ProgressInv
<1>1. Init => ProgressInv
  BY BaseInit, IdleTyped DEF Init, ProgressInv, Unanswered, Busy, Progress, InPairs
<1>2. ProgressInv /\ [Next]_vars => ProgressInv'
  BY BaseNext, UnansweredNext, ProgressNext DEF ProgressInv
<1>3. QED BY <1>1, <1>2, PTL DEF Spec

(* A call that succeeds has just been answered, with no pair left.         *)
LEMMA SucceedsStep ==
  ASSUME ProgressInv, [Next]_vars, NEW a \in Actors, Succeeds(a)
  PROVE  /\ Answer(a) /\ act[a].ok /\ UNCHANGED system
         /\ reply'[a] = IF act[a].reboot /\ a = Service THEN "reboot" ELSE "success"
         /\ Passed(a) = Counted(a)
<1>1. /\ Base /\ Typed /\ Values /\ Shape(a) /\ act[a] \in Call
      /\ act[a].pc \in {"logged", "answer"} /\ act'[a].pc = "idle" /\ reply[a] = "none"
      /\ reply'[a] \in {"success", "reboot"}
  BY TypedParts, CallFields
     DEF ProgressInv, Unanswered, Busy, Base, Succeeds, Answered
<1>2. Answer(a)
  <2>1. Work(a) => Answer(a)
    BY <1>1 DEF Work, NextPair, StartModule, RunScript, FinishModule, FinishPair, CheckLog,
                RemoveSwitch, InstallSwitch, RunCoredump, FinishCoredump
  <2>2. ~ Crash(a)
    BY <1>1, CrashStep
  <2>3. ~ Set(a) /\ ~ SetCoredump(a)
    BY <1>1, SetStep, SetCoredumpStep
  <2>4. QED BY <1>1, <2>1, <2>2, <2>3, StepKinds DEF Keeps
<1>3. /\ UNCHANGED system
      /\ reply'[a] = IF ~ act[a].ok THEN "fail"
                     ELSE IF act[a].reboot /\ a = Service THEN "reboot" ELSE "success"
  BY <1>1, <1>2, AnswerStep DEF Values
<1>4. act[a].ok
  BY <1>1, <1>3
<1>5. Passed(a) = Counted(a)
  <2>1. act[a].pairs \in Seq(Pairs) /\ act[a].rest \in Seq(Pairs)
    BY <1>1 DEF Call
  <2>2. /\ Counted(a) \subseteq 1 .. Len(act[a].pairs) /\ Len(act[a].pairs) \in Nat
    BY <2>1 DEF Counted
  <2>3. CASE act[a].pairs = <<>>
    BY <2>2, <2>3 DEF Passed
  <2>4. CASE act[a].rest = <<>>
    <3>1. Position(a) = Len(act[a].pairs)
      BY <2>2, <2>4 DEF Position
    <3>2. QED BY <2>2, <3>1 DEF Passed
  <2>5. QED BY <1>1, <2>3, <2>4 DEF Shape
<1>6. QED BY <1>2, <1>3, <1>4, <1>5

(* The pair that a call finishes is the next one that counts.              *)
LEMMA PassedNext ==
  ASSUME Base, NEW a \in Actors, Progress(a), FinishPair(a)
  PROVE  /\ Passed(a)' = Passed(a) \cup {Position(a) + 1}
         /\ Counted(a)' = Counted(a)
         /\ act[a].pairs # <<>> /\ Head(act[a].rest) = act[a].pairs[Position(a) + 1]
         /\ Position(a) + 1 \in Counted(a) /\ Position(a) \in Nat
<1>1. Typed /\ Shape(a) /\ act[a] \in Call
  BY CallFields DEF Base
<1>2. /\ act'[a].pairs = act[a].pairs /\ act[a].pc = "pairEnd" /\ act[a].rest # <<>>
      /\ act'[a].rest = IF a = Service /\ Name(a) = All THEN <<>> ELSE Tail(act[a].rest)
  BY <1>1, FinishPairStep DEF Base, Shape, InPair, Same
<1> DEFINE n == Position(a)
           p == act[a].pairs
<1>3. /\ n \in Nat /\ n + 1 \in DOMAIN p /\ n + 1 \in Counted(a)
      /\ Head(act[a].rest) = p[n + 1]
      /\ Len(p) - Len(Tail(act[a].rest)) = n + 1
  BY <1>2, NextPosition DEF InPairs
<1>4. /\ p \in Seq(Pairs) /\ DOMAIN p = 1 .. Len(p) /\ Len(p) \in Nat
      /\ Counted(a) \subseteq DOMAIN p /\ p # <<>>
  <2>1. p \in Seq(Pairs)
    BY <1>1 DEF Call
  <2>2. QED BY <1>3, <2>1 DEF Counted
<1>5. Counted(a)' = Counted(a)
  BY <1>2 DEF Counted
<1>6. CASE a = Service /\ Name(a) = All
  <2>1. Position(a)' = Len(p)
    BY <1>2, <1>4, <1>6 DEF Position
  <2>2. ASSUME NEW i \in Counted(a)
        PROVE  i <= n \/ i = n + 1
    <3>1. i \in Nat /\ \A j \in 1 .. i - 1 : p[j].name # All
      BY <1>4, <1>6, <2>2 DEF Counted
    <3>2. p[n + 1].name = All
      BY <1>3, <1>6 DEF Name
    <3> HIDE DEF n, p
    <3>3. n + 1 \notin 1 .. i - 1
      BY <3>1, <3>2
    <3>4. QED BY <1>3, <3>1, <3>3
  <2>3. \A i \in Counted(a) : i <= Len(p)
    BY <1>4
  <2>4. QED BY <1>3, <1>4, <1>5, <2>1, <2>2, <2>3 DEF Passed
<1>7. CASE ~ (a = Service /\ Name(a) = All)
  <2>1. Position(a)' = n + 1
    BY <1>2, <1>3, <1>7 DEF Position
  <2>2. Counted(a) \subseteq Nat
    BY <1>4
  <2>3. \A i \in Counted(a) : i <= n + 1 <=> i <= n \/ i = n + 1
    BY <1>3, <2>2
  <2>4. QED BY <1>3, <1>4, <1>5, <2>1, <2>3 DEF Passed
<1>8. QED BY <1>3, <1>4, <1>5, <1>6, <1>7

(* Whether a call without an error needs a reboot, after the pairs behind  *)
(* it; a call without pairs needs none.                                    *)
RebootOk(a) ==
  act[a].ok \/ act[a].pairs = <<>> =>
    (act[a].reboot <=> \E i \in Passed(a) : NeedsReboot(act[a].pairs[i].name))

LEMMA RebootNext ==
  ASSUME Base, [Next]_vars, NEW a \in Actors, Progress(a), RebootOk(a)
  PROVE  RebootOk(a)'
<1>1. Typed /\ Shape(a) /\ act[a] \in Call
  BY CallFields DEF Base
<1>2. ASSUME act'[a].pairs = act[a].pairs, act'[a].rest = act[a].rest,
             act'[a].reboot = act[a].reboot,
             act'[a].ok => act[a].ok \/ act[a].pairs = <<>>
      PROVE  RebootOk(a)'
  <2>1. Passed(a)' = Passed(a)
    BY <1>2 DEF Passed, Counted, Position
  <2>2. QED BY <1>2, <2>1 DEF RebootOk
<1>3. CASE Keeps(a)
  BY <1>2, <1>3 DEF Keeps
<1>4. CASE NextPair(a)
  <2>1. act[a].pairs # <<>>
    <3>1. InPairs(a) /\ act[a].rest # <<>> /\ act[a].pairs \in Seq(Pairs)
      BY <1>1, <1>4, NextPairStep DEF InPairs, Call
    <3>2. Position(a) + 1 \in DOMAIN act[a].pairs
      BY <3>1, NextPosition
    <3>3. QED BY <3>1, <3>2
  <2>2. /\ act'[a].pairs = act[a].pairs /\ act'[a].reboot = act[a].reboot
        /\ ~ act'[a].ok \/ (act'[a].rest = act[a].rest /\ act'[a].ok = act[a].ok)
    BY <1>1, <1>4, NextPairStep DEF Same
  <2>3. CASE ~ act'[a].ok
    BY <2>1, <2>2, <2>3 DEF RebootOk
  <2>4. CASE act'[a].rest = act[a].rest /\ act'[a].ok = act[a].ok
    BY <1>2, <2>2, <2>4, Zenon
  <2>5. QED BY <2>2, <2>3, <2>4
<1>5. CASE FinishPair(a)
  <2>1. /\ act'[a].pairs = act[a].pairs
        /\ act'[a].ok = (act[a].ok /\ act[a].pairOk)
        /\ act'[a].reboot = (act[a].reboot \/ NeedsReboot(Name(a)))
    BY <1>1, <1>5, FinishPairStep DEF Same
  <2>2. /\ Passed(a)' = Passed(a) \cup {Position(a) + 1} /\ act[a].pairs # <<>>
        /\ Name(a) = act[a].pairs[Position(a) + 1].name
    BY <1>5, PassedNext DEF Name
  <2>3. ASSUME act'[a].ok
        PROVE  act'[a].reboot
                 <=> \E i \in Passed(a)' : NeedsReboot(act[a].pairs[i].name)
    <3>1. act[a].ok
      BY <2>1, <2>3, Zenon
    <3>2. act[a].reboot <=> \E i \in Passed(a) : NeedsReboot(act[a].pairs[i].name)
      BY <3>1 DEF RebootOk
    <3>3. act'[a].reboot <=> act[a].reboot \/ NeedsReboot(Name(a))
      BY <2>1, Zenon
    <3>4. QED BY <2>2, <3>2, <3>3, Zenon
  <2>4. QED BY <2>1, <2>2, <2>3 DEF RebootOk, NeedsReboot
<1>6. CASE (Work(a) \/ Crash(a)) /\ ~ NextPair(a) /\ ~ FinishPair(a)
  <2>1. CASE act'[a] = IdleCall
    <3>1. act'[a].pairs = <<>> /\ ~ act'[a].reboot
      BY <2>1 DEF IdleCall
    <3>2. Counted(a)' = {}
      BY <3>1 DEF Counted
    <3>3. QED BY <3>1, <3>2 DEF RebootOk, Passed
  <2>2. CASE Same(a) /\ SameRest(a) /\ (act[a].pairs # <<>> => act'[a].ok = act[a].ok)
    BY <1>2, <2>2 DEF Same, SameRest
  <2>3. QED BY <1>6, <2>1, <2>2, RestKept
<1>7. CASE Set(a)
  <2>1. /\ act'[a].rest = act'[a].pairs /\ act'[a].pairs \in Seq(Pairs) /\ ~ act'[a].reboot
    BY <1>1, <1>7, SetStep
  <2>2. Position(a)' = 0 /\ Counted(a)' \subseteq Nat \ {0}
    BY <2>1 DEF Position, Counted
  <2>3. Passed(a)' = {}
    BY <2>2 DEF Passed
  <2>4. QED BY <2>1, <2>3 DEF RebootOk
<1>8. CASE SetCoredump(a)
  <2>1. act'[a].pairs = <<>> /\ ~ act'[a].reboot
    BY <1>1, <1>8, SetCoredumpStep
  <2>2. Counted(a)' = {}
    BY <2>1 DEF Counted
  <2>3. QED BY <2>1, <2>2 DEF RebootOk, Passed
<1>9. QED BY <1>3, <1>4, <1>5, <1>6, <1>7, <1>8, StepKinds

(* The service answers "reboot" exactly when a module it has set takes its *)
(* level at boot, whichever of the pairs names it, and "all" stands for    *)
(* every module (method_set_debug, bus-service.c:264-294).                 *)
THEOREM TellsToReboot == Spec => RebootTold
<1> DEFINE RInv == \A a \in Actors : RebootOk(a)
<1>1. Spec => []RInv
  <2>1. Init => RInv
    <3> SUFFICES ASSUME Init, NEW a \in Actors PROVE RebootOk(a)
      OBVIOUS
    <3>1. act[a].pairs = <<>> /\ ~ act[a].reboot
      BY DEF Init, IdleCall
    <3>2. Counted(a) = {}
      BY <3>1 DEF Counted
    <3>3. QED BY <3>1, <3>2 DEF RebootOk, Passed
  <2>2. ProgressInv /\ RInv /\ [Next]_vars => RInv'
    BY RebootNext DEF ProgressInv
  <2>3. QED BY <2>1, <2>2, ProgressAlways, PTL DEF Spec
<1>2. ProgressInv /\ RInv /\ [Next]_vars =>
        [Succeeds(Service) =>
           (reply'[Service] = "reboot"
              <=> \E i \in Counted(Service) : NeedsReboot(act[Service].pairs[i].name))]_vars
  <2> SUFFICES ASSUME ProgressInv, RInv, [Next]_vars, Succeeds(Service)
               PROVE  reply'[Service] = "reboot"
                        <=> \E i \in Counted(Service) :
                              NeedsReboot(act[Service].pairs[i].name)
    OBVIOUS
  <2>1. Service \in Actors
    BY DEF Actors
  <2>2. /\ act[Service].ok /\ Passed(Service) = Counted(Service)
        /\ reply'[Service] = IF act[Service].reboot THEN "reboot" ELSE "success"
    BY <2>1, SucceedsStep
  <2>3. QED BY <2>1, <2>2 DEF RebootOk
<1>3. QED BY <1>1, <1>2, ProgressAlways, PTL DEF Spec, RebootTold

-----------------------------------------------------------------------------
(* A call that runs by itself.                                             *)

LEMMA LoneStep ==
  ASSUME Base, [Next]_vars, NEW a \in Actors, act'[a].alone, Busy(a)'
  PROVE  \/ Work(a) \/ Set(a) \/ SetCoredump(a)
         \/ UNCHANGED <<applied, skipped, installed, file, journal>> /\ act'[a] = act[a]
<1>1. Typed
  BY DEF Base
<1>2. ASSUME NEW b \in Actors, b # a, Work(b) \/ Crash(b)
      PROVE  FALSE
  BY <1>2, WorkFrame DEF Base, ByItself, Frame, Busy
<1>3. ASSUME NEW b \in Actors, b # a, Set(b) \/ SetCoredump(b)
      PROVE  FALSE
  <2>1. Keeps(a) /\ act'[a].alone = (act[a].alone /\ ~ Busy(a))
    BY <1>1, <1>3, SetStep, SetCoredumpStep
  <2>2. ~ Busy(a)
    BY <2>1, Zenon
  <2>3. QED BY <2>1, <2>2 DEF Keeps, Busy
<1>4. ~ RemoveLevels
  BY <1>1, RemoveLevelsStep DEF Keeps, Busy
<1>5. ~ Crash(a)
  BY <1>1, CrashStep, IdleTyped DEF Busy
<1>6. GetState \/ UNCHANGED vars =>
        UNCHANGED <<applied, skipped, installed, file, journal>> /\ act'[a] = act[a]
  BY DEF GetState, vars, system
<1>7. QED BY <1>2, <1>3, <1>4, <1>5, <1>6 DEF Next

JournalOk(a) ==
  act[a].alone =>
    /\ act[a].pc \in {"remove", "install", "logged"} => act[a].flag = HasOn
    /\ Removed(a)
    /\ act[a].pc = "logged" => journal[NeedDel(a)] = "absent" /\ journal[Dest(a)] # "absent"

(* No copy is cut short, unless by a kill or a full disk.                  *)
Whole == Crashes \/ "fill" \in JournalFaults \/ \A k \in {"on", "off"} : journal[k] # "empty"
JournalInv == Base /\ Whole /\ \A a \in Actors : JournalOk(a)

LEMMA WholeNext == Base /\ Whole /\ [Next]_vars => Whole'
<1> SUFFICES ASSUME Base, Whole, [Next]_vars, ~ Crashes, "fill" \notin JournalFaults PROVE Whole'
  BY DEF Whole
<1>1. Typed /\ Values
  BY TypedParts DEF Base
<1>2. ASSUME NEW a \in Actors, RemoveSwitch(a)
      PROVE  Whole'
  BY <1>1, <1>2, RemoveSwitchStep DEF Values, Whole
<1>3. ASSUME NEW a \in Actors, InstallSwitch(a)
      PROVE  Whole'
  <2>1. UNCHANGED journal \/ journal' = [journal EXCEPT ![Dest(a)] = "full"]
    BY <1>1, <1>3, InstallSwitchStep
  <2>2. QED BY <1>1, <2>1 DEF Values, Whole
<1>4. UNCHANGED journal => Whole'
  BY DEF Whole
<1>5. QED BY <1>1, <1>2, <1>3, <1>4, SwitchSteps, QuietSteps

LEMMA JournalNext == JournalInv /\ [Next]_vars => JournalInv'
<1> SUFFICES ASSUME JournalInv, [Next]_vars PROVE JournalInv'
  OBVIOUS
<1>1. /\ Base /\ Base' /\ Typed /\ Values /\ Whole'
  BY BaseNext, WholeNext, TypedParts DEF JournalInv, Base
<1>2. SUFFICES ASSUME NEW a \in Actors
               PROVE  JournalOk(a)'
  BY <1>1 DEF JournalInv
<1>3. Shape(a) /\ act[a] \in Call /\ JournalOk(a)
  BY CallFields DEF JournalInv, Base
<1>4. ASSUME act'[a].pc \notin {"remove", "install", "logged"}
      PROVE  JournalOk(a)'
  BY <1>4 DEF JournalOk, Removed
<1>5. SUFFICES ASSUME act'[a].alone, Busy(a)'
               PROVE  JournalOk(a)'
  <2>1. CASE ~ act'[a].alone
    BY <2>1 DEF JournalOk
  <2>2. CASE ~ Busy(a)'
    BY <1>4, <2>2 DEF Busy
  <2>3. QED BY <1>5, <2>1, <2>2
<1>6. CASE NextPair(a) \/ StartModule(a) \/ RunScript(a) \/ FinishModule(a) \/ FinishPair(a)
  BY <1>1, <1>3, <1>4, <1>6, NextPairStep, StartModuleStep, RunScriptStep, FinishModuleStep,
     FinishPairStep
<1>7. CASE CheckLog(a)
  <2>1. CASE act'[a].pc = "answer"
    BY <1>4, <2>1
  <2>2. CASE act'[a].pc # "answer"
    <3>1. act'[a].pc = "remove" /\ act'[a].flag = HasOn /\ UNCHANGED system
      BY <1>1, <1>7, <2>2, CheckLogStep
    <3>2. HasOn' = HasOn
      BY <3>1 DEF system, file, HasOn
    <3>3. QED BY <3>1, <3>2 DEF JournalOk, Removed
  <2>3. QED BY <2>1, <2>2
<1>8. CASE RemoveSwitch(a)
  <2>1. CASE act'[a].pc = "answer"
    BY <1>4, <2>1
  <2>2. CASE act'[a].pc # "answer"
    <3>1. /\ act'[a].pc = "install" /\ act'[a].flag = act[a].flag /\ act[a].pc = "remove"
          /\ journal' = [journal EXCEPT ![NeedDel(a)] = "absent"]
          /\ Same(a) /\ UNCHANGED file
      BY <1>1, <1>8, <2>2, RemoveSwitchStep
    <3>2. HasOn' = HasOn /\ NeedDel(a)' = NeedDel(a) /\ NeedDel(a) \in {"on", "off"}
      BY <3>1 DEF file, HasOn, NeedDel
    <3>3. Removed(a)'
      BY <1>1, <3>1, <3>2 DEF Values, Removed
    <3>4. QED BY <1>3, <1>5, <3>1, <3>2, <3>3 DEF JournalOk, Same
  <2>3. QED BY <2>1, <2>2
<1>9. CASE InstallSwitch(a)
  <2>1. CASE act'[a].pc = "answer"
    BY <1>4, <2>1
  <2>2. CASE act'[a].pc # "answer"
    <3>1. /\ act[a].pc = "install" /\ act'[a].pc = "logged" /\ act'[a].flag = act[a].flag
          /\ \/ journal[Dest(a)] # "absent" /\ UNCHANGED journal
             \/ \E c \in {"full", "empty"} : journal' = [journal EXCEPT ![Dest(a)] = c]
          /\ Same(a) /\ UNCHANGED file
      BY <1>1, <1>9, <2>2, InstallSwitchStep
    <3>2. act[a].flag = HasOn /\ journal[NeedDel(a)] = "absent"
      BY <1>3, <1>5, <3>1 DEF JournalOk, Removed, Same
    <3>3. HasOn' = HasOn /\ NeedDel(a)' = NeedDel(a) /\ Dest(a)' = Dest(a)
      BY <3>1 DEF file, HasOn, NeedDel, Dest
    <3>4. Dest(a) # NeedDel(a) /\ Dest(a) \in {"on", "off"} /\ NeedDel(a) \in {"on", "off"}
      BY DEF Dest, NeedDel
    <3>5. journal'[Dest(a)] # "absent" /\ journal'[NeedDel(a)] = "absent"
      BY <1>1, <3>1, <3>2, <3>4 DEF Values
    <3>6. QED BY <3>1, <3>2, <3>3, <3>5 DEF JournalOk, Removed
  <2>3. QED BY <2>1, <2>2
<1>10. CASE RunCoredump(a) \/ FinishCoredump(a)
  BY <1>1, <1>4, <1>10, RunCoredumpStep, FinishCoredumpStep
<1>11. CASE Answer(a)
  BY <1>1, <1>4, <1>11, AnswerStep, IdleTyped
<1>12. CASE Set(a) \/ SetCoredump(a)
  BY <1>1, <1>4, <1>12, SetStep, SetCoredumpStep
<1>13. CASE UNCHANGED <<applied, skipped, installed, file, journal>> /\ act'[a] = act[a]
  BY <1>3, <1>13 DEF JournalOk, Removed, NeedDel, Dest, HasOn, file
<1>14. QED BY <1>1, <1>5, <1>6, <1>7, <1>8, <1>9, <1>10, <1>11, <1>12, <1>13, LoneStep DEF Work

(* When config_module_check_log has returned 0 in a call of any process    *)
(* that has run by itself, journald's switch is where the levels in the    *)
(* file say: the file wanted is there, and complete unless a process may   *)
(* be killed or the disk fill up, and the other is gone, whatever earlier  *)
(* calls, failed scripts and killed processes left behind                  *)
(* (config_module_check_log and set_journal_log, module_configure.c:831-   *)
(* 839 and 206-238).  In the sandbox of the service it returns 0 only when *)
(* there was nothing to do.                                                *)
THEOREM JournalIsRight == Spec => []JournalFollows
<1>1. Init => JournalInv
  BY BaseInit, IdleTyped DEF Init, JournalInv, JournalOk, Removed, Whole
<1>2. JournalInv => JournalFollows
  <2> SUFFICES ASSUME JournalInv, NEW a \in Actors, act[a].pc = "logged", act[a].alone
               PROVE  /\ journal[Unwanted] = "absent" /\ journal[Wanted] # "absent"
                      /\ journal[Wanted] = "empty" => Crashes \/ "fill" \in JournalFaults
    BY DEF JournalFollows
  <2>1. act[a].flag = HasOn /\ journal[NeedDel(a)] = "absent" /\ journal[Dest(a)] # "absent"
    BY DEF JournalInv, JournalOk
  <2>2. Wanted = Dest(a) /\ Unwanted = NeedDel(a) /\ Wanted \in {"on", "off"}
    BY <2>1 DEF Wanted, Unwanted, Dest, NeedDel
  <2>3. QED BY <2>1, <2>2 DEF JournalInv, Whole
<1>3. QED BY <1>1, <1>2, JournalNext, PTL DEF Spec

-----------------------------------------------------------------------------
(* What a successful call has done.                                        *)

(* No script belongs to two modules.                                       *)
NoSharedScripts ==
  \A m, k \in Modules : m # k =>
    \A i \in DOMAIN SubsOf[m], j \in DOMAIN SubsOf[k] : SubsOf[m][i] # SubsOf[k][j]

About(a, i, m) == act[a].pairs[i].name \in {m, All}

(* The current pair is done for module m, although others are still to set.*)
Ahead(a, m) == InPair(a) /\ m \in Target(a) \ act[a].todo

(* The pairs so far that are about m.                                      *)
Heard(a, m) ==
  {i \in Passed(a) : About(a, i, m)} \cup (IF Ahead(a, m) THEN {Position(a) + 1} ELSE {})

Holds(m, l) ==
  /\ m \in unsaved \/ (m \in DOMAIN levels /\ levels[m] = l)
  /\ InForce(m, l)

(* The last level asked for module m so far is in force, and recorded      *)
(* unless the file failed.                                                 *)
Obeyed(a, m) ==
  \A i \in Heard(a, m) :
    (\A k \in Heard(a, m) : k <= i) => Holds(m, act[a].pairs[i].level)

(* A call by itself without an error has obeyed for every module, but that *)
(* whose scripts are running.                                              *)
SuccessOk(a) ==
  act[a].alone /\ act[a].ok /\ (InPair(a) => act[a].pairOk) =>
    \A m \in Modules : (act[a].pc = "script" /\ m = act[a].module) \/ Obeyed(a, m)
SuccessInv == ForceInv /\ ProgressInv /\ \A a \in Actors : SuccessOk(a)

(* A step that leaves the pairs, the levels and what is in force.          *)
LEMMA SameObeyed ==
  ASSUME NEW a \in Actors, NEW m \in Modules,
         act'[a].pairs = act[a].pairs, act'[a].rest = act[a].rest,
         Ahead(a, m)' <=> Ahead(a, m),
         m \in unsaved => m \in unsaved',
         m \in DOMAIN levels => m \in DOMAIN levels' /\ levels'[m] = levels[m],
         \A l : InForce(m, l) => InForce(m, l)',
         Obeyed(a, m)
  PROVE  Obeyed(a, m)'
<1>1. Passed(a)' = Passed(a) /\ Position(a)' = Position(a)
  BY DEF Passed, Counted, Position
<1>2. Heard(a, m)' = Heard(a, m)
  BY <1>1 DEF Heard, About
<1>3. SUFFICES ASSUME NEW i \in Heard(a, m)', \A k \in Heard(a, m)' : k <= i
               PROVE  Holds(m, act[a].pairs[i].level)'
  BY DEF Obeyed
<1>4. Holds(m, act[a].pairs[i].level)
  BY <1>2, <1>3 DEF Obeyed
<1>5. Holds(m, act[a].pairs[i].level)'
  <2>1. PICK l : l = act[a].pairs[i].level
    OBVIOUS
  <2>2. /\ m \in unsaved \/ (m \in DOMAIN levels /\ levels[m] = l)
        /\ InForce(m, l)
    BY <1>4, <2>1 DEF Holds
  <2>3. /\ m \in unsaved' \/ (m \in DOMAIN levels' /\ levels'[m] = l)
        /\ InForce(m, l)'
    BY <2>2
  <2>4. act'[a].pairs[i].level = l
    BY <2>1
  <2>5. QED BY <2>3, <2>4 DEF Holds, InForce
<1>6. QED BY <1>5

LEMMA NothingHeard ==
  ASSUME NEW a \in Actors, NEW m, act[a].pairs = <<>>, ~ InPair(a)
  PROVE  Obeyed(a, m)
<1>1. Counted(a) = {}
  BY DEF Counted
<1>2. QED BY <1>1 DEF Obeyed, Heard, Ahead, Passed

(* The scripts of one module do not change what is in force in another.    *)
LEMMA ScriptApart ==
  ASSUME NoSharedScripts, Base, NEW a \in Actors, RunScript(a), Remaining(a),
         NEW m \in Modules, m # act[a].module, NEW l, InForce(m, l)
  PROVE  InForce(m, l)'
<1>1. /\ Typed /\ Shape(a) /\ act[a] \in Call /\ act[a].pc = "script" /\ act[a].subs # <<>>
      /\ installed' = installed
  BY CallFields, RunScriptStep DEF Base
<1> DEFINE s == Head(act[a].subs)
           k == act[a].module
<1>2. /\ k \in Modules /\ SubsOf[k] \in Seq(Subs) /\ act[a].subs \in Seq(Subs) /\ s \in Subs
  BY <1>1, SubsTyped, CallFields DEF Shape, Call
<1>3. \E i \in DOMAIN SubsOf[k] : s = SubsOf[k][i]
  <2>1. Suffix(act[a].subs, SubsOf[k])
    BY <1>1 DEF Remaining
  <2> DEFINE i == Len(SubsOf[k]) - Len(act[a].subs) + 1
  <2>2. i \in 1 .. Len(SubsOf[k]) /\ s = SubsOf[k][i]
    BY <1>1, <1>2, <2>1, SuffixTail
  <2>3. DOMAIN SubsOf[k] = 1 .. Len(SubsOf[k])
    BY <1>2
  <2> HIDE DEF i
  <2>4. QED BY <2>2, <2>3
<1>4. \A i \in DOMAIN SubsOf[m] : SubsOf[m][i] # s /\ SubsOf[m][i] \in Subs
  BY <1>2, <1>3, SubsTyped DEF NoSharedScripts
<1>5. \A t \in Subs : t # s => applied'[t] = applied[t] /\ (t \in skipped' <=> t \in skipped)
  BY <1>2, ScriptEffect
<1>6. QED BY <1>1, <1>4, <1>5 DEF InForce, PackageInstalled

(* The end of a module, and of a pair.                                     *)
LEMMA ModuleObeyed ==
  ASSUME SuccessInv, NEW a \in Actors, FinishModule(a), act'[a].alone,
         act'[a].ok, act'[a].pairOk, NEW m \in Modules
  PROVE  Obeyed(a, m)'
<1>1. /\ Base /\ Typed /\ Shape(a) /\ act[a] \in Call /\ Forced(a) /\ Progress(a) /\ SuccessOk(a)
  BY CallFields DEF SuccessInv, ForceInv, ProgressInv, Base
<1>2. /\ Same(a) /\ SameRest(a) /\ act[a].pc = "script" /\ act[a].subs = <<>>
      /\ act'[a].pc \in {"module", "pairEnd"} /\ act'[a].ok = act[a].ok
      /\ act'[a].pairOk = (act[a].pairOk /\ act[a].moduleOk)
      /\ act'[a].todo = act[a].todo \ {act[a].module}
      /\ IF act[a].moduleOk THEN Modify(act[a].module, Level(a)) ELSE UNCHANGED file
      /\ UNCHANGED <<applied, skipped, installed>>
  BY <1>1, FinishModuleStep
<1>3. act[a].pairOk /\ act[a].moduleOk /\ act[a].alone
  <2>1. act[a].pairOk /\ act[a].moduleOk
    BY <1>2, Zenon
  <2>2. QED BY <1>2, <2>1 DEF Same
<1>4. Modify(act[a].module, Level(a)) /\ InForce(act[a].module, Level(a))
  BY <1>1, <1>2, <1>3, ForcedModule
<1>5. \A k, l : InForce(k, l) => InForce(k, l)'
  BY <1>2 DEF InForce, PackageInstalled
<1>6. /\ Target(a)' = Target(a) /\ act[a].module \in Target(a) /\ act[a].module \in act[a].todo
      /\ InPair(a) /\ InPair(a)' /\ act[a].rest # <<>>
  BY <1>1, <1>2 DEF Shape, InPair, SameRest, Target, Name
<1>7. CASE m # act[a].module
  <2>1. Obeyed(a, m)
    BY <1>1, <1>2, <1>3, <1>7 DEF SuccessOk
  <2>2. Ahead(a, m)' <=> Ahead(a, m)
    BY <1>2, <1>6, <1>7 DEF Ahead
  <2>3. /\ m \in unsaved => m \in unsaved'
        /\ m \in DOMAIN levels => m \in DOMAIN levels' /\ levels'[m] = levels[m]
    BY <1>4, <1>7 DEF Modify, RecordFails, Record, Recorded
  <2>4. QED BY <1>2, <1>5, <2>1, <2>2, <2>3, SameObeyed DEF Same, SameRest
<1>8. CASE m = act[a].module
  <2>1. /\ Position(a)' = Position(a) /\ Passed(a)' = Passed(a)
        /\ Ahead(a, m)'
    BY <1>2, <1>6, <1>8 DEF Position, Passed, Counted, Ahead, Same, SameRest
  <2>2. /\ Position(a) \in Nat
        /\ Level(a) = act[a].pairs[Position(a) + 1].level
        /\ Passed(a) \subseteq Nat
    <3>1. Passed(a) \subseteq Nat
      <4>1. act[a].pairs \in Seq(Pairs)
        BY <1>1 DEF Call
      <4>2. QED BY <4>1 DEF Passed, Counted
    <3>2. InPairs(a)
      BY <1>2 DEF InPairs
    <3>3. QED BY <1>1, <1>6, <3>1, <3>2, NextPosition DEF Level
  <2>3. ASSUME NEW i \in Heard(a, m)', \A k \in Heard(a, m)' : k <= i
        PROVE  i = Position(a) + 1
    <3>1. Position(a) + 1 \in Heard(a, m)' /\ (i = Position(a) + 1 \/ i \in Passed(a))
      BY <2>1, <2>3 DEF Heard
    <3>2. Position(a) + 1 <= i /\ (i \in Passed(a) => i <= Position(a) /\ i \in Nat)
      BY <2>2, <2>3, <3>1 DEF Passed
    <3>3. QED BY <2>2, <3>1, <3>2
  <2>4. Holds(m, Level(a))'
    <3>1. m \in unsaved' \/ (m \in DOMAIN levels' /\ levels'[m] = Level(a))
      BY <1>4, <1>8 DEF Modify, RecordFails, Record, Recorded
    <3>2. InForce(m, Level(a))' /\ Level(a)' = Level(a)
      BY <1>2, <1>4, <1>8 DEF InForce, PackageInstalled, Level, SameRest
    <3>3. QED BY <3>1, <3>2 DEF Holds
  <2>5. Level(a)' = Level(a) /\ act'[a].pairs = act[a].pairs
    BY <1>2 DEF Level, Same, SameRest
  <2>6. QED BY <2>2, <2>3, <2>4, <2>5 DEF Obeyed, Holds, InForce
<1>9. QED BY <1>7, <1>8

LEMMA PairObeyed ==
  ASSUME SuccessInv, NEW a \in Actors, FinishPair(a), act'[a].alone,
         act'[a].ok, NEW m \in Modules
  PROVE  Obeyed(a, m)'
<1>1. Base /\ Typed /\ Shape(a) /\ Progress(a) /\ SuccessOk(a)
  BY DEF SuccessInv, ProgressInv, Base
<1>2. /\ Same(a) /\ act[a].pc = "pairEnd" /\ act'[a].pc = "pair"
      /\ act'[a].ok = (act[a].ok /\ act[a].pairOk)
      /\ Modify(All, Level(a)) \/ UNCHANGED file
      /\ UNCHANGED <<applied, skipped, installed>>
  BY <1>1, FinishPairStep
<1>3. act[a].ok /\ act[a].pairOk /\ act[a].alone
  <2>1. act[a].ok /\ act[a].pairOk
    BY <1>2, Zenon
  <2>2. QED BY <1>2, <2>1 DEF Same
<1>4. Obeyed(a, m)
  BY <1>1, <1>2, <1>3 DEF SuccessOk
<1>5. /\ Passed(a)' = Passed(a) \cup {Position(a) + 1}
      /\ Name(a) = act[a].pairs[Position(a) + 1].name
      /\ act'[a].pairs = act[a].pairs
  BY <1>1, <1>2, PassedNext DEF Name, Same
<1>6. Ahead(a, m) <=> About(a, Position(a) + 1, m)
  BY <1>1, <1>2, <1>5, ModulesAreNoPseudo DEF Ahead, About, InPair, Shape, Target
<1>7. Heard(a, m)' = Heard(a, m)
  <2>1. ~ Ahead(a, m)'
    BY <1>2 DEF Ahead, InPair
  <2>2. \A i : About(a, i, m)' <=> About(a, i, m)
    BY <1>5 DEF About
  <2>3. QED BY <1>5, <1>6, <2>1, <2>2 DEF Heard
<1>8. /\ m \in unsaved => m \in unsaved'
      /\ m \in DOMAIN levels => m \in DOMAIN levels' /\ levels'[m] = levels[m]
  BY <1>2, ModulesAreNoPseudo DEF Modify, RecordFails, Record, Recorded, file
<1>9. SUFFICES ASSUME NEW i \in Heard(a, m)', \A k \in Heard(a, m)' : k <= i
               PROVE  Holds(m, act[a].pairs[i].level)'
  BY DEF Obeyed
<1>10. Holds(m, act[a].pairs[i].level)
  BY <1>4, <1>7, <1>9 DEF Obeyed
<1>11. QED BY <1>2, <1>5, <1>8, <1>10 DEF Holds, InForce, PackageInstalled

LEMMA SuccessWork ==
  ASSUME NoSharedScripts, SuccessInv, NEW a \in Actors, Work(a),
         act'[a].alone, act'[a].ok, InPair(a)' => act'[a].pairOk, NEW m \in Modules,
         ~ (act'[a].pc = "script" /\ m = act'[a].module)
  PROVE  Obeyed(a, m)'
<1>1. /\ Base /\ Typed /\ Shape(a) /\ act[a] \in Call /\ Progress(a) /\ SuccessOk(a)
      /\ Remaining(a)
  BY CallFields DEF SuccessInv, ForceInv, Forced, ProgressInv, Base
<1>2. ASSUME act[a].alone, act[a].ok, InPair(a) => act[a].pairOk,
             ~ (act[a].pc = "script" /\ m = act[a].module)
      PROVE  Obeyed(a, m)
  BY <1>1, <1>2 DEF SuccessOk
<1>3. ASSUME UNCHANGED <<applied, skipped, installed, file>>
      PROVE  /\ m \in unsaved => m \in unsaved'
             /\ m \in DOMAIN levels => m \in DOMAIN levels' /\ levels'[m] = levels[m]
             /\ \A l : InForce(m, l) => InForce(m, l)'
  BY <1>3 DEF InForce, PackageInstalled, file
<1>4. CASE NextPair(a)
  <2>1. /\ Same(a) /\ act[a].pc = "pair" /\ act'[a].pc = "module" /\ act'[a].rest = act[a].rest
        /\ act'[a].ok = act[a].ok /\ act'[a].todo = Target(a)
        /\ UNCHANGED <<applied, skipped, installed, file>>
    BY <1>1, <1>4, NextPairStep DEF system
  <2>2. Target(a)' = Target(a)
    BY <2>1 DEF Target, Name
  <2>3. ~ Ahead(a, m)' /\ ~ Ahead(a, m)
    BY <2>1, <2>2 DEF Ahead, InPair
  <2>4. Obeyed(a, m)
    BY <1>2, <2>1 DEF InPair, Same
  <2>5. QED BY <1>3, <2>1, <2>3, <2>4, SameObeyed DEF Same
<1>5. CASE StartModule(a)
  <2>1. /\ Same(a) /\ SameRest(a) /\ act[a].pc = "module" /\ act'[a].pc = "script"
        /\ act'[a].ok = act[a].ok /\ act'[a].pairOk = act[a].pairOk
        /\ act'[a].todo = act[a].todo
        /\ UNCHANGED <<applied, skipped, installed, file>>
    BY <1>1, <1>5, StartModuleStep DEF system
  <2>2. Ahead(a, m)' <=> Ahead(a, m)
    BY <2>1 DEF Ahead, InPair, Target, Name, SameRest
  <2>3. Obeyed(a, m)
    BY <1>2, <2>1 DEF InPair, Same
  <2>4. QED BY <1>3, <2>1, <2>2, <2>3, SameObeyed DEF Same, SameRest
<1>6. CASE RunScript(a)
  <2>1. /\ Same(a) /\ SameRest(a) /\ act[a].pc = "script" /\ act'[a].pc = "script"
        /\ act'[a].ok = act[a].ok /\ act'[a].pairOk = act[a].pairOk
        /\ act'[a].todo = act[a].todo /\ act'[a].module = act[a].module
        /\ UNCHANGED file
    BY <1>1, <1>6, RunScriptStep
  <2>2. Ahead(a, m)' <=> Ahead(a, m)
    BY <2>1 DEF Ahead, InPair, Target, Name, SameRest
  <2>3. Obeyed(a, m)
    BY <1>2, <2>1 DEF InPair, Same
  <2>4. \A l : InForce(m, l) => InForce(m, l)'
    BY <1>1, <1>6, <2>1, ScriptApart
  <2>5. QED BY <2>1, <2>2, <2>3, <2>4, SameObeyed DEF Same, SameRest, file
<1>7. CASE FinishModule(a)
  <2>1. InPair(a)'
    BY <1>1, <1>7, FinishModuleStep DEF InPair
  <2>2. QED BY <1>7, <2>1, ModuleObeyed
<1>8. CASE FinishPair(a)
  BY <1>8, PairObeyed
<1>9. CASE CheckLog(a) \/ RemoveSwitch(a) \/ InstallSwitch(a)
  <2>1. /\ Same(a) /\ SameRest(a) /\ act'[a].ok = act[a].ok
        /\ ~ InPair(a) /\ ~ InPair(a)'
        /\ UNCHANGED <<applied, skipped, installed, file>>
    BY <1>1, <1>9, CheckLogStep, RemoveSwitchStep, InstallSwitchStep DEF InPair, system
  <2>2. Obeyed(a, m)
    BY <1>2, <2>1 DEF InPair, Same
  <2>3. QED BY <1>3, <2>1, <2>2, SameObeyed DEF Same, SameRest, Ahead
<1>10. CASE RunCoredump(a) \/ FinishCoredump(a)
  <2>1. act'[a].pairs = <<>> /\ ~ InPair(a)'
    BY <1>1, <1>10, RunCoredumpStep, FinishCoredumpStep DEF InPair, Same, Shape
  <2>2. Counted(a)' = {}
    BY <2>1 DEF Counted
  <2>3. QED BY <2>1, <2>2 DEF Obeyed, Heard, Ahead, Passed
<1>11. CASE Answer(a)
  <2>1. act'[a].pairs = <<>> /\ ~ InPair(a)'
    BY <1>1, <1>11, AnswerStep, IdleTyped DEF InPair, IdleCall
  <2>2. Counted(a)' = {}
    BY <2>1 DEF Counted
  <2>3. QED BY <2>1, <2>2 DEF Obeyed, Heard, Ahead, Passed
<1>12. QED BY <1>4, <1>5, <1>6, <1>7, <1>8, <1>9, <1>10, <1>11 DEF Work

LEMMA SuccessNext ==
  NoSharedScripts /\ SuccessInv /\ [Next]_vars
    => \A a \in Actors : SuccessOk(a)'
<1> SUFFICES ASSUME NoSharedScripts, SuccessInv, [Next]_vars, NEW a \in Actors
             PROVE  SuccessOk(a)'
  OBVIOUS
<1>1. Base /\ Typed /\ Base' /\ Typed'
  BY BaseNext DEF SuccessInv, ForceInv, Base
<1>2. SUFFICES ASSUME act'[a].alone, act'[a].ok, InPair(a)' => act'[a].pairOk,
                      NEW m \in Modules, ~ (act'[a].pc = "script" /\ m = act'[a].module)
               PROVE  Obeyed(a, m)'
  BY DEF SuccessOk
<1>3. ASSUME Counted(a)' = {} \/ Passed(a)' = {}, ~ InPair(a)'
      PROVE  Obeyed(a, m)'
  BY <1>3 DEF Obeyed, Heard, Ahead, Passed
<1>4. CASE Keeps(a) /\ ~ Busy(a)'
  <2>1. act[a].pc = "idle" /\ act'[a].pc = "idle"
    BY <1>4 DEF Keeps, Busy
  <2>2. act[a].pairs = <<>> /\ act'[a].pairs = <<>>
    BY <1>4, <2>1 DEF SuccessInv, ForceInv, Base, Shape, Keeps
  <2>3. QED BY <1>3, <2>1, <2>2 DEF Counted, InPair
<1>5. CASE Work(a)
  BY <1>2, <1>5, SuccessWork
<1>6. CASE Crash(a)
  <2>1. act'[a].pairs = <<>> /\ ~ InPair(a)'
    BY <1>1, <1>6, CrashStep, IdleTyped DEF InPair, IdleCall
  <2>2. QED BY <1>3, <2>1 DEF Counted
<1>7. CASE Set(a)
  <2>1. /\ act'[a].rest = act'[a].pairs /\ act'[a].pairs \in Seq(Pairs) /\ act'[a].pc = "pair"
    BY <1>1, <1>7, SetStep
  <2>2. Position(a)' = 0 /\ Counted(a)' \subseteq Nat \ {0}
    BY <2>1 DEF Position, Counted
  <2>3. Passed(a)' = {}
    BY <2>2 DEF Passed
  <2>4. QED BY <1>3, <2>1, <2>3 DEF InPair
<1>8. CASE SetCoredump(a)
  <2>1. act'[a].pairs = <<>> /\ ~ InPair(a)'
    BY <1>1, <1>8, SetCoredumpStep DEF InPair
  <2>2. QED BY <1>3, <2>1 DEF Counted
<1>9. CASE UNCHANGED <<applied, skipped, installed, file, journal>> /\ act'[a] = act[a]
  <2>1. SuccessOk(a)
    BY DEF SuccessInv
  <2>2. Obeyed(a, m)
    BY <1>2, <1>9, <2>1 DEF SuccessOk, InPair
  <2>3. Ahead(a, m)' <=> Ahead(a, m)
    BY <1>9 DEF Ahead, InPair, Target, Name
  <2>4. QED BY <1>9, <2>2, <2>3, SameObeyed DEF InForce, PackageInstalled, file
<1>10. Busy(a)' \/ Work(a) \/ Crash(a) \/ Set(a) \/ SetCoredump(a) \/ (Keeps(a) /\ ~ Busy(a)')
  BY <1>1, StepKinds
<1>11. QED BY <1>1, <1>2, <1>4, <1>5, <1>6, <1>7, <1>8, <1>9, <1>10, LoneStep

(* When no two modules share a script, a call that has run by itself and   *)
(* answers "success" or "reboot" has done all that it was asked: for every *)
(* module it names, also by "all", the last level asked for is in force in *)
(* its submodules and in the file, whatever overlapping, failed and        *)
(* interrupted calls left behind.  The exceptions are those of the code:   *)
(* a script that failed while dpkg-query failed too, and a level that      *)
(* could not be written, which change no answer                            *)
(* (check_package_installed, module_configure.c:642-671;                   *)
(* config_modules_set_debug_level_internal, 674-714).                      *)
THEOREM SuccessIsDone ==
  NoSharedScripts /\ Spec => SuccessMeansDone
<1>1. Spec => []ForceInv
  BY ForceAlways
<1>2. Spec => []ProgressInv
  BY ProgressAlways
<1> DEFINE Ok == \A a \in Actors : SuccessOk(a)
<1>3. NoSharedScripts /\ Spec => []Ok
  <2> SUFFICES ASSUME NoSharedScripts PROVE Spec => []Ok
    OBVIOUS
  <2>1. Init => Ok
    <3> SUFFICES ASSUME Init, NEW a \in Actors PROVE SuccessOk(a)
      OBVIOUS
    <3>1. act[a].pairs = <<>> /\ ~ InPair(a)
      BY IdleTyped DEF Init, IdleCall, InPair
    <3>2. QED BY <3>1, NothingHeard DEF SuccessOk
  <2>2. ForceInv /\ ProgressInv /\ Ok /\ [Next]_vars => Ok'
    BY SuccessNext DEF SuccessInv
  <2>3. QED BY <1>1, <1>2, <2>1, <2>2, PTL DEF Spec
<1>4. ASSUME ForceInv, ProgressInv, Ok, [Next]_vars, NEW a \in Actors, Succeeds(a), act[a].alone,
             NEW m \in Modules, NEW l \in Asked(a, m)
      PROVE  (m \in unsaved \/ (m \in DOMAIN levels /\ levels[m] = l)) /\ InForce(m, l)
  <2>1. act[a].ok /\ Passed(a) = Counted(a) /\ act[a].pc \in {"logged", "answer"}
    BY <1>4, SucceedsStep DEF Succeeds, Answered
  <2>2. Obeyed(a, m) /\ ~ InPair(a)
    BY <1>4, <2>1 DEF SuccessOk, InPair
  <2>3. Heard(a, m) = {i \in Counted(a) : act[a].pairs[i].name \in {m, All}}
    BY <2>1, <2>2 DEF Heard, Ahead, About
  <2>4. PICK i \in Heard(a, m) :
          l = act[a].pairs[i].level /\ \A k \in Heard(a, m) : k <= i
    BY <1>4, <2>3 DEF Asked
  <2>5. QED BY <2>2, <2>4 DEF Obeyed, Holds
<1>5. ForceInv /\ ProgressInv /\ Ok /\ [Next]_vars =>
        [\A a \in Actors : Succeeds(a) /\ act[a].alone =>
           \A m \in Modules : \A l \in Asked(a, m) :
             /\ m \in unsaved \/ (m \in DOMAIN levels /\ levels[m] = l)
             /\ InForce(m, l)]_vars
  BY <1>4
<1>6. QED BY <1>1, <1>2, <1>3, <1>5, PTL DEF Spec, SuccessMeansDone
=============================================================================
