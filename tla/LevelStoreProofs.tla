-------------------------- MODULE LevelStoreProofs --------------------------
(***************************************************************************)
(* Theorems about LevelStore, for any sets of processes, modules, levels   *)
(* and inodes: type correctness in every deployment, and, for writers that *)
(* do not overlap, that an update of deepin-debug-levels.cfg is atomic.    *)
(***************************************************************************)
EXTENDS LevelStore, SequenceTheorems, WellFoundedInduction, TLAPS

-----------------------------------------------------------------------------
(* Facts about the content of the file.                                    *)

(* A nonempty set of naturals has a least element.                         *)
LEMMA LeastElement ==
  ASSUME NEW S \in SUBSET Nat, S # {}
  PROVE  \E i \in S : \A j \in S : ~ (j < i)
<1>1. PICK x \in S : \A y \in S : ~ (<<y, x>> \in OpToRel(<, Nat))
  BY NatLessThanWellFounded, WFMin
<1>2. QED BY <1>1 DEF OpToRel

(* First denotes a line that has the key, and no line before it has it.    *)
LEMMA FirstProperties ==
  ASSUME NEW s \in Seq(Entry), NEW k \in KeysOf(s)
  PROVE  /\ First(s, k) \in 1 .. Len(s)
         /\ s[First(s, k)].key = k
         /\ \A j \in 1 .. First(s, k) - 1 : s[j].key # k
<1> DEFINE S == {i \in 1 .. Len(s) : s[i].key = k}
<1>1. S \in SUBSET Nat /\ S # {}
  BY DEF KeysOf
<1>2. PICK i \in S : \A j \in S : ~ (j < i)
  BY <1>1, LeastElement
<1>3. i \in 1 .. Len(s) /\ s[i].key = k /\ \A j \in 1 .. i - 1 : s[j].key # k
  BY <1>2
<1>4. QED BY <1>3 DEF First

LEMMA UpdatedType ==
  ASSUME NEW s \in Seq(Entry), NEW e \in Entry
  PROVE  Updated(s, e) \in Seq(Entry)
<1>1. CASE e.key \in KeysOf(s)
  <2>1. [i \in 1 .. Len(s) |-> IF i = First(s, e.key) THEN e ELSE s[i]]
          \in [1 .. Len(s) -> Entry]
    OBVIOUS
  <2>2. QED BY <1>1, <2>1, SeqDef, Len(s) \in Nat DEF Updated
<1>2. CASE e.key \notin KeysOf(s)
  BY <1>2, AppendProperties DEF Updated
<1>3. QED BY <1>1, <1>2

LEMMA LookedUpType ==
  ASSUME NEW s \in Seq(Entry), NEW k
  PROVE  LookedUp(s, k) \in Levels \cup {Error}
<1>1. CASE k \in KeysOf(s)
  <2>1. s[First(s, k)] \in Entry
    BY <1>1, FirstProperties
  <2>2. QED BY <1>1, <2>1 DEF LookedUp, Entry
<1>2. CASE k \notin KeysOf(s)
  BY <1>2 DEF LookedUp
<1>3. QED BY <1>1, <1>2

LEMMA OverlayType ==
  ASSUME NEW s \in Seq(Entry), NEW t \in Seq(Entry)
  PROVE  Overlay(s, t) \in Seq(Entry)
<1>1. SubSeq(t, Len(s) + 1, Len(t)) \in Seq(Entry)
  BY SubSeqProperties, Len(s) \in Nat
<1>2. QED BY <1>1, ConcatProperties DEF Overlay

LEMMA ReachedType ==
  ASSUME NEW s \in Seq(Entry), NEW t \in Reached(s)
  PROVE  t \in Seq(Entry)
BY SubSeqProperties DEF Reached

-----------------------------------------------------------------------------
(* Type correctness.                                                       *)

(* What TypeOK needs besides itself: a step that uses a stream finds it    *)
(* open.                                                                   *)
StreamsOpen ==
  /\ \A w \in Writers : /\ pc[w] \in {"openBak", "copy", "close"} => fpConf[w] \in Inodes
                        /\ pc[w] \in {"copy", "close", "failClose"} => fpBak[w] \in Inodes
  /\ \A r \in Readers : rpc[r] = "read" => fp[r] \in Inodes
TypeInv == TypeOK /\ StreamsOpen

(* How a call that changes nothing may end.                                *)
Abandonments == {"failed", "none"} \cup CopyFails

LEMMA AbandonSteps ==
  ASSUME NEW w \in Writers, Unlink(w) \/ FailToOpen(w) \/ Crash(w)
  PROVE  /\ pc[w] # "idle"
         /\ \E how \in Abandonments : Return(w, how)
         /\ bak' \in {bak, NoInode}
         /\ UNCHANGED <<conf, data, rvars>>
<1>1. CASE Unlink(w)
  BY <1>1 DEF Unlink, Failure, Abandonments
<1>2. CASE FailToOpen(w) \/ Crash(w)
  BY <1>2 DEF FailToOpen, Crash, Abandonments
<1>3. QED BY <1>1, <1>2

LEMMA InitTypeInv == Init => TypeInv
<1> SUFFICES ASSUME Init PROVE TypeInv
  OBVIOUS
<1>1. <<>> \in Seq(Entry)
  OBVIOUS
<1>2. TypeOK
  BY <1>1 DEF Init, TypeOK, Names
<1>3. StreamsOpen
  BY DEF Init, StreamsOpen
<1>4. QED BY <1>2, <1>3 DEF TypeInv

LEMMA WriterTypeInv ==
  ASSUME TypeInv, NEW w \in Writers, Call(w) \/ Modify(w) \/ Crash(w)
  PROVE  TypeInv'
<1> USE DEF TypeInv, TypeOK, StreamsOpen, Names
<1>1. CASE Call(w)
  BY <1>1 DEF Call, rvars
<1>2. CASE Access(w)
  BY <1>2 DEF Access, Goto, rvars
<1>3. CASE Create(w)
  <2>1. <<>> \in Seq(Entry)
    OBVIOUS
  <2>2. QED BY <1>3, <2>1 DEF Create, Goto, Free, rvars
<1>4. CASE OpenConf(w)
  BY <1>4 DEF OpenConf, Goto, rvars
<1>5. CASE OpenBak(w)
  <2>1. <<>> \in Seq(Entry)
    OBVIOUS
  <2>2. QED BY <1>5, <2>1 DEF OpenBak, Goto, Free, rvars
<1>6. CASE CopyLines(w)
  <2>1. Updated(data[fpConf[w]], item[w]) \in Seq(Entry)
    BY <1>6, UpdatedType DEF CopyLines
  <2>2. QED BY <1>6, <2>1 DEF CopyLines, Goto, rvars
<1>7. CASE CloseStreams(w)
  <2>1. PICK s \in Reached(buf[w]) :
          data' = [data EXCEPT ![fpBak[w]] = Overlay(s, data[fpBak[w]])]
    BY <1>7 DEF CloseStreams
  <2>2. Overlay(s, data[fpBak[w]]) \in Seq(Entry)
    BY <1>7, ReachedType, OverlayType DEF CloseStreams
  <2>3. data' \in [Inodes -> Seq(Entry)]
    BY <2>1, <2>2
  <2>4. <<>> \in Seq(Entry)
    OBVIOUS
  <2>5. QED BY <1>7, <2>3, <2>4 DEF CloseStreams, Goto, rvars
<1>8. CASE Rename(w)
  <2>1. <<>> \in Seq(Entry)
    OBVIOUS
  <2>2. QED BY <1>8, <2>1 DEF Rename, Return, rvars
<1>9. CASE RenameFailed(w)
  BY <1>9 DEF RenameFailed, Goto, rvars
<1>10. CASE FailToCopy(w)
  <2> DEFINE u == Updated(data[fpConf[w]], item[w])
  <2>1. PICK n \in 0 .. Len(u) : buf' = [buf EXCEPT ![w] = SubSeq(u, 1, n)]
    BY <1>10 DEF FailToCopy
  <2>2. u \in Seq(Entry)
    BY <1>10, UpdatedType DEF FailToCopy
  <2>3. SubSeq(u, 1, n) \in Seq(Entry)
    BY <2>2, SubSeqProperties
  <2> HIDE DEF u
  <2>4. QED BY <1>10, <2>1, <2>3 DEF FailToCopy, Goto, rvars
<1>11. ASSUME Unlink(w) \/ FailToOpen(w) \/ Crash(w)
       PROVE  TypeInv'
  <2>1. /\ <<>> \in Seq(Entry)
        /\ \E how \in Abandonments : Return(w, how)
        /\ bak' \in {bak, NoInode}
        /\ UNCHANGED <<conf, data, rvars>>
    BY <1>11, AbandonSteps
  <2>2. Abandonments \subseteq {"none", "ok", "failed"}
    BY CopyFailsReturn DEF Abandonments
  <2>3. QED BY <2>1, <2>2 DEF Return, rvars
<1>12. QED
  BY <1>1, <1>2, <1>3, <1>4, <1>5, <1>6, <1>7, <1>8, <1>9, <1>10, <1>11 DEF Modify

LEMMA ReaderTypeInv ==
  ASSUME TypeInv, NEW r \in Readers, Ask(r) \/ Read(r)
  PROVE  TypeInv'
<1> USE DEF TypeInv, TypeOK, StreamsOpen, Names
<1>1. CASE Ask(r)
  BY <1>1 DEF Ask, wvars
<1>2. CASE ReadAccess(r)
  BY <1>2, OffIsALevel DEF ReadAccess, Reply, wvars
<1>3. CASE ReadOpen(r)
  BY <1>3 DEF ReadOpen, Reply, wvars
<1>4. CASE ReadLines(r)
  <2>1. LookedUp(data[fp[r]], wanted[r]) \in Levels \cup {Error}
    BY <1>4, LookedUpType DEF ReadLines
  <2>2. QED BY <1>4, <2>1 DEF ReadLines, Reply, wvars
<1>5. QED
  BY <1>1, <1>2, <1>3, <1>4 DEF Read

LEMMA NextTypeInv == TypeInv /\ [Next]_vars => TypeInv'
<1> SUFFICES ASSUME TypeInv, [Next]_vars PROVE TypeInv'
  OBVIOUS
<1>1. CASE RemoveConf
  BY <1>1 DEF RemoveConf, TypeInv, TypeOK, StreamsOpen, Names, wvars, rvars
<1>2. CASE UNCHANGED vars
  BY <1>2 DEF vars, wvars, rvars, TypeInv, TypeOK, StreamsOpen, Names
<1>3. QED
  BY <1>1, <1>2, WriterTypeInv, ReaderTypeInv DEF Next

(* In every deployment, with overlapping writers, full disks, crashes and  *)
(* upgrades, the variables of LevelStore keep their types.                 *)
THEOREM TypeCorrect == Spec => []TypeOK
<1>1. TypeInv => TypeOK
  BY DEF TypeInv
<1>2. QED
  BY InitTypeInv, NextTypeInv, <1>1, PTL DEF Spec

-----------------------------------------------------------------------------
(* Files that list a module once.                                          *)

LEMMA FirstOfOnce ==
  ASSUME NEW s \in Seq(Entry), KeyOnce(s), NEW i \in 1 .. Len(s)
  PROVE  s[i].key \in KeysOf(s) /\ First(s, s[i].key) = i
<1>1. s[i].key \in KeysOf(s)
  BY DEF KeysOf
<1>2. /\ First(s, s[i].key) \in 1 .. Len(s)
      /\ s[First(s, s[i].key)].key = s[i].key
  BY <1>1, FirstProperties
<1>3. QED BY <1>1, <1>2 DEF KeyOnce

(* Updated, line by line.                                                  *)
LEMMA UpdatedLines ==
  ASSUME NEW s \in Seq(Entry), NEW e \in Entry, KeyOnce(s)
  PROVE  LET u == Updated(s, e) IN
         /\ e.key \in KeysOf(s) =>
              /\ Len(u) = Len(s)
              /\ \A i \in 1 .. Len(s) :
                   u[i] = IF s[i].key = e.key THEN e ELSE s[i]
         /\ e.key \notin KeysOf(s) =>
              /\ Len(u) = Len(s) + 1
              /\ \A i \in 1 .. Len(s) : u[i] = s[i] /\ s[i].key # e.key
              /\ u[Len(s) + 1] = e
<1> DEFINE u == Updated(s, e)
<1>1. Len(s) \in Nat
  OBVIOUS
<1>2. CASE e.key \in KeysOf(s)
  <2>1. u = [i \in 1 .. Len(s) |-> IF i = First(s, e.key) THEN e ELSE s[i]]
    BY <1>2 DEF Updated
  <2>2. u \in Seq(Entry) /\ DOMAIN u = 1 .. Len(u)
    BY UpdatedType, LenProperties
  <2>3. Len(u) = Len(s)
    BY <1>1, <2>1, <2>2
  <2>4. ASSUME NEW i \in 1 .. Len(s)
        PROVE  i = First(s, e.key) <=> s[i].key = e.key
    BY <1>2, FirstProperties, FirstOfOnce
  <2>5. QED BY <1>2, <2>1, <2>3, <2>4
<1>3. CASE e.key \notin KeysOf(s)
  <2>1. u = Append(s, e)
    BY <1>3 DEF Updated
  <2>2. \A i \in 1 .. Len(s) : s[i].key # e.key
    BY <1>3 DEF KeysOf
  <2>3. QED BY <1>3, <2>1, <2>2, AppendProperties
<1>4. QED BY <1>2, <1>3

LEMMA UpdatedOnce ==
  ASSUME NEW s \in Seq(Entry), NEW e \in Entry, KeyOnce(s)
  PROVE  KeyOnce(Updated(s, e))
<1> DEFINE u == Updated(s, e)
<1>1. Len(s) \in Nat
  OBVIOUS
<1>2. CASE e.key \in KeysOf(s)
  <2>1. /\ Len(u) = Len(s)
        /\ \A i \in 1 .. Len(s) : u[i] = IF s[i].key = e.key THEN e ELSE s[i]
    BY <1>2, UpdatedLines
  <2>2. \A i \in 1 .. Len(s) : u[i].key = s[i].key
    BY <2>1
  <2>3. QED BY <2>1, <2>2 DEF KeyOnce
<1>3. CASE e.key \notin KeysOf(s)
  <2>1. /\ Len(u) = Len(s) + 1
        /\ \A i \in 1 .. Len(s) : u[i] = s[i] /\ s[i].key # e.key
        /\ u[Len(s) + 1] = e
    BY <1>3, UpdatedLines
  <2>2. ASSUME NEW i \in 1 .. Len(u), NEW j \in 1 .. Len(u), u[i].key = u[j].key
        PROVE  i = j
    BY <1>1, <2>1, <2>2 DEF KeyOnce
  <2>3. QED BY <2>2 DEF KeyOnce
<1>4. QED BY <1>2, <1>3

(* After an update the item is found, and every other key as before.       *)
LEMMA UpdatedKeys ==
  ASSUME NEW s \in Seq(Entry), NEW e \in Entry, KeyOnce(s)
  PROVE  KeysOf(Updated(s, e)) = KeysOf(s) \cup {e.key}
<1> DEFINE u == Updated(s, e)
<1>1. Len(s) \in Nat
  OBVIOUS
<1>2. CASE e.key \in KeysOf(s)
  <2>1. /\ Len(u) = Len(s)
        /\ \A i \in 1 .. Len(s) : u[i] = IF s[i].key = e.key THEN e ELSE s[i]
    BY <1>2, UpdatedLines
  <2>2. \A i \in 1 .. Len(s) : u[i].key = s[i].key
    BY <2>1
  <2>3. KeysOf(u) = KeysOf(s)
    BY <2>1, <2>2 DEF KeysOf
  <2>4. QED BY <1>2, <2>3
<1>3. CASE e.key \notin KeysOf(s)
  <2>1. /\ Len(u) = Len(s) + 1
        /\ \A i \in 1 .. Len(s) : u[i] = s[i]
        /\ u[Len(s) + 1] = e
    BY <1>3, UpdatedLines
  <2>2. KeysOf(u) = {u[i].key : i \in 1 .. Len(s)} \cup {u[Len(s) + 1].key}
    BY <1>1, <2>1 DEF KeysOf
  <2>3. {u[i].key : i \in 1 .. Len(s)} = KeysOf(s)
    BY <2>1 DEF KeysOf
  <2>4. QED BY <2>1, <2>2, <2>3
<1>4. QED BY <1>2, <1>3

LEMMA UpdatedLookup ==
  ASSUME NEW s \in Seq(Entry), NEW e \in Entry, KeyOnce(s),
         NEW k \in KeysOf(s) \cup {e.key}
  PROVE  LookedUp(Updated(s, e), k) = IF k = e.key THEN e.value ELSE LookedUp(s, k)
<1> DEFINE u == Updated(s, e)
<1>1. u \in Seq(Entry) /\ KeyOnce(u) /\ k \in KeysOf(u) /\ Len(s) \in Nat
  BY UpdatedType, UpdatedOnce, UpdatedKeys
<1>2. SUFFICES ASSUME NEW i \in 1 .. Len(u), u[i].key = k,
                      NEW v, v = (IF k = e.key THEN e.value ELSE LookedUp(s, k)),
                      u[i].value = v
               PROVE  LookedUp(u, k) = v
  <2>1. CASE k = e.key
    <3>1. \E i \in 1 .. Len(u) : u[i] = e
      BY <1>1, UpdatedLines DEF KeysOf
    <3>2. QED BY <1>2, <2>1, <3>1
  <2>2. CASE k # e.key
    <3>1. k \in KeysOf(s)
      BY <2>2
    <3>2. /\ First(s, k) \in 1 .. Len(s)
          /\ s[First(s, k)].key = k
      BY <3>1, FirstProperties
    <3>3. First(s, k) \in 1 .. Len(u) /\ u[First(s, k)] = s[First(s, k)]
      BY <1>1, <2>2, <3>2, UpdatedLines
    <3>4. s[First(s, k)].value = LookedUp(s, k)
      BY <3>1 DEF LookedUp
    <3>5. QED BY <1>2, <2>2, <3>2, <3>3, <3>4
  <2>3. QED BY <2>1, <2>2
<1>3. First(u, k) = i
  BY <1>1, <1>2, FirstOfOnce
<1>4. QED BY <1>1, <1>2, <1>3 DEF LookedUp

(* A write to an empty file leaves what was written.                       *)
LEMMA OverlayEmpty ==
  ASSUME NEW s \in Seq(Entry)
  PROVE  Overlay(s, <<>>) = s
<1>1. <<>> \in Seq(Entry) /\ Len(s) \in Nat /\ Len(<<>>) = 0
  OBVIOUS
<1>2. SubSeq(<<>>, Len(s) + 1, 0) = <<>>
  BY <1>1, SubSeqEmpty
<1>3. s \o <<>> = s
  BY ConcatEmptySeq
<1>4. QED BY <1>1, <1>2, <1>3 DEF Overlay

-----------------------------------------------------------------------------
(* Writers that take turns, on a disk with room, between two upgrades: the *)
(* deployment in which the service is the only one to record levels, or    *)
(* the command line runs while the service has nothing to do.              *)

TakeTurns == ~ Overlap /\ ~ DiskFull /\ ~ Upgrade
Inv == TypeInv /\ StoreInv

LEMMA InitInv == Init => Inv
<1> SUFFICES ASSUME Init PROVE Inv
  OBVIOUS
<1>1. TypeInv
  BY InitTypeInv
<1>2. KeysListedOnce
  BY DEF Init, KeysListedOnce, KeyOnce, Lines
<1>3. StoreInv
  BY <1>2, AnswersDiffer
     DEF Init, StoreInv, OneWriter, ReadsCurrent, WritesBackup, ReadsStable
<1>4. QED BY <1>1, <1>3 DEF Inv

LEMMA WriterInv ==
  ASSUME TakeTurns, Inv, TypeInv', NEW w \in Writers, Call(w) \/ Modify(w) \/ Crash(w)
  PROVE  StoreInv'
<1> USE NoInodeIsNone
    DEF Inv, TypeInv, TypeOK, StreamsOpen, Names, StoreInv, OneWriter, KeysListedOnce,
        Lines, ReadsCurrent, WritesBackup, ReadsStable
<1>1. CASE Call(w)
  BY <1>1 DEF Call, rvars, TakeTurns
<1>2. CASE Access(w)
  BY <1>2 DEF Access, Goto, rvars
<1>3. CASE Create(w)
  <2>1. CASE conf # NoInode
    BY <1>3, <2>1 DEF Create, Goto, rvars
  <2>2. CASE conf = NoInode
    <3>1. PICK i \in Free : conf' = i /\ data' = [data EXCEPT ![i] = <<>>]
      BY <1>3, <2>2 DEF Create
    <3>2. i \in Inodes /\ i # bak /\ \A r \in Readers : i # fp[r]
      BY DEF Free, Open
    <3>3. data'[conf'] = <<>> /\ KeyOnce(<<>>)
      BY <3>1, <3>2 DEF KeyOnce
    <3>4. \A v \in Writers : v # w => pc[v] = "idle"
      BY <1>3 DEF Create
    <3>5. QED BY <1>3, <3>1, <3>2, <3>3, <3>4 DEF Create, Goto, rvars
  <2>3. QED BY <2>1, <2>2
<1>4. CASE OpenConf(w)
  BY <1>4 DEF OpenConf, Goto, rvars
<1>5. CASE OpenBak(w)
  <2>1. PICK i \in IF bak = NoInode THEN Free ELSE {bak} :
          /\ bak' = i
          /\ data' = [data EXCEPT ![i] = <<>>]
          /\ fpBak' = [fpBak EXCEPT ![w] = i]
    BY <1>5 DEF OpenBak
  <2>2. /\ i \in Inodes /\ i # conf
        /\ \A r \in Readers : rpc[r] = "read" => i # fp[r]
    BY <2>1 DEF Free, Open
  <2>3. data'[i] = <<>> /\ \A j \in Inodes : j # i => data'[j] = data[j]
    BY <2>1, <2>2
  <2>4. \A v \in Writers : v # w => pc[v] = "idle"
    BY <1>5 DEF OpenBak
  <2>5. QED BY <1>5, <2>1, <2>2, <2>3, <2>4 DEF OpenBak, Goto, rvars
<1>6. CASE CopyLines(w)
  BY <1>6 DEF CopyLines, Goto, rvars
<1>7. CASE CloseStreams(w)
  <2>1. data' = [data EXCEPT ![bak] = Overlay(buf[w], <<>>)]
    BY <1>7 DEF CloseStreams, Reached, TakeTurns
  <2>2. data' = [data EXCEPT ![bak] = buf[w]]
    <3>1. buf[w] \in Seq(Entry)
      OBVIOUS
    <3>2. Overlay(buf[w], <<>>) = buf[w]
      BY ONLY <3>1, OverlayEmpty
    <3>3. QED BY ONLY <2>1, <3>2
  <2>3. bak \in Inodes /\ (conf # NoInode => conf # bak)
    BY <1>7 DEF CloseStreams
  <2>4. data'[bak] = buf[w] /\ \A i \in Inodes : i # bak => data'[i] = data[i]
    BY <2>2, <2>3
  <2>5. pc[w] = "close" => conf # NoInode /\ buf[w] = Updated(data[conf], item[w])
    OBVIOUS
  <2>6. \A v \in Writers : v # w => pc[v] = "idle"
    BY <1>7 DEF CloseStreams
  <2>7. QED BY <1>7, <2>3, <2>4, <2>5, <2>6 DEF CloseStreams, Goto, rvars
<1>8. CASE Rename(w)
  <2>1. bak # NoInode /\ data[bak] = Updated(data[conf], item[w]) /\ conf # NoInode
    BY <1>8 DEF Rename
  <2>2. KeyOnce(data[bak])
    BY <2>1, UpdatedOnce
  <2>3. /\ conf' = bak /\ bak' = NoInode /\ data' = data
        /\ Return(w, "ok") /\ UNCHANGED rvars
    BY <1>8, <2>1 DEF Rename
  <2>4. \A v \in Writers : pc'[v] = "idle"
    BY <1>8, <2>3 DEF Rename, Return
  <2>5. QED BY <2>1, <2>2, <2>3, <2>4 DEF rvars
<1>9. CASE RenameFailed(w)
  BY <1>9 DEF RenameFailed, Goto, rvars
<1>10. CASE FailToCopy(w)
  BY <1>10 DEF FailToCopy, Goto, rvars
<1>11. ASSUME Unlink(w) \/ FailToOpen(w) \/ Crash(w)
       PROVE  StoreInv'
  <2>1. /\ \E how : Return(w, how)
        /\ bak' \in {bak, NoInode}
        /\ UNCHANGED <<conf, data, rvars>>
        /\ pc[w] # "idle"
    BY <1>11, AbandonSteps
  <2>2. \A v \in Writers : pc'[v] = "idle"
    BY <2>1 DEF Return
  <2>3. QED BY <2>1, <2>2 DEF rvars
<1>12. QED
  BY <1>1, <1>2, <1>3, <1>4, <1>5, <1>6, <1>7, <1>8, <1>9, <1>10, <1>11 DEF Modify

LEMMA ReaderInv ==
  ASSUME Inv, TypeInv', NEW r \in Readers, Ask(r) \/ Read(r)
  PROVE  StoreInv'
<1> USE NoInodeIsNone, AnswersDiffer
    DEF Inv, TypeInv, TypeOK, StreamsOpen, Names, StoreInv, OneWriter, KeysListedOnce,
        Lines, ReadsCurrent, WritesBackup, ReadsStable
<1>1. CASE Ask(r)
  BY <1>1 DEF Ask, wvars
<1>2. CASE ReadAccess(r)
  BY <1>2, OffIsALevel DEF ReadAccess, Reply, wvars
<1>3. CASE ReadOpen(r)
  BY <1>3 DEF ReadOpen, Reply, wvars
<1>4. CASE ReadLines(r)
  <2>1. LookedUp(data[fp[r]], wanted[r]) \in Levels \cup {Error}
    BY <1>4, LookedUpType DEF ReadLines
  <2>2. QED BY <1>4, <2>1 DEF ReadLines, Reply, wvars
<1>5. QED
  BY <1>1, <1>2, <1>3, <1>4 DEF Read

LEMMA NextInv == TakeTurns /\ Inv /\ [Next]_vars => Inv'
<1> SUFFICES ASSUME TakeTurns, Inv, [Next]_vars PROVE Inv'
  OBVIOUS
<1>1. TypeInv'
  BY NextTypeInv DEF Inv
<1>2. CASE UNCHANGED vars
  BY <1>1, <1>2
     DEF vars, wvars, rvars, Inv, StoreInv, OneWriter, KeysListedOnce, Lines,
         ReadsCurrent, WritesBackup, ReadsStable
<1>3. CASE RemoveConf
  BY <1>3 DEF RemoveConf, TakeTurns
<1>4. QED
  BY <1>1, <1>2, <1>3, WriterInv, ReaderInv DEF Next, Inv

LEMMA InvHolds == ASSUME TakeTurns PROVE Spec => []Inv
<1>1. TakeTurns
  OBVIOUS
<1>2. Inv /\ [Next]_vars => Inv'
  BY <1>1, NextInv
<1>3. QED
  BY InitInv, <1>2, PTL DEF Spec

(* Whatever opens, copies and renames fail and wherever a process is       *)
(* killed, the file lists a module once, and the .bak that rename is about *)
(* to put in its place holds the current content with the one item added.  *)
THEOREM StoreInvariant == ASSUME TakeTurns PROVE Spec => []StoreInv
<1>1. Inv => StoreInv
  BY DEF Inv
<1>2. QED BY InvHolds, <1>1, PTL

(* With writers that take turns, and with memory and room for every line   *)
(* (a failure there is one that mod_config returns as 0), a call of        *)
(* modify_debug_levels that returns 0 has put its item into the file       *)
(* (module_configure.c:567-592): what the run with overlapping writers     *)
(* refutes.                                                                *)
THEOREM TurnsRecord ==
  ASSUME TakeTurns, "ok" \notin CopyFails
  PROVE  Spec => SuccessRecorded
<1>a. "ok" \notin CopyFails
  OBVIOUS
<1>1. ASSUME Inv, [Next]_vars, NEW w \in Writers, result[w] # "ok", result'[w] = "ok"
      PROVE  RecordsItem(w)
  <2>1. Rename(w)
    <3>1. ASSUME NEW v \in Writers, Call(v) \/ Modify(v) \/ Crash(v), ~ Rename(v)
          PROVE  result'[w] # "ok"
      <4>1. CASE Unlink(v) \/ FailToOpen(v) \/ Crash(v)
        BY <1>a, <1>1, <4>1, AbandonSteps DEF Abandonments, Inv, TypeInv, TypeOK, Return
      <4>2. CASE ~ (Unlink(v) \/ FailToOpen(v) \/ Crash(v))
        BY <1>1, <3>1, <4>2
           DEF Inv, TypeInv, TypeOK, Call, Modify, Access, Create, OpenConf, OpenBak,
               CopyLines, FailToCopy, CloseStreams, RenameFailed, Goto
      <4>3. QED BY <4>1, <4>2
    <3>2. ASSUME NEW v \in Writers, v # w, Rename(v)
          PROVE  result'[w] # "ok"
      BY <1>1, <3>2 DEF Inv, TypeInv, TypeOK, Rename, Return
    <3>3. ASSUME (\E r \in Readers : Ask(r) \/ Read(r)) \/ RemoveConf \/ UNCHANGED vars
          PROVE  result' = result
      BY <3>3 DEF Ask, Read, ReadAccess, ReadOpen, ReadLines, RemoveConf, vars, wvars
    <3>4. QED BY <1>1, <3>1, <3>2, <3>3 DEF Next
  <2> DEFINE s == data[conf]
             u == Updated(s, item[w])
  <2>2. /\ bak # NoInode /\ data[bak] = u
        /\ s \in Seq(Entry) /\ KeyOnce(s) /\ item[w] \in Entry
    BY <1>1, <2>1
       DEF Inv, TypeInv, TypeOK, StoreInv, ReadsCurrent, WritesBackup, KeysListedOnce, Lines,
           Names, Rename
  <2>3. conf' = bak /\ data' = data /\ item' = item
    BY <2>1, <2>2 DEF Rename, Return
  <2>4. u \in Seq(Entry) /\ KeyOnce(u) /\ item[w].key \in KeysOf(u)
    BY <2>2, UpdatedType, UpdatedOnce, UpdatedKeys
  <2>5. \E i \in 1 .. Len(u) : u[i] = item[w]
    BY <2>2, UpdatedLines DEF KeysOf
  <2>6. u[First(u, item[w].key)] = item[w]
    BY <2>4, <2>5, FirstOfOnce
  <2> HIDE DEF s, u
  <2>7. QED BY <2>2, <2>3, <2>4, <2>6 DEF RecordsItem
<1>2. Inv /\ [Next]_vars =>
        [\A w \in Writers : result[w] # "ok" /\ result'[w] = "ok" => RecordsItem(w)]_vars
  BY <1>1
<1>3. QED BY InvHolds, <1>2, PTL DEF Spec, SuccessRecorded

-----------------------------------------------------------------------------
(* What is left behind.                                                    *)

(* Where mod_config may have a .bak: between the fopen and the rename or   *)
(* unlink.                                                                 *)
Copying == {"copy", "close", "rename", "unlink", "failClose", "failUnlink"}

(* While there is a .bak, some writer is there.                            *)
BakUsed == bak # NoInode => \E w \in Writers : pc[w] \in Copying

LEMMA BakUsedNext ==
  ASSUME ~ Crashes, TypeOK, BakUsed, [Next]_vars
  PROVE  BakUsed'
<1>1. DOMAIN pc = Writers
  BY DEF TypeOK
<1>2. ASSUME NEW w \in Writers,
             \/ OpenBak(w) \/ CopyLines(w) \/ FailToCopy(w)
             \/ CloseStreams(w) \/ RenameFailed(w)
      PROVE  pc'[w] \in Copying
  BY <1>1, <1>2
     DEF OpenBak, CopyLines, FailToCopy, CloseStreams, RenameFailed, Goto, Copying
<1>3. ASSUME NEW w \in Writers, Rename(w) \/ Unlink(w)
      PROVE  bak' = NoInode
  BY <1>3 DEF Rename, Unlink
<1>4. ASSUME NEW w \in Writers,
             Call(w) \/ Access(w) \/ Create(w) \/ OpenConf(w) \/ FailToOpen(w)
      PROVE  BakUsed'
  <2>1. /\ pc[w] \notin Copying /\ bak' = bak
        /\ \A v \in Writers : v # w => pc'[v] = pc[v]
    BY <1>1, <1>4
       DEF Call, Access, Create, OpenConf, FailToOpen, Goto, Return, Copying
  <2>2. QED BY <2>1 DEF BakUsed
<1>5. ASSUME (\E r \in Readers : Ask(r) \/ Read(r)) \/ RemoveConf \/ UNCHANGED vars
      PROVE  UNCHANGED <<bak, pc>>
  BY <1>5 DEF Ask, Read, ReadAccess, ReadOpen, ReadLines, RemoveConf, vars, wvars
<1>6. \A w \in Writers : ~ Crash(w)
  BY DEF Crash
<1>7. QED BY <1>2, <1>3, <1>4, <1>5, <1>6 DEF Next, Modify, BakUsed

(* Where nobody is killed there is no .bak while nobody is inside          *)
(* modify_debug_levels, however many writers overlap and whichever of      *)
(* their opens, copies and renames fail (the rename and the two unlink at  *)
(* the end of mod_config, module_configure.c:548-564).                     *)
THEOREM NothingLeftOver == ASSUME ~ Crashes PROVE Spec => []NoLeftover
<1>1. Init => BakUsed
  BY DEF Init, BakUsed
<1>2. TypeOK /\ BakUsed /\ [Next]_vars => BakUsed'
  BY BakUsedNext
<1>3. BakUsed => NoLeftover
  BY DEF BakUsed, NoLeftover, Copying
<1>4. QED BY <1>1, <1>2, <1>3, TypeCorrect, PTL DEF Spec

-----------------------------------------------------------------------------
(* The file is an atomic map.                                              *)

(* Steps that leave the lines of the current file and of the files being   *)
(* read alone leave the map, and what the readers are told, alone.         *)
LEMMA SameRecorded ==
  ASSUME Lines(conf)' = Lines(conf)
  PROVE  Recorded' = Recorded
BY DEF Recorded

LEMMA SameTold ==
  ASSUME rvars' = rvars, \A r \in Readers : rpc[r] = "read" => data'[fp[r]] = data[fp[r]]
  PROVE  Told' = Told
<1>1. \A r \in Readers :
        (IF rpc[r] = "read" THEN LookedUp(data[fp[r]], wanted[r]) ELSE answer[r])'
          = IF rpc[r] = "read" THEN LookedUp(data[fp[r]], wanted[r]) ELSE answer[r]
  BY DEF rvars
<1>2. QED BY <1>1 DEF Told

LEMMA AbstractInit == Init => Abstract!Init
<1> SUFFICES ASSUME Init PROVE Abstract!Init
  OBVIOUS
<1>1. Recorded = [k \in {} |-> Off]
  <2>1. KeysOf(Lines(conf)) = {}
    BY DEF Init, Lines, KeysOf
  <2>2. QED BY <2>1 DEF Recorded
<1>2. Busy = [w \in Writers |-> FALSE] /\ Told = [r \in Readers |-> Error]
  BY DEF Init, Busy, Told
<1>3. QED BY <1>1, <1>2 DEF Init, Abstract!Init, Abstract!Entry, Entry

(* The steps of a writer before its rename are invisible.                  *)
LEMMA InvisibleSteps ==
  ASSUME TakeTurns, Inv, NEW w \in Writers,
         \/ Access(w) \/ Create(w) \/ OpenConf(w) \/ OpenBak(w) \/ CopyLines(w)
         \/ FailToCopy(w) \/ CloseStreams(w) \/ RenameFailed(w)
  PROVE  UNCHANGED Abstract!vars
<1> USE NoInodeIsNone DEF Inv, TypeInv, TypeOK, StreamsOpen, Names
<1>1. /\ \E l : l # "idle" /\ Goto(w, l)
      /\ pc[w] # "idle"
      /\ UNCHANGED rvars
  BY DEF Access, Create, OpenConf, OpenBak, CopyLines, FailToCopy, CloseStreams, RenameFailed
<1>2. Busy' = Busy /\ UNCHANGED <<item, result>>
  <2>1. \A v \in Writers : (pc'[v] # "idle") = (pc[v] # "idle")
    BY <1>1 DEF Goto
  <2>2. QED BY <1>1, <2>1 DEF Busy, Goto
<1>3. /\ Lines(conf)' = Lines(conf)
      /\ \A r \in Readers : rpc[r] = "read" => data'[fp[r]] = data[fp[r]]
  <2>1. CASE \/ Access(w) \/ OpenConf(w) \/ CopyLines(w)
             \/ FailToCopy(w) \/ RenameFailed(w)
    BY <2>1 DEF Access, OpenConf, CopyLines, FailToCopy, RenameFailed, Lines
  <2>2. CASE Create(w)
    BY <2>2 DEF Create, Lines, Free, Open
  <2>3. CASE OpenBak(w)
    <3>1. PICK i \in IF bak = NoInode THEN Free ELSE {bak} :
            data' = [data EXCEPT ![i] = <<>>]
      BY <2>3 DEF OpenBak
    <3>2. i # conf /\ \A r \in Readers : rpc[r] = "read" => i # fp[r]
      BY DEF Free, Open, StoreInv, ReadsStable
    <3>3. conf' = conf
      BY <2>3 DEF OpenBak
    <3>4. QED BY <3>1, <3>2, <3>3 DEF Lines
  <2>4. CASE CloseStreams(w)
    <3>1. PICK t : data' = [data EXCEPT ![bak] = t]
      BY <2>4 DEF CloseStreams, StoreInv, WritesBackup
    <3>2. conf' = conf /\ bak # NoInode
      BY <2>4 DEF CloseStreams, StoreInv, WritesBackup
    <3>3. bak # conf /\ \A r \in Readers : rpc[r] = "read" => bak # fp[r]
      BY <3>2 DEF StoreInv, ReadsStable
    <3>4. QED BY <3>1, <3>2, <3>3 DEF Lines
  <2>5. QED BY <2>1, <2>2, <2>3, <2>4
<1>4. Recorded' = Recorded /\ Told' = Told
  BY <1>1, <1>3, SameRecorded, SameTold
<1>5. QED BY <1>1, <1>2, <1>4 DEF Abstract!vars, rvars

LEMMA CallRefines ==
  ASSUME Inv, NEW w \in Writers, Call(w)
  PROVE  Abstract!Call(w)
<1> USE DEF Inv, TypeInv, TypeOK
<1>1. Recorded' = Recorded /\ Told' = Told
  BY SameRecorded, SameTold DEF Call, Lines
<1>2. ~ Busy[w] /\ Busy' = [Busy EXCEPT ![w] = TRUE]
  <2>1. pc[w] = "idle" /\ pc' = [pc EXCEPT ![w] = "access"]
    BY DEF Call
  <2>2. QED BY <2>1 DEF Busy
<1>3. QED BY <1>1, <1>2 DEF Call, Abstract!Call, Abstract!Entry, Entry, rvars

(* The writer's state after a return.                                      *)
LEMMA ReturnNotBusy ==
  ASSUME Inv, NEW w \in Writers, NEW how, pc[w] # "idle", Return(w, how)
  PROVE  Busy[w] /\ Busy' = [Busy EXCEPT ![w] = FALSE]
<1>1. pc' = [pc EXCEPT ![w] = "idle"] /\ DOMAIN pc = Writers
  BY DEF Return, Inv, TypeInv, TypeOK
<1>2. QED BY <1>1 DEF Busy

LEMMA AbandonRefines ==
  ASSUME TakeTurns, Inv, NEW w \in Writers, Unlink(w) \/ FailToOpen(w) \/ Crash(w)
  PROVE  Abstract!Abandon(w)
<1>1. /\ \E how \in Abandonments : Return(w, how)
      /\ UNCHANGED <<conf, data, rvars>>
      /\ pc[w] # "idle"
  BY AbandonSteps
<1>2. Recorded' = Recorded /\ Told' = Told
  BY <1>1, SameRecorded, SameTold DEF Lines
<1>3. Busy[w] /\ Busy' = [Busy EXCEPT ![w] = FALSE]
  BY <1>1, ReturnNotBusy
<1>4. QED BY <1>1, <1>2, <1>3 DEF Return, Abandonments, Abstract!Abandon, rvars

(* The rename is the moment at which the item enters the map.              *)
LEMMA RenameRefines ==
  ASSUME TakeTurns, Inv, NEW w \in Writers, Rename(w)
  PROVE  Abstract!Commit(w)
<1> USE DEF Inv, TypeInv, TypeOK, StreamsOpen, Names
<1>1. /\ pc[w] = "rename" /\ bak # NoInode /\ conf # NoInode
      /\ data[bak] = Updated(data[conf], item[w])
  BY DEF Rename, StoreInv, ReadsCurrent, WritesBackup
<1>2. Return(w, "ok") /\ conf' = bak /\ data' = data /\ UNCHANGED rvars
  BY <1>1 DEF Rename
<1>3. Busy[w] /\ Busy' = [Busy EXCEPT ![w] = FALSE]
  BY <1>1, <1>2, ReturnNotBusy
<1>4. Told' = Told
  BY <1>2, SameTold
<1> DEFINE s == data[conf]
           e == item[w]
<1>5. s \in Seq(Entry) /\ e \in Entry /\ KeyOnce(s)
  BY <1>1 DEF StoreInv, KeysListedOnce, Lines
<1>6. Lines(conf) = s /\ Lines(conf)' = Updated(s, e)
  BY <1>1, <1>2, NoInodeIsNone DEF Lines
<1>7. Recorded' = [k \in DOMAIN Recorded \cup {e.key} |->
                     IF k = e.key THEN e.value ELSE Recorded[k]]
  <2>1. KeysOf(Updated(s, e)) = KeysOf(s) \cup {e.key}
    BY <1>5, UpdatedKeys
  <2>2. ASSUME NEW k \in KeysOf(s) \cup {e.key}
        PROVE  LookedUp(Updated(s, e), k) = IF k = e.key THEN e.value ELSE Recorded[k]
    BY <1>5, <1>6, UpdatedLookup DEF Recorded
  <2>3. Recorded' = [k \in KeysOf(Updated(s, e)) |-> LookedUp(Updated(s, e), k)]
    BY <1>6 DEF Recorded
  <2>4. DOMAIN Recorded = KeysOf(s)
    BY <1>6 DEF Recorded
  <2>5. QED BY <2>1, <2>2, <2>3, <2>4
<1>8. QED BY <1>2, <1>3, <1>4, <1>7 DEF Return, Abstract!Commit, rvars

LEMMA AskRefines ==
  ASSUME Inv, NEW r \in Readers, Ask(r)
  PROVE  Abstract!Ask(r)
<1> USE DEF Inv, TypeInv, TypeOK
<1>1. Recorded' = Recorded /\ Busy' = Busy
  BY DEF Ask, Recorded, Lines, Busy, wvars
<1>2. Told[r] # Unanswered
  BY DEF Ask, Told, StoreInv, ReadsStable
<1>3. Told' = [Told EXCEPT ![r] = Unanswered]
  <2>1. \A q \in Readers : Told'[q] = IF q = r THEN Unanswered ELSE Told[q]
    BY DEF Ask, Told
  <2>2. Told' = [q \in Readers |-> Told'[q]] /\ Told = [q \in Readers |-> Told[q]]
    BY DEF Told
  <2>3. QED BY <2>1, <2>2
<1>4. QED BY <1>1, <1>2, <1>3 DEF Ask, Abstract!Ask, wvars

(* A query is answered when it finds no file, opens the file or fails to;  *)
(* reading the lines afterwards adds nothing.                              *)
LEMMA ReadRefines ==
  ASSUME Inv, NEW r \in Readers, Read(r)
  PROVE  Abstract!Answer(r) \/ UNCHANGED Abstract!vars
<1> USE DEF Inv, TypeInv, TypeOK
<1>1. /\ Recorded' = Recorded /\ Busy' = Busy
      /\ UNCHANGED <<item, result, wanted>>
  BY DEF Read, ReadAccess, ReadOpen, ReadLines, Reply, Recorded, Lines, Busy, wvars
<1>2. /\ \A q \in Readers : q # r => Told'[q] = Told[q]
      /\ Told' = [q \in Readers |-> Told'[q]] /\ Told = [q \in Readers |-> Told[q]]
  BY DEF Read, ReadAccess, ReadOpen, ReadLines, Reply, Told
<1>3. CASE ReadLines(r)
  <2>1. Told'[r] = Told[r]
    BY <1>3 DEF ReadLines, Reply, Told
  <2>2. QED BY <1>1, <1>2, <2>1 DEF Abstract!vars
<1>4. CASE ReadAccess(r) /\ conf # NoInode
  <2>1. Told'[r] = Told[r]
    BY <1>4 DEF ReadAccess, Told
  <2>2. QED BY <1>1, <1>2, <2>1 DEF Abstract!vars
<1>5. CASE ReadOpen(r) \/ (ReadAccess(r) /\ conf = NoInode)
  <2>1. Told[r] = Unanswered
    BY <1>5 DEF ReadOpen, ReadAccess, Told, StoreInv, ReadsStable
  <2>2. /\ conf = NoInode => DOMAIN Recorded = {}
        /\ conf # NoInode => \A k : /\ k \in DOMAIN Recorded => LookedUp(data[conf], k) = Recorded[k]
                                    /\ k \notin DOMAIN Recorded => LookedUp(data[conf], k) = Error
    BY DEF Recorded, Lines, KeysOf, LookedUp
  <2>3. Told'[r] \in {Error, IF wanted[r] \in DOMAIN Recorded
                               THEN Recorded[wanted[r]] ELSE Off}
    <3>1. CASE ReadAccess(r) /\ conf = NoInode
      BY <2>2, <3>1 DEF ReadAccess, Reply, Told
    <3>2. CASE ReadOpen(r)
      BY <2>2, <3>2 DEF ReadOpen, Reply, Told, wvars
    <3>3. QED BY <1>5, <3>1, <3>2
  <2>4. Told' = [Told EXCEPT ![r] = Told'[r]]
    BY <1>2
  <2>5. QED BY <1>1, <2>1, <2>3, <2>4 DEF Abstract!Answer
<1>6. QED BY <1>3, <1>4, <1>5 DEF Read

(* For any number of readers, processes that may be killed between any two *)
(* system calls, opens, copies and renames that may fail:                  *)
(* deepin-debug-levels.cfg behaves as a map that each update changes in    *)
(* one step or not at all.                                                 *)
THEOREM StoreIsAtomic == ASSUME TakeTurns PROVE Spec => AtomicStore
<1>1. TakeTurns
  OBVIOUS
<1>2. ASSUME Inv, [Next]_vars
      PROVE  Abstract!Next \/ UNCHANGED Abstract!vars
  <2>1. CASE UNCHANGED vars
    BY <2>1 DEF vars, wvars, rvars, Abstract!vars, Recorded, Lines, Busy, Told
  <2>2. ASSUME NEW w \in Writers, Call(w) \/ Modify(w) \/ Crash(w)
        PROVE  Abstract!Next \/ UNCHANGED Abstract!vars
    <3>1. CASE Call(w)
      BY <1>2, <3>1, CallRefines DEF Abstract!Next
    <3>2. CASE Rename(w)
      BY <1>1, <1>2, <3>2, RenameRefines DEF Abstract!Next
    <3>3. CASE Unlink(w) \/ FailToOpen(w) \/ Crash(w)
      BY <1>1, <1>2, <3>3, AbandonRefines DEF Abstract!Next
    <3>4. CASE \/ Access(w) \/ Create(w) \/ OpenConf(w) \/ OpenBak(w) \/ CopyLines(w)
               \/ FailToCopy(w) \/ CloseStreams(w) \/ RenameFailed(w)
      BY <1>1, <1>2, <3>4, InvisibleSteps
    <3>5. QED BY <2>2, <3>1, <3>2, <3>3, <3>4 DEF Modify
  <2>3. ASSUME NEW r \in Readers, Ask(r) \/ Read(r)
        PROVE  Abstract!Next \/ UNCHANGED Abstract!vars
    BY <1>2, <2>3, AskRefines, ReadRefines DEF Abstract!Next
  <2>4. CASE RemoveConf
    BY <1>1, <2>4 DEF RemoveConf, TakeTurns
  <2>5. QED BY <1>2, <2>1, <2>2, <2>3, <2>4 DEF Next
<1>3. Inv /\ [Next]_vars => [Abstract!Next]_(Abstract!vars)
  BY <1>2
<1>4. QED
  BY AbstractInit, InvHolds, <1>1, <1>3, PTL DEF Spec, AtomicStore, Abstract!Spec
=============================================================================
