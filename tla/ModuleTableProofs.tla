------------------------- MODULE ModuleTableProofs -------------------------
(***************************************************************************)
(* Theorems about ModuleTable, for any files, scripts and texts and any    *)
(* number of upgrades: a table that counts as loaded is whole, its entries *)
(* can be used, and a process that no upgrade overtakes can set every      *)
(* module of its package.                                                  *)
(***************************************************************************)
EXTENDS ModuleTable, TLAPS

-----------------------------------------------------------------------------
(* What a text gives.                                                      *)

AllEntries == UNION {Entries[t] : t \in Texts}
AllSubs == UNION {{e.subs[i] : i \in DOMAIN e.subs} : e \in AllEntries}

LEMMA EntriesOfText ==
  ASSUME NEW t \in Texts
  PROVE  Entries[t] = IF Parses(CJsonParse(t)) THEN {Entry(CJsonParse(t))} ELSE {}
BY Zenon DEF Entries

LEMMA SeqDomain == ASSUME NEW S, NEW s \in Seq(S) PROVE DOMAIN s = 1 .. Len(s) /\ Len(s) \in Nat
OBVIOUS

LEMMA SeqOf ==
  ASSUME NEW S, NEW n \in Nat, NEW f, f = [i \in 1 .. n |-> f[i]], \A i \in 1 .. n : f[i] \in S
  PROVE  f \in Seq(S)
<1>1. f \in [1 .. n -> S]
  OBVIOUS
<1>2. QED BY <1>1

(* An entry lists its scripts in a row, each with a name and a file.       *)
LEMMA EntryGood ==
  ASSUME NEW e \in AllEntries
  PROVE  /\ e.subs \in Seq(AllSubs)
         /\ \A i \in DOMAIN e.subs : IsString(e.subs[i].name) /\ IsString(e.subs[i].exec)
<1>1. PICK t \in Texts : e \in Entries[t]
  BY Zenon DEF AllEntries
<1> DEFINE x == CJsonParse(t)
           subs == Items(Item(x, "submodules"))
<1>2. Parses(x) /\ e = Entry(x)
  <2>1. CASE Parses(CJsonParse(t))
    <3>1. e \in {Entry(CJsonParse(t))}
      BY <1>1, <2>1, EntriesOfText
    <3>2. QED BY <2>1, <3>1, Zenon
  <2>2. CASE ~ Parses(CJsonParse(t))
    <3>1. e \in {}
      BY <1>1, <2>2, EntriesOfText
    <3>2. QED BY <3>1, Zenon
  <2>3. QED BY <2>1, <2>2, Zenon
<1>3. e.subs = [i \in DOMAIN subs |->
                  [name |-> Item(subs[i], "name"), exec |-> Item(subs[i], "exec")]]
  BY <1>2 DEF Entry
<1>4. subs \in Seq({subs[i] : i \in DOMAIN subs})
  BY ItemsInARow, Zenon
<1>5. DOMAIN subs = 1 .. Len(subs) /\ Len(subs) \in Nat
  BY <1>4, SeqDomain, Zenon
<1>6. \A i \in DOMAIN subs : GoodSub(subs[i])
  BY <1>2, Zenon DEF Parses
<1> HIDE DEF subs
<1>7. DOMAIN e.subs = DOMAIN subs
  BY <1>3
<1>8. \A i \in DOMAIN e.subs : e.subs[i] \in AllSubs
  <2>1. {e.subs[i] : i \in DOMAIN e.subs} \subseteq AllSubs
    BY Zenon DEF AllSubs
  <2>2. QED BY <2>1, Zenon
<1>9. e.subs \in Seq(AllSubs)
  <2>1. e.subs = [i \in 1 .. Len(subs) |-> e.subs[i]]
    BY <1>3, <1>5
  <2>2. \A i \in 1 .. Len(subs) : e.subs[i] \in AllSubs
    BY <1>5, <1>7, <1>8, Zenon
  <2>3. QED BY <1>5, <2>1, <2>2, SeqOf, Zenon
<1>10. ASSUME NEW i \in DOMAIN e.subs
       PROVE  IsString(e.subs[i].name) /\ IsString(e.subs[i].exec)
  <2>1. /\ e.subs[i].name = Item(subs[i], "name")
        /\ e.subs[i].exec = Item(subs[i], "exec")
    BY <1>3, <1>7
  <2>2. QED BY <1>6, <1>7, <2>1, Zenon DEF GoodSub
<1>11. QED BY <1>9, <1>10

LEMMA TextsHold ==
  /\ \A v \in Versions, f \in Files : FileText(v, f) \in Texts
  /\ \A other \in Others : other \in Texts
  /\ NoFile \in Texts
<1>1. \A v \in Versions, f \in Files : FileText(v, f) \in Texts
  BY DEF Texts
<1>2. \A other \in Others : other \in Texts
  BY DEF Texts
<1>3. NoFile \in Texts
  BY DEF Texts
<1>4. QED BY <1>1, <1>2, <1>3

(* g_hash_table_insert.                                                    *)
LEMMA InsertNames ==
  ASSUME NEW tab, NEW e
  PROVE  /\ NamesOf(tab) \subseteq NamesOf(Insert(tab, e))
         /\ e.name \in NamesOf(Insert(tab, e))
         /\ \A x \in Insert(tab, e) : x = e \/ (x \in tab /\ x.name # e.name)
BY Zenon DEF NamesOf, Insert

-----------------------------------------------------------------------------
(* Types, and what the table and the scripts to be run are made of.        *)

Asked == [name : Wanted \cup {"none"}, left : Seq(AllSubs)]
Typed == TypeOK /\ dir \in [Files -> Texts] /\ table \subseteq AllEntries /\ asked \in Asked

LEMMA NamesKept ==
  /\ \A f \in Files : Name(f) \in {Name(g) : g \in Files} /\ Name(f)[1] = f /\ Name(f)[2] = ""
  /\ \A f \in Files : Temp(f)[1] = f /\ Temp(f)[2] = "dpkg-new"
  /\ \A f, g \in Files : Name(f) # Temp(g)
BY DEF Name, Temp

LEMMA InitTyped == Init => Typed
<1> SUFFICES ASSUME Init PROVE Typed
  OBVIOUS
<1>1. TypeOK
  <2>1. cur \in {Name(f) : f \in Files}
    BY NamesGiven, Zenon DEF Init
  <2>2. todo \subseteq {Name(f) : f \in Files} \cup {Temp(f) : f \in Files}
    BY Zenon DEF Init
  <2>3. /\ temps \subseteq Files /\ steady \subseteq Files
        /\ libdbg \in Versions /\ installed \in Versions /\ build \in Versions
        /\ upgrades \in 0 .. MaxUpgrades
    BY NamesGiven DEF Init
  <2>4. QED BY <2>1, <2>2, <2>3, Zenon DEF Init, TypeOK
<1>2. dir \in [Files -> Texts]
  <2>1. PICK other \in Others : dir = DirOf(installed, other)
    BY DEF Init
  <2>2. installed \in Versions
    BY DEF Init
  <2>3. QED BY <2>1, <2>2, TextsHold DEF DirOf
<1>3. table \subseteq AllEntries
  BY DEF Init
<1>4. asked \in Asked
  BY DEF Init, Asked
<1>5. QED BY <1>1, <1>2, <1>3, <1>4 DEF Typed

LEMMA TouchedTyped ==
  ASSUME Typed, Touched, dir' \in [Files -> Texts], temps' \subseteq Files,
         libdbg' \in Versions, installed' \in Versions, upgrades' \in 0 .. MaxUpgrades,
         stage' \in {"none", "unpack", "rename"}
  PROVE  Typed'
<1>1. UNCHANGED <<pc, build, todo, cur, table, asked, answer>> /\ steady' \subseteq Files /\ fresh' = FALSE
  BY DEF Touched, process, Typed, TypeOK
<1>2. TypeOK'
  BY <1>1 DEF Typed, TypeOK
<1>3. QED BY <1>1, <1>2, Zenon DEF Typed

LEMMA DpkgTyped == Typed /\ (Upgrade \/ Dpkg) => Typed'
<1> SUFFICES ASSUME Typed, Upgrade \/ Dpkg PROVE Typed'
  OBVIOUS
<1> USE NamesGiven
<1>0. /\ dir \in [Files -> Texts] /\ temps \subseteq Files
      /\ libdbg \in Versions /\ installed \in Versions /\ upgrades \in 0 .. MaxUpgrades
      /\ stage \in {"none", "unpack", "rename"}
  BY DEF Typed, TypeOK
<1>1. CASE Upgrade
  BY <1>0, <1>1, TouchedTyped DEF Upgrade
<1>2. CASE Unpack
  BY <1>0, <1>2, TouchedTyped DEF Unpack, Shipped
<1>3. CASE RenameLibrary
  BY <1>0, <1>3, TouchedTyped DEF RenameLibrary
<1>4. CASE Remove
  BY <1>0, <1>4, TouchedTyped, TextsHold DEF Remove
<1>5. CASE Configure
  BY <1>5 DEF Configure, process, history, Typed, TypeOK
<1>6. ASSUME NEW f \in Files, RenameFile(f) PROVE Typed'
  BY <1>0, <1>6, TouchedTyped, TextsHold DEF RenameFile
<1>7. ASSUME NEW s \in Scripts, RenameScript(s) PROVE Typed'
  BY <1>0, <1>7, TouchedTyped DEF RenameScript
<1>8. QED BY <1>1, <1>2, <1>3, <1>4, <1>5, <1>6, <1>7, Zenon DEF Dpkg

(* The file it is at, when it is opened.                                   *)
LEMMA ParsedGood ==
  ASSUME Typed
  PROVE  /\ cur[1] \in Files /\ cur = Name(cur[1])
         /\ Content(cur) = dir[cur[1]]
         /\ dir[cur[1]] \in Texts
         /\ Parsed \subseteq AllEntries
         /\ Parsed # {} => Parsed = {CHOOSE e \in Parsed : TRUE}
<1>1. PICK f \in Files : cur = Name(f)
  BY DEF Typed, TypeOK
<1>2. cur[1] = f
  BY <1>1, NamesKept
<1>3. dir[f] \in Texts
  BY <1>1 DEF Typed
<1>4. Content(cur) = dir[f]
  BY <1>1, <1>2, NamesKept, Zenon DEF Content
<1>5. Parsed = Entries[dir[f]]
  BY <1>4, Zenon DEF Parsed
<1>6. Parsed = {} \/ \E e : Parsed = {e}
  BY <1>3, <1>5, EntriesOfText, Zenon
<1>7. Parsed \subseteq AllEntries
  BY <1>3, <1>5, Zenon DEF AllEntries
<1>8. Parsed # {} => Parsed = {CHOOSE e \in Parsed : TRUE}
  BY <1>6, Zenon
<1>9. QED BY <1>1, <1>2, <1>3, <1>4, <1>7, <1>8, Zenon

LEMMA ProcessTyped == Typed /\ (Start \/ Load \/ Run \/ Exit) => Typed'
<1> SUFFICES ASSUME Typed, Start \/ Load \/ Run \/ Exit PROVE Typed'
  OBVIOUS
<1>0. UNCHANGED <<dir, temps, libdbg, installed, stage, upgrades>>
  BY DEF Start, Load, Run, Exit, OpenDir, ReadEntry, Parse, Loaded, Ask, RunScript, SetDone, disk
<1>1. CASE Start
  BY <1>0, <1>1 DEF Start, Typed, TypeOK, Present
<1>2. CASE OpenDir
  <2>1. todo' \subseteq {Name(f) : f \in Files} \cup {Temp(f) : f \in Files}
    BY <1>2 DEF OpenDir, Present, Typed, TypeOK
  <2>2. TypeOK'
    BY <1>0, <1>2, <2>1 DEF OpenDir, history, Typed, TypeOK
  <2>3. QED BY <1>0, <1>2, <2>2 DEF OpenDir, Typed
<1>3. CASE ReadEntry
  <2>1. PICK n \in todo :
          /\ todo' = todo \ {n}
          /\ IF ~ Exists(n)
               THEN pc' = "failed" /\ table' = {} /\ UNCHANGED cur
               ELSE IF IsModuleFile(n)
                 THEN pc' = "parse" /\ cur' = n /\ UNCHANGED table
                 ELSE UNCHANGED <<pc, cur, table>>
    BY <1>3 DEF ReadEntry
  <2>2. IsModuleFile(n) => n \in {Name(f) : f \in Files}
    BY NamesKept DEF Typed, TypeOK, IsModuleFile
  <2>3. /\ pc' \in {"failed", "parse", pc} /\ cur' \in {Name(f) : f \in Files}
        /\ table' \subseteq AllEntries
    <3> cur \in {Name(f) : f \in Files} /\ table \subseteq AllEntries
      BY DEF Typed, TypeOK
    <3> QED BY <2>1, <2>2, Zenon
  <2>4. UNCHANGED <<build, asked, answer, was, steady, fresh>>
    BY <1>3 DEF ReadEntry, history
  <2>5. TypeOK'
    BY <1>0, <2>1, <2>3, <2>4 DEF Typed, TypeOK
  <2>6. QED BY <1>0, <2>3, <2>4, <2>5, Zenon DEF Typed
<1>4. CASE Parse
  <2>1. TypeOK'
    BY <1>0, <1>4 DEF Parse, history, Typed, TypeOK
  <2>2. Parsed # {} => (CHOOSE e \in Parsed : TRUE) \in AllEntries
    BY ParsedGood, Zenon
  <2>3. table' \subseteq AllEntries
    <3>1. table' \subseteq table \/ (Parsed # {} /\ table' = Insert(table, CHOOSE e \in Parsed : TRUE))
      BY <1>4, Zenon DEF Parse
    <3>2. QED BY <2>2, <3>1, InsertNames, Zenon DEF Typed
  <2>4. QED BY <1>0, <1>4, <2>1, <2>3, Zenon DEF Parse, Typed
<1>5. CASE Loaded
  BY <1>0, <1>5 DEF Loaded, history, Typed, TypeOK
<1>6. CASE Ask
  <2>1. PICK m \in Wanted :
          IF m \in NamesOf(table)
            THEN /\ asked' = [name |-> m, left |-> (CHOOSE e \in table : e.name = m).subs]
                 /\ pc' = "set"
                 /\ answer' = "none"
            ELSE /\ asked' = [name |-> m, left |-> <<>>]
                 /\ answer' = "unknown"
                 /\ UNCHANGED pc
    BY <1>6 DEF Ask
  <2>2. m \in NamesOf(table) => (CHOOSE e \in table : e.name = m) \in AllEntries
    BY Zenon DEF NamesOf, Typed
  <2>3. asked' \in Asked
    <3>1. m \in NamesOf(table) => (CHOOSE e \in table : e.name = m).subs \in Seq(AllSubs)
      BY <2>2, EntryGood, Zenon
    <3>2. <<>> \in Seq(AllSubs)
      OBVIOUS
    <3>3. \E l \in Seq(AllSubs) : asked' = [name |-> m, left |-> l]
      BY <2>1, <3>1, <3>2, Zenon
    <3>4. QED BY <3>3 DEF Asked
  <2>4. TypeOK'
    BY <1>0, <1>6, <2>1 DEF Ask, history, Typed, TypeOK
  <2>5. QED BY <1>0, <1>6, <2>3, <2>4 DEF Ask, Typed
<1>7. CASE RunScript
  <2>1. TypeOK'
    BY <1>0, <1>7 DEF RunScript, history, Typed, TypeOK
  <2>2. asked.left \in Seq(AllSubs) /\ asked.left # <<>>
    BY <1>7 DEF RunScript, Typed, Asked
  <2>3. Tail(asked.left) \in Seq(AllSubs)
    BY <2>2
  <2>4. asked' \in Asked
    BY <1>7, <2>3 DEF RunScript, Typed, Asked
  <2>5. QED BY <1>0, <1>7, <2>1, <2>4, Zenon DEF RunScript, Typed
<1>8. CASE SetDone
  BY <1>0, <1>8 DEF SetDone, history, Typed, TypeOK
<1>9. CASE Exit
  <2>1. asked' \in Asked
    BY <1>9 DEF Exit, Asked
  <2>2. QED BY <1>0, <1>9, <2>1 DEF Exit, Typed, TypeOK
<1>10. QED BY <1>1, <1>2, <1>3, <1>4, <1>5, <1>6, <1>7, <1>8, <1>9 DEF Load, Run

LEMMA FaultTyped == Typed /\ Fault => Typed'
<1> SUFFICES ASSUME Typed, Fault PROVE Typed'
  OBVIOUS
<1>1. /\ UNCHANGED <<build, todo, cur, table, asked, answer, disk>>
      /\ pc' \in {"failed", "scan"} /\ steady' \subseteq steady /\ fresh' = FALSE
  BY DEF Fault, OpenDirFails, ParseFails
<1>2. QED BY <1>1 DEF disk, Typed, TypeOK

LEMMA NextTyped == Typed /\ [Next]_vars => Typed'
<1>1. Typed /\ UNCHANGED vars => Typed'
  BY DEF vars, disk, process, history, Typed, TypeOK
<1>2. QED BY <1>1, DpkgTyped, ProcessTyped, FaultTyped, Zenon DEF Next

LEMMA AlwaysTyped == Spec => []Typed
<1>1. QED BY InitTyped, NextTyped, PTL DEF Spec

(* Every variable keeps its type, whatever dpkg does beside the process    *)
(* (init_module_cfgs, exec_debug_shell_cmd_internal).                      *)
THEOREM TypeCorrect == Spec => []TypeOK
<1>1. Typed => TypeOK
  BY DEF Typed
<1>2. QED BY <1>1, AlwaysTyped, PTL

(* The entries of the table are complete, also while it is being read and  *)
(* while files of several versions lie side by side                        *)
(* (parse_hook_json_file, module_configure.c:968-1079).                    *)
THEOREM EntriesUsable == Spec => []Usable
<1>1. Typed => Usable
  BY EntryGood, Zenon DEF Typed, Usable
<1>2. QED BY <1>1, AlwaysTyped, PTL

-----------------------------------------------------------------------------
(* The loop over the directory.  A file that has been there all the time   *)
(* is still to be read, or it could not be used at some time, or a text it *)
(* had at some time is in the table.                                       *)

Waiting(f) == Name(f) \in todo \/ (pc = "parse" /\ cur = Name(f))
Unusable(f) == \E w \in was : w[1] = f /\ Entries[w[2]] = {}
Taken(f) == \E w \in was : w[1] = f /\ NamesOf(Entries[w[2]]) \subseteq NamesOf(table)
Loading == {"scan", "parse", "ready", "set"}

Seen == pc # "off" => \A f \in Present(dir) : <<f, dir[f]>> \in was
StaysThere == steady \subseteq Present(dir)
FromFiles == \A e \in table : \E w \in was : w[1] \in Json /\ e \in Entries[w[2]]
OneOfEach == \A e1, e2 \in table : e1.name = e2.name => e1 = e2
NoneLost == pc \in Loading => \A f \in steady \cap Json : Waiting(f) \/ Unusable(f) \/ Taken(f)
Stages ==
  /\ pc = "parse" => cur[1] \in Json
  /\ pc \in {"off", "open", "failed"} => table = {}
  /\ pc \in {"ready", "set"} => todo = {}
LoadInv == Seen /\ StaysThere /\ FromFiles /\ OneOfEach /\ NoneLost /\ Stages

LEMMA InitLoad == Init => LoadInv
<1> SUFFICES ASSUME Init PROVE LoadInv
  OBVIOUS
<1>1. pc = "off" /\ table = {} /\ steady = {}
  BY DEF Init
<1>2. QED BY <1>1 DEF LoadInv, Seen, StaysThere, FromFiles, OneOfEach, NoneLost, Stages, Loading

(* What dpkg does to the disk adds to what the process may see.            *)
LEMMA TouchedLoad == LoadInv /\ Touched => LoadInv'
<1> SUFFICES ASSUME LoadInv, Touched PROVE LoadInv'
  OBVIOUS
<1>1. /\ UNCHANGED <<pc, todo, cur, table>>
      /\ was \subseteq was'
      /\ pc # "off" => \A f \in Present(dir') : <<f, dir'[f]>> \in was'
      /\ steady' \subseteq steady /\ steady' \subseteq Present(dir')
  BY DEF Touched, process
<1>2. Seen' /\ StaysThere'
  BY <1>1, Zenon DEF Seen, StaysThere, Present
<1>3. FromFiles'
  BY <1>1, Zenon DEF FromFiles, LoadInv
<1>4. OneOfEach' /\ Stages'
  BY <1>1, Zenon DEF OneOfEach, Stages, LoadInv
<1>5. NoneLost'
  <2> SUFFICES ASSUME pc \in Loading, NEW f \in steady \cap Json
               PROVE  (Waiting(f) \/ Unusable(f) \/ Taken(f))'
    BY <1>1, Zenon DEF NoneLost
  <2>1. Waiting(f) \/ Unusable(f) \/ Taken(f)
    BY Zenon DEF NoneLost, LoadInv
  <2>2. Waiting(f) => Waiting(f)'
    BY <1>1, Zenon DEF Waiting
  <2>3. Unusable(f) => Unusable(f)'
    BY <1>1, Zenon DEF Unusable
  <2>4. Taken(f) => Taken(f)'
    BY <1>1, Zenon DEF Taken
  <2>5. QED BY <2>1, <2>2, <2>3, <2>4
<1>6. QED BY <1>2, <1>3, <1>4, <1>5, Zenon DEF LoadInv

LEMMA DpkgLoad == LoadInv /\ (Upgrade \/ Dpkg) => LoadInv'
<1> SUFFICES ASSUME LoadInv, Upgrade \/ Dpkg PROVE LoadInv'
  OBVIOUS
<1>1. CASE Touched
  BY <1>1, TouchedLoad
<1>2. CASE Configure
  <2>1. UNCHANGED <<dir, pc, todo, cur, table, was, steady>>
    BY <1>2 DEF Configure, process, history
  <2>2. QED
    BY <2>1, Zenon DEF LoadInv, Seen, StaysThere, FromFiles, OneOfEach, NoneLost, Stages,
       Waiting, Unusable, Taken
<1>3. Touched \/ Configure
  BY Zenon DEF Dpkg, Upgrade, Unpack, RenameLibrary, Remove, RenameFile, RenameScript
<1>4. QED BY <1>1, <1>2, <1>3

(* A step that leaves the table and what is known of the directory alone.  *)
LEMMA QuietLoad ==
  ASSUME LoadInv, UNCHANGED <<dir, table, was, steady>>,
         pc' \in {"ready", "set"}, pc \in {"ready", "set"} \/ (pc = "scan" /\ todo = {}),
         todo' = todo
  PROVE  LoadInv'
<1>1. Seen' /\ StaysThere'
  BY Zenon DEF Seen, StaysThere, LoadInv
<1>2. FromFiles' /\ OneOfEach'
  BY Zenon DEF FromFiles, OneOfEach, LoadInv
<1>3. todo = {} /\ pc \in Loading /\ pc # "parse"
  BY DEF Stages, LoadInv, Loading
<1>4. Stages'
  BY <1>3 DEF Stages
<1>5. NoneLost'
  <2> SUFFICES ASSUME NEW f \in steady \cap Json PROVE (Unusable(f) \/ Taken(f))'
    BY Zenon DEF NoneLost
  <2>1. Waiting(f) \/ Unusable(f) \/ Taken(f)
    BY <1>3, Zenon DEF NoneLost, LoadInv
  <2>2. ~ Waiting(f)
    BY <1>3 DEF Waiting
  <2>3. QED BY <2>1, <2>2, Zenon DEF Unusable, Taken
<1>6. QED BY <1>1, <1>2, <1>4, <1>5, Zenon DEF LoadInv

(* parse_hook_json_file and the insertion.                                 *)
LEMMA ParseLoad == Typed /\ LoadInv /\ Parse => LoadInv'
<1> SUFFICES ASSUME Typed, LoadInv, Parse PROVE LoadInv'
  OBVIOUS
<1> DEFINE c == cur[1]
           new == CHOOSE e \in Parsed : TRUE
<1>1. /\ pc = "parse" /\ pc' = "scan" /\ UNCHANGED <<dir, todo, cur, was, steady>>
      /\ table' = IF Parsed = {} THEN table ELSE Insert(table, new)
  BY DEF Parse, disk, history
<1>2. cur = Name(c) /\ Parsed = Entries[dir[c]] /\ c \in Files /\ c \in Json
      /\ (Parsed # {} => Parsed = {new})
  BY <1>1, ParsedGood, Zenon DEF Parsed, LoadInv, Stages
<1>3. dir[c] # NoFile => <<c, dir[c]>> \in was
  BY <1>1, <1>2 DEF LoadInv, Seen, Present
<1>4. Parsed # {} => dir[c] # NoFile
  BY <1>2, NothingUsable, Zenon
<1> HIDE DEF new
<1>5. Seen' /\ StaysThere' /\ Stages'
  BY <1>1 DEF LoadInv, Seen, StaysThere, Stages
<1>6. \A e \in table' : e \in table \/ (Parsed # {} /\ e = new)
  BY <1>1, InsertNames, Zenon
<1>7. NamesOf(table) \subseteq NamesOf(table') /\ (Parsed # {} => new.name \in NamesOf(table'))
  BY <1>1, InsertNames, Zenon
<1>8. FromFiles'
  <2> SUFFICES ASSUME NEW e \in table'
               PROVE  \E w \in was : w[1] \in Json /\ e \in Entries[w[2]]
    BY <1>1, Zenon DEF FromFiles
  <2>1. CASE e \in table
    BY <2>1, Zenon DEF LoadInv, FromFiles
  <2>2. CASE Parsed # {} /\ e = new
    <3>1. e \in Entries[dir[c]]
      BY <1>2, <2>2
    <3>2. <<c, dir[c]>>[1] = c /\ <<c, dir[c]>>[2] = dir[c]
      OBVIOUS
    <3>3. QED BY <1>2, <1>3, <1>4, <2>2, <3>1, <3>2, Zenon
  <2>3. QED BY <1>6, <2>1, <2>2, Zenon
<1>9. OneOfEach'
  <2>1. OneOfEach
    BY DEF LoadInv
  <2>2. \A e \in Insert(table, new) : e = new \/ (e \in table /\ e.name # new.name)
    BY InsertNames, Zenon
  <2>3. QED BY <1>1, <2>1, <2>2, Zenon DEF OneOfEach
<1>10. NoneLost'
  <2> SUFFICES ASSUME NEW f \in steady \cap Json
               PROVE  (Waiting(f) \/ Unusable(f) \/ Taken(f))'
    BY <1>1, Zenon DEF NoneLost
  <2>1. Waiting(f) \/ Unusable(f) \/ Taken(f)
    BY <1>1 DEF NoneLost, LoadInv, Loading
  <2>2. Unusable(f) => Unusable(f)'
    BY <1>1, Zenon DEF Unusable
  <2>3. Taken(f) => Taken(f)'
    BY <1>1, <1>7, Zenon DEF Taken
  <2>4. Name(f) \in todo => Waiting(f)'
    BY <1>1, Zenon DEF Waiting
  <2>5. CASE cur = Name(f)
    <3>1. c = f
      BY <1>2, <2>5 DEF Name
    <3>2. dir[f] # NoFile /\ <<f, dir[f]>> \in was
      BY <1>3, <3>1 DEF LoadInv, StaysThere, Present
    <3>3. <<f, dir[f]>>[1] = f /\ <<f, dir[f]>>[2] = dir[f]
      OBVIOUS
    <3>4. CASE Parsed = {}
      BY <1>1, <1>2, <3>1, <3>2, <3>3, <3>4, Zenon DEF Unusable
    <3>5. CASE Parsed # {}
      <4>1. NamesOf(Entries[dir[f]]) \subseteq NamesOf(table')
        BY <1>2, <1>7, <3>1, <3>5 DEF NamesOf
      <4>2. QED BY <1>1, <3>2, <3>3, <4>1, Zenon DEF Taken
    <3>6. QED BY <3>4, <3>5
  <2>6. QED BY <2>1, <2>2, <2>3, <2>4, <2>5, Zenon DEF Waiting
<1>11. QED BY <1>5, <1>8, <1>9, <1>10, Zenon DEF LoadInv

LEMMA ProcessLoad == Typed /\ LoadInv /\ (Start \/ Load \/ Run \/ Exit) => LoadInv'
<1> SUFFICES ASSUME Typed, LoadInv, Start \/ Load \/ Run \/ Exit PROVE LoadInv'
  OBVIOUS
<1>1. CASE Start
  <2>1. /\ pc' = "open" /\ table' = {} /\ dir' = dir /\ steady' = Present(dir)
        /\ was' = {<<f, dir[f]>> : f \in Present(dir)}
    BY <1>1 DEF Start, disk
  <2>2. Seen' /\ StaysThere'
    BY <2>1 DEF Seen, StaysThere
  <2>3. FromFiles' /\ OneOfEach' /\ NoneLost' /\ Stages'
    BY <2>1 DEF FromFiles, OneOfEach, NoneLost, Stages, Loading
  <2>4. QED BY <2>2, <2>3 DEF LoadInv
<1>2. CASE OpenDir
  <2>1. /\ pc = "open" /\ pc' = "scan" /\ UNCHANGED <<dir, table, was, steady>>
        /\ \A f \in Present(dir) : Name(f) \in todo'
    BY <1>2 DEF OpenDir, disk, history
  <2>2. table = {}
    BY <2>1 DEF LoadInv, Stages
  <2>3. Seen' /\ StaysThere'
    BY <2>1 DEF LoadInv, Seen, StaysThere
  <2>4. FromFiles' /\ OneOfEach' /\ Stages'
    BY <2>1, <2>2 DEF FromFiles, OneOfEach, Stages
  <2>5. NoneLost'
    BY <2>1, Zenon DEF NoneLost, Waiting, LoadInv, StaysThere
  <2>6. QED BY <2>3, <2>4, <2>5 DEF LoadInv
<1>3. CASE ReadEntry
  <2>1. /\ pc = "scan" /\ UNCHANGED <<dir, was, steady>>
        /\ \E n \in todo :
             /\ todo' = todo \ {n}
             /\ IF ~ Exists(n)
                  THEN pc' = "failed" /\ table' = {} /\ UNCHANGED cur
                  ELSE IF IsModuleFile(n)
                    THEN pc' = "parse" /\ cur' = n /\ UNCHANGED table
                    ELSE UNCHANGED <<pc, cur, table>>
    BY <1>3 DEF ReadEntry, disk, history
  <2>2. PICK n \in todo :
          /\ todo' = todo \ {n}
          /\ IF ~ Exists(n)
               THEN pc' = "failed" /\ table' = {} /\ UNCHANGED cur
               ELSE IF IsModuleFile(n)
                 THEN pc' = "parse" /\ cur' = n /\ UNCHANGED table
                 ELSE UNCHANGED <<pc, cur, table>>
    BY <2>1
  <2>3. Seen' /\ StaysThere'
    BY <2>1 DEF LoadInv, Seen, StaysThere
  <2>4. table' \subseteq table
    BY <2>2
  <2>5. FromFiles' /\ OneOfEach'
    BY <2>1, <2>4, Zenon DEF LoadInv, FromFiles, OneOfEach
  <2>6. Stages'
    BY <2>1, <2>2 DEF Stages, IsModuleFile
  <2>7. NoneLost'
    <3> SUFFICES ASSUME pc' # "failed", NEW f \in steady \cap Json
                 PROVE  (Waiting(f) \/ Unusable(f) \/ Taken(f))'
      BY <2>1 DEF NoneLost, Loading
    <3>1. Waiting(f) \/ Unusable(f) \/ Taken(f)
      BY <2>1 DEF NoneLost, LoadInv, Loading
    <3>2. table' = table
      BY <2>2
    <3>3. Unusable(f) => Unusable(f)'
      BY <2>1, Zenon DEF Unusable
    <3>4. Taken(f) => Taken(f)'
      BY <2>1, <3>2, Zenon DEF Taken
    <3>5. ASSUME Waiting(f), Name(f) = n PROVE Waiting(f)'
      <4>1. IsModuleFile(n)
        BY <3>5 DEF IsModuleFile, Name
      <4>2. QED BY <2>2, <3>5, <4>1 DEF Waiting
    <3>6. ASSUME Waiting(f), Name(f) # n PROVE Waiting(f)'
      BY <2>1, <2>2, <3>6 DEF Waiting
    <3>7. QED BY <3>1, <3>3, <3>4, <3>5, <3>6
  <2>8. QED BY <2>3, <2>5, <2>6, <2>7 DEF LoadInv
<1>4. CASE Parse
  BY <1>4, ParseLoad
<1>5. CASE Loaded
  BY <1>5, QuietLoad DEF Loaded, disk, history
<1>6. CASE Ask
  BY <1>6, QuietLoad DEF Ask, disk, history
<1>7. CASE RunScript
  BY <1>7, QuietLoad DEF RunScript, disk, history
<1>8. CASE SetDone
  BY <1>8, QuietLoad DEF SetDone, disk, history
<1>9. CASE Exit
  <2>1. pc' = "off" /\ table' = {} /\ steady' = {}
    BY <1>9 DEF Exit
  <2>2. QED BY <2>1 DEF LoadInv, Seen, StaysThere, FromFiles, OneOfEach, NoneLost, Stages, Loading
<1>10. QED BY <1>1, <1>2, <1>3, <1>4, <1>5, <1>6, <1>7, <1>8, <1>9, Zenon DEF Load, Run

(* A file that could not be read is no longer counted as steady.           *)
LEMMA FaultLoad == LoadInv /\ Fault => LoadInv'
<1> SUFFICES ASSUME LoadInv, Fault PROVE LoadInv'
  OBVIOUS
<1>1. CASE OpenDirFails
  <2>1. /\ pc = "open" /\ pc' = "failed" /\ UNCHANGED <<dir, table, was, steady>>
    BY <1>1 DEF OpenDirFails, disk
  <2>2. table = {}
    BY <2>1 DEF LoadInv, Stages
  <2>3. Seen' /\ StaysThere'
    BY <2>1 DEF LoadInv, Seen, StaysThere
  <2>4. FromFiles' /\ OneOfEach' /\ Stages' /\ NoneLost'
    BY <2>1, <2>2 DEF FromFiles, OneOfEach, Stages, NoneLost, Loading
  <2>5. QED BY <2>3, <2>4 DEF LoadInv
<1>2. CASE ParseFails
  <2>1. /\ pc = "parse" /\ pc' = "scan" /\ steady' = steady \ {cur[1]}
        /\ UNCHANGED <<dir, todo, cur, table, was>>
    BY <1>2 DEF ParseFails, disk
  <2>2. Seen' /\ StaysThere' /\ Stages'
    BY <2>1 DEF LoadInv, Seen, StaysThere, Stages, Present
  <2>3. FromFiles' /\ OneOfEach'
    BY <2>1, Zenon DEF LoadInv, FromFiles, OneOfEach
  <2>4. ASSUME NEW f \in steady \cap Json, f # cur[1]
        PROVE  (Waiting(f) \/ Unusable(f) \/ Taken(f))'
    <3>1. Waiting(f) \/ Unusable(f) \/ Taken(f)
      BY <2>1 DEF LoadInv, NoneLost, Loading
    <3>2. cur # Name(f)
      <4>1. Name(f)[1] = f
        BY DEF Name
      <4>2. QED BY <2>4, <4>1, Zenon
    <3>3. Unusable(f) => Unusable(f)'
      BY <2>1, Zenon DEF Unusable
    <3>4. Taken(f) => Taken(f)'
      BY <2>1, Zenon DEF Taken
    <3>5. Waiting(f) => Waiting(f)'
      BY <2>1, <3>2, Zenon DEF Waiting
    <3>6. QED BY <3>1, <3>3, <3>4, <3>5
  <2>5. NoneLost'
    <3> SUFFICES ASSUME NEW f \in steady' \cap Json
                 PROVE  (Waiting(f) \/ Unusable(f) \/ Taken(f))'
      BY Zenon DEF NoneLost
    <3>1. f \in steady \cap Json /\ f # cur[1]
      BY <2>1
    <3>2. QED BY <2>4, <3>1
  <2>6. QED BY <2>2, <2>3, <2>5 DEF LoadInv
<1>3. QED BY <1>1, <1>2 DEF Fault

LEMMA NextLoad == Typed /\ LoadInv /\ [Next]_vars => LoadInv'
<1>1. LoadInv /\ UNCHANGED vars => LoadInv'
  BY DEF vars, disk, process, history, LoadInv, Seen, StaysThere, FromFiles, OneOfEach, NoneLost,
     Stages, Waiting, Unusable, Taken
<1>2. QED BY <1>1, DpkgLoad, ProcessLoad, FaultLoad, Zenon DEF Next

LEMMA AlwaysLoad == Spec => []LoadInv
<1>1. QED BY InitLoad, NextLoad, AlwaysTyped, PTL DEF Spec

LEMMA LoadInvWhole == LoadInv => LoadedWhole
<1> SUFFICES ASSUME LoadInv, pc \in {"ready", "set"} PROVE LoadedWhole
  BY DEF LoadedWhole
<1>1. todo = {} /\ pc \in Loading /\ pc # "parse"
  BY DEF LoadInv, Stages, Loading
<1>2. \A f \in steady \cap Json : Unusable(f) \/ Taken(f)
  BY <1>1 DEF LoadInv, NoneLost, Waiting
<1>3. QED BY <1>2, Zenon DEF LoadedWhole, LoadInv, FromFiles, OneOfEach, Unusable, Taken

(* However dpkg's renames and removals fall between the steps of readdir,  *)
(* lstat and open, a table that counts as loaded has every usable file     *)
(* that was there all the time and could be read, nothing that was in no   *)
(* file, and no name twice (init_module_cfgs, module_configure.c:52-109).  *)
THEOREM TableIsWhole == Spec => []LoadedWhole
<1>1. QED BY LoadInvWhole, AlwaysLoad, PTL

-----------------------------------------------------------------------------
(* What is on the disk when dpkg is done, and what it has done so far when *)
(* it is not.                                                              *)

DiskInv ==
  /\ scripts = [s \in Scripts |-> scripts[s]]
  /\ dir[Other] \in Others
  /\ stage = "none" =>
       /\ temps = {}
       /\ libdbg = installed
       /\ \A s \in Scripts : scripts[s] = ScriptText(installed, s)
       /\ \A f \in Files \ {Other} : dir[f] = FileText(installed, f)
  /\ stage = "rename" =>
       temps \subseteq Shipped /\ \A f \in Shipped \ temps : dir[f] = FileText(installed, f)

LEMMA InitDisk == Init => DiskInv
<1> SUFFICES ASSUME Init PROVE DiskInv
  OBVIOUS
<1>1. PICK other \in Others : dir = DirOf(installed, other)
  BY DEF Init
<1>2. dir[Other] \in Others /\ \A f \in Files \ {Other} : dir[f] = FileText(installed, f)
  BY <1>1, NamesGiven DEF DirOf
<1>3. QED BY <1>2 DEF Init, DiskInv

(* What is shipped is not somebody else's.                                 *)
LEMMA OtherNotShipped == Typed => Other \notin Shipped
BY OthersOwn DEF Typed, TypeOK, Shipped

LEMMA DpkgDisk == Typed /\ DiskInv /\ (Upgrade \/ Dpkg) => DiskInv'
<1> SUFFICES ASSUME Typed, DiskInv, Upgrade \/ Dpkg PROVE DiskInv'
  OBVIOUS
<1>0. dir \in [Files -> Texts] /\ Other \notin Shipped
  BY OtherNotShipped DEF Typed
<1>1. CASE Upgrade
  BY <1>1 DEF Upgrade, DiskInv
<1>2. CASE Unpack
  <2>1. Shipped' = Shipped
    BY <1>2 DEF Unpack, Shipped
  <2>2. QED BY <1>2, <2>1 DEF Unpack, DiskInv
<1>3. CASE RenameLibrary
  <2>1. Shipped' = Shipped
    BY <1>3 DEF RenameLibrary, Shipped
  <2>2. QED BY <1>3, <2>1 DEF RenameLibrary, DiskInv
<1>4. CASE Remove
  <2>1. /\ stage = "rename" /\ UNCHANGED <<temps, libdbg, installed, stage>> /\ temps = {}
        /\ \/ \E f \in Present(dir) \ (Shipped \cup {Other}) :
                dir' = [dir EXCEPT ![f] = NoFile] /\ UNCHANGED scripts
           \/ \E s \in Scripts : scripts' = [scripts EXCEPT ![s] = NoFile] /\ UNCHANGED dir
    BY <1>4 DEF Remove, InPlace
  <2>2. Shipped' = Shipped
    BY <2>1 DEF Shipped
  <2>3. ASSUME NEW f \in Present(dir) \ (Shipped \cup {Other}),
               dir' = [dir EXCEPT ![f] = NoFile], UNCHANGED scripts
        PROVE  DiskInv'
    <3>1. \A g \in Shipped \cup {Other} : dir'[g] = dir[g]
      BY <1>0, <2>3
    <3>2. QED BY <2>1, <2>2, <2>3, <3>1 DEF DiskInv
  <2>4. ASSUME NEW s \in Scripts, scripts' = [scripts EXCEPT ![s] = NoFile], UNCHANGED dir
        PROVE  DiskInv'
    <3>1. scripts' = [r \in Scripts |-> scripts'[r]]
      BY <2>4 DEF DiskInv
    <3>2. QED BY <2>1, <2>2, <2>4, <3>1 DEF DiskInv
  <2>5. QED BY <2>1, <2>3, <2>4
<1>5. CASE Configure
  <2>1. /\ stage = "rename" /\ stage' = "none" /\ InPlace
        /\ Present(dir) \subseteq Shipped \cup {Other}
        /\ \A s \in Scripts : ScriptText(installed, s) = NoFile => scripts[s] = NoFile
        /\ UNCHANGED <<dir, temps, scripts, libdbg, installed>>
    BY <1>5 DEF Configure
  <2>2. \A s \in Scripts : scripts[s] = ScriptText(installed, s)
    BY <2>1 DEF InPlace
  <2>3. ASSUME NEW f \in Files \ {Other} PROVE dir[f] = FileText(installed, f)
    <3>1. CASE f \in Shipped
      BY <2>1, <3>1 DEF InPlace, DiskInv
    <3>2. CASE f \notin Shipped
      BY <2>1, <3>2 DEF Present, Shipped
    <3>3. QED BY <3>1, <3>2
  <2>4. QED BY <2>1, <2>2, <2>3 DEF InPlace, DiskInv
<1>6. ASSUME NEW f \in Files, RenameFile(f) PROVE DiskInv'
  <2>1. /\ stage = "rename" /\ f \in temps /\ temps' = temps \ {f}
        /\ dir' = [dir EXCEPT ![f] = FileText(installed, f)]
        /\ UNCHANGED <<scripts, libdbg, installed, stage>>
    BY <1>6 DEF RenameFile
  <2>2. Shipped' = Shipped
    BY <2>1 DEF Shipped
  <2>3. f # Other
    BY <1>0, <2>1 DEF DiskInv
  <2>4. dir'[f] = FileText(installed, f) /\ \A g \in Files \ {f} : dir'[g] = dir[g]
    BY <1>0, <2>1
  <2>5. dir'[Other] = dir[Other]
    BY <2>3, <2>4, NamesGiven
  <2>6. \A g \in Shipped \ temps' : dir'[g] = FileText(installed, g)
    BY <2>1, <2>4 DEF DiskInv, Shipped
  <2>7. QED BY <2>1, <2>2, <2>5, <2>6 DEF DiskInv
<1>7. ASSUME NEW s \in Scripts, RenameScript(s) PROVE DiskInv'
  <2>1. /\ stage = "rename" /\ scripts' = [scripts EXCEPT ![s] = ScriptText(installed, s)]
        /\ UNCHANGED <<dir, temps, libdbg, installed, stage>>
    BY <1>7 DEF RenameScript
  <2>2. Shipped' = Shipped
    BY <2>1 DEF Shipped
  <2>3. scripts' = [r \in Scripts |-> scripts'[r]]
    BY <2>1 DEF DiskInv
  <2>4. QED BY <2>1, <2>2, <2>3 DEF DiskInv
<1>8. QED BY <1>1, <1>2, <1>3, <1>4, <1>5, <1>6, <1>7, Zenon DEF Dpkg

LEMMA NextDisk == Typed /\ DiskInv /\ [Next]_vars => DiskInv'
<1>1. DiskInv /\ UNCHANGED disk => DiskInv'
  BY DEF disk, DiskInv, Shipped
<1>2. Start \/ Load \/ Fault \/ Run \/ Exit \/ UNCHANGED vars => UNCHANGED disk
  BY DEF Start, Load, Fault, Run, Exit, OpenDir, OpenDirFails, ReadEntry, Parse, ParseFails,
     Loaded, Ask, RunScript, SetDone, vars
<1>3. QED BY <1>1, <1>2, DpkgDisk, Zenon DEF Next

LEMMA AlwaysDisk == Spec => []DiskInv
<1>1. QED BY InitDisk, NextDisk, AlwaysTyped, PTL DEF Spec

-----------------------------------------------------------------------------
(* A process that no upgrade has overtaken.                                *)

(* The scripts of a version that its library lets run.                     *)
Runnable(v) ==
  {x \in AllSubs : x.exec.value \in Sh /\ ScriptText(v, x.exec.value) # NoFile}

Undisturbed ==
  /\ stage = "none" /\ build = installed
  /\ was = {<<f, dir[f]>> : f \in Present(dir)} /\ steady = Present(dir)
  /\ pc \notin {"off", "open"} => todo \subseteq {Name(f) : f \in Present(dir)}
Works ==
  /\ pc # "failed"
  /\ pc \in {"open", "scan", "parse"} => answer = "none"
  /\ (pc = "set" /\ asked.name \in OfPackage[installed]) =>
       answer = "none" /\ asked.left \in Seq(Runnable(installed))
  /\ (answer # "none" /\ asked.name \in OfPackage[installed]) => answer = "ok"
FreshInv == fresh => Undisturbed /\ Works

(* What the process knows of a module of its package is the package's own. *)
LEMMA KnowsItsOwn ==
  ASSUME NamesApart, Typed, LoadInv, DiskInv, Undisturbed, pc \in {"ready", "set"},
         NEW m \in OfPackage[installed]
  PROVE  /\ m \in NamesOf(table)
         /\ \A e \in table : e.name = m => e.subs \in Seq(Runnable(installed))
<1> DEFINE v == installed
<1>0. /\ v \in Versions /\ dir[Other] \in Others /\ table \subseteq AllEntries
      /\ \A f \in Files \ {Other} : dir[f] = FileText(v, f)
      /\ \A w \in was : \E f \in Present(dir) : w = <<f, dir[f]>>
      /\ steady = Present(dir)
  BY DEF Typed, TypeOK, DiskInv, Undisturbed
<1> HIDE DEF v
<1>1. m \in UNION {NamesOf(Entries[FileText(v, f)]) : f \in Json}
  BY <1>0, Zenon DEF OfPackage, v
<1>2. PICK f \in Json : m \in NamesOf(Entries[FileText(v, f)])
  BY <1>1, Zenon
<1>3. FileText(v, f) # NoFile
  BY <1>2, NothingUsable DEF NamesOf
<1>4. f \in Files \ {Other} /\ dir[f] = FileText(v, f)
  BY <1>0, <1>3, NamesGiven, OthersOwn
<1>5. f \in steady \cap Json
  BY <1>0, <1>3, <1>4 DEF Present
<1>6. \A w \in was : w[1] = f => w[2] = FileText(v, f)
  BY <1>0, <1>4
<1>7. m \in NamesOf(table)
  <2>1. LoadedWhole
    BY LoadInvWhole
  <2>2. Entries[FileText(v, f)] # {}
    BY <1>2 DEF NamesOf
  <2>3. \E w \in was : w[1] = f /\ NamesOf(Entries[w[2]]) \subseteq NamesOf(table)
    BY <1>5, <1>6, <2>1, <2>2, Zenon DEF LoadedWhole
  <2>4. QED BY <1>2, <1>6, <2>3, Zenon
<1>8. ASSUME NEW e \in table, e.name = m PROVE e.subs \in Seq(Runnable(v))
  <2>1. PICK w \in was : w[1] \in Json /\ e \in Entries[w[2]]
    BY Zenon DEF LoadInv, FromFiles
  <2>2. PICK g \in Present(dir) : w = <<g, dir[g]>>
    BY <1>0, Zenon
  <2>3. g \in Json /\ g \in Files /\ e \in Entries[dir[g]]
    BY <2>1, <2>2 DEF Present
  <2>4. g # Other
    <3> SUFFICES ASSUME g = Other PROVE FALSE
      OBVIOUS
    <3>1. m \in NamesOf(Entries[dir[Other]])
      BY <1>8, <2>3 DEF NamesOf
    <3>2. NamesOf(Entries[dir[Other]]) \cap OfPackage[v] = {}
      BY <1>0, Zenon DEF NamesApart
    <3>3. m \in OfPackage[v]
      BY DEF v
    <3>4. QED BY <3>1, <3>2, <3>3
  <2>5. e \in Entries[FileText(v, g)]
    BY <1>0, <2>3, <2>4
  <2>6. \A i \in DOMAIN e.subs : /\ e.subs[i].exec.value \in Sh
                                 /\ ScriptText(v, e.subs[i].exec.value) # NoFile
    BY <1>0, <2>3, <2>5, ScriptsShipped, Zenon
  <2>7. e.subs \in Seq(AllSubs)
    BY <1>0, EntryGood, Zenon
  <2>8. \A i \in DOMAIN e.subs : e.subs[i] \in Runnable(v)
    BY <2>6, <2>7 DEF Runnable
  <2>9. QED BY <2>7, <2>8
<1>9. QED BY <1>7, <1>8 DEF v

(* is_shell_cmd_allowed lets the scripts of its own version run.           *)
LEMMA OwnScriptAllowed ==
  ASSUME Typed, DiskInv, Undisturbed, NEW x \in Runnable(installed)
  PROVE  IsShellCmdAllowed(x.exec.value)
<1> DEFINE s == x.exec.value
<1>1. s \in Sh /\ s \in Scripts /\ ScriptText(installed, s) # NoFile
  BY NamesGiven DEF Runnable
<1>2. scripts[s] = ScriptText(installed, s) /\ build = installed
  BY <1>1 DEF DiskInv, Undisturbed
<1> HIDE DEF s
<1>3. s \in {y \in Sh : ScriptText(build, y) # NoFile}
  BY <1>1, <1>2
<1>4. Sha256(ScriptText(build, s)) \in Digests(build)
  BY <1>3, Zenon DEF Digests
<1>5. QED BY <1>1, <1>2, <1>4, Zenon DEF IsShellCmdAllowed, s

LEMMA DpkgFresh == Typed /\ FreshInv /\ (Upgrade \/ Dpkg) => FreshInv'
<1> SUFFICES ASSUME Typed, FreshInv, Upgrade \/ Dpkg, fresh' PROVE FALSE
  BY DEF FreshInv
<1>1. fresh \in BOOLEAN
  BY DEF Typed, TypeOK
<1>2. CASE Touched
  BY <1>2 DEF Touched
<1>3. CASE Configure
  BY <1>3 DEF Configure, history, FreshInv, Undisturbed
<1>4. Touched \/ Configure
  BY Zenon DEF Dpkg, Upgrade, Unpack, RenameLibrary, Remove, RenameFile, RenameScript
<1>5. QED BY <1>2, <1>3, <1>4

(* A step of the process that leaves the disk and the record of it alone.  *)
LEMMA QuietUndisturbed ==
  ASSUME Undisturbed, UNCHANGED <<dir, installed, stage, build, was, steady>>,
         pc' \notin {"off", "open"} => todo' \subseteq {Name(f) : f \in Present(dir)}
  PROVE  Undisturbed'
BY DEF Undisturbed

LEMMA ProcessFresh ==
  NamesApart /\ Typed /\ LoadInv /\ DiskInv /\ FreshInv /\ (Start \/ Load \/ Run \/ Exit) => FreshInv'
<1> SUFFICES ASSUME NamesApart, Typed, LoadInv, DiskInv, FreshInv, Start \/ Load \/ Run \/ Exit, fresh'
             PROVE  Undisturbed' /\ Works'
  BY DEF FreshInv
<1>1. CASE Start
  <2>1. /\ pc' = "open" /\ answer' = "none" /\ fresh' = (stage = "none") /\ build' = libdbg
        /\ was' = {<<f, dir[f]>> : f \in Present(dir)} /\ steady' = Present(dir)
        /\ UNCHANGED <<dir, installed, stage>>
    BY <1>1 DEF Start, disk
  <2>2. stage = "none" /\ libdbg = installed
    BY <2>1 DEF DiskInv
  <2>3. Undisturbed'
    BY <2>1, <2>2 DEF Undisturbed
  <2>4. QED BY <2>1, <2>3 DEF Works
<1>2. CASE Exit
  BY <1>2 DEF Exit
<1> SUFFICES ASSUME Load \/ Run PROVE Undisturbed' /\ Works'
  BY <1>1, <1>2
<1>3. /\ UNCHANGED <<dir, temps, scripts, installed, stage, build, was, steady, fresh>>
      /\ fresh
  BY DEF Load, Run, OpenDir, ReadEntry, Parse, Loaded, Ask, RunScript, SetDone, disk, history
<1>4. Undisturbed /\ Works
  BY <1>3 DEF FreshInv
<1>5. temps = {} /\ OfPackage' = OfPackage
  <2>1. temps = {}
    BY <1>4 DEF Undisturbed, DiskInv
  <2>2. QED BY <2>1 DEF OfPackage, NamesOf
<1>6. CASE OpenDir
  <2>1. /\ pc = "open" /\ pc' = "scan" /\ UNCHANGED <<asked, answer>>
        /\ todo' = {Name(f) : f \in Present(dir)} \cup {Temp(f) : f \in temps}
    BY <1>6 DEF OpenDir
  <2>2. todo' = {Name(f) : f \in Present(dir)}
    BY <1>5, <2>1
  <2>3. Undisturbed'
    BY <1>3, <1>4, <2>2, QuietUndisturbed
  <2>4. QED BY <1>4, <2>1, <2>3 DEF Works
<1>7. CASE ReadEntry
  <2>1. pc = "scan" /\ UNCHANGED <<asked, answer>>
    BY <1>7 DEF ReadEntry
  <2>2. PICK n \in todo :
          /\ todo' = todo \ {n}
          /\ IF ~ Exists(n)
               THEN pc' = "failed" /\ table' = {} /\ UNCHANGED cur
               ELSE IF IsModuleFile(n)
                 THEN pc' = "parse" /\ cur' = n /\ UNCHANGED table
                 ELSE UNCHANGED <<pc, cur, table>>
    BY <1>7 DEF ReadEntry
  <2>3. todo \subseteq {Name(f) : f \in Present(dir)}
    BY <1>4, <2>1 DEF Undisturbed
  <2>4. PICK f \in Present(dir) : n = Name(f)
    BY <2>2, <2>3
  <2>5. f \in Files /\ dir[f] # NoFile /\ n[1] = f
    BY <2>4 DEF Present, Name
  <2>6. Exists(n)
    BY <2>4, <2>5, Zenon DEF Exists, Content
  <2>7. pc' \in {"scan", "parse"} /\ todo' \subseteq {Name(g) : g \in Present(dir)}
    BY <2>1, <2>2, <2>3, <2>6
  <2>8. Undisturbed'
    BY <1>3, <1>4, <2>7, QuietUndisturbed
  <2>9. QED BY <1>4, <2>1, <2>7, <2>8 DEF Works
<1>8. CASE Parse
  <2>1. pc = "parse" /\ pc' = "scan" /\ UNCHANGED <<todo, asked, answer>>
    BY <1>8 DEF Parse
  <2>2. Undisturbed'
    BY <1>3, <1>4, <2>1, QuietUndisturbed DEF Undisturbed
  <2>3. QED BY <1>4, <2>1, <2>2 DEF Works
<1>9. CASE Loaded
  <2>1. pc = "scan" /\ pc' = "ready" /\ UNCHANGED <<todo, asked, answer>>
    BY <1>9 DEF Loaded
  <2>2. Undisturbed'
    BY <1>3, <1>4, <2>1, QuietUndisturbed DEF Undisturbed
  <2>3. QED BY <1>4, <2>1, <2>2 DEF Works
<1>10. CASE Ask
  <2>1. pc = "ready" /\ UNCHANGED <<todo, table>>
    BY <1>10 DEF Ask
  <2>2. PICK m \in Wanted :
          IF m \in NamesOf(table)
            THEN /\ asked' = [name |-> m, left |-> (CHOOSE e \in table : e.name = m).subs]
                 /\ pc' = "set"
                 /\ answer' = "none"
            ELSE /\ asked' = [name |-> m, left |-> <<>>]
                 /\ answer' = "unknown"
                 /\ UNCHANGED pc
    BY <1>10 DEF Ask
  <2>3. Undisturbed'
    BY <1>3, <1>4, <2>1, <2>2, QuietUndisturbed DEF Undisturbed
  <2>4. CASE m \in OfPackage[installed]
    <3>1. /\ m \in NamesOf(table)
          /\ \A e \in table : e.name = m => e.subs \in Seq(Runnable(installed))
      BY <1>4, <2>1, <2>4, KnowsItsOwn
    <3>2. (CHOOSE e \in table : e.name = m).subs \in Seq(Runnable(installed))
      BY <3>1, Zenon DEF NamesOf
    <3>3. asked'.left \in Seq(Runnable(installed)) /\ pc' = "set" /\ answer' = "none"
      BY <2>2, <3>1, <3>2
    <3>4. Runnable(installed') = Runnable(installed)
      BY <1>3, Zenon
    <3>5. QED BY <2>3, <3>3, <3>4, Zenon DEF Works
  <2>5. CASE m \notin OfPackage[installed]
    <3>1. asked'.name = m /\ pc' \in {"ready", "set"}
      BY <2>1, <2>2
    <3>2. asked'.name \notin OfPackage'[installed']
      BY <1>3, <1>5, <2>5, <3>1
    <3>3. QED BY <2>3, <3>1, <3>2 DEF Works
  <2>6. QED BY <2>4, <2>5
<1>11. CASE RunScript
  <2>1. /\ pc = "set" /\ asked.left # <<>> /\ asked' = [asked EXCEPT !.left = Tail(@)]
        /\ answer' = IF ~ IsShellCmdAllowed(Head(asked.left).exec.value) THEN "refused" ELSE answer
        /\ UNCHANGED <<pc, todo>>
    BY <1>11 DEF RunScript
  <2>2. Undisturbed'
    BY <1>3, <1>4, <2>1, QuietUndisturbed DEF Undisturbed
  <2>3. asked'.name = asked.name /\ asked'.left = Tail(asked.left)
    BY <2>1 DEF Typed, Asked
  <2>4. ASSUME asked.name \in OfPackage[installed]
        PROVE  answer' = "none" /\ asked'.left \in Seq(Runnable(installed))
    <3>1. answer = "none" /\ asked.left \in Seq(Runnable(installed))
      BY <1>4, <2>1, <2>4 DEF Works
    <3>2. /\ Head(asked.left) \in Runnable(installed)
          /\ Tail(asked.left) \in Seq(Runnable(installed))
      BY <2>1, <3>1
    <3>3. QED BY <1>4, <2>1, <2>3, <3>1, <3>2, OwnScriptAllowed
  <2>5. Runnable(installed') = Runnable(installed)
    BY <1>3, Zenon
  <2>6. asked'.name \in OfPackage'[installed'] => asked.name \in OfPackage[installed]
    BY <1>3, <1>5, <2>3
  <2>7. QED BY <2>1, <2>2, <2>4, <2>5, <2>6 DEF Works
<1>12. CASE SetDone
  <2>1. /\ pc = "set" /\ pc' = "ready" /\ UNCHANGED <<todo, asked>>
        /\ answer' = IF answer = "none" THEN "ok" ELSE answer
    BY <1>12 DEF SetDone
  <2>2. Undisturbed'
    BY <1>3, <1>4, <2>1, QuietUndisturbed DEF Undisturbed
  <2>3. asked'.name \in OfPackage'[installed'] => answer' = "ok"
    BY <1>3, <1>4, <1>5, <2>1 DEF Works
  <2>4. QED BY <2>1, <2>2, <2>3 DEF Works
<1>13. QED BY <1>6, <1>7, <1>8, <1>9, <1>10, <1>11, <1>12 DEF Load, Run

(* A process that started when no upgrade was going on, that none has      *)
(* overtaken and that could read what is there, loads the table, knows     *)
(* every module of the package and gets the digest of every script it is   *)
(* to run among those that were compiled into its library; other packages  *)
(* may have files in the directory, of other modules (init_module_cfgs,    *)
(* is_shell_cmd_allowed, config_module_set_debug_level_by_module_name).    *)
THEOREM FreshProcessWorks == ASSUME NamesApart PROVE Spec => []FreshWorks
<1>1. Init => FreshInv
  BY DEF Init, FreshInv
<1>2. Typed /\ LoadInv /\ DiskInv /\ FreshInv /\ [Next]_vars => FreshInv'
  <2>1. FreshInv /\ UNCHANGED vars => FreshInv'
    BY DEF vars, disk, process, history, FreshInv, Undisturbed, Works, OfPackage, Runnable
  <2>2. Fault => FreshInv'
    BY DEF Fault, OpenDirFails, ParseFails, FreshInv
  <2>3. QED BY NamesApart, <2>1, <2>2, DpkgFresh, ProcessFresh, Zenon DEF Next
<1>3. FreshInv => FreshWorks
  BY DEF FreshInv, Works, FreshWorks
<1>4. QED BY <1>1, <1>2, <1>3, AlwaysTyped, AlwaysLoad, AlwaysDisk, PTL DEF Spec

=============================================================================
