---------------------------- MODULE ModuleTable ----------------------------
(***************************************************************************)
(* The table of modules (module_configure.c: init_module_cfgs,             *)
(* parse_hook_json_file) and the digests of the scripts that the build     *)
(* compiles into the library (generate_sha256.c, is_shell_cmd_allowed),    *)
(* while dpkg replaces the package under a process.  A process, be it the  *)
(* service or the command line, reads the directory once, file by file,    *)
(* and looks at a script each time it is to run it.                        *)
(***************************************************************************)
EXTENDS Naturals, Sequences

CONSTANTS
  Versions,         \* versions of the package, numbers
  Files,            \* the names in the directory of modules, not only *.json
  Json,             \* those that end with .json
  Scripts,          \* the names in the directory of scripts
  Sh,               \* those that end with .sh
  FileText(_, _),   \* the text a version has in a file, or NoFile
  ScriptText(_, _), \* the text it has in a script, or NoFile
  CJsonParse(_),    \* what cJSON_Parse makes of a text
  Lower(_),         \* a name in lower case
  Others,           \* texts that a file of somebody else's may have
  Other,            \* the name of that file
  NoFile,           \* no file
  ReadFails,        \* TRUE: opendir, fopen and fread may fail on what is there
  MaxUpgrades       \* bound: upgrades

ASSUME NamesGiven ==
  /\ Versions \subseteq Nat
  /\ Json \subseteq Files /\ Other \in Files
  /\ Sh \subseteq Scripts
  /\ MaxUpgrades \in Nat
  /\ ReadFails \in BOOLEAN
ASSUME OthersOwn == \A v \in Versions : FileText(v, Other) = NoFile

VARIABLES
  dir,       \* the directory of modules: the text under each name
  temps,     \* the files dpkg has there under a name of its own
  scripts,   \* the directory of scripts
  libdbg,    \* the version of the library on the disk
  installed, \* the version that is installed, or being installed
  stage,     \* where dpkg is
  upgrades,  \* upgrades so far
  pc,        \* where the process is
  build,     \* the version of the library it has loaded
  todo,      \* the names readdir has still to return
  cur,       \* the name it is at
  table,     \* g_module_cfgs
  asked,     \* the module it is to set, and the scripts still to run
  answer,    \* what came of that
  was,       \* the files with their texts, at any time since it started
  steady,    \* the files that have been there all that time and did not fail to
             \* be read
  fresh      \* whether no upgrade has touched the disk since then, and nothing
             \* failed to be opened or read

disk == <<dir, temps, scripts, libdbg, installed, stage, upgrades>>
process == <<pc, build, todo, cur, table, asked, answer>>
history == <<was, steady, fresh>>
vars == <<disk, process, history>>

(* A name dpkg uses for a file until it is renamed into its place.         *)
Temp(f) == <<f, "dpkg-new">>
Name(f) == <<f, "">>
Present(d) == {f \in Files : d[f] # NoFile}

-----------------------------------------------------------------------------
(* A JSON file as cJSON gives it: an object has members in their order, an *)
(* array has items, and what is no JSON at all is no value.                *)

Missing == [is |-> "missing"]

(* cJSON_GetObjectItem: the first member of that name, whatever the case   *)
(* of its letters.                                                         *)
Members(x) == IF x.is = "object" THEN x.members ELSE <<>>
Hits(x, key) == {i \in DOMAIN Members(x) : Lower(Members(x)[i].key) = Lower(key)}
Item(x, key) ==
  IF Hits(x, key) = {} THEN Missing
  ELSE Members(x)[CHOOSE i \in Hits(x, key) : \A j \in Hits(x, key) : i <= j].value

IsString(x) == x.is = "string"
Items(x) == IF x.is = "array" THEN x.items ELSE <<>>

(* The conditions under which parse_hook_json_file returns 0.              *)
SubWithoutExec(s) == s.is = "object" /\ IsString(Item(s, "name"))
GoodSub(s) == s.is = "object" /\ IsString(Item(s, "name")) /\ IsString(Item(s, "exec"))
Parses(x) ==
  /\ IsString(Item(x, "name"))
  /\ Item(x, "group").is \in {"missing", "string"}
  /\ LET subs == Item(x, "submodules") IN
     subs.is = "array" /\ \A i \in DOMAIN Items(subs) : GoodSub(Items(subs)[i])

(* The entry it fills in; valueint is 1 for true and 0 for what is neither *)
(* that nor a number.                                                      *)
ValueInt(x) == CASE x.is = "number" -> x.value [] x.is = "true" -> 1 [] OTHER -> 0
Entry(x) ==
  LET subs == Items(Item(x, "submodules")) IN
  [name   |-> Item(x, "name").value,
   reboot |-> ValueInt(Item(x, "reboot")),
   subs   |-> [i \in DOMAIN subs |->
                 [name |-> Item(subs[i], "name"), exec |-> Item(subs[i], "exec")]]]

(* Every text there can be, with the entries it gives: one, or none.       *)
Texts == {FileText(v, f) : v \in Versions, f \in Files} \cup Others \cup {NoFile}
Entries ==
  [t \in Texts |-> IF Parses(CJsonParse(t)) THEN {Entry(CJsonParse(t))} ELSE {}]

(* What is not there has no entry; the items of an array stand in a row.   *)
ASSUME NothingUsable == Entries[NoFile] = {}
ASSUME ItemsInARow ==
  \A t \in Texts : LET subs == Items(Item(CJsonParse(t), "submodules")) IN
                    subs \in Seq({subs[i] : i \in DOMAIN subs})

(* g_hash_table_insert: an entry of the same name is replaced.             *)
Insert(tab, e) == {x \in tab : x.name # e.name} \cup {e}
NamesOf(tab) == {e.name : e \in tab}

-----------------------------------------------------------------------------
(* The digests, which tell texts apart and nothing else.                   *)

Sha256(t) == [sha256_of |-> t]

(* What generate_sha256 finds in the source of a version.                  *)
DigestsOfFirst(v) ==
  LET first == CHOOSE u \in Versions : \A w \in Versions : u <= w IN
  {Sha256(ScriptText(first, s)) : s \in {x \in Sh : ScriptText(first, x) # NoFile}}
Digests(v) == {Sha256(ScriptText(v, s)) : s \in {x \in Sh : ScriptText(v, x) # NoFile}}

IsShellCmdAllowed(s) == scripts[s] # NoFile /\ Sha256(scripts[s]) \in Digests(build)

-----------------------------------------------------------------------------
DirOf(v, other) == [f \in Files |-> IF f = Other THEN other ELSE FileText(v, f)]

Init ==
  /\ installed \in Versions
  /\ \E other \in Others : dir = DirOf(installed, other)
  /\ temps = {}
  /\ scripts = [s \in Scripts |-> ScriptText(installed, s)]
  /\ libdbg = installed
  /\ stage = "none"
  /\ upgrades = 0
  /\ pc = "off"
  /\ build = installed
  /\ todo = {}
  /\ cur = Name(Other)
  /\ table = {}
  /\ asked = [name |-> "none", left |-> <<>>]
  /\ answer = "none"
  /\ was = {}
  /\ steady = {}
  /\ fresh = FALSE

-----------------------------------------------------------------------------
(* dpkg: it puts the new files beside the old ones, renames them into      *)
(* their places in any order, removes what is no longer in the package and *)
(* configures.  installed is the new version from the beginning.           *)

(* The disk changes under the process.                                     *)
Touched ==
  /\ was' = IF pc = "off" THEN was ELSE was \cup {<<f, dir'[f]>> : f \in Present(dir')}
  /\ steady' = steady \cap Present(dir')
  /\ fresh' = FALSE
  /\ UNCHANGED process

Upgrade ==
  /\ stage = "none"
  /\ upgrades < MaxUpgrades
  /\ installed' \in {v \in Versions : v > installed}
  /\ upgrades' = upgrades + 1
  /\ stage' = "unpack"
  /\ UNCHANGED <<dir, temps, scripts, libdbg>>
  /\ Touched

Shipped == {f \in Files : FileText(installed, f) # NoFile}
Unpack ==
  /\ stage = "unpack"
  /\ temps' = Shipped
  /\ stage' = "rename"
  /\ UNCHANGED <<dir, scripts, libdbg, installed, upgrades>>
  /\ Touched

RenameFile(f) ==
  /\ stage = "rename"
  /\ f \in temps
  /\ temps' = temps \ {f}
  /\ dir' = [dir EXCEPT ![f] = FileText(installed, f)]
  /\ UNCHANGED <<scripts, libdbg, installed, stage, upgrades>>
  /\ Touched

RenameScript(s) ==
  /\ stage = "rename"
  /\ ScriptText(installed, s) \notin {NoFile, scripts[s]}
  /\ scripts' = [scripts EXCEPT ![s] = ScriptText(installed, s)]
  /\ UNCHANGED <<dir, temps, libdbg, installed, stage, upgrades>>
  /\ Touched

RenameLibrary ==
  /\ stage = "rename"
  /\ libdbg # installed
  /\ libdbg' = installed
  /\ UNCHANGED <<dir, temps, scripts, installed, stage, upgrades>>
  /\ Touched

InPlace ==
  /\ temps = {}
  /\ libdbg = installed
  /\ \A s \in Scripts : ScriptText(installed, s) \in {NoFile, scripts[s]}

Remove ==
  /\ stage = "rename"
  /\ InPlace
  /\ \/ \E f \in Present(dir) \ (Shipped \cup {Other}) :
          dir' = [dir EXCEPT ![f] = NoFile] /\ UNCHANGED scripts
     \/ \E s \in Scripts : /\ ScriptText(installed, s) = NoFile /\ scripts[s] # NoFile
                           /\ scripts' = [scripts EXCEPT ![s] = NoFile]
                           /\ UNCHANGED dir
  /\ UNCHANGED <<temps, libdbg, installed, stage, upgrades>>
  /\ Touched

(* All is in its place; postinst runs the command line, which is one more  *)
(* process that starts.                                                    *)
Configure ==
  /\ stage = "rename"
  /\ InPlace
  /\ Present(dir) \subseteq Shipped \cup {Other}
  /\ \A s \in Scripts : ScriptText(installed, s) = NoFile => scripts[s] = NoFile
  /\ stage' = "none"
  /\ UNCHANGED <<dir, temps, scripts, libdbg, installed, upgrades>>
  /\ UNCHANGED <<process, history>>

-----------------------------------------------------------------------------
(* init_module_cfgs.                                                       *)

(* The process starts and loads the library.                               *)
Start ==
  /\ pc = "off"
  /\ pc' = "open"
  /\ build' = libdbg
  /\ table' = {}
  /\ answer' = "none"
  /\ was' = {<<f, dir[f]>> : f \in Present(dir)}
  /\ steady' = Present(dir)
  /\ fresh' = (stage = "none")
  /\ UNCHANGED <<todo, cur, asked, disk>>

(* opendir and the first readdir, which gets the names of a directory of   *)
(* this size with one system call.                                         *)
OpenDir ==
  /\ pc = "open"
  /\ todo' = {Name(f) : f \in Present(dir)} \cup {Temp(f) : f \in temps}
  /\ pc' = "scan"
  /\ UNCHANGED <<build, cur, table, asked, answer, disk, history>>

OpenDirFails ==
  /\ ReadFails
  /\ pc = "open"
  /\ pc' = "failed"
  /\ fresh' = FALSE
  /\ UNCHANGED <<build, todo, cur, table, asked, answer, disk, was, steady>>

(* readdir and lstat.  A name that has gone makes the whole table go; one  *)
(* that does not end with .json is passed over.                            *)
Content(n) ==
  IF n \in {Name(f) : f \in Files} THEN dir[n[1]]
  ELSE IF n[1] \in temps THEN FileText(installed, n[1]) ELSE NoFile
Exists(n) == Content(n) # NoFile
AnyJson(n) == n[1] \in Json
IsModuleFile(n) == n[2] = "" /\ n[1] \in Json
ReadEntry ==
  /\ pc = "scan"
  /\ \E n \in todo :
       /\ todo' = todo \ {n}
       /\ IF ~ Exists(n)
            THEN pc' = "failed" /\ table' = {} /\ UNCHANGED cur
            ELSE IF IsModuleFile(n)
              THEN pc' = "parse" /\ cur' = n /\ UNCHANGED table
              ELSE UNCHANGED <<pc, cur, table>>
  /\ UNCHANGED <<build, asked, answer, disk, history>>

(* parse_hook_json_file opens the file by its name once more; one that     *)
(* cannot be opened or used is reported and passed over.                   *)
Parsed == Entries[Content(cur)]
ParseOrStop ==
  /\ pc = "parse"
  /\ table' = IF Parsed = {} THEN table ELSE Insert(table, CHOOSE e \in Parsed : TRUE)
  /\ todo' = IF Parsed = {} THEN {} ELSE todo
  /\ pc' = "scan"
  /\ UNCHANGED <<build, cur, asked, answer, disk, history>>
ParseOrFail ==
  /\ pc = "parse"
  /\ table' = IF Parsed = {} THEN {} ELSE Insert(table, CHOOSE e \in Parsed : TRUE)
  /\ pc' = IF Parsed = {} THEN "failed" ELSE "scan"
  /\ UNCHANGED <<build, todo, cur, asked, answer, disk, history>>
Parse ==
  /\ pc = "parse"
  /\ table' = IF Parsed = {} THEN table ELSE Insert(table, CHOOSE e \in Parsed : TRUE)
  /\ pc' = "scan"
  /\ UNCHANGED <<build, todo, cur, asked, answer, disk, history>>

(* fopen fails on a file that is there, or fread stops before its end.     *)
ParseFails ==
  /\ ReadFails
  /\ pc = "parse"
  /\ Exists(cur)
  /\ pc' = "scan"
  /\ steady' = steady \ {cur[1]}
  /\ fresh' = FALSE
  /\ UNCHANGED <<build, todo, cur, table, asked, answer, disk, was>>

Loaded ==
  /\ pc = "scan"
  /\ todo = {}
  /\ pc' = "ready"
  /\ UNCHANGED <<build, todo, cur, table, asked, answer, disk, history>>

-----------------------------------------------------------------------------
(* The use of the table: a module is set by its scripts, one by one.       *)

OfPackage == [v \in Versions |-> UNION {NamesOf(Entries[FileText(v, f)]) : f \in Json}]
Wanted == UNION {OfPackage[v] : v \in Versions}

(* A version has the scripts its modules name, in the files the build      *)
(* takes digests of (the files under service, generate_sha256.c).          *)
ASSUME ScriptsShipped ==
  \A v \in Versions, f \in Json : \A e \in Entries[FileText(v, f)] : \A i \in DOMAIN e.subs :
    /\ e.subs[i].exec.value \in Sh
    /\ ScriptText(v, e.subs[i].exec.value) # NoFile

Ask ==
  /\ pc = "ready"
  /\ \E m \in Wanted :
       IF m \in NamesOf(table)
         THEN /\ asked' = [name |-> m,
                           left |-> (CHOOSE e \in table : e.name = m).subs]
              /\ pc' = "set"
              /\ answer' = "none"
         ELSE /\ asked' = [name |-> m, left |-> <<>>]
              /\ answer' = "unknown"
              /\ UNCHANGED pc
  /\ UNCHANGED <<build, todo, cur, table, disk, history>>

(* exec_debug_shell_cmd_internal: a script whose digest is not that of the *)
(* build is not run, the others are; what they do is not modelled here.    *)
RunScript ==
  /\ pc = "set"
  /\ asked.left # <<>>
  /\ asked' = [asked EXCEPT !.left = Tail(@)]
  /\ answer' = IF ~ IsShellCmdAllowed(Head(asked.left).exec.value) THEN "refused" ELSE answer
  /\ UNCHANGED <<pc, build, todo, cur, table, disk, history>>

SetDone ==
  /\ pc = "set"
  /\ asked.left = <<>>
  /\ answer' = IF answer = "none" THEN "ok" ELSE answer
  /\ pc' = "ready"
  /\ UNCHANGED <<build, todo, cur, table, asked, disk, history>>

(* The service dies or gives up after a failed load, the command line ends *)
(* with its request; nothing else makes either read the directory again.   *)
Exit ==
  /\ pc \in {"failed", "ready"}
  /\ pc' = "off"
  /\ todo' = {}
  /\ table' = {}
  /\ asked' = [name |-> "none", left |-> <<>>]
  /\ answer' = "none"
  /\ was' = {}
  /\ steady' = {}
  /\ fresh' = FALSE
  /\ UNCHANGED <<build, cur, disk>>

-----------------------------------------------------------------------------
Dpkg ==
  \/ Unpack \/ RenameLibrary \/ Remove \/ Configure
  \/ \E f \in Files : RenameFile(f)
  \/ \E s \in Scripts : RenameScript(s)
Load == OpenDir \/ ReadEntry \/ Parse \/ Loaded
Fault == OpenDirFails \/ ParseFails
Run == Ask \/ RunScript \/ SetDone
GiveUp == pc = "failed" /\ Exit
Next == Upgrade \/ Dpkg \/ Start \/ Load \/ Fault \/ Run \/ Exit
Spec == Init /\ [][Next]_vars

(* dpkg goes on, a process that runs is scheduled, and one whose load has  *)
(* failed exits and is started again, by the bus or by whoever needs it;   *)
(* opendir does not fail for ever.                                         *)
FairSpec ==
  /\ Spec
  /\ WF_vars(Dpkg) /\ WF_vars(Load) /\ WF_vars(GiveUp) /\ WF_vars(Start)
  /\ SF_vars(OpenDir)

-----------------------------------------------------------------------------
TypeOK ==
  /\ temps \subseteq Files
  /\ libdbg \in Versions /\ installed \in Versions /\ build \in Versions
  /\ stage \in {"none", "unpack", "rename"}
  /\ upgrades \in 0 .. MaxUpgrades
  /\ pc \in {"off", "open", "scan", "parse", "ready", "failed", "set"}
  /\ todo \subseteq {Name(f) : f \in Files} \cup {Temp(f) : f \in Files}
  /\ cur \in {Name(f) : f \in Files}
  /\ answer \in {"none", "ok", "refused", "unknown"}
  /\ steady \subseteq Files
  /\ fresh \in BOOLEAN

(* However the directory changed while it was read, a table that counts as *)
(* loaded has an entry for every usable file that was there all the time   *)
(* and could be read, only entries of files that were there under their    *)
(* own names, and no two entries of one name; the files may be of          *)
(* different versions (init_module_cfgs).                                  *)
LoadedWhole ==
  pc \in {"ready", "set"} =>
    /\ \A f \in steady \cap Json :
         (\A w \in was : w[1] = f => Entries[w[2]] # {}) =>
           \E w \in was : w[1] = f /\ NamesOf(Entries[w[2]]) \subseteq NamesOf(table)
    /\ \A e \in table : \E w \in was : w[1] \in Json /\ e \in Entries[w[2]]
    /\ \A e1, e2 \in table : e1.name = e2.name => e1 = e2

(* An entry of the table is complete: whoever runs its scripts finds for   *)
(* each of them a name and a file.                                         *)
Usable ==
  \A e \in table : \A i \in DOMAIN e.subs : IsString(e.subs[i].name) /\ IsString(e.subs[i].exec)

(* No other package's file gives a module the name of one of this          *)
(* package's: it would take its place in the table, or lose it.            *)
NamesApart ==
  \A v \in Versions, other \in Others : NamesOf(Entries[other]) \cap OfPackage[v] = {}

(* A process that started when no upgrade was going on, and that none has  *)
(* overtaken, has loaded the table, unless a file could not be read, knows *)
(* every module of the package and refuses none of its scripts, whatever   *)
(* files of other modules lie in the directory.                            *)
FreshWorks ==
  fresh =>
    /\ pc # "failed"
    /\ answer = "none" \/ (asked.name \in OfPackage[installed] => answer = "ok")

(* What an upgrade breaks heals by starting again: however often the load  *)
(* failed, once upgrades have ended a process comes to have a table, if    *)
(* opendir succeeds at last and whatever files cannot be read.             *)
LoadHeals == pc = "open" ~> pc = "ready"
=============================================================================
