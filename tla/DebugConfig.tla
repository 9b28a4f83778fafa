----------------------------- MODULE DebugConfig -----------------------------
(***************************************************************************)
(* Setting debug levels: the library module_configure.c as its two callers *)
(* use it, the D-Bus service (bus-service.c) and the command line (main.c, *)
(* run by an administrator or by the package's postinst).  The two are     *)
(* processes that share, without a lock, the level each module's script    *)
(* has applied to the system, the file deepin-debug-levels.cfg, and the    *)
(* two configuration files of journald; the service also caches the level  *)
(* of "all" for its property AllDebugLevel.                                *)
(*                                                                         *)
(* One step is one script, or one update or one reading of a file: what    *)
(* LevelStore shows for an update of the levels file is one step here.     *)
(***************************************************************************)
EXTENDS Naturals, Sequences

CONSTANTS
  Service, Clis,   \* the service, the command-line processes
  Modules, Subs,   \* modules, and the submodules with one script each
  SubsOf,          \* SubsOf[m]: the submodules of m, in order
  Reboots,         \* the modules whose level applies after a reboot
  All, Coredump,   \* the two pseudo modules of the levels file
  Levels,          \* debug levels
  On, Off,         \* the two levels of Coredump
  Verbose,         \* the levels that count as switched on: "debug" and "on"
  Accepts,         \* Accepts[s]: the levels the script of s applies
  Rejects,         \* Rejects[s]: the levels at which it exits with an error
  Careless,        \* the scripts that exit 0 although their command failed
  Misnamed,        \* the submodules that are not called like their package
  Requests,        \* the arguments of SetDebug that callers pass
  Default,         \* the state of a submodule no script has touched
  NoLevel,         \* no level cached or answered
  ScriptFails,     \* TRUE: a script may fail
  QueryFails,      \* TRUE: dpkg-query may fail, or fail to be run
  StoreFails,      \* TRUE: the levels file may not open
  JournalFaults,   \* among "remove", "create", "fill": what may fail in journald's files
  Sandboxed,       \* the processes that must not write there (the service's unit)
  Crashes,         \* TRUE: a process may be killed
  Upgrade          \* TRUE: postinst may remove the levels file

Actors == {Service} \cup Clis
Names == Modules \cup {All}

ASSUME ModulesAreNoPseudo == All \notin Modules /\ Coredump \notin Names
ASSUME SubsOfIsSequence == SubsOf \in [Modules -> Seq(Subs)]
ASSUME LevelsGiven == Verbose \subseteq Levels /\ {On, Off} \subseteq Levels
ASSUME RequestsGiven ==
  \A p \in Requests : p \in Seq([name : {p[i].name : i \in DOMAIN p}, level : Levels])

VARIABLES
  applied,    \* applied[s]: the level in force in submodule s
  installed,  \* the submodules whose package is installed
  exists,     \* the levels file exists
  levels,     \* its content: a function from names to levels
  journal,    \* per switch file of journald, on and off: "absent", "empty" or "full"
  cached,     \* the service's c->debug_level
  skipped,    \* since a call began: the submodules whose script failed last and
              \* was passed over, although the package is installed
  unsaved,    \* since a call began: the names whose last level was not recorded
  act,        \* per actor: the call in progress
  reply       \* per actor: how its last call ended

file == <<exists, levels, unsaved>>
system == <<applied, skipped, installed, file, journal, cached>>
vars == <<system, act, reply>>

(* The state of a call of SetDebug or of deepin-debug-config --set:        *)
(* pairs is the argument, rest the pairs still to process, todo the        *)
(* modules of the current pair still to set, subs the scripts of the       *)
(* current module still to run.                                            *)
IdleCall ==
  [pc |-> "idle", pairs |-> <<>>, rest |-> <<>>, todo |-> {}, module |-> All,
   subs |-> <<>>, moduleOk |-> TRUE, pairOk |-> TRUE, ok |-> TRUE,
   reboot |-> FALSE, flag |-> FALSE, alone |-> TRUE]

Busy(a) == act[a].pc # "idle"
Level(a) == Head(act[a].rest).level
Name(a) == Head(act[a].rest).name

Init ==
  /\ applied = [s \in Subs |-> Default]
  /\ installed \in SUBSET Subs
  /\ exists = FALSE
  /\ levels = [n \in {} |-> Off]
  /\ journal = [on |-> "absent", off |-> "absent"]
  /\ cached = NoLevel
  /\ skipped = {}
  /\ unsaved = {}
  /\ act = [a \in Actors |-> IdleCall]
  /\ reply = [a \in Actors |-> "none"]

Recorded(n, l) == [k \in DOMAIN levels \cup {n} |-> IF k = n THEN l ELSE levels[k]]

(* modify_debug_levels: one line set, or an error that leaves the lines    *)
(* as they were, before or after the file was created.                     *)
Record(n, l) == levels' = Recorded(n, l) /\ exists' = TRUE /\ unsaved' = unsaved \ {n}
RecordFails(n) ==
  StoreFails /\ UNCHANGED levels /\ exists' \in {exists, TRUE} /\ unsaved' = unsaved \cup {n}
Modify(n, l) == Record(n, l) \/ RecordFails(n)

-----------------------------------------------------------------------------
(* One call, step by step.                                                 *)

(* A call begins; alone says whether it has run by itself so far.          *)
Start(a, call) ==
  /\ ~ Busy(a)
  /\ LET others == \E b \in Actors \ {a} : Busy(b) IN
     act' = [b \in Actors |->
               IF b = a THEN [call EXCEPT !.alone = ~ others]
               ELSE IF Busy(b) THEN [act[b] EXCEPT !.alone = FALSE] ELSE act[b]]
  /\ reply' = [reply EXCEPT ![a] = "none"]
  /\ skipped' = {}
  /\ unsaved' = {}
  /\ UNCHANGED <<applied, installed, exists, levels, journal, cached>>

Set(a) ==
  \E p \in Requests : Start(a, [IdleCall EXCEPT !.pc = "pair", !.pairs = p, !.rest = p])

(* The lookup of a name; and one that finds everything.                    *)
KnowsAny(n) == TRUE
Known(n) == n \in Names

(* config_module_set_debug_level_by_module_name: an unknown name is an     *)
(* error, and all stands for every module.                                 *)
NextPair(a) ==
  /\ act[a].pc = "pair"
  /\ act[a].rest # <<>>
  /\ act' = [act EXCEPT ![a] =
       IF ~ Known(Name(a))
         THEN [act[a] EXCEPT !.rest = Tail(act[a].rest), !.ok = FALSE]
         ELSE [act[a] EXCEPT !.pc = "module", !.pairOk = TRUE,
                             !.todo = IF Name(a) = All THEN Modules ELSE {Name(a)}]]
  /\ UNCHANGED <<system, reply>>

(* config_modules_set_debug_level_internal begins; config_modules_set_     *)
(* debug_level_all takes the modules in the order of a hash table.         *)
StartModule(a) ==
  /\ act[a].pc = "module"
  /\ \E m \in act[a].todo :
       act' = [act EXCEPT ![a] = [@ EXCEPT !.pc = "script", !.module = m,
                                           !.subs = SubsOf[m], !.moduleOk = TRUE]]
  /\ UNCHANGED <<system, reply>>

(* exec_debug_shell_cmd_internal: a script applies a level, ignores one it *)
(* does not know, rejects one, fails with or without effect, or overlooks  *)
(* that its command failed.                                                *)
Runs(s, l, ok, v) ==
  \/ ok /\ l \in Accepts[s] /\ v = l
  \/ ok /\ l \notin Accepts[s] \cup Rejects[s] /\ v = applied[s]
  \/ ~ ok /\ l \in Rejects[s] /\ v = applied[s]
  \/ ~ ok /\ (ScriptFails \/ s \notin installed) /\ v \in {applied[s]} \cup ({l} \cap Accepts[s])
  \/ ok /\ ScriptFails /\ s \in Careless /\ v = applied[s]

(* check_package_installed asks dpkg for a package called like the         *)
(* submodule: NetworkManager and logind, say, have none.  When dpkg-query  *)
(* fails, is killed or cannot be started the package counts as absent too. *)
PackageInstalled(s) == s \in installed \ Misnamed
Answers(s) == {PackageInstalled(s)} \cup (IF QueryFails THEN {FALSE} ELSE {})

(* A module fails with the first script that fails although its package is *)
(* found.  Variants: the last script decides, no failure counts.           *)
ModuleOkLast(a, ok, found) == ok \/ ~ found
ModuleOkSkip(a, ok, found) == act[a].moduleOk
ModuleOk(a, ok, found) == act[a].moduleOk /\ (ok \/ ~ found)

(* A script that succeeds is not passed over any more.                     *)
Skips(s, ok, found) ==
  IF ok THEN skipped \ {s}
  ELSE IF ~ found /\ PackageInstalled(s) THEN skipped \cup {s} ELSE skipped

(* The body of the loop over the submodules; dpkg is asked after a failure.*)
RunScript(a) ==
  /\ act[a].pc = "script"
  /\ act[a].subs # <<>>
  /\ LET s == Head(act[a].subs) IN
     \E ok \in BOOLEAN, found \in Answers(s), v \in {applied[s], Level(a)} :
       /\ Runs(s, Level(a), ok, v)
       /\ applied' = [applied EXCEPT ![s] = v]
       /\ skipped' = Skips(s, ok, found)
       /\ act' = [act EXCEPT ![a] =
            [act[a] EXCEPT !.subs = Tail(act[a].subs), !.moduleOk = ModuleOk(a, ok, found)]]
  /\ UNCHANGED <<installed, file, journal, cached, reply>>

(* Whether a module's level is recorded; and always.                       *)
RecordsAlways(a) == TRUE
Records(a) == act[a].moduleOk

(* The end of config_modules_set_debug_level_internal: the level of a      *)
(* module that did not fail is recorded, whatever becomes of the record.   *)
FinishModule(a) ==
  /\ act[a].pc = "script"
  /\ act[a].subs = <<>>
  /\ IF Records(a) THEN Modify(act[a].module, Level(a)) ELSE UNCHANGED file
  /\ LET left == act[a].todo \ {act[a].module} IN
     act' = [act EXCEPT ![a] =
       [act[a] EXCEPT !.todo = left, !.pairOk = act[a].pairOk /\ act[a].moduleOk,
                      !.pc = IF left = {} THEN "pairEnd" ELSE "module"]]
  /\ UNCHANGED <<applied, skipped, installed, journal, cached, reply>>

(* config_module_get_property_reboot, over the module or over all.         *)
NeedsReboot(n) == IF n = All THEN Reboots # {} ELSE n \in Reboots

(* Whether some pair so far needs a reboot; and the last one alone.        *)
RebootLast(a) == NeedsReboot(Name(a))
RebootSoFar(a) == act[a].reboot \/ NeedsReboot(Name(a))

(* Whether the service takes the level as that of all; and even if it was  *)
(* not set everywhere.                                                     *)
CachesAnyway(a) == a = Service /\ Name(a) = All
Caches(a) == a = Service /\ Name(a) = All /\ act[a].pairOk

(* The end of config_modules_set_debug_level_all, and of one round of the  *)
(* loop of method_set_debug: the service caches a level set for all, and   *)
(* then looks at no further pair.                                          *)
FinishPair(a) ==
  /\ act[a].pc = "pairEnd"
  /\ IF Name(a) = All /\ act[a].pairOk THEN Modify(All, Level(a)) ELSE UNCHANGED file
  /\ cached' = IF Caches(a) THEN Level(a) ELSE cached
  /\ act' = [act EXCEPT ![a] =
       [act[a] EXCEPT !.pc = "pair", !.ok = act[a].ok /\ act[a].pairOk,
                      !.reboot = RebootSoFar(a),
                      !.rest = IF a = Service /\ Name(a) = All THEN <<>> ELSE Tail(act[a].rest)]]
  /\ UNCHANGED <<applied, skipped, installed, journal, reply>>

(* config_module_check_debug_level_has_on: is any line at a verbose level? *)
HasOn == \E n \in DOMAIN levels : levels[n] \in Verbose

(* config_module_check_log, which both callers run after the last pair and *)
(* whose result neither looks at.                                          *)
CheckLog(a) ==
  /\ act[a].pc = "pair"
  /\ act[a].rest = <<>>
  /\ \/ act' = [act EXCEPT ![a] = [@ EXCEPT !.pc = "remove", !.flag = HasOn]]
     \/ StoreFails /\ act' = [act EXCEPT ![a].pc = "answer"]
  /\ UNCHANGED <<system, reply>>

(* The switch file wanted, the one not wanted; and the same one always.    *)
Dest(a) == IF act[a].flag THEN "on" ELSE "off"
NeedDelOff(a) == "off"
NeedDel(a) == IF act[a].flag THEN "off" ELSE "on"

(* set_journal_log, first half: the file of the opposite switch goes.      *)
RemoveSwitch(a) ==
  /\ act[a].pc = "remove"
  /\ \/ /\ a \in Sandboxed => journal[NeedDel(a)] = "absent"
        /\ journal' = [journal EXCEPT ![NeedDel(a)] = "absent"]
        /\ act' = [act EXCEPT ![a].pc = "install"]
     \/ /\ a \in Sandboxed \/ "remove" \in JournalFaults
        /\ journal[NeedDel(a)] # "absent"
        /\ act' = [act EXCEPT ![a].pc = "answer"]
        /\ UNCHANGED journal
  /\ UNCHANGED <<applied, skipped, installed, file, cached, reply>>

(* Second half: a file that is there stays as it is, else copy_file makes  *)
(* one.  It may fail to create the file, or to fill it, which it notices   *)
(* unless the disk is full when it closes the file.                        *)
Copied(a, content, place) ==
  /\ journal[Dest(a)] = "absent"
  /\ journal' = [journal EXCEPT ![Dest(a)] = content]
  /\ act' = [act EXCEPT ![a].pc = place]

InstallSwitch(a) ==
  /\ act[a].pc = "install"
  /\ \/ /\ journal[Dest(a)] # "absent"
        /\ act' = [act EXCEPT ![a].pc = "logged"]
        /\ UNCHANGED journal
     \/ a \notin Sandboxed /\ Copied(a, "full", "logged")
     \/ /\ a \notin Sandboxed /\ "fill" \in JournalFaults
        /\ \E place \in {"logged", "answer"} : Copied(a, "empty", place)
     \/ (a \in Sandboxed \/ "create" \in JournalFaults) /\ Copied(a, "absent", "answer")
  /\ UNCHANGED <<applied, skipped, installed, file, cached, reply>>

(* The answer: the error reply and "fail", or "success", or "reboot".  The *)
(* command line only tells failure from success.                           *)
Answer(a) ==
  /\ act[a].pc \in {"logged", "answer"}
  /\ reply' = [reply EXCEPT ![a] =
       IF ~ act[a].ok THEN "fail"
       ELSE IF act[a].reboot /\ a = Service THEN "reboot" ELSE "success"]
  /\ act' = [act EXCEPT ![a] = IdleCall]
  /\ UNCHANGED system

-----------------------------------------------------------------------------
(* The other calls.                                                        *)

(* config_system_coredump: the script, then the record.                    *)
SetCoredump(a) ==
  \E l \in {On, Off} :
    Start(a, [IdleCall EXCEPT !.pc = "coredump", !.rest = <<[name |-> Coredump, level |-> l]>>])

RunCoredump(a) ==
  /\ act[a].pc = "coredump"
  /\ \/ act' = [act EXCEPT ![a].pc = "coredumpEnd"]
     \/ ScriptFails /\ act' = [act EXCEPT ![a] = [@ EXCEPT !.pc = "answer", !.ok = FALSE]]
  /\ UNCHANGED <<system, reply>>

FinishCoredump(a) ==
  /\ act[a].pc = "coredumpEnd"
  /\ \/ /\ Record(Coredump, Level(a))
        /\ act' = [act EXCEPT ![a].pc = "answer"]
     \/ /\ RecordFails(Coredump)
        /\ act' = [act EXCEPT ![a] = [@ EXCEPT !.pc = "answer", !.ok = FALSE]]
  /\ UNCHANGED <<applied, skipped, installed, journal, cached, reply>>

(* config_module_get_debug_level_by_type: without a file everything counts *)
(* as off; with one, a name it does not list is an error (NoLevel).        *)
Get(n) ==
  IF ~ exists THEN Off
  ELSE IF n \in DOMAIN levels THEN levels[n] ELSE NoLevel

(* method_get_state asked for "all" refreshes the cache.                   *)
GetState ==
  /\ ~ Busy(Service)
  /\ cached' = IF Get(All) # NoLevel THEN Get(All) ELSE cached
  /\ UNCHANGED <<applied, skipped, installed, file, journal, act, reply>>

(* A process is killed, perhaps while it copies a switch file; the service *)
(* starts again with an empty cache.                                       *)
Crash(a) ==
  /\ Crashes
  /\ Busy(a)
  /\ act' = [act EXCEPT ![a] = IdleCall]
  /\ cached' = IF a = Service THEN NoLevel ELSE cached
  /\ \/ UNCHANGED journal
     \/ /\ act[a].pc = "install" /\ a \notin Sandboxed /\ journal[Dest(a)] = "absent"
        /\ journal' = [journal EXCEPT ![Dest(a)] = "empty"]
  /\ UNCHANGED <<applied, skipped, installed, file, reply>>

(* debian/postinst: rm_level_cfg; what follows is a call of the command    *)
(* line that sets all to "warning".                                        *)
RemoveLevels ==
  /\ Upgrade
  /\ exists' = FALSE
  /\ levels' = [n \in {} |-> Off]
  /\ unsaved' = {}
  /\ act' = [a \in Actors |-> [act[a] EXCEPT !.alone = ~ Busy(a)]]
  /\ UNCHANGED <<applied, skipped, installed, journal, cached, reply>>

Work(a) == \/ NextPair(a) \/ StartModule(a) \/ RunScript(a) \/ FinishModule(a)
           \/ FinishPair(a) \/ CheckLog(a) \/ RemoveSwitch(a) \/ InstallSwitch(a)
           \/ RunCoredump(a) \/ FinishCoredump(a) \/ Answer(a)

Next ==
  \/ \E a \in Actors : Set(a) \/ SetCoredump(a) \/ Work(a) \/ Crash(a)
  \/ GetState \/ RemoveLevels

Spec == Init /\ [][Next]_vars

-----------------------------------------------------------------------------
(* Properties.  They are about calls that ran by themselves: what happened *)
(* before, crashes and overlapping calls included, does not matter.        *)

TypeOK ==
  /\ applied \in [Subs -> Levels \cup {Default}]
  /\ installed \subseteq Subs
  /\ exists \in BOOLEAN
  /\ DOMAIN levels \subseteq Names \cup {Coredump}
  /\ \A n \in DOMAIN levels : levels[n] \in Levels
  /\ journal \in [{"on", "off"} -> {"absent", "empty", "full"}]
  /\ cached \in Levels \cup {NoLevel}
  /\ skipped \subseteq Subs
  /\ unsaved \subseteq Names \cup {Coredump}
  /\ \A a \in Actors :
       /\ act[a].pc \in {"idle", "pair", "module", "script", "pairEnd", "remove", "install",
                         "logged", "answer", "coredump", "coredumpEnd"}
       /\ act[a].todo \subseteq Modules
  /\ reply \in [Actors -> {"none", "fail", "success", "reboot"}]

(* The pairs of a call that count: the service stops after "all".          *)
Counted(a) ==
  LET p == act[a].pairs IN
  IF a # Service THEN DOMAIN p
  ELSE {i \in DOMAIN p : \A j \in 1 .. i - 1 : p[j].name # All}

(* The level a call asks for in the end for module m, if any.              *)
Asked(a, m) ==
  LET p == act[a].pairs
      about == {i \in Counted(a) : p[i].name \in {m, All}} IN
  {p[i].level : i \in {j \in about : \A k \in about : k <= j}}

(* Level l is in force in every submodule of m whose package is installed, *)
(* unless its script does not know the level, hides its errors, or failed  *)
(* while dpkg-query failed too, so that it was passed over.                *)
InForce(m, l) ==
  \A i \in DOMAIN SubsOf[m] :
    LET s == SubsOf[m][i] IN
    PackageInstalled(s) /\ s \notin Careless \cup skipped /\ l \in Accepts[s] => applied[s] = l

Answered(a) == act[a].pc \in {"logged", "answer"} /\ act'[a].pc = "idle"
Succeeds(a) == Answered(a) /\ reply'[a] \in {"success", "reboot"}

(* A call that succeeds has done what it was asked: for every module it    *)
(* names, the last level it asked for is recorded, unless the file failed, *)
(* and in force wherever the package is installed, unless dpkg-query       *)
(* failed: the code takes note of neither (config_modules_set_debug_level_ *)
(* internal, module_configure.c:674-698; "success: returns 0", 769-776).   *)
SuccessMeansDone ==
  [][\A a \in Actors : Succeeds(a) /\ act[a].alone =>
       \A m \in Modules : \A l \in Asked(a, m) :
         /\ m \in unsaved \/ (m \in DOMAIN levels /\ levels[m] = l)
         /\ InForce(m, l)]_vars

(* Whatever becomes of the call in the end: a level enters the file only   *)
(* when it is in force, and a level for "all" only when it is in force in  *)
(* every module (config_modules_set_debug_level_internal and _all).        *)
Changed(n) == n \in DOMAIN levels' /\ (n \in DOMAIN levels => levels'[n] # levels[n])
RecordedIsInForce ==
  [][\A a \in Actors : act[a].alone /\ act'[a] # act[a] =>
       /\ \A m \in Modules : Changed(m) => InForce(m, levels'[m])
       /\ Changed(All) => \A m \in Modules : InForce(m, levels'[All])]_vars

(* The caller is told to reboot exactly when a module it set, "all"        *)
(* standing for every one, takes its level at boot (method_set_debug).     *)
RebootTold ==
  [][Succeeds(Service) =>
       (reply'[Service] = "reboot"
          <=> \E i \in Counted(Service) : NeedsReboot(act[Service].pairs[i].name))]_vars

(* Where the levels say that journald's switch should be.                  *)
Wanted == IF HasOn THEN "on" ELSE "off"
Unwanted == IF HasOn THEN "off" ELSE "on"

(* When config_module_check_log has returned 0 in a call by itself, the    *)
(* switch is where the levels say: the file wanted is there, the other is  *)
(* gone, whatever earlier and overlapping calls, failures and kills left   *)
(* behind (module_configure.c:206-238).  An empty file counts as the       *)
(* wanted one, as the code does not look into it: it stems from a copy     *)
(* that was killed or met a full disk.                                     *)
JournalFollows ==
  \A a \in Actors :
    act[a].pc = "logged" /\ act[a].alone =>
      /\ journal[Unwanted] = "absent" /\ journal[Wanted] # "absent"
      /\ journal[Wanted] = "empty" => Crashes \/ "fill" \in JournalFaults

(* After a call that succeeds journald's switch follows the levels         *)
(* (debian/changelog:235, "modify the journal log configuration when debug *)
(* is switched"; method_set_debug, bus-service.c:282).                     *)
DebugSwitchesJournal ==
  [][\A a \in Actors :
       Succeeds(a) /\ act[a].alone /\ act[a].pairs # <<>> => journal[Wanted] # "absent"]_vars

(* The two switch files are never both there, which journald would read in *)
(* turn, while only one process can write them, whatever others do, fails  *)
(* or is interrupted (set_journal_log).                                    *)
SwitchesExclude == journal.on = "absent" \/ journal.off = "absent"

(* While the service is the only process that sets levels, the level of    *)
(* "all" it caches is the level in the file (method_set_debug and          *)
(* method_get_state refresh it; "off" may have been read before there was  *)
(* a file).                                                                *)
CacheAgrees ==
  ~ Busy(Service) /\ cached # NoLevel =>
    IF All \in DOMAIN levels THEN cached = levels[All] ELSE cached = Off
=============================================================================
