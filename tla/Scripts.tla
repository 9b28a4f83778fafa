------------------------------- MODULE Scripts -------------------------------
(***************************************************************************)
(* The shell scripts that put a level in force, one definition each: which *)
(* files or dconfig keys a script writes for which word, what it does with *)
(* a word it does not know, whether it goes on when a command fails        *)
(* ("set -e"), and what its option "state" prints.  One script runs at a   *)
(* time, a command a step; commands may fail, and a file may be left half  *)
(* written.  Who starts the scripts and what becomes of their exit status  *)
(* is in DebugConfig; the scripts that edit grub's defaults, installdbg    *)
(* and qt are not modelled here.                                           *)
(*                                                                         *)
(* A target is <<file>> or <<application, configuration, key>>.  A value   *)
(* is a sequence: Unset, Torn (a file without a setting), <<level>>, or    *)
(* the rules of a dconfig key in their order.                              *)
(***************************************************************************)
EXTENDS Naturals, Sequences, FiniteSets

CONSTANTS
  Scripts,    \* the scripts that are run: names of Script
  Reporting,  \* those whose option "state" is asked for
  Words,      \* the words they are given
  MaxRuns,    \* bound: runs in all
  MaxFaults   \* bound: commands that fail

Unset == <<>>
Torn == <<"torn">>

(* A function of one argument, and one put over another: those of TLC,     *)
(* written out because the provers know nothing of TLC.                    *)
d :> e == [x \in {d} |-> e]
f @@ g == [x \in DOMAIN f \cup DOMAIN g |-> IF x \in DOMAIN f THEN f[x] ELSE g[x]]

-----------------------------------------------------------------------------
(* Commands.  Create: unless the file is there; Edit: sed, of a setting    *)
(* that is there; Install: of the package that has the file.  In a file of *)
(* several settings, Clear: the lines of one, unless it has the value;     *)
(* Delete: those with the value; Append: a line with the value, unless it  *)
(* is there.                                                               *)

Command(op, t, v) == [op |-> op, target |-> t, value |-> v]
Set(t, v) == Command("set", t, v)
Remove(t) == Command("remove", t, Unset)
Create(t, v) == Command("create", t, v)
Edit(t, v) == Command("edit", t, v)
Install(t) == Command("install", t, Unset)
Clear(t, v) == Command("clear", t, v)
Delete(t, v) == Command("delete", t, v)
AppendLine(t, v) == Command("append", t, v)

Done(c, conf) ==
  CASE c.op \in {"set", "remove", "append"} -> [conf EXCEPT ![c.target] = c.value]
    [] c.op = "create" -> [conf EXCEPT ![c.target] = IF @ = Unset THEN c.value ELSE @]
    [] c.op = "install" -> conf
    [] c.op = "clear" -> [conf EXCEPT ![c.target] = IF @ = c.value THEN @ ELSE Unset]
    [] c.op = "delete" -> [conf EXCEPT ![c.target] = IF @ = c.value THEN Unset ELSE @]
    [] c.op = "edit" -> [conf EXCEPT ![c.target] = IF @ \in {Unset, Torn} THEN @ ELSE c.value]

IsFile(t) == Len(t) = 1

(* A command that fails changes nothing, or leaves the file it was         *)
(* writing without the setting.                                            *)
Undone(c, conf) ==
  {conf} \cup
  (IF IsFile(c.target) /\ (c.op = "set" \/ (c.op = "create" /\ conf[c.target] = Unset))
     THEN {[conf EXCEPT ![c.target] = Torn]} ELSE {})

-----------------------------------------------------------------------------
(* The rules of a dconfig key.  A rule names a path, whose last part is a  *)
(* level, and turns it on or off.                                          *)

On(path) == [path |-> path, on |-> TRUE]
Off(path) == [path |-> path, on |-> FALSE]
Order == <<"debug", "info", "warning", "error">>
Index(w) == CHOOSE i \in DOMAIN Order : Order[i] = w
Usual == {"debug", "info", "warning"}

(* The levels below the word are turned off for q, the word is turned on   *)
(* for p.                                                                  *)
UpTo(p, q) ==
  [w \in Usual |-> [i \in 1 .. Index(w) |->
                      IF i = Index(w) THEN On(Append(p, w)) ELSE Off(Append(q, Order[i]))]]
(* As UpTo for everything, with qt kept quiet.                             *)
ButQt ==
  [w \in Usual |-> UpTo(<<"*">>, <<"*">>)[w]
                     \o (IF w = "debug" THEN <<Off(<<"qt", "*", "debug">>)>> ELSE <<>>)]
(* One of the levels is turned on and the others off; the order in which   *)
(* some scripts list them is left out.                                     *)
OnlyOne(levels) ==
  [w \in levels |-> [i \in 1 .. Cardinality(levels) |->
                       IF Order[i] = w THEN On(<<"*", w>>) ELSE Off(<<"*", Order[i]>>)]]
KwinRules ==
  [w \in Usual |-> <<Off(<<"kwin_libinput">>)>>
                     \o [i \in 1 .. 3 |-> IF Index(w) <= i THEN On(<<"kwin*", Order[i]>>)
                                                          ELSE Off(<<"kwin*", Order[i]>>)]
                     \o <<Off(<<"kwin_lwl", "debug">>), On(<<"kwin_xwl", "info">>)>>]

(* get_level_from_rules: a part of the path of the last rule that is on.   *)
(* LastPart in most scripts, SecondPart in those that use awk.             *)
LastOn(rules) ==
  rules[CHOOSE i \in DOMAIN rules : rules[i].on /\ \A j \in DOMAIN rules : rules[j].on => j <= i]
LastPart(rules) == LET p == LastOn(rules).path IN p[Len(p)]
SecondPart(rules) == LastOn(rules).path[2]

(* What the rules come to where Qt reads them.  A rule names a category    *)
(* and a level; an empty category is that of no message.  Of the rules of  *)
(* one path the last counts.  A level is selected when a rule turns it on  *)
(* and each level below it is turned off.                                  *)
NoCategory == ""
Says(rules, level, on) ==
  \E i \in DOMAIN rules :
    /\ rules[i].path[1] # NoCategory /\ rules[i].path[Len(rules[i].path)] = level /\ rules[i].on = on
    /\ \A j \in DOMAIN rules : j > i /\ rules[j].path = rules[i].path => rules[j].on = on
Selects(rules, w) ==
  Says(rules, w, TRUE) /\ \A i \in 1 .. Index(w) - 1 : Says(rules, Order[i], FALSE)

-----------------------------------------------------------------------------
(* Families of scripts.  words: known words; first: commands run for every *)
(* word; steps: commands by known word; goal: the values a known word is   *)
(* to leave in the targets; strict: "set -e"; other: exit status for an    *)
(* unknown word; shows: what "state" prints.                               *)

(* One dconfig key; an unknown word is ignored.                            *)
Dconfig(app, id, key, rules) ==
  [words |-> DOMAIN rules,
   first |-> <<>>,
   steps |-> [w \in DOMAIN rules |-> <<Set(<<app, id, key>>, rules[w])>>],
   goal |-> [w \in DOMAIN rules |-> <<app, id, key>> :> rules[w]],
   strict |-> TRUE, other |-> 0, shows |-> "last"]

WithoutSetE(s) == [s EXCEPT !.strict = FALSE]
WithAwk(s) == [s EXCEPT !.shows = "second"]
WithoutState(s) == [s EXCEPT !.shows = "nothing"]

(* Override files, all with the same level; "off" removes them.  The       *)
(* variants: the second file is forgotten; "on" is written as it is.       *)
OverrideWith(files, levels, steps) ==
  [words |-> DOMAIN levels,
   first |-> <<>>,
   steps |-> steps,
   goal |-> [w \in DOMAIN levels |-> [f \in {files[i] : i \in DOMAIN files} |-> levels[w]]],
   strict |-> TRUE, other |-> 1, shows |-> "nothing"]

Write(f, v) == IF v = Unset THEN Remove(f) ELSE Set(f, v)
OverrideFirst(files, levels) ==
  OverrideWith(files, levels, [w \in DOMAIN levels |-> <<Write(files[1], levels[w])>>])
OverrideOn(files, levels) ==
  OverrideWith(files, levels,
    [w \in DOMAIN levels |-> [i \in DOMAIN files |-> IF w = "on" THEN Set(files[i], <<w>>)
                                                    ELSE Write(files[i], levels[w])]])
Override(files, levels) ==
  OverrideWith(files, levels,
    [w \in DOMAIN levels |-> [i \in DOMAIN files |-> Write(files[i], levels[w])]])

SyslogLevels ==
  [w \in {"warning", "debug", "info", "notice", "err", "crit", "alert", "emerg"} |-> <<w>>]
    @@ ("on" :> <<"debug">>) @@ ("off" :> Unset)

(* A file of options that is there or not.                                 *)
Switch(file) ==
  [words |-> {"on", "debug", "off", "warning"},
   first |-> <<>>,
   steps |-> [w \in {"on", "debug"} |-> <<Remove(file), Set(file, <<"debug">>)>>]
               @@ [w \in {"off", "warning"} |-> <<Remove(file)>>],
   goal |-> [w \in {"on", "debug"} |-> file :> <<"debug">>]
              @@ [w \in {"off", "warning"} |-> file :> Unset],
   strict |-> TRUE, other |-> 1, shows |-> "nothing"]

(* Two configuration files that are made if missing, before the word is    *)
(* looked at, and edited; no "set -e".                                     *)
MinLogLevels ==
  [w \in {"debug", "on"} |-> <<"0">>] @@ [w \in {"off", "warning"} |-> <<"2">>]
    @@ ("info" :> <<"1">>) @@ ("error" :> <<"3">>)
MinLogLevel(file, daemon) ==
  [words |-> DOMAIN MinLogLevels,
   first |-> <<Create(file, <<"2">>), Create(daemon, <<"2">>)>>,
   steps |-> [w \in DOMAIN MinLogLevels |->
                <<Edit(file, MinLogLevels[w]), Edit(daemon, MinLogLevels[w])>>],
   goal |-> [w \in DOMAIN MinLogLevels |-> [f \in {file, daemon} |-> MinLogLevels[w]]],
   strict |-> FALSE, other |-> 1, shows |-> "nothing"]

-----------------------------------------------------------------------------
(* The scripts.  Variants: a script that was copied and not adapted; one   *)
(* that splits its rules with awk.                                         *)

DeepinMail == Dconfig("org.deepin.mail", "org.deepin.mail", "log_rules", UpTo(<<"*mail*">>, <<"*mail*">>))
DeepinTerminal == Dconfig("org.deepin.terminal", "org.deepin.terminal", "log_rules",
  UpTo(<<"*terminal*">>, <<"*terminal*">>))
DeepinDefender == Dconfig("deepin-defender", "org.deepin.dde.deepin-defender", "log_rules",
  UpTo(<<"*defender*">>, <<"*defender*">>))
DdeFileManager == Dconfig("org.deepin.dde.file-manager", "org.deepin.dde.file-manager", "log_rules",
  UpTo(<<"*filemanager*">>, <<"*">>))
DdePrinter == Dconfig("dde-printer", "org.deepin.dde.printer", "log_rules",
  UpTo(<<"*dde-printer*">>, <<"*">>))
DeepinLogViewerAwk == WithAwk(Dconfig("org.deepin.log.viewer", "org.deepin.log.viewer", "log_rules",
  UpTo(<<"*log", "viewer*">>, <<"*">>)))
DeepinLogViewer == Dconfig("org.deepin.log.viewer", "org.deepin.log.viewer", "log_rules",
  UpTo(<<"*log", "viewer*">>, <<"*">>))
Deepinid == Dconfig("org.deepin.deepinid", "org.deepin.deepinid", "log_rules",
  UpTo(<<"deepin", "deepinid", "client">>, <<"deepin", "deepinid", "client">>))
DeepinAppStore == WithAwk(Dconfig("deepin-app-store", "org.deepin.app-store", "log_rules",
  UpTo(<<"*app-store*">>, <<"*app-store*">>)))
Kwin == Dconfig("org.kde.kwin", "org.kde.kwin.logging", "log_rules", KwinRules)

(* For "error" the first rule lacks its category.                          *)
CalendarRules ==
  [OnlyOne({"debug", "info", "warning", "error"}) EXCEPT !["error"][1] = Off(<<NoCategory, "debug">>)]
Calendar(part) == Dconfig("org.deepin.dde.calendar", part, "log_rules", CalendarRules)
CalendarClient == Calendar("org.deepin.dde.calendar.client")
CalendarPlugin == Calendar("org.deepin.dde.calendar.plugin")
CalendarService == Calendar("org.deepin.dde.calendar.service")

DtkRules(app, rules) == Dconfig(app, "org.deepin.dtk.loggingrules", "rules", rules)
DdeControlCenter == DtkRules("org.deepin.dde.control-center", ButQt)
DdeDock == DtkRules("org.deepin.dde.dock", ButQt)
DdeLauncher == DtkRules("org.deepin.dde.launcher", ButQt)
DdeLock == DtkRules("org.deepin.dde.lock", ButQt)
DdeOsd == DtkRules("org.deepin.dde.osd", ButQt)
DeepinDeviceManager == WithoutState(DtkRules("org.deepin.devicemanager", OnlyOne(Usual)))

Monitor(part) == WithoutSetE(Dconfig("org.deepin.system-monitor", part, "log_rules", OnlyOne(Usual)))
SystemMonitor == Monitor("org.deepin.system-monitor")
SystemMonitorDaemon == Monitor("org.deepin.system-monitor.daemon")
SystemMonitorPlugin == Monitor("org.deepin.system-monitor.plugin")
SystemMonitorPopupCopied == Monitor("org.deepin.system-monitor.plugin")
SystemMonitorPopup == Monitor("org.deepin.system-monitor.plugin.popup")
SystemMonitorServer == Monitor("org.deepin.system-monitor.server")

License(part, p) == WithAwk(WithoutSetE(Dconfig("org.deepin.license", part, "log_rules", UpTo(p, p))))
LicenseAgent == License("org.deepin.license.agent", <<"*license", "agent*">>)
LicenseAppgui == License("org.deepin.license.appgui", <<"*license", "appgui*">>)
LicenseCmd == License("org.deepin.license.cmd", <<"*license", "cmd*">>)
LicenseGui == License("org.deepin.license.gui", <<"*license", "gui*">>)

Support(part, p) ==
  WithAwk(WithoutSetE(Dconfig("org.deepin.uos-service-support", part, "log_rules", UpTo(p, p))))
SupportAgent == Support("org.deepin.uos-service-support.agent", <<"*uos-service-support", "agent*">>)
SupportGui == Support("org.deepin.uos-service-support.gui", <<"*uos-service-support", "gui*">>)

Systemd == Override(<< <<"/etc/systemd/system.conf.d">>, <<"/etc/systemd/user.conf.d">> >>, SyslogLevels)
Logind == Override(<< <<"/etc/systemd/system/systemd-logind.service.d">> >>, SyslogLevels)
Udev == Override(<< <<"/etc/systemd/system/systemd-udevd.service.d">> >>, SyslogLevels)
Pulseaudio == Override(<< <<"/etc/pulse/daemon.conf.d">> >>, SyslogLevels)
NetworkManager == WithoutSetE(Override(<< <<"/etc/NetworkManager/conf.d">> >>,
  [w \in {"on", "debug"} |-> <<"TRACE">>] @@ ("warning" :> <<"WARN">>) @@ ("off" :> Unset)
    @@ [w \in {"TRACE", "DEBUG", "INFO", "WARN", "ERR", "OFF"} |-> <<w>>]))
Pipewire == Override(<< <<"/etc/pipewire/pipewire-pulse.conf.d">>, <<"/etc/pipewire/pipewire.conf.d">> >>,
  [w \in {"on", "debug"} |-> <<"4">>] @@ ("err" :> <<"1">>) @@ ("warning" :> <<"2">>)
    @@ ("info" :> <<"3">>) @@ ("trace" :> <<"5">>) @@ ("off" :> Unset))

Wpa == Switch(<<"deepin_wpa_supplicant.conf">>)
Bluetooth == Switch(<<"deepin-bluetoothd.conf">>)

CooperationDaemon == <<"/etc/dde-cooperation-daemon/config/log.conf">>
DdeCooperation == MinLogLevel(<<"/etc/dde-cooperation/config/log.conf">>, CooperationDaemon)
DataTransfer == MinLogLevel(<<"/etc/deepin-data-transfer/config/log.conf">>, CooperationDaemon)

(* The environment of sessions, and an override that the quiet levels      *)
(* remove.                                                                 *)
DdeEnv == <<"/etc/profile.d/deepin-system-upgrade-tool.sh">>
DdeOverride == <<"/etc/X11/Xsession.d/98-deepin-debug-config-dde">>
DdeLevels == ("on" :> "debug") @@ ("off" :> "warning")
               @@ [w \in {"warning", "debug", "info", "error", "fatal", "disable"} |-> w]
DdeKeeps(w) == IF DdeLevels[w] = "warning" THEN Unset ELSE <<DdeLevels[w]>>
Dde ==
  [words |-> DOMAIN DdeLevels,
   first |-> <<>>,
   steps |-> [w \in DOMAIN DdeLevels |->
                <<Remove(DdeEnv), Set(DdeEnv, <<DdeLevels[w]>>), Write(DdeOverride, DdeKeeps(w))>>],
   goal |-> [w \in DOMAIN DdeLevels |->
               (DdeEnv :> <<DdeLevels[w]>>) @@ (DdeOverride :> DdeKeeps(w))],
   strict |-> TRUE, other |-> 1, shows |-> "nothing"]

(* The setting Storage of systemd-coredump, whose package is installed for *)
(* either word; dumps are kept unless it is "none".                        *)
CoredumpConf == <<"/etc/systemd/coredump.conf">>
NoStorage == <<"none">>
SettingCoredump ==
  [words |-> {"on", "off"},
   first |-> <<>>,
   steps |-> ("on" :> <<Install(CoredumpConf), Delete(CoredumpConf, NoStorage)>>)
               @@ ("off" :> <<Install(CoredumpConf), Clear(CoredumpConf, NoStorage),
                              AppendLine(CoredumpConf, NoStorage)>>),
   goal |-> ("on" :> (CoredumpConf :> Unset)) @@ ("off" :> (CoredumpConf :> NoStorage)),
   strict |-> TRUE, other |-> 1, shows |-> "nothing"]

Script ==
  [mail |-> DeepinMail, terminal |-> DeepinTerminal, defender |-> DeepinDefender,
   fileManager |-> DdeFileManager, printer |-> DdePrinter, logViewer |-> DeepinLogViewer,
   deepinid |-> Deepinid, appStore |-> DeepinAppStore, kwin |-> Kwin,
   calendarClient |-> CalendarClient, calendarPlugin |-> CalendarPlugin,
   calendarService |-> CalendarService, controlCenter |-> DdeControlCenter, dock |-> DdeDock,
   launcher |-> DdeLauncher, lock |-> DdeLock, osd |-> DdeOsd, deviceManager |-> DeepinDeviceManager,
   monitor |-> SystemMonitor, monitorDaemon |-> SystemMonitorDaemon,
   monitorPlugin |-> SystemMonitorPlugin, monitorPopup |-> SystemMonitorPopup,
   monitorServer |-> SystemMonitorServer, licenseAgent |-> LicenseAgent,
   licenseAppgui |-> LicenseAppgui, licenseCmd |-> LicenseCmd, licenseGui |-> LicenseGui,
   supportAgent |-> SupportAgent, supportGui |-> SupportGui, systemd |-> Systemd,
   logind |-> Logind, udev |-> Udev, pulseaudio |-> Pulseaudio, networkManager |-> NetworkManager,
   pipewire |-> Pipewire, wpa |-> Wpa, bluetooth |-> Bluetooth, cooperation |-> DdeCooperation,
   dataTransfer |-> DataTransfer, dde |-> Dde, coredump |-> SettingCoredump]

ASSUME BoundsGiven == MaxRuns \in Nat /\ MaxFaults \in Nat
ASSUME ScriptsAreKnown == Scripts \subseteq DOMAIN Script
ASSUME ReportingHaveState ==
  Reporting \subseteq {s \in Scripts : Script[s].shows # "nothing"}

-----------------------------------------------------------------------------
VARIABLES
  conf,    \* the targets' values
  run,     \* the script that runs: its word, its next command, whether one failed
  told,    \* by script: the word of its last run, if it succeeded and was known
  clean,   \* by script: no command failed in that run
  runs,    \* runs so far
  faults   \* failed commands so far
vars == <<conf, run, told, clean, runs, faults>>

Unknown == "unknown"
Idle == [script |-> "none", word |-> Unknown, at |-> 0, failed |-> FALSE]
TargetsOf == [s \in Scripts |-> UNION {DOMAIN Script[s].goal[w] : w \in Script[s].words}]
Targets == UNION {TargetsOf[s] : s \in Scripts}

Commands(s, w) == Script[s].first \o (IF w \in Script[s].words THEN Script[s].steps[w] ELSE <<>>)

Init ==
  /\ conf = [t \in Targets |-> Unset]
  /\ run = Idle
  /\ told = [s \in Scripts |-> Unknown]
  /\ clean = [s \in Scripts |-> FALSE]
  /\ runs = 0
  /\ faults = 0

Start(s, w) ==
  /\ run = Idle
  /\ runs < MaxRuns
  /\ run' = [script |-> s, word |-> w, at |-> 1, failed |-> FALSE]
  /\ runs' = runs + 1
  /\ UNCHANGED <<conf, told, clean, faults>>

NextCommand == Commands(run.script, run.word)[run.at]
Left == run # Idle /\ run.at <= Len(Commands(run.script, run.word))

Succeed ==
  /\ Left
  /\ conf' = Done(NextCommand, conf)
  /\ run' = [run EXCEPT !.at = @ + 1]
  /\ UNCHANGED <<told, clean, runs, faults>>

(* A run that ends with an error leaves the level unknown.                 *)
Abort ==
  /\ run' = Idle
  /\ told' = [told EXCEPT ![run.script] = Unknown]
  /\ clean' = [clean EXCEPT ![run.script] = FALSE]

Fail ==
  /\ Left
  /\ faults < MaxFaults
  /\ conf' \in Undone(NextCommand, conf)
  /\ faults' = faults + 1
  /\ IF Script[run.script].strict
       THEN Abort
       ELSE /\ run' = [run EXCEPT !.at = @ + 1, !.failed = TRUE]
            /\ UNCHANGED <<told, clean>>
  /\ UNCHANGED runs

(* The script is killed.                                                   *)
Kill ==
  /\ run # Idle
  /\ faults < MaxFaults
  /\ faults' = faults + 1
  /\ Abort
  /\ UNCHANGED <<conf, runs>>

(* The end of a run.  A run with an unknown word, which is refused or      *)
(* ignored, leaves the level as it was.                                    *)
Exit ==
  /\ run # Idle
  /\ ~ Left
  /\ IF run.word \in Script[run.script].words
       THEN /\ told' = [told EXCEPT ![run.script] = run.word]
            /\ clean' = [clean EXCEPT ![run.script] = ~ run.failed]
       ELSE UNCHANGED <<told, clean>>
  /\ run' = Idle
  /\ UNCHANGED <<conf, runs, faults>>

Next == (\E s \in Scripts, w \in Words : Start(s, w)) \/ Succeed \/ Fail \/ Kill \/ Exit

Spec == Init /\ [][Next]_vars

-----------------------------------------------------------------------------
(* Properties.                                                             *)

(* Every target has a value that some script is to give it.                *)
Writers(t) == {s \in Scripts : t \in TargetsOf[s]}
TypeOK ==
  /\ \A t \in Targets :
       conf[t] \in {Unset} \cup (IF IsFile(t) THEN {Torn} ELSE {})
                  \cup UNION {{Script[s].goal[w][t] : w \in Script[s].words} : s \in Writers(t)}
  /\ run = Idle \/ (run.script \in Scripts /\ run.word \in Words)
  /\ \A s \in Scripts : told[s] \in (Words \cap Script[s].words) \cup {Unknown}
  /\ clean \in [Scripts -> BOOLEAN]
  /\ runs \in 0 .. MaxRuns /\ faults \in 0 .. MaxFaults

(* The targets have the values of the script's last word.                  *)
Written(s) == \A t \in DOMAIN Script[s].goal[told[s]] : conf[t] = Script[s].goal[told[s]][t]

(* Where the script itself has the rules wrong: "error" does not turn      *)
(* debug off in the three of the calendar.                                 *)
Mistaken == {"calendarClient", "calendarPlugin", "calendarService"} \X {"error"}

(* And the rules in a dconfig key select that level, whatever list the     *)
(* script was made to write; but for the words that are mistaken.          *)
InForce(s) ==
  /\ Written(s)
  /\ \A t \in TargetsOf[s] :
       IsFile(t) \/ <<s, told[s]>> \in Mistaken \/ Selects(conf[t], told[s])

(* What a script with "set -e" has reported as done is in force, and stays *)
(* so: whatever failed before it, in this script's runs or another's, and  *)
(* whatever other scripts write or are refused afterwards.  In force: the  *)
(* files and keys have the word's values, and the rules of a key select    *)
(* the word's level (of the calendar's three, for every word but "error"). *)
StrictInForce ==
  run = Idle =>
    \A s \in Scripts : Script[s].strict /\ told[s] # Unknown => InForce(s)

(* The same for every script, of runs in which no command failed: a run    *)
(* after a failed one sets things right, and no two of the scripts that    *)
(* are run meet in a file or a key.                                        *)
CleanInForce ==
  run = Idle =>
    \A s \in Scripts : clean[s] => InForce(s)

(* The option "state" prints the level that was set (the template          *)
(* example_debug.sh.example asks for the current level).                   *)
Printed(s) ==
  LET rules == conf[CHOOSE t \in TargetsOf[s] : TRUE]
  IN IF Script[s].shows = "last" THEN LastPart(rules) ELSE SecondPart(rules)
StateTells ==
  run = Idle =>
    \A s \in Reporting : clean[s] => Printed(s) = told[s]
=============================================================================
