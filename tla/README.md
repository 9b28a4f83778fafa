# Formal models of deepin-debug-config

TLA+ models of deepin-debug-config, which switches the debug levels of the
modules of a deepin/UOS system, model-checked with TLC and proved with TLAPS.
Paths are relative to the repository (`src/`).

## 1. The system

### Components

| component | state it keeps | operations | code |
|---|---|---|---|
| levels file | `/var/lib/deepin-debug-config/deepin-debug-levels.cfg`, one `key=value` line per module, plus the pseudo modules `all` and `coredump`; the transient `<file>.bak` | record a level, ask for a level, "is any line on?" | `module_configure.c` 240-592 |
| setting levels | the level each script has put in force; journald's two switch files; the cache `debug_level` | set by name or all, check the log switch, coredump | `module_configure.c` 594-960 |
| D-Bus service | the queue of calls, the property `AllDebugLevel` | SetDebug, InstallDbg, SetCoredump, GetState, property read, MethodFinished signal, polkit check | `bus-service.c` |
| command line | none | `--set`, `--get`, `--module`, `--coredump`, `--installdbg` | `main.c` |
| module table | the json descriptions in `deepin-debug-config.d` as one process read them, with the digests compiled into its library | init, parse, free, use of an entry | `module_configure.c` 20-170, 960-1080, `generate_sha256.c` |
| shell scripts | one per submodule: override files, dconfig keys, grub, apt sources | `debug=`, `info=`, ... | `out/deepin-debug-config/shell` |
| process execution | pipe, child, argument array and output buffer of one `start_process` | run a script, a query of dpkg, an installation; read its output; wait for it | `util.c` 446-596 and its callers in `module_configure.c` |
| utilities | none | string helpers, SHA-256 of a file | `util.c`, `util.h` |
| digest generator | none | writes the table of the scripts' digests at build time | `generate_sha256.c` |
| cJSON | vendored parser: the tree of one file | parse, look up | `cJSON.c` |

### How they interact

The service and the command line are **separate processes** that link the same
library.  They share, with no lock, the levels file, the switch files of
journald and everything the scripts write.  The package's `postinst` removes
the levels file and runs the command line.  Within the service everything runs
in one thread: a handler blocks while polkit asks the user and while scripts
run; sd-bus queues the other calls.

### What is hard

* updates of one file by two processes through a fixed backup name, with
  crashes, failing copies and full disks between the calls;
* several scripts per call, each of which may fail, ignore the level or hide
  its failure; what is recorded must agree with what is in force;
* results that are dropped (`config_module_check_log`, `modify_debug_levels`
  in the loop, `fclose`) or that mean two things (`check_package_installed`: no
  such package, or dpkg could not be asked);
* an error set for sd-bus beside a result of the handler: two places that reply;
* cached and announced values (`AllDebugLevel`, the module table);
* parent and child on two ends of a pipe of bounded size, with system calls that
  may fail between any two steps;
* an argument parser that counts words while `getopt_long` rearranges them;
* waiting on polkit and on scripts in the only thread; a signal that does not
  say whose call has finished.

`PROJECT.json`, "hazards", lists them with their lines and the properties that
watch them.

### What makes each component correct

* **levels file** - an update that returns 0 is in the file; a reader sees the
  file before or after an update, never a torn one; no debris; updates keep the
  other modules' lines.
* **setting levels** - success means recorded *and* in force; nothing is
  recorded that is not in force; journald's switch follows the levels; the
  cached level is that of the file; the reboot hint is right.
* **D-Bus service** - one reply per call, in order, only for authorized callers,
  the same outcome in the reply and in the signal; every call ends.
* **shell scripts** - exit 0 means that the level is in force; scripts do not
  undo one another; `state` prints what was set.
* **module table** - a process that has loaded its table has every usable file
  that was there all the time and could be read (an upgrade meanwhile may give it
  files of both versions), or else it exits; an entry it uses has all it needs; a
  process started after an upgrade has every module and refuses none of its
  scripts.
* **command line** - what the program does is what the line says; the usual
  order of options is obeyed.
* **process execution** - nothing stays open, allocated or unreaped whichever
  call failed; an output that counts is whole; success means that every program
  ran to its end and exited with 0.

## 2. Modules

| module | models | state |
|---|---|---|
| `AbstractLevelStore` | the promise of the levels file: an atomic map | `levels`, updates and queries in progress |
| `LevelStore` | `modify_debug_levels`, `mod_config`, `config_module_get_debug_level_by_type`, one action per system call | names `conf`, `bak` pointing to inodes, their `data`, per process a program counter, streams, stdio buffer |
| `LevelStoreProofs` | theorems about `LevelStore` | - |
| `ModConfig` | `mod_config` line by line | `file`, a sequence of lines |
| `ModConfigProofs` | theorems about `ModConfig` | - |
| `DebugConfig` | `method_set_debug` / `--set`, `config_modules_set_debug_level_internal`, `_all`, `config_module_check_log`, `set_journal_log`, `config_system_coredump`, `method_get_state`'s refresh | levels in force (`applied`), levels file (`exists`, `levels`), `journal`, `cached`, what was passed over (`skipped`, `unsaved`), per process the call in progress |
| `DebugConfigProofs` | theorems about `DebugConfig` | - |
| `AbstractBusService` | the promise of the service: calls carried out in turn | the calls with their answers, the level |
| `BusService` | `main`'s loop, handlers, polkit, bus activation, as clients see them | `calls` (all so far, with replies), `queue`, the service's program counter |
| `BusServiceProofs` | theorems about `BusService` | - |
| `StartProcess` | `start_process`, `read_from_fd`, their callers, and the program that is run | the caller's place, pipe, descriptors, heap, argument array, output buffer, the child |
| `StartProcessProofs` | theorems about `StartProcess` | - |
| `ModuleTable` | `init_module_cfgs`, `parse_hook_json_file`, cJSON's lookups, the digest check, while dpkg replaces the package | installed files, library version, per process the table it read |
| `ModuleTableProofs` | theorems about `ModuleTable` | - |
| `CliArgs` | `main`'s option parsing with `getopt_long`'s permutation, `check_g_cfg_is_valid`, the calls that follow | the words, getopt's indices, main's count, the configuration |
| `CliArgsProofs` | theorems about `CliArgs` | - |
| `Scripts` | 41 scripts of `out/deepin-debug-config/shell`, command by command | `conf`: what each file or dconfig key holds |
| `ScriptsProofs` | theorems about `Scripts` | - |

Each `MC*` module instantiates one of these for TLC.  Definitions that a comment
calls a variant are plausible bugs: each shows that a property can fail.

`LevelStore` implements `AbstractLevelStore` (`AtomicStore`: an `INSTANCE` with
`levels <- Recorded`, the map that the file's lines make).  What that shows -
an update is one step or none - is how `DebugConfig` uses the file: `Modify` is one
action.  `BusService` implements `AbstractBusService` (`InTurn`): an abstract call is
answered when the concrete one gets its first reply, and is "failing" between
the work that failed and the error reply that sd-bus sends after the signal; a
call that was cut short has an answer of its own there.
In the same way the action `Polkit`/`Work...` of `BusService` stands
for a whole call that `DebugConfig` takes apart, and `Runs` of `DebugConfig`
(a script applies, ignores, rejects, fails, hides a failure) for the scripts
that `Scripts` takes apart.

### LevelStore

A file is an inode; `fopen`, `rename`, `unlink` act on names, open streams keep
their inode.  `Access`, `Create`, `OpenConf`, `OpenBak`, `CopyLines`,
`CloseStreams`, `Rename` are the calls of a writer in their order;
`ReadAccess`, `ReadOpen`, `ReadLines` those of a reader; `FailToOpen`,
`FailToCopy`, `RenameFailed`, `Crash` and `RemoveConf` (postinst) the faults.
After a rename that failed, and at `fail_rw` after both streams are closed,
`Unlink` is a step of its own: between it and the call before it another process
may make or rename a `.bak`.  Abstractions: a file is shorter than
one stdio buffer, so it is read by one `read` and written by the one `write` of
`fclose`; lines have one length, so that overlapping writers overlay whole
lines; `modify_debug_levels` passes one item.  Deployment constants: `Overlap`
(two processes inside at once), `OpenFails`, `CopyFails`, `DiskFull`,
`RenameFails`, `Crashes`, `Upgrade`.  `CopyFails` has the results that a failing
copy may have: most places set `ret`, but a `malloc` that fails for a longer line
(474-476) and a new line that cannot be printed (538-540) leave it as it is, so
that 0 may be returned with nothing recorded.  `level_store` has only "failed"
there: the abstract map lets a call be abandoned with each result in `CopyFails`,
so that an "ok" among them would also let the map forget an update that was
recorded; `level_store_overlap` has both, and the theorems hold for either.

### ModConfig

What a line is for the two parsers of the file (`getline`/`sscanf` of the
readers, `fgets` with a doubling buffer of `mod_config`): a setting, a setting
with spaces (only `mod_config` sees its key), a comment, anything else; its
length; whether it ends with a newline.  `LINE_BUF_SIZE` is scaled down to 4.
How the buffer grows after a comment that did not fit is left out.  The loops are
recursive functions: `Copied` gives the state behind each line, `Power` the
buffer's growth.

### DebugConfig

One action per script run (with the question to dpkg that follows a failure),
per update or reading of the file, and per half of `set_journal_log`.  `alone`
is a history variable of a call: no other call ran beside it.  The properties
speak of such calls only, since the code promises nothing of overlapping ones;
what overlapping calls, crashes and upgrades leave behind is the starting point
of the next call, which has to set it right. `Requests` are lists of (module,
level) pairs as `SetDebug` takes them; an unknown name and pairs behind "all"
occur.  The order in which `config_modules_set_debug_level_all` meets the
modules (a hash table's) is arbitrary.

`check_package_installed` may say "absent" of an installed package, when
`dpkg-query` fails or cannot be run (`QueryFails`): the script that failed is then
passed over, its level recorded and success answered.  Likewise a record that
fails changes no answer (`StoreFails`).  Both are what the code does, and the
properties say so: `skipped` has the submodules whose script failed last and was
passed over although the package is there, `unsaved` the names whose last record
failed, and `SuccessMeansDone` and `RecordedIsInForce` except these and no others.
`Sandboxed` are the processes whose unit forbids writing journald's directory:
removing and creating fail for them.  The place "logged" of a call is the one where
`config_module_check_log` has returned 0, which neither caller looks at;
`JournalFollows` speaks of it, while `DebugSwitchesJournal` speaks of the answer.

### BusService

A call is a record in `calls`; the service takes the head of `queue`, asks
polkit, works, replies, signals.  A handler's effect is one step (its parts are
in `DebugConfig`); its failure may leave the level set or not.  `end` says how the
loop over the pairs ended: with all of them, at one that could not be read
("unread": the error is set, `ret` is not, and the pairs so far count), or by
giving up with a negative result ("gaveUp": no signal).  `Finish` lets sd-bus send
the error reply whenever the handler has set an error, also behind the handler's
own method return: that call ends as "cut", the only one with two replies.  That
sd-bus itself can send is taken for granted.  Clients wait,
time out (which the service does not learn), or leave the bus.  `InstallDbg`
has the form of `SetCoredump` and is represented by it.

### StartProcess

Parent and child are two processes that interleave: `Begin`, `Start`, `Pipe`,
`Fork`, `CloseWriteEnd`, `OpenStream`, `Gets`, `Grow`, `AppendGot`, `ReadEnd`,
`Wait`, `Answer` are the parent's calls in their order, each with the failure it
can meet; `Exec`, `WriteByte`, `Exit`, `Kill` are the child's.  Bytes are
counted, not distinguished; of the output only its length and whether it begins
with "ii" matter.  Names are sequences of characters, since the argument array
is sized by counting spaces and filled by `strtok`; the characters that have a
meaning are the space and those `start_process` refuses.  `Requests` are the
three callers: a script (after the digest check), `dpkg-query` (the only one
that wants output), `installdbg.sh` for a list of names, stopped at the first
failure.

### ModuleTable

`Start`, `OpenDir`, `ReadEntry`, `Parse`, `Loaded` are the steps of a process
that loads (`OpenDirFails`, `ParseFails`: the directory cannot be opened, which
ends the load, or a file cannot be opened or read to its end, which leaves it
out), `Ask`, `RunScript`, `SetDone`, `Exit` those of its use of the table; dpkg
(`Upgrade`, `Unpack`, `RenameFile`, `RenameScript`, `RenameLibrary`, `Remove`,
`Configure`) renames files, scripts and library in between, one by one, in any
order.  Contents of files are strings, their trees constants of the version, so
that a digest or a parse of an old file is one of the old version.  A foreign
file in the directory may be no JSON, lack members or have them in the wrong
type.  An entry that is used looks up its scripts, compares digests and runs
them.

### CliArgs

A line is a sequence of words, each of which stands for options (`LettersOf`),
perhaps with a parameter glued to the last one (`Attached`), or for none; the
model is `getopt_long`'s permutation word by word beside `main`'s own counter,
then what `main` calls.  `Plan` is what reaches the library; `ReadWords` is what
the first words of the same line say by the usage text, `Reading` what all of
them say, which the properties compare it with.  The word `--`, at which
`getopt_long` stops, is not among the words.

### Scripts

One definition per script, built from the forms the scripts come in: dconfig
rules, systemd override files, a switch on/off, `g_minLogLevel`, dde's own, and
the setting of systemd-coredump.  What a script is to bring about is said twice:
its targets hold what the word's list has (`Written`), and, apart from the
script, the rules in a dconfig key turn the level on and each lower one off as
Qt reads them (`Selects`).  A list with a mistake in it is written faithfully
and does not select its level: `.debug=false`, without the star, in the three
calendar scripts, whose word "error" is the one exception (`Mistaken`).  A step
is a command; a failing command changes nothing or leaves the file without its
setting; scripts with `set -e` end there, others go on.  One script runs at a
time.  Not distinguished: the order of rules of which a single one is on; words
that are unknown leave the level, whether refused or ignored.

## 3. Runs

| run | instance | shows |
|---|---|---|
| `level_store` | 2 writers in turn, 1 reader, 2 keys, 2 levels, 3 inodes; failing opens, copies and renames, kills at any point | `StoreInv`, and the file is an atomic map (`AtomicStore`) |
| `level_store_overlap` | 2 writers at once, 1 key, upgrades, full disks, failing opens, copies and renames | no `.bak` is left (`NoLeftover`) |
| `level_store_lost_update` | 2 writers at once, no fault | **violated**: an update that returned 0 is not in the file |
| `debug_config_two` | sandboxed service and command line at once, 1 module with 1 script; scripts, dpkg-query, the levels file and journald's files may fail; kills, upgrades | `SuccessMeansDone`, `RecordedIsInForce`, `JournalFollows`: a call that ran alone does what it reports; the two switch files exclude each other (`SwitchesExclude`) |
| `debug_config_service` | the service, modules with 2 and 1 scripts, 3 levels of which scripts reject or ignore some, missing packages, failing dpkg-query, lists of pairs, kills | `SuccessMeansDone`, `RecordedIsInForce`, `CacheAgrees`, `RebootTold` |
| `debug_config_journal` | the service in its sandbox, one module, no fault | **violated**: after a call that succeeded journald has no switch file (`DebugSwitchesJournal`) |
| `bus_service` | 2 clients, 2 calls, 2 levels, pairs that fail or cannot be read | `OneReply`, `OnlyAllowed`, `SignalTellsReply`, `EveryCallEnds`; the service implements `AbstractBusService` (`InTurn`) |
| `mod_config` | files of up to 3 lines of all kinds and 5 lengths around the buffer's; of up to 2 with a bare last line | updates of proper files do what they promise; proper files stay proper |
| `scripts` | all scripts but the two that share a file, any two runs, six words, one failing command or kill; "error" of the calendar's three excepted | `StrictInForce`, `CleanInForce`, `StateTells` |
| `start_process` | 5 names (one word, two, none, a refused character, spaces only), up to 2 names installed, outputs of 0 to 4 bytes, a pipe of 2, a buffer of 3 | `ArgsFit`, `NothingLeft`, `OutputWhole`, `ReplyTells`; every request ends but for one case (`EveryStartEnds`) |
| `module_table` | 2 versions, one upgrade, 4 description files of which one is foreign (4 kinds), 3 scripts, a directory and files that may fail to be read, a process that loads, runs and is restarted | `LoadedWhole`, `Usable`, `FreshWorks`; loading succeeds in the end (`LoadHeals`) |
| `cli_args` | all lines of up to 5 of 11 words | `ActsAsRead`, `ObeysOrdered` |

**Bounds.** *Inodes*: a file in place, its backup, and a deleted one that a
stream keeps open; the overlapping writers have a deleted one each.  *Keys*: one
that is set and one that must be kept; `NoLeftover` does not look at contents
and gets one.  *Two pairs, two modules*: "the last pair", "the first that
fails", "behind all" are different pairs; a module with two scripts has a first
one that fails and a last one that does not.  *Two calls* in `bus_service`: one
is queued behind the other, of the same client (time-out and retry) or of
another; both may be queued while the service is down.  The restart after `Die`
is bounded by the calls.  *Two runs* in `scripts`: a faulty one and its repair,
or one script and another that writes the same.  *Lengths* 2, 3, 4, 6, 7 with a
buffer of 4: fits, fills `fgets`' 3 characters, one more, and the same at the
next doubling (6).  *Outputs and sizes* in `start_process`: 4 bytes are more
than the pipe holds (the child waits), more than one `fgets` gets (2) and more
than the buffer holds (3), so that it grows, once when the bytes just fit and
once when they do not; two names, so that the second may fail after the first
succeeded.  *Words* of `cli_args`: each option, a stray word, a level, a name, a
parameter glued to its option, options joined in one word (`-gl`, and `-lm`,
whose parameter both readers take); five words are two options with parameters
and one stray word, the shortest line in which `getopt` permutes behind `main`'s
count.  *One upgrade*: a table of version 1, of version 2 and of a mixture.
There is no bound on the number of calls in `LevelStore` and `DebugConfig`:
their states are finite.

**Symmetry and views.** `MCLevelStore` permutes inodes and writers, which no
action distinguishes; its view drops the content of deleted files and the
arguments of returned calls, which no action reads before it overwrites them,
and the outcomes of finished calls, which no action reads.  The views of
`MCDebugConfig` drop the replies, and the cache (`SharedView`) or journald's
files and the packages that dpkg would not find under the submodule's name
(`ServiceView`): the run checks nothing about them and no action that matters to
it reads them (a script may fail whether or not its package is there).  The
action properties depend only on steps out of states the view keeps apart.
`bus_service` checks liveness and uses neither.

**Deadlock** is checked in the runs of `LevelStore`, `ModConfig` and
`DebugConfig`, which are never out of things to do.  `BusService` and `Scripts`
stop when their bounded calls are used up, `CliArgs` when `main` returns;
`ModuleTable` and `StartProcess` are checked too.

**Fairness.**  `BusService`: `WF(Serve)` - the process runs its
loop and scripts end - and `WF(Polkit)` - whoever polkit asks answers.  The
second is an assumption about the user: `bus-service.c:151` waits for polkit
without a timeout, and without it `EveryCallEnds` fails.  Nothing makes a client
time out or leave, and nothing makes the service die; if it dies, the bus
answers.  `StartProcess`: `WF(ParentStep)` and `WF(ChildStep)` - both processes are
scheduled and programs come to an end; nobody has to call or to kill.
`ModuleTable`: dpkg goes on with an upgrade it has begun, the loading process is
scheduled, one that exited because its table did not load is started again
(the bus does so for the next call), and `opendir` does not fail for ever
(`SF(OpenDir)`, an assumption about the system).  The other modules assume none.

## 4. Theorems

### LevelStoreProofs

For all sets of writers, readers, keys, levels and inodes:

* `TypeCorrect`: `Spec => []TypeOK`, in every deployment.  Inductive invariant
  `TypeInv`: `TypeOK` with what it needs about streams - a writer between
  `fopen` and `fclose` has both streams, a reader that reads has one.
* `StoreInvariant`: `Spec => []StoreInv`, for writers that take turns
  (`TakeTurns`: `~Overlap`, `~DiskFull`, `~Upgrade`; kills and opens, copies and
  renames that fail are allowed).  `StoreInv` is inductive together with
  `TypeInv`: the `.bak` that `rename` installs is the current content with one
  item added because it was truncated by this writer, no reader has it open, and
  the content read was the one in place.  The lemmas about `Updated` (keys stay
  listed once, other keys keep their value) carry the induction step.
* `StoreIsAtomic`: `Spec => AtomicStore`, the refinement, from the same
  assumption: `Rename` is the commit, `FailToOpen`, `Unlink` and `Crash` abandon, all
  other steps of a writer are stuttering steps, a query is answered when its
  file is opened.

* `TurnsRecord`: `Spec => SuccessRecorded`, from the same assumption and
  `"ok" \notin CopyFails` (a failing copy that returns 0 records nothing): the
  property that `level_store_lost_update` refutes for overlapping writers.
  `TakeTurns` is what a lock around `modify_debug_levels` would establish.
* `NothingLeftOver`: `Spec => []NoLeftover` where no process is killed
  (`~Crashes`), with overlapping writers, full disks, upgrades and opens, copies
  and renames that fail.  Inductive invariant `BakUsed`: a `.bak` is there only
  while some writer is behind its `OpenBak` and before its `Rename` or `Unlink`;
  both take the name away whoever made it, and no way out is without one of them.

### ModConfigProofs

For all keys, levels, sizes of the buffer and files of any number of lines of
any length, from `GarbledIsNew`, `SizesGiven` and `FilesGiven`:

* `TypeCorrect`: `Spec => []TypeOK`, for any file.
* `UpdatedInPlace`: on a proper file `Modified(f, e) = InPlace(f, e)`, which
  replaces the first line with the key or appends the item.  This is `Updated` of
  `LevelStore`, so the loop over lines and buffers is what the other module
  takes it for.
* `UpdatesKeepRest`: `Spec => []UpdatesProper`; `ProperForEver`:
  `Spec => StaysProper`.  Both follow from `UpdatedInPlace`.

The loop is a recursive function and the statement about it an induction over
the lines.  The library's induction theorems cannot be used, but a set of
natural numbers has a least element (`WFMin`): the least round in which the
statement would fail has a predecessor in which it holds (`Induction`).  The
same lemma shows that the functions exist and are the only ones that satisfy
their equations (`LoopExists`, `LoopIsUnique`), that the buffer outgrows any
line (`ReadAfterGrows`), so that `Doublings` denotes a number, and what the loop
has made of the first n lines (`RoundsOfProper`): a comment never stays in the
buffer, no line is forgotten, and the lines so far are copied but for the first
with the key.

### DebugConfigProofs

For all modules, submodules, levels, requests and faults, from
`ModulesAreNoPseudo`, `SubsOfIsSequence`, `LevelsGiven` and `RequestsGiven`.  All
rest on `Base` - the types of the state and of the calls, and for each place in a
call what its fields hold there - and on one lemma per action that says what the
step leaves alone.

* `Typing`: `Spec => []TypeOK`.
* `RecordsWhatIsInForce`: `Spec => RecordedIsInForce`.  `ForceInv`: for a call
  that runs by itself, the submodules that it has behind it in the current
  module, and the modules behind it in the current pair, have the level asked
  for in force as long as no script has failed, but for those in `skipped`, which
  a failing dpkg-query has put there.
* `SuccessIsDone`: `Spec => SuccessMeansDone`, when no script belongs to two
  modules (`NoSharedScripts`): such a script would undo for one what it did for
  the other.  `ProgressInv` relates the pairs of a call to those behind it;
  `SuccessOk` says that for each module among them the last level asked for is
  recorded, or `unsaved`, and in force.
* `TellsToReboot`: `Spec => RebootTold`, from what the pairs so far amount to
  (`RebootOk`).
* `JournalIsRight`: `Spec => []JournalFollows`, whatever fails and whichever
  processes are sandboxed: a call by itself in which `config_module_check_log` has
  returned 0 has its switch right (`JournalOk`), and only a kill or a full disk
  leaves a file half written (`Whole`).  What it does not say is that the check
  succeeds: in the service's sandbox it does not.
* `SwitchesApart`: `Spec => []SwitchesExclude` where at most one process is outside
  the sandbox (`OneWriter`: the command line beside the service), whatever fails:
  at the place where a switch file is installed the other has been removed
  (`Removed`).
* `CacheIsFile`: `Spec => []CacheAgrees` where the service is the only process that
  sets levels (`Alone`), without upgrades and with a file that can be written
  (`CacheInv`: the service is told of `off` before there is a file).

### BusServiceProofs

For all clients, levels, results of a call's pairs and numbers of calls, from
`InitialIsNoRequest` and `ResultsGiven`:

* `TypeCorrect`, `OneReplyEach`, `OnlyAllowedChanges`, `SignalAgrees`: the
  invariants and action properties of the run.  None is inductive as it stands.
  `Inv` adds what each place of the service knows of the current call
  (`Present`: not answered while polkit is asked and while the work is done;
  allowed when the work begins; when the signal is sent, answered exactly if no
  pair failed and the handler did not give up), that nothing in the queue has been
  answered and that the queue has the order of arrival (`InOrder`), and that all
  other calls have one reply, or the two of a call that was cut short (`Past`,
  `Settled`).  `SignalAgrees` is about the first reply, the one a client takes.
* `CallsInTurn`: `Spec => Promise!Safely`, the safety part of `InTurn`: under the
  mapping `Seen` every step is a step of `AbstractBusService` or stutters.  It
  rests on `CurrentTurn` and `FirstTurn` - the current call, or else the head of
  the queue, is the first open one - which follow from `InOrder` and `Past`.

### StartProcessProofs

For all names, numbers of names, outputs and sizes of pipe and buffer, from
`SizesGiven` and `NamesAreStrings`: `TypeCorrect`, `ArgsAlwaysFit`,
`NothingIsLeft`, `OutputIsWhole` and `ReplyAlwaysTells`, all from one inductive
invariant `IInv`:

* `ArgsFit` by counting: each word but a first one stands behind a space of its
  own (`WordsFit`, an injection of words into spaces);
* `Held`: which ends are open, what is allocated and whether there is a child,
  for each place in `start_process`;
* `ChildHolds`: the ends a child holds, so that the end of file means that it is
  gone;
* `Flow`: while the output is read, what the child has written is what is in the
  pipe, in the hand of `fgets` and in the buffer;
* `Track`: what is known of the names so far; a status that is not "ok" goes with
  a failed call, a bad exit or a refused name.

### ModuleTableProofs

For all files, scripts, texts, versions and numbers of upgrades, from
`NamesGiven`, `OthersOwn`, `NothingUsable`, `ItemsInARow` and `ScriptsShipped`:

* `TypeCorrect`; `EntriesUsable`: `Spec => []Usable`, from `EntryGood` - what
  `parse_hook_json_file` lets pass has every member that is used.
* `TableIsWhole`: `Spec => []LoadedWhole`.  `LoadInv` says of every place of the
  loop: what was there when it began, has not been touched and did not fail to
  be read is still to come, is the current file, or is in the table
  (`NoneLost`), and each entry comes from a text that was in a file meanwhile
  (`FromFiles`, `OneOfEach`).  Each step of dpkg is of one form (`Touched`).
* `FreshProcessWorks`: `Spec => []FreshWorks` when a foreign file names no module
  of the package (`NamesApart`; otherwise the foreign entry may replace the
  package's).  `DiskInv`: between upgrades files, scripts and library are of one
  version; `FreshInv`: a process that none has overtaken has all of it.

### ScriptsProofs

For any sets of the 41 scripts and any numbers of runs and failing commands,
from `BoundsGiven`, `ScriptsAreKnown` and `ReportingHaveState`.  The scripts are
first taken each by itself, as a list of commands: `Sound` says that the list
keeps to the script's own targets, that a level it does not know changes
nothing, and `Leads` that the last command on each target brings about the
level.  Both are shown of each family and so of every script, `Leads` but for
the two that edit. That the rules a script writes select its word is a fact
about each list of rules (`UpToSelects`, `ButQtSelects`, `OnlyOneSelects`,
`KwinSelects`), which `ScriptsSelect` collects and `WrittenInForce` joins to
`Written`; for the calendar's lists it holds but for "error" (`CalendarTells`).
`Owner` names the one script of each target, so that the scripts stay out of
each other's way.

* `TypeCorrect`; `StrictStaysInForce`: `Spec => []StrictInForce`, for all scripts,
  with the exception `Mistaken` that both properties name.
* `CleanStaysInForce`: `Spec => []CleanInForce` without the two scripts that edit
  one file (`Editing`), and `StateTellsLevel`: `Spec => []StateTells` without
  those whose `state` prints something else (`Untelling`); section 6 says what
  goes wrong with either.

The invariant `ForceInv` has for the script that runs what its commands so far
have brought about (`Progress`, `Stops`), and for every other script that
counts as done that its level is in force (`Kept`) and known (`Known`).

### CliArgsProofs

For all words, letters and numbers of words, from `NoWordIsNone`, `LettersGiven`,
`BoundGiven`, `ParameterEndsWord` (what stands behind m, i or t in its word is
the parameter), `EndIsNoLetter` (options are single characters) and
`SwitchesAreNoOptions` ("on" and "off" do not begin with a dash):

* `TypeCorrect`: `Spec => []TypeOK`.  The indices of `getopt` stay within the
  words, also while it steps through several options in one word and exchanges
  stretches of words (`Indices`); `main`'s count is `getopt`'s index until it has
  come to the end of the words (`Counts`), which is all that keeps
  `argv[argidx + 1]` inside the array.
* `ChangesAreComplete`: a call that changes a setting is the only one of its
  line, is root's, and has what it needs (`ChangesComplete`, part of the
  inductive invariant): `check_g_cfg_is_valid` lets nothing else pass.
* `ProgramActsAsRead`: `Spec => []ActsAsRead`.  The invariant `Follows` says that
  while `main` goes on no word has changed its place (`Unmoved`) and one of three
  things holds: `main` and the line so far say the same (`AllRead`); `main` has
  taken the last word of the line for the -l or -c that `getopt` has just returned,
  which is what the line will say when it is read to its end (`OneTaken`); or the
  settings are ones that `check_g_cfg_is_valid` refuses and that no further option
  can mend (`Doomed`).  `Disagree` alone does not imply it: the count is not
  compared once it has come to the end, so that `main` may go on through options
  that `getopt` sees and the count does not.
* `OrderlyLinesAreObeyed`: `Spec => []ObeysOrdered`.  On such lines the count is
  `getopt`'s index until the last word is taken (`Lockstep`), no letter falls to
  another case than its own (`LetterFits`), and the settings in the end are those
  of the line (`Obeyed`).

Neither was true as first stated, which the run of five words did not show and
the proofs did: `-s -l -s -m v -l v` is refused at the level "-s", but the
premise looked only at the last level of the line; in `-s -lm v` both readers
take v (section 6).  The premises `NoOptionAsLevel` and `NoneTakenTwice` now
leave such lines out, and the word `-lm` is among those of the run.  What the
words say is a recursive function; that it exists is shown as in
`ModConfigProofs` (`LoopExists`).

### How far the prover is trusted

The SMT encoding of tlapm 1.4.5 has two axioms from which every function has the
domain `1..Len(f)`; in an obligation that speaks of `Len` and of a function with
another domain anything follows from them.  All modules were therefore also
checked with the stronger of the two weakened to the implication that is true,
and leaves that had used it were broken into steps that do not.

### Only model-checked

Liveness (`EveryCallEnds`, `EveryStartEnds`,
`LoadHeals`, the fairness of `InTurn`) is beyond the proof system.  Claimed neither
by a run nor by a theorem: `KeepsLevels` of files that are not proper, and
`CleanInForce` and `StateTells` of the scripts that section 6 names.

## 5. Plan

Done: `LevelStore`, `DebugConfig`, `BusService`, `ModConfig`, `Scripts`,
`StartProcess`, `CliArgs`, `ModuleTable`, the abstract service, the theorems
above.  Left:

1. `Scripts`, a further family: those that edit grub's defaults (kernel,
   selinux, initramfs, plymouth, systemd_bak), and qt.
2. `method_get_state`'s answer (names never set, `module_configure.c:297`).

## 6. Where the code and its texts disagree

Shown by a run (`PROJECT.json`, "findings"):

* Two overlapping updates share `<file>.bak`; one returns 0 having installed an
  empty file (`module_configure.c:454`).
* Over D-Bus journald's switch does not follow the levels: the unit sets
  `ProtectSystem=strict` and gives the service no write access to journald's
  directory (`deepin-debug-config-service.service:8`, 13-28), the failure is not
  looked at (`bus-service.c:282`), and the call succeeds.  `debian/changelog:235`
  promises that switching debug changes journald's configuration.

Met while modelling, and not shown by a run of their own:

* `check_package_installed` says "not installed" when `dpkg-query` fails, is killed
  or cannot be run, too (`module_configure.c:663-668`): a script of an installed
  package that failed is then skipped, its level recorded and success answered.
  `SuccessMeansDone` and `RecordedIsInForce` except such scripts (`skipped`).
* A pair of `SetDebug` that cannot be read sets the error and leaves `ret` 0
  (`bus-service.c:255-259`): unless an earlier pair failed, the client gets a
  method return, everyone the signal "success" or "reboot", and the client then an
  error reply as well.  `OneReply` admits two replies for this call ("cut") only.
* A handler that gives up with a negative result, as when there is no memory for
  the level of "all" (`bus-service.c:271-274`), sends an error and no
  MethodFinished.
* `mod_config` may return 0 with nothing recorded: `fail_rw` is reached without an
  error in `ret` when there is no memory for a longer line or the appended line
  cannot be printed (`module_configure.c:474-476`, 538-540).  `TurnsRecord` leaves
  this out (`"ok" \notin CopyFails`).
* For "error" the three calendar scripts write `.debug=false` without the star, a
  rule for no category (`dde-calendar-client_debug.sh:72`, likewise in
  `dde-calendar-plugin_debug.sh` and `dde-calendar-service_debug.sh`): debug is not
  turned off, and the script exits 0.  `StrictInForce` and `CleanInForce` except
  these three words; without the exception (`Mistaken`) TLC finds `StrictInForce`
  violated.
* A comment longer than the line buffer swallows the lines behind it: `len` and
  `attr` keep their values (`module_configure.c:498`).
* `kwin_debug.sh state` always prints "info" (`kwin_debug.sh:63`); `Reporting`
  leaves it out.
* On a full disk `fclose` fails unnoticed; the truncated backup is installed and
  0 returned (`module_configure.c:545`; `DiskFull = TRUE` in `MCLevelStore.cfg`
  with `SuccessRecorded`).
* A level that could not be recorded is reported as set
  (`module_configure.c:691`); `SuccessMeansDone` excepts it (`unsaved`).
* An item appended behind a last line without a newline is glued to it
  (`module_configure.c:538`).
* dpkg is asked for a package called like the submodule: the failing script of
  NetworkManager, logind, kwin or license is skipped as "not installed" and its
  level recorded (`module_configure.c:683`, `debian/changelog:60`).
  `SuccessMeansDone` leaves such submodules out (`PackageInstalled`), as it does
  levels a script does not know, which most scripts pass over with exit 0.
* `AllDebugLevel` is declared to emit change signals (`bus-service.c:442`) and
  never does.
* `notify.sh` has a text for `sucess`, and the service announces `success`: an
  empty notification (`service/notify.sh:8`).
* `dde-cooperation` and `deepin-data-transfer` write one file, so that setting
  one changes the other (`Scripts = {"cooperation", "dataTransfer"}` violates
  `CleanInForce`).
* `dde-cooperation_debug.sh:26`: a file left without its line by a failed `echo`
  is never repaired (`Scripts = {"cooperation"}`, one fault, violates
  `CleanInForce`).
* The scripts of license and uos-service-support split a rule at dots that its
  category also has, so that `state` prints a part of the category
  (`license-gui_debug.sh:48`; `Reporting = {"licenseGui"}` violates
  `StateTells`).
* The scripts that edit grub's defaults ask the file they have edited whether the
  level is set, not the boot configuration: after a failed `update-grub` the
  retry says "already enabled" and exits 0 (`kernel_debug.sh:57-70`).  They write
  the whole argument for a numbered or named level, `systemd.log-level=debug=info`
  (`systemd_debug_bak.sh:102`).  `qt_debug.sh:50` empties the override before it
  refuses a word.
* `installdbg.sh:104` reports that all packages are installed when those without a
  candidate of their version were passed over (`installdbg.sh:84-91`).
* `main` takes the parameters of `-l` and `-c` from the word at its own count
  (`main.c:188`).  A stray word before them shifts it: `-m x -s extra -l v` sets
  the level "-l".  A level that looks like an option is read as an option too.
  In `-s -lm v` the word v becomes the level and the module.  `ActsAsRead` and
  `ObeysOrdered` therefore speak of lines without such words.  Of the others
  `main` refuses some that are complete by the usage text, those that go on
  behind the parameter of `-l` or `-c`: `-s -l v -m x`.
* A service that was running during an upgrade refuses every script that has
  changed until it is restarted, which `postinst` does not do
  (`module_configure.c:60`); `FreshWorks` is about processes started afterwards.
* When `read_from_fd` fails before its first read the read end stays open and the
  parent waits in `waitpid` for a child that waits for a reader, for ever if it
  prints more than the pipe holds (`util.c:572`); `EveryStartEnds` excepts the
  case (`Deaf`).  After `fclose` the descriptor is closed once more, which only
  gives EBADF in one thread.
* The search by module type is reached by no option, and for "all" by type it
  always ends in ERROR (`module_configure.c:740`).

## 7. Not modelled

The word `--` on the command line.  The formatting of answers, logs and help
texts, the translations, the build files and policy files.  cJSON is vendored
third-party code and half of the source: only the lookups `parse_hook_json_file`
makes in its tree are modelled; its parser, its printer and its editing
functions, which nothing calls, are not. `IN_SET`, `INSERT_SET`,
`strupr_custom`, `trim_string`, `recurive_create_dir` and the MD5 functions of
`util.c` are called by nothing.  The search by module type is reached by no
option.  The generator of the digest table appears by the table it makes.  The
scripts that edit grub's defaults and `qt_debug.sh` are named by no json file in
the repository.  The state of `installdbg.sh` is apt's; what its callers make of
its exit status is in `StartProcess`.
