----------------------------- MODULE LevelStore -----------------------------
(***************************************************************************)
(* The file /var/lib/deepin-debug-config/deepin-debug-levels.cfg at the    *)
(* granularity of system calls: modify_debug_levels and mod_config, which  *)
(* rewrite it through the fixed name <file>.bak and rename, and            *)
(* config_module_get_debug_level_by_type, which reads it.  Between two     *)
(* calls of one process any step of another may happen.                    *)
(*                                                                         *)
(* A file is an inode that the names conf and bak may point to; an open    *)
(* stream keeps its inode whatever happens to the names.  The content of a *)
(* file is the sequence of its key=value lines.  The file is shorter than  *)
(* one stdio buffer (4096 bytes), so that it is read by one read and       *)
(* written by the one write of fclose; lines are taken to have one length, *)
(* so that two writes at offset 0 overlap by whole lines.                  *)
(***************************************************************************)
EXTENDS Naturals, Sequences

CONSTANTS
  Writers,     \* processes that record levels: the D-Bus service, the command line
  Readers,     \* processes that ask for a level
  Keys,        \* module names, and the two pseudo modules "all" and "coredump"
  Levels,      \* debug levels
  Off,         \* the level "off"
  Error,       \* a query's error return
  Unanswered,  \* no answer yet
  Inodes,      \* inodes of the file system
  NoInode,     \* a name that does not exist, a stream that is not open
  Overlap,     \* TRUE: two processes may be inside modify_debug_levels at once
  OpenFails,   \* TRUE: fopen and create_dir may fail
  CopyFails,   \* what mod_config may return when its copying fails: "failed" (a
               \* line cannot be read or copied), "ok" (malloc for a longer line
               \* or the printing of a new one fails: ret is not set)
  DiskFull,    \* TRUE: the write that fclose makes may be cut short
  RenameFails, \* TRUE: rename may fail although there is a .bak
  Crashes,     \* TRUE: a process may be killed between two calls
  Upgrade      \* TRUE: the package's postinst may remove the file

ASSUME OffIsALevel == Off \in Levels
ASSUME AnswersDiffer == Error \notin Levels /\ Unanswered \notin Levels \cup {Error}
ASSUME NoInodeIsNone == NoInode \notin Inodes
ASSUME CopyFailsReturn == CopyFails \subseteq {"ok", "failed"}

Entry == [key : Keys, value : Levels]

VARIABLES
  conf, bak,   \* the inode each name points to
  data,        \* data[i]: the content of inode i
  pc, item,    \* per writer: the next call, the line it is to record
  fpConf,      \* per writer: the inode mod_config reads
  fpBak,       \* per writer: the inode mod_config writes
  buf,         \* per writer: what was printed to fp_conf_bak so far
  result,      \* per writer: what modify_debug_levels returned
  rpc, wanted, \* per reader: the next call, the key it looks for
  fp,          \* per reader: the inode it reads
  answer       \* per reader: the level reported

wvars == <<pc, item, fpConf, fpBak, buf, result>>
rvars == <<rpc, wanted, fp, answer>>
vars == <<conf, bak, data, wvars, rvars>>

-----------------------------------------------------------------------------
(* The content of the file.                                                *)

KeysOf(s) == {s[i].key : i \in 1 .. Len(s)}

(* The readers and mod_config both take the first line that has the key.   *)
First(s, k) ==
  CHOOSE i \in 1 .. Len(s) : s[i].key = k /\ \A j \in 1 .. i - 1 : s[j].key # k

(* Variants of Updated that the properties below must refute: the value is *)
(* not printed; every item is appended; unmatched items are forgotten.     *)
UpdatedNoValue(s, e) == Append(s, e.key)
UpdatedAppends(s, e) == Append(s, e)
UpdatedMatchOnly(s, e) == [i \in 1 .. Len(s) |-> IF s[i].key = e.key THEN e ELSE s[i]]

(* What mod_config prints for an old content s and one item to add: every  *)
(* line as it was, except the first that has the key; a new line if none.  *)
Updated(s, e) ==
  IF e.key \in KeysOf(s)
    THEN [i \in 1 .. Len(s) |-> IF i = First(s, e.key) THEN e ELSE s[i]]
    ELSE Append(s, e)

LookedUp(s, k) == IF k \in KeysOf(s) THEN s[First(s, k)].value ELSE Error

-----------------------------------------------------------------------------
(* Files.                                                                  *)

Open == {conf, bak} \cup {fpConf[w] : w \in Writers}
          \cup {fpBak[w] : w \in Writers} \cup {fp[r] : r \in Readers}
Free == Inodes \ Open

(* One write of new at offset 0 of a file that holds old.                  *)
Overlay(new, old) == new \o SubSeq(old, Len(new) + 1, Len(old))

(* What of s reaches the disk.                                             *)
Reached(s) == IF DiskFull THEN {SubSeq(s, 1, n) : n \in 0 .. Len(s)} ELSE {s}

-----------------------------------------------------------------------------

Init ==
  /\ conf = NoInode
  /\ bak = NoInode
  /\ data = [i \in Inodes |-> <<>>]
  /\ pc = [w \in Writers |-> "idle"]
  /\ item \in [Writers -> Entry]
  /\ fpConf = [w \in Writers |-> NoInode]
  /\ fpBak = [w \in Writers |-> NoInode]
  /\ buf = [w \in Writers |-> <<>>]
  /\ result = [w \in Writers |-> "none"]
  /\ rpc = [r \in Readers |-> "idle"]
  /\ wanted \in [Readers -> Keys]
  /\ fp = [r \in Readers |-> NoInode]
  /\ answer = [r \in Readers |-> Error]

(* modify_debug_levels returns: its streams are closed.                    *)
Return(w, r) ==
  /\ pc' = [pc EXCEPT ![w] = "idle"]
  /\ result' = [result EXCEPT ![w] = r]
  /\ fpConf' = [fpConf EXCEPT ![w] = NoInode]
  /\ fpBak' = [fpBak EXCEPT ![w] = NoInode]
  /\ buf' = [buf EXCEPT ![w] = <<>>]
  /\ UNCHANGED item

(* The next call to make, nothing else changing for the writer.            *)
Goto(w, l) ==
  /\ pc' = [pc EXCEPT ![w] = l]
  /\ UNCHANGED <<item, result>>

Call(w) ==
  /\ pc[w] = "idle"
  /\ Overlap \/ \A v \in Writers : pc[v] = "idle"
  /\ pc' = [pc EXCEPT ![w] = "access"]
  /\ \E e \in Entry : item' = [item EXCEPT ![w] = e]
  /\ result' = [result EXCEPT ![w] = "none"]
  /\ UNCHANGED <<conf, bak, data, fpConf, fpBak, buf, rvars>>

Access(w) ==
  /\ pc[w] = "access"
  /\ Goto(w, IF conf = NoInode THEN "create" ELSE "openConf")
  /\ UNCHANGED <<conf, bak, data, fpConf, fpBak, buf, rvars>>

(* create_dir, fopen "a+" and fclose: an empty file, unless another        *)
(* process made one since access.                                          *)
Create(w) ==
  /\ pc[w] = "create"
  /\ \/ /\ conf # NoInode
        /\ UNCHANGED <<conf, data>>
     \/ /\ conf = NoInode
        /\ \E i \in Free : /\ conf' = i
                           /\ data' = [data EXCEPT ![i] = <<>>]
  /\ Goto(w, "openConf")
  /\ UNCHANGED <<bak, fpConf, fpBak, buf, rvars>>

OpenConf(w) ==
  /\ pc[w] = "openConf"
  /\ conf # NoInode
  /\ fpConf' = [fpConf EXCEPT ![w] = conf]
  /\ Goto(w, "openBak")
  /\ UNCHANGED <<conf, bak, data, fpBak, buf, rvars>>

(* Variant: fopen(bak_file, "a+"), which keeps what a dead writer left.    *)
OpenBakAppends(w) ==
  /\ pc[w] = "openBak"
  /\ \E i \in IF bak = NoInode THEN Free ELSE {bak} :
       /\ bak' = i
       /\ data' = [data EXCEPT ![i] = IF bak = NoInode THEN <<>> ELSE data[i]]
       /\ fpBak' = [fpBak EXCEPT ![w] = i]
  /\ Goto(w, "copy")
  /\ UNCHANGED <<conf, fpConf, buf, rvars>>

(* fopen(bak_file, "w+"): truncates a .bak that is there, whoever made it. *)
OpenBak(w) ==
  /\ pc[w] = "openBak"
  /\ \E i \in IF bak = NoInode THEN Free ELSE {bak} :
       /\ bak' = i
       /\ data' = [data EXCEPT ![i] = <<>>]
       /\ fpBak' = [fpBak EXCEPT ![w] = i]
  /\ Goto(w, "copy")
  /\ UNCHANGED <<conf, fpConf, buf, rvars>>

(* The fgets loop and the appending of the items that matched no line.     *)
CopyLines(w) ==
  /\ pc[w] = "copy"
  /\ buf' = [buf EXCEPT ![w] = Updated(data[fpConf[w]], item[w])]
  /\ Goto(w, "close")
  /\ UNCHANGED <<conf, bak, data, fpConf, fpBak, rvars>>

(* fail_rw: memory, a read or a write fails after some of the lines.       *)
FailToCopy(w) ==
  /\ pc[w] = "copy"
  /\ CopyFails # {}
  /\ \E n \in 0 .. Len(Updated(data[fpConf[w]], item[w])) :
       buf' = [buf EXCEPT ![w] = SubSeq(Updated(data[fpConf[w]], item[w]), 1, n)]
  /\ Goto(w, "failClose")
  /\ UNCHANGED <<conf, bak, data, fpConf, fpBak, rvars>>

(* The two fclose: the buffer is written; their return value is not read.  *)
CloseStreams(w) ==
  /\ pc[w] \in {"close", "failClose"}
  /\ \E s \in Reached(buf[w]) :
       data' = [data EXCEPT ![fpBak[w]] = Overlay(s, data[fpBak[w]])]
  /\ fpConf' = [fpConf EXCEPT ![w] = NoInode]
  /\ fpBak' = [fpBak EXCEPT ![w] = NoInode]
  /\ buf' = [buf EXCEPT ![w] = <<>>]
  /\ Goto(w, IF pc[w] = "close" THEN "rename" ELSE "failUnlink")
  /\ UNCHANGED <<conf, bak, rvars>>

(* rename(bak_file, filename), whoever made the .bak.                      *)
Rename(w) ==
  /\ pc[w] = "rename"
  /\ bak # NoInode
  /\ conf' = bak
  /\ bak' = NoInode
  /\ Return(w, "ok")
  /\ UNCHANGED <<data, rvars>>

RenameFailed(w) ==
  /\ pc[w] = "rename"
  /\ bak = NoInode \/ RenameFails
  /\ Goto(w, "unlink")
  /\ UNCHANGED <<conf, bak, data, fpConf, fpBak, buf, rvars>>

(* How mod_config ends once its .bak is unlinked.                          *)
Failure(w) == IF pc[w] = "unlink" THEN {"failed"} ELSE CopyFails

(* Variant: fail_rw returns without unlink.                                *)
UnlinkIfRenamed(w) ==
  /\ pc[w] \in {"unlink", "failUnlink"}
  /\ bak' = IF pc[w] = "unlink" THEN NoInode ELSE bak
  /\ \E how \in Failure(w) : Return(w, how)
  /\ UNCHANGED <<conf, data, rvars>>

(* unlink(bak_file), after a rename that failed and at fail_rw: whatever   *)
(* .bak there is by now goes.                                              *)
Unlink(w) ==
  /\ pc[w] \in {"unlink", "failUnlink"}
  /\ bak' = NoInode
  /\ \E how \in Failure(w) : Return(w, how)
  /\ UNCHANGED <<conf, data, rvars>>

(* An error return before anything was written: create_dir or an fopen     *)
(* that fails, or a file removed since access.                             *)
FailToOpen(w) ==
  /\ \/ OpenFails /\ pc[w] \in {"create", "openConf", "openBak"}
     \/ pc[w] = "openConf" /\ conf = NoInode
  /\ Return(w, "failed")
  /\ UNCHANGED <<conf, bak, data, rvars>>

(* The process is killed; what its streams still buffered is lost.         *)
Crash(w) ==
  /\ Crashes
  /\ pc[w] # "idle"
  /\ Return(w, "none")
  /\ UNCHANGED <<conf, bak, data, rvars>>

-----------------------------------------------------------------------------
(* config_module_get_debug_level_by_type                                   *)

Reply(r, a) ==
  /\ rpc' = [rpc EXCEPT ![r] = "idle"]
  /\ fp' = [fp EXCEPT ![r] = NoInode]
  /\ answer' = [answer EXCEPT ![r] = a]
  /\ UNCHANGED wanted

Ask(r) ==
  /\ rpc[r] = "idle"
  /\ rpc' = [rpc EXCEPT ![r] = "access"]
  /\ \E k \in Keys : wanted' = [wanted EXCEPT ![r] = k]
  /\ answer' = [answer EXCEPT ![r] = Unanswered]
  /\ UNCHANGED <<conf, bak, data, wvars, fp>>

(* No file: every module counts as switched off.                           *)
ReadAccess(r) ==
  /\ rpc[r] = "access"
  /\ IF conf = NoInode
       THEN Reply(r, Off)
       ELSE /\ rpc' = [rpc EXCEPT ![r] = "open"]
            /\ UNCHANGED <<wanted, fp, answer>>
  /\ UNCHANGED <<conf, bak, data, wvars>>

ReadOpen(r) ==
  /\ rpc[r] = "open"
  /\ \/ /\ conf # NoInode
        /\ fp' = [fp EXCEPT ![r] = conf]
        /\ rpc' = [rpc EXCEPT ![r] = "read"]
        /\ UNCHANGED <<wanted, answer>>
     \/ /\ OpenFails \/ conf = NoInode
        /\ Reply(r, Error)
  /\ UNCHANGED <<conf, bak, data, wvars>>

(* The getline loop up to the line that has the key, and fclose.           *)
ReadLines(r) ==
  /\ rpc[r] = "read"
  /\ Reply(r, LookedUp(data[fp[r]], wanted[r]))
  /\ UNCHANGED <<conf, bak, data, wvars>>

-----------------------------------------------------------------------------
(* debian/postinst, configure: rm_level_cfg.  The recording of "warning"   *)
(* that follows is the call of a writer.                                   *)
RemoveConf ==
  /\ Upgrade
  /\ conf' = NoInode
  /\ UNCHANGED <<bak, data, wvars, rvars>>

Modify(w) == \/ Access(w) \/ Create(w) \/ OpenConf(w) \/ OpenBak(w)
             \/ CopyLines(w) \/ FailToCopy(w) \/ CloseStreams(w)
             \/ Rename(w) \/ RenameFailed(w) \/ Unlink(w) \/ FailToOpen(w)
Read(r) == ReadAccess(r) \/ ReadOpen(r) \/ ReadLines(r)

Next ==
  \/ \E w \in Writers : Call(w) \/ Modify(w) \/ Crash(w)
  \/ \E r \in Readers : Ask(r) \/ Read(r)
  \/ RemoveConf

Spec == Init /\ [][Next]_vars

-----------------------------------------------------------------------------
(* Properties.                                                             *)

Names == Inodes \cup {NoInode}

(* Every variable stays within its type: names and streams are inodes or   *)
(* nothing, files hold key=value lines, answers are levels or an error.    *)
TypeOK ==
  /\ conf \in Names /\ bak \in Names
  /\ data \in [Inodes -> Seq(Entry)]
  /\ pc \in [Writers -> {"idle", "access", "create", "openConf", "openBak", "copy",
                         "close", "rename", "unlink", "failClose", "failUnlink"}]
  /\ item \in [Writers -> Entry]
  /\ fpConf \in [Writers -> Names] /\ fpBak \in [Writers -> Names]
  /\ buf \in [Writers -> Seq(Entry)]
  /\ result \in [Writers -> {"none", "ok", "failed"}]
  /\ rpc \in [Readers -> {"idle", "access", "open", "read"}]
  /\ wanted \in [Readers -> Keys]
  /\ fp \in [Readers -> Names]
  /\ answer \in [Readers -> Levels \cup {Error, Unanswered}]

KeyOnce(s) == \A i, j \in 1 .. Len(s) : s[i].key = s[j].key => i = j
Lines(i) == IF i = NoInode THEN <<>> ELSE data[i]

(* No module is listed twice, so that "the first line that has the key" of *)
(* the readers and of mod_config is the only one (compare_config_item,     *)
(* config_module_get_debug_level_by_type).                                 *)
KeysListedOnce == KeyOnce(Lines(conf))

(* Writers that do not overlap: at most one is under way; it reads the     *)
(* current file and writes a .bak of its own, which when it is closed      *)
(* holds the current content with the item added.                          *)
OneWriter == \A v, w \in Writers : pc[v] # "idle" /\ pc[w] # "idle" => v = w

ReadsCurrent(w) ==
  /\ pc[w] \in {"openConf", "openBak", "copy", "close", "rename"} => conf # NoInode
  /\ pc[w] \in {"openBak", "copy", "close"} => fpConf[w] = conf

WritesBackup(w) ==
  /\ pc[w] \in {"copy", "close", "failClose"} =>
       bak # NoInode /\ fpBak[w] = bak /\ data[bak] = <<>>
  /\ pc[w] = "close" => buf[w] = Updated(data[conf], item[w])
  /\ pc[w] = "rename" => bak # NoInode /\ data[bak] = Updated(data[conf], item[w])

(* The stream a reader has open is on a file no writer will write.         *)
ReadsStable(r) ==
  /\ rpc[r] = "read" => fp[r] # NoInode /\ fp[r] # bak
  /\ rpc[r] = "open" => conf # NoInode
  /\ (answer[r] = Unanswered) <=> (rpc[r] # "idle")

(* What makes the update of the file atomic, as one inductive invariant:   *)
(* the facts about the two names, the writer under way and the readers     *)
(* that modify_debug_levels and mod_config rely on between their calls.    *)
StoreInv ==
  /\ conf # NoInode => conf # bak
  /\ KeysListedOnce
  /\ OneWriter
  /\ \A w \in Writers : ReadsCurrent(w) /\ WritesBackup(w)
  /\ \A r \in Readers : ReadsStable(r)

(* A call of modify_debug_levels that returns 0 has put its item into the  *)
(* file: at the moment it returns, a reader of the file finds the level    *)
(* (module_configure.c:413-422, "success: returns 0").                     *)
RecordsItem(w) ==
  /\ conf' # NoInode
  /\ item[w].key \in KeysOf(data'[conf'])
  /\ data'[conf'][First(data'[conf'], item[w].key)] = item[w]
SuccessRecorded ==
  [][\A w \in Writers : result[w] # "ok" /\ result'[w] = "ok" => RecordsItem(w)]_vars

(* No debris: when nobody is inside modify_debug_levels and nobody was     *)
(* killed there, there is no .bak file, however the calls overlapped and   *)
(* whichever of their opens, copies and renames failed (the rename and the *)
(* two unlink at the end of mod_config).                                   *)
NoLeftover == (\A w \in Writers : pc[w] = "idle") => bak = NoInode

(* The file, taken with its readers and writers, is an atomic map: see     *)
(* AbstractLevelStore.  A query is answered when its file is opened.       *)
Recorded == [k \in KeysOf(Lines(conf)) |-> LookedUp(Lines(conf), k)]
Told == [r \in Readers |-> IF rpc[r] = "read"
                             THEN LookedUp(data[fp[r]], wanted[r]) ELSE answer[r]]
Busy == [w \in Writers |-> pc[w] # "idle"]

Abstract == INSTANCE AbstractLevelStore WITH
              levels <- Recorded, busy <- Busy, answer <- Told,
              Abandoned <- {"failed", "none"} \cup CopyFails
AtomicStore == Abstract!Spec
=============================================================================
