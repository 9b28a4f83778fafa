---------------------------- MODULE StartProcess ----------------------------
(***************************************************************************)
(* How the library runs a program (util.c: start_process, read_from_fd)    *)
(* and the callers that turn its result into theirs: a script for a level, *)
(* dpkg-query for a package, and installdbg.sh for one name after another. *)
(* Parent and child run side by side and share a pipe of bounded size; the *)
(* parent reads it to its end, if it wants the output, and then waits.     *)
(***************************************************************************)
EXTENDS Naturals, Sequences, FiniteSets

CONSTANTS
  Names,       \* levels, packages: sequences of characters
  MaxNames,    \* bound: names in one request to install
  MaxPrints,   \* bound: what a program prints, in bytes
  PipeSize,    \* what a pipe holds
  BufferSize   \* BUFFER_SIZE of read_from_fd

ASSUME SizesGiven ==
  /\ MaxNames \in Nat /\ MaxPrints \in Nat
  /\ PipeSize \in Nat \ {0}
  /\ BufferSize \in Nat \ {0, 1}
ASSUME NamesAreStrings == \A n \in Names : n \in Seq(STRING)

VARIABLES
  pc,       \* where the caller is
  req,      \* its request: what for, the names, and what the digest said
  at,       \* the name it is at
  args,     \* the argument array: its size and how much of it is used
  heap,     \* what start_process and its caller have allocated
  fds,      \* the caller's ends of the pipe
  pipe,     \* the bytes in the pipe
  child,    \* the child process
  out,      \* the output: bytes in its buffer, bytes fgets got, the buffer's size
  status,   \* what start_process is going to return, or has returned
  ran,      \* how the programs of this request ended
  trouble,  \* a system call failed during this request
  reply     \* what the caller of the library gets

parent == <<pc, req, at, args, heap, out, status, ran, trouble, reply>>
vars == <<parent, fds, pipe, child>>

Ends == {"ok", "bad", "killed"}

(* A program: how much it prints, whether that begins with "ii", and how   *)
(* it ends.                                                                *)
Programs == {p \in [prints : 0 .. MaxPrints, ii : BOOLEAN, end : {"ok", "bad"}] :
               p.ii => p.prints >= 2}
NoExec == [prints |-> 0, ii |-> FALSE, end |-> "bad"]

NoChild == [state |-> "none", fds |-> {}, prog |-> NoExec, sent |-> 0, end |-> "ok"]
NoBuffer == [len |-> 0, got |-> 0, size |-> 0]
NoArgs == [slots |-> 0, used |-> 0]

Requests ==
  [op : {"script", "query"}, names : {<<n>> : n \in Names}, allowed : BOOLEAN]
    \cup [op : {"install"}, allowed : BOOLEAN,
          names : UNION {[1 .. k -> Names \ {<<>>}] : k \in 0 .. MaxNames}]

Init ==
  /\ pc = "idle"
  /\ req = [op |-> "install", names |-> <<>>, allowed |-> FALSE]
  /\ at = 1
  /\ args = NoArgs
  /\ heap = {}
  /\ fds = {}
  /\ pipe = 0
  /\ child = NoChild
  /\ out = NoBuffer
  /\ status = "ok"
  /\ ran = <<>>
  /\ trouble = FALSE
  /\ reply = "none"

-----------------------------------------------------------------------------
(* Strings.                                                                *)

Special == {";", "|", "&", ">", "<"}
HasSpecial(s) == \E i \in DOMAIN s : s[i] \in Special

(* The words strtok finds, and the slots malloc is asked for.              *)
Spaces(s) == {i \in DOMAIN s : s[i] = " "}
WordStarts(s) == {i \in DOMAIN s : s[i] # " " /\ (i = 1 \/ s[i - 1] = " ")}
SpacesOnly(s) == Cardinality(Spaces(s))
NumArgs(s) == 1 + Cardinality(Spaces(s))
Slots(s) == NumArgs(s) + 2
Used(s) == Cardinality(WordStarts(s)) + 2

(* What the callers hand over: a script gets "debug=" and the level, the   *)
(* query its format and the name.                                          *)
ArgString(r, i) ==
  IF r.op = "query" THEN <<"c", " ">> \o r.names[i]
    ELSE IF r.op = "script" THEN <<"c">> \o r.names[i]
    ELSE r.names[i]

-----------------------------------------------------------------------------
(* The callers.                                                            *)

(* Whether start_process is reached: the digest for scripts, a name for    *)
(* the query, and at least one name to install.                            *)
Reaches(r) ==
  CASE r.op = "script"  -> r.allowed
    [] r.op = "query"   -> r.names[1] # <<>>
    [] r.op = "install" -> r.names # <<>> /\ r.allowed

WantsOutput == req.op = "query"

Begin ==
  /\ pc = "idle"
  /\ req' \in Requests
  /\ at' = 1
  /\ IF Reaches(req')
       THEN pc' = "start" /\ reply' = "none"
       ELSE pc' = "replied" /\ reply' = "error"
  /\ status' = "ok"
  /\ ran' = <<>>
  /\ trouble' = FALSE
  /\ UNCHANGED <<args, heap, out, fds, pipe, child>>

(* What the caller makes of the result; the query frees the output.        *)
Verdict ==
  IF req.op = "query"
    THEN IF status = "ok" /\ out.len >= 2 /\ child.prog.ii THEN "installed" ELSE "absent"
    ELSE status

Answer ==
  /\ pc = "ended"
  /\ IF req.op = "install" /\ status = "ok" /\ at < Len(req.names)
       THEN /\ at' = at + 1
            /\ pc' = "start"
            /\ UNCHANGED reply
       ELSE /\ reply' = Verdict
            /\ pc' = "replied"
            /\ UNCHANGED at
  /\ out' = NoBuffer
  /\ heap' = heap \ {"output"}
  /\ UNCHANGED <<req, args, status, ran, trouble, fds, pipe, child>>

Return ==
  /\ pc = "replied"
  /\ pc' = "idle"
  /\ child' = NoChild
  /\ UNCHANGED <<req, at, args, heap, out, status, ran, trouble, reply, fds, pipe>>

-----------------------------------------------------------------------------
(* start_process.                                                          *)

Start ==
  /\ pc = "start"
  /\ LET s == ArgString(req, at) IN
     IF HasSpecial(s)
       THEN /\ status' = "error"
            /\ pc' = "ended"
            /\ UNCHANGED <<args, heap>>
       ELSE /\ args' = [slots |-> Slots(s), used |-> Used(s)]
            /\ heap' = heap \cup {"args", "name_copy"}
            /\ pc' = "pipe"
            /\ UNCHANGED status
  /\ UNCHANGED <<req, at, out, ran, trouble, reply, fds, pipe, child>>

(* start_process returns: it frees what it has and closes these ends.      *)
LeaveReadEnd(s, ends) ==
  /\ status' = s
  /\ args' = NoArgs
  /\ heap' = heap \ {"args", "name_copy"}
  /\ fds' = fds \ (ends \ {"r"})
  /\ pc' = "ended"
Leave(s, ends) ==
  /\ status' = s
  /\ args' = NoArgs
  /\ heap' = heap \ {"args", "name_copy"}
  /\ fds' = fds \ ends
  /\ pc' = "ended"

Pipe ==
  /\ pc = "pipe"
  /\ \/ /\ fds' = {"r", "w"}
        /\ pc' = "fork"
        /\ UNCHANGED <<args, heap, status, trouble>>
     \/ /\ Leave("error", {})
        /\ trouble' = TRUE
  /\ UNCHANGED <<req, at, out, ran, reply, pipe, child>>

(* The child starts with copies of both ends.                              *)
Fork ==
  /\ pc = "fork"
  /\ \/ /\ child' = [NoChild EXCEPT !.state = "forked", !.fds = fds]
        /\ pc' = "close"
        /\ UNCHANGED <<args, heap, fds, status, trouble>>
     \/ /\ Leave("error", {"r", "w"})
        /\ trouble' = TRUE
        /\ UNCHANGED child
  /\ UNCHANGED <<req, at, out, ran, reply, pipe>>

WaitsFirst ==
  /\ pc = "close"
  /\ fds' = fds \ {"w"}
  /\ pc' = "wait"
  /\ UNCHANGED <<req, at, args, heap, out, status, ran, trouble, reply, pipe, child>>
CloseWriteEnd ==
  /\ pc = "close"
  /\ fds' = fds \ {"w"}
  /\ pc' = IF WantsOutput THEN "open" ELSE "wait"
  /\ UNCHANGED <<req, at, args, heap, out, status, ran, trouble, reply, pipe, child>>

(* read_from_fd: its first buffer and its stream; a failure leaves the     *)
(* read end open.                                                          *)
OpenStream ==
  /\ pc = "open"
  /\ \/ /\ out' = [NoBuffer EXCEPT !.size = BufferSize]
        /\ heap' = heap \cup {"output"}
        /\ pc' = "read"
        /\ UNCHANGED <<status, trouble>>
     \/ /\ status' = "error"
        /\ trouble' = TRUE
        /\ pc' = "wait"
        /\ UNCHANGED <<out, heap>>
  /\ UNCHANGED <<req, at, args, ran, reply, fds, pipe, child>>

(* fgets gets 1 to BUFFER_SIZE - 1 bytes.                                  *)
Gets ==
  /\ pc = "read"
  /\ out.got = 0
  /\ \E n \in 1 .. BufferSize - 1 :
       /\ n <= pipe
       /\ pipe' = pipe - n
       /\ out' = [out EXCEPT !.got = n]
  /\ UNCHANGED <<pc, req, at, args, heap, status, ran, trouble, reply, fds, child>>

(* The buffer doubles until what it has, the bytes got and the closing 0   *)
(* fit; when realloc fails the stream is closed and the output given up.   *)
NeededText == out.len + out.got
Needed == out.len + out.got + 1

Grow ==
  /\ pc = "read"
  /\ out.got > 0
  /\ Needed > out.size
  /\ \/ /\ out' = [out EXCEPT !.size = @ * 2]
        /\ UNCHANGED <<pc, heap, fds, status, trouble>>
     \/ /\ out' = NoBuffer
        /\ heap' = heap \ {"output"}
        /\ fds' = fds \ {"r"}
        /\ status' = "error"
        /\ trouble' = TRUE
        /\ pc' = "wait"
  /\ UNCHANGED <<req, at, args, ran, reply, pipe, child>>

(* strncat appends what there is room for.                                 *)
Room == out.size - out.len - 1
AppendGot ==
  /\ pc = "read"
  /\ out.got > 0
  /\ Needed <= out.size
  /\ out' = [out EXCEPT !.len = @ + (IF out.got <= Room THEN out.got ELSE Room), !.got = 0]
  /\ UNCHANGED <<pc, req, at, args, heap, status, ran, trouble, reply, fds, pipe, child>>

(* End of file: the pipe is empty and nobody can write into it any more.   *)
ReadEnd ==
  /\ pc = "read"
  /\ out.got = 0
  /\ pipe = 0
  /\ "w" \notin fds \cup child.fds
  /\ fds' = fds \ {"r"}
  /\ pc' = "wait"
  /\ UNCHANGED <<req, at, args, heap, out, status, ran, trouble, reply, pipe, child>>

(* waitpid takes the child away and gives its status: an exit status other *)
(* than 0 and a signal's number are both no success; when SIGCHLD is       *)
(* ignored it gives an error instead.                                      *)
SignalOverlooked(end) == IF end = "bad" THEN "error" ELSE "ok"
ExitStatus(end) == end
ExitResult(end) == IF end = "ok" THEN "ok" ELSE "error"
Wait ==
  /\ pc = "wait"
  /\ child.state = "zombie"
  /\ \/ /\ Leave(IF status = "ok" THEN ExitResult(child.end) ELSE status, {"r"})
        /\ UNCHANGED trouble
     \/ /\ Leave("error", {"r"})
        /\ trouble' = TRUE
  /\ ran' = Append(ran, child.end)
  /\ child' = [child EXCEPT !.state = "reaped"]
  /\ pipe' = 0
  /\ UNCHANGED <<req, at, out, reply>>

-----------------------------------------------------------------------------
(* The child.                                                              *)

Dies(end) == child' = [child EXCEPT !.state = "zombie", !.fds = {}, !.end = end]

(* It closes its ends but for the standard output of the program that it   *)
(* becomes; if that fails it exits with ERROR.                             *)
Exec ==
  /\ child.state = "forked"
  /\ \/ \E p \in Programs :
          child' = [child EXCEPT !.state = "runs", !.prog = p,
                                 !.fds = IF WantsOutput THEN {"w"} ELSE {}]
     \/ Dies("bad")
  /\ UNCHANGED <<parent, fds, pipe>>

(* A program whose output is not wanted prints elsewhere.  The pipe's      *)
(* writer waits while it is full, and is killed when nobody can read.      *)
WriteByte ==
  /\ child.state = "runs"
  /\ child.sent < child.prog.prints
  /\ \/ /\ "w" \notin child.fds
        /\ child' = [child EXCEPT !.sent = @ + 1]
        /\ UNCHANGED pipe
     \/ /\ "w" \in child.fds /\ "r" \in fds
        /\ pipe < PipeSize
        /\ pipe' = pipe + 1
        /\ child' = [child EXCEPT !.sent = @ + 1]
     \/ /\ "w" \in child.fds /\ "r" \notin fds
        /\ Dies("killed")
        /\ UNCHANGED pipe
  /\ UNCHANGED <<parent, fds>>

Exit ==
  /\ child.state = "runs"
  /\ child.sent = child.prog.prints
  /\ Dies(child.prog.end)
  /\ UNCHANGED <<parent, fds, pipe>>

Kill ==
  /\ child.state \in {"forked", "runs"}
  /\ Dies("killed")
  /\ UNCHANGED <<parent, fds, pipe>>

-----------------------------------------------------------------------------
ParentStep ==
  \/ Answer \/ Return \/ Start \/ Pipe \/ Fork \/ CloseWriteEnd
  \/ OpenStream \/ Gets \/ Grow \/ AppendGot \/ ReadEnd \/ Wait
ChildStep == Exec \/ WriteByte \/ Exit
Next == Begin \/ ParentStep \/ ChildStep \/ Kill
Spec == Init /\ [][Next]_vars

(* Programs come to an end, and both processes are scheduled; nobody has   *)
(* to call, and nobody has to kill.                                        *)
FairSpec == Spec /\ WF_vars(ParentStep) /\ WF_vars(ChildStep)

-----------------------------------------------------------------------------
TypeOK ==
  /\ pc \in {"idle", "start", "pipe", "fork", "close", "open", "read", "wait", "ended", "replied"}
  /\ req \in Requests
  /\ at \in Nat \ {0}
  /\ args \in [slots : Nat, used : Nat]
  /\ heap \subseteq {"args", "name_copy", "output"}
  /\ fds \subseteq {"r", "w"}
  /\ pipe \in 0 .. PipeSize
  /\ child \in [state : {"none", "forked", "runs", "zombie", "reaped"}, fds : SUBSET {"r", "w"},
                prog : Programs, sent : Nat, end : Ends]
  /\ out \in [len : Nat, got : Nat, size : Nat]
  /\ status \in {"ok", "error"}
  /\ ran \in Seq(Ends)
  /\ trouble \in BOOLEAN
  /\ reply \in {"none", "ok", "error", "installed", "absent"}

(* The array that start_process allocates by counting spaces holds the     *)
(* words that strtok finds, the program before them and the NULL behind    *)
(* them, whatever spaces the string begins or ends with or repeats.        *)
ArgsFit == args.used <= args.slots

(* When a request has been answered no pipe end is open, no child is left  *)
(* running or as a zombie, and no memory is held, whichever of its steps   *)
(* failed.                                                                 *)
NothingLeft ==
  pc \in {"idle", "replied"} =>
    /\ fds = {}
    /\ heap = {}
    /\ child.state \in {"none", "reaped"}

(* A query that start_process reports as done has the whole output of a    *)
(* program that ended, however the reads and the writes were cut.          *)
OutputWhole ==
  pc = "ended" /\ WantsOutput /\ status = "ok" =>
    /\ "output" \in heap
    /\ child.state = "reaped"
    /\ out.len = child.prog.prints

(* The caller is told success exactly when no system call failed, no name  *)
(* was refused, and one program for each name ran to its end and exited    *)
(* with 0; a package counts as installed exactly when, besides, the output *)
(* begins with "ii".                                                       *)
Clean ==
  /\ Reaches(req)
  /\ ~ trouble
  /\ \A i \in DOMAIN req.names : ~ HasSpecial(ArgString(req, i))
  /\ Len(ran) = Len(req.names)
  /\ \A i \in DOMAIN ran : ran[i] = "ok"
ReplyTells ==
  pc = "replied" =>
    IF req.op = "query"
      THEN reply = "installed" <=> Clean /\ child.prog.ii
      ELSE reply = "ok" <=> Clean

(* Every request is answered, however much the program prints, unless the  *)
(* reader could not be set up: then the parent waits for a child that      *)
(* waits for somebody to read the pipe.                                    *)
Deaf ==
  /\ trouble
  /\ pc = "wait" /\ WantsOutput /\ "r" \in fds
  /\ child.state = "runs" /\ child.prog.prints > PipeSize
EveryStartEnds == pc # "idle" ~> pc = "idle" \/ Deaf
=============================================================================
