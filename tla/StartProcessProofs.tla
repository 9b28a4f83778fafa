------------------------- MODULE StartProcessProofs -------------------------
(***************************************************************************)
(* Theorems about StartProcess, for any names, any output and any sizes of *)
(* pipe and buffer: the argument array is large enough, no step that fails *)
(* leaves anything open or allocated, an output that counts is whole, and  *)
(* the answer tells how the programs ended.                                *)
(***************************************************************************)
EXTENDS StartProcess, FiniteSetTheorems, SequenceTheorems, TLAPS

-----------------------------------------------------------------------------
(* Strings and requests.                                                   *)

(* Each word but a first one stands behind a space of its own.             *)
LEMMA WordsFit ==
  ASSUME NEW C, NEW s \in Seq(C)
  PROVE  Slots(s) \in Nat /\ Used(s) \in Nat /\ Used(s) <= Slots(s)
<1> DEFINE Later == WordStarts(s) \ {1}
           before == [i \in Later |-> i - 1]
<1>0. DOMAIN s = 1 .. Len(s) /\ Len(s) \in Nat
  OBVIOUS
<1>1. IsFiniteSet(1 .. Len(s))
  BY <1>0, FS_Interval
<1>2. IsFiniteSet(Spaces(s)) /\ IsFiniteSet(WordStarts(s))
  <2>1. Spaces(s) \in SUBSET (1 .. Len(s)) /\ WordStarts(s) \in SUBSET (1 .. Len(s))
    BY <1>0, Zenon DEF Spaces, WordStarts
  <2>2. QED BY <1>1, <2>1, FS_Subset
<1>3. /\ IsFiniteSet(Later)
      /\ Cardinality(WordStarts(s)) <= Cardinality(Later) + 1
  <2>1. /\ IsFiniteSet(Later)
        /\ Cardinality(Later) = IF 1 \in WordStarts(s) THEN Cardinality(WordStarts(s)) - 1
                                                       ELSE Cardinality(WordStarts(s))
    BY <1>2, FS_RemoveElement
  <2>2. Cardinality(WordStarts(s)) \in Nat
    BY <1>2, FS_CardinalityType
  <2>3. QED BY <2>1, <2>2
<1>4. before \in Injection(Later, Spaces(s))
  <2>1. \A i \in Later : i \in Int /\ i - 1 \in Spaces(s)
    <3>1. TAKE i \in Later
    <3>2. i \in DOMAIN s /\ i # 1 /\ (i = 1 \/ s[i - 1] = " ")
      BY <3>1, Zenon DEF WordStarts
    <3>3. i \in 1 .. Len(s) /\ i # 1
      BY <1>0, <3>2, Zenon
    <3>4. i \in Int /\ i - 1 \in 1 .. Len(s)
      BY <1>0, <3>3
    <3>5. QED BY <1>0, <3>2, <3>4, Zenon DEF Spaces
  <2>2. before \in [Later -> Spaces(s)]
    BY <2>1
  <2>3. \A i, j \in Later : before[i] = before[j] => i = j
    BY <2>1
  <2>4. QED BY <2>2, <2>3 DEF Injection, IsInjective
<1>5. Cardinality(Later) <= Cardinality(Spaces(s))
  BY <1>2, <1>4, FS_Injection
<1>6. /\ Cardinality(Spaces(s)) \in Nat
      /\ Cardinality(WordStarts(s)) \in Nat
      /\ Cardinality(Later) \in Nat
  BY <1>2, <1>3, FS_CardinalityType
<1>7. QED BY <1>3, <1>5, <1>6 DEF Slots, Used, NumArgs

LEMMA RequestNames ==
  ASSUME NEW r \in Requests
  PROVE  /\ r.names \in Seq(Seq(STRING))
         /\ r.op \in {"script", "query", "install"}
         /\ r.op # "install" => Len(r.names) = 1
         /\ Reaches(r) => 1 \in DOMAIN r.names
<1>1. CASE r \in [op : {"script", "query"}, names : {<<n>> : n \in Names}, allowed : BOOLEAN]
  <2>1. PICK n \in Names : r.names = <<n>>
    BY <1>1
  <2>2. n \in Seq(STRING)
    BY NamesAreStrings
  <2>3. r.names \in Seq(Seq(STRING)) /\ Len(r.names) = 1 /\ DOMAIN r.names = {1}
    BY <2>1, <2>2
  <2>4. QED BY <1>1, <2>3
<1>2. CASE r \in [op : {"install"}, allowed : BOOLEAN,
                  names : UNION {[1 .. k -> Names \ {<<>>}] : k \in 0 .. MaxNames}]
  <2>1. PICK k \in 0 .. MaxNames : r.names \in [1 .. k -> Names \ {<<>>}]
    BY <1>2
  <2>2. \A n \in Names : n \in Seq(STRING)
    BY NamesAreStrings
  <2>3. k \in Nat
    BY <2>1, SizesGiven
  <2>4. r.names \in [1 .. k -> Seq(STRING)]
    BY <2>1, <2>2
  <2>5. r.names \in Seq(Seq(STRING)) /\ DOMAIN r.names = 1 .. k
    BY <2>3, <2>4, SeqDef
  <2>6. r.names # <<>> => 1 \in DOMAIN r.names
    BY <2>3, <2>5
  <2>7. QED BY <1>2, <2>5, <2>6 DEF Reaches
<1>3. QED BY <1>1, <1>2 DEF Requests

LEMMA ShortTuples ==
  ASSUME NEW C, NEW a \in C, NEW b \in C
  PROVE  <<a>> \in Seq(C) /\ <<a, b>> \in Seq(C)
OBVIOUS

Chars == STRING \cup {"c", " "}

LEMMA ArgStringIsString ==
  ASSUME NEW r \in Requests, NEW i \in DOMAIN r.names
  PROVE  ArgString(r, i) \in Seq(Chars)
<1>1. r.names[i] \in Seq(STRING)
  BY RequestNames
<1>2. r.names[i] \in Seq(Chars)
  <2>1. STRING \subseteq Chars
    BY Zenon DEF Chars
  <2>2. Len(r.names[i]) \in Nat /\ r.names[i] \in [1 .. Len(r.names[i]) -> STRING]
    BY <1>1
  <2>3. r.names[i] \in [1 .. Len(r.names[i]) -> Chars]
    BY <2>1, <2>2
  <2>4. QED BY <2>2, <2>3, SeqDef
<1>3. <<"c">> \in Seq(Chars) /\ <<"c", " ">> \in Seq(Chars)
  <2>1. "c" \in Chars /\ " " \in Chars
    BY Zenon DEF Chars
  <2>2. QED BY <2>1, ShortTuples, Zenon
<1>4. /\ <<"c">> \o r.names[i] \in Seq(Chars)
      /\ <<"c", " ">> \o r.names[i] \in Seq(Chars)
  BY <1>2, <1>3, ConcatProperties
<1>5. QED BY <1>2, <1>4 DEF ArgString

LEMMA NoExecIsProgram == NoExec \in Programs
  BY SizesGiven DEF NoExec, Programs

-----------------------------------------------------------------------------
(* The inductive invariant.                                                *)

Busy == {"start", "pipe", "fork", "close", "open", "read", "wait", "ended"}
Gone == {"none", "reaped"}
Alive == {"forked", "runs", "zombie"}

(* What is open and allocated, and whether there is a child, goes with the *)
(* place in start_process.                                                 *)
Held ==
  /\ pc \in {"idle", "replied", "start"} => fds = {} /\ heap = {}
  /\ pc = "pipe" => fds = {} /\ heap = {"args", "name_copy"}
  /\ pc \in {"fork", "close"} => fds = {"r", "w"} /\ heap = {"args", "name_copy"}
  /\ pc \in {"open", "read"} => fds = {"r"}
  /\ pc = "read" => "output" \in heap
  /\ pc = "wait" => fds \subseteq {"r"}
  /\ pc = "ended" => fds = {} /\ heap \subseteq {"output"}
  /\ pc \in {"idle", "replied", "start", "pipe", "fork", "ended"} => child.state \in Gone
  /\ pc \in {"close", "open", "read", "wait"} => child.state \in Alive

(* The ends the child holds go with its state, and one that ended well     *)
(* has printed all it prints.                                              *)
ChildHolds ==
  /\ child.state = "forked" => child.fds = {"r", "w"} /\ child.sent = 0
  /\ child.state = "runs" => child.fds = IF WantsOutput THEN {"w"} ELSE {}
  /\ child.state = "zombie" /\ child.end = "ok" => child.sent = child.prog.prints

(* No byte is lost between the program and the buffer.                     *)
Flow ==
  /\ pc \in {"idle", "replied", "start", "pipe", "fork"} => out = NoBuffer /\ pipe = 0
  /\ pc \in {"close", "open"} => out = NoBuffer
  /\ pc = "ended" => pipe = 0
  /\ pc \in {"open", "read"} => WantsOutput
  /\ pc \in {"close", "open", "read"} /\ WantsOutput => child.sent = pipe + out.got + out.len
  /\ pc \in Busy \ {"wait", "ended"} => status = "ok"
  /\ pc = "wait" /\ status = "ok" /\ WantsOutput =>
       child.state = "zombie" /\ child.sent = out.len /\ "output" \in heap
  /\ OutputWhole

(* What is known of the names so far.                                      *)
Refused(i) == HasSpecial(ArgString(req, i))
AllOk == \A i \in DOMAIN ran : ran[i] = "ok"
Track ==
  /\ pc \in Busy => Reaches(req) /\ at \in DOMAIN req.names /\ \A i \in 1 .. at - 1 : ~ Refused(i)
  /\ pc \in Busy \ {"ended"} => Len(ran) = at - 1 /\ AllOk
  /\ pc \in Busy \ {"start", "ended"} => ~ Refused(at)
  /\ pc \in Busy \ {"wait", "ended"} => ~ trouble
  /\ pc = "wait" => (status = "ok" <=> ~ trouble)
  /\ pc = "ended" => IF status = "ok"
                       THEN ~ trouble /\ Len(ran) = at /\ AllOk /\ ~ Refused(at)
                       ELSE trouble \/ ~ AllOk \/ Refused(at)
  /\ ReplyTells

IInv == TypeOK /\ ArgsFit /\ Held /\ ChildHolds /\ Flow /\ Track

-----------------------------------------------------------------------------
(* Types.                                                                  *)

(* A place in start_process has a name, and its string has an array.       *)
LEMMA ArgsOfName ==
  ASSUME IInv, pc = "start"
  PROVE  LET s == ArgString(req, at)
         IN  Slots(s) \in Nat /\ Used(s) \in Nat /\ Used(s) <= Slots(s)
<1>1. req \in Requests /\ at \in DOMAIN req.names
  BY DEF IInv, TypeOK, Track, Busy
<1>2. ArgString(req, at) \in Seq(Chars)
  BY <1>1, ArgStringIsString
<1>3. QED BY <1>2, WordsFit

LEMMA ArgsStep ==
  ASSUME IInv, [Next]_vars
  PROVE  (args \in [slots : Nat, used : Nat] /\ ArgsFit)'
<1>0. args \in [slots : Nat, used : Nat] /\ ArgsFit
  BY DEF IInv, TypeOK
<1>1. CASE Start
  BY <1>0, <1>1, ArgsOfName DEF Start, ArgsFit
<1>2. CASE Pipe \/ Fork \/ Wait
  BY <1>0, <1>2 DEF Pipe, Fork, Wait, Leave, NoArgs, ArgsFit
<1>3. CASE ~ (Start \/ Pipe \/ Fork \/ Wait)
  <2>1. args' = args
    BY <1>3 DEF Next, ParentStep, ChildStep, vars, parent, Begin, Answer, Return, Start, Pipe, Fork,
           CloseWriteEnd, OpenStream, Gets, Grow, AppendGot, ReadEnd, Wait, Exec, WriteByte,
       Exit, Kill
  <2>2. QED BY <1>0, <2>1 DEF ArgsFit
<1>4. QED BY <1>1, <1>2, <1>3

LEMMA OutStep ==
  ASSUME IInv, [Next]_vars
  PROVE  (out \in [len : Nat, got : Nat, size : Nat])'
<1>0. out \in [len : Nat, got : Nat, size : Nat] /\ BufferSize \in Nat
  BY SizesGiven DEF IInv, TypeOK
<1>1. CASE Gets
  <2>1. PICK n \in 1 .. BufferSize - 1 : out' = [out EXCEPT !.got = n]
    BY <1>1 DEF Gets
  <2>2. QED BY <1>0, <2>1
<1>2. CASE Grow \/ OpenStream \/ Answer
  BY <1>0, <1>2 DEF Grow, OpenStream, Answer, NoBuffer
<1>3. CASE AppendGot
  <2>1. out.len \in Nat /\ out.got \in Nat /\ out.size \in Nat
    BY <1>0
  <2>2. out.got <= Room
    BY <1>3, <2>1 DEF AppendGot, Needed, Room
  <2>3. out' = [out EXCEPT !.len = @ + out.got, !.got = 0]
    BY <1>3, <2>2 DEF AppendGot
  <2>4. out.len + out.got \in Nat /\ 0 \in Nat
    BY <2>1
  <2>5. QED BY <1>0, <2>3, <2>4, Zenon
<1>4. CASE ~ (Gets \/ Grow \/ OpenStream \/ Answer \/ AppendGot)
  <2>1. out' = out
    BY <1>4 DEF Next, ParentStep, ChildStep, vars, parent, Begin, Answer, Return, Start, Pipe, Fork,
           CloseWriteEnd, OpenStream, Gets, Grow, AppendGot, ReadEnd, Wait, Exec, WriteByte,
       Exit, Kill
  <2>2. QED BY <1>0, <2>1
<1>5. QED BY <1>1, <1>2, <1>3, <1>4

LEMMA PipeStep ==
  ASSUME IInv, [Next]_vars
  PROVE  (pipe \in 0 .. PipeSize)'
<1>0. pipe \in 0 .. PipeSize /\ PipeSize \in Nat
  BY SizesGiven DEF IInv, TypeOK
<1>1. CASE Gets
  <2>1. PICK n \in 1 .. BufferSize - 1 : n <= pipe /\ pipe' = pipe - n
    BY <1>1 DEF Gets
  <2>2. QED BY <1>0, <2>1, SizesGiven
<1>2. CASE WriteByte \/ Wait
  BY <1>0, <1>2 DEF WriteByte, Wait
<1>3. CASE ~ (Gets \/ WriteByte \/ Wait)
  <2>1. pipe' = pipe
    BY <1>3 DEF Next, ParentStep, ChildStep, vars, parent, Begin, Answer, Return, Start, Pipe, Fork,
           CloseWriteEnd, OpenStream, Gets, Grow, AppendGot, ReadEnd, Wait, Exec, WriteByte,
       Exit, Kill
  <2>2. QED BY <1>0, <2>1
<1>4. QED BY <1>1, <1>2, <1>3

LEMMA RanStep ==
  ASSUME IInv, [Next]_vars
  PROVE  (ran \in Seq(Ends))'
<1>0. ran \in Seq(Ends) /\ child.end \in Ends
  BY DEF IInv, TypeOK
<1>1. CASE Wait
  BY <1>0, <1>1 DEF Wait
<1>2. CASE ~ Wait
  <2>1. ran' = ran \/ ran' = <<>>
    BY <1>2 DEF Next, ParentStep, ChildStep, vars, parent, Begin, Answer, Return, Start, Pipe, Fork,
           CloseWriteEnd, OpenStream, Gets, Grow, AppendGot, ReadEnd, Wait, Exec, WriteByte,
       Exit, Kill
  <2>2. <<>> \in Seq(Ends)
    OBVIOUS
  <2>3. QED BY <1>0, <2>1, <2>2, Zenon
<1>3. QED BY <1>1, <1>2

ChildRecords ==
  [state : {"none", "forked", "runs", "zombie", "reaped"}, fds : SUBSET {"r", "w"},
   prog : Programs, sent : Nat, end : Ends]

LEMMA ChildStepTyped ==
  ASSUME IInv, [Next]_vars
  PROVE  (child \in ChildRecords)'
<1>0. child \in ChildRecords /\ fds \subseteq {"r", "w"} /\ {"ok", "bad", "killed"} = Ends
  BY DEF IInv, TypeOK, ChildRecords, Ends
<1>1. \A end \in Ends : Dies(end) => child' \in ChildRecords
  BY <1>0 DEF Dies, ChildRecords
<1>2. \A p \in Programs : p.end \in Ends
  BY DEF Programs, Ends
<1>3. CASE Return \/ Fork
  <2>1. NoChild \in ChildRecords
    BY NoExecIsProgram DEF NoChild, ChildRecords, Ends
  <2>2. [NoChild EXCEPT !.state = "forked", !.fds = fds] \in ChildRecords
    BY <1>0, <2>1 DEF ChildRecords
  <2>3. child' \in {child, NoChild, [NoChild EXCEPT !.state = "forked", !.fds = fds]}
    BY <1>3 DEF Return, Fork
  <2>4. QED BY <1>0, <2>1, <2>2, <2>3, Zenon
<1>4. CASE Exec
  <2>1. CASE Dies("bad")
    BY <1>0, <1>1, <2>1
  <2>2. ASSUME NEW p \in Programs,
               child' = [child EXCEPT !.state = "runs", !.prog = p,
                                      !.fds = IF WantsOutput THEN {"w"} ELSE {}]
        PROVE  child' \in ChildRecords
    BY <1>0, <2>2 DEF ChildRecords
  <2>3. QED BY <1>4, <2>1, <2>2 DEF Exec
<1>5. CASE WriteByte
  <2>1. CASE Dies("killed")
    BY <1>0, <1>1, <2>1
  <2>2. CASE child' = [child EXCEPT !.sent = @ + 1]
    BY <1>0, <2>2 DEF ChildRecords
  <2>3. QED BY <1>5, <2>1, <2>2 DEF WriteByte
<1>6. CASE Exit
  <2>1. child.prog.end \in Ends
    BY <1>0, <1>2 DEF ChildRecords
  <2>2. QED BY <1>1, <1>6, <2>1 DEF Exit
<1>7. CASE Kill
  BY <1>0, <1>1, <1>7 DEF Kill
<1>8. CASE Wait
  BY <1>0, <1>8 DEF Wait, ChildRecords
<1>9. CASE ~ (Return \/ Fork \/ Exec \/ WriteByte \/ Exit \/ Kill \/ Wait)
  <2>1. child' = child
    BY <1>9 DEF Next, ParentStep, ChildStep, vars, parent, Begin, Answer, Return, Start, Pipe, Fork,
           CloseWriteEnd, OpenStream, Gets, Grow, AppendGot, ReadEnd, Wait, Exec, WriteByte,
       Exit, Kill
  <2>2. QED BY <1>0, <2>1 DEF ChildRecords
<1>10. QED BY <1>3, <1>4, <1>5, <1>6, <1>7, <1>8, <1>9

LEMMA TypeStep ==
  ASSUME IInv, [Next]_vars
  PROVE  TypeOK'
<1>0. TypeOK
  BY DEF IInv
<1>1. trouble' \in BOOLEAN
  <2>1. trouble \in BOOLEAN
    BY <1>0, Zenon DEF TypeOK
  <2>2. trouble' \in {trouble, TRUE, FALSE}
    BY DEF Next, ParentStep, ChildStep, vars, parent, Begin, Answer, Return, Start, Pipe, Fork,
           CloseWriteEnd, OpenStream, Gets, Grow, AppendGot, ReadEnd, Wait, Exec, WriteByte,
       Exit, Kill
  <2>3. QED BY <2>1, <2>2, Zenon
<1>2. (pc \in
       {"idle", "start", "pipe", "fork", "close", "open", "read", "wait", "ended", "replied"})'
  BY <1>0 DEF TypeOK, Leave, Next, ParentStep, ChildStep, vars, parent, Begin, Answer, Return,
       Start, Pipe, Fork,
         CloseWriteEnd, OpenStream, Gets, Grow, AppendGot, ReadEnd, Wait, Exec, WriteByte, Exit,
       Kill
<1>3. (req \in Requests)'
  BY <1>0 DEF TypeOK, Next, ParentStep, ChildStep, vars, parent, Begin, Answer, Return, Start,
       Pipe, Fork,
         CloseWriteEnd, OpenStream, Gets, Grow, AppendGot, ReadEnd, Wait, Exec, WriteByte, Exit,
       Kill
<1>4. (at \in Nat \ {0})'
  <2>1. at \in Nat \ {0}
    BY <1>0 DEF TypeOK
  <2>2. at' \in {at, 1, at + 1}
    BY DEF Next, ParentStep, ChildStep, vars, parent, Begin, Answer, Return, Start, Pipe, Fork,
             CloseWriteEnd, OpenStream, Gets, Grow, AppendGot, ReadEnd, Wait, Exec, WriteByte,
       Exit, Kill
  <2>3. QED BY <2>1, <2>2
<1>5. (/\ heap \subseteq {"args", "name_copy", "output"}
      /\ fds \subseteq {"r", "w"})'
  BY <1>0 DEF TypeOK, Leave, Next, ParentStep, ChildStep, vars, parent, Begin, Answer, Return,
       Start, Pipe, Fork,
         CloseWriteEnd, OpenStream, Gets, Grow, AppendGot, ReadEnd, Wait, Exec, WriteByte, Exit,
       Kill
<1>6. (/\ status \in {"ok", "error"}
      /\ reply \in {"none", "ok", "error", "installed", "absent"})'
  BY <1>0 DEF TypeOK, Leave, Verdict, ExitResult, Next, ParentStep, ChildStep, vars, parent,
       Begin, Answer, Return, Start, Pipe, Fork,
         CloseWriteEnd, OpenStream, Gets, Grow, AppendGot, ReadEnd, Wait, Exec, WriteByte, Exit,
       Kill
<1>7. QED
  BY <1>1, <1>2, <1>3, <1>4, <1>5, <1>6, ArgsStep, OutStep, PipeStep, RanStep, ChildStepTyped
  DEF TypeOK, ChildRecords

LEMMA DiesFields ==
  ASSUME child \in ChildRecords, NEW end \in Ends, Dies(end)
  PROVE  /\ child'.state = "zombie" /\ child'.fds = {} /\ child'.end = end
         /\ child'.prog = child.prog /\ child'.sent = child.sent
BY DEF Dies, ChildRecords

(* A step of the child: what it does to the child, and that the parent and *)
(* its ends stay as they are.                                              *)
Becomes(state, ends) == child'.state = state /\ child'.fds = ends
LEMMA ChildMoves ==
  ASSUME IInv, ChildStep \/ Kill
  PROVE  /\ UNCHANGED <<pc, req, at, args, heap, out, status, ran, trouble, reply, fds>>
         /\ child.state \in {"forked", "runs"}
         /\ pc \in {"close", "open", "read", "wait"}
         /\ \/ Becomes("runs", IF WantsOutput THEN {"w"} ELSE {})
            \/ Becomes("zombie", {}) /\ (child'.end = "ok" => child'.sent = child'.prog.prints)
<1>0. child \in ChildRecords /\ ChildHolds /\ Held /\ {"ok", "bad", "killed"} = Ends
  BY DEF IInv, TypeOK, ChildRecords, Ends
<1>1. /\ UNCHANGED <<pc, req, at, args, heap, out, status, ran, trouble, reply, fds>>
      /\ child.state \in {"forked", "runs"}
  BY DEF ChildStep, Exec, WriteByte, Exit, Kill, parent
<1>2. pc \in {"close", "open", "read", "wait"}
  BY <1>0, <1>1 DEF Held, Gone, IInv, TypeOK
<1>3. \A end \in Ends \ {"ok"} : Dies(end) =>
        Becomes("zombie", {}) /\ (child'.end = "ok" => child'.sent = child'.prog.prints)
  BY <1>0, DiesFields DEF Becomes
<1>4. CASE Exec
  <2>1. ASSUME NEW p \in Programs,
               child' = [child EXCEPT !.state = "runs", !.prog = p,
                                      !.fds = IF WantsOutput THEN {"w"} ELSE {}]
        PROVE  Becomes("runs", IF WantsOutput THEN {"w"} ELSE {})
    BY <1>0, <2>1 DEF Becomes, ChildRecords
  <2>2. QED BY <1>0, <1>1, <1>2, <1>3, <1>4, <2>1 DEF Exec
<1>5. CASE WriteByte
  <2>1. child' = [child EXCEPT !.sent = @ + 1] =>
          Becomes("runs", IF WantsOutput THEN {"w"} ELSE {})
    BY <1>0, <1>5 DEF Becomes, ChildRecords, ChildHolds, WriteByte
  <2>2. QED BY <1>0, <1>1, <1>2, <1>3, <1>5, <2>1 DEF WriteByte
<1>6. CASE Exit
  <2>1. child.prog.end \in Ends
    BY <1>0 DEF ChildRecords, Programs
  <2>2. QED BY <1>0, <1>1, <1>2, <1>6, <2>1, DiesFields DEF Exit, Becomes
<1>7. CASE Kill
  BY <1>0, <1>1, <1>2, <1>3, <1>7 DEF Kill
<1>8. QED BY <1>4, <1>5, <1>6, <1>7 DEF ChildStep

LEMMA HeldStep ==
  ASSUME IInv, [Next]_vars
  PROVE  Held'
<1>0. /\ Held /\ child \in ChildRecords
      /\ heap \subseteq {"args", "name_copy", "output"}
  BY DEF IInv, TypeOK, ChildRecords
<1>1. CASE Begin
  BY <1>0, <1>1 DEF Begin, Held, Gone, Alive, ChildRecords
<1>2. CASE Answer
  BY <1>0, <1>2 DEF Answer, Held, Gone, Alive, ChildRecords
<1>3. CASE Return
  BY <1>0, <1>3 DEF Return, NoChild, Held, Gone, Alive, ChildRecords
<1>4. CASE Start
  BY <1>0, <1>4 DEF Start, Held, Gone, Alive, ChildRecords
<1>5. CASE Pipe
  BY <1>0, <1>5 DEF Pipe, Leave, Held, Gone, Alive, ChildRecords
<1>6. CASE Fork
  BY <1>0, <1>6 DEF Fork, Leave, NoChild, Held, Gone, Alive, ChildRecords
<1>7. CASE CloseWriteEnd
  BY <1>0, <1>7 DEF CloseWriteEnd, Held, Gone, Alive, ChildRecords
<1>8. CASE OpenStream
  BY <1>0, <1>8 DEF OpenStream, Held, Gone, Alive, ChildRecords
<1>9. CASE Gets
  BY <1>0, <1>9 DEF Gets, Held, Gone, Alive, ChildRecords
<1>10. CASE Grow
  BY <1>0, <1>10 DEF Grow, Held, Gone, Alive, ChildRecords
<1>11. CASE AppendGot
  BY <1>0, <1>11 DEF AppendGot, Held, Gone, Alive, ChildRecords
<1>12. CASE ReadEnd
  BY <1>0, <1>12 DEF ReadEnd, Held, Gone, Alive, ChildRecords
<1>13. CASE Wait
  <2>1. pc = "wait" /\ pc' = "ended" /\ child'.state = "reaped"
    BY <1>0, <1>13 DEF Wait, Leave, ChildRecords
  <2>2. fds' = fds \ {"r"} /\ heap' = heap \ {"args", "name_copy"}
    BY <1>13 DEF Wait, Leave
  <2>3. QED BY <1>0, <2>1, <2>2 DEF Held, Gone
<1>14. CASE ChildStep \/ Kill
  BY <1>0, <1>14, ChildMoves DEF Becomes, Held, Gone, Alive, ChildRecords
<1>15. CASE UNCHANGED vars
  BY <1>0, <1>15 DEF vars, parent, Held, Gone, Alive, ChildRecords
<1>16. QED
  BY <1>1, <1>2, <1>3, <1>4, <1>5, <1>6, <1>7, <1>8, <1>9, <1>10, <1>11, <1>12, <1>13,
     <1>14, <1>15
  DEF Next, ParentStep

LEMMA ChildHoldsStep ==
  ASSUME IInv, [Next]_vars
  PROVE  ChildHolds'
<1>0. Held /\ ChildHolds /\ child \in ChildRecords
  BY DEF IInv, TypeOK, ChildRecords
<1>1. CASE Begin
  BY <1>0, <1>1 DEF Begin, Held, ChildHolds, WantsOutput, Gone, Alive, ChildRecords
<1>2. CASE Answer
  BY <1>0, <1>2 DEF Answer, Held, ChildHolds, WantsOutput, Gone, Alive, ChildRecords
<1>3. CASE Return
  BY <1>0, <1>3 DEF Return, NoChild, Held, ChildHolds, WantsOutput, Gone, Alive, ChildRecords
<1>4. CASE Start
  BY <1>0, <1>4 DEF Start, Held, ChildHolds, WantsOutput, Gone, Alive, ChildRecords
<1>5. CASE Pipe
  BY <1>0, <1>5 DEF Pipe, Leave, Held, ChildHolds, WantsOutput, Gone, Alive, ChildRecords
<1>6. CASE Fork
  BY <1>0, <1>6 DEF Fork, Leave, NoChild, Held, ChildHolds, WantsOutput, Gone, Alive, ChildRecords
<1>7. CASE CloseWriteEnd
  BY <1>0, <1>7 DEF CloseWriteEnd, Held, ChildHolds, WantsOutput, Gone, Alive, ChildRecords
<1>8. CASE OpenStream
  BY <1>0, <1>8 DEF OpenStream, Held, ChildHolds, WantsOutput, Gone, Alive, ChildRecords
<1>9. CASE Gets
  BY <1>0, <1>9 DEF Gets, Held, ChildHolds, WantsOutput, Gone, Alive, ChildRecords
<1>10. CASE Grow
  BY <1>0, <1>10 DEF Grow, Held, ChildHolds, WantsOutput, Gone, Alive, ChildRecords
<1>11. CASE AppendGot
  BY <1>0, <1>11 DEF AppendGot, Held, ChildHolds, WantsOutput, Gone, Alive, ChildRecords
<1>12. CASE ReadEnd
  BY <1>0, <1>12 DEF ReadEnd, Held, ChildHolds, WantsOutput, Gone, Alive, ChildRecords
<1>13. CASE Wait
  BY <1>0, <1>13 DEF Wait, Leave, Held, ChildHolds, WantsOutput, Gone, Alive, ChildRecords
<1>14. CASE ChildStep \/ Kill
  BY <1>0, <1>14, ChildMoves DEF Becomes, Held, ChildHolds, WantsOutput, Gone, Alive, ChildRecords
<1>15. CASE UNCHANGED vars
  BY <1>0, <1>15 DEF vars, parent, Held, ChildHolds, WantsOutput, Gone, Alive, ChildRecords
<1>16. QED
  BY <1>1, <1>2, <1>3, <1>4, <1>5, <1>6, <1>7, <1>8, <1>9, <1>10, <1>11, <1>12, <1>13,
     <1>14, <1>15
  DEF Next, ParentStep

LEMMA ChildFlow ==
  ASSUME IInv, ChildStep \/ Kill, WantsOutput
  PROVE  \/ child'.sent = child.sent /\ pipe' = pipe
         \/ child'.sent = child.sent + 1 /\ pipe' = pipe + 1
<1>0. child \in ChildRecords /\ ChildHolds /\ {"ok", "bad", "killed"} = Ends
  BY DEF IInv, TypeOK, ChildRecords, Ends
<1>1. \A end \in Ends : Dies(end) => child'.sent = child.sent
  BY <1>0, DiesFields
<1>2. CASE Exec
  <2>1. ASSUME NEW p \in Programs,
               child' = [child EXCEPT !.state = "runs", !.prog = p,
                                      !.fds = IF WantsOutput THEN {"w"} ELSE {}]
        PROVE  child'.sent = child.sent
    BY <1>0, <2>1 DEF ChildRecords
  <2>2. QED BY <1>0, <1>1, <1>2, <2>1 DEF Exec
<1>3. CASE WriteByte
  <2>1. "w" \in child.fds
    BY <1>0, <1>3 DEF WriteByte, ChildHolds
  <2>2. child' = [child EXCEPT !.sent = @ + 1] => child'.sent = child.sent + 1
    BY <1>0 DEF ChildRecords
  <2>3. QED BY <1>0, <1>1, <1>3, <2>1, <2>2 DEF WriteByte
<1>4. CASE Exit
  <2>1. child.prog.end \in Ends
    BY <1>0 DEF ChildRecords, Programs
  <2>2. QED BY <1>1, <1>4, <2>1 DEF Exit
<1>5. CASE Kill
  BY <1>0, <1>1, <1>5 DEF Kill
<1>6. QED BY <1>2, <1>3, <1>4, <1>5 DEF ChildStep

LEMMA FlowStep ==
  ASSUME IInv, [Next]_vars
  PROVE  Flow'
<1>0. /\ Flow /\ Held /\ ChildHolds /\ child \in ChildRecords
      /\ pipe \in Nat /\ out \in [len : Nat, got : Nat, size : Nat]
  BY SizesGiven DEF IInv, TypeOK, ChildRecords
<1>1. CASE Begin
  BY <1>0, <1>1 DEF Begin, Flow, OutputWhole, Held, ChildHolds, WantsOutput, Busy, Gone,
       NoBuffer, ChildRecords
<1>2. CASE Answer
  BY <1>0, <1>2 DEF Answer, Flow, OutputWhole, Held, ChildHolds, WantsOutput, Busy, Gone,
       NoBuffer, ChildRecords
<1>3. CASE Return
  BY <1>0, <1>3 DEF Return, NoChild, Flow, OutputWhole, Held, ChildHolds, WantsOutput, Busy,
       Gone, NoBuffer, ChildRecords
<1>4. CASE Start
  BY <1>0, <1>4 DEF Start, Flow, OutputWhole, Held, ChildHolds, WantsOutput, Busy, Gone,
       NoBuffer, ChildRecords
<1>5. CASE Pipe
  BY <1>0, <1>5 DEF Pipe, Leave, Flow, OutputWhole, Held, ChildHolds, WantsOutput, Busy, Gone,
       NoBuffer, ChildRecords
<1>6. CASE Fork
  <2>1. pc' = "close" => child'.sent = 0
    BY <1>6 DEF Fork, Leave, NoChild
  <2>2. /\ pc = "fork" /\ out' = out /\ pipe' = pipe /\ req' = req
        /\ \/ pc' = "close" /\ status' = status
           \/ pc' = "ended" /\ status' = "error"
    BY <1>6 DEF Fork, Leave
  <2>3. QED
    BY <1>0, <2>1, <2>2 DEF Flow, OutputWhole, WantsOutput, Busy, NoBuffer
<1>7. CASE CloseWriteEnd
  BY <1>0, <1>7 DEF CloseWriteEnd, Flow, OutputWhole, Held, ChildHolds, WantsOutput, Busy, Gone,
       NoBuffer, ChildRecords
<1>8. CASE OpenStream
  BY <1>0, <1>8 DEF OpenStream, Flow, OutputWhole, Held, ChildHolds, WantsOutput, Busy, Gone,
       NoBuffer, ChildRecords
<1>9. CASE Gets
  BY <1>0, <1>9 DEF Gets, Flow, OutputWhole, Held, ChildHolds, WantsOutput, Busy, Gone, NoBuffer,
       ChildRecords
<1>10. CASE Grow
  BY <1>0, <1>10 DEF Grow, Flow, OutputWhole, Held, ChildHolds, WantsOutput, Busy, Gone,
       NoBuffer, ChildRecords
<1>11. CASE AppendGot
  BY <1>0, <1>11 DEF AppendGot, Needed, Room, Flow, OutputWhole, Held, ChildHolds, WantsOutput,
       Busy, Gone, NoBuffer, ChildRecords
<1>12. CASE ReadEnd
  <2>1. child.state = "zombie"
    BY <1>0, <1>12 DEF ReadEnd, Held, ChildHolds, Alive, Flow, WantsOutput
  <2>2. child.sent = out.len
    BY <1>0, <1>12 DEF ReadEnd, Flow, ChildRecords
  <2>3. QED
    BY <1>0, <1>12, <2>1, <2>2 DEF ReadEnd, Flow, OutputWhole, Held, WantsOutput, Busy
<1>13. CASE Wait
  BY <1>0, <1>13 DEF Wait, Leave, ExitResult, Flow, OutputWhole, Held, ChildHolds, WantsOutput,
       Busy, Gone, NoBuffer, ChildRecords
<1>14. CASE ChildStep \/ Kill
  BY <1>0, <1>14, ChildMoves, ChildFlow DEF Becomes, Flow, OutputWhole, Held, ChildHolds,
       WantsOutput, Busy, Gone, NoBuffer, ChildRecords
<1>15. CASE UNCHANGED vars
  BY <1>0, <1>15 DEF vars, parent, Flow, OutputWhole, Held, ChildHolds, WantsOutput, Busy, Gone,
       NoBuffer, ChildRecords
<1>16. QED
  BY <1>1, <1>2, <1>3, <1>4, <1>5, <1>6, <1>7, <1>8, <1>9, <1>10, <1>11, <1>12, <1>13,
     <1>14, <1>15
  DEF Next, ParentStep

LEMMA OkAppended ==
  ASSUME NEW s \in Seq(Ends), NEW end \in Ends
  PROVE  /\ Len(Append(s, end)) = Len(s) + 1
         /\ (\A i \in DOMAIN Append(s, end) : Append(s, end)[i] = "ok")
              <=> (\A i \in DOMAIN s : s[i] = "ok") /\ end = "ok"
<1>1. /\ Len(s) \in Nat /\ DOMAIN s = 1 .. Len(s)
      /\ DOMAIN Append(s, end) = 1 .. Len(s) + 1
      /\ Append(s, end)[Len(s) + 1] = end
      /\ \A i \in 1 .. Len(s) : Append(s, end)[i] = s[i]
  OBVIOUS
<1>2. Len(s) + 1 \in 1 .. Len(s) + 1 /\ 1 .. Len(s) \subseteq 1 .. Len(s) + 1
  BY <1>1
<1>3. \A i \in 1 .. Len(s) + 1 : i \in 1 .. Len(s) \/ i = Len(s) + 1
  BY <1>1
<1>4. Len(Append(s, end)) = Len(s) + 1
  OBVIOUS
<1>5. QED BY <1>1, <1>2, <1>3, <1>4, Zenon

(* The answer that ends a request.                                         *)
LEMMA AnswerTells ==
  ASSUME IInv, Answer, pc' = "replied"
  PROVE  ReplyTells'
<1>0. /\ pc = "ended" /\ reply' = Verdict
      /\ UNCHANGED <<req, ran, trouble, child>>
      /\ req.op = "install" /\ status = "ok" => ~ at < Len(req.names)
  BY DEF Answer
<1>1. /\ req \in Requests /\ at \in Nat \ {0} /\ child \in ChildRecords
      /\ status \in {"ok", "error"}
  BY DEF IInv, TypeOK, ChildRecords
<1>2. /\ req.op \in {"script", "query", "install"}
      /\ Len(req.names) \in Nat /\ DOMAIN req.names = 1 .. Len(req.names)
      /\ req.op # "install" => Len(req.names) = 1
  BY <1>1, RequestNames
<1>3. /\ Reaches(req) /\ at \in DOMAIN req.names
      /\ \A i \in 1 .. at - 1 : ~ Refused(i)
      /\ IF status = "ok" THEN ~ trouble /\ Len(ran) = at /\ AllOk /\ ~ Refused(at)
                          ELSE trouble \/ ~ AllOk \/ Refused(at)
  BY <1>0 DEF IInv, Track, Busy
<1>4. Clean <=> status = "ok"
  <2>1. CASE status = "ok"
    <3>1. at = Len(req.names)
      <4>1. at \in Nat /\ 1 <= at /\ at <= Len(req.names)
        BY <1>1, <1>2, <1>3
      <4>2. CASE req.op = "install"
        BY <1>0, <1>2, <2>1, <4>1, <4>2
      <4>3. CASE req.op # "install"
        <5>1. Len(req.names) = 1
          BY <1>2, <4>3, Zenon
        <5>2. QED BY <4>1, <5>1
      <4>4. QED BY <4>2, <4>3
    <3>2. \A i \in DOMAIN req.names : i \in 1 .. at - 1 \/ i = at
      BY <1>1, <1>2, <3>1
    <3>3. QED BY <1>3, <2>1, <3>1, <3>2, Zenon DEF Clean, Refused, AllOk
  <2>2. CASE status # "ok"
    BY <1>3, <2>2, Zenon DEF Clean, Refused, AllOk
  <2>3. QED BY <2>1, <2>2
<1>5. WantsOutput /\ status = "ok" => out.len = child.prog.prints
  BY <1>0 DEF IInv, Flow, OutputWhole
<1>6. child.prog.ii => child.prog.prints >= 2
  BY <1>1 DEF ChildRecords, Programs
<1>7. Clean' <=> Clean
  BY <1>0 DEF Clean
<1>8. IF req.op = "query" THEN reply' = "installed" <=> Clean /\ child.prog.ii
                          ELSE reply' = "ok" <=> Clean
  <2>1. CASE req.op = "query"
    BY <1>0, <1>4, <1>5, <1>6, <2>1 DEF Verdict, WantsOutput
  <2>2. CASE req.op # "query"
    BY <1>0, <1>1, <1>4, <2>2 DEF Verdict
  <2>3. QED BY <2>1, <2>2
<1>9. QED BY <1>0, <1>7, <1>8 DEF ReplyTells

LEMMA TrackStep ==
  ASSUME IInv, [Next]_vars
  PROVE  Track'
<1>0. /\ Track /\ req \in Requests /\ at \in Nat \ {0} /\ ran \in Seq(Ends)
      /\ status \in {"ok", "error"} /\ child \in ChildRecords
      /\ pc \in Busy \ {"wait", "ended"} => status = "ok"
  BY DEF IInv, TypeOK, ChildRecords, Flow
<1>1. CASE Begin
  <2>1. req' \in Requests /\ at' = 1 /\ ran' = <<>> /\ status' = "ok" /\ trouble' = FALSE
    BY <1>1 DEF Begin
  <2>2. CASE Reaches(req')
    <3>1. 1 \in DOMAIN req'.names
      BY <2>1, <2>2, RequestNames
    <3>2. pc' = "start"
      BY <1>1, <2>2 DEF Begin
    <3>3. Len(ran') = 0 /\ AllOk'
      BY <2>1 DEF AllOk
    <3>4. QED BY <2>1, <2>2, <3>1, <3>2, <3>3 DEF Track, ReplyTells, Busy
  <2>3. CASE ~ Reaches(req')
    <3>1. pc' = "replied" /\ reply' = "error"
      BY <1>1, <2>3 DEF Begin
    <3>2. ~ Clean'
      BY <2>3 DEF Clean
    <3>3. QED BY <3>1, <3>2 DEF Track, ReplyTells, Busy
  <2>4. QED BY <2>2, <2>3
<1>2. CASE Answer
  <2>1. CASE req.op = "install" /\ status = "ok" /\ at < Len(req.names)
    <3>1. /\ pc' = "start" /\ at' = at + 1
          /\ UNCHANGED <<req, ran, status, trouble>> /\ pc = "ended"
      BY <1>2, <2>1 DEF Answer
    <3>2. Len(req.names) \in Nat /\ DOMAIN req.names = 1 .. Len(req.names)
      BY <1>0, RequestNames
    <3>3. /\ Reaches(req) /\ at \in DOMAIN req.names
          /\ \A i \in 1 .. at - 1 : ~ Refused(i)
          /\ ~ trouble /\ Len(ran) = at /\ AllOk /\ ~ Refused(at)
      BY <1>0, <2>1, <3>1 DEF Track, Busy
    <3>4. at + 1 \in DOMAIN req.names /\ \A i \in 1 .. (at + 1) - 1 : i \in 1 .. at - 1 \/ i = at
      BY <1>0, <2>1, <3>2
    <3>5. \A i \in 1 .. at' - 1 : ~ Refused(i)
      BY <3>1, <3>3, <3>4
    <3>6. QED
      BY <1>0, <3>1, <3>3, <3>4, <3>5 DEF Track, ReplyTells, Busy, Refused, AllOk
  <2>2. CASE ~ (req.op = "install" /\ status = "ok" /\ at < Len(req.names))
    <3>1. pc' = "replied"
      BY <1>2, <2>2 DEF Answer
    <3>2. ReplyTells'
      BY <1>2, <3>1, AnswerTells
    <3>3. QED BY <3>1, <3>2 DEF Track, Busy
  <2>3. QED BY <2>1, <2>2
<1>3. CASE Return
  BY <1>0, <1>3 DEF Return, Track, ReplyTells, Refused, AllOk, Busy
<1>4. CASE Start
  BY <1>0, <1>4 DEF Start, Track, ReplyTells, Refused, AllOk, Busy
<1>5. CASE Pipe
  BY <1>0, <1>5 DEF Pipe, Leave, Track, ReplyTells, Refused, AllOk, Busy
<1>6. CASE Fork
  BY <1>0, <1>6 DEF Fork, Leave, Track, ReplyTells, Refused, AllOk, Busy
<1>7. CASE CloseWriteEnd
  BY <1>0, <1>7 DEF CloseWriteEnd, Track, ReplyTells, Refused, AllOk, Busy
<1>8. CASE OpenStream
  BY <1>0, <1>8 DEF OpenStream, Track, ReplyTells, Refused, AllOk, Busy
<1>9. CASE Gets
  BY <1>0, <1>9 DEF Gets, Track, ReplyTells, Refused, AllOk, Busy
<1>10. CASE Grow
  BY <1>0, <1>10 DEF Grow, Track, ReplyTells, Refused, AllOk, Busy
<1>11. CASE AppendGot
  BY <1>0, <1>11 DEF AppendGot, Track, ReplyTells, Refused, AllOk, Busy
<1>12. CASE ReadEnd
  BY <1>0, <1>12 DEF ReadEnd, Track, ReplyTells, Refused, AllOk, Busy
<1>13. CASE Wait
  <2>1. child.end \in Ends /\ ran' = Append(ran, child.end)
    BY <1>0, <1>13 DEF Wait, ChildRecords
  <2>2. Len(ran') = Len(ran) + 1 /\ (AllOk' <=> AllOk /\ child.end = "ok")
    BY <1>0, <2>1, OkAppended DEF AllOk
  <2>3. /\ Len(ran) = at - 1 /\ AllOk /\ ~ Refused(at) /\ (status = "ok" <=> ~ trouble)
        /\ Reaches(req) /\ at \in DOMAIN req.names /\ \A i \in 1 .. at - 1 : ~ Refused(i)
    BY <1>0, <1>13 DEF Wait, Track, Busy
  <2>4. pc' = "ended" /\ req' = req /\ at' = at
    BY <1>13 DEF Wait, Leave
  <2>5. IF status' = "ok" THEN ~ trouble' /\ status = "ok" /\ child.end = "ok"
                          ELSE trouble' \/ child.end # "ok"
    BY <1>0, <1>13, <2>3 DEF Wait, Leave, ExitResult
  <2>6. Len(ran') = at
    BY <1>0, <2>2, <2>3
  <2>7. QED
    BY <2>2, <2>3, <2>4, <2>5, <2>6 DEF Track, ReplyTells, Busy, Refused
<1>14. CASE ChildStep \/ Kill
  BY <1>0, <1>14, ChildMoves DEF Becomes, Track, ReplyTells, Refused, AllOk, Busy
<1>15. CASE UNCHANGED vars
  BY <1>0, <1>15 DEF vars, parent, Clean, Track, ReplyTells, Refused, AllOk, Busy
<1>16. QED
  BY <1>1, <1>2, <1>3, <1>4, <1>5, <1>6, <1>7, <1>8, <1>9, <1>10, <1>11, <1>12, <1>13,
     <1>14, <1>15
  DEF Next, ParentStep

-----------------------------------------------------------------------------
(* The theorems.                                                           *)

LEMMA InitIInv ==
  ASSUME Init
  PROVE  IInv
<1>1. TypeOK
  <2>1. req \in Requests
    <3>1. <<>> \in [1 .. 0 -> Names \ {<<>>}]
      OBVIOUS
    <3>2. 0 \in 0 .. MaxNames /\ FALSE \in BOOLEAN
      BY SizesGiven
    <3>3. <<>> \in UNION {[1 .. k -> Names \ {<<>>}] : k \in 0 .. MaxNames}
      BY <3>1, <3>2, Zenon
    <3>4. QED BY <3>2, <3>3 DEF Init, Requests
  <2>2. child \in ChildRecords
    BY NoExecIsProgram DEF Init, NoChild, ChildRecords, Ends
  <2>3. trouble \in BOOLEAN
    BY DEF Init
  <2>4. /\ pc = "idle" /\ at = 1 /\ heap = {} /\ fds = {} /\ pipe = 0
        /\ status = "ok" /\ reply = "none"
    BY DEF Init
  <2>5. /\ args \in [slots : Nat, used : Nat]
        /\ out \in [len : Nat, got : Nat, size : Nat]
        /\ ran \in Seq(Ends) /\ pipe \in 0 .. PipeSize
    BY SizesGiven DEF Init, NoArgs, NoBuffer
  <2>6. QED BY <2>1, <2>2, <2>3, <2>4, <2>5 DEF TypeOK, ChildRecords
<1>2. ArgsFit
  BY DEF Init, ArgsFit, NoArgs
<1>3. Held /\ ChildHolds /\ Flow /\ Track
  BY DEF Init, Held, ChildHolds, Flow, Track, OutputWhole, ReplyTells, WantsOutput, NoChild, Gone,
         Busy
<1>4. QED BY <1>1, <1>2, <1>3 DEF IInv

LEMMA IInvAlways == Spec => []IInv
<1>1. Init => IInv
  BY InitIInv
<1>2. IInv /\ [Next]_vars => IInv'
  BY TypeStep, ArgsStep, HeldStep, ChildHoldsStep, FlowStep, TrackStep DEF IInv
<1>3. QED BY <1>1, <1>2, PTL DEF Spec

(* The state of a call of start_process has its types.                     *)
THEOREM TypeCorrect == Spec => []TypeOK
<1>1. IInv => TypeOK
  BY DEF IInv
<1>2. QED BY <1>1, IInvAlways, PTL

(* The array that start_process allocates by counting the spaces holds the *)
(* words of every string.                                                  *)
THEOREM ArgsAlwaysFit == Spec => []ArgsFit
<1>1. IInv => ArgsFit
  BY DEF IInv
<1>2. QED BY <1>1, IInvAlways, PTL

(* Whichever step failed, an answered request leaves no end of the pipe    *)
(* open, no memory held, and no child running or unreaped.                 *)
THEOREM NothingIsLeft == Spec => []NothingLeft
<1>1. IInv => NothingLeft
  BY DEF IInv, Held, NothingLeft, Gone
<1>2. QED BY <1>1, IInvAlways, PTL

(* An output that counts is whole, however small the pipe and the buffer   *)
(* are and however the reads and the writes were cut.                      *)
THEOREM OutputIsWhole == Spec => []OutputWhole
<1>1. IInv => OutputWhole
  BY DEF IInv, Flow
<1>2. QED BY <1>1, IInvAlways, PTL

(* The answer tells whether every program of the request ran to its end    *)
(* and exited with 0, for any number of names.                             *)
THEOREM ReplyAlwaysTells == Spec => []ReplyTells
<1>1. IInv => ReplyTells
  BY DEF IInv, Track
<1>2. QED BY <1>1, IInvAlways, PTL
=============================================================================
