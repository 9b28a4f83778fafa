--------------------------- MODULE ModConfigProofs ---------------------------
(***************************************************************************)
(* Theorems about ModConfig, for files of any number of lines of any       *)
(* length.  The provers have no induction, but know that a set of numbers  *)
(* has a least element: what a loop computes is shown by the first round   *)
(* in which it would not.                                                  *)
(***************************************************************************)
EXTENDS ModConfig, SequenceTheorems, WellFoundedInduction, TLAPS

-----------------------------------------------------------------------------
(* Induction and loops.                                                    *)

LEMMA LeastElement ==
  ASSUME NEW S \in SUBSET Nat, S # {}
  PROVE  \E i \in S : \A j \in S : ~ (j < i)
<1>1. PICK x \in S : \A y \in S : ~ (<<y, x>> \in OpToRel(<, Nat))
  BY NatLessThanWellFounded, WFMin
<1>2. QED BY <1>1 DEF OpToRel

(* A set of numbers that holds 0, and with each number below n the next,   *)
(* holds all up to n.                                                      *)
LEMMA Induction ==
  ASSUME NEW n \in Nat, NEW P, 0 \in P,
         \A i \in 0 .. n - 1 : i \in P => i + 1 \in P
  PROVE  \A i \in 0 .. n : i \in P
<1> SUFFICES ASSUME NEW k \in 0 .. n, k \notin P PROVE FALSE
  OBVIOUS
<1> DEFINE S == {i \in 0 .. n : i \notin P}
<1>1. S \in SUBSET Nat /\ k \in S
  OBVIOUS
<1>2. PICK i \in S : \A j \in S : ~ (j < i)
  BY <1>1, LeastElement
<1>3. i \in 1 .. n
  BY <1>2
<1>4. i - 1 \in 0 .. n - 1 /\ i - 1 \notin S
  BY <1>2, <1>3
<1>5. i - 1 \in P
  BY <1>4
<1>6. QED BY <1>2, <1>3, <1>4, <1>5

(* The states of a loop whose round i is the function step[i].             *)
Loop(g, n, b, step) ==
  /\ g[0] = b
  /\ \A i \in 1 .. n : g[i] = step[i][g[i - 1]]

LEMMA LoopExists ==
  ASSUME NEW T, NEW n \in Nat, NEW b \in T, NEW step \in [1 .. n -> [T -> T]]
  PROVE  \E g \in [0 .. n -> T] : Loop(g, n, b, step)
<1> DEFINE P == {m \in 0 .. n : \E g \in [0 .. m -> T] : Loop(g, m, b, step)}
<1>1. 0 \in P
  <2>1. [i \in 0 .. 0 |-> b] \in [0 .. 0 -> T] /\ Loop([i \in 0 .. 0 |-> b], 0, b, step)
    BY DEF Loop
  <2>2. QED BY <2>1
<1>2. ASSUME NEW m \in 0 .. n - 1, m \in P
      PROVE  m + 1 \in P
  <2>1. PICK g \in [0 .. m -> T] : Loop(g, m, b, step)
    BY <1>2
  <2> DEFINE h == [i \in 0 .. m + 1 |-> IF i = m + 1 THEN step[m + 1][g[m]] ELSE g[i]]
  <2>2. m + 1 \in 1 .. n /\ g[m] \in T
    OBVIOUS
  <2>3. step[m + 1][g[m]] \in T
    BY <2>2
  <2>4. h \in [0 .. m + 1 -> T]
    BY <2>3
  <2>5. Loop(h, m + 1, b, step)
    BY <2>1 DEF Loop
  <2>6. m + 1 \in 0 .. n
    OBVIOUS
  <2>7. QED BY <2>4, <2>5, <2>6
<1> HIDE DEF P
<1>3. \A m \in 0 .. n - 1 : m \in P => m + 1 \in P
  BY <1>2
<1>4. \A m \in 0 .. n : m \in P
  BY <1>1, <1>3, Induction
<1>5. n \in P
  BY <1>4
<1>6. QED BY <1>5 DEF P

LEMMA LoopIsUnique ==
  ASSUME NEW n \in Nat, NEW b, NEW step, NEW g, NEW h, Loop(g, n, b, step), Loop(h, n, b, step)
  PROVE  \A i \in 0 .. n : g[i] = h[i]
<1> DEFINE P == {i \in 0 .. n : g[i] = h[i]}
<1>1. 0 \in P
  BY DEF Loop
<1>2. \A i \in 0 .. n - 1 : i \in P => i + 1 \in P
  BY DEF Loop
<1> HIDE DEF P
<1>3. \A i \in 0 .. n : i \in P
  BY <1>1, <1>2, Induction
<1>4. QED BY <1>3 DEF P

(* The powers of two: the loops of all lengths make one function.          *)
LEMMA PowerIs ==
  /\ Power \in [Nat -> Nat]
  /\ Power[0] = 1
  /\ \A n \in Nat : Power[n + 1] = 2 * Power[n]
<1> DEFINE twice(n) == [i \in 1 .. n |-> [x \in Nat |-> 2 * x]]
           G(n) == CHOOSE g \in [0 .. n -> Nat] : Loop(g, n, 1, twice(n))
           p == [n \in Nat |-> G(n)[n]]
<1>1. ASSUME NEW n \in Nat
      PROVE  /\ G(n) \in [0 .. n -> Nat] /\ G(n)[0] = 1
             /\ \A i \in 1 .. n : G(n)[i] = 2 * G(n)[i - 1]
  <2>1. twice(n) \in [1 .. n -> [Nat -> Nat]]
    OBVIOUS
  <2> HIDE DEF twice
  <2>2. \E g \in [0 .. n -> Nat] : Loop(g, n, 1, twice(n))
    BY <2>1, LoopExists
  <2>3. G(n) \in [0 .. n -> Nat] /\ Loop(G(n), n, 1, twice(n))
    BY <2>2, Zenon
  <2> HIDE DEF G
  <2>4. \A i \in 1 .. n : G(n)[i] = twice(n)[i][G(n)[i - 1]] /\ G(n)[i - 1] \in Nat
    BY <2>3 DEF Loop
  <2>5. \A i \in 1 .. n, x \in Nat : twice(n)[i][x] = 2 * x
    BY DEF twice
  <2>6. \A i \in 1 .. n : G(n)[i] = 2 * G(n)[i - 1]
    BY <2>4, <2>5
  <2>7. QED BY <2>3, <2>6 DEF Loop
<1> HIDE DEF G
<1>2. ASSUME NEW n \in Nat
      PROVE  G(n + 1)[n] = G(n)[n]
  <2> DEFINE P == {i \in 0 .. n : G(n + 1)[i] = G(n)[i]}
  <2>0. n + 1 \in Nat
    OBVIOUS
  <2>1. 0 \in P
    <3>1. G(n + 1)[0] = 1
      BY <1>1, <2>0
    <3>2. G(n)[0] = 1
      BY <1>1
    <3>3. QED BY <3>1, <3>2
  <2>2. ASSUME NEW i \in 0 .. n - 1, i \in P
        PROVE  i + 1 \in P
    <3>1. G(n)[i + 1] = 2 * G(n)[i]
      BY <1>1
    <3>2. G(n + 1)[i + 1] = 2 * G(n + 1)[i]
      BY <1>1, <2>0
    <3>3. QED BY <2>2, <3>1, <3>2
  <2> HIDE DEF P
  <2>3. n \in P
    BY <2>1, <2>2, Induction
  <2>4. QED BY <2>3 DEF P
<1>3. \A n \in Nat : p[n + 1] = 2 * p[n] /\ p[n] \in Nat
  <2> SUFFICES ASSUME NEW n \in Nat PROVE p[n + 1] = 2 * p[n] /\ p[n] \in Nat
    OBVIOUS
  <2>1. p[n] = G(n)[n] /\ G(n)[n] \in Nat
    BY <1>1
  <2>2. p[n + 1] = G(n + 1)[n + 1]
    OBVIOUS
  <2>3. G(n + 1)[n + 1] = 2 * G(n + 1)[(n + 1) - 1]
    <3>1. n + 1 \in Nat /\ n + 1 \in 1 .. n + 1
      OBVIOUS
    <3>2. QED BY <1>1, <3>1
  <2>4. QED BY <1>2, <2>1, <2>2, <2>3
<1>4. p[0] = 1
  BY <1>1
<1>5. \A n \in Nat : p[n] = IF n = 0 THEN 1 ELSE 2 * p[n - 1]
  BY <1>3, <1>4
<1>6. p = [n \in Nat |-> IF n = 0 THEN 1 ELSE 2 * p[n - 1]]
  BY <1>5
<1> HIDE DEF p
<1>7. Power = [n \in Nat |-> IF n = 0 THEN 1 ELSE 2 * Power[n - 1]]
  BY <1>6 DEF Power
<1>8. Power[0] = 1 /\ \A n \in Nat : Power[n + 1] = 2 * Power[n]
  BY <1>7
<1>9. \A n \in Nat : Power[n] \in Nat
  <2> SUFFICES ASSUME NEW n \in Nat PROVE Power[n] \in Nat
    OBVIOUS
  <2> DEFINE P == {i \in 0 .. n : Power[i] \in Nat}
  <2>1. 0 \in P /\ \A i \in 0 .. n - 1 : i \in P => i + 1 \in P
    BY <1>8
  <2> HIDE DEF P
  <2>2. n \in P
    BY <2>1, Induction
  <2>3. QED BY <2>2 DEF P
<1>10. QED BY <1>7, <1>8, <1>9

LEMMA PowerGrows ==
  ASSUME NEW n \in Nat
  PROVE  Power[n] \in Nat /\ Power[n] >= n + 1
<1> DEFINE P == {i \in 0 .. n : Power[i] >= i + 1}
<1>1. 0 \in P
  BY PowerIs
<1>2. ASSUME NEW i \in 0 .. n - 1, i \in P
      PROVE  i + 1 \in P
  <2>1. Power[i] \in Nat /\ Power[i + 1] = 2 * Power[i]
    BY PowerIs
  <2>2. QED BY <1>2, <2>1
<1> HIDE DEF P
<1>3. n \in P
  BY <1>1, <1>2, Induction
<1>4. QED BY <1>3, PowerIs DEF P

-----------------------------------------------------------------------------
(* Lines of a file and the buffer.                                         *)

Sizes == {n \in Nat : n >= 2}

LEMMA LineIs ==
  ASSUME NEW l \in Line
  PROVE  /\ l.length \in Nat /\ l.nl \in BOOLEAN
         /\ l.kind \in {"setting", "spaced", "comment", "other"}
         /\ l.kind \in {"setting", "spaced"} =>
              l \in [kind : {"setting", "spaced"}, key : Keys \cup {Garbled},
                     level : Levels \cup {Garbled}, length : Nat, nl : BOOLEAN]
         /\ l.kind \in {"comment", "other"} =>
              l \in [kind : {"comment", "other"}, length : Nat, nl : BOOLEAN]
BY DEF Line

LEMMA PrintedIs ==
  ASSUME NEW e \in Items
  PROVE  /\ Printed(e) \in [kind : {"setting", "spaced"}, key : Keys \cup {Garbled},
                            level : Levels \cup {Garbled}, length : Nat, nl : BOOLEAN]
         /\ Printed(e) \in Line
         /\ Printed(e).kind = "setting" /\ Printed(e).key = e.key /\ Printed(e).level = e.level
         /\ Printed(e).nl = TRUE
         /\ HasKey(Printed(e), e.key)
<1>1. ItemLength \in Nat
  BY SizesGiven
<1>2. e.key \in Keys /\ e.level \in Levels
  BY DEF Items
<1>3. Printed(e) \in [kind : {"setting", "spaced"}, key : Keys \cup {Garbled},
                      level : Levels \cup {Garbled}, length : Nat, nl : BOOLEAN]
  BY <1>1, <1>2 DEF Printed
<1>4. /\ Printed(e).kind = "setting" /\ Printed(e).key = e.key /\ Printed(e).level = e.level
      /\ Printed(e).nl = TRUE
  BY DEF Printed
<1>5. QED BY <1>3, <1>4, Zenon DEF Line, HasKey

LEMMA Times ==
  ASSUME NEW a \in Nat, a >= 2, NEW b \in Nat, NEW c \in Nat, b >= c
  PROVE  a * b \in Nat /\ a * b >= 2 * c
<1>1. (a - 2) * b \in Nat
  OBVIOUS
<1>2. a * b = (a - 2) * b + 2 * b
  OBVIOUS
<1>3. QED BY <1>1, <1>2

LEMMA ReadAfterGrows ==
  ASSUME NEW size \in Sizes, NEW g \in Nat
  PROVE  /\ size * Power[g] \in Sizes
         /\ ReadAfter(size, g) \in Nat /\ ReadAfter(size, g) >= g
<1>1. Power[g] \in Nat /\ Power[g] >= g + 1
  BY PowerGrows
<1>2. size * Power[g] \in Nat /\ size * Power[g] >= 2 * (g + 1)
  BY <1>1, Times DEF Sizes
<1>3. size * Power[g] - (g + 1) >= g + 1
  BY <1>2
<1>4. QED BY <1>2, <1>3 DEF ReadAfter, Sizes

(* A line is read after finitely many doublings, and after none where it   *)
(* fits into the buffer.                                                   *)
LEMMA DoublingsIs ==
  ASSUME NEW size \in Sizes, NEW l \in Line
  PROVE  /\ Doublings(size, l) \in 0 .. l.length
         /\ l.length <= ReadAfter(size, Doublings(size, l))
         /\ l.length < size => Doublings(size, l) = 0
<1> DEFINE Q(g) == l.length <= ReadAfter(size, g) /\ \A h \in 0 .. g - 1 : l.length > ReadAfter(size, h)
           S == {g \in 0 .. l.length : l.length <= ReadAfter(size, g)}
<1>1. l.length \in Nat
  BY LineIs
<1>2. \E g \in 0 .. l.length : Q(g)
  <2>1. S \in SUBSET Nat /\ l.length \in S
    BY <1>1, ReadAfterGrows
  <2>2. PICK g \in S : \A h \in S : ~ (h < g)
    BY <2>1, LeastElement
  <2>3. \A h \in 0 .. g - 1 : h \in 0 .. l.length /\ h \notin S /\ ReadAfter(size, h) \in Nat
    BY <1>1, <2>2, ReadAfterGrows
  <2>4. \A h \in 0 .. g - 1 : l.length > ReadAfter(size, h)
    BY <1>1, <2>3
  <2>5. QED BY <2>2, <2>4
<1>3. Doublings(size, l) = CHOOSE g \in 0 .. l.length : Q(g)
  BY Zenon DEF Doublings
<1>4. Doublings(size, l) \in 0 .. l.length /\ Q(Doublings(size, l))
  BY <1>2, <1>3, Zenon
<1>5. ASSUME l.length < size
      PROVE  Doublings(size, l) = 0
  <2>1. ReadAfter(size, 0) = size - 1
    BY PowerIs DEF ReadAfter, Sizes
  <2>2. ~ (l.length > ReadAfter(size, 0))
    BY <1>1, <1>5, <2>1 DEF Sizes
  <2>3. 0 \notin 0 .. Doublings(size, l) - 1
    BY <1>4, <2>2
  <2>4. QED BY <1>1, <1>4, <2>3
<1>6. QED BY <1>4, <1>5

-----------------------------------------------------------------------------
(* The loop of mod_config.                                                 *)

Heads == {<<>>} \cup {<<n>> : n \in Nat}
States == [size : Sizes, head : Heads, left : BOOLEAN, out : Seq(Line)]

LEMMA FreshIs == Fresh \in States
BY SizesGiven DEF Fresh, States, Sizes, Heads

LEMMA CopyIs ==
  ASSUME NEW s \in States, NEW l \in Line, NEW e \in Items
  PROVE  Copy(s, l, e) \in States
<1>1. /\ s.size \in Sizes /\ s.head \in Heads /\ s.left \in BOOLEAN /\ s.out \in Seq(Line)
      /\ s = [size |-> s.size, head |-> s.head, left |-> s.left, out |-> s.out]
  BY DEF States
<1>2. l.length \in Nat /\ l.nl \in BOOLEAN
  BY LineIs
<1>3. CASE s.head # <<>>
  <2> DEFINE c == [kind |-> "comment", nl |-> l.nl, length |-> s.head[1] + l.length]
  <2>1. s.head[1] \in Nat
    BY <1>1, <1>3 DEF Heads
  <2>2. c \in Line
    BY <1>2, <2>1 DEF Line
  <2>3. Copy(s, l, e) = [s EXCEPT !.out = Append(@, c)]
    BY <1>3, Zenon DEF Copy
  <2> HIDE DEF c
  <2>4. Append(s.out, c) \in Seq(Line)
    BY <1>1, <2>2
  <2>5. QED BY <1>1, <2>3, <2>4 DEF States
<1>4. CASE s.head = <<>> /\ Unfinished(s.size, l)
  BY <1>4, Zenon DEF Copy
<1>5. CASE s.head = <<>> /\ ~ Unfinished(s.size, l)
  <2> DEFINE d == Doublings(s.size, l)
             z == s.size * Power[d]
             h == IF Stays(s.size, l) THEN <<ReadAfter(s.size, d - 1)>> ELSE <<>>
             t == s.left /\ ~ HasKey(l, e.key)
             o == Append(s.out, IF s.left /\ HasKey(l, e.key) THEN Printed(e) ELSE l)
  <2>1. d \in Nat
    BY <1>1, <1>2, DoublingsIs
  <2>2. Stays(s.size, l) => d > 0
    BY DEF Stays
  <2>3. Copy(s, l, e) = [size |-> z, head |-> h, left |-> t, out |-> o]
    BY <1>5, Zenon DEF Copy
  <2> HIDE DEF d
  <2>4. z \in Sizes
    BY <1>1, <2>1, ReadAfterGrows
  <2>5. h \in Heads
    <3>1. CASE Stays(s.size, l)
      <4>1. d - 1 \in Nat
        BY <2>1, <2>2, <3>1
      <4>2. ReadAfter(s.size, d - 1) \in Nat
        BY <1>1, <4>1, ReadAfterGrows
      <4>3. QED BY <3>1, <4>2 DEF Heads
    <3>2. CASE ~ Stays(s.size, l)
      BY <3>2 DEF Heads
    <3>3. QED BY <3>1, <3>2
  <2>6. t \in BOOLEAN
    BY <1>1
  <2>7. o \in Seq(Line)
    <3> DEFINE x == IF s.left /\ HasKey(l, e.key) THEN Printed(e) ELSE l
    <3>1. x \in Line
      BY PrintedIs
    <3> HIDE DEF x
    <3>2. Append(s.out, x) \in Seq(Line)
      BY <1>1, <3>1
    <3>3. QED BY <3>2 DEF x
  <2> HIDE DEF z, h, t, o
  <2>8. QED BY <2>3, <2>4, <2>5, <2>6, <2>7 DEF States
<1>6. QED BY <1>3, <1>4, <1>5, Zenon

LEMMA CopiedIs ==
  ASSUME NEW f \in Seq(Line), NEW e \in Items
  PROVE  /\ Copied(f, e) \in [0 .. Len(f) -> States]
         /\ Copied(f, e)[0] = Fresh
         /\ \A i \in 1 .. Len(f) : Copied(f, e)[i] = Copy(Copied(f, e)[i - 1], f[i], e)
<1> DEFINE step == [i \in 1 .. Len(f) |-> [s \in States |-> Copy(s, f[i], e)]]
           F(g) == [i \in 0 .. Len(f) |-> IF i = 0 THEN Fresh ELSE Copy(g[i - 1], f[i], e)]
<1>1. Len(f) \in Nat /\ \A i \in 1 .. Len(f) : f[i] \in Line
  BY LenProperties, ElementOfSeq
<1>2. step \in [1 .. Len(f) -> [States -> States]]
  BY <1>1, CopyIs
<1>3. \A i \in 1 .. Len(f), s \in States : step[i][s] = Copy(s, f[i], e)
  OBVIOUS
<1> HIDE DEF step
<1>4. PICK g \in [0 .. Len(f) -> States] : Loop(g, Len(f), Fresh, step)
  BY <1>1, <1>2, FreshIs, LoopExists
<1>5. \A i \in 1 .. Len(f) : g[i - 1] \in States
  BY <1>1
<1>6. g[0] = Fresh /\ \A i \in 1 .. Len(f) : g[i] = Copy(g[i - 1], f[i], e)
  BY <1>3, <1>4, <1>5 DEF Loop
<1>7. g = F(g)
  BY <1>1, <1>6
<1>8. Copied(f, e) = CHOOSE h : h = F(h)
  BY DEF Copied
<1>9. Copied(f, e) = F(Copied(f, e))
  BY <1>7, <1>8, Zenon
<1>10. /\ Copied(f, e)[0] = Fresh
       /\ \A i \in 1 .. Len(f) : Copied(f, e)[i] = Copy(Copied(f, e)[i - 1], f[i], e)
       /\ Copied(f, e) = [i \in 0 .. Len(f) |-> Copied(f, e)[i]]
  BY <1>1, <1>9
<1>11. \A i \in 0 .. Len(f) : Copied(f, e)[i] \in States
  <2> DEFINE P == {i \in 0 .. Len(f) : Copied(f, e)[i] \in States}
  <2>1. 0 \in P
    BY <1>1, <1>10, FreshIs
  <2>2. \A i \in 0 .. Len(f) - 1 : i \in P => i + 1 \in P
    <3> SUFFICES ASSUME NEW i \in 0 .. Len(f) - 1, i \in P PROVE i + 1 \in P
      OBVIOUS
    <3>1. i + 1 \in 1 .. Len(f) /\ (i + 1) - 1 = i /\ i + 1 \in 0 .. Len(f)
      BY <1>1
    <3>2. Copied(f, e)[i + 1] = Copy(Copied(f, e)[i], f[i + 1], e)
      BY <1>10, <3>1
    <3>3. Copied(f, e)[i] \in States /\ f[i + 1] \in Line
      BY <1>1, <3>1
    <3>4. QED BY <3>1, <3>2, <3>3, CopyIs
  <2> HIDE DEF P
  <2>3. \A i \in 0 .. Len(f) : i \in P
    BY <1>1, <2>1, <2>2, Induction
  <2>4. QED BY <2>3 DEF P
<1>12. QED BY <1>10, <1>11

-----------------------------------------------------------------------------
(* The file behind the loop.                                               *)

LEMMA GluedIs ==
  ASSUME NEW q \in Line, NEW e \in Items
  PROVE  Glued(q, Printed(e)) \in Line
<1> DEFINE l == Printed(e)
<1>1. /\ l \in [kind : {"setting", "spaced"}, key : Keys \cup {Garbled},
                level : Levels \cup {Garbled}, length : Nat, nl : BOOLEAN]
      /\ q.length \in Nat
  BY PrintedIs, LineIs
<1> HIDE DEF l
<1>2. l.length \in Nat /\ l.nl \in BOOLEAN /\ q.length + l.length \in Nat /\ l.length + q.length \in Nat
  BY <1>1
<1>3. CASE q.kind = "comment"
  <2>1. Glued(q, l) = [q EXCEPT !.length = q.length + l.length, !.nl = l.nl]
    BY <1>3 DEF Glued
  <2>2. q \in [kind : {"comment", "other"}, length : Nat, nl : BOOLEAN]
    BY <1>3, LineIs
  <2>3. [q EXCEPT !.length = q.length + l.length, !.nl = l.nl]
          \in [kind : {"comment", "other"}, length : Nat, nl : BOOLEAN]
    BY <1>2, <2>2
  <2>4. QED BY <2>1, <2>3, Zenon DEF Line, l
<1>4. CASE q.kind \in {"setting", "spaced"}
  <2>1. Glued(q, l) = [q EXCEPT !.level = Garbled, !.length = q.length + l.length, !.nl = l.nl]
    BY <1>4 DEF Glued
  <2>2. q \in [kind : {"setting", "spaced"}, key : Keys \cup {Garbled},
               level : Levels \cup {Garbled}, length : Nat, nl : BOOLEAN]
    BY <1>4, LineIs
  <2>3. [q EXCEPT !.level = Garbled, !.length = q.length + l.length, !.nl = l.nl]
          \in [kind : {"setting", "spaced"}, key : Keys \cup {Garbled},
               level : Levels \cup {Garbled}, length : Nat, nl : BOOLEAN]
    BY <1>2, <2>2
  <2>4. QED BY <2>1, <2>3, Zenon DEF Line, l
<1>5. CASE q.kind = "other"
  <2>1. Glued(q, l) = [l EXCEPT !.key = Garbled, !.length = l.length + q.length]
    BY <1>5 DEF Glued
  <2>2. [l EXCEPT !.key = Garbled, !.length = l.length + q.length]
          \in [kind : {"setting", "spaced"}, key : Keys \cup {Garbled},
               level : Levels \cup {Garbled}, length : Nat, nl : BOOLEAN]
    BY <1>1, <1>2
  <2>3. QED BY <2>1, <2>2, Zenon DEF Line, l
<1>6. q.kind \in {"setting", "spaced", "comment", "other"}
  BY LineIs
<1>7. QED BY <1>3, <1>4, <1>5, <1>6

LEMMA PrintLineIs ==
  ASSUME NEW out \in Seq(Line), NEW e \in Items
  PROVE  PrintLine(out, Printed(e)) \in Seq(Line)
<1>1. Printed(e) \in Line
  BY PrintedIs
<1>2. CASE out # <<>> /\ ~ Last(out).nl
  <2>1. Len(out) \in Nat \ {0} /\ out[Len(out)] \in Line
    BY <1>2, EmptySeq, LenProperties, ElementOfSeq
  <2>2. Front(out) \in Seq(Line)
    BY <2>1 DEF Front
  <2>3. Glued(Last(out), Printed(e)) \in Line
    BY <2>1, GluedIs DEF Last
  <2>4. Append(Front(out), Glued(Last(out), Printed(e))) \in Seq(Line)
    BY <2>2, <2>3
  <2>5. QED BY <1>2, <2>4, Zenon DEF PrintLine
<1>3. CASE ~ (out # <<>> /\ ~ Last(out).nl)
  <2>1. Append(out, Printed(e)) \in Seq(Line)
    BY <1>1
  <2>2. QED BY <1>3, <2>1, Zenon DEF PrintLine
<1>4. QED BY <1>2, <1>3

LEMMA ModifiedType ==
  ASSUME NEW f \in Seq(Line), NEW e \in Items
  PROVE  Modified(f, e) \in Seq(Line)
<1> DEFINE s == Copied(f, e)[Len(f)]
<1>1. s \in States
  <2>1. Len(f) \in 0 .. Len(f)
    BY LenProperties
  <2>2. QED BY <2>1, CopiedIs
<1>2. Modified(f, e) = IF s.left THEN PrintLine(s.out, Printed(e)) ELSE s.out
  BY Zenon DEF Modified
<1> HIDE DEF s
<1>3. s.out \in Seq(Line)
  BY <1>1 DEF States
<1>4. QED BY <1>2, <1>3, PrintLineIs

(* Whatever a person has written into the levels file, with lines of any   *)
(* length and a last line that lacks its newline: what mod_config makes of *)
(* it is a file of lines, however often it is modified                     *)
(* (module_configure.c:423-565).                                           *)
THEOREM TypeCorrect == Spec => []TypeOK
<1>1. Init => TypeOK
  BY FilesGiven DEF Init, TypeOK
<1>2. TypeOK /\ [Modify]_vars => TypeOK'
  <2> SUFFICES ASSUME TypeOK, [Modify]_vars PROVE TypeOK'
    OBVIOUS
  <2>1. CASE Modify
    <3>1. PICK k \in Keys, v \in Levels : file' = Modified(file, [key |-> k, level |-> v])
      BY <2>1 DEF Modify
    <3>2. [key |-> k, level |-> v] \in Items
      BY DEF Items
    <3>3. QED BY <3>1, <3>2, ModifiedType DEF TypeOK
  <2>2. CASE UNCHANGED vars
    BY <2>2 DEF vars, TypeOK
  <2>3. QED BY <2>1, <2>2
<1>3. QED BY <1>1, <1>2, PTL DEF Spec

-----------------------------------------------------------------------------
(* Proper files.                                                           *)

(* What LevelStore takes mod_config for: the first line that has the key   *)
(* is replaced by the item, or else the item is appended.                  *)
Chosen(f, k, i) == HasKey(f[i], k) /\ \A j \in 1 .. i - 1 : ~ HasKey(f[j], k)
Replaced(f, e, i) == IF Chosen(f, e.key, i) THEN Printed(e) ELSE f[i]
InPlace(f, e) ==
  IF \E i \in DOMAIN f : HasKey(f[i], e.key)
    THEN [i \in DOMAIN f |-> Replaced(f, e, i)]
    ELSE Append(f, Printed(e))

LEMMA CopyOfProper ==
  ASSUME NEW s \in States, s.head = <<>>, s.size >= BufSize,
         NEW l \in Line, l.nl, l.kind = "comment" => l.length < BufSize, NEW e \in Items,
         NEW t, t = Copy(s, l, e)
  PROVE  /\ t.head = <<>> /\ t.size >= BufSize
         /\ t.left = (s.left /\ ~ HasKey(l, e.key))
         /\ t.out = Append(s.out, IF s.left /\ HasKey(l, e.key) THEN Printed(e) ELSE l)
<1> DEFINE d == Doublings(s.size, l)
           z == s.size * Power[d]
           b == s.left /\ ~ HasKey(l, e.key)
           o == Append(s.out, IF s.left /\ HasKey(l, e.key) THEN Printed(e) ELSE l)
<1>1. s.size \in Sizes /\ l.length \in Nat /\ BufSize \in Nat
  BY LineIs, SizesGiven DEF States
<1>2. d \in Nat /\ (l.length < s.size => d = 0)
  BY <1>1, DoublingsIs
<1>3. ~ Stays(s.size, l)
  BY <1>1, <1>2 DEF Stays, Sizes
<1>4. ~ Unfinished(s.size, l)
  BY Zenon DEF Unfinished
<1>5. t = [size |-> z, head |-> <<>>, left |-> b, out |-> o]
  BY <1>3, <1>4, Zenon DEF Copy
<1> HIDE DEF d
<1>6. z >= BufSize
  <2>1. Power[d] \in Nat /\ Power[d] >= 1
    BY <1>2, PowerGrows
  <2>2. s.size * Power[d] = s.size + s.size * (Power[d] - 1)
    BY <1>1, <2>1 DEF Sizes
  <2>3. s.size * (Power[d] - 1) \in Nat
    BY <1>1, <2>1 DEF Sizes
  <2>4. QED BY <1>1, <2>2, <2>3 DEF Sizes
<1> HIDE DEF z, b, o
<1>7. t.head = <<>> /\ t.size = z /\ t.left = b /\ t.out = o
  BY <1>5
<1>8. QED BY <1>6, <1>7, Zenon DEF b, o

(* The rounds of the loop, by the first that would go wrong.               *)
Round(f, e, i) ==
  LET s == Copied(f, e)[i] IN
  /\ s.head = <<>> /\ s.size >= BufSize
  /\ s.left = ~ (\E j \in 1 .. i : HasKey(f[j], e.key))
  /\ Len(s.out) = i
  /\ \A j \in 1 .. i : s.out[j] = Replaced(f, e, j)

LEMMA RoundsOfProper ==
  ASSUME NEW f \in Seq(Line), Proper(f), NEW e \in Items
  PROVE  Round(f, e, Len(f))
<1> DEFINE P == {i \in 0 .. Len(f) : Round(f, e, i)}
<1>1. Len(f) \in Nat /\ DOMAIN f = 1 .. Len(f) /\ \A i \in 1 .. Len(f) : f[i] \in Line
  BY LenProperties, ElementOfSeq
<1>2. 0 \in P
  <2>1. Copied(f, e)[0] = Fresh /\ BufSize \in Nat
    BY CopiedIs, SizesGiven
  <2>2. /\ Fresh.head = <<>> /\ Fresh.size = BufSize /\ Fresh.out = <<>> /\ Len(<<>>) = 0
        /\ Fresh.left = TRUE
    BY DEF Fresh
  <2>3. 1 .. 0 = {} /\ 0 \in 0 .. Len(f) /\ BufSize >= BufSize
    BY <1>1, <2>1
  <2>4. Round(f, e, 0)
    BY <2>1, <2>2, <2>3, Zenon DEF Round
  <2>5. QED BY <2>3, <2>4
<1>3. ASSUME NEW i \in 0 .. Len(f) - 1, i \in P
      PROVE  i + 1 \in P
  <2> DEFINE s == Copied(f, e)[i]
             l == f[i + 1]
             t == Copied(f, e)[i + 1]
             x == IF s.left /\ HasKey(l, e.key) THEN Printed(e) ELSE l
  <2>1. i + 1 \in 1 .. Len(f) /\ i \in Nat /\ (i + 1) - 1 = i /\ i \in 0 .. Len(f)
    BY <1>1
  <2>2. s \in States /\ l \in Line
    BY <1>1, <2>1, CopiedIs
  <2>3. t = Copy(s, l, e)
    BY <2>1, CopiedIs
  <2>4. /\ s.head = <<>> /\ s.size >= BufSize
        /\ s.left = ~ (\E j \in 1 .. i : HasKey(f[j], e.key))
        /\ Len(s.out) = i /\ \A j \in 1 .. i : s.out[j] = Replaced(f, e, j)
    BY <1>3, Zenon DEF Round
  <2>5. l.nl /\ (l.kind = "comment" => l.length < BufSize)
    BY <1>1, <2>1 DEF Proper
  <2>6. s.out \in Seq(Line)
    BY <2>2 DEF States
  <2> HIDE DEF s, l, t, x
  <2>7. /\ t.head = <<>> /\ t.size >= BufSize /\ t.left = (s.left /\ ~ HasKey(l, e.key))
        /\ t.out = Append(s.out, x)
    BY <2>2, <2>3, <2>4, <2>5, CopyOfProper DEF x
  <2>8. s.left /\ HasKey(l, e.key) <=> Chosen(f, e.key, i + 1)
    BY <2>1, <2>4, Zenon DEF Chosen, l
  <2>9. x = Replaced(f, e, i + 1)
    BY <2>8, Zenon DEF Replaced, x, l
  <2>10. Len(t.out) = i + 1 /\ \A j \in 1 .. i + 1 : t.out[j] = Replaced(f, e, j)
    <3>1. Len(t.out) = i + 1
      BY <2>1, <2>4, <2>6, <2>7
    <3>2. \A j \in 1 .. i : t.out[j] = s.out[j]
      BY <2>1, <2>4, <2>6, <2>7
    <3>3. t.out[i + 1] = x
      BY <2>1, <2>4, <2>6, <2>7
    <3>4. ASSUME NEW j \in 1 .. i + 1
          PROVE  t.out[j] = Replaced(f, e, j)
      <4>1. j \in 1 .. i \/ j = i + 1
        BY <2>1
      <4>2. CASE j \in 1 .. i
        BY <2>4, <3>2, <4>2, Zenon
      <4>3. CASE j = i + 1
        BY <2>9, <3>3, <4>3, Zenon
      <4>4. QED BY <4>1, <4>2, <4>3
    <3>5. QED BY <3>1, <3>4
  <2>11. (\E j \in 1 .. i + 1 : HasKey(f[j], e.key))
           <=> (\E j \in 1 .. i : HasKey(f[j], e.key)) \/ HasKey(l, e.key)
    BY <2>1 DEF l
  <2>12. t.left = ~ (\E j \in 1 .. i + 1 : HasKey(f[j], e.key))
    BY <2>4, <2>7, <2>11, Zenon
  <2>13. Round(f, e, i + 1)
    BY <2>7, <2>10, <2>12, Zenon DEF Round, t
  <2>14. QED BY <2>1, <2>13
<1> HIDE DEF P
<1>4. \A i \in 0 .. Len(f) - 1 : i \in P => i + 1 \in P
  BY <1>3
<1>5. \A i \in 0 .. Len(f) : i \in P
  BY <1>1, <1>2, <1>4, Induction
<1>6. QED BY <1>1, <1>5 DEF P

(* On a proper file, of any length and with settings of any length,        *)
(* mod_config replaces the first line that has the key, and no other, or   *)
(* appends the item: the update that LevelStore has as one step (Updated). *)
THEOREM UpdatedInPlace ==
  ASSUME NEW f \in Seq(Line), Proper(f), NEW e \in Items
  PROVE  Modified(f, e) = InPlace(f, e)
<1> DEFINE s == Copied(f, e)[Len(f)]
<1>1. Len(f) \in Nat /\ DOMAIN f = 1 .. Len(f)
  BY LenProperties
<1>2. s \in States
  BY <1>1, CopiedIs
<1>3. /\ s.left = ~ (\E j \in 1 .. Len(f) : HasKey(f[j], e.key))
      /\ Len(s.out) = Len(f)
      /\ \A j \in 1 .. Len(f) : s.out[j] = Replaced(f, e, j)
  BY RoundsOfProper, Zenon DEF Round
<1>4. Modified(f, e) = IF s.left THEN PrintLine(s.out, Printed(e)) ELSE s.out
  BY Zenon DEF Modified
<1> HIDE DEF s
<1>5. s.out \in Seq(Line)
  BY <1>2 DEF States
<1>6. s.out = [j \in 1 .. Len(f) |-> s.out[j]]
  BY <1>3, <1>5, LenProperties
<1>7. CASE \E j \in 1 .. Len(f) : HasKey(f[j], e.key)
  <2>1. s.out = [j \in DOMAIN f |-> Replaced(f, e, j)]
    BY <1>1, <1>3, <1>6
  <2>2. QED BY <1>1, <1>3, <1>4, <1>7, <2>1, Zenon DEF InPlace
<1>8. CASE ~ (\E j \in 1 .. Len(f) : HasKey(f[j], e.key))
  <2>1. \A j \in 1 .. Len(f) : Replaced(f, e, j) = f[j]
    BY <1>8, Zenon DEF Replaced, Chosen
  <2>2. s.out = f
    BY <1>1, <1>3, <1>5, <2>1, SeqEqual
  <2>3. f # <<>> => Last(f).nl
    <3>1. f # <<>> => Len(f) \in DOMAIN f
      BY <1>1, EmptySeq
    <3>2. QED BY <3>1 DEF Last, Proper
  <2>4. PrintLine(f, Printed(e)) = Append(f, Printed(e))
    BY <2>3, Zenon DEF PrintLine
  <2>5. QED BY <1>1, <1>3, <1>4, <1>8, <2>2, <2>4, Zenon DEF InPlace
<1>9. QED BY <1>7, <1>8

-----------------------------------------------------------------------------
(* What an update keeps.                                                   *)

LEMMA AfterUpdate ==
  ASSUME NEW f \in Seq(Line), Proper(f), NEW e \in Items, NEW g, g = Modified(f, e)
  PROVE  /\ DOMAIN f \subseteq DOMAIN g
         /\ \A i \in DOMAIN f : g[i] = Replaced(f, e, i)
         /\ \A i \in DOMAIN g \ DOMAIN f : g[i] = Printed(e) /\ i = Len(f) + 1
         /\ \/ \E i \in DOMAIN f : Chosen(f, e.key, i)
            \/ /\ \A i \in DOMAIN f : ~ HasKey(f[i], e.key)
               /\ DOMAIN g \ DOMAIN f # {}
<1>1. Len(f) \in Nat /\ DOMAIN f = 1 .. Len(f) /\ Printed(e) \in Line
  BY LenProperties, PrintedIs
<1>2. g = InPlace(f, e)
  BY UpdatedInPlace
<1>3. CASE \E i \in DOMAIN f : HasKey(f[i], e.key)
  <2> DEFINE S == {i \in DOMAIN f : HasKey(f[i], e.key)}
  <2>1. g = [i \in DOMAIN f |-> Replaced(f, e, i)]
    BY <1>2, <1>3, Zenon DEF InPlace
  <2>2. S \in SUBSET Nat /\ S # {}
    BY <1>1, <1>3
  <2>3. PICK i \in S : \A j \in S : ~ (j < i)
    BY <2>2, LeastElement
  <2>4. \A j \in 1 .. i - 1 : j \in DOMAIN f /\ j < i
    BY <1>1, <2>3
  <2>5. Chosen(f, e.key, i)
    BY <2>3, <2>4 DEF Chosen
  <2>6. QED BY <2>1, <2>3, <2>5
<1>4. CASE ~ (\E i \in DOMAIN f : HasKey(f[i], e.key))
  <2>1. g = Append(f, Printed(e))
    BY <1>2, <1>4, Zenon DEF InPlace
  <2>2. /\ DOMAIN g = 1 .. Len(f) + 1 /\ g[Len(f) + 1] = Printed(e)
        /\ \A i \in DOMAIN f : g[i] = f[i]
    BY <1>1, <2>1
  <2>3. \A i \in DOMAIN f : Replaced(f, e, i) = f[i]
    BY <1>4, Zenon DEF Replaced, Chosen
  <2>4. DOMAIN f \subseteq DOMAIN g /\ DOMAIN g \ DOMAIN f = {Len(f) + 1}
    BY <1>1, <2>2
  <2>5. QED BY <1>4, <2>2, <2>3, <2>4
<1>5. QED BY <1>3, <1>4

LEMMA ProperAfter ==
  ASSUME NEW f \in Seq(Line), Proper(f), NEW e \in Items
  PROVE  Proper(Modified(f, e))
<1> DEFINE g == Modified(f, e)
<1>1. g = Modified(f, e)
  OBVIOUS
<1> HIDE DEF g
<1>2. ASSUME NEW i \in DOMAIN g
      PROVE  g[i].nl /\ (g[i].kind = "comment" => g[i].length < BufSize)
  <2>1. g[i] = Printed(e) \/ (i \in DOMAIN f /\ g[i] = f[i])
    BY <1>1, AfterUpdate DEF Replaced
  <2>2. Printed(e).nl /\ Printed(e).kind # "comment"
    BY PrintedIs
  <2>3. QED BY <2>1, <2>2 DEF Proper
<1>3. QED BY <1>1, <1>2 DEF Proper

LEMMA LinesKept ==
  ASSUME NEW f \in Seq(Line), Proper(f), NEW e \in Items
  PROVE  KeepsLines(f, Modified(f, e), e)
<1> DEFINE g == Modified(f, e)
<1>1. g = Modified(f, e)
  OBVIOUS
<1> HIDE DEF g
<1>2. ASSUME NEW i \in DOMAIN f
      PROVE  IF HasKey(f[i], e.key) THEN HasKey(g[i], e.key) ELSE g[i] = f[i]
  <2>1. g[i] = Replaced(f, e, i)
    BY <1>1, AfterUpdate
  <2>2. CASE Chosen(f, e.key, i)
    BY <2>1, <2>2, PrintedIs, Zenon DEF Replaced, Chosen
  <2>3. CASE ~ Chosen(f, e.key, i)
    BY <2>1, <2>3, Zenon DEF Replaced
  <2>4. QED BY <2>2, <2>3
<1>3. DOMAIN f \subseteq DOMAIN g /\ \A i \in DOMAIN g \ DOMAIN f : HasKey(g[i], e.key)
  <2>1. DOMAIN f \subseteq DOMAIN g /\ \A i \in DOMAIN g \ DOMAIN f : g[i] = Printed(e)
    BY <1>1, AfterUpdate
  <2>2. HasKey(Printed(e), e.key)
    BY PrintedIs
  <2>3. QED BY <2>1, <2>2, Zenon
<1>4. QED BY <1>1, <1>2, <1>3, Zenon DEF KeepsLines

LEMMA FirstSettingIs ==
  ASSUME NEW f \in Seq(Line), NEW k, NEW i \in Settings(f), f[i].key = k,
         \A j \in Settings(f) : j < i => f[j].key # k
  PROVE  FirstSetting(f, k) = i
<1> DEFINE Q(n) == f[n].key = k /\ \A j \in Settings(f) : j < n => f[j].key # k
<1>1. Settings(f) \subseteq Nat
  BY LenProperties DEF Settings
<1>2. FirstSetting(f, k) = CHOOSE n \in Settings(f) : Q(n)
  BY Zenon DEF FirstSetting
<1>3. FirstSetting(f, k) \in Settings(f) /\ Q(FirstSetting(f, k))
  BY <1>2, Zenon
<1>4. ~ (FirstSetting(f, k) < i) /\ ~ (i < FirstSetting(f, k))
  BY <1>3
<1>5. FirstSetting(f, k) \in Nat /\ i \in Nat
  BY <1>1, <1>3
<1>6. QED BY <1>4, <1>5

LEMMA SettingExists ==
  ASSUME NEW f \in Seq(Line), NEW k \in Known(f)
  PROVE  \E i \in Settings(f) : f[i].key = k /\ \A j \in Settings(f) : j < i => f[j].key # k
<1> DEFINE S == {i \in Settings(f) : f[i].key = k}
<1>1. S \in SUBSET Nat
  BY LenProperties DEF Settings
<1>2. S # {}
  BY DEF Known
<1>3. PICK i \in S : \A j \in S : ~ (j < i)
  BY <1>1, <1>2, LeastElement
<1>4. QED BY <1>3

LEMMA LevelsKept ==
  ASSUME NEW f \in Seq(Line), Proper(f), NEW e \in Items
  PROVE  KeepsLevels(f, Modified(f, e), e)
<1> DEFINE g == Modified(f, e)
<1>1. g = Modified(f, e) /\ g \in Seq(Line)
  BY ModifiedType
<1> HIDE DEF g
<1>2. /\ DOMAIN f \subseteq DOMAIN g
      /\ \A i \in DOMAIN f : g[i] = Replaced(f, e, i)
      /\ \A i \in DOMAIN g \ DOMAIN f : g[i] = Printed(e) /\ i = Len(f) + 1
      /\ \/ \E i \in DOMAIN f : Chosen(f, e.key, i)
         \/ (\A i \in DOMAIN f : ~ HasKey(f[i], e.key)) /\ DOMAIN g \ DOMAIN f # {}
  BY <1>1, AfterUpdate
<1>3. Printed(e).kind = "setting" /\ Printed(e).key = e.key /\ Printed(e).level = e.level
  BY PrintedIs
<1>4. \A i \in DOMAIN f : f[i].kind = "setting" => (HasKey(f[i], e.key) <=> f[i].key = e.key)
  BY DEF HasKey
<1>5. DOMAIN f \subseteq Nat /\ DOMAIN g \subseteq Nat /\ \A i \in DOMAIN f : 1 .. i - 1 \subseteq DOMAIN f
  BY <1>1, LenProperties
<1>6. PICK n \in DOMAIN g :
        /\ g[n] = Printed(e)
        /\ \A j \in DOMAIN g : j < n => j \in DOMAIN f /\ g[j] = f[j] /\ ~ HasKey(f[j], e.key)
  <2>1. CASE \E i \in DOMAIN f : Chosen(f, e.key, i)
    <3>1. PICK i \in DOMAIN f : Chosen(f, e.key, i)
      BY <2>1
    <3>2. i \in DOMAIN g /\ g[i] = Printed(e)
      BY <1>2, <3>1 DEF Replaced
    <3>3. ASSUME NEW j \in DOMAIN g, j < i
          PROVE  j \in DOMAIN f /\ g[j] = f[j] /\ ~ HasKey(f[j], e.key)
      <4>1. i \in Nat /\ j \in Nat /\ j \in DOMAIN f
        BY <1>2, <1>5, <3>3
      <4>2. j \in 1 .. i - 1
        BY <1>5, <3>3, <4>1, LenProperties
      <4>3. ~ HasKey(f[j], e.key)
        BY <3>1, <4>2 DEF Chosen
      <4>4. QED BY <1>2, <4>1, <4>3, Zenon DEF Replaced, Chosen
    <3>4. QED BY <3>2, <3>3
  <2>2. CASE (\A i \in DOMAIN f : ~ HasKey(f[i], e.key)) /\ DOMAIN g \ DOMAIN f # {}
    <3>1. PICK i \in DOMAIN g \ DOMAIN f : TRUE
      BY <2>2
    <3>2. g[i] = Printed(e)
      BY <1>2, <3>1
    <3>3. ASSUME NEW j \in DOMAIN g, j < i
          PROVE  j \in DOMAIN f /\ g[j] = f[j] /\ ~ HasKey(f[j], e.key)
      <4>1. j \in DOMAIN f
        <5>1. i = Len(f) + 1 /\ DOMAIN f = 1 .. Len(f) /\ Len(f) \in Nat
          BY <1>2, <3>1, LenProperties
        <5>2. DOMAIN g = 1 .. Len(g) /\ Len(g) \in Nat
          BY <1>1, LenProperties
        <5>3. QED BY <3>3, <5>1, <5>2
      <4>2. QED BY <1>2, <2>2, <4>1, Zenon DEF Replaced, Chosen
    <3>4. QED BY <3>2, <3>3
  <2>3. QED BY <1>2, <2>1, <2>2
<1>7. /\ n \in Settings(g) /\ g[n].key = e.key /\ g[n].level = e.level
      /\ \A j \in Settings(g) : j < n => g[j].key # e.key
  BY <1>3, <1>4, <1>6 DEF Settings
(* The settings of the other modules are those that were there.            *)
<1>8. \A i \in Settings(g) : g[i].key # e.key => i \in Settings(f) /\ g[i] = f[i]
  <2> SUFFICES ASSUME NEW i \in Settings(g), g[i].key # e.key PROVE i \in Settings(f) /\ g[i] = f[i]
    OBVIOUS
  <2>1. i \in DOMAIN g /\ g[i].kind = "setting" /\ g[i] # Printed(e)
    BY <1>3 DEF Settings
  <2>2. i \in DOMAIN f
    BY <1>2, <2>1
  <2>3. g[i] = f[i]
    BY <1>2, <2>1, <2>2, Zenon DEF Replaced
  <2>4. QED BY <2>1, <2>2, <2>3 DEF Settings
<1>9. \A i \in Settings(f) : f[i].key # e.key => i \in Settings(g) /\ g[i] = f[i]
  <2> SUFFICES ASSUME NEW i \in Settings(f), f[i].key # e.key PROVE i \in Settings(g) /\ g[i] = f[i]
    OBVIOUS
  <2>1. i \in DOMAIN f /\ f[i].kind = "setting"
    BY DEF Settings
  <2>2. ~ HasKey(f[i], e.key)
    BY <1>4, <2>1
  <2>3. g[i] = f[i]
    BY <1>2, <2>1, <2>2, Zenon DEF Replaced, Chosen
  <2>4. QED BY <1>2, <2>1, <2>3 DEF Settings
<1>10. Known(g) = Known(f) \cup {e.key}
  <2>1. ASSUME NEW k \in Known(g) PROVE k \in Known(f) \cup {e.key}
    BY <1>8 DEF Known
  <2>2. ASSUME NEW k \in Known(f) PROVE k \in Known(g)
    <3>1. CASE k = e.key
      BY <1>7, <3>1 DEF Known
    <3>2. CASE k # e.key
      BY <1>9, <3>2 DEF Known
    <3>3. QED BY <3>1, <3>2
  <2>3. e.key \in Known(g)
    BY <1>7 DEF Known
  <2>4. QED BY <2>1, <2>2, <2>3
<1>11. LevelOf(g, e.key) = e.level
  <2>1. FirstSetting(g, e.key) = n
    BY <1>1, <1>7, FirstSettingIs
  <2>2. QED BY <1>7, <2>1, Zenon DEF LevelOf
<1>12. ASSUME NEW k \in Known(f), k # e.key
       PROVE  LevelOf(g, k) = LevelOf(f, k)
  <2>1. PICK i \in Settings(f) : f[i].key = k /\ \A j \in Settings(f) : j < i => f[j].key # k
    BY SettingExists
  <2>2. i \in Settings(g) /\ g[i] = f[i]
    BY <1>9, <1>12, <2>1
  <2>3. \A j \in Settings(g) : j < i => g[j].key # k
    BY <1>8, <1>12, <2>1
  <2>4. FirstSetting(f, k) = i
    BY <2>1, FirstSettingIs
  <2>5. FirstSetting(g, k) = i
    BY <1>1, <2>1, <2>2, <2>3, FirstSettingIs
  <2>6. QED BY <2>2, <2>4, <2>5, Zenon DEF LevelOf
<1>13. \A k \in Known(g) : LevelOf(g, k) = IF k = e.key THEN e.level ELSE LevelOf(f, k)
  BY <1>10, <1>11, <1>12
<1>14. QED BY <1>1, <1>10, <1>13, Zenon DEF KeepsLevels

-----------------------------------------------------------------------------
(* The theorems of the specification.                                      *)

(* On a file whose lines end with a newline and whose comments fit into    *)
(* the buffer, with settings of any length: the readers find the new level *)
(* of the module and the old ones of all others, and every line that is    *)
(* not about the module stays in its place, also comments and lines that   *)
(* neither side understands (mod_config,                                   *)
(* config_module_get_debug_level_by_type; module_configure.c:423-565,      *)
(* 240-298).                                                               *)
THEOREM UpdatesKeepRest == Spec => []UpdatesProper
<1>1. TypeOK => UpdatesProper
  BY LevelsKept, LinesKept DEF TypeOK, UpdatesProper
<1>2. QED BY <1>1, TypeCorrect, PTL

(* Such a file stays such a file, however often mod_config modifies it     *)
(* (module_configure.c:423-565).                                           *)
THEOREM ProperForEver == Spec => StaysProper
<1>1. TypeOK /\ [Modify]_vars => [Proper(file) => Proper(file')]_vars
  <2> SUFFICES ASSUME TypeOK, Modify, Proper(file) PROVE Proper(file')
    OBVIOUS
  <2>1. PICK k \in Keys, v \in Levels : file' = Modified(file, [key |-> k, level |-> v])
    BY DEF Modify
  <2>2. [key |-> k, level |-> v] \in Items
    BY DEF Items
  <2>3. QED BY <2>1, <2>2, ProperAfter DEF TypeOK
<1>2. QED BY <1>1, TypeCorrect, PTL DEF Spec, StaysProper
=============================================================================
