------------------------------ MODULE ModConfig ------------------------------
(***************************************************************************)
(* mod_config line by line (module_configure.c), on files that a person    *)
(* may have edited: comments, blank lines, lines longer than the buffer    *)
(* that fgets fills, a last line without a newline, keys with spaces; and  *)
(* the readers of the same file, which split the lines differently.        *)
(*                                                                         *)
(* A line is what the two parsers make of it, its number of characters,    *)
(* and whether it ends with a newline.  Keys and levels are shorter than   *)
(* the 255 characters that sscanf takes.                                   *)
(***************************************************************************)
EXTENDS Naturals, Sequences, SequencesExt

CONSTANTS
  Keys,         \* module names
  Levels,       \* debug levels
  Garbled,      \* a key or a level that two texts glued together make
  BufSize,      \* LINE_BUF_SIZE
  ItemLength,   \* the characters of a line that mod_config prints
  FirstFiles    \* the files that may be there before the program runs

ASSUME GarbledIsNew == Garbled \notin Keys \cup Levels
ASSUME SizesGiven == BufSize \in Nat /\ ItemLength \in 1 .. BufSize - 1

(* setting: key=level.  spaced: "key = level" or "key=", in which only     *)
(* mod_config sees the key.  other: a comment, or a line without "=".      *)
Line == [kind : {"setting", "spaced"}, key : Keys \cup {Garbled}, level : Levels \cup {Garbled},
         length : Nat, nl : BOOLEAN]
          \cup [kind : {"comment", "other"}, length : Nat, nl : BOOLEAN]

ASSUME FilesGiven == FirstFiles \subseteq Seq(Line)

VARIABLE file
vars == <<file>>

-----------------------------------------------------------------------------
(* Reading: a loop of fgets into a buffer that starts with BufSize         *)
(* characters, and is doubled when a line does not fit.                    *)

Power[n \in Nat] == IF n = 0 THEN 1 ELSE 2 * Power[n - 1]

(* The characters of one line read after g doublings of a buffer of size.  *)
ReadAfter(size, g) == size * Power[g] - (g + 1)

(* The doublings it takes to read line l.                                  *)
Doublings(size, l) ==
  CHOOSE g \in 0 .. l.length :
    l.length <= ReadAfter(size, g) /\ \A h \in 0 .. g - 1 : l.length > ReadAfter(size, h)

(* A last line without a newline that ends where a read ends counts as     *)
(* unfinished when the file ends, and is forgotten.                        *)
Unfinished(size, l) == ~ l.nl /\ l.length = ReadAfter(size, Doublings(size, l))

(* A comment that took several reads stays in the buffer but for its last  *)
(* read, and the lines behind it are read to its end (how it grows with    *)
(* further long lines is left out); the variant says so of every long      *)
(* line.                                                                   *)
StaysLong(size, l) == Doublings(size, l) > 0
Stays(size, l) == l.kind = "comment" /\ Doublings(size, l) > 0

-----------------------------------------------------------------------------
(* Writing.                                                                *)

HasKey(l, k) == l.kind \in {"setting", "spaced"} /\ l.key = k

(* The line printed for item e.  Variants: the newline is forgotten; the   *)
(* item has no value.                                                      *)
PrintedNull(e) ==
  [kind |-> "setting", key |-> e.key, level |-> "(null)", length |-> ItemLength, nl |-> TRUE]
PrintedBare(e) ==
  [kind |-> "setting", key |-> e.key, level |-> e.level, length |-> ItemLength, nl |-> FALSE]
Printed(e) ==
  [kind |-> "setting", key |-> e.key, level |-> e.level, length |-> ItemLength, nl |-> TRUE]

(* Line l printed behind a line q that has no newline.                     *)
Glued(q, l) ==
  CASE q.kind = "comment" -> [q EXCEPT !.length = @ + l.length, !.nl = l.nl]
    [] q.kind \in {"setting", "spaced"} ->
         [q EXCEPT !.level = Garbled, !.length = @ + l.length, !.nl = l.nl]
    [] q.kind = "other" -> [l EXCEPT !.key = Garbled, !.length = @ + q.length]

PrintLine(out, l) ==
  IF out # <<>> /\ ~ Last(out).nl
    THEN Append(Front(out), Glued(Last(out), l))
    ELSE Append(out, l)

(* One round of the loop: s.size is the buffer's size, s.head the comment  *)
(* that stays in it (none: <<>>), s.left whether e is still to be written, *)
(* s.out what was printed so far.                                          *)
Copy(s, l, e) ==
  IF s.head # <<>>
    THEN [s EXCEPT !.out = Append(@, [kind |-> "comment", nl |-> l.nl,
                                      length |-> s.head[1] + l.length])]
  ELSE IF Unfinished(s.size, l)
    THEN s
  ELSE [size |-> s.size * Power[Doublings(s.size, l)],
        head |-> IF Stays(s.size, l) THEN <<ReadAfter(s.size, Doublings(s.size, l) - 1)>> ELSE <<>>,
        left |-> s.left /\ ~ HasKey(l, e.key),
        out |-> Append(s.out, IF s.left /\ HasKey(l, e.key) THEN Printed(e) ELSE l)]

Fresh == [size |-> BufSize, head |-> <<>>, left |-> TRUE, out |-> <<>>]

(* The loop over the lines of f: the state behind each of them.            *)
Copied(f, e) ==
  LET s[i \in 0 .. Len(f)] == IF i = 0 THEN Fresh ELSE Copy(s[i - 1], f[i], e)
  IN s
Modified(f, e) ==
  LET s == Copied(f, e)[Len(f)]
  IN IF s.left THEN PrintLine(s.out, Printed(e)) ELSE s.out

(* config_module_get_debug_level_by_type: the first line whose first word  *)
(* is key=level.                                                           *)
Settings(f) == {i \in DOMAIN f : f[i].kind = "setting"}
Known(f) == {f[i].key : i \in Settings(f)}
FirstSetting(f, k) ==
  CHOOSE i \in Settings(f) : f[i].key = k /\ \A j \in Settings(f) : j < i => f[j].key # k
LevelOf(f, k) == f[FirstSetting(f, k)].level

-----------------------------------------------------------------------------

Init == file \in FirstFiles

Modify == \E k \in Keys, v \in Levels : file' = Modified(file, [key |-> k, level |-> v])

Spec == Init /\ [][Modify]_vars

-----------------------------------------------------------------------------
(* Properties.                                                             *)

TypeOK == file \in Seq(Line)

(* Files whose lines all end with a newline and whose comments fit into    *)
(* the buffer.                                                             *)
Proper(f) == \A i \in DOMAIN f : f[i].nl /\ (f[i].kind = "comment" => f[i].length < BufSize)

(* A proper file stays one, however often it is modified (mod_config).     *)
StaysProper == [][Proper(file) => Proper(file')]_vars

(* What an update of k promises: k has the new level and every other       *)
(* module keeps its level; and every line that is not about k stays in its *)
(* place.                                                                  *)
KeepsLevels(f, g, e) ==
  /\ Known(g) = Known(f) \cup {e.key}
  /\ \A k \in Known(g) : LevelOf(g, k) = IF k = e.key THEN e.level ELSE LevelOf(f, k)
KeepsLines(f, g, e) ==
  /\ DOMAIN f \subseteq DOMAIN g
  /\ \A i \in DOMAIN f : IF HasKey(f[i], e.key) THEN HasKey(g[i], e.key) ELSE g[i] = f[i]
  /\ \A i \in DOMAIN g \ DOMAIN f : HasKey(g[i], e.key)

Items == [key : Keys, level : Levels]

(* On a proper file, long settings included, mod_config and the readers    *)
(* agree: the update does what it promises (mod_config,                    *)
(* config_module_get_debug_level_by_type).                                 *)
UpdatesProper ==
  Proper(file) => \A e \in Items : /\ KeepsLevels(file, Modified(file, e), e)
                                  /\ KeepsLines(file, Modified(file, e), e)
=============================================================================
