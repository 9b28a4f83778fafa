----------------------------- MODULE MCModConfig -----------------------------
(* ModConfig for TLC, with a buffer of 4 characters: lines that fit into   *)
(* it, that fill it, that need one or two more reads.                      *)
EXTENDS ModConfig, TLC

CONSTANTS k1, k2, debug, warning

Lengths == {2, 3, 4, 6, 7}

LinesWith(lengths, ends) ==
  [kind : {"setting", "spaced"}, key : Keys, level : {debug}, length : lengths, nl : ends]
    \cup [kind : {"comment", "other"}, length : lengths, nl : ends]

(* Proper files.                                                           *)
ProperFiles == {f \in SeqOf(LinesWith(Lengths, {TRUE}), 3) : Proper(f)}

(* Files whose last line, unless it is a comment, may lack its newline.    *)
BareFiles ==
  {f \in SeqOf(LinesWith(Lengths, BOOLEAN), 2) :
     \A i \in DOMAIN f : /\ f[i].nl \/ i = Len(f)
                         /\ f[i].kind = "comment" => f[i].nl /\ f[i].length < BufSize}
EditedFiles == ProperFiles \cup BareFiles
=============================================================================
