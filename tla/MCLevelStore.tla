---------------------------- MODULE MCLevelStore ----------------------------
(* LevelStore for TLC.  Which inode a new file gets does not matter, nor   *)
(* which of the writers is which; and two states are the same when they    *)
(* differ only in what nothing reads any more: the content of a deleted    *)
(* file, the arguments and the outcome of a call that has returned.        *)
EXTENDS LevelStore, TLC

Symmetry == Permutations(Inodes) \cup Permutations(Writers)

View == <<conf, bak, [i \in Inodes \ Free |-> data[i]],
          pc, [w \in {v \in Writers : pc[v] # "idle"} |-> item[w]],
          fpConf, fpBak, buf,
          rpc, [r \in {q \in Readers : rpc[q] # "idle"} |-> wanted[r]], fp>>
=============================================================================
