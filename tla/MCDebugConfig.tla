---------------------------- MODULE MCDebugConfig ----------------------------
(* DebugConfig for TLC: module m1 has two submodules, one of them with a   *)
(* script that rejects the level "off"; m2 is like uos-activator: its       *)
(* script, one of those that call dde-dconfig, knows only some levels,     *)
(* passes over others and does not look at the command's result, and it    *)
(* is not called like its package.                                         *)
EXTENDS DebugConfig, TLC

CONSTANTS m1, m2, nobody, s1, s2, s3, debug, warning

MCSubsOf == m1 :> <<s1, s2>> @@ m2 :> <<s3>>
MCAccepts == s1 :> {debug, warning, Off} @@ s2 :> {debug, warning} @@ s3 :> {debug, warning}
MCRejects == s1 :> {} @@ s2 :> {Off} @@ s3 :> {}

Pair(n, l) == [name |-> n, level |-> l]

MCRequests == {<<Pair(m1, debug)>>, <<Pair(All, warning)>>}

MCServiceRequests ==
  {<<Pair(n, debug)>> : n \in {m1, All, nobody}}
    \cup {<<Pair(All, warning), Pair(m2, debug)>>,
          <<Pair(m2, debug), Pair(m1, debug)>>, <<Pair(m2, Off)>>,
          <<Pair(m1, Off), Pair(All, debug)>>}

(* One module with one script, for the runs with two processes.            *)
OneEach == m1 :> <<s1>>
Debug == [s \in Subs |-> {debug, warning}]
None == [s \in Subs |-> {}]

(* What a run leaves out of a state because nothing it checks depends on   *)
(* it: how the last calls ended; the cache, or journald's files and the    *)
(* packages dpkg does not find (any script may fail in these runs).        *)
SharedView == <<applied, skipped, installed, file, journal, act>>
ServiceView == <<applied, skipped, installed \ Misnamed, file, cached, act>>
=============================================================================
