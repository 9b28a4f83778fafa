----------------------------- MODULE MCCliArgs -----------------------------
EXTENDS CliArgs

(* "-gl" stands for words of several options, "-lm" for those whose        *)
(* parameter both readers take, "-mx" for those that hold theirs,          *)
(* --module=x among them; "on" and "v" are no options.                     *)
MCLetters(w) ==
  CASE w = "-s"  -> <<"s">>
    [] w = "-g"  -> <<"g">>
    [] w = "-l"  -> <<"l">>
    [] w = "-c"  -> <<"c">>
    [] w = "-m"  -> <<"m">>
    [] w = "-i"  -> <<"i">>
    [] w = "-h"  -> <<"h">>
    [] w = "-t"  -> <<"t">>
    [] w = "-gl" -> <<"g", "l">>
    [] w = "-mx" -> <<"m">>
    [] w = "-lm" -> <<"l", "m">>
    [] OTHER     -> <<>>
MCAttached(w) == IF w = "-mx" THEN "x" ELSE ""
=============================================================================
