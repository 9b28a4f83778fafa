--------------------------- MODULE MCModuleTable ---------------------------
EXTENDS ModuleTable

(* Between versions 1 and 2 module m1 moves from one file to another,      *)
(* m2 gets a second script, a script changes and another goes.             *)
MCFileText(v, f) ==
  CASE f = "a.json" /\ v = 1 -> "m1 in version 1"
    [] f = "c.json" /\ v = 2 -> "m1 in version 2"
    [] f = "b.json" /\ v = 1 -> "m2 in version 1"
    [] f = "b.json" /\ v = 2 -> "m2 in version 2"
    [] OTHER                 -> ""
MCScriptText(v, s) ==
  CASE s = "s1.sh" /\ v = 1 -> "s1"
    [] s = "s2.sh" /\ v = 1 -> "s2 in version 1"
    [] s = "s2.sh" /\ v = 2 -> "s2 in version 2"
    [] s = "s3.sh" /\ v = 2 -> "s3"
    [] OTHER                -> ""

(* Another package's file: no JSON; usable, with a name that is there      *)
(* twice; without a name; with a submodule whose script is no string.      *)
MCOthers == {"no JSON", "two names", "no name", "no script"}

Str(x) == [is |-> "string", value |-> x]
Num(x) == [is |-> "number", value |-> x]
Member(k, v) == [key |-> k, value |-> v]
Object(ms) == [is |-> "object", members |-> ms]
Array(xs) == [is |-> "array", items |-> xs]
Sub(n, s) == Object(<<Member("name", Str(n)), Member("exec", Str(s))>>)
Module(n, subs) ==
  Object(<<Member("name", Str(n)), Member("submodules", Array(subs)), Member("reboot", Num(1))>>)
MCCJsonParse(t) ==
  CASE t = "m1 in version 1" -> Module("m1", <<Sub("p1", "s1.sh")>>)
    [] t = "m1 in version 2" -> Module("m1", <<Sub("p1", "s2.sh")>>)
    [] t = "m2 in version 1" -> Module("m2", <<Sub("p2", "s2.sh")>>)
    [] t = "m2 in version 2" -> Module("m2", <<Sub("p2", "s2.sh"), Sub("p3", "s3.sh")>>)
    [] t = "two names" -> Object(<<Member("Name", Str("m3")), Member("name", Str("m1")),
                             Member("group", Str("g")), Member("submodules", Array(<<>>))>>)
    [] t = "no name"   -> Object(<<Member("submodules", Array(<<>>))>>)
    [] t = "no script" -> Object(<<Member("name", Str("m3")), Member("submodules",
                             Array(<<Sub("p1", "s1.sh"),
                                     Object(<<Member("name", Str("p1")), Member("exec", Num(1))>>)>>))>>)
    [] OTHER -> [is |-> "invalid"]
MCLower(k) == IF k = "Name" THEN "name" ELSE k

ASSUME NamesApart
=============================================================================
