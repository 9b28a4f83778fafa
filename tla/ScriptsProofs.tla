--------------------------- MODULE ScriptsProofs ---------------------------
(***************************************************************************)
(* Theorems about Scripts, for any number of runs in any order and of      *)
(* commands that fail: what a script has done is in force when it counts   *)
(* as done and stays so until its next run, and "state" prints it.  First  *)
(* each script by itself, as a list of commands; then the runs.            *)
(***************************************************************************)
EXTENDS Scripts, FiniteSetTheorems, TLAPS

-----------------------------------------------------------------------------
(* A script by itself.                                                     *)

Ops == {"set", "remove", "create", "install", "clear", "delete", "append", "edit"}
Own(S) == UNION {DOMAIN S.goal[w] : w \in S.words}
Goals(S, t) == {S.goal[w][t] : w \in S.words}
CommandsOf(S) ==
  UNION {[op : Ops, target : {t}, value : Goals(S, t) \cup {Unset}] : t \in Own(S)}
Cmds(S, w) == S.first \o (IF w \in S.words THEN S.steps[w] ELSE <<>>)

(* What a command makes of a value, and the values a target may have: only *)
(* a file that is written as a whole may be torn.                          *)
Effect(c, x) ==
  CASE c.op \in {"set", "remove", "append"} -> c.value
    [] c.op = "create" -> IF x = Unset THEN c.value ELSE x
    [] c.op = "install" -> x
    [] c.op = "clear" -> IF x = c.value THEN x ELSE Unset
    [] c.op = "delete" -> IF x = c.value THEN Unset ELSE x
    [] c.op = "edit" -> IF x \in {Unset, Torn} THEN x ELSE c.value
Tears(S, t) ==
  IsFile(t) /\ \E w : \E i \in DOMAIN Cmds(S, w) :
                  Cmds(S, w)[i].target = t /\ Cmds(S, w)[i].op \in {"set", "create"}
Possible(S, t) == {Unset} \cup Goals(S, t) \cup {x \in {Torn} : Tears(S, t)}

WellMade(S) ==
  /\ S.words # {} /\ S.strict \in BOOLEAN
  /\ \A w \in S.words : DOMAIN S.goal[w] = Own(S)
  /\ \A w : Cmds(S, w) \in Seq(CommandsOf(S))

(* Where what stands before the commands of the words is run for a word    *)
(* that is not known, it changes nothing that was set.                     *)
FirstKeeps(S) ==
  \A w : w \notin S.words =>
    \A i \in DOMAIN Cmds(S, w) :
      /\ Cmds(S, w)[i].op = "create"
      /\ \A v \in S.words : S.goal[v][Cmds(S, w)[i].target] # Unset

(* Command p gives its target the value that word w is to bring about.     *)
Decides(S, w, p) ==
  LET c == Cmds(S, w)[p] IN
  \A x \in Possible(S, c.target) : Effect(c, x) = S.goal[w][c.target]

(* Each target has such a command, and none behind it.                     *)
Leads(S) ==
  \A w \in S.words : \A t \in Own(S) :
    \E p \in DOMAIN Cmds(S, w) :
      /\ Cmds(S, w)[p].target = t
      /\ Decides(S, w, p)
      /\ \A q \in DOMAIN Cmds(S, w) : q > p => Cmds(S, w)[q].target # t

Sound(S) == WellMade(S) /\ FirstKeeps(S) /\ (S.strict => Leads(S))

-----------------------------------------------------------------------------
(* The families.                                                           *)

LEMMA NoFirst ==
  ASSUME NEW T, NEW s \in Seq(T)
  PROVE  <<>> \o s = s
OBVIOUS

LEMMA OwnIs ==
  ASSUME NEW S, NEW T, S.words # {}, \A w \in S.words : DOMAIN S.goal[w] = T
  PROVE  Own(S) = T
<1>1. \A x \in T : x \in Own(S)
  BY DEF Own
<1>2. \A x \in Own(S) : x \in T
  BY DEF Own
<1>3. QED BY <1>1, <1>2

LEMMA CommandIs ==
  ASSUME NEW S, NEW op \in Ops, NEW t \in Own(S), NEW v \in Goals(S, t) \cup {Unset}
  PROVE  Command(op, t, v) \in CommandsOf(S)
<1>1. Command(op, t, v) \in [op : Ops, target : {t}, value : Goals(S, t) \cup {Unset}]
  BY DEF Command
<1>2. QED BY <1>1, Zenon DEF CommandsOf

(* A script that runs nothing for a word it does not know.                 *)
LEMMA NothingFirst ==
  ASSUME NEW S, S.words # {}, S.first = <<>>, S.strict \in BOOLEAN,
         \A w \in S.words : DOMAIN S.goal[w] = Own(S) /\ S.steps[w] \in Seq(CommandsOf(S))
  PROVE  /\ WellMade(S) /\ FirstKeeps(S)
         /\ \A w \in S.words : Cmds(S, w) = S.steps[w]
<1>1. \A w \in S.words : Cmds(S, w) = S.steps[w]
  BY NoFirst DEF Cmds
<1>2. \A w : w \notin S.words => Cmds(S, w) = <<>>
  BY DEF Cmds
<1>3. \A w : Cmds(S, w) \in Seq(CommandsOf(S))
  <2>1. TAKE w
  <2>2. <<>> \in Seq(CommandsOf(S))
    OBVIOUS
  <2>3. QED BY <1>1, <1>2, <2>2, Zenon
<1>4. WellMade(S)
  BY <1>3, Zenon DEF WellMade
<1>5. FirstKeeps(S)
  BY <1>2 DEF FirstKeeps
<1>6. QED BY <1>1, <1>4, <1>5

(* One that writes each of its targets, the last time with the value that  *)
(* the word is to bring about.                                             *)
Writes(S, w, t) ==
  \E p \in DOMAIN S.steps[w] :
    /\ S.steps[w][p].target = t
    /\ S.steps[w][p].op \in {"set", "remove", "append"}
    /\ S.steps[w][p].value = S.goal[w][t]
    /\ \A q \in DOMAIN S.steps[w] : q > p => S.steps[w][q].target # t

LEMMA WritesLeads ==
  ASSUME NEW S, NEW w \in S.words, Cmds(S, w) = S.steps[w], NEW t \in Own(S), Writes(S, w, t)
  PROVE  \E p \in DOMAIN Cmds(S, w) :
           /\ Cmds(S, w)[p].target = t
           /\ Decides(S, w, p)
           /\ \A q \in DOMAIN Cmds(S, w) : q > p => Cmds(S, w)[q].target # t
<1>1. PICK p \in DOMAIN S.steps[w] :
        /\ S.steps[w][p].target = t
        /\ S.steps[w][p].op \in {"set", "remove", "append"}
        /\ S.steps[w][p].value = S.goal[w][t]
        /\ \A q \in DOMAIN S.steps[w] : q > p => S.steps[w][q].target # t
  BY Zenon DEF Writes
<1>2. \A x : Effect(S.steps[w][p], x) = S.goal[w][t]
  BY <1>1 DEF Effect
<1>3. Decides(S, w, p)
  BY <1>1, <1>2, Zenon DEF Decides
<1>4. QED BY <1>1, <1>3, Zenon

LEMMA PlainGood ==
  ASSUME NEW S, S.words # {}, S.first = <<>>, S.strict \in BOOLEAN,
         \A w \in S.words : /\ DOMAIN S.goal[w] = Own(S) /\ S.steps[w] \in Seq(CommandsOf(S))
                            /\ \A t \in Own(S) : Writes(S, w, t)
  PROVE  Sound(S) /\ Leads(S)
<1>1. WellMade(S) /\ FirstKeeps(S) /\ \A w \in S.words : Cmds(S, w) = S.steps[w]
  BY NothingFirst, Zenon
<1>2. Leads(S)
  <2> SUFFICES ASSUME NEW w \in S.words, NEW t \in Own(S)
               PROVE  \E p \in DOMAIN Cmds(S, w) :
                        /\ Cmds(S, w)[p].target = t
                        /\ Decides(S, w, p)
                        /\ \A q \in DOMAIN Cmds(S, w) : q > p => Cmds(S, w)[q].target # t
    BY DEF Leads
  <2>1. Writes(S, w, t) /\ Cmds(S, w) = S.steps[w]
    BY <1>1
  <2>2. QED BY <2>1, WritesLeads
<1>3. QED BY <1>1, <1>2 DEF Sound

(* A script of a family, or a variant of it that differs in nothing that   *)
(* it writes.                                                              *)
Variants(R) == {R, WithAwk(R), WithoutState(R), WithoutSetE(R), WithAwk(WithoutSetE(R))}

LEMMA Variant ==
  ASSUME NEW W, NEW st, NEW go, NEW o, NEW sh,
         NEW R, R = [words |-> W, first |-> <<>>, steps |-> st, goal |-> go,
                     strict |-> TRUE, other |-> o, shows |-> sh],
         NEW S, S \in Variants(R)
  PROVE  S.words = W /\ S.first = <<>> /\ S.steps = st /\ S.goal = go /\ S.strict \in BOOLEAN
<1>1. CASE S = R
  BY <1>1
<1>2. CASE S = WithAwk(R)
  BY <1>2 DEF WithAwk
<1>3. CASE S = WithoutState(R)
  BY <1>3 DEF WithoutState
<1>4. CASE S = WithoutSetE(R)
  BY <1>4 DEF WithoutSetE
<1>5. CASE S = WithAwk(WithoutSetE(R))
  BY <1>5 DEF WithAwk, WithoutSetE
<1>6. QED BY <1>1, <1>2, <1>3, <1>4, <1>5, Zenon DEF Variants

(* One dconfig key.                                                        *)
LEMMA DconfigFields ==
  ASSUME NEW app, NEW id, NEW key, NEW rules, DOMAIN rules # {},
         NEW S, S \in Variants(Dconfig(app, id, key, rules))
  PROVE  /\ S.words = DOMAIN rules /\ S.first = <<>> /\ S.strict \in BOOLEAN
         /\ S.steps = [w \in DOMAIN rules |-> <<Set(<<app, id, key>>, rules[w])>>]
         /\ S.goal = [w \in DOMAIN rules |-> <<app, id, key>> :> rules[w]]
<1> DEFINE st == [w \in DOMAIN rules |-> <<Set(<<app, id, key>>, rules[w])>>]
           R == Dconfig(app, id, key, rules)
           go == [w \in DOMAIN rules |-> <<app, id, key>> :> rules[w]]
<1>1. R =
        [words |-> DOMAIN rules, first |-> <<>>, steps |-> st, goal |-> go,
         strict |-> TRUE, other |-> 0, shows |-> "last"]
  BY Zenon DEF Dconfig
<1>2. S \in Variants(R)
  BY Zenon DEF Variants
<1> HIDE DEF st, go, R
<1>3. /\ S.words = DOMAIN rules /\ S.first = <<>> /\ S.strict \in BOOLEAN
      /\ S.steps = st /\ S.goal = go
  BY <1>1, <1>2, Variant
<1>4. QED BY <1>3, Zenon DEF st, go

LEMMA DconfigSound ==
  ASSUME NEW app, NEW id, NEW key, NEW rules, DOMAIN rules # {},
         NEW S, S \in Variants(Dconfig(app, id, key, rules))
  PROVE  Sound(S) /\ Leads(S) /\ Own(S) = {<<app, id, key>>}
<1>0. /\ S.words = DOMAIN rules /\ S.first = <<>> /\ S.strict \in BOOLEAN
      /\ S.steps = [w \in DOMAIN rules |-> <<Set(<<app, id, key>>, rules[w])>>]
      /\ S.goal = [w \in DOMAIN rules |-> <<app, id, key>> :> rules[w]]
  BY DconfigFields
<1> DEFINE t == <<app, id, key>>
<1>1. \A w \in S.words : DOMAIN S.goal[w] = {t} /\ S.goal[w][t] = rules[w]
  BY <1>0 DEF :>
<1>2. Own(S) = {t}
  BY <1>0, <1>1, OwnIs
<1>3. \A w \in S.words : rules[w] \in Goals(S, t)
  BY <1>1, Zenon DEF Goals
<1>4. \A w \in S.words : S.steps[w] = <<Set(t, rules[w])>>
  BY <1>0
<1> HIDE DEF t
<1>5. \A w \in S.words : Set(t, rules[w]) \in CommandsOf(S)
  BY <1>2, <1>3, CommandIs DEF Set, Ops
<1>6. \A w \in S.words : S.steps[w] \in Seq(CommandsOf(S))
  <2>1. TAKE w \in S.words
  <2>2. <<Set(t, rules[w])>> \in Seq(CommandsOf(S))
    BY <1>5
  <2>3. QED BY <1>4, <2>2, Zenon
<1>7. \A w \in S.words : Writes(S, w, t)
  <2>1. TAKE w \in S.words
  <2>2. S.steps[w][1] = Set(t, rules[w]) /\ DOMAIN S.steps[w] = 1 .. 1
    BY <1>4
  <2>3. S.steps[w][1].target = t /\ S.steps[w][1].op = "set" /\ S.steps[w][1].value = rules[w]
    BY <2>2 DEF Set, Command
  <2>4. QED BY <1>1, <2>2, <2>3 DEF Writes
<1>8. Sound(S) /\ Leads(S)
  BY <1>0, <1>1, <1>2, <1>6, <1>7, PlainGood
<1>9. QED BY <1>2, <1>8 DEF t

(* Override files, no two of them the same.                                *)
LEMMA OverrideSound ==
  ASSUME NEW files, NEW n \in Nat \ {0}, DOMAIN files = 1 .. n,
         \A i, j \in 1 .. n : files[i] = files[j] => i = j,
         NEW levels, DOMAIN levels # {},
         NEW S, S \in Variants(Override(files, levels))
  PROVE  Sound(S) /\ Leads(S) /\ Own(S) = {files[i] : i \in 1 .. n}
<1>0. /\ S.words = DOMAIN levels /\ S.first = <<>> /\ S.strict \in BOOLEAN
      /\ S.steps = [w \in DOMAIN levels |-> [i \in DOMAIN files |-> Write(files[i], levels[w])]]
      /\ S.goal = [w \in DOMAIN levels |-> [f \in {files[i] : i \in DOMAIN files} |-> levels[w]]]
  <2> DEFINE st == [w \in DOMAIN levels |-> [i \in DOMAIN files |-> Write(files[i], levels[w])]]
             R == Override(files, levels)
             go == [w \in DOMAIN levels |-> [f \in {files[i] : i \in DOMAIN files} |-> levels[w]]]
  <2>1. R =
          [words |-> DOMAIN levels, first |-> <<>>, steps |-> st, goal |-> go,
           strict |-> TRUE, other |-> 1, shows |-> "nothing"]
    BY Zenon DEF Override, OverrideWith
  <2>2. S \in Variants(R)
    BY Zenon DEF Variants
  <2> HIDE DEF st, go, R
  <2>3. /\ S.words = DOMAIN levels /\ S.first = <<>> /\ S.strict \in BOOLEAN
        /\ S.steps = st /\ S.goal = go
    BY <2>1, <2>2, Variant
  <2>4. QED BY <2>3, Zenon DEF st, go
<1> DEFINE T == {files[i] : i \in DOMAIN files}
<1>1. \A w \in S.words : DOMAIN S.goal[w] = T /\ \A t \in T : S.goal[w][t] = levels[w]
  BY <1>0
<1>2. Own(S) = T
  BY <1>0, <1>1, OwnIs
<1>3. \A w \in S.words : \A t \in T : levels[w] \in Goals(S, t)
  BY <1>1 DEF Goals
<1>4. \A w \in S.words : \A i \in 1 .. n :
        /\ S.steps[w][i] = Write(files[i], levels[w])
        /\ S.steps[w][i] = Command(IF levels[w] = Unset THEN "remove" ELSE "set", files[i], levels[w])
  BY <1>0 DEF Write, Remove, Set
<1>4a. \A w \in S.words : \A i \in 1 .. n :
         /\ S.steps[w][i].target = files[i] /\ S.steps[w][i].op \in {"set", "remove"}
         /\ S.steps[w][i].value = levels[w]
  <2> HIDE DEF T
  <2>1. TAKE w \in S.words
  <2>2. TAKE i \in 1 .. n
  <2>3. S.steps[w][i] = Command(IF levels[w] = Unset THEN "remove" ELSE "set", files[i], levels[w])
    BY <1>4
  <2>4. QED BY <2>3 DEF Command
<1>5. \A i \in 1 .. n : files[i] \in T
  OBVIOUS
<1> HIDE DEF T
<1>6. \A w \in S.words : S.steps[w] \in Seq(CommandsOf(S))
  <2>1. TAKE w \in S.words
  <2>2. \A i \in 1 .. n : S.steps[w][i] \in CommandsOf(S)
    BY <1>2, <1>3, <1>4, <1>5, CommandIs DEF Ops
  <2>3. S.steps[w] = [i \in 1 .. n |-> S.steps[w][i]]
    BY <1>0
  <2> DEFINE s == S.steps[w]
  <2>4. s \in [1 .. n -> CommandsOf(S)]
    BY <2>2, <2>3
  <2> HIDE DEF s
  <2>5. s \in Seq(CommandsOf(S))
    BY <2>4
  <2>6. QED BY <2>5 DEF s
<1>7. \A w \in S.words : \A t \in T : Writes(S, w, t)
  <2>1. TAKE w \in S.words
  <2>2. TAKE t \in T
  <2>3. PICK p \in 1 .. n : t = files[p]
    BY <2>2 DEF T
  <2>4. DOMAIN S.steps[w] = 1 .. n
    BY <1>0
  <2>5. /\ S.steps[w][p].target = t /\ S.steps[w][p].op \in {"set", "remove", "append"}
        /\ S.steps[w][p].value = S.goal[w][t]
    BY <1>1, <1>4a, <2>3
  <2>6. \A q \in 1 .. n : q > p => S.steps[w][q].target # t
    BY <1>4a, <2>3
  <2>7. QED BY <2>4, <2>5, <2>6, Zenon DEF Writes
<1>8. Sound(S) /\ Leads(S)
  BY <1>0, <1>1, <1>2, <1>6, <1>7, PlainGood
<1>9. QED BY <1>2, <1>8 DEF T

(* A file of options that is there or not.                                 *)
LEMMA SwitchGood ==
  ASSUME NEW file
  PROVE  Sound(Switch(file)) /\ Leads(Switch(file)) /\ Own(Switch(file)) = {file}
<1> DEFINE S == Switch(file)
           on == {"on", "debug"}
           off == {"off", "warning"}
<1>1. S.words = on \cup off /\ S.first = <<>> /\ S.strict = TRUE
  BY DEF Switch
<1>2. \A w \in on : /\ S.steps[w] = <<Remove(file), Set(file, <<"debug">>)>>
                    /\ S.goal[w] = file :> <<"debug">>
  BY DEF Switch, @@
<1>3. \A w \in off : S.steps[w] = <<Remove(file)>> /\ S.goal[w] = file :> Unset
  BY DEF Switch, @@
<1> HIDE DEF S, on, off
<1>4. \A w \in on : DOMAIN S.goal[w] = {file} /\ S.goal[w][file] = <<"debug">>
  BY <1>2 DEF :>
<1>5. \A w \in off : DOMAIN S.goal[w] = {file} /\ S.goal[w][file] = Unset
  BY <1>3 DEF :>
<1>6. S.words # {} /\ "on" \in on
  BY <1>1 DEF on
<1>7. Own(S) = {file}
  BY <1>1, <1>4, <1>5, <1>6, OwnIs
<1>8. <<"debug">> \in Goals(S, file)
  BY <1>1, <1>4, <1>6, Zenon DEF Goals
<1>9. Set(file, <<"debug">>) \in CommandsOf(S) /\ Remove(file) \in CommandsOf(S)
  BY <1>7, <1>8, CommandIs DEF Set, Remove, Ops
<1>10. \A w \in S.words : S.steps[w] \in Seq(CommandsOf(S))
  <2>1. /\ <<Remove(file), Set(file, <<"debug">>)>> \in Seq(CommandsOf(S))
        /\ <<Remove(file)>> \in Seq(CommandsOf(S))
    BY <1>9
  <2>2. QED BY <1>1, <1>2, <1>3, <2>1, Zenon
<1>11. \A w \in on : Writes(S, w, file)
  <2>1. TAKE w \in on
  <2>2. DOMAIN S.steps[w] = 1 .. 2 /\ S.steps[w][2] = Set(file, <<"debug">>)
    BY <1>2
  <2>3. /\ S.steps[w][2].target = file /\ S.steps[w][2].op = "set"
        /\ S.steps[w][2].value = S.goal[w][file]
    BY <1>4, <2>2 DEF Set, Command
  <2>4. QED BY <2>2, <2>3 DEF Writes
<1>12. \A w \in off : Writes(S, w, file)
  <2>1. TAKE w \in off
  <2>2. DOMAIN S.steps[w] = 1 .. 1 /\ S.steps[w][1] = Remove(file)
    BY <1>3
  <2>3. /\ S.steps[w][1].target = file /\ S.steps[w][1].op = "remove"
        /\ S.steps[w][1].value = S.goal[w][file]
    BY <1>5, <2>2 DEF Remove, Command
  <2>4. QED BY <2>2, <2>3 DEF Writes
<1>13. \A w \in S.words : /\ DOMAIN S.goal[w] = Own(S) /\ S.steps[w] \in Seq(CommandsOf(S))
                          /\ \A t \in Own(S) : Writes(S, w, t)
  BY <1>1, <1>4, <1>5, <1>7, <1>10, <1>11, <1>12
<1>14. Sound(S) /\ Leads(S)
  BY <1>1, <1>6, <1>13, PlainGood
<1>15. QED BY <1>7, <1>14 DEF S

(* The sessions' environment and its override.                             *)
LEMMA DdeGood == Sound(Dde) /\ Leads(Dde) /\ Own(Dde) = {DdeEnv, DdeOverride}
<1> DEFINE S == Dde
           steps(w) == <<Remove(DdeEnv), Set(DdeEnv, <<DdeLevels[w]>>), Write(DdeOverride, DdeKeeps(w))>>
<1>1. S.words = DOMAIN DdeLevels /\ S.first = <<>> /\ S.strict = TRUE
  BY DEF Dde
<1>2. "on" \in S.words
  BY <1>1 DEF DdeLevels, :>, @@
<1>3. \A w \in S.words : /\ S.steps[w] = steps(w)
                         /\ S.goal[w] = (DdeEnv :> <<DdeLevels[w]>>) @@ (DdeOverride :> DdeKeeps(w))
  BY <1>1 DEF Dde
<1>4. DdeEnv # DdeOverride
  BY DEF DdeEnv, DdeOverride
<1> HIDE DEF S
<1>5. \A w \in S.words : /\ DOMAIN S.goal[w] = {DdeEnv, DdeOverride}
                         /\ S.goal[w][DdeEnv] = <<DdeLevels[w]>>
                         /\ S.goal[w][DdeOverride] = DdeKeeps(w)
  BY <1>3, <1>4 DEF :>, @@
<1>6. Own(S) = {DdeEnv, DdeOverride}
  BY <1>2, <1>5, OwnIs
<1>7. \A w \in S.words : <<DdeLevels[w]>> \in Goals(S, DdeEnv) /\ DdeKeeps(w) \in Goals(S, DdeOverride)
  BY <1>5 DEF Goals
<1>8. \A v : Write(DdeOverride, v) = Command(IF v = Unset THEN "remove" ELSE "set", DdeOverride, v)
  BY DEF Write, Remove, Set
<1>9. \A w \in S.words : /\ Remove(DdeEnv) \in CommandsOf(S)
                         /\ Set(DdeEnv, <<DdeLevels[w]>>) \in CommandsOf(S)
                         /\ Write(DdeOverride, DdeKeeps(w)) \in CommandsOf(S)
  BY <1>6, <1>7, <1>8, CommandIs DEF Set, Remove, Ops
<1>10. \A w \in S.words : S.steps[w] \in Seq(CommandsOf(S))
  <2>1. TAKE w \in S.words
  <2>2. steps(w) \in Seq(CommandsOf(S))
    BY <1>9
  <2>3. QED BY <1>3, <2>2, Zenon
<1>11. ASSUME NEW w \in S.words PROVE Writes(S, w, DdeEnv) /\ Writes(S, w, DdeOverride)
  <2>1. DOMAIN S.steps[w] = 1 .. 3
    <3>1. DOMAIN steps(w) = 1 .. 3
      OBVIOUS
    <3>2. S.steps[w] = steps(w)
      BY <1>3, <1>11
    <3>3. QED BY <3>1, <3>2, Zenon
  <2>2. S.steps[w][2] = Set(DdeEnv, <<DdeLevels[w]>>) /\ S.steps[w][3] = Write(DdeOverride, DdeKeeps(w))
    BY <1>3
  <2>3. /\ S.steps[w][2].target = DdeEnv /\ S.steps[w][2].op = "set"
        /\ S.steps[w][2].value = S.goal[w][DdeEnv]
    BY <1>5, <2>2 DEF Set, Command
  <2>4. /\ S.steps[w][3].target = DdeOverride /\ S.steps[w][3].op \in {"set", "remove"}
        /\ S.steps[w][3].value = S.goal[w][DdeOverride]
    BY <1>5, <1>8, <2>2 DEF Command
  <2>5. Writes(S, w, DdeEnv)
    BY <1>4, <2>1, <2>3, <2>4 DEF Writes
  <2>6. Writes(S, w, DdeOverride)
    BY <2>1, <2>4 DEF Writes
  <2>7. QED BY <2>5, <2>6
<1>12. \A w \in S.words : /\ DOMAIN S.goal[w] = Own(S) /\ S.steps[w] \in Seq(CommandsOf(S))
                          /\ \A t \in Own(S) : Writes(S, w, t)
  BY <1>5, <1>6, <1>10, <1>11
<1>13. Sound(S) /\ Leads(S)
  BY <1>1, <1>2, <1>12, PlainGood
<1>14. QED BY <1>6, <1>13 DEF S

(* The setting Storage: no command writes the file as a whole.             *)
LEMMA CoredumpGood ==
  Sound(SettingCoredump) /\ Leads(SettingCoredump) /\ Own(SettingCoredump) = {CoredumpConf}
<1> DEFINE S == SettingCoredump
           C == CoredumpConf
           on == <<Install(C), Delete(C, NoStorage)>>
           off == <<Install(C), Clear(C, NoStorage), AppendLine(C, NoStorage)>>
<1>1. S.words = {"on", "off"} /\ S.first = <<>> /\ S.strict = TRUE
  BY DEF SettingCoredump
<1>2. /\ S.steps["on"] = on /\ S.goal["on"] = (C :> Unset)
      /\ S.steps["off"] = off /\ S.goal["off"] = (C :> NoStorage)
  BY DEF SettingCoredump, :>, @@
<1> HIDE DEF S, C
<1>3. /\ DOMAIN S.goal["on"] = {C} /\ S.goal["on"][C] = Unset
      /\ DOMAIN S.goal["off"] = {C} /\ S.goal["off"][C] = NoStorage
  BY <1>2 DEF :>
<1>4. Own(S) = {C}
  BY <1>1, <1>3, OwnIs
<1>5. Goals(S, C) = {Unset, NoStorage}
  BY <1>1, <1>3 DEF Goals
<1>6. /\ Install(C) \in CommandsOf(S) /\ Delete(C, NoStorage) \in CommandsOf(S)
      /\ Clear(C, NoStorage) \in CommandsOf(S) /\ AppendLine(C, NoStorage) \in CommandsOf(S)
  BY <1>4, <1>5, CommandIs DEF Install, Delete, Clear, AppendLine, Ops
<1>7. on \in Seq(CommandsOf(S)) /\ off \in Seq(CommandsOf(S))
  BY <1>6
<1>8. /\ WellMade(S) /\ FirstKeeps(S)
      /\ Cmds(S, "on") = on /\ Cmds(S, "off") = off
  BY <1>1, <1>2, <1>3, <1>4, <1>7, NothingFirst
<1>9. ~ Tears(S, C)
  <2>1. \A i \in DOMAIN on : on[i].op \in {"install", "delete"}
    BY DEF Install, Delete, Command
  <2>2. \A i \in DOMAIN off : off[i].op \in {"install", "clear", "append"}
    BY DEF Install, Clear, AppendLine, Command
  <2>3. \A w : w \notin {"on", "off"} => Cmds(S, w) = <<>>
    BY <1>1 DEF Cmds
  <2> HIDE DEF on, off
  <2>4. ASSUME NEW w, NEW i \in DOMAIN Cmds(S, w) PROVE Cmds(S, w)[i].op \notin {"set", "create"}
    <3>1. CASE w \in {"on", "off"}
      BY <1>8, <2>1, <2>2, <2>4, <3>1
    <3>2. CASE w \notin {"on", "off"}
      BY <2>3, <2>4, <3>2
    <3>3. QED BY <3>1, <3>2
  <2>5. QED BY <2>4, Zenon DEF Tears
<1>10. Possible(S, C) = {Unset, NoStorage}
  BY <1>5, <1>9 DEF Possible
<1>11. ASSUME NEW t \in Own(S)
       PROVE  /\ on[2].target = t /\ Decides(S, "on", 2)
              /\ off[3].target = t /\ Decides(S, "off", 3)
  <2>1. on[2] = Delete(C, NoStorage) /\ off[3] = AppendLine(C, NoStorage)
    OBVIOUS
  <2>2. on[2].target = C /\ on[2].op = "delete" /\ on[2].value = NoStorage
    BY <2>1 DEF Delete, Command
  <2>3. off[3].target = C /\ off[3].op = "append" /\ off[3].value = NoStorage
    BY <2>1 DEF AppendLine, Command
  <2> HIDE DEF on, off
  <2>4. \A x \in Possible(S, C) : Effect(on[2], x) = Unset
    BY <1>10, <2>2 DEF Effect
  <2>5. \A x : Effect(off[3], x) = NoStorage
    BY <2>3 DEF Effect
  <2>6. Decides(S, "on", 2)
    BY <1>3, <1>8, <2>2, <2>4, Zenon DEF Decides
  <2>7. Decides(S, "off", 3)
    BY <1>3, <1>8, <2>3, <2>5, Zenon DEF Decides
  <2>8. QED BY <1>4, <1>11, <2>2, <2>3, <2>6, <2>7
<1>12. Leads(S)
  <2> SUFFICES ASSUME NEW w \in S.words, NEW t \in Own(S)
               PROVE  \E p \in DOMAIN Cmds(S, w) :
                        /\ Cmds(S, w)[p].target = t
                        /\ Decides(S, w, p)
                        /\ \A q \in DOMAIN Cmds(S, w) : q > p => Cmds(S, w)[q].target # t
    BY DEF Leads
  <2>1. DOMAIN on = 1 .. 2 /\ DOMAIN off = 1 .. 3
    OBVIOUS
  <2> HIDE DEF on, off
  <2>2. CASE w = "on"
    BY <1>8, <1>11, <2>1, <2>2
  <2>3. CASE w = "off"
    BY <1>8, <1>11, <2>1, <2>3
  <2>4. QED BY <1>1, <2>2, <2>3
<1>13. QED BY <1>4, <1>8, <1>12 DEF Sound, S, C

(* Two files that are made if they are missing, for any word.              *)
LEMMA MinLogLevelGood ==
  ASSUME NEW file, NEW daemon
  PROVE  Sound(MinLogLevel(file, daemon)) /\ Own(MinLogLevel(file, daemon)) = {file, daemon}
<1> DEFINE S == MinLogLevel(file, daemon)
           T == {file, daemon}
           first == <<Create(file, <<"2">>), Create(daemon, <<"2">>)>>
           edits(w) == <<Edit(file, MinLogLevels[w]), Edit(daemon, MinLogLevels[w])>>
<1>1. /\ S.words = DOMAIN MinLogLevels /\ S.strict = FALSE /\ S.first = first
      /\ \A w \in S.words : /\ S.steps[w] = edits(w)
                            /\ S.goal[w] = [f \in T |-> MinLogLevels[w]]
  BY DEF MinLogLevel
<1>2. /\ "off" \in S.words /\ MinLogLevels["off"] = <<"2">>
      /\ \A w \in S.words : MinLogLevels[w] # Unset
  BY <1>1 DEF MinLogLevels, Unset, :>, @@
<1> HIDE DEF S
<1>3. \A w \in S.words : DOMAIN S.goal[w] = T /\ \A t \in T : S.goal[w][t] = MinLogLevels[w]
  BY <1>1
<1>4. Own(S) = T
  BY <1>2, <1>3, OwnIs
<1>5. \A t \in T : /\ <<"2">> \in Goals(S, t)
                   /\ \A w \in S.words : MinLogLevels[w] \in Goals(S, t)
  BY <1>2, <1>3 DEF Goals
<1>6. /\ Create(file, <<"2">>) \in CommandsOf(S) /\ Create(daemon, <<"2">>) \in CommandsOf(S)
      /\ \A w \in S.words : /\ Edit(file, MinLogLevels[w]) \in CommandsOf(S)
                            /\ Edit(daemon, MinLogLevels[w]) \in CommandsOf(S)
  BY <1>4, <1>5, CommandIs DEF Create, Edit, Ops
<1>7. first \in Seq(CommandsOf(S)) /\ \A w \in S.words : edits(w) \in Seq(CommandsOf(S))
  BY <1>6
<1>8. \A w : Cmds(S, w) \in Seq(CommandsOf(S))
  <2>1. TAKE w
  <2>2. <<>> \in Seq(CommandsOf(S))
    OBVIOUS
  <2>3. (IF w \in S.words THEN S.steps[w] ELSE <<>>) \in Seq(CommandsOf(S))
    BY <1>1, <1>7, <2>2, Zenon
  <2> HIDE DEF first
  <2>4. QED BY <1>1, <1>7, <2>3 DEF Cmds
<1>9. FirstKeeps(S)
  <2> SUFFICES ASSUME NEW w, w \notin S.words, NEW i \in DOMAIN Cmds(S, w)
               PROVE  /\ Cmds(S, w)[i].op = "create"
                      /\ \A v \in S.words : S.goal[v][Cmds(S, w)[i].target] # Unset
    BY DEF FirstKeeps
  <2>1. Cmds(S, w) = first
    BY <1>1, <1>7 DEF Cmds
  <2>2. first[i].op = "create" /\ first[i].target \in T
    BY <2>1 DEF Create, Command
  <2>3. QED BY <1>2, <1>3, <2>1, <2>2
<1>10. WellMade(S)
  BY <1>1, <1>2, <1>3, <1>4, <1>8 DEF WellMade
<1>11. QED BY <1>1, <1>4, <1>9, <1>10 DEF Sound, S

-----------------------------------------------------------------------------
(* The scripts.                                                            *)

LEMMA RulesGiven ==
  /\ \A p, q : DOMAIN UpTo(p, q) = Usual
  /\ DOMAIN ButQt = Usual /\ DOMAIN KwinRules = Usual
  /\ \A levels : DOMAIN OnlyOne(levels) = levels
  /\ DOMAIN CalendarRules = {"debug", "info", "warning", "error"}
  /\ Usual # {} /\ {"debug", "info", "warning", "error"} # {}
BY DEF UpTo, ButQt, KwinRules, OnlyOne, CalendarRules, Usual

LEMMA OneFile ==
  ASSUME NEW f, NEW levels, DOMAIN levels # {},
         NEW S, S \in Variants(Override(<<f>>, levels))
  PROVE  Sound(S) /\ Leads(S) /\ Own(S) = {f}
<1> DEFINE files == <<f>>
<1>1. DOMAIN files = 1 .. 1 /\ {files[i] : i \in 1 .. 1} = {f}
  OBVIOUS
<1> HIDE DEF files
<1>2. \A i, j \in 1 .. 1 : files[i] = files[j] => i = j
  OBVIOUS
<1>3. S \in Variants(Override(files, levels))
  BY DEF files
<1>4. 1 \in Nat \ {0}
  OBVIOUS
<1>5. Sound(S) /\ Leads(S) /\ Own(S) = {files[i] : i \in 1 .. 1}
  BY <1>1, <1>2, <1>3, <1>4, OverrideSound, Zenon
<1>6. QED BY <1>1, <1>5

LEMMA TwoFiles ==
  ASSUME NEW f, NEW g, f # g, NEW levels, DOMAIN levels # {}
  PROVE  LET S == Override(<<f, g>>, levels) IN Sound(S) /\ Leads(S) /\ Own(S) = {f, g}
<1> DEFINE files == <<f, g>>
           S == Override(files, levels)
<1>1. DOMAIN files = 1 .. 2 /\ files[1] = f /\ files[2] = g
  OBVIOUS
<1> HIDE DEF files
<1>2. \A i, j \in 1 .. 2 : files[i] = files[j] => i = j
  BY <1>1
<1>3. 2 \in Nat \ {0}
  OBVIOUS
<1>4. S \in Variants(Override(files, levels))
  BY Zenon DEF Variants
<1> HIDE DEF S
<1>5. Sound(S) /\ Leads(S) /\ Own(S) = {files[i] : i \in 1 .. 2}
  BY <1>1, <1>2, <1>3, <1>4, OverrideSound, Zenon
<1>6. {files[i] : i \in 1 .. 2} = {f, g}
  BY <1>1
<1>7. QED BY <1>5, <1>6 DEF S, files

(* The two scripts that edit files of others share one of them.  No other  *)
(* script meets another in a file or a key: Owner names the one to which a *)
(* target belongs.                                                         *)
Editing == {"cooperation", "dataTransfer"}
Owner(t) ==
  CASE t[1] = "org.deepin.mail" -> "mail"
    [] t[1] = "org.deepin.terminal" -> "terminal"
    [] t[1] = "deepin-defender" -> "defender"
    [] t[1] = "org.deepin.dde.file-manager" -> "fileManager"
    [] t[1] = "dde-printer" -> "printer"
    [] t[1] = "org.deepin.log.viewer" -> "logViewer"
    [] t[1] = "org.deepin.deepinid" -> "deepinid"
    [] t[1] = "deepin-app-store" -> "appStore"
    [] t[1] = "org.kde.kwin" -> "kwin"
    [] t[1] = "org.deepin.dde.calendar" ->
        (CASE t[2] = "org.deepin.dde.calendar.client" -> "calendarClient"
           [] t[2] = "org.deepin.dde.calendar.plugin" -> "calendarPlugin"
           [] t[2] = "org.deepin.dde.calendar.service" -> "calendarService")
    [] t[1] = "org.deepin.dde.control-center" -> "controlCenter"
    [] t[1] = "org.deepin.dde.dock" -> "dock"
    [] t[1] = "org.deepin.dde.launcher" -> "launcher"
    [] t[1] = "org.deepin.dde.lock" -> "lock"
    [] t[1] = "org.deepin.dde.osd" -> "osd"
    [] t[1] = "org.deepin.devicemanager" -> "deviceManager"
    [] t[1] = "org.deepin.system-monitor" ->
        (CASE t[2] = "org.deepin.system-monitor" -> "monitor"
           [] t[2] = "org.deepin.system-monitor.daemon" -> "monitorDaemon"
           [] t[2] = "org.deepin.system-monitor.plugin" -> "monitorPlugin"
           [] t[2] = "org.deepin.system-monitor.plugin.popup" -> "monitorPopup"
           [] t[2] = "org.deepin.system-monitor.server" -> "monitorServer")
    [] t[1] = "org.deepin.license" ->
        (CASE t[2] = "org.deepin.license.agent" -> "licenseAgent"
           [] t[2] = "org.deepin.license.appgui" -> "licenseAppgui"
           [] t[2] = "org.deepin.license.cmd" -> "licenseCmd"
           [] t[2] = "org.deepin.license.gui" -> "licenseGui")
    [] t[1] = "org.deepin.uos-service-support" ->
        (CASE t[2] = "org.deepin.uos-service-support.agent" -> "supportAgent"
           [] t[2] = "org.deepin.uos-service-support.gui" -> "supportGui")
    [] t[1] = "/etc/systemd/system.conf.d" -> "systemd"
    [] t[1] = "/etc/systemd/user.conf.d" -> "systemd"
    [] t[1] = "/etc/systemd/system/systemd-logind.service.d" -> "logind"
    [] t[1] = "/etc/systemd/system/systemd-udevd.service.d" -> "udev"
    [] t[1] = "/etc/pulse/daemon.conf.d" -> "pulseaudio"
    [] t[1] = "/etc/NetworkManager/conf.d" -> "networkManager"
    [] t[1] = "/etc/pipewire/pipewire-pulse.conf.d" -> "pipewire"
    [] t[1] = "/etc/pipewire/pipewire.conf.d" -> "pipewire"
    [] t[1] = "deepin_wpa_supplicant.conf" -> "wpa"
    [] t[1] = "deepin-bluetoothd.conf" -> "bluetooth"
    [] t[1] = "/etc/profile.d/deepin-system-upgrade-tool.sh" -> "dde"
    [] t[1] = "/etc/X11/Xsession.d/98-deepin-debug-config-dde" -> "dde"
    [] t[1] = "/etc/systemd/coredump.conf" -> "coredump"
    [] OTHER -> "editing"

LEMMA KeysApart ==
  /\ Owner(<<"org.deepin.mail", "org.deepin.mail", "log_rules">>) = "mail"
  /\ Owner(<<"org.deepin.terminal", "org.deepin.terminal", "log_rules">>) = "terminal"
  /\ Owner(<<"deepin-defender", "org.deepin.dde.deepin-defender", "log_rules">>) = "defender"
  /\ Owner(<<"org.deepin.dde.file-manager", "org.deepin.dde.file-manager", "log_rules">>)
       = "fileManager"
  /\ Owner(<<"dde-printer", "org.deepin.dde.printer", "log_rules">>) = "printer"
  /\ Owner(<<"org.deepin.log.viewer", "org.deepin.log.viewer", "log_rules">>) = "logViewer"
  /\ Owner(<<"org.deepin.deepinid", "org.deepin.deepinid", "log_rules">>) = "deepinid"
  /\ Owner(<<"deepin-app-store", "org.deepin.app-store", "log_rules">>) = "appStore"
  /\ Owner(<<"org.kde.kwin", "org.kde.kwin.logging", "log_rules">>) = "kwin"
BY DEF Owner

LEMMA PartsApart ==
  /\ LET calendar(part) == Owner(<<"org.deepin.dde.calendar", part, "log_rules">>)
     IN  /\ calendar("org.deepin.dde.calendar.client") = "calendarClient"
         /\ calendar("org.deepin.dde.calendar.plugin") = "calendarPlugin"
         /\ calendar("org.deepin.dde.calendar.service") = "calendarService"
  /\ LET monitor(part) == Owner(<<"org.deepin.system-monitor", part, "log_rules">>)
     IN  /\ monitor("org.deepin.system-monitor") = "monitor"
         /\ monitor("org.deepin.system-monitor.daemon") = "monitorDaemon"
         /\ monitor("org.deepin.system-monitor.plugin") = "monitorPlugin"
         /\ monitor("org.deepin.system-monitor.plugin.popup") = "monitorPopup"
         /\ monitor("org.deepin.system-monitor.server") = "monitorServer"
  /\ LET license(part) == Owner(<<"org.deepin.license", part, "log_rules">>)
     IN  /\ license("org.deepin.license.agent") = "licenseAgent"
         /\ license("org.deepin.license.appgui") = "licenseAppgui"
         /\ license("org.deepin.license.cmd") = "licenseCmd"
         /\ license("org.deepin.license.gui") = "licenseGui"
  /\ LET support(part) == Owner(<<"org.deepin.uos-service-support", part, "log_rules">>)
     IN  /\ support("org.deepin.uos-service-support.agent") = "supportAgent"
         /\ support("org.deepin.uos-service-support.gui") = "supportGui"
BY DEF Owner

LEMMA DtkApart ==
  LET dtk(app) == Owner(<<app, "org.deepin.dtk.loggingrules", "rules">>)
  IN  /\ dtk("org.deepin.dde.control-center") = "controlCenter"
      /\ dtk("org.deepin.dde.dock") = "dock"
      /\ dtk("org.deepin.dde.launcher") = "launcher"
      /\ dtk("org.deepin.dde.lock") = "lock"
      /\ dtk("org.deepin.dde.osd") = "osd"
      /\ dtk("org.deepin.devicemanager") = "deviceManager"
BY DEF Owner

LEMMA FilesApart ==
  /\ Owner(<<"/etc/systemd/system.conf.d">>) = "systemd"
  /\ Owner(<<"/etc/systemd/user.conf.d">>) = "systemd"
  /\ Owner(<<"/etc/systemd/system/systemd-logind.service.d">>) = "logind"
  /\ Owner(<<"/etc/systemd/system/systemd-udevd.service.d">>) = "udev"
  /\ Owner(<<"/etc/pulse/daemon.conf.d">>) = "pulseaudio"
  /\ Owner(<<"/etc/NetworkManager/conf.d">>) = "networkManager"
  /\ Owner(<<"/etc/pipewire/pipewire-pulse.conf.d">>) = "pipewire"
  /\ Owner(<<"/etc/pipewire/pipewire.conf.d">>) = "pipewire"
  /\ Owner(<<"deepin_wpa_supplicant.conf">>) = "wpa"
  /\ Owner(<<"deepin-bluetoothd.conf">>) = "bluetooth"
  /\ Owner(DdeEnv) = "dde" /\ Owner(DdeOverride) = "dde"
  /\ Owner(CoredumpConf) = "coredump"
  /\ Owner(<<"/etc/dde-cooperation/config/log.conf">>) = "editing"
  /\ Owner(<<"/etc/deepin-data-transfer/config/log.conf">>) = "editing"
  /\ Owner(CooperationDaemon) = "editing"
BY DEF Owner, DdeEnv, DdeOverride, CoredumpConf, CooperationDaemon

LEMMA NamesOfScripts ==
  DOMAIN Script =
    {"mail", "terminal", "defender", "fileManager", "printer", "logViewer", "deepinid", "appStore",
     "kwin", "calendarClient", "calendarPlugin", "calendarService", "controlCenter", "dock",
     "launcher", "lock", "osd", "deviceManager", "monitor", "monitorDaemon", "monitorPlugin",
     "monitorPopup", "monitorServer", "licenseAgent", "licenseAppgui", "licenseCmd", "licenseGui",
     "supportAgent", "supportGui", "systemd", "logind", "udev", "pulseaudio", "networkManager",
     "pipewire", "wpa", "bluetooth", "cooperation", "dataTransfer", "dde", "coredump"}
BY DEF Script

(* Every script is a list of commands that, when they all succeed, brings  *)
(* about what its word is for, whatever was there before; but for the two  *)
(* that edit files they do not write.  It has its targets for itself.      *)
Mine(S, n) == \A t \in Own(S) : Owner(t) = n
Fine(S, n) == Sound(S) /\ Leads(S) /\ Mine(S, n)

LEMMA FineKey ==
  ASSUME NEW app, NEW id, NEW key, NEW rules, DOMAIN rules # {},
         NEW S, S \in Variants(Dconfig(app, id, key, rules))
  PROVE  Fine(S, Owner(<<app, id, key>>))
<1>1. Sound(S) /\ Leads(S) /\ Own(S) = {<<app, id, key>>}
  BY DconfigSound
<1>2. QED BY <1>1, Zenon DEF Fine, Mine

LEMMA ScriptsAreSound ==
  \A s \in DOMAIN Script :
    Fine(Script[s], s) \/ (s \in Editing /\ Sound(Script[s]) /\ Mine(Script[s], "editing"))
<1>1. /\ Fine(DeepinMail, "mail") /\ Fine(DeepinTerminal, "terminal")
      /\ Fine(DeepinDefender, "defender") /\ Fine(DdeFileManager, "fileManager")
      /\ Fine(DdePrinter, "printer") /\ Fine(DeepinLogViewer, "logViewer")
      /\ Fine(Deepinid, "deepinid") /\ Fine(DeepinAppStore, "appStore") /\ Fine(Kwin, "kwin")
  <2>1. ASSUME NEW app, NEW id, NEW key, NEW rules, DOMAIN rules # {}
        PROVE  LET S == Dconfig(app, id, key, rules) IN
               Fine(S, Owner(<<app, id, key>>)) /\ Fine(WithAwk(S), Owner(<<app, id, key>>))
    <3> DEFINE S == Dconfig(app, id, key, rules)
               A == WithAwk(S)
    <3>1. /\ S \in Variants(Dconfig(app, id, key, rules))
          /\ A \in Variants(Dconfig(app, id, key, rules))
      BY Zenon DEF Variants
    <3> HIDE DEF S, A
    <3>2. Fine(S, Owner(<<app, id, key>>)) /\ Fine(A, Owner(<<app, id, key>>))
      BY <2>1, <3>1, FineKey, Zenon
    <3>3. QED BY <3>2 DEF S, A
  <2>2. (\A p, q : DOMAIN UpTo(p, q) # {}) /\ DOMAIN KwinRules # {}
    BY RulesGiven
  <2>3. QED
    BY <2>1, <2>2, KeysApart, Zenon DEF DeepinMail, DeepinTerminal, DeepinDefender, DdeFileManager,
       DdePrinter, DeepinLogViewer, Deepinid, DeepinAppStore, Kwin
<1>2. /\ Fine(CalendarClient, "calendarClient") /\ Fine(CalendarPlugin, "calendarPlugin")
      /\ Fine(CalendarService, "calendarService")
  <2>1. \A part : Fine(Calendar(part), Owner(<<"org.deepin.dde.calendar", part, "log_rules">>))
    BY RulesGiven, FineKey DEF Variants, Calendar
  <2>2. QED BY <2>1, PartsApart, Zenon DEF CalendarClient, CalendarPlugin, CalendarService
<1>3. /\ Fine(DdeControlCenter, "controlCenter") /\ Fine(DdeDock, "dock")
      /\ Fine(DdeLauncher, "launcher") /\ Fine(DdeLock, "lock") /\ Fine(DdeOsd, "osd")
      /\ Fine(DeepinDeviceManager, "deviceManager")
  <2> DEFINE dtk(app) == Owner(<<app, "org.deepin.dtk.loggingrules", "rules">>)
  <2>1. \A app : Fine(DtkRules(app, ButQt), dtk(app))
    BY RulesGiven, FineKey DEF Variants, DtkRules
  <2>2. \A app : Fine(WithoutState(DtkRules(app, OnlyOne(Usual))), dtk(app))
    BY RulesGiven, FineKey DEF Variants, DtkRules
  <2>3. QED
    BY <2>1, <2>2, DtkApart, Zenon DEF DdeControlCenter, DdeDock, DdeLauncher, DdeLock, DdeOsd,
       DeepinDeviceManager
<1>4. /\ Fine(SystemMonitor, "monitor") /\ Fine(SystemMonitorDaemon, "monitorDaemon")
      /\ Fine(SystemMonitorPlugin, "monitorPlugin") /\ Fine(SystemMonitorPopup, "monitorPopup")
      /\ Fine(SystemMonitorServer, "monitorServer")
  <2>1. \A part : Fine(Monitor(part), Owner(<<"org.deepin.system-monitor", part, "log_rules">>))
    BY RulesGiven, FineKey DEF Variants, Monitor
  <2>2. QED
    BY <2>1, PartsApart, Zenon DEF SystemMonitor, SystemMonitorDaemon, SystemMonitorPlugin,
       SystemMonitorPopup, SystemMonitorServer
<1>5. /\ Fine(LicenseAgent, "licenseAgent") /\ Fine(LicenseAppgui, "licenseAppgui")
      /\ Fine(LicenseCmd, "licenseCmd") /\ Fine(LicenseGui, "licenseGui")
  <2>1. \A part, p : Fine(License(part, p), Owner(<<"org.deepin.license", part, "log_rules">>))
    BY RulesGiven, FineKey DEF Variants, License
  <2>2. QED BY <2>1, PartsApart, Zenon DEF LicenseAgent, LicenseAppgui, LicenseCmd, LicenseGui
<1>6. Fine(SupportAgent, "supportAgent") /\ Fine(SupportGui, "supportGui")
  <2>1. \A part, p :
          Fine(Support(part, p), Owner(<<"org.deepin.uos-service-support", part, "log_rules">>))
    BY RulesGiven, FineKey DEF Variants, Support
  <2>2. QED BY <2>1, PartsApart, Zenon DEF SupportAgent, SupportGui
<1>7. /\ Fine(Systemd, "systemd") /\ Fine(Logind, "logind") /\ Fine(Udev, "udev")
      /\ Fine(Pulseaudio, "pulseaudio")
  <2>1. DOMAIN SyslogLevels # {}
    <3>1. "on" \in DOMAIN SyslogLevels
      BY DEF SyslogLevels, :>, @@
    <3>2. QED BY <3>1
  <2>2. <<"/etc/systemd/system.conf.d">> # <<"/etc/systemd/user.conf.d">>
    OBVIOUS
  <2>3. /\ Sound(Systemd) /\ Leads(Systemd)
        /\ Own(Systemd) = {<<"/etc/systemd/system.conf.d">>, <<"/etc/systemd/user.conf.d">>}
    BY <2>1, <2>2, TwoFiles DEF Systemd
  <2>4. Fine(Systemd, "systemd")
    BY <2>3, FilesApart DEF Fine, Mine
  <2>5. \A f : Fine(Override(<<f>>, SyslogLevels), Owner(f))
    BY <2>1, OneFile DEF Variants, Fine, Mine
  <2>6. QED BY <2>4, <2>5, FilesApart, Zenon DEF Logind, Udev, Pulseaudio
<1>8. Fine(NetworkManager, "networkManager")
  <2> DEFINE levels == [w \in {"on", "debug"} |-> <<"TRACE">>] @@ ("warning" :> <<"WARN">>)
                         @@ ("off" :> Unset)
                         @@ [w \in {"TRACE", "DEBUG", "INFO", "WARN", "ERR", "OFF"} |-> <<w>>]
  <2>1. "on" \in DOMAIN levels
    BY DEF :>, @@
  <2> HIDE DEF levels
  <2>2. \A f : Fine(WithoutSetE(Override(<<f>>, levels)), Owner(f))
    BY <2>1, OneFile DEF Variants, Fine, Mine
  <2>3. QED BY <2>2, FilesApart, Zenon DEF NetworkManager, levels
<1>9. Fine(Pipewire, "pipewire")
  <2> DEFINE levels == [w \in {"on", "debug"} |-> <<"4">>] @@ ("err" :> <<"1">>)
                         @@ ("warning" :> <<"2">>) @@ ("info" :> <<"3">>) @@ ("trace" :> <<"5">>)
                         @@ ("off" :> Unset)
             f == <<"/etc/pipewire/pipewire-pulse.conf.d">>
             g == <<"/etc/pipewire/pipewire.conf.d">>
  <2>1. "on" \in DOMAIN levels /\ f # g
    BY DEF :>, @@
  <2>2. Pipewire = Override(<<f, g>>, levels)
    BY Zenon DEF Pipewire
  <2>3. Owner(f) = "pipewire" /\ Owner(g) = "pipewire"
    BY FilesApart
  <2> HIDE DEF levels, f, g
  <2>4. Sound(Pipewire) /\ Leads(Pipewire) /\ Own(Pipewire) = {f, g}
    BY <2>1, <2>2, TwoFiles
  <2>5. QED BY <2>3, <2>4 DEF Fine, Mine
<1>10. Fine(Wpa, "wpa") /\ Fine(Bluetooth, "bluetooth")
  <2>1. \A f : Fine(Switch(f), Owner(f))
    BY SwitchGood DEF Fine, Mine
  <2>2. QED BY <2>1, FilesApart, Zenon DEF Wpa, Bluetooth
<1>11. /\ Sound(DdeCooperation) /\ Mine(DdeCooperation, "editing")
       /\ Sound(DataTransfer) /\ Mine(DataTransfer, "editing")
  BY MinLogLevelGood, FilesApart DEF DdeCooperation, DataTransfer, Mine
<1>12. Fine(Dde, "dde") /\ Fine(SettingCoredump, "coredump")
  BY DdeGood, CoredumpGood, FilesApart DEF Fine, Mine
<1>13. /\ Fine(Script["mail"], "mail") /\ Fine(Script["terminal"], "terminal")
       /\ Fine(Script["defender"], "defender") /\ Fine(Script["fileManager"], "fileManager")
       /\ Fine(Script["printer"], "printer") /\ Fine(Script["logViewer"], "logViewer")
       /\ Fine(Script["deepinid"], "deepinid") /\ Fine(Script["appStore"], "appStore")
       /\ Fine(Script["kwin"], "kwin") /\ Fine(Script["calendarClient"], "calendarClient")
       /\ Fine(Script["calendarPlugin"], "calendarPlugin")
       /\ Fine(Script["calendarService"], "calendarService")
  BY <1>1, <1>2 DEF Script
<1>14. /\ Fine(Script["controlCenter"], "controlCenter") /\ Fine(Script["dock"], "dock")
       /\ Fine(Script["launcher"], "launcher") /\ Fine(Script["lock"], "lock")
       /\ Fine(Script["osd"], "osd") /\ Fine(Script["deviceManager"], "deviceManager")
       /\ Fine(Script["monitor"], "monitor") /\ Fine(Script["monitorDaemon"], "monitorDaemon")
       /\ Fine(Script["monitorPlugin"], "monitorPlugin")
       /\ Fine(Script["monitorPopup"], "monitorPopup")
       /\ Fine(Script["monitorServer"], "monitorServer")
  BY <1>3, <1>4 DEF Script
<1>15. /\ Fine(Script["licenseAgent"], "licenseAgent")
       /\ Fine(Script["licenseAppgui"], "licenseAppgui")
       /\ Fine(Script["licenseCmd"], "licenseCmd") /\ Fine(Script["licenseGui"], "licenseGui")
       /\ Fine(Script["supportAgent"], "supportAgent") /\ Fine(Script["supportGui"], "supportGui")
       /\ Fine(Script["systemd"], "systemd") /\ Fine(Script["logind"], "logind")
       /\ Fine(Script["udev"], "udev") /\ Fine(Script["pulseaudio"], "pulseaudio")
  BY <1>5, <1>6, <1>7 DEF Script
<1>16. /\ Fine(Script["networkManager"], "networkManager") /\ Fine(Script["pipewire"], "pipewire")
       /\ Fine(Script["wpa"], "wpa") /\ Fine(Script["bluetooth"], "bluetooth")
       /\ Fine(Script["dde"], "dde") /\ Fine(Script["coredump"], "coredump")
       /\ Sound(Script["cooperation"]) /\ Mine(Script["cooperation"], "editing")
       /\ Sound(Script["dataTransfer"]) /\ Mine(Script["dataTransfer"], "editing")
  BY <1>8, <1>9, <1>10, <1>11, <1>12 DEF Script
<1>17. QED BY <1>13, <1>14, <1>15, <1>16, NamesOfScripts, Zenon DEF Editing

-----------------------------------------------------------------------------
(* The scripts that are run: what is used of them below.                   *)

LEMMA GivenScripts ==
  ASSUME NEW s \in Scripts
  PROVE  /\ WellMade(Script[s]) /\ FirstKeeps(Script[s])
         /\ Script[s].strict => s \notin Editing /\ Leads(Script[s])
         /\ s \notin Editing => Leads(Script[s])
<1>1. s \in DOMAIN Script
  BY ScriptsAreKnown
<1>2. Sound(Script[s]) /\ (s \notin Editing => Leads(Script[s]))
  BY <1>1, ScriptsAreSound DEF Fine
<1>3. Script[s].strict => s \notin Editing
  <2>1. /\ Script["cooperation"] = DdeCooperation /\ Script["dataTransfer"] = DataTransfer
        /\ DdeCooperation.strict = FALSE /\ DataTransfer.strict = FALSE
    BY DEF Script, DdeCooperation, DataTransfer, MinLogLevel
  <2>2. QED BY <2>1, Zenon DEF Editing
<1>4. QED BY <1>2, <1>3 DEF Sound

(* No other script has a target of one that does not edit.                 *)
LEMMA NoneMeet ==
  ASSUME NEW s \in Scripts, s \notin Editing, NEW r \in Scripts,
         NEW t, t \in Own(Script[s]), t \in Own(Script[r])
  PROVE  r = s
<1>1. s \in DOMAIN Script /\ r \in DOMAIN Script
  BY ScriptsAreKnown
<1>2. Owner(t) = s
  BY <1>1, ScriptsAreSound DEF Fine, Mine
<1>3. Owner(t) = r \/ Owner(t) = "editing"
  BY <1>1, ScriptsAreSound DEF Fine, Mine
<1>4. s # "editing"
  BY <1>1, NamesOfScripts
<1>5. QED BY <1>2, <1>3, <1>4

LEMMA TargetsAre ==
  /\ \A s \in Scripts : TargetsOf[s] = Own(Script[s])
  /\ \A t : t \in Targets <=> \E s \in Scripts : t \in Own(Script[s])
  /\ \A t : Writers(t) = {s \in Scripts : t \in Own(Script[s])}
<1>1. \A s \in Scripts : TargetsOf[s] = Own(Script[s])
  BY Zenon DEF TargetsOf, Own
<1>2. \A t : t \in Targets <=> \E s \in Scripts : t \in Own(Script[s])
  BY <1>1 DEF Targets
<1>3. QED BY <1>1, <1>2 DEF Writers

-----------------------------------------------------------------------------
(* A command of a run: what it changes, when it succeeds and when it       *)
(* fails.                                                                  *)

LEMMA DoneIs ==
  ASSUME NEW c, c.op \in Ops, NEW f
  PROVE  /\ DOMAIN Done(c, f) = DOMAIN f
         /\ \A t \in DOMAIN f :
              Done(c, f)[t] = IF t = c.target THEN Effect(c, f[t]) ELSE f[t]
<1>1. CASE c.op \in {"set", "remove", "append"}
  BY <1>1 DEF Done, Effect
<1>2. CASE c.op = "create"
  BY <1>2 DEF Done, Effect
<1>3. CASE c.op = "install"
  BY <1>3 DEF Done, Effect
<1>4. CASE c.op = "clear"
  BY <1>4 DEF Done, Effect
<1>5. CASE c.op = "delete"
  BY <1>5 DEF Done, Effect
<1>6. CASE c.op = "edit"
  BY <1>6 DEF Done, Effect
<1>7. QED BY <1>1, <1>2, <1>3, <1>4, <1>5, <1>6 DEF Ops

LEMMA EffectIs ==
  ASSUME NEW c, c.op \in Ops, NEW x
  PROVE  /\ Effect(c, x) \in {x, c.value, Unset}
         /\ c.op = "create" /\ x # Unset => Effect(c, x) = x
BY DEF Effect, Ops

(* The file that a command that fails was writing.                         *)
Breaks(c, f, t) ==
  t = c.target /\ IsFile(t) /\ (c.op = "set" \/ (c.op = "create" /\ f[t] = Unset))

LEMMA UndoneIs ==
  ASSUME NEW c, NEW f, NEW g, g \in Undone(c, f)
  PROVE  /\ DOMAIN g = DOMAIN f
         /\ \A t \in DOMAIN f : g[t] = f[t] \/ (Breaks(c, f, t) /\ g[t] = Torn)
<1>1. CASE g = f
  BY <1>1
<1>2. CASE g # f
  <2>1. /\ IsFile(c.target) /\ (c.op = "set" \/ (c.op = "create" /\ f[c.target] = Unset))
        /\ g = [f EXCEPT ![c.target] = Torn]
    BY <1>2, Zenon DEF Undone
  <2>2. QED BY <2>1 DEF Breaks
<1>3. QED BY <1>1, <1>2

-----------------------------------------------------------------------------
(* The values the variables take.                                          *)

Held(t) ==
  {Unset} \cup (IF IsFile(t) THEN {Torn} ELSE {})
    \cup UNION {{Script[s].goal[w][t] : w \in Script[s].words} : s \in Writers(t)}

Running ==
  /\ run.script \in Scripts /\ run.word \in Words /\ run.failed \in BOOLEAN
  /\ run.at \in 1 .. Len(Cmds(Script[run.script], run.word)) + 1
  /\ run = [script |-> run.script, word |-> run.word, at |-> run.at, failed |-> run.failed]

Typed ==
  /\ DOMAIN conf = Targets /\ \A t \in Targets : conf[t] \in Held(t)
  /\ run = Idle \/ Running
  /\ DOMAIN told = Scripts
  /\ \A s \in Scripts : told[s] \in (Words \cap Script[s].words) \cup {Unknown}
  /\ clean \in [Scripts -> BOOLEAN]
  /\ runs \in 0 .. MaxRuns /\ faults \in 0 .. MaxFaults

LEMMA HeldIs ==
  ASSUME NEW s \in Scripts, NEW t \in Own(Script[s])
  PROVE  t \in Targets /\ Goals(Script[s], t) \cup {Unset} \subseteq Held(t)
<1>1. t \in Targets /\ s \in Writers(t)
  BY TargetsAre
<1>2. Goals(Script[s], t) \in {{Script[r].goal[w][t] : w \in Script[r].words} : r \in Writers(t)}
  BY <1>1, Zenon DEF Goals
<1>3. QED BY <1>1, <1>2 DEF Held

(* The command that is next.                                               *)
LEMMA NextIs ==
  ASSUME Typed, Left
  PROVE  /\ Running
         /\ LET S == Script[run.script] IN
            /\ run.at \in DOMAIN Cmds(S, run.word)
            /\ Len(Cmds(S, run.word)) \in Nat
            /\ NextCommand = Cmds(S, run.word)[run.at]
            /\ NextCommand.op \in Ops
            /\ NextCommand.target \in Own(S)
            /\ NextCommand.value \in Goals(S, NextCommand.target) \cup {Unset}
<1> DEFINE S == Script[run.script]
<1>1. Running
  BY DEF Typed, Left
<1>2. Commands(run.script, run.word) = Cmds(S, run.word)
  BY DEF Commands, Cmds
<1>3. Cmds(S, run.word) \in Seq(CommandsOf(S))
  BY <1>1, GivenScripts DEF Running, WellMade
<1> HIDE DEF S
<1>4. /\ run.at \in DOMAIN Cmds(S, run.word) /\ Len(Cmds(S, run.word)) \in Nat
  BY <1>1, <1>2, <1>3 DEF Running, Left, S
<1>5. NextCommand = Cmds(S, run.word)[run.at] /\ NextCommand \in CommandsOf(S)
  BY <1>2, <1>3, <1>4 DEF NextCommand
<1>6. PICK t \in Own(S) :
        NextCommand \in [op : Ops, target : {t}, value : Goals(S, t) \cup {Unset}]
  BY <1>5, Zenon DEF CommandsOf
<1>7. /\ NextCommand.op \in Ops /\ NextCommand.target = t
      /\ NextCommand.value \in Goals(S, t) \cup {Unset}
  BY <1>6
<1>8. QED BY <1>1, <1>4, <1>5, <1>7 DEF S

(* What a step does to the targets: nothing, or what the next command does *)
(* when it succeeds or fails.                                              *)
StepOf(t) ==
  /\ t # NextCommand.target => conf'[t] = conf[t]
  /\ t = NextCommand.target =>
       \/ conf'[t] = Effect(NextCommand, conf[t]) \/ conf'[t] = conf[t]
       \/ Breaks(NextCommand, conf, t) /\ conf'[t] = Torn

LEMMA SucceedIs ==
  ASSUME Typed, Succeed
  PROVE  /\ DOMAIN conf' = Targets
         /\ \A t \in Targets : StepOf(t)
         /\ conf'[NextCommand.target] = Effect(NextCommand, conf[NextCommand.target])
<1>1. Left /\ conf' = Done(NextCommand, conf)
  BY Zenon DEF Succeed
<1>2. NextCommand.op \in Ops
  BY <1>1, NextIs
<1>3. NextCommand.target \in Targets
  BY <1>1, NextIs, HeldIs DEF Running
<1>4. DOMAIN conf = Targets
  BY DEF Typed
<1> DEFINE c == NextCommand
<1> HIDE DEF c
<1>5. /\ DOMAIN conf' = DOMAIN conf
      /\ \A t \in DOMAIN conf : conf'[t] = IF t = c.target THEN Effect(c, conf[t]) ELSE conf[t]
  BY <1>1, <1>2, DoneIs DEF c
<1>6. QED BY <1>3, <1>4, <1>5 DEF StepOf, c

LEMMA FailIs ==
  ASSUME Typed, Fail
  PROVE  DOMAIN conf' = Targets /\ \A t \in Targets : StepOf(t)
<1>1. Left /\ conf' \in Undone(NextCommand, conf)
  BY Zenon DEF Fail
<1>2. DOMAIN conf = Targets
  BY DEF Typed
<1>3. /\ DOMAIN conf' = DOMAIN conf
      /\ \A t \in DOMAIN conf :
           conf'[t] = conf[t] \/ (Breaks(NextCommand, conf, t) /\ conf'[t] = Torn)
  BY <1>1, UndoneIs
<1>4. QED BY <1>2, <1>3 DEF StepOf, Breaks

LEMMA ConfTyped ==
  ASSUME Typed, Left, DOMAIN conf' = Targets, \A t \in Targets : StepOf(t)
  PROVE  \A t \in Targets : conf'[t] \in Held(t)
<1> SUFFICES ASSUME NEW t \in Targets PROVE conf'[t] \in Held(t)
  OBVIOUS
<1>1. conf[t] \in Held(t) /\ StepOf(t)
  BY DEF Typed
<1>2. CASE conf'[t] = conf[t]
  BY <1>1, <1>2
<1>3. CASE t = NextCommand.target /\ conf'[t] = Effect(NextCommand, conf[t])
  <2>1. NextCommand.op \in Ops /\ NextCommand.value \in Held(t) /\ Unset \in Held(t)
    BY <1>3, NextIs, HeldIs DEF Running
  <2>2. Effect(NextCommand, conf[t]) \in {conf[t], NextCommand.value, Unset}
    BY <2>1, EffectIs
  <2>3. QED BY <1>1, <1>3, <2>1, <2>2
<1>4. CASE Breaks(NextCommand, conf, t) /\ conf'[t] = Torn
  BY <1>4 DEF Breaks, Held
<1>5. QED BY <1>1, <1>2, <1>3, <1>4 DEF StepOf

(* The end of a run without a result, and the next command of a run.       *)
LEMMA AbortTyped ==
  ASSUME Typed, Running, Abort
  PROVE  /\ run' = Idle /\ DOMAIN told' = Scripts
         /\ \A s \in Scripts : told'[s] \in (Words \cap Script[s].words) \cup {Unknown}
         /\ clean' \in [Scripts -> BOOLEAN]
BY DEF Typed, Running, Abort

LEMMA OnTyped ==
  ASSUME Typed, Left, NEW b \in BOOLEAN, run' = [run EXCEPT !.at = @ + 1, !.failed = b]
  PROVE  /\ Running' /\ run'.script = run.script /\ run'.word = run.word
         /\ run'.at = run.at + 1 /\ run'.failed = b
<1>1. Running /\ run.at \in DOMAIN Cmds(Script[run.script], run.word)
  BY NextIs
<1>2. run' = [script |-> run.script, word |-> run.word, at |-> run.at + 1, failed |-> b]
  BY <1>1 DEF Running
<1>3. /\ run'.script = run.script /\ run'.word = run.word
      /\ run'.at = run.at + 1 /\ run'.failed = b
  BY <1>2
<1>4. run.at + 1 \in 1 .. Len(Cmds(Script[run.script], run.word)) + 1
  <2>1. Cmds(Script[run.script], run.word) \in Seq(CommandsOf(Script[run.script]))
    BY <1>1, GivenScripts DEF Running, WellMade
  <2>2. QED BY <1>1, <2>1
<1>5. QED BY <1>1, <1>2, <1>3, <1>4 DEF Running

LEMMA InitTyped == Init => Typed
<1> SUFFICES ASSUME Init PROVE Typed
  OBVIOUS
<1>1. \A t \in Targets : conf[t] \in Held(t)
  BY DEF Init, Held
<1>2. DOMAIN conf = Targets /\ run = Idle /\ DOMAIN told = Scripts
  BY DEF Init
<1>3. \A s \in Scripts : told[s] = Unknown
  BY DEF Init
<1>4. clean \in [Scripts -> BOOLEAN]
  BY DEF Init
<1>5. runs \in 0 .. MaxRuns /\ faults \in 0 .. MaxFaults
  BY BoundsGiven DEF Init
<1>6. QED BY <1>1, <1>2, <1>3, <1>4, <1>5 DEF Typed

LEMMA StartTyped ==
  ASSUME Typed, NEW s \in Scripts, NEW w \in Words, Start(s, w)
  PROVE  Typed'
<1>1. run' = [script |-> s, word |-> w, at |-> 1, failed |-> FALSE]
  BY DEF Start
<1>2. 1 \in 1 .. Len(Cmds(Script[s], w)) + 1
  <2>1. Cmds(Script[s], w) \in Seq(CommandsOf(Script[s]))
    BY GivenScripts DEF WellMade
  <2>2. QED BY <2>1
<1>3. Running'
  BY <1>1, <1>2 DEF Running
<1>4. runs' \in 0 .. MaxRuns
  BY BoundsGiven DEF Typed, Start
<1>5. conf' = conf /\ told' = told /\ clean' = clean /\ faults' = faults
  BY DEF Start
<1>6. QED BY <1>3, <1>4, <1>5 DEF Typed

LEMMA SucceedTyped ==
  ASSUME Typed, Succeed
  PROVE  Typed'
<1>1. Left /\ run' = [run EXCEPT !.at = @ + 1]
  BY Zenon DEF Succeed
<1>2. run.failed \in BOOLEAN /\ run' = [run EXCEPT !.at = @ + 1, !.failed = run.failed]
  <2>1. Running
    BY <1>1, NextIs
  <2>2. QED BY <1>1, <2>1 DEF Running
<1>3. Running'
  BY <1>1, <1>2, OnTyped
<1>4. DOMAIN conf' = Targets /\ \A t \in Targets : conf'[t] \in Held(t)
  BY <1>1, SucceedIs, ConfTyped
<1>5. told' = told /\ clean' = clean /\ runs' = runs /\ faults' = faults
  BY DEF Succeed
<1>6. QED BY <1>3, <1>4, <1>5 DEF Typed

LEMMA FaultBounded ==
  ASSUME Typed, faults < MaxFaults, faults' = faults + 1
  PROVE  faults' \in 0 .. MaxFaults
BY BoundsGiven DEF Typed

LEMMA FailTyped ==
  ASSUME Typed, Fail
  PROVE  Typed'
<1>1. Left /\ Running
  BY NextIs DEF Fail
<1>2. DOMAIN conf' = Targets /\ \A t \in Targets : conf'[t] \in Held(t)
  BY <1>1, FailIs, ConfTyped
<1>3. runs' = runs /\ faults' \in 0 .. MaxFaults
  BY FaultBounded DEF Fail
<1>4. CASE Script[run.script].strict
  <2>1. Abort
    BY <1>4, Zenon DEF Fail
  <2>2. QED BY <1>1, <1>2, <1>3, <2>1, AbortTyped DEF Typed
<1>5. CASE ~ Script[run.script].strict
  <2>1. run' = [run EXCEPT !.at = @ + 1, !.failed = TRUE] /\ told' = told /\ clean' = clean
    BY <1>5, Zenon DEF Fail
  <2>2. Running'
    BY <1>1, <2>1, OnTyped
  <2>3. QED BY <1>2, <1>3, <2>1, <2>2 DEF Typed
<1>6. QED BY <1>4, <1>5

LEMMA KillTyped ==
  ASSUME Typed, Kill
  PROVE  Typed'
<1>1. Running /\ Abort /\ conf' = conf /\ runs' = runs
  BY Zenon DEF Typed, Kill
<1>2. faults' \in 0 .. MaxFaults
  BY FaultBounded DEF Kill
<1>3. QED BY <1>1, <1>2, AbortTyped DEF Typed

LEMMA ExitTyped ==
  ASSUME Typed, Exit
  PROVE  Typed'
<1>1. Running /\ run' = Idle /\ conf' = conf /\ runs' = runs /\ faults' = faults
  BY Zenon DEF Typed, Exit
<1>2. CASE run.word \in Script[run.script].words
  <2>1. /\ told' = [told EXCEPT ![run.script] = run.word]
        /\ clean' = [clean EXCEPT ![run.script] = ~ run.failed]
    BY <1>2, Zenon DEF Exit
  <2>2. clean' \in [Scripts -> BOOLEAN]
    BY <2>1 DEF Typed
  <2>3. DOMAIN told' = Scripts
    BY <2>1 DEF Typed
  <2>4. \A s \in Scripts : told'[s] \in (Words \cap Script[s].words) \cup {Unknown}
    BY <1>1, <1>2, <2>1 DEF Typed, Running
  <2>5. QED BY <1>1, <2>2, <2>3, <2>4 DEF Typed
<1>3. CASE run.word \notin Script[run.script].words
  <2>1. told' = told /\ clean' = clean
    BY <1>3, Zenon DEF Exit
  <2>2. QED BY <1>1, <2>1 DEF Typed
<1>4. QED BY <1>2, <1>3

LEMMA NextTyped == Typed /\ [Next]_vars => Typed'
<1> SUFFICES ASSUME Typed, [Next]_vars PROVE Typed'
  OBVIOUS
<1>1. CASE \E s \in Scripts, w \in Words : Start(s, w)
  BY <1>1, StartTyped
<1>2. CASE Succeed
  BY <1>2, SucceedTyped
<1>3. CASE Fail
  BY <1>3, FailTyped
<1>4. CASE Kill
  BY <1>4, KillTyped
<1>5. CASE Exit
  BY <1>5, ExitTyped
<1>6. CASE UNCHANGED vars
  BY <1>6 DEF vars, Typed, Running
<1>7. QED BY <1>1, <1>2, <1>3, <1>4, <1>5, <1>6 DEF Next

(* Whatever scripts are run with whatever words, and whatever fails: a     *)
(* file or a key has a value that one of its scripts is to give it, or     *)
(* none, or is a file that was left half written.                          *)
THEOREM TypeCorrect == Spec => []TypeOK
<1>1. Typed => TypeOK
  BY DEF Typed, TypeOK, Running, Held
<1>2. QED BY InitTyped, NextTyped, <1>1, PTL DEF Spec

-----------------------------------------------------------------------------
(* What is in force.  Of the scripts that do not edit:                     *)
Apart == Scripts \ Editing

(* their targets have values that their commands can make;                 *)
Values == \A s \in Apart : \A t \in Own(Script[s]) : conf[t] \in Possible(Script[s], t)

(* when one runs with a word it knows and no command has failed, each      *)
(* command behind which the value is decided has brought it about, unless  *)
(* its target was written again since;                                     *)
Progress ==
  Running /\ run.script \in Apart /\ ~ run.failed /\ run.word \in Script[run.script].words =>
    LET S == Script[run.script]
        C == Cmds(S, run.word)
    IN  \A p \in 1 .. run.at - 1 :
          Decides(S, run.word, p) /\ (\A q \in p + 1 .. run.at - 1 : C[q].target # C[p].target) =>
            conf[C[p].target] = S.goal[run.word][C[p].target]

(* one with "set -e" does not go on after a command that failed;           *)
Stops == Running /\ Script[run.script].strict => ~ run.failed

(* what was done stays, but while the script itself runs again.            *)
Counts(s) == (Script[s].strict /\ told[s] # Unknown) \/ clean[s]
Rests(s) == run = Idle \/ run.script # s \/ run.word \notin Script[s].words
Kept == \A s \in Apart : Rests(s) /\ Counts(s) => Written(s)
Known == \A s \in Scripts : Counts(s) => told[s] \in Script[s].words

ForceInv == Typed /\ Values /\ Progress /\ Stops /\ Kept /\ Known

LEMMA InitForce == Init => ForceInv
<1> SUFFICES ASSUME Init PROVE ForceInv
  OBVIOUS
<1>1. Typed
  BY InitTyped
<1>2. Values
  BY TargetsAre DEF Init, Values, Possible, Apart
<1>3. ~ Running
  BY DEF Init, Idle, Running
<1>4. \A s \in Scripts : ~ Counts(s)
  BY DEF Init, Counts
<1>5. QED BY <1>1, <1>2, <1>3, <1>4, Zenon DEF ForceInv, Progress, Stops, Kept, Known, Apart

(* Only the script that runs writes its targets.                           *)
LEMMA OthersKept ==
  ASSUME Typed, Left, \A t \in Targets : StepOf(t),
         NEW s \in Apart, s # run.script, NEW t \in Own(Script[s])
  PROVE  conf'[t] = conf[t]
<1>1. t \in Targets
  BY TargetsAre DEF Apart
<1>2. NextCommand.target \in Own(Script[run.script]) /\ run.script \in Scripts
  BY NextIs DEF Running
<1>3. t # NextCommand.target
  BY <1>2, NoneMeet DEF Apart
<1>4. QED BY <1>1, <1>3 DEF StepOf

LEMMA StepValues ==
  ASSUME Typed, Left, Values, \A t \in Targets : StepOf(t)
  PROVE  Values'
<1> SUFFICES ASSUME NEW s \in Apart, NEW t \in Own(Script[s])
             PROVE  conf'[t] \in Possible(Script[s], t)
  BY DEF Values
<1>1. conf[t] \in Possible(Script[s], t)
  BY DEF Values
<1>2. CASE conf'[t] = conf[t]
  BY <1>1, <1>2
<1>3. CASE conf'[t] # conf[t]
  <2> DEFINE S == Script[s]
             c == NextCommand
  <2>1. s = run.script
    BY <1>3, OthersKept
  <2>2. t = c.target /\ (conf'[t] = Effect(c, conf[t]) \/ (Breaks(c, conf, t) /\ conf'[t] = Torn))
    BY <1>3, TargetsAre DEF StepOf, Apart
  <2>3. /\ run.at \in DOMAIN Cmds(S, run.word) /\ c = Cmds(S, run.word)[run.at]
        /\ c.op \in Ops /\ c.value \in Goals(S, t) \cup {Unset}
    BY <2>1, <2>2, NextIs
  <2> HIDE DEF S, c
  <2>4. CASE conf'[t] = Effect(c, conf[t])
    <3>1. Effect(c, conf[t]) \in {conf[t], c.value, Unset}
      BY <2>3, EffectIs
    <3>2. QED BY <1>1, <2>3, <2>4, <3>1 DEF Possible, S
  <2>5. CASE Breaks(c, conf, t) /\ conf'[t] = Torn
    <3>1. IsFile(t) /\ c.op \in {"set", "create"}
      BY <2>5 DEF Breaks
    <3>2. Tears(S, t)
      BY <2>2, <2>3, <3>1, Zenon DEF Tears
    <3>3. QED BY <2>5, <3>2 DEF Possible, S
  <2>6. QED BY <2>2, <2>4, <2>5
<1>4. QED BY <1>2, <1>3

(* A script that is given a word it does not know changes nothing.         *)
LEMMA UnknownKeeps ==
  ASSUME Typed, Left, \A t \in Targets : StepOf(t),
         run.word \notin Script[run.script].words,
         NEW v \in Script[run.script].words,
         NEW t \in Own(Script[run.script]), conf[t] = Script[run.script].goal[v][t]
  PROVE  conf'[t] = conf[t]
<1> DEFINE S == Script[run.script]
           c == NextCommand
<1>1. /\ run.script \in Scripts /\ run.at \in DOMAIN Cmds(S, run.word)
      /\ c = Cmds(S, run.word)[run.at] /\ c.op \in Ops
  BY NextIs DEF Running
<1>2. FirstKeeps(S) /\ t \in Targets
  BY <1>1, GivenScripts, TargetsAre
<1> HIDE DEF S, c
<1>3. c.op = "create" /\ S.goal[v][c.target] # Unset
  BY <1>1, <1>2 DEF FirstKeeps, S
<1>4. CASE t = c.target
  <2>1. conf[t] # Unset
    BY <1>3, <1>4 DEF S
  <2>2. Effect(c, conf[t]) = conf[t]
    BY <1>1, <1>3, <2>1, EffectIs
  <2>3. ~ Breaks(c, conf, t)
    BY <1>3, <2>1 DEF Breaks
  <2>4. QED BY <1>2, <1>4, <2>2, <2>3 DEF StepOf, c
<1>5. CASE t # c.target
  BY <1>2, <1>5 DEF StepOf, c
<1>6. QED BY <1>4, <1>5

(* A step that writes, while what was done is not yet forgotten: what is   *)
(* in force and counts afterwards did so before.                           *)
LEMMA StepKeeps ==
  ASSUME Typed, Left, Kept, Known, \A t \in Targets : StepOf(t),
         NEW s \in Apart, s = run.script => run.word \notin Script[s].words,
         Counts(s), told'[s] = told[s]
  PROVE  Written(s)'
<1>1. Written(s) /\ told[s] \in Script[s].words /\ s \in Scripts
  BY DEF Kept, Known, Rests, Apart
<1>2. DOMAIN Script[s].goal[told[s]] = Own(Script[s])
  BY <1>1, GivenScripts DEF WellMade
<1>3. \A t \in Own(Script[s]) : conf[t] = Script[s].goal[told[s]][t]
  BY <1>1, <1>2 DEF Written
<1>4. \A t \in Own(Script[s]) : conf'[t] = conf[t]
  <2>1. CASE s = run.script
    BY <1>1, <1>3, <2>1, UnknownKeeps
  <2>2. CASE s # run.script
    BY <2>2, OthersKept
  <2>3. QED BY <2>1, <2>2
<1>5. QED BY <1>2, <1>3, <1>4 DEF Written

LEMMA StartForce ==
  ASSUME ForceInv, NEW s \in Scripts, NEW w \in Words, Start(s, w)
  PROVE  ForceInv'
<1>1. Typed'
  BY StartTyped DEF ForceInv
<1>2. run = Idle /\ run' = [script |-> s, word |-> w, at |-> 1, failed |-> FALSE]
  BY DEF Start
<1>3. conf' = conf /\ told' = told /\ clean' = clean
  BY DEF Start
<1>4. Values' /\ Known'
  BY <1>3 DEF ForceInv, Values, Known, Counts
<1>5. Progress'
  <2>1. 1 .. run'.at - 1 = {}
    BY <1>2
  <2>2. QED BY <2>1 DEF Progress
<1>6. Stops'
  BY <1>2 DEF Stops
<1>7. Kept'
  BY <1>2, <1>3 DEF ForceInv, Kept, Counts, Rests, Written
<1>8. QED BY <1>1, <1>4, <1>5, <1>6, <1>7 DEF ForceInv

LEMMA SucceedProgress ==
  ASSUME ForceInv, Succeed
  PROVE  Progress'
<1>1. /\ Left /\ Running /\ Typed
      /\ run' = [run EXCEPT !.at = @ + 1]
  BY NextIs, Zenon DEF ForceInv, Succeed
<1>2. run' = [script |-> run.script, word |-> run.word, at |-> run.at + 1, failed |-> run.failed]
  BY <1>1 DEF Running
<1>3. /\ run'.script = run.script /\ run'.word = run.word
      /\ run'.at = run.at + 1 /\ run'.failed = run.failed
  BY <1>2
<1> DEFINE S == Script[run.script]
           w == run.word
           C == Cmds(S, w)
<1> SUFFICES ASSUME run.script \in Apart, ~ run.failed, w \in S.words,
                    NEW p \in 1 .. run.at, Decides(S, w, p),
                    \A q \in p + 1 .. run.at : C[q].target # C[p].target
             PROVE  conf'[C[p].target] = S.goal[w][C[p].target]
  BY <1>1, <1>3 DEF Progress, Running
<1>4. /\ run.at \in DOMAIN C /\ NextCommand = C[run.at] /\ Len(C) \in Nat
      /\ NextCommand.target \in Own(S)
  BY <1>1, NextIs
<1>5. run.at \in Nat
  BY <1>1 DEF Running
<1>6. /\ \A t \in Targets : StepOf(t)
      /\ conf'[NextCommand.target] = Effect(NextCommand, conf[NextCommand.target])
  BY <1>1, SucceedIs
<1>7. CASE p = run.at
  <2>1. conf[NextCommand.target] \in Possible(S, NextCommand.target)
    BY <1>4 DEF ForceInv, Values
  <2>2. Effect(NextCommand, conf[NextCommand.target]) = S.goal[w][NextCommand.target]
    BY <1>4, <1>7, <2>1 DEF Decides
  <2>3. QED BY <1>4, <1>6, <1>7, <2>2
<1>8. CASE p # run.at
  <2>1. p \in 1 .. run.at - 1 /\ run.at \in p + 1 .. run.at
    BY <1>5, <1>8
  <2>2. C[run.at].target # C[p].target
    BY <2>1
  <2>3. \A q \in p + 1 .. run.at - 1 : C[q].target # C[p].target
    BY <1>5, <2>1
  <2>4. conf[C[p].target] = S.goal[w][C[p].target]
    BY <1>1, <2>1, <2>3 DEF ForceInv, Progress
  <2>5. C[p].target \in Targets
    <3>1. C \in Seq(CommandsOf(S)) /\ p \in DOMAIN C /\ run.script \in Scripts
      <4>1. C \in Seq(CommandsOf(S)) /\ run.script \in Scripts
        BY <1>1, GivenScripts DEF Running, WellMade
      <4>2. QED BY <1>4, <1>5, <2>1, <4>1
    <3>2. C[p] \in CommandsOf(S)
      BY <3>1
    <3>3. PICK t \in Own(S) : C[p] \in [op : Ops, target : {t}, value : Goals(S, t) \cup {Unset}]
      BY <3>2, Zenon DEF CommandsOf
    <3>4. C[p].target = t
      BY <3>3
    <3>5. QED BY <3>1, <3>4, TargetsAre
  <2>6. QED BY <1>4, <1>6, <2>2, <2>4, <2>5 DEF StepOf
<1>9. QED BY <1>7, <1>8

LEMMA SucceedForce ==
  ASSUME ForceInv, Succeed
  PROVE  ForceInv'
<1>1. Typed' /\ Progress'
  BY SucceedTyped, SucceedProgress DEF ForceInv
<1>2. /\ Left /\ Running /\ Typed
      /\ run' = [run EXCEPT !.at = @ + 1]
      /\ told' = told /\ clean' = clean
  BY NextIs, Zenon DEF ForceInv, Succeed
<1>3. run' = [script |-> run.script, word |-> run.word, at |-> run.at + 1, failed |-> run.failed]
  BY <1>2 DEF Running
<1>4. run'.script = run.script /\ run'.word = run.word /\ run'.failed = run.failed
  BY <1>3
<1>5. run' # Idle
  BY <1>2, <1>3 DEF Running, Idle
<1>6. \A t \in Targets : StepOf(t)
  BY <1>2, SucceedIs
<1>7. Values'
  BY <1>2, <1>6, StepValues DEF ForceInv
<1>8. Stops' /\ Known'
  BY <1>2, <1>4 DEF ForceInv, Stops, Known, Counts
<1>9. Kept'
  <2> SUFFICES ASSUME NEW s \in Apart, Rests(s)', Counts(s)' PROVE Written(s)'
    BY DEF Kept
  <2>1. Counts(s) /\ told'[s] = told[s]
    BY <1>2 DEF Counts
  <2>2. s = run.script => run.word \notin Script[s].words
    BY <1>4, <1>5 DEF Rests
  <2>3. QED BY <1>2, <1>6, <2>1, <2>2, StepKeeps DEF ForceInv
<1>10. QED BY <1>1, <1>7, <1>8, <1>9 DEF ForceInv

(* A run that ends without a result takes what it did with it.             *)
LEMMA AbortCounts ==
  ASSUME Typed, Running, Abort, NEW s \in Scripts, Counts(s)'
  PROVE  s # run.script /\ Counts(s) /\ told'[s] = told[s]
<1>1. /\ told' = [told EXCEPT ![run.script] = Unknown]
      /\ clean' = [clean EXCEPT ![run.script] = FALSE]
  BY DEF Abort
<1>2. DOMAIN told = Scripts /\ DOMAIN clean = Scripts
  BY DEF Typed
<1>3. s # run.script
  BY <1>1, <1>2 DEF Counts
<1>4. told'[s] = told[s] /\ clean'[s] = clean[s]
  BY <1>1, <1>2, <1>3
<1>5. QED BY <1>3, <1>4 DEF Counts

LEMMA AbortKnown ==
  ASSUME Typed, Running, Abort, Known
  PROVE  Known' /\ Progress' /\ Stops'
<1>1. ~ Running'
  BY DEF Abort, Running, Idle
<1>2. Known'
  BY AbortCounts DEF Known
<1>3. QED BY <1>1, <1>2, Zenon DEF Progress, Stops

LEMMA FailForce ==
  ASSUME ForceInv, Fail
  PROVE  ForceInv'
<1>1. Typed'
  BY FailTyped DEF ForceInv
<1>2. Left /\ Running /\ Typed
  BY NextIs, Zenon DEF ForceInv, Fail
<1>3. \A t \in Targets : StepOf(t)
  BY <1>2, FailIs
<1>4. Values'
  BY <1>2, <1>3, StepValues DEF ForceInv
<1>5. CASE Script[run.script].strict
  <2>1. Abort
    BY <1>5, Zenon DEF Fail
  <2>2. Known' /\ Progress' /\ Stops'
    BY <1>2, <2>1, AbortKnown DEF ForceInv
  <2>3. Kept'
    <3> SUFFICES ASSUME NEW s \in Apart, Counts(s)' PROVE Written(s)'
      BY DEF Kept
    <3>1. s # run.script /\ Counts(s) /\ told'[s] = told[s]
      BY <1>2, <2>1, AbortCounts DEF Apart
    <3>2. QED BY <1>2, <1>3, <3>1, StepKeeps DEF ForceInv
  <2>4. QED BY <1>1, <1>4, <2>2, <2>3 DEF ForceInv
<1>6. CASE ~ Script[run.script].strict
  <2>1. /\ run' = [run EXCEPT !.at = @ + 1, !.failed = TRUE]
        /\ told' = told /\ clean' = clean
    BY <1>6, Zenon DEF Fail
  <2>2. /\ Running' /\ run'.script = run.script /\ run'.word = run.word /\ run'.failed = TRUE
    BY <1>2, <2>1, OnTyped
  <2>3. run' # Idle
    BY <2>2 DEF Running, Idle
  <2>4. Progress' /\ Stops' /\ Known'
    BY <1>6, <2>1, <2>2 DEF ForceInv, Progress, Stops, Known, Counts
  <2>5. Kept'
    <3> SUFFICES ASSUME NEW s \in Apart, Rests(s)', Counts(s)' PROVE Written(s)'
      BY DEF Kept
    <3>1. Counts(s) /\ told'[s] = told[s]
      BY <2>1 DEF Counts
    <3>2. s = run.script => run.word \notin Script[s].words
      BY <2>2, <2>3 DEF Rests
    <3>3. QED BY <1>2, <1>3, <3>1, <3>2, StepKeeps DEF ForceInv
  <2>6. QED BY <1>1, <1>4, <2>4, <2>5 DEF ForceInv
<1>7. QED BY <1>5, <1>6

LEMMA KillForce ==
  ASSUME ForceInv, Kill
  PROVE  ForceInv'
<1>1. Typed'
  BY KillTyped DEF ForceInv
<1>2. Typed /\ Running /\ Abort /\ conf' = conf
  BY Zenon DEF ForceInv, Typed, Kill
<1>3. Values'
  BY <1>2 DEF ForceInv, Values
<1>4. Known' /\ Progress' /\ Stops'
  BY <1>2, AbortKnown DEF ForceInv
<1>5. Kept'
  <2> SUFFICES ASSUME NEW s \in Apart, Counts(s)' PROVE Written(s)'
    BY DEF Kept
  <2>1. s # run.script /\ Counts(s) /\ told'[s] = told[s]
    BY <1>2, AbortCounts DEF Apart
  <2>2. QED BY <1>2, <2>1 DEF ForceInv, Kept, Rests, Written
<1>6. QED BY <1>1, <1>3, <1>4, <1>5 DEF ForceInv

(* A run that ends with no command left, none of which has failed, has     *)
(* brought about what its word is for.                                     *)
LEMMA EndInForce ==
  ASSUME ForceInv, Running, ~ Left, run.script \in Apart, ~ run.failed,
         run.word \in Script[run.script].words,
         NEW t \in Own(Script[run.script])
  PROVE  conf[t] = Script[run.script].goal[run.word][t]
<1> DEFINE S == Script[run.script]
           C == Cmds(S, run.word)
<1>1. Leads(S) /\ WellMade(S)
  BY GivenScripts DEF Apart
<1>2. run.at = Len(C) + 1 /\ C \in Seq(CommandsOf(S))
  <2>1. Commands(run.script, run.word) = C /\ run # Idle
    BY DEF Commands, Cmds, Running, Idle
  <2>2. C \in Seq(CommandsOf(S))
    BY <1>1 DEF WellMade
  <2>3. QED BY <2>1, <2>2 DEF Left, Running
<1>3. PICK p \in DOMAIN C :
        /\ C[p].target = t
        /\ Decides(S, run.word, p)
        /\ \A q \in DOMAIN C : q > p => C[q].target # t
  BY <1>1, Zenon DEF Leads
<1> HIDE DEF C
<1>4. p \in 1 .. run.at - 1 /\ \A q \in p + 1 .. run.at - 1 : q \in DOMAIN C /\ q > p
  BY <1>2, <1>3
<1>5. QED BY <1>3, <1>4 DEF ForceInv, Progress, C

LEMMA ExitForce ==
  ASSUME ForceInv, Exit
  PROVE  ForceInv'
<1>1. Typed'
  BY ExitTyped DEF ForceInv
<1>2. Typed /\ Running /\ ~ Left /\ run' = Idle /\ conf' = conf
  BY Zenon DEF ForceInv, Typed, Exit
<1>3. ~ Running'
  BY <1>2 DEF Running, Idle
<1>4. Values' /\ Progress' /\ Stops'
  BY <1>2, <1>3 DEF ForceInv, Values, Progress, Stops
<1>5. CASE run.word \in Script[run.script].words
  <2>1. /\ told' = [told EXCEPT ![run.script] = run.word]
        /\ clean' = [clean EXCEPT ![run.script] = ~ run.failed]
    BY <1>5, Zenon DEF Exit
  <2>2. DOMAIN told = Scripts /\ DOMAIN clean = Scripts /\ run.script \in Scripts
    BY <1>2 DEF Typed, Running
  <2>3. /\ told'[run.script] = run.word /\ clean'[run.script] = ~ run.failed
        /\ \A s \in Scripts : s # run.script => told'[s] = told[s] /\ clean'[s] = clean[s]
    BY <2>1, <2>2
  <2>4. Known'
    BY <1>5, <2>3 DEF ForceInv, Known, Counts
  <2>5. Kept'
    <3> SUFFICES ASSUME NEW s \in Apart, Counts(s)' PROVE Written(s)'
      BY DEF Kept
    <3>1. CASE s = run.script
      <4>1. ~ run.failed
        BY <1>2, <2>3, <3>1 DEF ForceInv, Stops, Counts
      <4>2. \A t \in Own(Script[s]) : conf[t] = Script[s].goal[run.word][t]
        BY <1>2, <1>5, <3>1, <4>1, EndInForce
      <4>3. DOMAIN Script[s].goal[run.word] = Own(Script[s])
        BY <1>5, <2>2, <3>1, GivenScripts DEF WellMade
      <4>4. QED BY <1>2, <2>3, <3>1, <4>2, <4>3 DEF Written
    <3>2. CASE s # run.script
      BY <1>2, <2>3, <3>2 DEF ForceInv, Kept, Rests, Counts, Written, Apart
    <3>3. QED BY <3>1, <3>2
  <2>6. QED BY <1>1, <1>4, <2>4, <2>5 DEF ForceInv
<1>6. CASE run.word \notin Script[run.script].words
  <2>1. told' = told /\ clean' = clean
    BY <1>6, Zenon DEF Exit
  <2>2. Known'
    BY <2>1 DEF ForceInv, Known, Counts
  <2>3. Kept'
    BY <1>2, <1>6, <2>1 DEF ForceInv, Kept, Rests, Counts, Written
  <2>4. QED BY <1>1, <1>4, <2>2, <2>3 DEF ForceInv
<1>7. QED BY <1>5, <1>6

LEMMA NextForce == ForceInv /\ [Next]_vars => ForceInv'
<1> SUFFICES ASSUME ForceInv, [Next]_vars PROVE ForceInv'
  OBVIOUS
<1>1. CASE \E s \in Scripts, w \in Words : Start(s, w)
  BY <1>1, StartForce
<1>2. CASE Succeed
  BY <1>2, SucceedForce
<1>3. CASE Fail
  BY <1>3, FailForce
<1>4. CASE Kill
  BY <1>4, KillForce
<1>5. CASE Exit
  BY <1>5, ExitForce
<1>6. CASE UNCHANGED vars
  <2>1. conf' = conf /\ run' = run /\ told' = told /\ clean' = clean
    BY <1>6 DEF vars
  <2>2. Typed'
    BY <1>6, NextTyped DEF ForceInv
  <2>3. QED
    BY <2>1, <2>2 DEF ForceInv, Values, Progress, Stops, Kept, Known, Running, Counts, Rests, Written
<1>7. QED BY <1>1, <1>2, <1>3, <1>4, <1>5, <1>6 DEF Next

-----------------------------------------------------------------------------
(* What the rules of a key come to.                                        *)

LEMMA IndexIs ==
  /\ Index("debug") = 1 /\ Index("info") = 2 /\ Index("warning") = 3 /\ Index("error") = 4
  /\ Order[1] = "debug" /\ Order[2] = "info" /\ Order[3] = "warning" /\ Order[4] = "error"
<1>1. /\ DOMAIN Order = 1 .. 4
      /\ Order[1] = "debug" /\ Order[2] = "info" /\ Order[3] = "warning" /\ Order[4] = "error"
  BY DEF Order
<1>2. ASSUME NEW i \in 1 .. 4 PROVE Index(Order[i]) = i
  <2>1. \A j \in DOMAIN Order : Order[j] = Order[i] => j = i
    BY <1>1
  <2>2. QED BY <1>1, <2>1 DEF Index
<1>3. QED BY <1>1, <1>2

LEMMA LevelsCounted ==
  /\ Cardinality(Usual) = 3
  /\ Cardinality({"debug", "info", "warning", "error"}) = 4
<1> DEFINE A == {"debug"}
           B == A \cup {"info"}
           C == B \cup {"warning"}
           D == C \cup {"error"}
<1>1. IsFiniteSet(A) /\ Cardinality(A) = 1
  BY FS_Singleton
<1>2. IsFiniteSet(B) /\ Cardinality(B) = 2
  BY <1>1, FS_AddElement
<1>3. "warning" \notin B /\ "error" \notin C
  OBVIOUS
<1> HIDE DEF B, C
<1>4. IsFiniteSet(C) /\ Cardinality(C) = 3
  BY <1>2, <1>3, FS_AddElement DEF C
<1>5. Cardinality(D) = 4
  BY <1>3, <1>4, FS_AddElement
<1>6. C = Usual /\ D = {"debug", "info", "warning", "error"}
  BY DEF B, C, Usual
<1>7. QED BY <1>4, <1>5, <1>6

LEMMA LastOnIs ==
  ASSUME NEW rules, NEW n \in Nat, DOMAIN rules = 1 .. n, NEW i \in 1 .. n,
         rules[i].on, \A j \in 1 .. n : rules[j].on => j <= i
  PROVE  LastOn(rules) = rules[i]
<1> DEFINE P(k) == rules[k].on /\ \A j \in DOMAIN rules : rules[j].on => j <= k
           k == CHOOSE x \in DOMAIN rules : P(x)
<1>1. P(i) /\ i \in DOMAIN rules
  OBVIOUS
<1>2. k \in DOMAIN rules /\ P(k)
  BY <1>1, Zenon
<1>3. k = i
  BY <1>1, <1>2
<1>4. QED BY <1>3, Zenon DEF LastOn

(* UpTo: the word is turned on, and nothing behind it.                     *)
LEMMA UpToIs ==
  ASSUME NEW p, NEW q, NEW w \in Usual
  PROVE  /\ Index(w) \in 1 .. 3 /\ DOMAIN UpTo(p, q)[w] = 1 .. Index(w)
         /\ \E T : UpTo(p, q)[w] \in Seq(T)
         /\ UpTo(p, q)[w][Index(w)] = On(Append(p, w))
         /\ LastOn(UpTo(p, q)[w]) = On(Append(p, w))
<1> DEFINE rules == UpTo(p, q)[w]
<1>1. Index(w) \in 1 .. 3
  BY IndexIs DEF Usual
<1>2. rules = [i \in 1 .. Index(w) |->
                 IF i = Index(w) THEN On(Append(p, w)) ELSE Off(Append(q, Order[i]))]
  BY DEF UpTo
<1> HIDE DEF rules
<1>3. DOMAIN rules = 1 .. Index(w) /\ rules[Index(w)] = On(Append(p, w))
  BY <1>1, <1>2
<1>4. rules[Index(w)].on
  BY <1>3 DEF On
<1>5. LastOn(rules) = On(Append(p, w))
  BY <1>1, <1>3, <1>4, LastOnIs
<1>6. rules \in Seq({rules[i] : i \in 1 .. Index(w)})
  <2>1. \A i \in 1 .. Index(w) : rules[i] \in {rules[j] : j \in 1 .. Index(w)}
    OBVIOUS
  <2>2. QED BY <1>1, <1>2, <2>1
<1>7. QED BY <1>1, <1>3, <1>5, <1>6 DEF rules

Named(r) == r.path[1] # NoCategory
LevelOf(r) == r.path[Len(r.path)]

LEMMA SaysIs ==
  ASSUME NEW rules, NEW n \in Nat, DOMAIN rules = 1 .. n, NEW i \in 1 .. n, Named(rules[i]),
         \A j \in 1 .. n : j > i => rules[j].path # rules[i].path \/ rules[j].on = rules[i].on
  PROVE  Says(rules, LevelOf(rules[i]), rules[i].on)
BY DEF Says, Named, LevelOf

LEMMA Joined ==
  ASSUME NEW T, NEW s \in Seq(T), NEW t \in Seq(T)
  PROVE  /\ s \o t \in Seq(T) /\ Len(s \o t) = Len(s) + Len(t)
         /\ \A i \in 1 .. Len(s) : (s \o t)[i] = s[i]
         /\ \A i \in 1 .. Len(t) : (s \o t)[Len(s) + i] = t[i]
OBVIOUS

LEMMA LevelsDiffer ==
  \A i, j \in 1 .. 4 : Order[i] = Order[j] => i = j
<1>1. \A i \in 1 .. 4 : i = 1 \/ i = 2 \/ i = 3 \/ i = 4
  OBVIOUS
<1>2. QED BY <1>1, IndexIs

(* Rules for the levels in their order, of which the word's is on.         *)
Fits(rules, w, i) ==
  Named(rules[i]) /\ LevelOf(rules[i]) = Order[i] /\ rules[i].on = (i = Index(w))
LEMMA OneByOne ==
  ASSUME NEW rules, NEW n \in 1 .. 4, DOMAIN rules = 1 .. n, NEW w,
         Index(w) \in 1 .. n, Order[Index(w)] = w,
         \A i \in 1 .. n : Fits(rules, w, i)
  PROVE  Selects(rules, w)
<1>1. ASSUME NEW i \in 1 .. n, NEW j \in 1 .. n, j > i
      PROVE  rules[j].path # rules[i].path
  <2>1. Order[j] # Order[i]
    BY <1>1, LevelsDiffer
  <2>2. LevelOf(rules[j]) # LevelOf(rules[i])
    BY <2>1 DEF Fits
  <2>3. QED BY <2>2, Zenon DEF LevelOf
<1>2. ASSUME NEW i \in 1 .. n PROVE Says(rules, Order[i], i = Index(w))
  <2>1. Says(rules, LevelOf(rules[i]), rules[i].on)
    BY <1>1, SaysIs DEF Fits
  <2>2. QED BY <2>1, Zenon DEF Fits
<1>3. Says(rules, w, TRUE)
  <2>1. Says(rules, Order[Index(w)], Index(w) = Index(w))
    BY <1>2, Zenon
  <2>2. (Index(w) = Index(w)) = TRUE
    OBVIOUS
  <2>3. QED BY <2>1, <2>2, Zenon
<1>4. ASSUME NEW i \in 1 .. Index(w) - 1 PROVE Says(rules, Order[i], FALSE)
  <2>1. i \in 1 .. n /\ (i = Index(w)) = FALSE
    OBVIOUS
  <2>2. Says(rules, Order[i], i = Index(w))
    BY <1>2, <2>1, Zenon
  <2>3. QED BY <2>1, <2>2, Zenon
<1>5. QED BY <1>3, <1>4, Zenon DEF Selects

LEMMA UsualIs ==
  ASSUME NEW w \in Usual
  PROVE  Index(w) \in 1 .. 3 /\ Order[Index(w)] = w
BY IndexIs DEF Usual

LEMMA CategoriesNamed ==
  /\ "*" # NoCategory /\ "*mail*" # NoCategory /\ "*terminal*" # NoCategory
  /\ "*defender*" # NoCategory /\ "*filemanager*" # NoCategory /\ "*dde-printer*" # NoCategory
  /\ "*log" # NoCategory /\ "deepin" # NoCategory /\ "*app-store*" # NoCategory
  /\ "*license" # NoCategory /\ "*uos-service-support" # NoCategory /\ "kwin*" # NoCategory
BY Zenon DEF NoCategory

(* What stands before the level in a path.                                 *)
Category(T, p) == p \in Seq(T) /\ p # <<>> /\ p[1] # NoCategory

LEMMA LastOfPath ==
  ASSUME NEW T, NEW p, Category(T, p), NEW x \in T
  PROVE  /\ Named(On(Append(p, x))) /\ LevelOf(On(Append(p, x))) = x
         /\ Named(Off(Append(p, x))) /\ LevelOf(Off(Append(p, x))) = x
<1>1. p \in Seq(T) /\ p # <<>> /\ p[1] # NoCategory
  BY DEF Category
<1>2. Append(p, x)[1] = p[1]
  <2>1. 1 \in 1 .. Len(p)
    BY <1>1
  <2>2. QED BY <1>1, <2>1
<1>3. Append(p, x)[Len(Append(p, x))] = x
  BY <1>1
<1>4. QED BY <1>1, <1>2, <1>3 DEF Named, LevelOf, On, Off

LEMMA OnOff ==
  ASSUME NEW path
  PROVE  On(path).on = TRUE /\ Off(path).on = FALSE /\ On(path).path = path /\ Off(path).path = path
BY DEF On, Off

LEMMA UpToSelects ==
  ASSUME NEW T, Usual \subseteq T, NEW p, Category(T, p), NEW q, Category(T, q), NEW w \in Usual
  PROVE  Selects(UpTo(p, q)[w], w)
<1> DEFINE rules == UpTo(p, q)[w]
           n == Index(w)
<1>1. n \in 1 .. 3 /\ Order[n] = w
  BY UsualIs
<1>2. rules = [i \in 1 .. n |-> IF i = n THEN On(Append(p, w)) ELSE Off(Append(q, Order[i]))]
  BY DEF UpTo
<1> HIDE DEF rules, n
<1>3. ASSUME NEW i \in 1 .. n
      PROVE  Named(rules[i]) /\ LevelOf(rules[i]) = Order[i] /\ rules[i].on = (i = n)
  <2>1. CASE i = n
    <3>1. rules[i] = On(Append(p, w))
      BY <1>2, <2>1, Zenon
    <3>2. w \in T
      OBVIOUS
    <3>3. Named(rules[i]) /\ LevelOf(rules[i]) = w
      BY <3>1, <3>2, LastOfPath
    <3>4. rules[i].on = TRUE
      BY <3>1, OnOff
    <3>5. QED BY <1>1, <2>1, <3>3, <3>4
  <2>2. CASE i # n
    <3>1. rules[i] = Off(Append(q, Order[i]))
      BY <1>2, <2>2, Zenon
    <3>2. Order[i] \in T
      <4>1. i = 1 \/ i = 2
        BY <1>1, <2>2
      <4>2. QED BY <4>1, IndexIs DEF Usual
    <3>3. Named(rules[i]) /\ LevelOf(rules[i]) = Order[i]
      BY <3>1, <3>2, LastOfPath
    <3>4. rules[i].on = FALSE
      BY <3>1, OnOff
    <3>5. QED BY <2>2, <3>3, <3>4
  <2>3. QED BY <2>1, <2>2
<1>4. DOMAIN rules = 1 .. n /\ n \in 1 .. 4
  BY <1>1, <1>2
<1>5. \A i \in 1 .. n : Fits(rules, w, i)
  BY <1>3, Zenon DEF Fits, n
<1>6. Index(w) \in 1 .. n /\ Order[Index(w)] = w
  BY <1>1 DEF n
<1>7. Selects(rules, w)
  BY <1>4, <1>5, <1>6, OneByOne, Zenon
<1>8. QED BY <1>7 DEF rules

(* A rule for another category takes nothing back.                         *)
LEMMA ButQtSelects ==
  ASSUME NEW w \in Usual
  PROVE  Selects(ButQt[w], w)
<1> DEFINE T == {"*"} \cup Usual
           star == <<"*">>
           u == UpTo(star, star)[w]
           off == Off(<<"qt", "*", "debug">>)
           rules == ButQt[w]
<1>1. Category(T, star) /\ Usual \subseteq T
  BY CategoriesNamed DEF Category
<1>2. rules = u \o (IF w = "debug" THEN <<off>> ELSE <<>>)
  BY DEF ButQt
<1>3. off.path[1] = "qt"
  BY DEF Off
<1> HIDE DEF T, star, off, rules
<1>4. Selects(u, w)
  BY <1>1, UpToSelects
<1>5. /\ DOMAIN u = 1 .. Index(w) /\ Index(w) \in 1 .. 3 /\ \E X : u \in Seq(X)
      /\ u[Index(w)] = On(Append(star, w))
  BY UpToIs
<1> HIDE DEF u
<1>6. CASE w # "debug"
  <2>1. rules = u
    BY <1>2, <1>5, <1>6
  <2>2. QED BY <1>4, <2>1 DEF rules
<1>7. CASE w = "debug"
  <2>1. Index(w) = 1 /\ Order[1] = w
    BY <1>7, IndexIs
  <2>2. rules = u \o <<off>>
    BY <1>2, <1>7
  <2>3. Len(u) = Index(w)
    BY <1>5
  <2>4. DOMAIN rules = 1 .. 2 /\ rules[1] = u[1] /\ rules[2] = off
    <3>1. DOMAIN rules = 1 .. Index(w) + 1 /\ rules[Index(w) + 1] = off
      BY <1>5, <2>2, <2>3
    <3>2. rules[Index(w)] = u[Index(w)]
      BY <1>5, <2>2, <2>3
    <3>3. QED BY <2>1, <3>1, <3>2
  <2>5. rules[1] = On(Append(star, w))
    BY <1>5, <2>1, <2>4
  <2>6. Named(rules[1]) /\ LevelOf(rules[1]) = w /\ rules[1].on = TRUE
    <3>1. w \in T
      BY <1>1
    <3>2. Named(On(Append(star, w))) /\ LevelOf(On(Append(star, w))) = w
      BY <1>1, <3>1, LastOfPath
    <3>3. QED BY <2>5, <3>2, OnOff
  <2>7. rules[2].path # rules[1].path
    <3>1. rules[1].path = Append(star, w)
      BY <2>5, OnOff
    <3>2. Append(star, w)[1] = "*"
      BY DEF star
    <3>3. rules[2].path[1] = "qt"
      BY <1>3, <2>4
    <3>4. "qt" # "*"
      OBVIOUS
    <3>5. QED BY <3>1, <3>2, <3>3, <3>4
  <2>8. \A j \in 1 .. 2 : j > 1 => rules[j].path # rules[1].path \/ rules[j].on = rules[1].on
    <3>1. \A j \in 1 .. 2 : j > 1 => j = 2
      OBVIOUS
    <3>2. QED BY <2>7, <3>1, Zenon
  <2>9. Says(rules, LevelOf(rules[1]), rules[1].on)
    <3>1. 1 \in 1 .. 2 /\ 2 \in Nat
      OBVIOUS
    <3>2. QED BY <2>4, <2>6, <2>8, <3>1, SaysIs, Zenon
  <2>10. Says(rules, w, TRUE)
    BY <2>6, <2>9, Zenon
  <2>11. 1 .. Index(w) - 1 = {}
    BY <2>1
  <2>12. QED BY <2>10, <2>11, Zenon DEF Selects, rules
<1>8. QED BY <1>6, <1>7

LEMMA OnlyOneSelects ==
  ASSUME NEW levels, \/ levels = Usual
                     \/ levels = {"debug", "info", "warning", "error"},
         NEW w \in levels
  PROVE  Selects(OnlyOne(levels)[w], w)
<1> DEFINE rules == OnlyOne(levels)[w]
           n == Cardinality(levels)
<1>1. n \in 3 .. 4 /\ Index(w) \in 1 .. n /\ Order[Index(w)] = w
  BY LevelsCounted, IndexIs DEF Usual
<1>2. rules = [i \in 1 .. n |-> IF Order[i] = w THEN On(<<"*", w>>) ELSE Off(<<"*", Order[i]>>)]
  BY DEF OnlyOne
<1> HIDE DEF rules, n
<1>3. \A x : /\ Named(On(<<"*", x>>)) /\ LevelOf(On(<<"*", x>>)) = x
             /\ Named(Off(<<"*", x>>)) /\ LevelOf(Off(<<"*", x>>)) = x
  BY CategoriesNamed DEF Named, LevelOf, On, Off
<1>4. ASSUME NEW i \in 1 .. n
      PROVE  Named(rules[i]) /\ LevelOf(rules[i]) = Order[i] /\ rules[i].on = (i = Index(w))
  <2>1. CASE Order[i] = w
    <3>1. rules[i] = On(<<"*", w>>)
      BY <1>2, <2>1, Zenon
    <3>2. i = Index(w)
      BY <1>1, <2>1, LevelsDiffer
    <3>3. rules[i].on = TRUE
      BY <3>1, OnOff
    <3>4. Named(rules[i]) /\ LevelOf(rules[i]) = w
      BY <1>3, <3>1, Zenon
    <3>5. QED BY <2>1, <3>2, <3>3, <3>4
  <2>2. CASE Order[i] # w
    <3>1. rules[i] = Off(<<"*", Order[i]>>)
      BY <1>2, <2>2, Zenon
    <3>2. i # Index(w)
      BY <1>1, <2>2
    <3>3. rules[i].on = FALSE
      BY <3>1, OnOff
    <3>4. Named(rules[i]) /\ LevelOf(rules[i]) = Order[i]
      BY <1>3, <3>1, Zenon
    <3>5. QED BY <3>2, <3>3, <3>4
  <2>3. QED BY <2>1, <2>2
<1>5. DOMAIN rules = 1 .. n /\ n \in 1 .. 4
  BY <1>1, <1>2
<1>6. \A i \in 1 .. n : Fits(rules, w, i)
  BY <1>4, Zenon DEF Fits
<1>7. Selects(rules, w)
  BY <1>1, <1>5, <1>6, OneByOne, Zenon
<1>8. QED BY <1>7 DEF rules

(* The rules for kwin, one by one: those for its parts have categories of  *)
(* their own.                                                              *)
LEMMA KwinSelects ==
  ASSUME NEW w \in Usual
  PROVE  Selects(KwinRules[w], w)
<1> DEFINE n == Index(w)
           rule(i) == IF n <= i THEN On(<<"kwin*", Order[i]>>) ELSE Off(<<"kwin*", Order[i]>>)
           rules == KwinRules[w]
<1>1. n \in 1 .. 3 /\ Order[n] = w
  BY UsualIs
<1>2. /\ DOMAIN rules = 1 .. 6
      /\ rules[2] = rule(1) /\ rules[3] = rule(2) /\ rules[4] = rule(3)
      /\ rules[5] = Off(<<"kwin_lwl", "debug">>) /\ rules[6] = On(<<"kwin_xwl", "info">>)
  <2> DEFINE head == <<Off(<<"kwin_libinput">>)>>
             mid == [i \in 1 .. 3 |-> rule(i)]
             a == Off(<<"kwin_lwl", "debug">>)
             b == On(<<"kwin_xwl", "info">>)
             tail == <<a, b>>
  <2>1. rules = head \o mid \o tail
    BY DEF KwinRules
  <2>2. Len(head) = 1 /\ head \in Seq({head[1]})
    OBVIOUS
  <2>3. mid \in Seq({rule(i) : i \in 1 .. 3}) /\ Len(mid) = 3
        /\ mid[1] = rule(1) /\ mid[2] = rule(2) /\ mid[3] = rule(3)
    OBVIOUS
  <2> HIDE DEF rule, head, mid, a, b, rules
  <2>4. Len(tail) = 2 /\ tail \in Seq({a, b}) /\ tail[1] = a /\ tail[2] = b
    OBVIOUS
  <2> HIDE DEF tail
  <2> DEFINE front == head \o mid
  <2> DEFINE X == {head[1]} \cup {rule(i) : i \in 1 .. 3} \cup {a, b}
  <2>9. head \in Seq(X) /\ mid \in Seq(X) /\ tail \in Seq(X)
    BY <2>2, <2>3, <2>4
  <2> HIDE DEF X
  <2>5. /\ front \in Seq(X) /\ Len(front) = 4
        /\ front[2] = mid[1] /\ front[3] = mid[2] /\ front[4] = mid[3]
    <3>0. /\ front \in Seq(X) /\ Len(front) = Len(head) + Len(mid)
          /\ \A i \in 1 .. Len(mid) : front[Len(head) + i] = mid[i]
      BY <2>9, Joined DEF front
    <3>1. front \in Seq(X) /\ Len(front) = 4 /\ \A i \in 1 .. 3 : front[1 + i] = mid[i]
      BY <2>2, <2>3, <3>0
    <3>2. front[1 + 1] = mid[1] /\ front[1 + 2] = mid[2] /\ front[1 + 3] = mid[3]
      BY <3>1
    <3>3. QED BY <3>1, <3>2
  <2> HIDE DEF front
  <2>6. rules = front \o tail
    BY <2>1 DEF front
  <2>7. /\ DOMAIN rules = 1 .. 6
        /\ rules[2] = front[2] /\ rules[3] = front[3] /\ rules[4] = front[4]
        /\ rules[5] = tail[1] /\ rules[6] = tail[2]
    <3>1. /\ rules \in Seq(X) /\ Len(rules) = 6
          /\ \A i \in 1 .. 4 : rules[i] = front[i]
          /\ \A i \in 1 .. 2 : rules[4 + i] = tail[i]
      <4>1. /\ rules \in Seq(X) /\ Len(rules) = Len(front) + Len(tail)
            /\ \A i \in 1 .. Len(front) : rules[i] = front[i]
            /\ \A i \in 1 .. Len(tail) : rules[Len(front) + i] = tail[i]
        <5>1. front \in Seq(X) /\ tail \in Seq(X)
          BY <2>5, <2>9
        <5>2. QED BY <2>6, <5>1, Joined
      <4>2. QED BY <2>4, <2>5, <4>1
    <3>2. rules[4 + 1] = tail[1] /\ rules[4 + 2] = tail[2]
      BY <3>1
    <3>3. QED BY <3>1, <3>2
  <2>8. QED BY <2>3, <2>4, <2>5, <2>7 DEF a, b
<1>3. ASSUME NEW i \in 1 .. 3
      PROVE  /\ rule(i).path = <<"kwin*", Order[i]>> /\ rule(i).on = (n <= i)
  <2> HIDE DEF n
  <2>1. CASE n <= i
    BY <2>1 DEF On
  <2>2. CASE ~ n <= i
    <3>1. (n <= i) = FALSE
      BY <2>2
    <3>2. rule(i) = Off(<<"kwin*", Order[i]>>)
      BY <2>2
    <3>3. QED BY <3>1, <3>2, OnOff
  <2>3. QED BY <2>1, <2>2
<1>4. ASSUME NEW i \in 1 .. 3
      PROVE  Named(rule(i)) /\ LevelOf(rule(i)) = Order[i] /\ rule(i).path[1] = "kwin*"
  <2>1. \A path : On(path).path = path /\ Off(path).path = path
    BY OnOff
  <2>2. rule(i).path = <<"kwin*", Order[i]>>
    BY <1>3
  <2> HIDE DEF rule
  <2>3. QED BY <2>2, CategoriesNamed DEF Named, LevelOf
<1> HIDE DEF rule, rules, n
<1>5. \A i \in 1 .. 3 : rules[i + 1] = rule(i)
  <2>1. \A i \in 1 .. 3 : i = 1 \/ i = 2 \/ i = 3
    OBVIOUS
  <2>2. QED BY <1>2, <2>1
<1>6. rules[5].path[1] = "kwin_lwl" /\ rules[6].path[1] = "kwin_xwl"
  BY <1>2 DEF On, Off
<1>7. ASSUME NEW i \in 1 .. 3 PROVE Says(rules, Order[i], n <= i)
  <2>1. ASSUME NEW j \in 1 .. 6, j > i + 1 PROVE rules[j].path # rules[i + 1].path
    <3>1. rules[i + 1].path[1] = "kwin*" /\ LevelOf(rules[i + 1]) = Order[i]
      BY <1>4, <1>5
    <3>2. CASE j \in {5, 6}
      BY <1>6, <3>1, <3>2
    <3>3. CASE j \notin {5, 6}
      <4>1. PICK k \in 1 .. 3 : j = k + 1 /\ k # i
        <5>1. j = (j - 1) + 1 /\ j - 1 \in 1 .. 3 /\ j - 1 # i
          BY <2>1, <3>3
        <5>2. QED BY <5>1
      <4>2. LevelOf(rules[j]) = Order[k]
        BY <1>4, <1>5, <4>1
      <4>3. Order[k] # Order[i]
        BY <4>1, LevelsDiffer
      <4>4. LevelOf(rules[j]) # LevelOf(rules[i + 1])
        BY <3>1, <4>2, <4>3
      <4>5. QED BY <4>4, Zenon DEF LevelOf
    <3>4. QED BY <3>2, <3>3
  <2>2. Named(rules[i + 1]) /\ LevelOf(rules[i + 1]) = Order[i] /\ rules[i + 1].on = (n <= i)
    BY <1>3, <1>4, <1>5
  <2>3. i + 1 \in 1 .. 6 /\ 6 \in Nat
    OBVIOUS
  <2>4. Says(rules, LevelOf(rules[i + 1]), rules[i + 1].on)
    BY <1>2, <2>1, <2>2, <2>3, SaysIs
  <2>5. QED BY <2>2, <2>4, Zenon
<1>8. Says(rules, w, TRUE)
  <2>1. Says(rules, Order[n], n <= n) /\ (n <= n) = TRUE
    BY <1>1, <1>7
  <2>2. QED BY <1>1, <2>1, Zenon
<1>9. ASSUME NEW i \in 1 .. n - 1 PROVE Says(rules, Order[i], FALSE)
  <2>1. i \in 1 .. 3 /\ (n <= i) = FALSE
    BY <1>1
  <2>2. Says(rules, Order[i], n <= i)
    BY <1>7, <2>1, Zenon
  <2>3. QED BY <2>1, <2>2, Zenon
<1>10. QED BY <1>8, <1>9, Zenon DEF Selects, rules, n

(* A script whose words, but for those that are excepted, leave rules that *)
(* select them, or that writes files.                                      *)
Selective(S, but) ==
  \A w \in S.words \ but : \A t \in Own(S) : IsFile(t) \/ Selects(S.goal[w][t], w)

LEMMA KeyGoal ==
  ASSUME NEW app, NEW id, NEW key, NEW rules, DOMAIN rules # {},
         NEW S, S \in Variants(Dconfig(app, id, key, rules))
  PROVE  /\ Own(S) = {<<app, id, key>>} /\ S.words = DOMAIN rules
         /\ \A w \in S.words : S.goal[w][<<app, id, key>>] = rules[w]
<1> DEFINE t == <<app, id, key>>
<1>1. Own(S) = {t}
  BY DconfigSound
<1>2. /\ S.words = DOMAIN rules /\ S.first = <<>> /\ S.strict \in BOOLEAN
      /\ S.steps = [w \in DOMAIN rules |-> <<Set(<<app, id, key>>, rules[w])>>]
      /\ S.goal = [w \in DOMAIN rules |-> <<app, id, key>> :> rules[w]]
  BY DconfigFields
<1>3. \A w \in S.words : S.goal[w][t] = rules[w]
  BY <1>2 DEF :>
<1>4. QED BY <1>1, <1>2, <1>3

LEMMA KeySelects ==
  ASSUME NEW app, NEW id, NEW key, NEW rules, DOMAIN rules # {},
         NEW but, \A w \in DOMAIN rules \ but : Selects(rules[w], w),
         NEW S, S \in Variants(Dconfig(app, id, key, rules))
  PROVE  Selective(S, but)
<1> DEFINE t == <<app, id, key>>
<1>1. Own(S) = {t} /\ S.words = DOMAIN rules /\ \A w \in S.words : S.goal[w][t] = rules[w]
  BY KeyGoal
<1> HIDE DEF t
<1>2. QED BY <1>1 DEF Selective

(* The variants of a script that occur here.                               *)
LEMMA PlainSelects ==
  ASSUME NEW app, NEW id, NEW key, NEW rules, DOMAIN rules # {},
         NEW but, \A w \in DOMAIN rules \ but : Selects(rules[w], w)
  PROVE  LET R == Dconfig(app, id, key, rules) IN
         /\ Selective(R, but) /\ Selective(WithAwk(R), but) /\ Selective(WithoutState(R), but)
         /\ Selective(WithoutSetE(R), but) /\ Selective(WithAwk(WithoutSetE(R)), but)
<1> DEFINE R == Dconfig(app, id, key, rules)
<1>1. \A S \in Variants(R) : Selective(S, but)
  BY KeySelects
<1> HIDE DEF R
<1>2. /\ R \in Variants(R) /\ WithAwk(R) \in Variants(R) /\ WithoutState(R) \in Variants(R)
      /\ WithoutSetE(R) \in Variants(R) /\ WithAwk(WithoutSetE(R)) \in Variants(R)
  BY Zenon DEF Variants
<1>3. QED BY <1>1, <1>2, Zenon DEF R

LEMMA UpToKeySelects ==
  ASSUME NEW app, NEW id, NEW key, NEW T, Usual \subseteq T,
         NEW p, Category(T, p), NEW q, Category(T, q)
  PROVE  LET R == Dconfig(app, id, key, UpTo(p, q)) IN
         Selective(R, {}) /\ Selective(WithAwk(R), {}) /\ Selective(WithAwk(WithoutSetE(R)), {})
<1>1. DOMAIN UpTo(p, q) = Usual /\ Usual # {}
  BY RulesGiven
<1>2. \A w \in DOMAIN UpTo(p, q) \ {} : Selects(UpTo(p, q)[w], w)
  BY <1>1, UpToSelects
<1>3. DOMAIN UpTo(p, q) # {}
  BY <1>1
<1>4. QED BY <1>2, <1>3, PlainSelects, Zenon

LEMMA FilesSelective ==
  ASSUME NEW S, \A t \in Own(S) : IsFile(t)
  PROVE  Selective(S, {})
BY Zenon DEF Selective

Calendars == {"calendarClient", "calendarPlugin", "calendarService"}
LEMMA ScriptsSelect ==
  \A s \in DOMAIN Script :
    Selective(Script[s], {}) \/ (s \in Calendars /\ Selective(Script[s], {"error"}))
<1> DEFINE T == Usual \cup {"*", "*mail*", "*terminal*", "*defender*", "*filemanager*",
                            "*dde-printer*", "*log", "viewer*", "deepin", "deepinid", "client",
                            "*app-store*", "*license", "agent*", "appgui*", "cmd*", "gui*",
                            "*uos-service-support"}
<1>1. /\ Category(T, <<"*">>) /\ Category(T, <<"*mail*">>) /\ Category(T, <<"*terminal*">>)
      /\ Category(T, <<"*defender*">>) /\ Category(T, <<"*filemanager*">>)
      /\ Category(T, <<"*dde-printer*">>) /\ Category(T, <<"*log", "viewer*">>)
      /\ Category(T, <<"deepin", "deepinid", "client">>) /\ Category(T, <<"*app-store*">>)
  BY CategoriesNamed DEF Category
<1>2. /\ Category(T, <<"*license", "agent*">>) /\ Category(T, <<"*license", "appgui*">>)
      /\ Category(T, <<"*license", "cmd*">>) /\ Category(T, <<"*license", "gui*">>)
      /\ Category(T, <<"*uos-service-support", "agent*">>)
      /\ Category(T, <<"*uos-service-support", "gui*">>)
  BY CategoriesNamed DEF Category
<1>3. Usual \subseteq T
  OBVIOUS
<1> HIDE DEF T
<1>4. ASSUME NEW p, Category(T, p), NEW q, Category(T, q), NEW app, NEW id, NEW key
      PROVE  LET R == Dconfig(app, id, key, UpTo(p, q)) IN
             Selective(R, {}) /\ Selective(WithAwk(R), {}) /\ Selective(WithAwk(WithoutSetE(R)), {})
  BY <1>3, <1>4, UpToKeySelects
<1>5. /\ Selective(DeepinMail, {}) /\ Selective(DeepinTerminal, {})
      /\ Selective(DeepinDefender, {}) /\ Selective(DdeFileManager, {})
      /\ Selective(DdePrinter, {}) /\ Selective(DeepinLogViewer, {})
      /\ Selective(Deepinid, {}) /\ Selective(DeepinAppStore, {})
  BY <1>1, <1>4, Zenon DEF DeepinMail, DeepinTerminal, DeepinDefender, DdeFileManager, DdePrinter,
     DeepinLogViewer, Deepinid, DeepinAppStore
<1>6. /\ Selective(LicenseAgent, {}) /\ Selective(LicenseAppgui, {}) /\ Selective(LicenseCmd, {})
      /\ Selective(LicenseGui, {}) /\ Selective(SupportAgent, {}) /\ Selective(SupportGui, {})
  BY <1>2, <1>4, Zenon DEF LicenseAgent, LicenseAppgui, LicenseCmd, LicenseGui, License,
     SupportAgent, SupportGui, Support
<1>7. Selective(Kwin, {})
  <2>1. DOMAIN KwinRules # {} /\ \A w \in DOMAIN KwinRules \ {} : Selects(KwinRules[w], w)
    BY RulesGiven, KwinSelects
  <2>2. QED BY <2>1, PlainSelects, Zenon DEF Kwin
<1>8. /\ Selective(CalendarClient, {"error"}) /\ Selective(CalendarPlugin, {"error"})
      /\ Selective(CalendarService, {"error"})
  <2> DEFINE levels == {"debug", "info", "warning", "error"}
  <2>1. DOMAIN CalendarRules = levels /\ DOMAIN OnlyOne(levels) = levels
    BY RulesGiven
  <2>2. \A w \in levels \ {"error"} : CalendarRules[w] = OnlyOne(levels)[w]
    BY <2>1 DEF CalendarRules
  <2>3. \A w \in DOMAIN CalendarRules \ {"error"} : Selects(CalendarRules[w], w)
    BY <2>1, <2>2, OnlyOneSelects
  <2>4. DOMAIN CalendarRules # {}
    BY <2>1
  <2>5. \A part : Selective(Calendar(part), {"error"})
    BY <2>3, <2>4, PlainSelects, Zenon DEF Calendar
  <2>6. QED BY <2>5, Zenon DEF CalendarClient, CalendarPlugin, CalendarService
<1>9. /\ Selective(DdeControlCenter, {}) /\ Selective(DdeDock, {}) /\ Selective(DdeLauncher, {})
      /\ Selective(DdeLock, {}) /\ Selective(DdeOsd, {})
  <2>1. DOMAIN ButQt # {} /\ \A w \in DOMAIN ButQt \ {} : Selects(ButQt[w], w)
    BY RulesGiven, ButQtSelects
  <2>2. QED
    BY <2>1, PlainSelects, Zenon DEF DdeControlCenter, DdeDock, DdeLauncher, DdeLock, DdeOsd, DtkRules
<1>10. /\ Selective(DeepinDeviceManager, {}) /\ Selective(SystemMonitor, {})
       /\ Selective(SystemMonitorDaemon, {}) /\ Selective(SystemMonitorPlugin, {})
       /\ Selective(SystemMonitorPopup, {}) /\ Selective(SystemMonitorServer, {})
  <2>1. DOMAIN OnlyOne(Usual) # {} /\ \A w \in DOMAIN OnlyOne(Usual) \ {} : Selects(OnlyOne(Usual)[w], w)
    BY RulesGiven, OnlyOneSelects
  <2>2. QED
    BY <2>1, PlainSelects, Zenon DEF DeepinDeviceManager, DtkRules, Monitor, SystemMonitor,
       SystemMonitorDaemon, SystemMonitorPlugin, SystemMonitorPopup, SystemMonitorServer
<1>11. \A f : IsFile(<<f>>)
  BY DEF IsFile
<1>12. /\ Selective(Systemd, {}) /\ Selective(Logind, {}) /\ Selective(Udev, {})
       /\ Selective(Pulseaudio, {})
  <2>1. DOMAIN SyslogLevels # {}
    <3>1. "on" \in DOMAIN SyslogLevels
      BY DEF SyslogLevels, :>, @@
    <3>2. QED BY <3>1
  <2>2. <<"/etc/systemd/system.conf.d">> # <<"/etc/systemd/user.conf.d">>
    OBVIOUS
  <2>3. Own(Systemd) = {<<"/etc/systemd/system.conf.d">>, <<"/etc/systemd/user.conf.d">>}
    BY <2>1, <2>2, TwoFiles DEF Systemd
  <2>4. \A x : Own(Override(<< <<x>> >>, SyslogLevels)) = {<<x>>}
    BY <2>1, OneFile DEF Variants
  <2>5. \A x : Selective(Override(<< <<x>> >>, SyslogLevels), {})
    BY <1>11, <2>4, FilesSelective
  <2>6. Selective(Systemd, {})
    BY <1>11, <2>3, FilesSelective
  <2>7. QED BY <2>5, <2>6, Zenon DEF Logind, Udev, Pulseaudio
<1>13. Selective(NetworkManager, {})
  <2> DEFINE levels == [w \in {"on", "debug"} |-> <<"TRACE">>] @@ ("warning" :> <<"WARN">>)
                         @@ ("off" :> Unset)
                         @@ [w \in {"TRACE", "DEBUG", "INFO", "WARN", "ERR", "OFF"} |-> <<w>>]
  <2>1. "on" \in DOMAIN levels
    BY DEF :>, @@
  <2> HIDE DEF levels
  <2>2. \A f : Own(WithoutSetE(Override(<<f>>, levels))) = {f}
    BY <2>1, OneFile DEF Variants
  <2>3. \A x : Selective(WithoutSetE(Override(<< <<x>> >>, levels)), {})
    BY <1>11, <2>2, FilesSelective
  <2>4. QED BY <2>3, Zenon DEF NetworkManager, levels
<1>14. Selective(Pipewire, {})
  <2> DEFINE levels == [w \in {"on", "debug"} |-> <<"4">>] @@ ("err" :> <<"1">>)
                         @@ ("warning" :> <<"2">>) @@ ("info" :> <<"3">>) @@ ("trace" :> <<"5">>)
                         @@ ("off" :> Unset)
             f == <<"/etc/pipewire/pipewire-pulse.conf.d">>
             g == <<"/etc/pipewire/pipewire.conf.d">>
  <2>1. "on" \in DOMAIN levels /\ f # g
    BY DEF :>, @@
  <2>2. Pipewire = Override(<<f, g>>, levels)
    BY Zenon DEF Pipewire
  <2>3. IsFile(f) /\ IsFile(g)
    BY <1>11
  <2> HIDE DEF levels, f, g
  <2>4. Own(Pipewire) = {f, g}
    BY <2>1, <2>2, TwoFiles
  <2>5. QED BY <2>3, <2>4, FilesSelective
<1>15. Selective(Wpa, {}) /\ Selective(Bluetooth, {})
  <2>1. \A f : Own(Switch(f)) = {f}
    BY SwitchGood
  <2>2. ASSUME NEW x PROVE Selective(Switch(<<x>>), {})
    <3>1. \A t \in Own(Switch(<<x>>)) : IsFile(t)
      BY <1>11, <2>1
    <3>2. QED BY <3>1, FilesSelective, Zenon
  <2>3. QED BY <2>2, Zenon DEF Wpa, Bluetooth
<1>16. Selective(DdeCooperation, {}) /\ Selective(DataTransfer, {})
  <2>1. \A f, d : Own(MinLogLevel(f, d)) = {f, d}
    BY MinLogLevelGood
  <2>2. ASSUME NEW x, NEW y PROVE Selective(MinLogLevel(<<x>>, <<y>>), {})
    <3>1. \A t \in Own(MinLogLevel(<<x>>, <<y>>)) : IsFile(t)
      BY <1>11, <2>1
    <3>2. QED BY <3>1, FilesSelective, Zenon
  <2>3. QED BY <2>2, Zenon DEF DdeCooperation, DataTransfer, CooperationDaemon
<1>17. Selective(Dde, {}) /\ Selective(SettingCoredump, {})
  <2>1. IsFile(DdeEnv) /\ IsFile(DdeOverride) /\ IsFile(CoredumpConf)
    BY <1>11 DEF DdeEnv, DdeOverride, CoredumpConf
  <2>2. QED BY <2>1, DdeGood, CoredumpGood, FilesSelective
<1>18. /\ Selective(Script["mail"], {}) /\ Selective(Script["terminal"], {})
       /\ Selective(Script["defender"], {}) /\ Selective(Script["fileManager"], {})
       /\ Selective(Script["printer"], {}) /\ Selective(Script["logViewer"], {})
       /\ Selective(Script["deepinid"], {}) /\ Selective(Script["appStore"], {})
       /\ Selective(Script["kwin"], {}) /\ Selective(Script["controlCenter"], {})
       /\ Selective(Script["dock"], {}) /\ Selective(Script["launcher"], {})
       /\ Selective(Script["lock"], {}) /\ Selective(Script["osd"], {})
  BY <1>5, <1>7, <1>9 DEF Script
<1>19. /\ Selective(Script["calendarClient"], {"error"})
       /\ Selective(Script["calendarPlugin"], {"error"})
       /\ Selective(Script["calendarService"], {"error"})
       /\ Selective(Script["deviceManager"], {}) /\ Selective(Script["monitor"], {})
       /\ Selective(Script["monitorDaemon"], {}) /\ Selective(Script["monitorPlugin"], {})
       /\ Selective(Script["monitorPopup"], {}) /\ Selective(Script["monitorServer"], {})
  BY <1>8, <1>10 DEF Script
<1>20. /\ Selective(Script["licenseAgent"], {}) /\ Selective(Script["licenseAppgui"], {})
       /\ Selective(Script["licenseCmd"], {}) /\ Selective(Script["licenseGui"], {})
       /\ Selective(Script["supportAgent"], {}) /\ Selective(Script["supportGui"], {})
       /\ Selective(Script["systemd"], {}) /\ Selective(Script["logind"], {})
       /\ Selective(Script["udev"], {}) /\ Selective(Script["pulseaudio"], {})
  BY <1>6, <1>12 DEF Script
<1>21. /\ Selective(Script["networkManager"], {}) /\ Selective(Script["pipewire"], {})
       /\ Selective(Script["wpa"], {}) /\ Selective(Script["bluetooth"], {})
       /\ Selective(Script["cooperation"], {}) /\ Selective(Script["dataTransfer"], {})
       /\ Selective(Script["dde"], {}) /\ Selective(Script["coredump"], {})
  BY <1>13, <1>14, <1>15, <1>16, <1>17 DEF Script
<1>22. QED BY <1>18, <1>19, <1>20, <1>21, NamesOfScripts, Zenon DEF Calendars

(* What is written is in force: the lists of rules mean what they are for. *)
LEMMA WrittenInForce ==
  ASSUME NEW s \in Scripts, Written(s), told[s] \in Script[s].words
  PROVE  InForce(s)
<1> DEFINE w == told[s]
           S == Script[s]
<1>1. s \in DOMAIN Script /\ TargetsOf[s] = Own(S)
  BY ScriptsAreKnown, TargetsAre
<1>2. \A t \in Own(S) : conf[t] = S.goal[w][t]
  BY GivenScripts DEF Written, WellMade
<1>3. \A t \in Own(S) : IsFile(t) \/ <<s, w>> \in Mistaken \/ Selects(conf[t], w)
  <2>1. CASE Selective(S, {})
    <3>1. w \in S.words \ {}
      OBVIOUS
    <3> HIDE DEF w, S
    <3>2. QED BY <1>2, <2>1, <3>1 DEF Selective
  <2>2. CASE s \in Calendars /\ Selective(S, {"error"})
    <3>1. CASE w = "error"
      <4>1. <<s, w>> \in Mistaken
        BY <2>2, <3>1 DEF Mistaken, Calendars
      <4>2. QED BY <4>1
    <3>2. CASE w # "error"
      <4>1. w \in S.words \ {"error"}
        BY <3>2
      <4> HIDE DEF w, S
      <4>2. QED BY <1>2, <2>2, <4>1 DEF Selective
    <3>3. QED BY <3>1, <3>2
  <2>3. QED BY <1>1, <2>1, <2>2, ScriptsSelect
<1>4. QED BY <1>1, <1>3 DEF InForce

(* All the scripts there are: what one with "set -e" has reported as done  *)
(* is in force when no script runs, after any runs of any scripts, however *)
(* many of their commands fail: no script meets one of these in a file or  *)
(* a key, none of them goes on after a command that failed, and the rules  *)
(* it writes select the level, but for "error" in those of the calendar.   *)
THEOREM StrictStaysInForce == Spec => []StrictInForce
<1>1. ForceInv => StrictInForce
  <2> SUFFICES ASSUME ForceInv, run = Idle, NEW s \in Scripts,
                      Script[s].strict, told[s] # Unknown
               PROVE  InForce(s)
    BY DEF StrictInForce
  <2>1. s \in Apart
    BY GivenScripts DEF Apart
  <2>2. Written(s) /\ told[s] \in Script[s].words
    BY <2>1 DEF ForceInv, Kept, Known, Rests, Counts
  <2>3. QED BY <2>2, WrittenInForce
<1>2. QED BY InitForce, NextForce, <1>1, PTL DEF Spec

(* All but the two scripts that edit a file which may be there without the *)
(* setting: a run in which no command failed is in force when no script    *)
(* runs, whatever failed in runs before and is run for other scripts; the  *)
(* word "error" of the calendar's scripts is as above.                     *)
THEOREM CleanStaysInForce ==
  ASSUME Scripts \cap Editing = {}
  PROVE  Spec => []CleanInForce
<1>1. ForceInv => CleanInForce
  <2> SUFFICES ASSUME ForceInv, run = Idle, NEW s \in Scripts, clean[s]
               PROVE  InForce(s)
    BY DEF CleanInForce
  <2>1. s \in Apart
    BY DEF Apart
  <2>2. Written(s) /\ told[s] \in Script[s].words
    BY <2>1 DEF ForceInv, Kept, Known, Rests, Counts
  <2>3. QED BY <2>2, WrittenInForce
<1>2. QED BY InitForce, NextForce, <1>1, PTL DEF Spec

-----------------------------------------------------------------------------
(* What "state" prints.                                                    *)

LEMMA UpToTells ==
  ASSUME NEW T, Usual \subseteq T, NEW p \in Seq(T), NEW q, NEW w \in Usual
  PROVE  /\ LastPart(UpTo(p, q)[w]) = w
         /\ Len(p) = 1 => SecondPart(UpTo(p, q)[w]) = w
<1>1. LastOn(UpTo(p, q)[w]) = On(Append(p, w))
  BY UpToIs
<1>2. LastOn(UpTo(p, q)[w]).path = Append(p, w)
  BY <1>1 DEF On
<1>3. Append(p, w)[Len(Append(p, w))] = w /\ Len(Append(p, w)) = Len(p) + 1
  OBVIOUS
<1>4. QED BY <1>2, <1>3 DEF LastPart, SecondPart

LEMMA ButQtTells ==
  ASSUME NEW w \in Usual
  PROVE  LastPart(ButQt[w]) = w
<1> DEFINE star == <<"*">>
           u == UpTo(star, star)[w]
           off == Off(<<"qt", "*", "debug">>)
           rules == ButQt[w]
<1>1. rules = u \o (IF w = "debug" THEN <<off>> ELSE <<>>)
  BY DEF ButQt
<1>2. /\ Index(w) \in 1 .. 3 /\ DOMAIN u = 1 .. Index(w)
      /\ u[Index(w)] = On(Append(star, w)) /\ \E T : u \in Seq(T)
  <2> HIDE DEF star
  <2>1. QED BY UpToIs
<1>3. ~ off.on
  BY DEF Off
<1>4. star \in Seq({"*"} \cup Usual)
  OBVIOUS
<1> HIDE DEF star, u, off, rules
<1>5. Len(u) = Index(w) /\ u \o <<>> = u
  BY <1>2
<1>6. u[Index(w)].on /\ u[Index(w)].path = Append(star, w)
  BY <1>2 DEF On
<1>7. LastOn(rules) = u[Index(w)]
  <2>1. CASE w = "debug"
    <3>1. rules = u \o <<off>>
      BY <1>1, <2>1
    <3>2. DOMAIN rules = 1 .. Index(w) + 1 /\ rules[Index(w) + 1] = off
      BY <1>2, <1>5, <3>1
    <3>3. rules[Index(w)] = u[Index(w)]
      BY <1>2, <1>5, <3>1
    <3>4. \A j \in 1 .. Index(w) + 1 : rules[j].on => j <= Index(w)
      BY <1>2, <1>3, <3>2
    <3>5. QED BY <1>2, <1>6, <3>2, <3>3, <3>4, LastOnIs
  <2>2. CASE w # "debug"
    <3>1. rules = u
      BY <1>1, <1>5, <2>2
    <3>2. QED BY <1>2, <1>6, <3>1, LastOnIs
  <2>3. QED BY <2>1, <2>2
<1>8. LastOn(rules).path = Append(star, w)
  BY <1>6, <1>7
<1>9. Append(star, w)[Len(Append(star, w))] = w
  BY <1>4
<1>10. QED BY <1>8, <1>9 DEF LastPart, rules

(* OnlyOne: the word is turned on, and nothing else.                       *)
LEMMA OnlyOneTells ==
  ASSUME NEW levels, \/ levels = Usual
                     \/ levels = {"debug", "info", "warning", "error"},
         NEW w \in levels
  PROVE  LastPart(OnlyOne(levels)[w]) = w
<1> DEFINE rules == OnlyOne(levels)[w]
           n == Cardinality(levels)
<1>1. n \in Nat /\ Index(w) \in 1 .. n /\ Order[Index(w)] = w
      /\ \A j \in 1 .. n : Order[j] = w => j = Index(w)
  BY LevelsCounted, IndexIs DEF Usual
<1>2. rules = [i \in 1 .. n |-> IF Order[i] = w THEN On(<<"*", w>>) ELSE Off(<<"*", Order[i]>>)]
  BY DEF OnlyOne
<1> HIDE DEF rules, n
<1>3. /\ DOMAIN rules = 1 .. n /\ rules[Index(w)] = On(<<"*", w>>)
      /\ \A j \in 1 .. n : j # Index(w) => rules[j] = Off(<<"*", Order[j]>>)
  BY <1>1, <1>2
<1>4. rules[Index(w)].on /\ \A j \in 1 .. n : rules[j].on => j = Index(w)
  BY <1>3 DEF On, Off
<1>5. LastOn(rules) = On(<<"*", w>>)
  BY <1>1, <1>3, <1>4, LastOnIs
<1>6. LastOn(rules).path = <<"*", w>>
  BY <1>5 DEF On
<1>7. QED BY <1>6 DEF LastPart, rules

(* The rule without a category is not the one that is on.                  *)
LEMMA CalendarTells ==
  ASSUME NEW w \in {"debug", "info", "warning", "error"}
  PROVE  LastPart(CalendarRules[w]) = w
<1> DEFINE levels == {"debug", "info", "warning", "error"}
           four == OnlyOne(levels)["error"]
           rules == CalendarRules["error"]
<1>1. DOMAIN OnlyOne(levels) = levels
  BY RulesGiven
<1>2. CASE w # "error"
  <2>1. CalendarRules[w] = OnlyOne(levels)[w]
    BY <1>1, <1>2 DEF CalendarRules
  <2>2. LastPart(OnlyOne(levels)[w]) = w
    BY OnlyOneTells
  <2>3. QED BY <2>1, <2>2
<1>3. CASE w = "error"
  <2>1. rules = [four EXCEPT ![1] = Off(<<NoCategory, "debug">>)]
    BY <1>1 DEF CalendarRules
  <2>2. four = [i \in 1 .. 4 |-> IF Order[i] = "error" THEN On(<<"*", "error">>)
                                                     ELSE Off(<<"*", Order[i]>>)]
    BY LevelsCounted DEF OnlyOne
  <2> HIDE DEF rules, four
  <2>3. DOMAIN rules = 1 .. 4 /\ rules[4] = On(<<"*", "error">>)
    <3>1. DOMAIN four = 1 .. 4 /\ four[4] = On(<<"*", "error">>)
      BY <2>2, IndexIs
    <3>2. QED BY <2>1, <3>1
  <2>4. rules[4].on /\ \A j \in 1 .. 4 : rules[j].on => j <= 4
    <3>1. rules[4].on
      BY <2>3, OnOff
    <3>2. \A j \in 1 .. 4 : j <= 4
      OBVIOUS
    <3>3. QED BY <3>1, <3>2, Zenon
  <2>5. LastOn(rules) = rules[4]
    <3>1. 4 \in Nat /\ 4 \in 1 .. 4
      OBVIOUS
    <3>2. QED BY <2>3, <2>4, <3>1, LastOnIs
  <2>6. LastOn(rules).path = <<"*", "error">>
    BY <2>3, <2>5, OnOff
  <2>7. QED BY <1>3, <2>6 DEF LastPart, rules
<1>4. QED BY <1>2, <1>3

(* A script with one key, whose "state" prints the word that was set.      *)
Tells(S) ==
  \E t : /\ Own(S) = {t}
         /\ \A w \in S.words :
              w = IF S.shows = "last" THEN LastPart(S.goal[w][t]) ELSE SecondPart(S.goal[w][t])

LEMMA KeyTells ==
  ASSUME NEW app, NEW id, NEW key, NEW rules, DOMAIN rules # {},
         NEW S, S \in Variants(Dconfig(app, id, key, rules)),
         \/ S.shows = "last" /\ \A w \in DOMAIN rules : LastPart(rules[w]) = w
         \/ S.shows # "last" /\ \A w \in DOMAIN rules : SecondPart(rules[w]) = w
  PROVE  Tells(S)
<1> DEFINE t == <<app, id, key>>
<1>1. Own(S) = {t} /\ S.words = DOMAIN rules /\ \A w \in S.words : S.goal[w][t] = rules[w]
  BY KeyGoal
<1> HIDE DEF t
<1>2. \A w \in S.words :
        w = IF S.shows = "last" THEN LastPart(S.goal[w][t]) ELSE SecondPart(S.goal[w][t])
  BY <1>1
<1>3. QED BY <1>1, <1>2, Zenon DEF Tells

LEMMA PlainTells ==
  ASSUME NEW app, NEW id, NEW key, NEW rules, DOMAIN rules # {},
         \A w \in DOMAIN rules : LastPart(rules[w]) = w
  PROVE  /\ Tells(Dconfig(app, id, key, rules))
         /\ Tells(WithoutSetE(Dconfig(app, id, key, rules)))
<1> DEFINE R == Dconfig(app, id, key, rules)
           S == WithoutSetE(R)
<1>1. R.shows = "last" /\ S.shows = "last"
  BY DEF Dconfig, WithoutSetE
<1>2. R \in Variants(R) /\ S \in Variants(R)
  BY Zenon DEF Variants
<1>3. R = Dconfig(app, id, key, rules)
  OBVIOUS
<1> HIDE DEF R, S
<1>4. Tells(R) /\ Tells(S)
  BY <1>1, <1>2, <1>3, KeyTells
<1>5. QED BY <1>4, Zenon DEF R, S

LEMMA UpToKeyTells ==
  ASSUME NEW app, NEW id, NEW key, NEW T, Usual \subseteq T, NEW p \in Seq(T), NEW q
  PROVE  Tells(Dconfig(app, id, key, UpTo(p, q)))
<1>1. DOMAIN UpTo(p, q) = Usual /\ Usual # {}
  BY RulesGiven
<1>2. \A w \in Usual : LastPart(UpTo(p, q)[w]) = w
  BY UpToTells
<1>3. QED BY <1>1, <1>2, PlainTells

(* The scripts whose "state" prints something else: kwin has a rule that   *)
(* is on behind the one for the level; those of license and                *)
(* uos-service-support split a rule at a dot of its category.              *)
Untelling ==
  {"kwin", "licenseAgent", "licenseAppgui", "licenseCmd", "licenseGui", "supportAgent", "supportGui"}
Silent(S) == S.shows = "nothing"

LEMMA ScriptsTell ==
  \A s \in DOMAIN Script : Tells(Script[s]) \/ s \in Untelling \/ Silent(Script[s])
<1>1. /\ Tells(DeepinMail) /\ Tells(DeepinTerminal) /\ Tells(DeepinDefender)
      /\ Tells(DdeFileManager) /\ Tells(DdePrinter) /\ Tells(DeepinLogViewer) /\ Tells(Deepinid)
  <2> DEFINE T == Usual \cup {"*mail*", "*terminal*", "*defender*", "*filemanager*", "*dde-printer*",
                              "*log", "viewer*", "deepin", "deepinid", "client"}
  <2>1. /\ <<"*mail*">> \in Seq(T) /\ <<"*terminal*">> \in Seq(T) /\ <<"*defender*">> \in Seq(T)
        /\ <<"*filemanager*">> \in Seq(T) /\ <<"*dde-printer*">> \in Seq(T)
        /\ <<"*log", "viewer*">> \in Seq(T) /\ <<"deepin", "deepinid", "client">> \in Seq(T)
        /\ Usual \subseteq T
    OBVIOUS
  <2> HIDE DEF T
  <2>2. \A p \in Seq(T) : \A q, app, id, key : Tells(Dconfig(app, id, key, UpTo(p, q)))
    BY <2>1, UpToKeyTells
  <2>3. QED
    BY <2>1, <2>2, Zenon DEF DeepinMail, DeepinTerminal, DeepinDefender, DdeFileManager, DdePrinter,
       DeepinLogViewer, Deepinid
<1>2. Tells(DeepinAppStore)
  <2> DEFINE p == <<"*app-store*">>
             T == Usual \cup {"*app-store*"}
             rules == UpTo(p, p)
             R == Dconfig("deepin-app-store", "org.deepin.app-store", "log_rules", rules)
             S == WithAwk(R)
  <2>1. S \in Variants(R) /\ S.shows = "second"
    <3>1. S \in Variants(R)
      BY Zenon DEF Variants
    <3>2. S.shows = "second"
      BY DEF WithAwk, Dconfig
    <3>3. QED BY <3>1, <3>2
  <2>2. p \in Seq(T) /\ Len(p) = 1 /\ Usual \subseteq T
    OBVIOUS
  <2>3. R = Dconfig("deepin-app-store", "org.deepin.app-store", "log_rules", rules)
    OBVIOUS
  <2>4. DeepinAppStore = S
    BY Zenon DEF DeepinAppStore
  <2> HIDE DEF p, T, R, S
  <2>5. DOMAIN rules # {} /\ \A w \in DOMAIN rules : SecondPart(rules[w]) = w
    BY <2>2, RulesGiven, UpToTells
  <2> HIDE DEF rules
  <2>6. QED BY <2>1, <2>3, <2>4, <2>5, KeyTells
<1>3. Tells(CalendarClient) /\ Tells(CalendarPlugin) /\ Tells(CalendarService)
  <2> DEFINE rules == CalendarRules
  <2>1. DOMAIN rules # {} /\ \A w \in DOMAIN rules : LastPart(rules[w]) = w
    BY RulesGiven, CalendarTells
  <2> HIDE DEF rules
  <2>2. \A part : Tells(Dconfig("org.deepin.dde.calendar", part, "log_rules", rules))
    BY <2>1, PlainTells
  <2>3. QED
    BY <2>2, Zenon DEF CalendarClient, CalendarPlugin, CalendarService, Calendar, rules
<1>4. /\ Tells(DdeControlCenter) /\ Tells(DdeDock) /\ Tells(DdeLauncher) /\ Tells(DdeLock)
      /\ Tells(DdeOsd)
  <2>1. DOMAIN ButQt # {} /\ \A w \in DOMAIN ButQt : LastPart(ButQt[w]) = w
    BY RulesGiven, ButQtTells
  <2>2. \A app, id, key : Tells(Dconfig(app, id, key, ButQt))
    BY <2>1, PlainTells
  <2>3. QED
    BY <2>2, Zenon DEF DdeControlCenter, DdeDock, DdeLauncher, DdeLock, DdeOsd, DtkRules
<1>5. /\ Tells(SystemMonitor) /\ Tells(SystemMonitorDaemon) /\ Tells(SystemMonitorPlugin)
      /\ Tells(SystemMonitorPopup) /\ Tells(SystemMonitorServer)
  <2> DEFINE rules == OnlyOne(Usual)
  <2>1. DOMAIN rules # {} /\ \A w \in DOMAIN rules : LastPart(rules[w]) = w
    BY RulesGiven, OnlyOneTells
  <2> HIDE DEF rules
  <2>2. \A app, id, key : Tells(WithoutSetE(Dconfig(app, id, key, rules)))
    BY <2>1, PlainTells
  <2>3. QED
    BY <2>2, Zenon DEF SystemMonitor, SystemMonitorDaemon, SystemMonitorPlugin, SystemMonitorPopup,
       SystemMonitorServer, Monitor, rules
<1>6. /\ Silent(DeepinDeviceManager) /\ Silent(Systemd) /\ Silent(Logind) /\ Silent(Udev)
      /\ Silent(Pulseaudio) /\ Silent(Pipewire) /\ Silent(NetworkManager)
  <2>1. \A S : Silent(WithoutState(S)) \/ "shows" \notin DOMAIN S
    BY DEF Silent, WithoutState
  <2>2. \A app, id, key, rules : "shows" \in DOMAIN Dconfig(app, id, key, rules)
    BY DEF Dconfig
  <2>3. \A files, levels, steps :
          /\ Silent(OverrideWith(files, levels, steps))
          /\ Silent(WithoutSetE(OverrideWith(files, levels, steps)))
    BY DEF OverrideWith, WithoutSetE, Silent
  <2>4. Silent(DeepinDeviceManager)
    BY <2>1, <2>2, Zenon DEF DeepinDeviceManager, DtkRules
  <2>5. QED
    BY <2>3, <2>4, Zenon DEF Systemd, Logind, Udev, Pulseaudio, Pipewire, NetworkManager, Override
<1>7. /\ Silent(Wpa) /\ Silent(Bluetooth) /\ Silent(DdeCooperation) /\ Silent(DataTransfer)
      /\ Silent(Dde) /\ Silent(SettingCoredump)
  BY DEF Silent, Wpa, Bluetooth, Switch, DdeCooperation, DataTransfer, MinLogLevel, Dde, SettingCoredump
<1>8. /\ Tells(Script["mail"]) /\ Tells(Script["terminal"]) /\ Tells(Script["defender"])
      /\ Tells(Script["fileManager"]) /\ Tells(Script["printer"]) /\ Tells(Script["logViewer"])
      /\ Tells(Script["deepinid"]) /\ Tells(Script["appStore"])
      /\ Tells(Script["calendarClient"]) /\ Tells(Script["calendarPlugin"])
      /\ Tells(Script["calendarService"]) /\ Tells(Script["controlCenter"])
      /\ Tells(Script["dock"]) /\ Tells(Script["launcher"]) /\ Tells(Script["lock"])
      /\ Tells(Script["osd"])
  BY <1>1, <1>2, <1>3, <1>4 DEF Script
<1>9. /\ Tells(Script["monitor"]) /\ Tells(Script["monitorDaemon"])
      /\ Tells(Script["monitorPlugin"]) /\ Tells(Script["monitorPopup"])
      /\ Tells(Script["monitorServer"]) /\ Silent(Script["deviceManager"])
      /\ Silent(Script["systemd"]) /\ Silent(Script["logind"]) /\ Silent(Script["udev"])
      /\ Silent(Script["pulseaudio"]) /\ Silent(Script["pipewire"])
      /\ Silent(Script["networkManager"])
  BY <1>5, <1>6 DEF Script
<1>10. /\ Silent(Script["wpa"]) /\ Silent(Script["bluetooth"]) /\ Silent(Script["cooperation"])
       /\ Silent(Script["dataTransfer"]) /\ Silent(Script["dde"]) /\ Silent(Script["coredump"])
  BY <1>7 DEF Script
<1>11. QED BY <1>8, <1>9, <1>10, NamesOfScripts, Zenon DEF Untelling

(* The scripts whose "state" is asked for: but for those of kwin, license  *)
(* and uos-service-support it prints the word of the last run that ended   *)
(* well, whatever failed before it and is run for other scripts.           *)
THEOREM StateTellsLevel ==
  ASSUME Reporting \cap Untelling = {}
  PROVE  Spec => []StateTells
<1>1. ForceInv => StateTells
  <2> SUFFICES ASSUME ForceInv, run = Idle, NEW s \in Reporting, clean[s]
               PROVE  Printed(s) = told[s]
    BY DEF StateTells
  <2> DEFINE S == Script[s]
  <2>1. s \in Scripts /\ s \in DOMAIN Script /\ ~ Silent(S)
    BY ReportingHaveState, ScriptsAreKnown DEF Silent
  <2>2. Tells(S)
    BY <2>1, ScriptsTell
  <2>3. s \in Apart
    <3>1. Silent(Script["cooperation"]) /\ Silent(Script["dataTransfer"])
      BY DEF Script, Silent, DdeCooperation, DataTransfer, MinLogLevel
    <3>2. QED BY <2>1, <3>1, Zenon DEF Apart, Editing
  <2>4. Written(s) /\ told[s] \in S.words
    BY <2>1, <2>3 DEF ForceInv, Kept, Known, Rests, Counts
  <2>5. PICK t : /\ Own(S) = {t}
                 /\ \A w \in S.words : w = IF S.shows = "last" THEN LastPart(S.goal[w][t])
                                                              ELSE SecondPart(S.goal[w][t])
    BY <2>2, Zenon DEF Tells
  <2>6. conf[t] = S.goal[told[s]][t]
    BY <2>1, <2>4, <2>5, GivenScripts DEF Written, WellMade
  <2>7. (CHOOSE x \in TargetsOf[s] : TRUE) = t
    BY <2>1, <2>5, TargetsAre
  <2>8. Printed(s) = IF S.shows = "last" THEN LastPart(conf[t]) ELSE SecondPart(conf[t])
    <3> DEFINE k == CHOOSE x \in TargetsOf[s] : TRUE
    <3>1. Printed(s) = IF S.shows = "last" THEN LastPart(conf[k]) ELSE SecondPart(conf[k])
      BY DEF Printed
    <3>2. k = t
      BY <2>7
    <3> HIDE DEF k
    <3>3. QED BY <3>1, <3>2
  <2> HIDE DEF S
  <2>9. LastPart(conf[t]) = LastPart(S.goal[told[s]][t])
    BY <2>6
  <2>10. SecondPart(conf[t]) = SecondPart(S.goal[told[s]][t])
    BY <2>6
  <2>11. CASE S.shows = "last"
    BY <2>4, <2>5, <2>8, <2>9, <2>11
  <2>12. CASE S.shows # "last"
    BY <2>4, <2>5, <2>8, <2>10, <2>12
  <2>13. QED BY <2>11, <2>12
<1>2. QED BY InitForce, NextForce, <1>1, PTL DEF Spec

=============================================================================
