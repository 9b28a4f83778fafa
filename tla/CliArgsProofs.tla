--------------------------- MODULE CliArgsProofs ---------------------------
(***************************************************************************)
(* Theorems about CliArgs, for command lines of any words and length: the  *)
(* indices of getopt and of main stay within the words, what main keeps is *)
(* a word of the line or a part of one, what it calls in the end is        *)
(* complete and, where it changes a setting, root's, and it is what the    *)
(* command line says; and a line in the usual order is obeyed.             *)
(***************************************************************************)
EXTENDS CliArgs, SequenceTheorems, WellFoundedInduction, TLAPS

-----------------------------------------------------------------------------
(* The inductive invariant.                                                *)

Texts == Words \cup {Attached(w) : w \in Words} \cup {NoWord}
Switches == {On, Off, NoWord}
Configs ==
  [set : BOOLEAN, get : BOOLEAN, names : Texts, level : Words \cup {NoWord},
   coredump : Switches, show_level : BOOLEAN, show_coredump : BOOLEAN, pkg : Texts]

Lines ==
  /\ line \in Seq(Words)
  /\ argv \in [1 .. Len(line) -> Words]

(* What getopt has stepped over lies before the word it looks at next, and *)
(* within a word there is one more option to come.                         *)
Indices ==
  /\ optind \in 1 .. argc
  /\ nonopts.first \in Nat /\ nonopts.last \in Nat
  /\ 1 <= nonopts.first /\ nonopts.first <= nonopts.last /\ nonopts.last <= optind
  /\ letter \in Nat \ {0}
  /\ letter > 1 => optind < argc /\ letter <= Len(LettersOf(argv[optind]))

Counts ==
  /\ argidx \in Nat \ {0}
  /\ pc = "options" => argidx = optind \/ argidx >= argc

Places ==
  /\ uid \in {"unasked", "root", "other"}
  /\ pc \in {"options", "check", "act", "exit"}
  /\ exit \in {"none", "ok", "error", "no_table"}

(* Nothing is called before the settings are known to be complete.         *)
Stages ==
  /\ pc \in {"options", "check", "act"} => calls = <<>>
  /\ pc = "act" => CheckGCfgIsValid

(* A call that changes a setting is root's, and has all that it needs: the *)
(* modules and a level of the command line for the levels, which are then  *)
(* checked; a switch for coredump; a name for the packages.                *)
Changing == {"set", "coredump", "install"}
ChangesComplete ==
  \A i \in DOMAIN calls :
    LET c == calls[i] IN
    /\ c.call \in Changing => i = 1 /\ uid = "root" /\ ~ cfg.get
    /\ c.call = "set" =>
         /\ c.names # NoWord /\ c.level \in Words
         /\ Len(calls) = 2 /\ calls[2] = [call |-> "check_log"]
    /\ c.call = "coredump" => c.to \in {On, Off} \ {NoWord} /\ Len(calls) = 1
    /\ c.call = "install" => c.names # NoWord /\ Len(calls) = 1

Inv == Lines /\ Indices /\ Counts /\ cfg \in Configs /\ Places /\ Stages /\ ChangesComplete

LEMMA InvType == Inv => TypeOK
<1> SUFFICES ASSUME Inv PROVE TypeOK
  OBVIOUS
<1>1. Len(line) \in Nat /\ DOMAIN line = 1 .. Len(line)
  BY LenProperties DEF Inv, Lines
<1>2. DOMAIN argv = DOMAIN line /\ \A i \in DOMAIN argv : argv[i] \in Words
  BY <1>1 DEF Inv, Lines
<1>3. nonopts.first \in 1 .. argc /\ nonopts.last \in 1 .. argc
  BY <1>1 DEF Inv, Indices, argc
<1>4. /\ cfg.set \in BOOLEAN /\ cfg.get \in BOOLEAN
      /\ cfg.show_level \in BOOLEAN /\ cfg.show_coredump \in BOOLEAN
  BY Zenon DEF Inv, Configs
<1>5. cfg.names \in Texts /\ cfg.pkg \in Texts /\ cfg.level \in Words \cup {NoWord}
  BY Zenon DEF Inv, Configs
<1>6. {cfg.names, cfg.pkg, cfg.level} \subseteq Words \cup {Attached(w) : w \in Words} \cup {NoWord}
  BY <1>5, Zenon DEF Texts
<1>7. cfg.coredump \in {On, Off, NoWord}
  BY Zenon DEF Inv, Configs, Switches
<1>8. QED
  BY <1>2, <1>3, <1>4, <1>6, <1>7, Zenon DEF Inv, Lines, Indices, Counts, Places, TypeOK

-----------------------------------------------------------------------------
(* getopt.                                                                 *)

LEMMA LeastElement ==
  ASSUME NEW S \in SUBSET Nat, S # {}
  PROVE  \E i \in S : \A j \in S : ~ (j < i)
<1> DEFINE R == {ss \in Nat \X Nat : ss[1] < ss[2]}
<1>1. IsWellFoundedOn(R, Nat)
  BY NatLessThanWellFounded DEF OpToRel
<1>2. PICK x \in S : \A y \in S : ~ (<<y, x>> \in R)
  BY <1>1, WFMin
<1>3. QED BY <1>2

LEMMA ArgcProperties ==
  ASSUME Inv
  PROVE  Len(line) \in Nat /\ argc \in Nat /\ 1 <= argc /\ argc - 1 = Len(line)
BY LenProperties DEF Inv, Lines, argc

(* Two neighbouring stretches of words change places.                      *)
LEMMA ExchangeType ==
  ASSUME NEW n \in Nat, NEW a \in [1 .. n -> Words], NEW from \in Nat, NEW mid \in Nat, NEW to \in Nat,
         1 <= from, from <= mid, mid <= to, to <= n + 1
  PROVE  Exchange(a, from, mid, to) \in [1 .. n -> Words]
<1>1. ASSUME NEW i \in 1 .. n
      PROVE  (IF i < from \/ i >= to THEN a[i]
              ELSE IF i < from + (to - mid) THEN a[i + (mid - from)]
              ELSE a[i - (to - mid)]) \in Words
  <2>1. CASE i < from \/ i >= to
    BY <2>1
  <2>2. CASE ~ (i < from \/ i >= to) /\ i < from + (to - mid)
    <3>1. i + (mid - from) \in 1 .. n
      BY <2>2
    <3>2. QED BY <2>2, <3>1
  <2>3. CASE ~ (i < from \/ i >= to) /\ ~ (i < from + (to - mid))
    <3>1. i - (to - mid) \in 1 .. n
      BY <2>3
    <3>2. QED BY <2>3, <3>1
  <2>4. QED BY <2>1, <2>2, <2>3
<1>2. QED BY <1>1 DEF Exchange

LEMMA ArrangedType ==
  ASSUME Inv
  PROVE  Arranged \in [1 .. Len(line) -> Words]
<1>1. CASE letter > 1 \/ ~ MustExchange
  BY <1>1, Zenon DEF Arranged, Inv, Lines
<1>2. CASE ~ (letter > 1) /\ MustExchange
  <2>1. Exchange(argv, nonopts.first, nonopts.last, optind) \in [1 .. Len(line) -> Words]
    <3>1. optind \in Nat /\ optind <= Len(line) + 1 /\ Len(line) \in Nat
      BY ArgcProperties DEF Inv, Indices
    <3>2. QED BY <3>1, ExchangeType DEF Inv, Indices, Lines
  <2>2. QED BY <1>2, <2>1, Zenon DEF Arranged
<1>3. QED BY <1>1, <1>2, Zenon

(* The next word lies ahead, and unless it is the end it has a letter left *)
(* for getopt to return.                                                   *)
LEMMA NextWordProperties ==
  ASSUME Inv
  PROVE  /\ NextWord \in optind .. argc
         /\ NextWord # argc => /\ Arranged[NextWord] \in Words
                               /\ letter <= Len(LettersOf(Arranged[NextWord]))
<1>0. argc \in Nat /\ 1 <= argc /\ optind \in 1 .. argc /\ letter \in Nat \ {0} /\ Len(line) = argc - 1
  BY ArgcProperties DEF Inv, Indices
<1>1. CASE letter > 1
  <2>1. NextWord = optind /\ Arranged = argv
    BY <1>1, Zenon DEF NextWord, Arranged
  <2>2. optind < argc /\ letter <= Len(LettersOf(argv[optind]))
    BY <1>1 DEF Inv, Indices
  <2>3. argv[optind] \in Words
    BY <1>0, <2>2 DEF Inv, Lines
  <2>4. QED BY <1>0, <2>1, <2>2, <2>3
<1>2. CASE ~ (letter > 1)
  <2> DEFINE P(i) == /\ i = argc \/ IsOption(Arranged[i])
                     /\ \A j \in optind .. i - 1 : ~ IsOption(Arranged[j])
             S == {i \in optind .. argc : i = argc \/ IsOption(Arranged[i])}
  <2>1. \E i \in optind .. argc : P(i)
    <3>1. S \in SUBSET Nat /\ argc \in S
      BY <1>0
    <3>2. PICK i \in S : \A j \in S : ~ (j < i)
      BY <3>1, LeastElement
    <3>3. \A j \in optind .. i - 1 : ~ IsOption(Arranged[j])
      BY <1>0, <3>2
    <3>4. QED BY <3>2, <3>3
  <2>2. NextWord = CHOOSE i \in optind .. argc : P(i)
    BY <1>2, Zenon DEF NextWord
  <2>3. NextWord \in optind .. argc /\ P(NextWord)
    BY <2>1, <2>2, Zenon
  <2>4. ASSUME NextWord # argc
        PROVE  Arranged[NextWord] \in Words /\ letter <= Len(LettersOf(Arranged[NextWord]))
    <3>1. NextWord \in 1 .. Len(line)
      BY <1>0, <2>3, <2>4
    <3>2. Arranged[NextWord] \in Words
      BY <3>1, ArrangedType
    <3>3. LettersOf(Arranged[NextWord]) # <<>>
      BY <2>3, <2>4, Zenon DEF IsOption
    <3>4. LettersOf(Arranged[NextWord]) \in Seq(STRING)
      BY <3>2, LettersGiven
    <3>5. Len(LettersOf(Arranged[NextWord])) \in Nat \ {0}
      BY <3>3, <3>4, EmptySeq, LenProperties
    <3>6. letter = 1
      BY <1>0, <1>2
    <3>7. QED BY <3>2, <3>5, <3>6
  <2>5. QED BY <2>3, <2>4, Zenon
<1>3. QED BY <1>1, <1>2, Zenon

(* What getopt returns for an option it knows.                             *)
Known == {"s", "g", "m", "i", "t", "l", "c", "h"}

LEMMA OptionProperties ==
  ASSUME Inv, Option \in Known
  PROVE  /\ NextWord # argc
         /\ Option = LettersOf(Arranged[NextWord])[letter]
         /\ Option \in WithParameter /\ Attached(Arranged[NextWord]) = NoWord
              => NextWord + 1 # argc
<1>1. Option # "end" /\ Option # "?"
  BY DEF Known
<1>2. NextWord # argc
  BY <1>1, Zenon DEF Option
<1>3. QED BY <1>1, <1>2, Zenon DEF Option

LEMMA OptArgType ==
  ASSUME Inv, Option \in Known \cap WithParameter
  PROVE  OptArg \in Texts
<1>1. /\ NextWord # argc
      /\ Attached(Arranged[NextWord]) = NoWord => NextWord + 1 # argc
  BY OptionProperties
<1>2. NextWord \in optind .. argc /\ Arranged[NextWord] \in Words
  BY <1>1, NextWordProperties
<1>3. CASE Attached(Arranged[NextWord]) # NoWord
  BY <1>2, <1>3, Zenon DEF OptArg, Texts
<1>4. CASE Attached(Arranged[NextWord]) = NoWord
  <2>1. NextWord + 1 \in 1 .. Len(line)
    BY <1>1, <1>2, <1>4, ArgcProperties DEF Inv, Indices
  <2>2. Arranged[NextWord + 1] \in Words
    BY <2>1, ArrangedType
  <2>3. QED BY <1>4, <2>2, Zenon DEF OptArg, Texts
<1>5. QED BY <1>3, <1>4

(* Where getopt stands after it: within the words, and in the midst of one *)
(* only where that has another option.                                     *)
LEMMA OptIndProperties ==
  ASSUME Inv, Option \in Known
  PROVE  /\ OptIndAfter \in NextWord .. argc
         /\ ~ WordDone => /\ OptIndAfter = NextWord /\ NextWord < argc
                          /\ letter + 1 <= Len(LettersOf(Arranged[NextWord]))
<1>1. /\ NextWord # argc
      /\ Option = LettersOf(Arranged[NextWord])[letter]
      /\ Option \in WithParameter /\ Attached(Arranged[NextWord]) = NoWord => NextWord + 1 # argc
  BY OptionProperties
<1>2. /\ NextWord \in optind .. argc /\ Arranged[NextWord] \in Words
      /\ letter <= Len(LettersOf(Arranged[NextWord]))
  BY <1>1, NextWordProperties
<1>3. LettersOf(Arranged[NextWord]) \in Seq(STRING)
  BY <1>2, LettersGiven
<1>4. /\ argc \in Nat /\ optind \in Nat /\ letter \in Nat \ {0}
      /\ Len(LettersOf(Arranged[NextWord])) \in Nat
  BY <1>3, ArgcProperties, LenProperties DEF Inv, Indices
<1>5. NextWord \in Nat /\ NextWord < argc
  BY <1>1, <1>2, <1>4
<1>6. ASSUME ~ WordDone
      PROVE  Option \notin WithParameter /\ letter + 1 <= Len(LettersOf(Arranged[NextWord]))
  <2>1. letter \in 1 .. Len(LettersOf(Arranged[NextWord])) - 1
    <3> DEFINE n == Len(LettersOf(Arranged[NextWord]))
    <3>1. letter # n /\ letter <= n /\ n \in Nat
      BY <1>2, <1>4, <1>6, Zenon DEF WordDone
    <3> HIDE DEF n
    <3>2. letter \in 1 .. n - 1
      BY <1>4, <3>1
    <3>3. QED BY <3>2 DEF n
  <2>2. LettersOf(Arranged[NextWord])[letter] \notin WithParameter
    BY <1>2, <2>1, ParameterEndsWord, Zenon
  <2>3. Option \notin WithParameter
    BY <1>1, <2>2, Zenon
  <2>4. letter + 1 <= Len(LettersOf(Arranged[NextWord]))
    BY <1>4, <2>1
  <2>5. QED BY <2>3, <2>4
<1>7. CASE Option \in WithParameter /\ Attached(Arranged[NextWord]) = NoWord
  <2>1. OptIndAfter = NextWord + 2
    BY <1>7, Zenon DEF OptIndAfter
  <2>2. WordDone
    BY <1>6, <1>7, Zenon
  <2>3. QED BY <1>1, <1>4, <1>5, <1>7, <2>1, <2>2
<1>8. CASE ~ (Option \in WithParameter /\ Attached(Arranged[NextWord]) = NoWord)
  <2>1. OptIndAfter = IF WordDone THEN NextWord + 1 ELSE NextWord
    BY <1>8, Zenon DEF OptIndAfter
  <2>2. QED BY <1>4, <1>5, <1>6, <2>1
<1>9. QED BY <1>7, <1>8, Zenon

LEMMA FirstNonoptProperties ==
  ASSUME Inv
  PROVE  /\ FirstNonopt \in Nat /\ 1 <= FirstNonopt
         /\ FirstNonopt <= IF letter > 1 THEN nonopts.last ELSE optind
<1>1. CASE letter > 1
  BY <1>1 DEF FirstNonopt, Inv, Indices
<1>2. CASE ~ (letter > 1) /\ MustExchange
  BY <1>2, ArgcProperties DEF FirstNonopt, Inv, Indices
<1>3. CASE ~ (letter > 1) /\ ~ MustExchange
  BY <1>3, ArgcProperties DEF FirstNonopt, Inv, Indices, MustExchange
<1>4. QED BY <1>1, <1>2, <1>3

(* getopt as a whole.                                                      *)
LEMMA GetOptKeeps ==
  ASSUME Inv, Option \in Known, GetOpt, line' = line
  PROVE  Lines' /\ Indices' /\ optind' = OptIndAfter /\ argc' = argc
<1>1. /\ NextWord # argc /\ NextWord \in optind .. argc
      /\ Arranged[NextWord] \in Words
      /\ letter <= Len(LettersOf(Arranged[NextWord]))
  BY OptionProperties, NextWordProperties
<1>2. /\ argc \in Nat /\ optind \in Nat /\ 1 <= optind /\ letter \in Nat \ {0}
      /\ nonopts.last \in Nat /\ nonopts.first \in Nat
      /\ nonopts.first <= nonopts.last /\ nonopts.last <= optind
  BY ArgcProperties DEF Inv, Indices
<1>3. argc' = argc
  BY DEF argc
<1>4. Lines'
  BY ArrangedType DEF Lines, GetOpt, Inv
<1>5. /\ nonopts'.first = FirstNonopt
      /\ nonopts'.last = IF letter > 1 THEN nonopts.last ELSE NextWord
      /\ argv' = Arranged /\ optind' = OptIndAfter
      /\ letter' = IF WordDone THEN 1 ELSE letter + 1
  BY DEF GetOpt
<1>6. optind' \in 1 .. argc'
  BY <1>1, <1>2, <1>3, <1>5, OptIndProperties
<1>7. /\ nonopts'.first \in Nat /\ nonopts'.last \in Nat
      /\ 1 <= nonopts'.first /\ nonopts'.first <= nonopts'.last /\ nonopts'.last <= optind'
  <2>1. CASE letter > 1
    BY <1>1, <1>2, <1>5, <2>1, FirstNonoptProperties, OptIndProperties
  <2>2. CASE ~ (letter > 1)
    BY <1>1, <1>2, <1>5, <2>2, FirstNonoptProperties, OptIndProperties
  <2>3. QED BY <2>1, <2>2
<1>8. /\ letter' \in Nat \ {0}
      /\ letter' > 1 => optind' < argc' /\ letter' <= Len(LettersOf(argv'[optind']))
  <2>1. CASE WordDone
    BY <1>5, <2>1
  <2>2. CASE ~ WordDone
    <3>1. letter' = letter + 1
      BY <1>5, <2>2, Zenon
    <3>2. OptIndAfter = NextWord /\ NextWord < argc
          /\ letter + 1 <= Len(LettersOf(Arranged[NextWord]))
      BY <2>2, OptIndProperties
    <3>3. LettersOf(argv'[optind']) = LettersOf(Arranged[NextWord])
      BY <1>5, <3>2, Zenon
    <3>4. QED BY <1>2, <1>3, <1>5, <3>1, <3>2, <3>3
  <2>3. QED BY <2>1, <2>2
<1>9. Indices'
  BY <1>6, <1>7, <1>8, Zenon DEF Indices
<1>10. QED BY <1>3, <1>4, <1>5, <1>9

-----------------------------------------------------------------------------
(* The steps.                                                              *)

LEMMA InitInv == Init => Inv
<1> SUFFICES ASSUME Init PROVE Inv
  OBVIOUS
<1>1. PICK n \in 0 .. MaxWords : line \in [1 .. n -> Words]
  BY Zenon DEF Init, CommandLines
<1>2. n \in Nat
  BY <1>1, BoundGiven
<1>3. line \in Seq(Words) /\ Len(line) = n
  BY <1>1, <1>2, SeqDef, LenProperties
<1>4. Lines
  BY <1>1, <1>3 DEF Lines, Init
<1>5. argc = n + 1
  BY <1>3 DEF argc
<1>6. Indices
  BY <1>2, <1>5 DEF Indices, Init
<1>7. Counts
  BY DEF Counts, Init
<1>8. cfg \in Configs
  BY DEF Init, NoCfg, Configs, Texts, Switches
<1>9. Places /\ Stages
  BY DEF Places, Stages, Init
<1>10. ChangesComplete
  BY DEF ChangesComplete, Init
<1>11. QED BY <1>4, <1>6, <1>7, <1>8, <1>9, <1>10 DEF Inv

(* A step in which main gives up.                                          *)
LEMMA FailKeeps ==
  ASSUME Inv, Fail, Quit
  PROVE  Inv'
<1>1. /\ line' = line /\ uid' = uid /\ argv' = argv /\ optind' = optind /\ letter' = letter
      /\ nonopts' = nonopts /\ argidx' = argidx /\ cfg' = cfg /\ calls' = calls
  BY DEF Quit, getopt
<1>2. Lines' /\ Indices'
  BY <1>1 DEF Inv, Lines, Indices, argc
<1>3. Counts' /\ Places' /\ Stages'
  BY <1>1 DEF Inv, Counts, Places, Stages, Fail
<1>4. ChangesComplete'
  BY <1>1 DEF Inv, ChangesComplete
<1>5. cfg' \in Configs
  BY <1>1 DEF Inv
<1>6. QED BY <1>2, <1>3, <1>4, <1>5, Zenon DEF Inv

(* A step in which main counts the option's words.                         *)
LEMMA CountedKeeps ==
  ASSUME Inv, pc = "options", Option \in Known,
         NEW n \in Nat, n > 0, NEW c \in Configs, Counted(n, c)
  PROVE  Inv'
<1>1. /\ GetOpt /\ line' = line /\ uid' = uid /\ calls' = calls /\ argidx' = n /\ cfg' = c
      /\ IF Disagree(n) THEN Fail ELSE pc' = pc /\ exit' = exit
  BY DEF Counted
<1>2. Lines' /\ Indices' /\ optind' = OptIndAfter /\ argc' = argc
  BY <1>1, GetOptKeeps
<1>3. calls = <<>>
  BY DEF Inv, Stages
<1>4. /\ pc' \in {"options", "exit"} /\ exit' \in {"none", "ok", "error", "no_table"}
      /\ pc' = "options" => ~ Disagree(n)
  BY <1>1, Zenon DEF Fail, Inv, Places
<1>5. Counts'
  <2>1. pc' = "options" => n >= argc \/ n = OptIndAfter
    BY <1>4, ArgcProperties DEF Disagree
  <2>2. QED BY <1>1, <1>2, <2>1 DEF Counts
<1>6. Places'
  BY <1>1, <1>4 DEF Inv, Places
<1>7. Stages'
  BY <1>1, <1>3, <1>4 DEF Stages
<1>8. ChangesComplete'
  BY <1>1, <1>3 DEF ChangesComplete
<1>9. QED BY <1>1, <1>2, <1>5, <1>6, <1>7, <1>8, Zenon DEF Inv

(* Main's own parameter is a word.                                         *)
LEMMA ParameterType ==
  ASSUME Inv, HasParameter
  PROVE  Parameter \in Words
<1>1. argidx + 1 \in 1 .. Len(line)
  BY ArgcProperties DEF Inv, Counts, HasParameter
<1>2. QED BY <1>1, ArrangedType DEF Parameter

LEMMA ConfigType ==
  ASSUME NEW r \in Configs
  PROVE  /\ [r EXCEPT !.set = TRUE] \in Configs
         /\ [r EXCEPT !.get = TRUE] \in Configs
         /\ [r EXCEPT !.show_level = TRUE] \in Configs
         /\ [r EXCEPT !.show_coredump = TRUE] \in Configs
         /\ \A x \in Texts : [r EXCEPT !.names = x] \in Configs /\ [r EXCEPT !.pkg = x] \in Configs
         /\ \A x \in Words : [r EXCEPT !.level = x] \in Configs
         /\ \A x \in Switches : [r EXCEPT !.coredump = x] \in Configs
BY DEF Configs

LEMMA OptSetKeeps == Inv /\ OptSet => Inv'
<1> SUFFICES ASSUME Inv, OptSet PROVE Inv'
  OBVIOUS
<1>1. pc = "options" /\ Option \in Known /\ cfg \in Configs
  BY DEF OptSet, Known, Inv
<1>2. argidx + 1 \in Nat /\ argidx + 1 > 0
  BY DEF Inv, Counts
<1>3. CASE cfg.get
  BY <1>3, FailKeeps, Zenon DEF OptSet
<1>4. CASE ~ cfg.get
  <2>1. Counted(argidx + 1, [cfg EXCEPT !.set = TRUE])
    BY <1>4, Zenon DEF OptSet
  <2>2. [cfg EXCEPT !.set = TRUE] \in Configs
    BY <1>1, ConfigType
  <2>3. QED BY <1>1, <1>2, <2>1, <2>2, CountedKeeps
<1>5. QED BY <1>3, <1>4

LEMMA OptGetKeeps == Inv /\ OptGet => Inv'
<1> SUFFICES ASSUME Inv, OptGet PROVE Inv'
  OBVIOUS
<1>1. pc = "options" /\ Option \in Known /\ cfg \in Configs
  BY DEF OptGet, Known, Inv
<1>2. argidx + 1 \in Nat /\ argidx + 1 > 0
  BY DEF Inv, Counts
<1>3. CASE cfg.set
  BY <1>3, FailKeeps, Zenon DEF OptGet
<1>4. CASE ~ cfg.set
  <2>1. Counted(argidx + 1, [cfg EXCEPT !.get = TRUE])
    BY <1>4, Zenon DEF OptGet
  <2>2. [cfg EXCEPT !.get = TRUE] \in Configs
    BY <1>1, ConfigType
  <2>3. QED BY <1>1, <1>2, <2>1, <2>2, CountedKeeps
<1>5. QED BY <1>3, <1>4

LEMMA OptModuleKeeps == Inv /\ OptModule => Inv'
<1> SUFFICES ASSUME Inv, OptModule PROVE Inv'
  OBVIOUS
<1>1. pc = "options" /\ Option \in Known \cap WithParameter /\ cfg \in Configs
  BY DEF OptModule, Known, WithParameter, Inv
<1>2. argidx + 2 \in Nat /\ argidx + 2 > 0
  BY DEF Inv, Counts
<1>3. [cfg EXCEPT !.names = OptArg] \in Configs
  BY <1>1, ConfigType, OptArgType
<1>4. QED BY <1>1, <1>2, <1>3, CountedKeeps DEF OptModule

LEMMA OptInstallKeeps == Inv /\ OptInstall => Inv'
<1> SUFFICES ASSUME Inv, OptInstall PROVE Inv'
  OBVIOUS
<1>1. pc = "options" /\ Option \in Known \cap WithParameter /\ cfg \in Configs
  BY DEF OptInstall, Known, WithParameter, Inv
<1>2. argidx + 2 \in Nat /\ argidx + 2 > 0
  BY DEF Inv, Counts
<1>3. [cfg EXCEPT !.pkg = OptArg] \in Configs
  BY <1>1, ConfigType, OptArgType
<1>4. QED BY <1>1, <1>2, <1>3, CountedKeeps DEF OptInstall

LEMMA OptLevelKeeps == Inv /\ OptLevel => Inv'
<1> SUFFICES ASSUME Inv, OptLevel PROVE Inv'
  OBVIOUS
<1>1. pc = "options" /\ Option \in Known /\ cfg \in Configs
  BY DEF OptLevel, Known, Inv
<1>2. argidx + 1 \in Nat /\ argidx + 1 > 0 /\ argidx + 2 \in Nat /\ argidx + 2 > 0
  BY DEF Inv, Counts
<1>3. CASE cfg.set /\ HasParameter
  <2>1. Counted(argidx + 2, [cfg EXCEPT !.level = Parameter])
    BY <1>3, Zenon DEF OptLevel
  <2>2. [cfg EXCEPT !.level = Parameter] \in Configs
    BY <1>1, <1>3, ConfigType, ParameterType
  <2>3. QED BY <1>1, <1>2, <2>1, <2>2, CountedKeeps
<1>4. CASE ~ cfg.set /\ cfg.get
  <2>1. Counted(argidx + 1, [cfg EXCEPT !.show_level = TRUE])
    BY <1>4, Zenon DEF OptLevel
  <2>2. [cfg EXCEPT !.show_level = TRUE] \in Configs
    BY <1>1, ConfigType
  <2>3. QED BY <1>1, <1>2, <2>1, <2>2, CountedKeeps
<1>5. CASE IF cfg.set THEN ~ HasParameter ELSE ~ cfg.get
  <2>1. Fail /\ Quit
    BY <1>5, Zenon DEF OptLevel
  <2>2. QED BY <2>1, FailKeeps
<1>6. QED BY <1>3, <1>4, <1>5, Zenon

LEMMA OptCoredumpKeeps == Inv /\ OptCoredump => Inv'
<1> SUFFICES ASSUME Inv, OptCoredump PROVE Inv'
  OBVIOUS
<1>1. pc = "options" /\ Option \in Known /\ cfg \in Configs
  BY DEF OptCoredump, Known, Inv
<1>2. argidx + 1 \in Nat /\ argidx + 1 > 0 /\ argidx + 2 \in Nat /\ argidx + 2 > 0
  BY DEF Inv, Counts
<1>3. CASE cfg.set /\ HasParameter /\ IsSwitch(Parameter)
  <2>1. Counted(argidx + 2, [cfg EXCEPT !.coredump = Parameter])
    BY <1>3, Zenon DEF OptCoredump
  <2>2. Parameter \in Switches
    BY <1>3, Zenon DEF IsSwitch, Switches
  <2>3. [cfg EXCEPT !.coredump = Parameter] \in Configs
    BY <1>1, <2>2, ConfigType
  <2>4. QED BY <1>1, <1>2, <2>1, <2>3, CountedKeeps
<1>4. CASE ~ cfg.set /\ cfg.get
  <2>1. Counted(argidx + 1, [cfg EXCEPT !.show_coredump = TRUE])
    BY <1>4, Zenon DEF OptCoredump
  <2>2. [cfg EXCEPT !.show_coredump = TRUE] \in Configs
    BY <1>1, ConfigType
  <2>3. QED BY <1>1, <1>2, <2>1, <2>2, CountedKeeps
<1>5. CASE IF cfg.set THEN ~ (HasParameter /\ IsSwitch(Parameter)) ELSE ~ cfg.get
  <2>1. Fail /\ Quit
    BY <1>5, Zenon DEF OptCoredump
  <2>2. QED BY <2>1, FailKeeps
<1>6. QED BY <1>3, <1>4, <1>5, Zenon

LEMMA HelpKeeps == Inv /\ Help => Inv'
<1> SUFFICES ASSUME Inv, Help PROVE Inv'
  OBVIOUS
<1>1. /\ line' = line /\ uid' = uid /\ argv' = argv /\ optind' = optind /\ letter' = letter
      /\ nonopts' = nonopts /\ argidx' = argidx /\ cfg' = cfg
  BY DEF Help, getopt
<1>2. Lines' /\ Indices' /\ cfg' \in Configs
  BY <1>1 DEF Inv, Lines, Indices, argc
<1>3. Counts' /\ Places' /\ Stages'
  BY <1>1 DEF Inv, Counts, Places, Stages, Help
<1>4. ChangesComplete'
  BY DEF ChangesComplete, Changing, Help
<1>5. QED BY <1>2, <1>3, <1>4, Zenon DEF Inv

LEMMA OptOtherKeeps == Inv /\ OptOther => Inv'
BY FailKeeps, Zenon DEF OptOther

(* A step in which main goes on to the next stage, or gives up.            *)
LEMMA StageKeeps ==
  ASSUME Inv, Quit, calls = <<>>, pc' \in {"check", "act", "exit"},
         exit' \in {"none", "ok", "error", "no_table"}, pc' = "act" => CheckGCfgIsValid
  PROVE  Inv'
<1>1. /\ line' = line /\ uid' = uid /\ argv' = argv /\ optind' = optind /\ letter' = letter
      /\ nonopts' = nonopts /\ argidx' = argidx /\ cfg' = cfg /\ calls' = calls
  BY DEF Quit, getopt
<1>2. Lines' /\ Indices' /\ cfg' \in Configs
  BY <1>1 DEF Inv, Lines, Indices, argc
<1>3. Counts' /\ Places'
  BY <1>1 DEF Inv, Counts, Places
<1>4. CheckGCfgIsValid' = CheckGCfgIsValid
  BY <1>1, Zenon DEF CheckGCfgIsValid, Given
<1>5. Stages'
  BY <1>1, <1>4, Zenon DEF Stages
<1>6. ChangesComplete'
  BY <1>1 DEF ChangesComplete
<1>7. QED BY <1>2, <1>3, <1>5, <1>6, Zenon DEF Inv

LEMMA OptEndKeeps == Inv /\ OptEnd => Inv'
<1> SUFFICES ASSUME Inv, OptEnd PROVE Inv'
  OBVIOUS
<1>1. calls = <<>> /\ Quit
  BY DEF Inv, Stages, OptEnd
<1>2. pc' \in {"check", "exit"} /\ exit' \in {"none", "ok", "error", "no_table"}
  BY DEF Inv, Places, OptEnd
<1>3. QED BY <1>1, <1>2, StageKeeps

LEMMA CheckKeeps == Inv /\ Check => Inv'
<1> SUFFICES ASSUME Inv, Check PROVE Inv'
  OBVIOUS
<1>1. calls = <<>> /\ Quit
  BY DEF Inv, Stages, Check
<1>2. /\ pc' \in {"act", "exit"} /\ exit' \in {"none", "ok", "error", "no_table"}
      /\ pc' = "act" => CheckGCfgIsValid
  BY Zenon DEF Inv, Places, Check, Fail
<1>3. QED BY <1>1, <1>2, StageKeeps

(* What main calls with settings that are complete.                        *)
LEMMA PlanComplete ==
  ASSUME Inv, CheckGCfgIsValid, NEW root \in BOOLEAN, root => uid' = "root",
         cfg' = cfg, calls' = Plan(root)
  PROVE  ChangesComplete'
<1>1. /\ cfg.set \in BOOLEAN /\ cfg.get \in BOOLEAN
      /\ cfg.show_level \in BOOLEAN /\ cfg.show_coredump \in BOOLEAN
      /\ cfg.level \in Words \cup {NoWord} /\ cfg.coredump \in Switches
  BY DEF Inv, Configs
<1>2. CASE calls' = <<>>
  BY <1>2 DEF ChangesComplete
<1>3. CASE Shows /\ calls' # <<>>
  <2>1. \/ calls' = <<[call |-> "get_level", names |-> cfg.names]>>
        \/ calls' = <<[call |-> "get_coredump"]>>
        \/ calls' = <<[call |-> "list"]>>
    BY <1>3, Zenon DEF Plan, Shows
  <2>2. Len(calls') = 1 /\ calls'[1].call \in {"get_level", "get_coredump", "list"}
    BY <2>1
  <2>3. DOMAIN calls' = {1}
    BY <2>1
  <2>4. QED BY <2>2, <2>3 DEF ChangesComplete, Changing
<1>4. CASE ~ Shows /\ calls' # <<>>
  <2>1. /\ root /\ ~ cfg.get
        /\ calls' = IF cfg.set
                      THEN IF Given(cfg.names)
                             THEN <<[call |-> "set", names |-> cfg.names, level |-> cfg.level],
                                    [call |-> "check_log"]>>
                             ELSE <<[call |-> "coredump", to |-> cfg.coredump]>>
                      ELSE <<[call |-> "install", names |-> cfg.pkg]>>
    BY <1>1, <1>4, Zenon DEF Plan, Shows
  <2>2. uid' = "root" /\ ~ cfg'.get
    BY <2>1
  <2>3. CASE cfg.set /\ Given(cfg.names)
    <3>1. calls' = <<[call |-> "set", names |-> cfg.names, level |-> cfg.level],
                     [call |-> "check_log"]>>
      BY <2>1, <2>3, Zenon
    <3>2. Given(cfg.level)
      BY <2>3, Zenon DEF CheckGCfgIsValid
    <3>3. cfg.names # NoWord /\ cfg.level \in Words
      BY <1>1, <2>3, <3>2 DEF Given
    <3>4. QED BY <2>2, <3>1, <3>3 DEF ChangesComplete, Changing
  <2>4. CASE cfg.set /\ ~ Given(cfg.names)
    <3>1. calls' = <<[call |-> "coredump", to |-> cfg.coredump]>>
      BY <2>1, <2>4, Zenon
    <3>2. Given(cfg.coredump)
      BY <2>4, Zenon DEF CheckGCfgIsValid
    <3>3. cfg.coredump \in {On, Off} \ {NoWord}
      BY <1>1, <3>2 DEF Given, Switches
    <3>4. QED BY <2>2, <3>1, <3>3 DEF ChangesComplete, Changing
  <2>5. CASE ~ cfg.set
    <3>1. calls' = <<[call |-> "install", names |-> cfg.pkg]>>
      BY <2>1, <2>5, Zenon
    <3>2. cfg.pkg # NoWord
      BY <2>1, <2>5, Zenon DEF CheckGCfgIsValid, Given
    <3>3. QED BY <2>2, <3>1, <3>2 DEF ChangesComplete, Changing
  <2>6. QED BY <2>3, <2>4, <2>5
<1>5. QED BY <1>2, <1>3, <1>4

LEMMA ActKeeps == Inv /\ Act => Inv'
<1> SUFFICES ASSUME Inv, Act PROVE Inv'
  OBVIOUS
<1>1. /\ line' = line /\ argv' = argv /\ optind' = optind /\ letter' = letter
      /\ nonopts' = nonopts /\ argidx' = argidx /\ cfg' = cfg /\ pc' = "exit"
  BY DEF Act, getopt
<1>2. Lines' /\ Indices' /\ cfg' \in Configs
  BY <1>1 DEF Inv, Lines, Indices, argc
<1>3. Counts' /\ Stages'
  BY <1>1 DEF Inv, Counts, Stages
<1>4. uid' \in {"unasked", "root", "other"} /\ exit' \in {"ok", "error"}
  BY DEF Act
<1>5. Places'
  BY <1>1, <1>4 DEF Places
<1>6. ChangesComplete'
  <2>1. CheckGCfgIsValid /\ calls' = Plan(uid' = "root")
    BY DEF Inv, Stages, Act
  <2>2. (uid' = "root") \in BOOLEAN
    OBVIOUS
  <2>3. QED BY <1>1, <2>1, <2>2, PlanComplete
<1>7. QED BY <1>2, <1>3, <1>5, <1>6, Zenon DEF Inv

LEMMA StutterKeeps == Inv /\ UNCHANGED vars => Inv'
<1> SUFFICES ASSUME Inv, UNCHANGED vars PROVE Inv'
  OBVIOUS
<1>1. /\ line' = line /\ uid' = uid /\ argv' = argv /\ optind' = optind /\ letter' = letter
      /\ nonopts' = nonopts /\ argidx' = argidx /\ cfg' = cfg /\ calls' = calls
      /\ pc' = pc /\ exit' = exit
  BY DEF vars, getopt
<1>2. Lines' /\ Indices' /\ cfg' \in Configs
  BY <1>1 DEF Inv, Lines, Indices, argc
<1>3. Counts' /\ Places'
  BY <1>1 DEF Inv, Counts, Places, argc
<1>4. Stages'
  BY <1>1, Zenon DEF Inv, Stages, CheckGCfgIsValid, Given
<1>5. ChangesComplete'
  BY <1>1 DEF Inv, ChangesComplete
<1>6. QED BY <1>2, <1>3, <1>4, <1>5, Zenon DEF Inv

LEMMA AlwaysInv == Spec => []Inv
<1>1. Init => Inv
  BY InitInv
<1>2. Inv /\ [Next]_vars => Inv'
  <2> SUFFICES ASSUME Inv, [Next]_vars PROVE Inv'
    OBVIOUS
  <2>1. CASE OptSet
    BY <2>1, OptSetKeeps
  <2>2. CASE OptGet
    BY <2>2, OptGetKeeps
  <2>3. CASE OptModule
    BY <2>3, OptModuleKeeps
  <2>4. CASE OptInstall
    BY <2>4, OptInstallKeeps
  <2>5. CASE OptLevel
    BY <2>5, OptLevelKeeps
  <2>6. CASE OptCoredump
    BY <2>6, OptCoredumpKeeps
  <2>7. CASE Help
    BY <2>7, HelpKeeps
  <2>8. CASE OptOther
    BY <2>8, OptOtherKeeps
  <2>9. CASE OptEnd
    BY <2>9, OptEndKeeps
  <2>10. CASE Check
    BY <2>10, CheckKeeps
  <2>11. CASE Act
    BY <2>11, ActKeeps
  <2>12. CASE UNCHANGED vars
    BY <2>12, StutterKeeps
  <2>13. QED
    BY <2>1, <2>2, <2>3, <2>4, <2>5, <2>6, <2>7, <2>8, <2>9, <2>10, <2>11, <2>12, Zenon DEF Next
<1>3. QED BY <1>1, <1>2, PTL DEF Spec

(* However the words are mixed and however many options stand in one word, *)
(* neither of the two readers of main's loop (main.c:163-252) looks beyond *)
(* the words: getopt's index and the stretch of words it has stepped over  *)
(* stay within them, and main's count is getopt's until it has come to     *)
(* their end.  What is kept in g_cfg is a word of the line or the part of  *)
(* one that is a parameter.                                                *)
THEOREM TypeCorrect == Spec => []TypeOK
BY AlwaysInv, InvType, PTL

(* Main calls a function that changes a setting only when getuid said root *)
(* and check_g_cfg_is_valid has let the settings pass: the levels are set  *)
(* for modules and to a word of the command line, and the log switch is    *)
(* checked behind it; coredump gets one of its two words; the packages     *)
(* have a name; and there is one such call (main.c:260-342).               *)
THEOREM ChangesAreComplete == Spec => []ChangesComplete
<1>1. Inv => ChangesComplete
  BY DEF Inv
<1>2. QED BY <1>1, AlwaysInv, PTL

-----------------------------------------------------------------------------
(* What a command line says: the readings of its first words.              *)

Marks == {"", "m", "i", "t", "l", "c"}
Readings ==
  [set : BOOLEAN, get : BOOLEAN, names : Texts, level : Texts, coredump : Texts,
   show_level : BOOLEAN, show_coredump : BOOLEAN, pkg : Texts, help : BOOLEAN,
   wants : Marks, stray : BOOLEAN, bad : BOOLEAN]

(* What no word takes back.                                                *)
Grows(r, q) ==
  /\ r.set => q.set
  /\ r.get => q.get
  /\ r.help => q.help
  /\ r.stray => q.stray
  /\ r.bad => q.bad

LEMMA UnreadIs == Unread \in Readings
BY DEF Unread, Readings, Texts, Marks

(* A parameter that is read leaves a reading, and takes nothing back; so   *)
(* do a letter, a word, and any number of them.                            *)
LEMMA ReadParameterIs ==
  ASSUME NEW r \in Readings, NEW c, NEW w \in Texts
  PROVE  ReadParameter(r, c, w) \in Readings /\ Grows(r, ReadParameter(r, c, w))
<1> DEFINE q == [r EXCEPT !.wants = ""]
<1>1. q \in Readings /\ Grows(r, q)
  BY DEF Readings, Marks, Grows
<1>2. ReadParameter(r, c, w) \in
        {[q EXCEPT !.names = w], [q EXCEPT !.pkg = w], [q EXCEPT !.level = w],
         [q EXCEPT !.coredump = w, !.bad = @ \/ w \notin {On, Off}], [q EXCEPT !.bad = TRUE]}
  BY DEF ReadParameter
<1> HIDE DEF q
<1>3. ASSUME NEW p \in {[q EXCEPT !.names = w], [q EXCEPT !.pkg = w], [q EXCEPT !.level = w],
                        [q EXCEPT !.coredump = w, !.bad = @ \/ w \notin {On, Off}],
                        [q EXCEPT !.bad = TRUE]}
      PROVE  p \in Readings /\ Grows(q, p)
  BY <1>1 DEF Readings, Grows
<1>4. QED BY <1>1, <1>2, <1>3 DEF Grows

(* What each letter says.                                                  *)
LEMMA ReadLetterCases ==
  ASSUME NEW r, NEW c, NEW a
  PROVE  /\ c = "s" => ReadLetter(r, c, a) = [r EXCEPT !.set = TRUE]
         /\ c = "g" => ReadLetter(r, c, a) = [r EXCEPT !.get = TRUE]
         /\ c = "h" => ReadLetter(r, c, a) = [r EXCEPT !.help = TRUE]
         /\ c \in {"l", "c"} /\ r.set => ReadLetter(r, c, a) = [r EXCEPT !.wants = c]
         /\ c = "l" /\ ~ r.set /\ r.get => ReadLetter(r, c, a) = [r EXCEPT !.show_level = TRUE]
         /\ c = "c" /\ ~ r.set /\ r.get => ReadLetter(r, c, a) = [r EXCEPT !.show_coredump = TRUE]
         /\ c \in {"l", "c"} /\ ~ r.set /\ ~ r.get => ReadLetter(r, c, a) = [r EXCEPT !.bad = TRUE]
         /\ c \in WithParameter /\ a = NoWord => ReadLetter(r, c, a) = [r EXCEPT !.wants = c]
         /\ c \in WithParameter /\ a # NoWord => ReadLetter(r, c, a) = ReadParameter(r, c, a)
         /\ c \notin {"s", "g", "h", "l", "c"} \cup WithParameter =>
              ReadLetter(r, c, a) = [r EXCEPT !.bad = TRUE]
<1>1. /\ c = "s" => ReadLetter(r, c, a) = [r EXCEPT !.set = TRUE]
      /\ c = "g" => ReadLetter(r, c, a) = [r EXCEPT !.get = TRUE]
      /\ c = "h" => ReadLetter(r, c, a) = [r EXCEPT !.help = TRUE]
  BY DEF ReadLetter, WithParameter
<1>2. /\ c = "l" /\ r.set => ReadLetter(r, c, a) = [r EXCEPT !.wants = "l"]
      /\ c = "c" /\ r.set => ReadLetter(r, c, a) = [r EXCEPT !.wants = "c"]
  BY DEF ReadLetter, WithParameter
<1>3. /\ c = "l" /\ ~ r.set /\ r.get => ReadLetter(r, c, a) = [r EXCEPT !.show_level = TRUE]
      /\ c = "c" /\ ~ r.set /\ r.get => ReadLetter(r, c, a) = [r EXCEPT !.show_coredump = TRUE]
  BY DEF ReadLetter, WithParameter
<1>4. c \in {"l", "c"} /\ ~ r.set /\ ~ r.get => ReadLetter(r, c, a) = [r EXCEPT !.bad = TRUE]
  BY DEF ReadLetter, WithParameter
<1>5. /\ c \in WithParameter /\ a = NoWord => ReadLetter(r, c, a) = [r EXCEPT !.wants = c]
      /\ c \in WithParameter /\ a # NoWord => ReadLetter(r, c, a) = ReadParameter(r, c, a)
  BY DEF ReadLetter, WithParameter
<1>6. c \notin {"s", "g", "h", "l", "c"} \cup WithParameter =>
         ReadLetter(r, c, a) = [r EXCEPT !.bad = TRUE]
  BY DEF ReadLetter, WithParameter
<1>7. QED BY <1>1, <1>2, <1>3, <1>4, <1>5, <1>6

LEMMA ReadLetterIs ==
  ASSUME NEW r \in Readings, NEW c, NEW a \in Texts
  PROVE  ReadLetter(r, c, a) \in Readings /\ Grows(r, ReadLetter(r, c, a))
<1> DEFINE q == ReadLetter(r, c, a)
<1>1. CASE c \in {"s", "g", "h"}
  <2>1. q \in {[r EXCEPT !.set = TRUE], [r EXCEPT !.get = TRUE], [r EXCEPT !.help = TRUE]}
    BY <1>1, ReadLetterCases
  <2>2. q \in Readings /\ Grows(r, q)
    <3> HIDE DEF q
    <3>1. QED BY <2>1 DEF Readings, Grows
  <2>3. QED BY <2>2
<1>2. CASE c \in {"l", "c"}
  <2>1. q \in {[r EXCEPT !.wants = c], [r EXCEPT !.show_level = TRUE],
               [r EXCEPT !.show_coredump = TRUE], [r EXCEPT !.bad = TRUE]}
    BY <1>2, ReadLetterCases
  <2>2. q \in Readings /\ Grows(r, q)
    <3> HIDE DEF q
    <3>1. QED BY <1>2, <2>1 DEF Readings, Grows, Marks
  <2>3. QED BY <2>2
<1>3. CASE c \in WithParameter /\ a = NoWord
  <2>1. q = [r EXCEPT !.wants = c]
    BY <1>3, ReadLetterCases
  <2>2. q \in Readings /\ Grows(r, q)
    <3> HIDE DEF q
    <3>1. QED BY <1>3, <2>1 DEF Readings, Grows, Marks, WithParameter
  <2>3. QED BY <2>2
<1>4. CASE c \in WithParameter /\ a # NoWord
  <2>1. q = ReadParameter(r, c, a)
    BY <1>4, ReadLetterCases
  <2>2. QED BY <2>1, ReadParameterIs
<1>5. CASE c \notin {"s", "g", "h", "l", "c"} \cup WithParameter
  <2>1. q = [r EXCEPT !.bad = TRUE]
    BY <1>5, ReadLetterCases
  <2>2. q \in Readings /\ Grows(r, q)
    <3> HIDE DEF q
    <3>1. QED BY <2>1 DEF Readings, Grows
  <2>3. QED BY <2>2
<1>6. QED BY <1>1, <1>2, <1>3, <1>4, <1>5

-----------------------------------------------------------------------------
(* Induction and loops.                                                    *)

(* A set of numbers that holds 0, and with each number below n the next,   *)
(* holds all up to n.                                                      *)
LEMMA Induction ==
  ASSUME NEW n \in Nat, NEW P, 0 \in P,
         \A i \in 0 .. n - 1 : i \in P => i + 1 \in P
  PROVE  \A i \in 0 .. n : i \in P
<1> SUFFICES ASSUME NEW k \in 0 .. n, k \notin P PROVE FALSE
  OBVIOUS
<1> DEFINE S == {i \in 0 .. n : i \notin P}
<1>1. S \in SUBSET Nat /\ k \in S
  OBVIOUS
<1>2. PICK i \in S : \A j \in S : ~ (j < i)
  BY <1>1, LeastElement
<1>3. i \in 1 .. n
  BY <1>2
<1>4. i - 1 \in 0 .. n - 1 /\ i - 1 \notin S
  BY <1>2, <1>3
<1>5. i - 1 \in P
  BY <1>4
<1>6. QED BY <1>2, <1>3, <1>4, <1>5

(* The states of a loop whose round i is the function step[i].             *)
Loop(g, n, b, step) ==
  /\ g[0] = b
  /\ \A i \in 1 .. n : g[i] = step[i][g[i - 1]]

(* Such a loop has a last state, as ordinary induction shows: the          *)
(* recursive functions of CliArgs are therefore what their definitions     *)
(* say.                                                                    *)
LEMMA LoopExists ==
  ASSUME NEW T, NEW n \in Nat, NEW b \in T, NEW step \in [1 .. n -> [T -> T]]
  PROVE  \E g \in [0 .. n -> T] : Loop(g, n, b, step)
<1> DEFINE P == {m \in 0 .. n : \E g \in [0 .. m -> T] : Loop(g, m, b, step)}
<1>1. 0 \in P
  <2>1. [i \in 0 .. 0 |-> b] \in [0 .. 0 -> T] /\ Loop([i \in 0 .. 0 |-> b], 0, b, step)
    BY DEF Loop
  <2>2. QED BY <2>1
<1>2. ASSUME NEW m \in 0 .. n - 1, m \in P
      PROVE  m + 1 \in P
  <2>1. PICK g \in [0 .. m -> T] : Loop(g, m, b, step)
    BY <1>2
  <2> DEFINE h == [i \in 0 .. m + 1 |-> IF i = m + 1 THEN step[m + 1][g[m]] ELSE g[i]]
  <2>2. m + 1 \in 1 .. n /\ g[m] \in T
    OBVIOUS
  <2>3. step[m + 1][g[m]] \in T
    BY <2>2
  <2>4. h \in [0 .. m + 1 -> T]
    BY <2>3
  <2>5. Loop(h, m + 1, b, step)
    BY <2>1 DEF Loop
  <2>6. m + 1 \in 0 .. n
    OBVIOUS
  <2>7. QED BY <2>4, <2>5, <2>6
<1> HIDE DEF P
<1>3. \A m \in 0 .. n - 1 : m \in P => m + 1 \in P
  BY <1>2
<1>4. \A m \in 0 .. n : m \in P
  BY <1>1, <1>3, Induction
<1>5. n \in P
  BY <1>4
<1>6. QED BY <1>5 DEF P

-----------------------------------------------------------------------------
(* The readings of a word's letters, and of the words.                     *)

(* The readings of the letters of a word, one after the other.             *)
LEMMA ReadLettersIs ==
  ASSUME NEW r \in Readings, NEW w \in Words
  PROVE  LET s == ReadLetters(r, w)
             c == LettersOf(w)
         IN  /\ Len(c) \in Nat /\ s \in [0 .. Len(c) -> Readings] /\ s[0] = r
             /\ \A k \in 1 .. Len(c) : s[k] = ReadLetter(s[k - 1], c[k], Attached(w))
<1> DEFINE c == LettersOf(w)
           n == Len(c)
           s == ReadLetters(r, w)
           step == [k \in 1 .. n |-> [q \in Readings |-> ReadLetter(q, c[k], Attached(w))]]
           F(g) == [k \in 0 .. n |-> IF k = 0 THEN r ELSE ReadLetter(g[k - 1], c[k], Attached(w))]
<1>1. n \in Nat /\ Attached(w) \in Texts
  BY LettersGiven, LenProperties DEF Texts
<1>2. s = CHOOSE h : h = F(h)
  BY DEF ReadLetters
<1> HIDE DEF n, c, s
<1>3. step \in [1 .. n -> [Readings -> Readings]]
  BY <1>1, ReadLetterIs
<1>4. \A k \in 1 .. n, q \in Readings : step[k][q] = ReadLetter(q, c[k], Attached(w))
  OBVIOUS
<1> HIDE DEF step
<1>5. PICK g \in [0 .. n -> Readings] : Loop(g, n, r, step)
  BY <1>1, <1>3, LoopExists
<1>6. \A k \in 1 .. n : g[k - 1] \in Readings
  BY <1>1
<1>7. g[0] = r /\ \A k \in 1 .. n : g[k] = ReadLetter(g[k - 1], c[k], Attached(w))
  BY <1>4, <1>5, <1>6 DEF Loop
<1>8. g = F(g)
  BY <1>1, <1>7
<1>9. s = F(s)
  BY <1>2, <1>8, Zenon
<1>10. /\ s[0] = r
       /\ \A k \in 1 .. n : s[k] = ReadLetter(s[k - 1], c[k], Attached(w))
       /\ s = [k \in 0 .. n |-> s[k]]
  <2>1. \A h : h = F(s) =>
          /\ \A k \in 0 .. n : h[k] = IF k = 0 THEN r ELSE ReadLetter(s[k - 1], c[k], Attached(w))
          /\ h = [k \in 0 .. n |-> h[k]]
    OBVIOUS
  <2> HIDE DEF F
  <2>2. /\ \A k \in 0 .. n : s[k] = IF k = 0 THEN r ELSE ReadLetter(s[k - 1], c[k], Attached(w))
        /\ s = [k \in 0 .. n |-> s[k]]
    BY <1>9, <2>1
  <2>3. s[0] = r
    <3>1. 0 \in 0 .. n
      BY <1>1
    <3>2. QED BY <2>2, <3>1, Zenon
  <2>4. ASSUME NEW k \in 1 .. n
        PROVE  s[k] = ReadLetter(s[k - 1], c[k], Attached(w))
    <3>1. k \in 0 .. n /\ k # 0
      BY <1>1
    <3>2. QED BY <2>2, <3>1, Zenon
  <2>5. QED BY <2>2, <2>3, <2>4, Zenon
<1>11. \A k \in 0 .. n : s[k] \in Readings
  <2> DEFINE P == {k \in 0 .. n : s[k] \in Readings}
  <2>1. 0 \in P
    BY <1>1, <1>10
  <2>2. \A k \in 0 .. n - 1 : k \in P => k + 1 \in P
    BY <1>1, <1>10, ReadLetterIs
  <2> HIDE DEF P
  <2>3. \A k \in 0 .. n : k \in P
    BY <1>1, <2>1, <2>2, Induction
  <2>4. QED BY <2>3 DEF P
<1>12. s \in [0 .. n -> Readings]
  BY <1>10, <1>11
<1>13. QED BY <1>1, <1>10, <1>12 DEF n, c, s

(* What is said once stays said.                                           *)
LEMMA GrowsOn ==
  ASSUME NEW n \in Nat, NEW s \in [0 .. n -> Readings],
         \A k \in 1 .. n : Grows(s[k - 1], s[k]),
         NEW i \in 0 .. n
  PROVE  \A j \in i .. n : Grows(s[i], s[j])
<1> DEFINE P == {k \in 0 .. n : i <= k => Grows(s[i], s[k])}
<1>1. Grows(s[i], s[i])
  BY DEF Grows
<1>2. 0 \in P
  BY <1>1
<1>3. ASSUME NEW k \in 0 .. n - 1, k \in P
      PROVE  k + 1 \in P
  <2>1. Grows(s[k], s[k + 1])
    <3>1. k + 1 \in 1 .. n /\ (k + 1) - 1 = k
      OBVIOUS
    <3>2. QED BY <3>1
  <2>2. CASE i <= k
    BY <1>3, <2>1, <2>2 DEF Grows
  <2>3. CASE i = k + 1
    BY <1>1, <2>3
  <2>4. CASE i > k + 1
    BY <2>4
  <2>5. QED BY <2>2, <2>3, <2>4
<1> HIDE DEF P
<1>4. \A k \in 0 .. n : k \in P
  BY <1>2, <1>3, Induction
<1>5. QED BY <1>4 DEF P

LEMMA ReadWordIs ==
  ASSUME NEW r \in Readings, NEW w \in Words
  PROVE  ReadWord(r, w) \in Readings /\ Grows(r, ReadWord(r, w))
<1> DEFINE c == LettersOf(w)
           s == ReadLetters(r, w)
<1>1. w \in Texts /\ Attached(w) \in Texts
  BY DEF Texts
<1>2. CASE r.wants # ""
  BY <1>1, <1>2, ReadParameterIs, Zenon DEF ReadWord
<1>3. CASE r.wants = "" /\ ~ IsOption(w)
  <2>1. ReadWord(r, w) = [r EXCEPT !.stray = TRUE]
    BY <1>3, Zenon DEF ReadWord
  <2>2. QED BY <2>1 DEF Readings, Grows
<1>4. CASE r.wants = "" /\ IsOption(w)
  <2>1. ReadWord(r, w) = s[Len(c)]
    BY <1>4, Zenon DEF ReadWord
  <2>2. /\ Len(c) \in Nat /\ s \in [0 .. Len(c) -> Readings] /\ s[0] = r
        /\ \A k \in 1 .. Len(c) : s[k] = ReadLetter(s[k - 1], c[k], Attached(w))
    BY ReadLettersIs
  <2> HIDE DEF s, c
  <2>3. \A k \in 1 .. Len(c) : Grows(s[k - 1], s[k])
    <3> SUFFICES ASSUME NEW k \in 1 .. Len(c) PROVE Grows(s[k - 1], s[k])
      OBVIOUS
    <3>1. s[k - 1] \in Readings /\ s[k] = ReadLetter(s[k - 1], c[k], Attached(w))
      BY <2>2
    <3>2. QED BY <1>1, <3>1, ReadLetterIs
  <2>4. 0 \in 0 .. Len(c) /\ Len(c) \in 0 .. Len(c)
    BY <2>2
  <2>5. Grows(s[0], s[Len(c)])
    BY <2>2, <2>3, <2>4, GrowsOn
  <2>6. QED BY <2>1, <2>2, <2>4, <2>5
<1>5. QED BY <1>2, <1>3, <1>4

(* The readings of the first words.                                        *)
LEMMA ReadWordsIs ==
  ASSUME line \in Seq(Words)
  PROVE  /\ Len(line) \in Nat /\ ReadWords \in [0 .. Len(line) -> Readings]
         /\ ReadWords[0] = Unread
         /\ \A i \in 1 .. Len(line) : ReadWords[i] = ReadWord(ReadWords[i - 1], line[i])
         /\ \A i \in 0 .. Len(line) : Grows(ReadWords[i], Reading)
<1> DEFINE n == Len(line)
           s == ReadWords
           step == [i \in 1 .. n |-> [q \in Readings |-> ReadWord(q, line[i])]]
           F(g) == [i \in 0 .. n |-> IF i = 0 THEN Unread ELSE ReadWord(g[i - 1], line[i])]
<1>1. n \in Nat /\ \A i \in 1 .. n : line[i] \in Words
  BY LenProperties, ElementOfSeq
<1>2. s = CHOOSE h : h = F(h)
  BY DEF ReadWords
<1> HIDE DEF n, s
<1>3. step \in [1 .. n -> [Readings -> Readings]]
  BY <1>1, ReadWordIs
<1>4. \A i \in 1 .. n, q \in Readings : step[i][q] = ReadWord(q, line[i])
  OBVIOUS
<1> HIDE DEF step
<1>5. PICK g \in [0 .. n -> Readings] : Loop(g, n, Unread, step)
  BY <1>1, <1>3, LoopExists, UnreadIs
<1>6. \A i \in 1 .. n : g[i - 1] \in Readings
  BY <1>1
<1>7. g[0] = Unread /\ \A i \in 1 .. n : g[i] = ReadWord(g[i - 1], line[i])
  BY <1>4, <1>5, <1>6 DEF Loop
<1>8. g = F(g)
  BY <1>1, <1>7
<1>9. s = F(s)
  BY <1>2, <1>8, Zenon
<1>10. /\ s[0] = Unread
       /\ \A i \in 1 .. n : s[i] = ReadWord(s[i - 1], line[i])
       /\ s = [i \in 0 .. n |-> s[i]]
  <2>1. \A h : h = F(s) =>
          /\ \A i \in 0 .. n : h[i] = IF i = 0 THEN Unread ELSE ReadWord(s[i - 1], line[i])
          /\ h = [i \in 0 .. n |-> h[i]]
    OBVIOUS
  <2> HIDE DEF F
  <2>2. /\ \A i \in 0 .. n : s[i] = IF i = 0 THEN Unread ELSE ReadWord(s[i - 1], line[i])
        /\ s = [i \in 0 .. n |-> s[i]]
    BY <1>9, <2>1
  <2>3. s[0] = Unread
    <3>1. 0 \in 0 .. n
      BY <1>1
    <3>2. QED BY <2>2, <3>1, Zenon
  <2>4. ASSUME NEW i \in 1 .. n
        PROVE  s[i] = ReadWord(s[i - 1], line[i])
    <3>1. i \in 0 .. n /\ i # 0
      BY <1>1
    <3>2. QED BY <2>2, <3>1, Zenon
  <2>5. QED BY <2>2, <2>3, <2>4, Zenon
<1>11. \A i \in 0 .. n : s[i] \in Readings
  <2> DEFINE P == {i \in 0 .. n : s[i] \in Readings}
  <2>1. 0 \in P
    BY <1>1, <1>10, UnreadIs
  <2>2. ASSUME NEW i \in 0 .. n - 1, i \in P
        PROVE  i + 1 \in P
    <3>1. i + 1 \in 1 .. n /\ (i + 1) - 1 = i
      BY <1>1
    <3>2. s[i + 1] = ReadWord(s[i], line[i + 1]) /\ line[i + 1] \in Words
      BY <1>1, <1>10, <3>1
    <3>3. QED BY <2>2, <3>1, <3>2, ReadWordIs
  <2> HIDE DEF P
  <2>3. \A i \in 0 .. n : i \in P
    BY <1>1, <2>1, <2>2, Induction
  <2>4. QED BY <2>3 DEF P
<1>12. s \in [0 .. n -> Readings]
  BY <1>10, <1>11
<1>13. \A i \in 1 .. n : Grows(s[i - 1], s[i])
  <2> SUFFICES ASSUME NEW i \in 1 .. n PROVE Grows(s[i - 1], s[i])
    OBVIOUS
  <2>1. s[i - 1] \in Readings
    BY <1>1, <1>12
  <2>2. QED BY <1>1, <1>10, <2>1, ReadWordIs
<1>14. ASSUME NEW i \in 0 .. n
       PROVE  Grows(s[i], s[n])
  <2>1. n \in i .. n
    BY <1>1
  <2>2. QED BY <1>1, <1>12, <1>13, <2>1, GrowsOn
<1>15. Reading = s[n]
  BY DEF Reading, s, n
<1>16. QED BY <1>1, <1>10, <1>12, <1>14, <1>15 DEF n, s

-----------------------------------------------------------------------------
(* What main keeps, and what the words say so far.                         *)

(* What the command line says up to the option that getopt returns next.   *)
SoFar ==
  IF letter = 1 THEN ReadWords[optind - 1]
  ELSE ReadLetters(ReadWords[optind - 1], line[optind])[letter - 1]
Same(r) ==
  /\ cfg.set = r.set /\ cfg.get = r.get /\ cfg.names = r.names /\ cfg.level = r.level
  /\ cfg.coredump = r.coredump /\ cfg.pkg = r.pkg
  /\ cfg.show_level = r.show_level /\ cfg.show_coredump = r.show_coredump

(* While main goes on, no word has changed its place, and it goes on in a  *)
(* word of several options only where its count is at the end.             *)
Unmoved ==
  /\ argv = line /\ nonopts.first = nonopts.last
  /\ letter > 1 => argidx >= argc /\ ReadWords[optind - 1].wants = ""

(* The place of the last word they have looked into, plus one.             *)
Stands(o, l) == o + (IF l = 1 THEN 0 ELSE 1)

(* Both have read the same; or main has taken the last word, the parameter *)
(* of the option that is or was the last; or what main keeps is invalid.   *)
AllRead == SoFar.wants = "" /\ Same(SoFar)
OneTaken ==
  /\ argidx >= argc /\ cfg.set /\ SoFar.wants \in {"l", "c"}
  /\ Stands(optind, letter) = Len(line)
  /\ Same(ReadParameter(SoFar, SoFar.wants, line[Len(line)]))
  /\ SoFar.wants = "c" => line[Len(line)] \in {On, Off}
  /\ SoFar.wants = "l" /\ letter > 1 =>
       \E j \in 1 .. letter - 1 : LettersOf(line[optind])[j] = "l"
(* Settings that check_g_cfg_is_valid refuses, whatever else is added.     *)
Doomed == cfg.set /\ (Given(cfg.pkg) \/ (Given(cfg.names) /\ Given(cfg.coredump)))

(* A reading and a setting that can hold.                                  *)
Exclusive ==
  /\ ~ (cfg.set /\ cfg.get)
  /\ cfg.show_level \/ cfg.show_coredump => cfg.get
  /\ ~ (Given(cfg.level) /\ Given(cfg.coredump))
  /\ Given(cfg.level) \/ Given(cfg.coredump) => cfg.set /\ argidx >= argc

LEMMA WordsAre ==
  ASSUME Inv
  PROVE  /\ Len(line) \in Nat /\ argc = Len(line) + 1 /\ argc \in Nat
         /\ optind \in 1 .. argc /\ optind \in Nat /\ letter \in Nat \ {0} /\ argidx \in Nat
         /\ line \in Seq(Words) /\ \A i \in 1 .. Len(line) : line[i] \in Words
         /\ ReadWords \in [0 .. Len(line) -> Readings]
         /\ \A i \in 1 .. Len(line) : ReadWords[i] = ReadWord(ReadWords[i - 1], line[i])
         /\ \A i \in 0 .. Len(line) : Grows(ReadWords[i], Reading)
         /\ Reading = ReadWords[Len(line)]
<1>1. line \in Seq(Words) /\ optind \in 1 .. argc /\ letter \in Nat \ {0} /\ argidx \in Nat
  BY DEF Inv, Lines, Indices, Counts
<1>2. \A i \in 1 .. Len(line) : line[i] \in Words
  BY <1>1, ElementOfSeq
<1>3. Reading = ReadWords[Len(line)]
  BY DEF Reading
<1>4. Len(line) \in Nat /\ argc = Len(line) + 1
  BY <1>1, LenProperties DEF argc
<1>5. argc \in Nat /\ optind \in Nat
  BY <1>1, <1>4
<1>6. QED BY <1>1, <1>2, <1>3, <1>4, <1>5, ReadWordsIs, Zenon

(* The word that getopt looks at next is an option, or the parameter that  *)
(* main has taken, or the end.                                             *)
LEMMA NextIs ==
  ASSUME Inv, Clear, Unmoved, AllRead \/ OneTaken
  PROVE  /\ Arranged = line
         /\ \/ /\ NextWord = optind /\ optind < argc /\ IsOption(line[optind])
               /\ letter > 1 \/ ~ OneTaken
            \/ /\ NextWord = argc /\ letter = 1
               /\ (optind = argc /\ AllRead) \/ (optind = Len(line) /\ OneTaken)
<1>0. /\ Len(line) \in Nat /\ argc = Len(line) + 1 /\ argc \in Nat
      /\ optind \in 1 .. argc /\ optind \in Nat /\ letter \in Nat \ {0}
  BY WordsAre
<1>1. Arranged = line
  BY Zenon DEF Arranged, MustExchange, Unmoved
<1>2. CASE letter > 1
  <2>1. NextWord = optind
    BY <1>2, Zenon DEF NextWord
  <2>2. optind < argc /\ letter <= Len(LettersOf(line[optind]))
    BY <1>2 DEF Inv, Indices, Unmoved
  <2>3. LettersOf(line[optind]) # <<>>
    <3>1. Len(<<>>) = 0
      OBVIOUS
    <3>2. CASE LettersOf(line[optind]) = <<>>
      BY <1>0, <1>2, <2>2, <3>1, <3>2
    <3>3. QED BY <3>2
  <2>4. QED BY <1>1, <1>2, <2>1, <2>2, <2>3 DEF IsOption
<1>3. CASE letter = 1
  <2> DEFINE P(i) == /\ i = argc \/ IsOption(Arranged[i])
                     /\ \A j \in optind .. i - 1 : ~ IsOption(Arranged[j])
  <2>1. NextWord = CHOOSE i \in optind .. argc : P(i)
    BY <1>3 DEF NextWord
  <2>2. ASSUME NEW k \in optind .. argc, P(k)
        PROVE  NextWord = k
    <3>1. \A i \in optind .. argc : P(i) => i = k
      BY <2>2, WordsAre
    <3> HIDE DEF P
    <3>2. QED BY <2>1, <2>2, <3>1, Zenon
  <2>3. CASE optind = argc /\ AllRead
    <3>1. P(optind) /\ optind \in optind .. argc
      BY <1>0, <2>3
    <3>2. QED BY <1>1, <1>3, <2>2, <2>3, <3>1
  <2>4. CASE optind < argc /\ SoFar.wants = ""
    <3>1. optind \in 1 .. Len(line) /\ line[optind] \in Words /\ optind - 1 \in 0 .. Len(line)
      <4>0. optind < argc
        BY <2>4
      <4>1. optind \in 1 .. Len(line) /\ optind - 1 \in 0 .. Len(line)
        BY <1>0, <4>0
      <4>2. QED BY <4>1, WordsAre
    <3>2. ReadWords[optind - 1].wants = ""
      BY <1>3, <2>4, Zenon DEF SoFar
    <3>3. ASSUME ~ IsOption(line[optind])
          PROVE  FALSE
      <4>1. ReadWords[optind] = [ReadWords[optind - 1] EXCEPT !.stray = TRUE]
        BY <3>1, <3>2, <3>3, WordsAre, Zenon DEF ReadWord
      <4>2. ReadWords[optind].stray
        BY <3>1, <4>1, WordsAre DEF Readings
      <4>3. Reading.stray
        BY <3>1, <4>2, WordsAre DEF Grows
      <4>4. QED BY <4>3 DEF Clear
    <3>4. P(optind) /\ optind \in optind .. argc
      <4>1. optind \in optind .. argc /\ \A j \in optind .. optind - 1 : FALSE
        BY <1>0
      <4>2. IsOption(Arranged[optind])
        BY <1>1, <3>3, Zenon
      <4>3. QED BY <4>1, <4>2, Zenon
    <3>5. ~ OneTaken
      BY <2>4 DEF OneTaken
    <3>6. QED BY <1>1, <2>2, <2>4, <3>3, <3>4, <3>5
  <2>5. CASE OneTaken
    <3>1. optind = Len(line) /\ Len(line) \in 1 .. Len(line) /\ line[optind] \in Words
      BY <1>3, <2>5, WordsAre DEF OneTaken, Stands
    <3>2. ~ IsOption(line[optind])
      <4>1. CASE SoFar.wants = "l"
        <5>1. ReadWords[optind - 1].wants = "l"
          BY <1>3, <4>1, Zenon DEF SoFar
        <5>2. optind \in DOMAIN line
          BY <3>1, WordsAre
        <5>3. QED BY <5>1, <5>2 DEF Clear, NoOptionAsLevel
      <4>2. CASE SoFar.wants = "c"
        BY <2>5, <3>1, <4>2, SwitchesAreNoOptions, Zenon DEF OneTaken
      <4>3. QED BY <2>5, <4>1, <4>2 DEF OneTaken
    <3>3. P(argc) /\ argc \in optind .. argc
      BY <1>0, <1>1, <3>1, <3>2
    <3>4. QED BY <1>1, <1>3, <2>2, <2>5, <3>1, <3>3
  <2>6. optind = argc \/ optind < argc
    BY <1>0
  <2>7. AllRead => SoFar.wants = ""
    BY DEF AllRead
  <2>8. QED BY <2>3, <2>4, <2>5, <2>6, <2>7
<1>4. letter = 1 \/ letter > 1
  BY <1>0
<1>5. QED BY <1>2, <1>3, <1>4

-----------------------------------------------------------------------------
(* One option.                                                             *)

(* The option getopt returns, what it says, and whether getopt takes the   *)
(* next word for its parameter.                                            *)
Told == ReadLetter(SoFar, Option, Attached(line[optind]))
TakesNext == Option \in WithParameter /\ Attached(line[optind]) = NoWord

(* Where getopt returns an option it is the next letter of the word at its *)
(* index, and what main has kept and the line says up to there agree.      *)
LEMMA OptionHere ==
  ASSUME Inv, Clear, Unmoved, AllRead \/ OneTaken, Option \in Known
  PROVE  LET w == line[optind]
             b == ReadWords[optind - 1]
             s == ReadLetters(b, w)
         IN  /\ Arranged = line /\ NextWord = optind /\ optind \in 1 .. Len(line) /\ w \in Words
             /\ Len(LettersOf(w)) \in Nat /\ letter \in 1 .. Len(LettersOf(w))
             /\ Option = LettersOf(w)[letter]
             /\ b \in Readings /\ b.wants = ""
             /\ SoFar \in Readings /\ SoFar = s[letter - 1] /\ Told = s[letter]
             /\ Told \in Readings
             /\ ReadWords[optind] = s[Len(LettersOf(w))]
             /\ letter = 1 => AllRead /\ ~ OneTaken
<1> DEFINE w == line[optind]
           b == ReadWords[optind - 1]
           s == ReadLetters(b, w)
           m == Len(LettersOf(w))
<1>0. /\ Len(line) \in Nat /\ argc = Len(line) + 1 /\ argc \in Nat
      /\ optind \in 1 .. argc /\ optind \in Nat /\ letter \in Nat \ {0}
  BY WordsAre
<1>1. NextWord # argc /\ Option = LettersOf(Arranged[NextWord])[letter]
  BY OptionProperties
<1>2. /\ Arranged = line /\ NextWord = optind /\ optind < argc /\ IsOption(line[optind])
      /\ letter > 1 \/ ~ OneTaken
  BY <1>1, NextIs, Zenon
<1>3. optind < argc
  BY <1>2
<1>4. optind \in 1 .. Len(line) /\ optind - 1 \in 0 .. Len(line)
  BY <1>0, <1>3
<1>5. w \in Words /\ b \in Readings /\ ReadWords[optind] = ReadWord(b, w)
  BY <1>4, WordsAre
<1>6. Option = LettersOf(w)[letter]
  BY <1>1, <1>2, Zenon
<1>7. letter <= m
  BY <1>1, <1>2, NextWordProperties, Zenon
<1>8. m \in Nat /\ letter \in 1 .. m
  <2>1. m \in Nat
    BY <1>5, LettersGiven, LenProperties
  <2> HIDE DEF m
  <2>2. QED BY <1>0, <1>7, <2>1
<1>9. letter = 1 => AllRead /\ ~ OneTaken
  <2>1. letter = 1 => ~ (letter > 1)
    BY <1>0
  <2>2. QED BY <1>2, <2>1, Zenon
<1>10. b.wants = ""
  <2>1. CASE letter = 1
    BY <1>9, <2>1, Zenon DEF AllRead, SoFar
  <2>2. CASE letter # 1
    <3>1. letter > 1
      BY <1>0, <2>2
    <3>2. QED BY <3>1, Zenon DEF Unmoved
  <2>3. QED BY <2>1, <2>2
<1>11. /\ s \in [0 .. m -> Readings] /\ s[0] = b
       /\ \A k \in 1 .. m : s[k] = ReadLetter(s[k - 1], LettersOf(w)[k], Attached(w))
  BY <1>5, ReadLettersIs
<1>12. ReadWords[optind] = s[m]
  BY <1>2, <1>5, <1>10, Zenon DEF ReadWord
<1>13. SoFar = s[letter - 1]
  <2>1. CASE letter = 1
    <3>1. letter - 1 = 0 /\ SoFar = b
      BY <2>1 DEF SoFar
    <3> HIDE DEF s, b
    <3>2. QED BY <1>11, <3>1
  <2>2. CASE letter # 1
    BY <2>2, Zenon DEF SoFar
  <2>3. QED BY <2>1, <2>2
<1>14. Told = s[letter]
  <2>1. s[letter] = ReadLetter(s[letter - 1], LettersOf(w)[letter], Attached(w))
    BY <1>8, <1>11, Zenon
  <2>2. QED BY <1>6, <1>13, <2>1, Zenon DEF Told
<1>15. SoFar \in Readings /\ Told \in Readings
  <2> HIDE DEF s, m
  <2>1. letter - 1 \in 0 .. m /\ letter \in 0 .. m
    BY <1>8
  <2>2. QED BY <1>11, <1>13, <1>14, <2>1
<1>16. QED BY <1>2, <1>4, <1>5, <1>6, <1>8, <1>9, <1>10, <1>12, <1>13, <1>14, <1>15, Zenon

(* What the line says changes with the line alone.                         *)
LEMMA SameWords ==
  ASSUME line' = line
  PROVE  ReadWords' = ReadWords /\ Reading' = Reading /\ argc' = argc /\ (Clear' <=> Clear)
<1>1. ReadWords' = ReadWords
  BY DEF ReadWords
<1>2. Reading' = Reading /\ argc' = argc
  BY <1>1 DEF Reading, argc
<1>3. NoOptionAsLevel' <=> NoOptionAsLevel
  BY <1>1 DEF NoOptionAsLevel
<1>4. NoneTakenTwice' <=> NoneTakenTwice
  BY DEF NoneTakenTwice
<1>5. QED BY <1>1, <1>2, <1>3, <1>4 DEF Clear

(* What getopt has done behind an option of the command line.              *)
LEMMA StepReads ==
  ASSUME Inv, Clear, Unmoved, AllRead \/ OneTaken, Option \in Known, GetOpt, line' = line
  PROVE  /\ argv' = line' /\ nonopts'.first = nonopts'.last
         /\ letter' > 1 => /\ optind' = optind /\ letter' = letter + 1
                           /\ ReadWords'[optind' - 1].wants = ""
         /\ TakesNext => /\ letter' = 1 /\ optind' = optind + 2 /\ optind + 1 \in 1 .. Len(line)
                         /\ OptArg = line[optind + 1]
                         /\ SoFar' = ReadParameter([SoFar EXCEPT !.wants = Option], Option, OptArg)
         /\ ~ TakesNext => SoFar' = Told /\ Stands(optind', letter') = optind + 1
         /\ Attached(line[optind]) # NoWord => OptArg = Attached(line[optind])
<1> DEFINE w == line[optind]
           b == ReadWords[optind - 1]
           s == ReadLetters(b, w)
           m == Len(LettersOf(w))
<1>0. /\ Len(line) \in Nat /\ argc = Len(line) + 1 /\ argc \in Nat
      /\ optind \in 1 .. argc /\ optind \in Nat /\ letter \in Nat \ {0}
  BY WordsAre
<1>1. /\ Arranged = line /\ NextWord = optind /\ optind \in 1 .. Len(line) /\ w \in Words
      /\ m \in Nat /\ letter \in 1 .. m
      /\ Option = LettersOf(w)[letter]
      /\ b \in Readings /\ b.wants = ""
      /\ SoFar \in Readings /\ SoFar = s[letter - 1] /\ Told = s[letter] /\ Told \in Readings
      /\ ReadWords[optind] = s[m]
  BY OptionHere, Zenon
<1>2. optind \in 1 .. Len(line) /\ m \in Nat /\ letter \in 1 .. m
  BY <1>1
<1>3. ReadWords' = ReadWords
  BY SameWords
<1>4. /\ argv' = line
      /\ nonopts'.first = FirstNonopt
      /\ nonopts'.last = IF letter > 1 THEN nonopts.last ELSE optind
      /\ optind' = OptIndAfter
      /\ letter' = IF WordDone THEN 1 ELSE letter + 1
  BY <1>1 DEF GetOpt
<1>5. nonopts'.first = nonopts'.last
  <2>1. nonopts.first = nonopts.last
    BY Zenon DEF Unmoved
  <2>2. CASE letter > 1
    BY <1>4, <2>1, <2>2, Zenon DEF FirstNonopt
  <2>3. CASE ~ (letter > 1)
    <3>1. FirstNonopt = IF nonopts.last # optind THEN optind ELSE nonopts.first
      BY <2>1, <2>3, Zenon DEF FirstNonopt, MustExchange
    <3>2. QED BY <1>4, <2>1, <2>3, <3>1
  <2>4. QED BY <2>2, <2>3
<1>6. /\ OptIndAfter = IF TakesNext THEN optind + 2 ELSE IF WordDone THEN optind + 1 ELSE optind
      /\ WordDone <=> letter = m
      /\ Option \in WithParameter => WordDone
  <2>1. OptIndAfter = IF TakesNext THEN optind + 2 ELSE IF WordDone THEN optind + 1 ELSE optind
    BY <1>1, Zenon DEF OptIndAfter, TakesNext
  <2>2. WordDone <=> letter = m
    BY <1>1, Zenon DEF WordDone
  <2>3. ASSUME Option \in WithParameter, letter # m
        PROVE  FALSE
    <3>1. letter \in 1 .. m - 1
      <4> HIDE DEF m
      <4>1. letter # m
        BY <2>3
      <4>2. QED BY <1>2, <4>1
    <3>2. LettersOf(w)[letter] \notin WithParameter
      BY <1>1, <3>1, ParameterEndsWord, Zenon
    <3>3. QED BY <1>1, <2>3, <3>2, Zenon
  <2>4. QED BY <2>1, <2>2, <2>3
<1> HIDE DEF m, s
<1>7. ASSUME letter' > 1
      PROVE  optind' = optind /\ letter' = letter + 1 /\ ReadWords'[optind' - 1].wants = ""
  <2>1. ~ WordDone
    BY <1>4, <1>7
  <2>2. ~ TakesNext
    BY <1>6, <2>1, Zenon DEF TakesNext
  <2>3. optind' = optind /\ letter' = letter + 1
    BY <1>4, <1>6, <2>1, <2>2, Zenon
  <2>4. QED BY <1>1, <1>3, <2>3, Zenon
<1>8. ASSUME ~ TakesNext
      PROVE  SoFar' = Told /\ Stands(optind', letter') = optind + 1
  <2>1. CASE WordDone
    <3>1. letter' = 1 /\ optind' = optind + 1
      BY <1>4, <1>6, <1>8, <2>1, Zenon
    <3>2. optind' - 1 = optind
      BY <1>0, <3>1
    <3>3. SoFar' = ReadWords[optind]
      BY <1>3, <3>1, <3>2, Zenon DEF SoFar
    <3>4. SoFar' = Told
      BY <1>1, <1>6, <2>1, <3>3, Zenon
    <3>5. QED BY <1>0, <3>1, <3>4 DEF Stands
  <2>2. CASE ~ WordDone
    <3>1. letter' = letter + 1 /\ optind' = optind
      BY <1>4, <1>6, <1>8, <2>2, Zenon
    <3>2. letter' # 1 /\ letter' - 1 = letter
      BY <1>0, <3>1
    <3>3. SoFar' = s[letter]
      BY <1>3, <3>1, <3>2, Zenon DEF SoFar, s
    <3>4. QED BY <1>0, <1>1, <3>1, <3>2, <3>3 DEF Stands
  <2>3. QED BY <2>1, <2>2
<1>9. ASSUME Attached(w) # NoWord
      PROVE  OptArg = Attached(w)
  BY <1>1, <1>9, Zenon DEF OptArg
<1>10. ASSUME TakesNext
      PROVE  /\ letter' = 1 /\ optind' = optind + 2 /\ optind + 1 \in 1 .. Len(line)
             /\ OptArg = line[optind + 1]
             /\ SoFar' = ReadParameter([SoFar EXCEPT !.wants = Option], Option, OptArg)
  <2>1. WordDone /\ Attached(w) = NoWord /\ Option \in WithParameter
    BY <1>6, <1>10, Zenon DEF TakesNext
  <2>2. letter' = 1 /\ optind' = optind + 2
    BY <1>4, <1>6, <1>10, <2>1, Zenon
  <2>3. optind + 1 # argc
    BY <1>1, <2>1, OptionProperties, Zenon
  <2>4. optind + 1 \in 1 .. Len(line) /\ (optind + 1) - 1 = optind
    BY <1>0, <1>2, <2>3
  <2>5. OptArg = line[optind + 1]
    BY <1>1, <2>1, Zenon DEF OptArg
  <2>6. ReadWords[optind + 1] = ReadWord(ReadWords[optind], line[optind + 1])
    <3>1. ReadWords[optind + 1] = ReadWord(ReadWords[(optind + 1) - 1], line[optind + 1])
      BY <2>4, WordsAre, Zenon
    <3>2. QED BY <2>4, <3>1, Zenon
  <2>7. optind' - 1 = optind + 1
    BY <1>0, <2>2
  <2>8. SoFar' = ReadWord(Told, line[optind + 1])
    BY <1>1, <1>3, <1>6, <2>1, <2>2, <2>6, <2>7, Zenon DEF SoFar
  <2>9. Told = [SoFar EXCEPT !.wants = Option]
    BY <2>1, ReadLetterCases DEF Told
  <2>10. Told.wants = Option /\ Option # ""
    <3>1. Told.wants = Option
      BY <1>1, <2>9 DEF Readings
    <3>2. Option # ""
      BY <2>1 DEF WithParameter
    <3>3. QED BY <3>1, <3>2
  <2>11. SoFar' = ReadParameter(Told, Option, line[optind + 1])
    BY <2>8, <2>10, Zenon DEF ReadWord
  <2>12. QED BY <2>2, <2>4, <2>5, <2>9, <2>11, Zenon
<1>11. argv' = line'
  BY <1>4
<1>12. QED BY <1>5, <1>7, <1>8, <1>9, <1>10, <1>11, Zenon

(* While main goes on, its count is getopt's index or at the end.          *)
LEMMA StepCounts ==
  ASSUME Inv, pc = "options", Clear, Unmoved, AllRead \/ OneTaken, Option \in Known,
         NEW n \in Nat, n > argidx, NEW d, Counted(n, d), pc' = "options"
  PROVE  /\ Unmoved' /\ argidx' = n /\ cfg' = d /\ line' = line /\ GetOpt
         /\ n >= argc \/ n = optind'
<1>0. /\ argc \in Nat /\ optind \in Nat /\ letter \in Nat \ {0} /\ argidx \in Nat /\ argc' = argc
  BY WordsAre, SameWords DEF Counted
<1>1. GetOpt /\ line' = line /\ argidx' = n /\ cfg' = d
  BY DEF Counted
<1>2. ~ Disagree(n)
  BY DEF Counted, Fail
<1>3. optind' = OptIndAfter
  BY <1>1 DEF GetOpt
<1>4. n >= argc \/ n = optind'
  BY <1>0, <1>2, <1>3 DEF Disagree
<1>5. /\ argv' = line' /\ nonopts'.first = nonopts'.last
      /\ letter' > 1 => optind' = optind /\ letter' = letter + 1 /\ ReadWords'[optind' - 1].wants = ""
  BY <1>1, StepReads, Zenon
<1>6. ASSUME letter' > 1
      PROVE  argidx' >= argc'
  <2>1. optind' = optind
    BY <1>5, <1>6
  <2>2. argidx = optind \/ argidx >= argc
    BY DEF Inv, Counts
  <2>3. n >= argc
    BY <1>0, <1>4, <2>1, <2>2
  <2>4. QED BY <1>0, <1>1, <2>3
<1>7. Unmoved'
  BY <1>5, <1>6, Zenon DEF Unmoved
<1>8. QED BY <1>1, <1>4, <1>7

(* What a parameter says, by its letter.                                   *)
LEMMA ReadParameterCases ==
  ASSUME NEW r \in Readings, NEW w
  PROVE  /\ ReadParameter(r, "m", w) = [r EXCEPT !.wants = "", !.names = w]
         /\ ReadParameter(r, "i", w) = [r EXCEPT !.wants = "", !.pkg = w]
         /\ ReadParameter(r, "l", w) = [r EXCEPT !.wants = "", !.level = w]
         /\ ReadParameter(r, "c", w) =
              [r EXCEPT !.wants = "", !.coredump = w, !.bad = @ \/ w \notin {On, Off}]
<1> DEFINE q == [r EXCEPT !.wants = ""]
<1>1. /\ ReadParameter(r, "m", w) = [q EXCEPT !.names = w]
      /\ ReadParameter(r, "i", w) = [q EXCEPT !.pkg = w]
      /\ ReadParameter(r, "l", w) = [q EXCEPT !.level = w]
      /\ ReadParameter(r, "c", w) = [q EXCEPT !.coredump = w, !.bad = @ \/ w \notin {On, Off}]
  BY DEF ReadParameter
<1>2. q.bad = r.bad
  BY DEF Readings
<1>3. QED BY <1>1, <1>2 DEF Readings

(* The same as a relation: what is read with the parameter w of the letter *)
(* c, and what stays.                                                      *)
Takers == {"m", "i", "l", "c"}
Takes(r, c, w, q) ==
  /\ q.set = r.set /\ q.get = r.get /\ q.wants = ""
  /\ q.show_level = r.show_level /\ q.show_coredump = r.show_coredump
  /\ q.names = IF c = "m" THEN w ELSE r.names
  /\ q.pkg = IF c = "i" THEN w ELSE r.pkg
  /\ q.level = IF c = "l" THEN w ELSE r.level
  /\ q.coredump = IF c = "c" THEN w ELSE r.coredump
LEMMA ReadsParameter ==
  ASSUME NEW r \in Readings, NEW c \in Takers, NEW w
  PROVE  Takes(r, c, w, ReadParameter(r, c, w))
<1> SUFFICES ASSUME NEW q, q = ReadParameter(r, c, w)
             PROVE  Takes(r, c, w, q)
  OBVIOUS
<1>1. CASE c = "m"
  <2>1. q = [r EXCEPT !.wants = "", !.names = w]
    BY <1>1, ReadParameterCases, Zenon
  <2>2. QED BY <1>1, <2>1 DEF Readings, Takes
<1>2. CASE c = "i"
  <2>1. q = [r EXCEPT !.wants = "", !.pkg = w]
    BY <1>2, ReadParameterCases, Zenon
  <2>2. QED BY <1>2, <2>1 DEF Readings, Takes
<1>3. CASE c = "l"
  <2>1. q = [r EXCEPT !.wants = "", !.level = w]
    BY <1>3, ReadParameterCases, Zenon
  <2>2. QED BY <1>3, <2>1 DEF Readings, Takes
<1>4. CASE c = "c"
  <2>1. q =
          [r EXCEPT !.wants = "", !.coredump = w, !.bad = @ \/ w \notin {On, Off}]
    BY <1>4, ReadParameterCases, Zenon
  <2>2. QED BY <1>4, <2>1 DEF Readings, Takes
<1>5. QED BY <1>1, <1>2, <1>3, <1>4, Zenon DEF Takers

(* A parameter is never "no word".                                         *)
LEMMA OptArgGiven ==
  ASSUME Inv, Option \in Known \cap WithParameter
  PROVE  OptArg \in Texts /\ OptArg # NoWord
<1> SUFFICES OptArg # NoWord
  BY OptArgType
<1>1. /\ NextWord # argc
      /\ Attached(Arranged[NextWord]) = NoWord => NextWord + 1 # argc
  BY OptionProperties
<1>2. NextWord \in optind .. argc
  BY <1>1, NextWordProperties
<1>3. CASE Attached(Arranged[NextWord]) # NoWord
  BY <1>3, Zenon DEF OptArg
<1>4. CASE Attached(Arranged[NextWord]) = NoWord
  <2>1. NextWord + 1 \in 1 .. Len(line)
    BY <1>1, <1>2, <1>4, ArgcProperties DEF Inv, Indices
  <2>2. Arranged[NextWord + 1] \in Words
    BY <2>1, ArrangedType
  <2>3. QED BY <1>4, <2>2, NoWordIsNone, Zenon DEF OptArg
<1>5. QED BY <1>3, <1>4

(* What main keeps and cannot be valid stays so.                           *)
CountedOption == OptSet \/ OptGet \/ OptModule \/ OptInstall \/ OptLevel \/ OptCoredump

LEMMA DoomedStays ==
  ASSUME Inv, pc = "options", CountedOption, pc' = "options", Doomed
  PROVE  Doomed'
<1>0. cfg \in Configs
  BY DEF Inv
<1>1. cfg.set /\ ((cfg.pkg # NoWord) \/ (cfg.names # NoWord /\ cfg.coredump # NoWord))
  BY DEF Doomed, Given
<1>2. SUFFICES cfg'.set /\ ((cfg'.pkg # NoWord) \/ (cfg'.names # NoWord /\ cfg'.coredump # NoWord))
  BY DEF Doomed, Given
<1>3. CASE OptSet
  <2>1. cfg' = [cfg EXCEPT !.set = TRUE]
    BY <1>3, Zenon DEF OptSet, Counted, Fail
  <2>2. QED BY <1>0, <1>1, <2>1 DEF Configs
<1>4. CASE OptGet
  BY <1>1, <1>4, Zenon DEF OptGet, Fail
<1>5. CASE OptModule
  <2>1. cfg' = [cfg EXCEPT !.names = OptArg] /\ Option = "m"
    BY <1>5, Zenon DEF OptModule, Counted
  <2>2. OptArg # NoWord
    BY <2>1, OptArgGiven DEF Known, WithParameter
  <2>3. QED BY <1>0, <1>1, <2>1, <2>2 DEF Configs
<1>6. CASE OptInstall
  <2>1. cfg' = [cfg EXCEPT !.pkg = OptArg] /\ Option = "i"
    BY <1>6, Zenon DEF OptInstall, Counted
  <2>2. OptArg # NoWord
    BY <2>1, OptArgGiven DEF Known, WithParameter
  <2>3. QED BY <1>0, <1>1, <2>1, <2>2 DEF Configs
<1>7. CASE OptLevel
  <2>1. cfg' = [cfg EXCEPT !.level = Parameter]
    BY <1>1, <1>7, Zenon DEF OptLevel, Counted, Fail
  <2>2. QED BY <1>0, <1>1, <2>1 DEF Configs
<1>8. CASE OptCoredump
  <2>1. cfg' = [cfg EXCEPT !.coredump = Parameter] /\ HasParameter
    BY <1>1, <1>8, Zenon DEF OptCoredump, Counted, Fail
  <2>2. Parameter # NoWord
    BY <2>1, ParameterType, NoWordIsNone
  <2>3. QED BY <1>0, <1>1, <2>1, <2>2 DEF Configs
<1>9. QED BY <1>3, <1>4, <1>5, <1>6, <1>7, <1>8 DEF CountedOption

(* What the option says, by its letter.                                    *)
LEMMA ToldCases ==
  /\ Option = "s" => Told = [SoFar EXCEPT !.set = TRUE]
  /\ Option = "g" => Told = [SoFar EXCEPT !.get = TRUE]
  /\ Option \in {"l", "c"} /\ SoFar.set => Told = [SoFar EXCEPT !.wants = Option]
  /\ Option = "l" /\ ~ SoFar.set /\ SoFar.get => Told = [SoFar EXCEPT !.show_level = TRUE]
  /\ Option = "c" /\ ~ SoFar.set /\ SoFar.get => Told = [SoFar EXCEPT !.show_coredump = TRUE]
  /\ Option \in WithParameter /\ ~ TakesNext =>
       Told = ReadParameter(SoFar, Option, Attached(line[optind]))
<1> DEFINE a == Attached(line[optind])
           c == Option
           r == SoFar
<1>1. Told = ReadLetter(r, c, a)
  BY DEF Told
<1>2. TakesNext <=> c \in WithParameter /\ a = NoWord
  BY DEF TakesNext
<1> HIDE DEF a, c, r
<1>3. /\ c = "s" => Told = [r EXCEPT !.set = TRUE]
      /\ c = "g" => Told = [r EXCEPT !.get = TRUE]
      /\ c \in {"l", "c"} /\ r.set => Told = [r EXCEPT !.wants = c]
      /\ c = "l" /\ ~ r.set /\ r.get => Told = [r EXCEPT !.show_level = TRUE]
      /\ c = "c" /\ ~ r.set /\ r.get => Told = [r EXCEPT !.show_coredump = TRUE]
      /\ c \in WithParameter /\ ~ TakesNext => Told = ReadParameter(r, c, a)
  BY <1>1, <1>2, ReadLetterCases
<1>4. QED BY <1>3, Zenon DEF a, c, r

(* The state is kept where the last word has been taken.                   *)
LEMMA OneTakenStays ==
  ASSUME Inv, Clear, Unmoved, OneTaken, Option \in Known, GetOpt, line' = line, ~ TakesNext,
         cfg' = cfg, SoFar' = SoFar, argidx' \in Nat, argidx' >= argc
  PROVE  OneTaken'
<1>0. argc' = argc /\ argc \in Nat /\ optind \in Nat /\ letter \in Nat \ {0}
  BY SameWords, WordsAre
<1>1. letter > 1
  <2>1. letter = 1 => ~ OneTaken
    BY OptionHere, Zenon
  <2>2. QED BY <1>0, <2>1
<1>2. Stands(optind, letter) = optind + 1
  BY <1>0, <1>1 DEF Stands
<1>3. /\ letter' > 1 => optind' = optind /\ letter' = letter + 1
      /\ Stands(optind', letter') = optind + 1
  BY StepReads, Zenon
<1>4. /\ argidx' >= argc' /\ cfg'.set /\ SoFar'.wants \in {"l", "c"}
      /\ Stands(optind', letter') = Len(line')
      /\ SoFar'.wants = "c" => line'[Len(line')] \in {On, Off}
  BY <1>0, <1>2, <1>3, Zenon DEF OneTaken
<1>5. Same(ReadParameter(SoFar, SoFar.wants, line[Len(line)]))'
  BY Zenon DEF OneTaken, Same
<1>6. ASSUME SoFar'.wants = "l", letter' > 1
      PROVE  \E j \in 1 .. letter' - 1 : LettersOf(line'[optind'])[j] = "l"
  <2>1. PICK j \in 1 .. letter - 1 : LettersOf(line[optind])[j] = "l"
    BY <1>1, <1>6, Zenon DEF OneTaken
  <2>2. j \in 1 .. letter' - 1
    BY <1>0, <1>3, <1>6
  <2>3. QED BY <1>3, <1>6, <2>1, <2>2, Zenon
<1>7. QED BY <1>4, <1>5, <1>6, Zenon DEF OneTaken

(* Main and the command line go together.                                  *)
Together == Exclusive /\ Unmoved /\ (AllRead \/ OneTaken)

(* -s and -g.                                                              *)
LEMMA SetReads ==
  ASSUME Inv, Clear, Together, OptSet, pc' = "options"
  PROVE  Together'
<1>0. cfg \in Configs /\ argidx \in Nat /\ argc \in Nat
  BY WordsAre DEF Inv
<1>1. pc = "options" /\ Option = "s" /\ Option \in Known /\ ~ TakesNext
  BY DEF OptSet, Known, TakesNext, WithParameter
<1>2. ~ cfg.get /\ Counted(argidx + 1, [cfg EXCEPT !.set = TRUE])
  BY Zenon DEF OptSet, Fail
<1>3. Unmoved /\ (AllRead \/ OneTaken)
  BY DEF Together
<1>4. /\ Unmoved' /\ argidx' = argidx + 1 /\ cfg' = [cfg EXCEPT !.set = TRUE] /\ line' = line /\ GetOpt
  <2>1. argidx + 1 \in Nat /\ argidx + 1 > argidx
    BY <1>0
  <2> DEFINE n == argidx + 1
             d == [cfg EXCEPT !.set = TRUE]
  <2> HIDE DEF n, d
  <2>2. n \in Nat /\ n > argidx /\ Counted(n, d)
    BY <1>2, <2>1 DEF n, d
  <2>3. Unmoved' /\ argidx' = n /\ cfg' = d /\ line' = line /\ GetOpt
    BY <1>1, <1>3, <2>2, StepCounts, Zenon
  <2>4. QED BY <2>3 DEF n, d
<1>5. SoFar' = Told /\ Stands(optind', letter') = optind + 1
  BY <1>1, <1>3, <1>4, StepReads, Zenon
<1>6. Told = [SoFar EXCEPT !.set = TRUE] /\ SoFar \in Readings
  <2>1. SoFar \in Readings
    BY <1>1, <1>3, OptionHere, Zenon
  <2>2. QED BY <1>1, <2>1, ToldCases
<1>7. Exclusive'
  BY <1>0, <1>2, <1>4, SameWords DEF Exclusive, Together, Configs, Given
<1>8. CASE AllRead
  <2>1. AllRead'
    BY <1>0, <1>4, <1>5, <1>6, <1>8 DEF AllRead, Same, Configs, Readings
  <2>2. QED BY <1>4, <1>7, <2>1 DEF Together
<1>9. CASE OneTaken
  <2>1. cfg.set
    BY <1>9 DEF OneTaken
  <2>2. cfg' = cfg
    BY <1>0, <1>4, <2>1 DEF Configs
  <2>3. SoFar' = SoFar
    <3>1. Same(ReadParameter(SoFar, SoFar.wants, line[Len(line)])) /\ SoFar.wants \in {"l", "c"}
      BY <1>9, Zenon DEF OneTaken
    <3>2. SoFar.set
      <4>1. SoFar.wants \in Takers /\ SoFar \in Readings
        BY <1>6, <3>1 DEF Takers
      <4>2. Takes(SoFar, SoFar.wants, line[Len(line)],
                  ReadParameter(SoFar, SoFar.wants, line[Len(line)]))
        BY <4>1, ReadsParameter
      <4>3. QED BY <2>1, <3>1, <4>2, Zenon DEF Same, Takes
    <3>3. QED BY <1>5, <1>6, <3>2 DEF Readings
  <2>4. argidx' \in Nat /\ argidx' >= argc
    BY <1>0, <1>4, <1>9 DEF OneTaken
  <2>5. OneTaken'
    BY <1>1, <1>3, <1>4, <1>9, <2>2, <2>3, <2>4, OneTakenStays, Zenon
  <2>6. QED BY <1>4, <1>7, <2>5 DEF Together
<1>10. QED BY <1>3, <1>8, <1>9

(* -g, which main refuses once it has taken the last word.                 *)
LEMMA GetReads ==
  ASSUME Inv, Clear, Together, OptGet, pc' = "options"
  PROVE  Together'
<1>0. cfg \in Configs /\ argidx \in Nat /\ argc \in Nat
  BY WordsAre DEF Inv
<1>1. pc = "options" /\ Option = "g" /\ Option \in Known /\ ~ TakesNext
  BY DEF OptGet, Known, TakesNext, WithParameter
<1>2. ~ cfg.set /\ Counted(argidx + 1, [cfg EXCEPT !.get = TRUE])
  BY Zenon DEF OptGet, Fail
<1>3. Unmoved /\ AllRead
  BY <1>2, Zenon DEF Together, OneTaken
<1>4. Unmoved' /\ argidx' = argidx + 1 /\ cfg' = [cfg EXCEPT !.get = TRUE] /\ line' = line /\ GetOpt
  <2> DEFINE n == argidx + 1
             d == [cfg EXCEPT !.get = TRUE]
  <2>1. n \in Nat /\ n > argidx
    BY <1>0
  <2> HIDE DEF n, d
  <2>2. Counted(n, d)
    BY <1>2 DEF n, d
  <2>3. Unmoved' /\ argidx' = n /\ cfg' = d /\ line' = line /\ GetOpt
    BY <1>1, <1>3, <2>1, <2>2, StepCounts, Zenon
  <2>4. QED BY <2>3 DEF n, d
<1>5. SoFar' = Told
  BY <1>1, <1>3, <1>4, StepReads, Zenon
<1>6. SoFar \in Readings
  BY <1>1, <1>3, OptionHere, Zenon
<1>7. Told = [SoFar EXCEPT !.get = TRUE]
  BY <1>1, ToldCases
<1>8. Exclusive'
  BY <1>0, <1>2, <1>4, SameWords DEF Exclusive, Together, Configs, Given
<1>9. AllRead'
  BY <1>0, <1>3, <1>4, <1>5, <1>6, <1>7 DEF AllRead, Same, Configs, Readings
<1>10. QED BY <1>4, <1>8, <1>9 DEF Together

(* The word behind -m or -i, or the rest of its own.                       *)
LEMMA TextReads ==
  ASSUME Inv, Clear, Unmoved, AllRead, Option \in {"m", "i"}, GetOpt, line' = line
  PROVE  Takes(SoFar, Option, OptArg, SoFar')
<1>1. Option \in Known /\ Option \in Takers /\ Option \in WithParameter
  BY DEF Known, Takers, WithParameter
<1>2. SoFar \in Readings
  BY <1>1, OptionHere, Zenon
<1>3. CASE TakesNext
  <2> DEFINE r == [SoFar EXCEPT !.wants = Option]
  <2>1. r \in Readings
    BY <1>2 DEF Readings, Marks
  <2>2. /\ r.set = SoFar.set /\ r.get = SoFar.get /\ r.names = SoFar.names /\ r.level = SoFar.level
        /\ r.coredump = SoFar.coredump /\ r.pkg = SoFar.pkg
        /\ r.show_level = SoFar.show_level /\ r.show_coredump = SoFar.show_coredump
    BY <1>2 DEF Readings
  <2>3. SoFar' = ReadParameter(r, Option, OptArg)
    BY <1>1, <1>3, StepReads, Zenon
  <2> HIDE DEF r
  <2>4. Takes(r, Option, OptArg, SoFar')
    BY <1>1, <2>1, <2>3, ReadsParameter
  <2>5. QED BY <2>2, <2>4, Zenon DEF Takes
<1>4. CASE ~ TakesNext
  <2>1. SoFar' = Told /\ OptArg = Attached(line[optind])
    BY <1>1, <1>4, StepReads, Zenon DEF TakesNext
  <2>2. Told = ReadParameter(SoFar, Option, OptArg)
    BY <1>1, <1>4, <2>1, ToldCases, Zenon
  <2>3. QED BY <1>1, <1>2, <2>1, <2>2, ReadsParameter
<1>5. QED BY <1>3, <1>4

(* No word is taken by both main and getopt.                               *)
LEMMA NotTakenTwice ==
  ASSUME Inv, Clear, Unmoved, OneTaken, Option \in {"m", "i"}, pc = "options"
  PROVE  Given(cfg.coredump) \/ (Option = "i" /\ cfg.set)
<1>0. Option \in Known
  BY DEF Known
<1>1. CASE SoFar.wants = "c"
  <2>1. SoFar \in Readings /\ SoFar.wants \in Takers
    BY <1>0, <1>1, OptionHere, Zenon DEF Takers
  <2>2. Takes(SoFar, SoFar.wants, line[Len(line)],
              ReadParameter(SoFar, SoFar.wants, line[Len(line)]))
    BY <2>1, ReadsParameter
  <2>3. cfg.coredump = line[Len(line)]
    BY <1>1, <2>2, Zenon DEF OneTaken, Same, Takes
  <2>4. optind \in 1 .. Len(line) /\ Len(line) \in Nat
    BY <1>0, OptionHere, WordsAre, Zenon
  <2>5. Len(line) \in 1 .. Len(line)
    BY <2>4
  <2>6. line[Len(line)] \in Words
    BY <2>5, WordsAre, Zenon
  <2>7. QED BY <2>3, <2>6, NoWordIsNone, Zenon DEF Given
<1>2. CASE SoFar.wants = "l"
  <2>1. /\ optind \in 1 .. Len(line) /\ Option = LettersOf(line[optind])[letter]
        /\ Len(LettersOf(line[optind])) \in Nat /\ letter \in 1 .. Len(LettersOf(line[optind]))
        /\ letter = 1 => ~ OneTaken
    BY <1>0, OptionHere, Zenon
  <2>2. letter > 1
    BY <2>1
  <2>3. PICK j \in 1 .. letter - 1 : LettersOf(line[optind])[j] = "l"
    BY <1>2, <2>2, Zenon DEF OneTaken
  <2>4. cfg.set
    BY DEF OneTaken
  <2>5. ASSUME Option = "m"
        PROVE  FALSE
    <3> DEFINE c == LettersOf(line[optind])
    <3>1. line[optind] \in Words
      BY <2>1, WordsAre, Zenon
    <3>2. DOMAIN c = 1 .. Len(c)
      BY <3>1, LettersGiven, LenProperties
    <3>3. optind \in DOMAIN line
      BY <2>1, WordsAre, LenProperties
    <3> HIDE DEF c
    <3>4. j \in DOMAIN c /\ letter \in DOMAIN c /\ c[j] = "l" /\ c[letter] = "m" /\ ~ (letter < j)
      BY <2>1, <2>3, <2>5, <3>2 DEF c
    <3>5. NoneTakenTwice
      BY DEF Clear
    <3>6. QED BY <3>3, <3>4, <3>5, Zenon DEF NoneTakenTwice, c
  <2>6. QED BY <2>4, <2>5
<1>3. QED BY <1>1, <1>2, Zenon DEF OneTaken

(* -m; where main has taken the last word for the parameter of -c, the    *)
(* settings cannot be valid any more.                                      *)
LEMMA ModuleReads ==
  ASSUME Inv, Clear, Together, OptModule, pc' = "options"
  PROVE  Together' \/ (Doomed' /\ OneTaken)
<1>0. cfg \in Configs /\ argidx \in Nat /\ argc \in Nat
  BY WordsAre DEF Inv
<1>1. pc = "options" /\ Option = "m" /\ Option \in Known
  BY DEF OptModule, Known
<1>2. OptArg # NoWord
  BY <1>1, OptArgGiven DEF Known, WithParameter
<1>3. Unmoved /\ (AllRead \/ OneTaken)
  BY DEF Together
<1>4. Unmoved' /\ argidx' = argidx + 2 /\ cfg' = [cfg EXCEPT !.names = OptArg] /\ line' = line /\ GetOpt
  <2> DEFINE n == argidx + 2
             d == [cfg EXCEPT !.names = OptArg]
  <2>1. n \in Nat /\ n > argidx
    BY <1>0
  <2> HIDE DEF n, d
  <2>2. Counted(n, d)
    BY DEF n, d, OptModule
  <2>3. Unmoved' /\ argidx' = n /\ cfg' = d /\ line' = line /\ GetOpt
    BY <1>1, <1>3, <2>1, <2>2, StepCounts, Zenon
  <2>4. QED BY <2>3 DEF n, d
<1>5. CASE AllRead
  <2>1. Takes(SoFar, "m", OptArg, SoFar')
    BY <1>1, <1>3, <1>4, <1>5, TextReads
  <2>2. AllRead'
    BY <1>0, <1>4, <1>5, <2>1 DEF AllRead, Same, Configs, Takes
  <2>3. Exclusive'
    BY <1>0, <1>4, SameWords DEF Exclusive, Together, Configs, Given
  <2>4. QED BY <1>4, <2>2, <2>3 DEF Together
<1>6. CASE OneTaken
  <2>1. Given(cfg.coredump) /\ cfg.set
    BY <1>1, <1>3, <1>6, NotTakenTwice DEF OneTaken
  <2>2. cfg'.set /\ cfg'.names = OptArg /\ cfg'.coredump = cfg.coredump
    BY <1>0, <1>4, <2>1 DEF Configs
  <2>3. QED BY <1>2, <1>6, <2>1, <2>2 DEF Doomed, Given
<1>7. QED BY <1>3, <1>5, <1>6

(* -i, which is never valid with --set.                                    *)
LEMMA InstallReads ==
  ASSUME Inv, Clear, Together, OptInstall, pc' = "options"
  PROVE  Together' \/ (Doomed' /\ OneTaken)
<1>0. cfg \in Configs /\ argidx \in Nat /\ argc \in Nat
  BY WordsAre DEF Inv
<1>1. pc = "options" /\ Option = "i" /\ Option \in Known
  BY DEF OptInstall, Known
<1>2. OptArg # NoWord
  BY <1>1, OptArgGiven DEF Known, WithParameter
<1>3. Unmoved /\ (AllRead \/ OneTaken)
  BY DEF Together
<1>4. Unmoved' /\ argidx' = argidx + 2 /\ cfg' = [cfg EXCEPT !.pkg = OptArg] /\ line' = line /\ GetOpt
  <2> DEFINE n == argidx + 2
             d == [cfg EXCEPT !.pkg = OptArg]
  <2>1. n \in Nat /\ n > argidx
    BY <1>0
  <2> HIDE DEF n, d
  <2>2. Counted(n, d)
    BY DEF n, d, OptInstall
  <2>3. Unmoved' /\ argidx' = n /\ cfg' = d /\ line' = line /\ GetOpt
    BY <1>1, <1>3, <2>1, <2>2, StepCounts, Zenon
  <2>4. QED BY <2>3 DEF n, d
<1>5. CASE AllRead
  <2>1. Takes(SoFar, "i", OptArg, SoFar')
    BY <1>1, <1>3, <1>4, <1>5, TextReads
  <2>2. AllRead'
    BY <1>0, <1>4, <1>5, <2>1 DEF AllRead, Same, Configs, Takes
  <2>3. Exclusive'
    BY <1>0, <1>4, SameWords DEF Exclusive, Together, Configs, Given
  <2>4. QED BY <1>4, <2>2, <2>3 DEF Together
<1>6. CASE OneTaken
  <2>1. cfg.set
    BY <1>6 DEF OneTaken
  <2>2. cfg'.set /\ cfg'.pkg = OptArg
    BY <1>0, <1>4, <2>1 DEF Configs
  <2>3. QED BY <1>2, <1>6, <2>2 DEF Doomed, Given
<1>7. QED BY <1>3, <1>5, <1>6

(* Main has taken the last word, the option is the one before.             *)
LEMMA TakenWord ==
  ASSUME Inv, Clear, Unmoved, AllRead, pc = "options", Option \in {"l", "c"}, HasParameter,
         cfg.set, NEW n, n = argidx + 2, NEW d, Counted(n, d), pc' = "options"
  PROVE  /\ Unmoved' /\ cfg' = d /\ line' = line /\ GetOpt
         /\ argidx' \in Nat /\ argidx' >= argc /\ argidx < argc
         /\ Parameter = line[Len(line)] /\ Parameter \in Words
         /\ Stands(optind', letter') = Len(line)
         /\ letter' > 1 => LettersOf(line'[optind'])[1] = Option /\ letter' = 2
         /\ SoFar' = [SoFar EXCEPT !.wants = Option] /\ SoFar \in Readings
<1>0. /\ argidx \in Nat /\ argc \in Nat /\ optind \in Nat /\ letter \in Nat \ {0}
      /\ Len(line) \in Nat /\ argc = Len(line) + 1
  BY WordsAre
<1>1. Option \in Known /\ ~ TakesNext
  BY DEF Known, TakesNext, WithParameter
<1>2. Unmoved' /\ argidx' = argidx + 2 /\ cfg' = d /\ line' = line /\ GetOpt
      /\ (argidx + 2 >= argc \/ argidx + 2 = optind')
  <2>1. n \in Nat /\ n > argidx
    BY <1>0
  <2>2. /\ Unmoved' /\ argidx' = n /\ cfg' = d /\ line' = line /\ GetOpt
        /\ (n >= argc \/ n = optind')
    BY <1>1, <2>1, StepCounts, Zenon
  <2>3. QED BY <2>2
<1>3. argidx + 1 < argc /\ argidx = optind
  BY <1>0 DEF HasParameter, Inv, Counts
<1>4. letter = 1
  <2>1. letter > 1 => argidx >= argc
    BY DEF Unmoved
  <2>2. QED BY <1>0, <1>3, <2>1
<1>5. /\ SoFar' = Told /\ Stands(optind', letter') = optind + 1
      /\ letter' > 1 => optind' = optind /\ letter' = letter + 1
  BY <1>1, <1>2, StepReads, Zenon
<1>6. Arranged = line /\ Option = LettersOf(line[optind])[letter] /\ SoFar \in Readings
  BY <1>1, OptionHere, Zenon
<1>7. letter' \in Nat \ {0} /\ optind' \in Nat
  BY <1>0, <1>1, <1>2, GetOptKeeps DEF Indices, Lines, argc
<1>8. optind' <= optind + 1
  <2>1. \A o \in Nat, p \in Nat, l \in Nat : Stands(p, l) = o + 1 => p <= o + 1
    BY DEF Stands
  <2>2. QED BY <1>0, <1>5, <1>7, <2>1
<1>9. argidx + 2 >= argc
  <2>1. \A a, c, o \in Nat : (a + 2 >= c \/ a + 2 = o) /\ o <= a + 1 => a + 2 >= c
    OBVIOUS
  <2>2. QED BY <1>0, <1>2, <1>3, <1>7, <1>8, <2>1, Zenon
<1>10. optind + 1 = Len(line)
  <2>1. \A o, k \in Nat : o + 1 < k + 1 /\ o + 2 >= k + 1 => o + 1 = k
    OBVIOUS
  <2>2. QED BY <1>0, <1>3, <1>9, <2>1, Zenon
<1>11. Parameter = line[Len(line)]
  BY <1>3, <1>6, <1>10, Zenon DEF Parameter
<1>12. Parameter \in Words
  BY ParameterType
<1>13. Told = [SoFar EXCEPT !.wants = Option]
  <2>1. SoFar.set
    BY DEF AllRead, Same
  <2>2. QED BY <2>1, ToldCases
<1>14. ASSUME letter' > 1
       PROVE  LettersOf(line'[optind'])[1] = Option /\ letter' = 2
  BY <1>2, <1>4, <1>5, <1>6, <1>14
<1>15. argidx' \in Nat /\ argidx' >= argc /\ argidx < argc
  BY <1>0, <1>2, <1>3, <1>9
<1>16. QED BY <1>2, <1>5, <1>6, <1>10, <1>11, <1>12, <1>13, <1>14, <1>15, Zenon

(* -l, with --set and with --get.                                          *)
LEMMA LevelReads ==
  ASSUME Inv, Clear, Together, OptLevel, pc' = "options"
  PROVE  Together'
<1>0. cfg \in Configs /\ argidx \in Nat /\ argc \in Nat
  BY WordsAre DEF Inv
<1>1. pc = "options" /\ Option = "l" /\ Option \in Known /\ ~ TakesNext
  BY DEF OptLevel, Known, TakesNext, WithParameter
<1>2. Unmoved /\ (AllRead \/ OneTaken)
  BY DEF Together
<1>3. CASE cfg.set
  <2>1. HasParameter /\ Counted(argidx + 2, [cfg EXCEPT !.level = Parameter])
    BY <1>3, Zenon DEF OptLevel, Fail
  <2>2. AllRead
    BY <1>0, <1>2, <2>1 DEF HasParameter, OneTaken
  <2> DEFINE d == [cfg EXCEPT !.level = Parameter]
  <2> HIDE DEF d
  <2>3. Counted(argidx + 2, d)
    BY <2>1 DEF d
  <2>4. /\ Unmoved' /\ cfg' = d /\ line' = line /\ GetOpt
        /\ argidx' \in Nat /\ argidx' >= argc /\ argidx < argc
        /\ Parameter = line[Len(line)] /\ Parameter \in Words
        /\ Stands(optind', letter') = Len(line)
        /\ letter' > 1 => LettersOf(line'[optind'])[1] = Option /\ letter' = 2
        /\ SoFar' = [SoFar EXCEPT !.wants = Option] /\ SoFar \in Readings
    BY <1>1, <1>2, <1>3, <2>1, <2>2, <2>3, TakenWord
  <2>5. cfg' = [cfg EXCEPT !.level = line[Len(line)]]
    BY <2>4 DEF d
  <2>6. SoFar' \in Readings /\ SoFar'.wants = "l"
    BY <1>1, <2>4 DEF Readings, Marks
  <2> DEFINE q == ReadParameter(SoFar', "l", line[Len(line)])
  <2>7. Takes(SoFar', "l", line[Len(line)], q)
    BY <2>6, ReadsParameter DEF Takers
  <2>8. Same(ReadParameter(SoFar, SoFar.wants, line[Len(line)]))'
    <3>1. /\ SoFar'.set = SoFar.set /\ SoFar'.get = SoFar.get /\ SoFar'.names = SoFar.names
          /\ SoFar'.level = SoFar.level /\ SoFar'.coredump = SoFar.coredump /\ SoFar'.pkg = SoFar.pkg
          /\ SoFar'.show_level = SoFar.show_level /\ SoFar'.show_coredump = SoFar.show_coredump
      BY <2>4 DEF Readings
    <3>2. /\ cfg'.set = cfg.set /\ cfg'.get = cfg.get /\ cfg'.names = cfg.names
          /\ cfg'.coredump = cfg.coredump /\ cfg'.level = line[Len(line)] /\ cfg'.pkg = cfg.pkg
          /\ cfg'.show_level = cfg.show_level /\ cfg'.show_coredump = cfg.show_coredump
      BY <1>0, <2>5 DEF Configs
    <3>3. q = ReadParameter(SoFar', SoFar'.wants, line'[Len(line')])
      BY <2>4, <2>6, Zenon
    <3> HIDE DEF q
    <3>4. /\ cfg'.set = q.set /\ cfg'.get = q.get /\ cfg'.names = q.names /\ cfg'.level = q.level
          /\ cfg'.coredump = q.coredump /\ cfg'.pkg = q.pkg
          /\ cfg'.show_level = q.show_level /\ cfg'.show_coredump = q.show_coredump
      BY <2>2, <2>7, <3>1, <3>2 DEF AllRead, Same, Takes
    <3>5. QED BY <3>3, <3>4, Zenon DEF Same
  <2>9. OneTaken'
    <3>1. argidx' >= argc' /\ cfg'.set /\ SoFar'.wants \in {"l", "c"}
      BY <1>0, <1>3, <2>4, <2>5, <2>6, SameWords DEF Configs
    <3>3. letter' > 1 => \E j \in 1 .. letter' - 1 : LettersOf(line'[optind'])[j] = "l"
      <4>1. ASSUME letter' > 1
            PROVE  \E j \in 1 .. letter' - 1 : LettersOf(line'[optind'])[j] = "l"
        <5>1. letter' = 2 /\ LettersOf(line'[optind'])[1] = "l"
          BY <1>1, <2>4, <4>1
        <5>2. 1 \in 1 .. letter' - 1
          BY <5>1
        <5>3. QED BY <5>1, <5>2, Zenon
      <4>2. QED BY <4>1
    <3>4. SoFar'.wants = "c" => line'[Len(line')] \in {On, Off}
      BY <2>1, <2>4, <2>6 DEF IsSwitch
    <3>5. Stands(optind', letter') = Len(line')
      BY <2>4
    <3>6. SoFar'.wants = "l" /\ letter' > 1 =>
            \E j \in 1 .. letter' - 1 : LettersOf(line'[optind'])[j] = "l"
      BY <2>6, <3>3
    <3>7. QED BY <2>8, <3>1, <3>4, <3>5, <3>6, Zenon DEF OneTaken
  <2>10. Exclusive'
    BY <1>0, <1>3, <2>4, <2>5, SameWords DEF Exclusive, Together, Configs, Given
  <2>11. QED BY <2>4, <2>9, <2>10 DEF Together
<1>4. CASE ~ cfg.set
  <2>1. cfg.get /\ Counted(argidx + 1, [cfg EXCEPT !.show_level = TRUE])
    BY <1>4, Zenon DEF OptLevel, Fail
  <2>2. AllRead
    BY <1>2, <1>4, Zenon DEF OneTaken
  <2>3. /\ Unmoved' /\ argidx' = argidx + 1 /\ cfg' = [cfg EXCEPT !.show_level = TRUE]
        /\ line' = line /\ GetOpt
    <3> DEFINE n == argidx + 1
               d == [cfg EXCEPT !.show_level = TRUE]
    <3>1. n \in Nat /\ n > argidx
      BY <1>0
    <3> HIDE DEF n, d
    <3>2. Counted(n, d)
      BY <2>1 DEF n, d
    <3>3. Unmoved' /\ argidx' = n /\ cfg' = d /\ line' = line /\ GetOpt
      BY <1>1, <1>2, <3>1, <3>2, StepCounts, Zenon
    <3>4. QED BY <3>3 DEF n, d
  <2>4. SoFar' = Told
    BY <1>1, <1>2, <2>3, StepReads, Zenon
  <2>5. SoFar \in Readings
    BY <1>1, <1>2, OptionHere, Zenon
  <2>6. Told = [SoFar EXCEPT !.show_level = TRUE]
    <3>1. ~ SoFar.set /\ SoFar.get
      BY <1>4, <2>1, <2>2 DEF AllRead, Same
    <3>2. QED BY <1>1, <3>1, ToldCases
  <2>7. Exclusive'
    BY <1>0, <2>1, <2>3, SameWords DEF Exclusive, Together, Configs, Given
  <2>8. AllRead'
    BY <1>0, <2>2, <2>3, <2>4, <2>5, <2>6 DEF AllRead, Same, Configs, Readings
  <2>9. QED BY <2>3, <2>7, <2>8 DEF Together
<1>5. QED BY <1>3, <1>4

(* -c, with --set and with --get.                                          *)
LEMMA CoredumpReads ==
  ASSUME Inv, Clear, Together, OptCoredump, pc' = "options"
  PROVE  Together'
<1>0. cfg \in Configs /\ argidx \in Nat /\ argc \in Nat
  BY WordsAre DEF Inv
<1>1. pc = "options" /\ Option = "c" /\ Option \in Known /\ ~ TakesNext
  BY DEF OptCoredump, Known, TakesNext, WithParameter
<1>2. Unmoved /\ (AllRead \/ OneTaken)
  BY DEF Together
<1>3. CASE cfg.set
  <2>1. HasParameter /\ Counted(argidx + 2, [cfg EXCEPT !.coredump = Parameter]) /\ IsSwitch(Parameter)
    BY <1>3, Zenon DEF OptCoredump, Fail
  <2>2. AllRead
    BY <1>0, <1>2, <2>1 DEF HasParameter, OneTaken
  <2> DEFINE d == [cfg EXCEPT !.coredump = Parameter]
  <2> HIDE DEF d
  <2>3. Counted(argidx + 2, d)
    BY <2>1 DEF d
  <2>4. /\ Unmoved' /\ cfg' = d /\ line' = line /\ GetOpt
        /\ argidx' \in Nat /\ argidx' >= argc /\ argidx < argc
        /\ Parameter = line[Len(line)] /\ Parameter \in Words
        /\ Stands(optind', letter') = Len(line)
        /\ letter' > 1 => LettersOf(line'[optind'])[1] = Option /\ letter' = 2
        /\ SoFar' = [SoFar EXCEPT !.wants = Option] /\ SoFar \in Readings
    BY <1>1, <1>2, <1>3, <2>1, <2>2, <2>3, TakenWord
  <2>5. cfg' = [cfg EXCEPT !.coredump = line[Len(line)]]
    BY <2>4 DEF d
  <2>6. SoFar' \in Readings /\ SoFar'.wants = "c"
    BY <1>1, <2>4 DEF Readings, Marks
  <2> DEFINE q == ReadParameter(SoFar', "c", line[Len(line)])
  <2>7. Takes(SoFar', "c", line[Len(line)], q)
    BY <2>6, ReadsParameter DEF Takers
  <2>8. Same(ReadParameter(SoFar, SoFar.wants, line[Len(line)]))'
    <3>1. /\ SoFar'.set = SoFar.set /\ SoFar'.get = SoFar.get /\ SoFar'.names = SoFar.names
          /\ SoFar'.level = SoFar.level /\ SoFar'.coredump = SoFar.coredump /\ SoFar'.pkg = SoFar.pkg
          /\ SoFar'.show_level = SoFar.show_level /\ SoFar'.show_coredump = SoFar.show_coredump
      BY <2>4 DEF Readings
    <3>2. /\ cfg'.set = cfg.set /\ cfg'.get = cfg.get /\ cfg'.names = cfg.names
          /\ cfg'.level = cfg.level /\ cfg'.coredump = line[Len(line)] /\ cfg'.pkg = cfg.pkg
          /\ cfg'.show_level = cfg.show_level /\ cfg'.show_coredump = cfg.show_coredump
      BY <1>0, <2>5 DEF Configs
    <3>3. q = ReadParameter(SoFar', SoFar'.wants, line'[Len(line')])
      BY <2>4, <2>6, Zenon
    <3> HIDE DEF q
    <3>4. /\ cfg'.set = q.set /\ cfg'.get = q.get /\ cfg'.names = q.names /\ cfg'.level = q.level
          /\ cfg'.coredump = q.coredump /\ cfg'.pkg = q.pkg
          /\ cfg'.show_level = q.show_level /\ cfg'.show_coredump = q.show_coredump
      BY <2>2, <2>7, <3>1, <3>2 DEF AllRead, Same, Takes
    <3>5. QED BY <3>3, <3>4, Zenon DEF Same
  <2>9. OneTaken'
    <3>1. argidx' >= argc' /\ cfg'.set /\ SoFar'.wants \in {"l", "c"}
      BY <1>0, <1>3, <2>4, <2>5, <2>6, SameWords DEF Configs
    <3>3. letter' > 1 => \E j \in 1 .. letter' - 1 : LettersOf(line'[optind'])[j] = "c"
      <4>1. ASSUME letter' > 1
            PROVE  \E j \in 1 .. letter' - 1 : LettersOf(line'[optind'])[j] = "c"
        <5>1. letter' = 2 /\ LettersOf(line'[optind'])[1] = "c"
          BY <1>1, <2>4, <4>1
        <5>2. 1 \in 1 .. letter' - 1
          BY <5>1
        <5>3. QED BY <5>1, <5>2, Zenon
      <4>2. QED BY <4>1
    <3>4. SoFar'.wants = "c" => line'[Len(line')] \in {On, Off}
      BY <2>1, <2>4, <2>6 DEF IsSwitch
    <3>5. Stands(optind', letter') = Len(line')
      BY <2>4
    <3>6. SoFar'.wants = "l" /\ letter' > 1 =>
            \E j \in 1 .. letter' - 1 : LettersOf(line'[optind'])[j] = "l"
      BY <2>6, <3>3
    <3>7. QED BY <2>8, <3>1, <3>4, <3>5, <3>6, Zenon DEF OneTaken
  <2>10. Exclusive'
    BY <1>0, <1>3, <2>4, <2>5, SameWords DEF Exclusive, Together, Configs, Given
  <2>11. QED BY <2>4, <2>9, <2>10 DEF Together
<1>4. CASE ~ cfg.set
  <2>1. cfg.get /\ Counted(argidx + 1, [cfg EXCEPT !.show_coredump = TRUE])
    BY <1>4, Zenon DEF OptCoredump, Fail
  <2>2. AllRead
    BY <1>2, <1>4, Zenon DEF OneTaken
  <2>3. /\ Unmoved' /\ argidx' = argidx + 1 /\ cfg' = [cfg EXCEPT !.show_coredump = TRUE]
        /\ line' = line /\ GetOpt
    <3> DEFINE n == argidx + 1
               d == [cfg EXCEPT !.show_coredump = TRUE]
    <3>1. n \in Nat /\ n > argidx
      BY <1>0
    <3> HIDE DEF n, d
    <3>2. Counted(n, d)
      BY <2>1 DEF n, d
    <3>3. Unmoved' /\ argidx' = n /\ cfg' = d /\ line' = line /\ GetOpt
      BY <1>1, <1>2, <3>1, <3>2, StepCounts, Zenon
    <3>4. QED BY <3>3 DEF n, d
  <2>4. SoFar' = Told
    BY <1>1, <1>2, <2>3, StepReads, Zenon
  <2>5. SoFar \in Readings
    BY <1>1, <1>2, OptionHere, Zenon
  <2>6. Told = [SoFar EXCEPT !.show_coredump = TRUE]
    <3>1. ~ SoFar.set /\ SoFar.get
      BY <1>4, <2>1, <2>2 DEF AllRead, Same
    <3>2. QED BY <1>1, <3>1, ToldCases
  <2>7. Exclusive'
    BY <1>0, <2>1, <2>3, SameWords DEF Exclusive, Together, Configs, Given
  <2>8. AllRead'
    BY <1>0, <2>2, <2>3, <2>4, <2>5, <2>6 DEF AllRead, Same, Configs, Readings
  <2>9. QED BY <2>3, <2>7, <2>8 DEF Together
<1>5. QED BY <1>3, <1>4

-----------------------------------------------------------------------------
(* Main and the command line.                                              *)

(* The invariant: until the options have ended main and the line go        *)
(* together, or the settings cannot become valid; behind them the settings *)
(* are those of the line.                                                  *)
Settled == Doomed \/ (Same(Reading) /\ Exclusive)
Follows ==
  Clear => /\ pc = "options" => Doomed \/ Together
           /\ pc \in {"check", "act"} => Settled

LEMMA DoomedIsInvalid == Doomed => ~ CheckGCfgIsValid
BY Zenon DEF Doomed, CheckGCfgIsValid, Given

LEMMA InitFollows == Init => Follows
<1> SUFFICES ASSUME Init PROVE Follows
  OBVIOUS
<1>1. /\ argv = line /\ optind = 1 /\ letter = 1 /\ nonopts = [first |-> 1, last |-> 1]
      /\ argidx = 1 /\ cfg = NoCfg /\ pc = "options"
  BY DEF Init
<1>2. SoFar = Unread
  <2>1. Inv
    BY InitInv
  <2>2. SoFar = ReadWords[0]
    BY <1>1 DEF SoFar
  <2>3. QED BY <2>1, <2>2, ReadWordsIs DEF Inv, Lines
<1>3. AllRead
  BY <1>1, <1>2 DEF AllRead, Same, NoCfg, Unread
<1>4. Exclusive
  BY <1>1 DEF Exclusive, NoCfg, Given
<1>5. Unmoved
  BY <1>1 DEF Unmoved
<1>6. QED BY <1>1, <1>3, <1>4, <1>5 DEF Follows, Together

(* An option that main counts.                                             *)
LEMMA CountedFollows ==
  ASSUME Inv, Follows, pc = "options", CountedOption
  PROVE  Follows' /\ ActsAsRead'
<1>1. calls = <<>>
  BY DEF Inv, Stages
<1>2. calls' = calls /\ line' = line /\ pc' \in {"options", "exit"}
  BY Zenon DEF CountedOption, OptSet, OptGet, OptModule, OptInstall, OptLevel, OptCoredump,
               Counted, Fail, Quit
<1>3. ActsAsRead'
  BY <1>1, <1>2, Zenon DEF ActsAsRead
<1>4. ASSUME Clear, pc' = "options"
      PROVE  Doomed' \/ Together'
  <2>1. CASE Doomed
    BY <1>4, <2>1, DoomedStays
  <2>2. CASE Together
    BY <1>4, <2>2, SetReads, GetReads, ModuleReads, InstallReads, LevelReads, CoredumpReads,
       Zenon DEF CountedOption
  <2>3. QED BY <1>4, <2>1, <2>2 DEF Follows
<1>5. pc' \notin {"check", "act"}
  BY <1>2
<1>6. Clear' <=> Clear
  BY <1>2, SameWords
<1>7. QED BY <1>3, <1>4, <1>5, <1>6, Zenon DEF Follows

(* Behind the options both have read all words.                            *)
LEMMA EndReads ==
  ASSUME Inv, Clear, Together, Option = "end"
  PROVE  Same(Reading)
<1>0. /\ Len(line) \in Nat /\ argc = Len(line) + 1 /\ argc \in Nat
      /\ optind \in 1 .. argc /\ optind \in Nat /\ letter \in Nat \ {0}
      /\ Reading = ReadWords[Len(line)]
  BY WordsAre
<1>1. Unmoved /\ (AllRead \/ OneTaken)
  BY DEF Together
<1>2. NextWord = argc
  <2>1. ASSUME NextWord # argc
        PROVE  FALSE
    <3> DEFINE c == LettersOf(Arranged[NextWord])
    <3>1. Option \in {"?", c[letter]}
      BY <2>1, Zenon DEF Option
    <3>2. Arranged[NextWord] \in Words /\ letter <= Len(c)
      BY <2>1, NextWordProperties
    <3>3. Len(c) \in Nat
      BY <3>2, LettersGiven, LenProperties
    <3>4. letter \in 1 .. Len(c)
      <4> HIDE DEF c
      <4>1. QED BY <1>0, <3>2, <3>3
    <3>5. c[letter] # "end"
      BY <3>2, <3>4, EndIsNoLetter
    <3>6. QED BY <3>1, <3>5
  <2>2. QED BY <2>1
<1>3. letter = 1 /\ ((optind = argc /\ AllRead) \/ (optind = Len(line) /\ OneTaken))
  <2>1. NextWord = optind /\ optind < argc => FALSE
    BY <1>0, <1>2
  <2>2. QED BY <1>1, <2>1, NextIs, Zenon
<1>4. SoFar = ReadWords[optind - 1]
  BY <1>3, Zenon DEF SoFar
<1>5. CASE optind = argc /\ AllRead
  <2>1. optind - 1 = Len(line)
    <3>1. \A n \in Nat : (n + 1) - 1 = n
      OBVIOUS
    <3>2. QED BY <1>0, <1>5, <3>1, Zenon
  <2>2. SoFar = Reading
    BY <1>0, <1>4, <2>1
  <2>3. QED BY <1>5, <2>2, Zenon DEF AllRead
<1>6. CASE optind = Len(line) /\ OneTaken
  <2>1. Len(line) \in 1 .. Len(line)
    BY <1>0, <1>6
  <2>2. Reading = ReadWord(SoFar, line[Len(line)])
    BY <1>0, <1>4, <1>6, <2>1, WordsAre, Zenon
  <2>3. SoFar.wants # ""
    BY <1>6 DEF OneTaken
  <2>4. Reading = ReadParameter(SoFar, SoFar.wants, line[Len(line)])
    BY <2>2, <2>3, Zenon DEF ReadWord
  <2>5. QED BY <1>6, <2>4, Zenon DEF OneTaken
<1>7. QED BY <1>3, <1>5, <1>6

(* The end of the options, the check and the call.                         *)
LEMMA OptEndFollows ==
  ASSUME Inv, Follows, OptEnd
  PROVE  Follows' /\ ActsAsRead'
<1>1. /\ line' = line /\ argidx' = argidx /\ cfg' = cfg /\ calls' = calls /\ pc' \in {"check", "exit"}
      /\ pc = "options" /\ Option = "end"
  BY DEF OptEnd, Quit, getopt
<1>2. calls = <<>>
  BY <1>1 DEF Inv, Stages
<1>3. ActsAsRead'
  BY <1>1, <1>2, Zenon DEF ActsAsRead
<1>4. ASSUME Clear
      PROVE  Settled
  <2>1. CASE Doomed
    BY <2>1 DEF Settled
  <2>2. CASE Together
    BY <1>1, <1>4, <2>2, EndReads, Zenon DEF Settled, Together
  <2>3. QED BY <1>1, <1>4, <2>1, <2>2 DEF Follows
<1>5. (Clear' <=> Clear) /\ Reading' = Reading /\ argc' = argc
  BY <1>1, SameWords
<1>6. Settled => Settled'
  BY <1>1, <1>5, Zenon DEF Settled, Doomed, Same, Exclusive, Given
<1>7. pc' # "options"
  BY <1>1
<1>8. QED BY <1>3, <1>4, <1>5, <1>6, <1>7, Zenon DEF Follows

LEMMA CheckFollows ==
  ASSUME Inv, Follows, Check
  PROVE  Follows' /\ ActsAsRead'
<1>1. /\ line' = line /\ argidx' = argidx /\ cfg' = cfg /\ calls' = calls /\ pc' \in {"act", "exit"}
      /\ pc = "check"
  BY Zenon DEF Check, Quit, Fail
<1>2. calls = <<>>
  BY <1>1 DEF Inv, Stages
<1>3. ActsAsRead'
  BY <1>1, <1>2, Zenon DEF ActsAsRead
<1>4. Clear => Settled
  BY <1>1 DEF Follows
<1>5. (Clear' <=> Clear) /\ Reading' = Reading /\ argc' = argc
  BY <1>1, SameWords
<1>6. Settled => Settled'
  BY <1>1, <1>5, Zenon DEF Settled, Doomed, Same, Exclusive, Given
<1>7. pc' # "options"
  BY <1>1
<1>8. QED BY <1>3, <1>4, <1>5, <1>6, <1>7, Zenon DEF Follows

(* What main calls for settings that are valid and as the line has them.   *)
LEMMA PlanReads ==
  ASSUME Inv, Same(Reading), Exclusive, CheckGCfgIsValid, NEW root \in BOOLEAN,
         root => uid' = "root", Reading' = Reading, calls' = Plan(root)
  PROVE  ActsAsRead'
<1> DEFINE r == Reading
<1>1. /\ cfg.set \in BOOLEAN /\ cfg.get \in BOOLEAN
      /\ cfg.show_level \in BOOLEAN /\ cfg.show_coredump \in BOOLEAN
  BY DEF Inv, Configs
<1>2. /\ r.set = cfg.set /\ r.get = cfg.get /\ r.names = cfg.names /\ r.level = cfg.level
      /\ r.coredump = cfg.coredump /\ r.pkg = cfg.pkg
      /\ r.show_level = cfg.show_level /\ r.show_coredump = cfg.show_coredump
  BY Zenon DEF Same
<1> HIDE DEF r
<1>3. Reading' = r
  BY DEF r
<1>4. CASE calls' = <<>>
  BY <1>4, Zenon DEF ActsAsRead
<1>5. CASE cfg.show_level /\ calls' # <<>>
  <2>1. calls' = <<[call |-> "get_level", names |-> cfg.names]>>
    BY <1>5, Zenon DEF Plan
  <2>2. r.get /\ r.show_level /\ cfg.names = r.names
    BY <1>2, <1>5, Zenon DEF Exclusive
  <2>3. QED BY <1>3, <2>1, <2>2 DEF ActsAsRead
<1>6. CASE ~ cfg.show_level /\ cfg.show_coredump
  <2>1. calls' = <<[call |-> "get_coredump"]>>
    BY <1>6, Zenon DEF Plan
  <2>2. ShowsCoredump(r)
    BY <1>2, <1>6, Zenon DEF ShowsCoredump, Exclusive, CheckGCfgIsValid, Given
  <2>3. QED BY <1>3, <2>1, <2>2 DEF ActsAsRead
<1>7. CASE ~ cfg.show_level /\ ~ cfg.show_coredump /\ cfg.get
  <2>1. calls' = <<[call |-> "list"]>>
    BY <1>7, Zenon DEF Plan
  <2>2. Lists(r)
    BY <1>2, <1>7, Zenon DEF Lists, Exclusive, CheckGCfgIsValid, Given
  <2>3. QED BY <1>3, <2>1, <2>2 DEF ActsAsRead
<1>8. CASE ~ Shows /\ calls' # <<>>
  <2>1. ~ cfg.show_level /\ ~ cfg.show_coredump /\ ~ cfg.get
    BY <1>8, Zenon DEF Shows
  <2>2. root
    BY <1>8, <2>1, Zenon DEF Plan
  <2>3. AsRoot'
    BY <2>2 DEF AsRoot
  <2>4. CASE cfg.set /\ Given(cfg.names)
    <3>1. calls' = <<[call |-> "set", names |-> cfg.names, level |-> cfg.level],
                     [call |-> "check_log"]>>
      BY <2>1, <2>2, <2>4, Zenon DEF Plan
    <3>2. SetsLevel(r)
      BY <1>2, <2>4, Zenon DEF SetsLevel, CheckGCfgIsValid, Given
    <3>3. QED BY <1>2, <1>3, <2>3, <3>1, <3>2 DEF ActsAsRead
  <2>5. CASE cfg.set /\ ~ Given(cfg.names)
    <3>1. calls' = <<[call |-> "coredump", to |-> cfg.coredump]>>
      BY <2>1, <2>2, <2>5, Zenon DEF Plan
    <3>2. SetsCoredump(r)
      BY <1>2, <2>5, Zenon DEF SetsCoredump, Exclusive, CheckGCfgIsValid, Given
    <3>3. QED BY <1>2, <1>3, <2>3, <3>1, <3>2 DEF ActsAsRead
  <2>6. CASE ~ cfg.set
    <3>1. calls' = <<[call |-> "install", names |-> cfg.pkg]>>
      BY <2>1, <2>2, <2>6, Zenon DEF Plan
    <3>2. Installs(r)
      BY <1>2, <2>1, <2>6, Zenon DEF Installs, CheckGCfgIsValid, Given
    <3>3. QED BY <1>2, <1>3, <2>3, <3>1, <3>2 DEF ActsAsRead
  <2>7. QED BY <2>4, <2>5, <2>6
<1>9. QED BY <1>4, <1>5, <1>6, <1>7, <1>8 DEF Shows

LEMMA ActFollows ==
  ASSUME Inv, Follows, Act
  PROVE  Follows' /\ ActsAsRead'
<1>1. line' = line /\ pc' = "exit" /\ pc = "act" /\ calls' = Plan(uid' = "root")
  BY DEF Act
<1>2. CheckGCfgIsValid
  BY <1>1 DEF Inv, Stages
<1>3. (Clear' <=> Clear) /\ Reading' = Reading
  BY <1>1, SameWords
<1>4. CASE Clear
  <2>1. Settled
    BY <1>1, <1>4 DEF Follows
  <2>2. Same(Reading) /\ Exclusive
    BY <1>2, <2>1, DoomedIsInvalid, Zenon DEF Settled
  <2>3. (uid' = "root") \in BOOLEAN
    OBVIOUS
  <2>4. ActsAsRead'
    BY <1>1, <1>2, <1>3, <2>2, <2>3, PlanReads
  <2>5. QED BY <1>1, <2>4 DEF Follows
<1>5. CASE ~ Clear
  BY <1>1, <1>3, <1>5, Zenon DEF Follows, ActsAsRead
<1>6. QED BY <1>4, <1>5

LEMMA HelpFollows ==
  ASSUME Inv, Follows, Help
  PROVE  Follows' /\ ActsAsRead'
<1>1. pc' = "exit" /\ calls' = <<[call |-> "help"]>>
  BY DEF Help
<1>2. Follows'
  BY <1>1 DEF Follows
<1>3. ActsAsRead'
  BY <1>1 DEF ActsAsRead
<1>4. QED BY <1>2, <1>3

LEMMA OptOtherFollows ==
  ASSUME Inv, Follows, OptOther
  PROVE  Follows' /\ ActsAsRead'
<1>1. pc' = "exit" /\ calls' = calls /\ calls = <<>>
  BY DEF OptOther, Fail, Quit, Inv, Stages
<1>2. Follows'
  BY <1>1 DEF Follows
<1>3. ActsAsRead'
  BY <1>1, Zenon DEF ActsAsRead
<1>4. QED BY <1>2, <1>3

LEMMA StutterFollows ==
  ASSUME Inv, Follows, ActsAsRead, UNCHANGED vars
  PROVE  Follows' /\ ActsAsRead'
<1>1. /\ line' = line /\ uid' = uid /\ argv' = argv /\ optind' = optind /\ letter' = letter
      /\ nonopts' = nonopts /\ argidx' = argidx /\ cfg' = cfg /\ calls' = calls
      /\ pc' = pc /\ exit' = exit
  BY DEF vars, getopt
<1>2. (Clear' <=> Clear) /\ Reading' = Reading /\ argc' = argc /\ ReadWords' = ReadWords
  BY <1>1, SameWords
<1>3. ActsAsRead'
  BY <1>1, <1>2, Zenon DEF ActsAsRead, AsRoot
<1>4. SoFar' = SoFar
  BY <1>1, <1>2, Zenon DEF SoFar
<1>5. /\ Exclusive' <=> Exclusive
      /\ Doomed' <=> Doomed
  BY <1>1, <1>2, Zenon DEF Exclusive, Doomed
<1>6. Settled' <=> Settled
  BY <1>1, <1>2, <1>5, Zenon DEF Settled, Same
<1>7. Unmoved' <=> Unmoved
  BY <1>1, <1>2, Zenon DEF Unmoved
<1>8. AllRead' <=> AllRead
  BY <1>1, <1>4, Zenon DEF AllRead, Same
<1>9. OneTaken' <=> OneTaken
  BY <1>1, <1>2, <1>4, Zenon DEF OneTaken, Same
<1>10. Together' <=> Together
  BY <1>5, <1>7, <1>8, <1>9, Zenon DEF Together
<1>11. Follows'
  BY <1>1, <1>2, <1>5, <1>6, <1>10, Zenon DEF Follows
<1>12. QED BY <1>3, <1>11

(* What the program does is what the command line says, for every line     *)
(* without a stray word, a level that looks like an option or a word in    *)
(* which -l stands before -m: the levels are set for the modules and to    *)
(* the level that follow their options, coredump is switched to the word   *)
(* behind -c, the packages installed are those behind -i, and what is      *)
(* shown is what was asked for, however the options are mixed, joined in   *)
(* one word or glued to their parameters. Main counts the words itself     *)
(* (main.c:163-252) while getopt_long moves them, and gives up when the    *)
(* two disagree; where it does not, or where it has come to the end too    *)
(* early, the settings are the line's or check_g_cfg_is_valid              *)
(* (main.c:76-121) refuses them.                                           *)
THEOREM ProgramActsAsRead == Spec => []ActsAsRead
<1>1. Init => Inv /\ Follows /\ ActsAsRead
  <2>1. Init => ActsAsRead
    BY DEF Init, ActsAsRead
  <2>2. QED BY <2>1, InitInv, InitFollows
<1>2. Inv /\ Inv' /\ Follows /\ ActsAsRead /\ [Next]_vars => Follows' /\ ActsAsRead'
  <2> SUFFICES ASSUME Inv, Follows, ActsAsRead, [Next]_vars PROVE Follows' /\ ActsAsRead'
    OBVIOUS
  <2>1. ASSUME CountedOption PROVE pc = "options"
    BY <2>1, Zenon DEF CountedOption, OptSet, OptGet, OptModule, OptInstall, OptLevel, OptCoredump
  <2>2. CASE CountedOption
    BY <2>1, <2>2, CountedFollows
  <2>3. CASE Help
    BY <2>3, HelpFollows
  <2>4. CASE OptOther
    BY <2>4, OptOtherFollows
  <2>5. CASE OptEnd
    BY <2>5, OptEndFollows
  <2>6. CASE Check
    BY <2>6, CheckFollows
  <2>7. CASE Act
    BY <2>7, ActFollows
  <2>8. CASE UNCHANGED vars
    BY <2>8, StutterFollows
  <2>9. QED BY <2>2, <2>3, <2>4, <2>5, <2>6, <2>7, <2>8, Zenon DEF Next, CountedOption
<1>3. QED BY <1>1, <1>2, AlwaysInv, PTL DEF Spec

-----------------------------------------------------------------------------
(* Command lines in the usual order.                                       *)

(* Such a line, and main's count on it: that of getopt until it has taken  *)
(* the last word.                                                          *)
Orderly == Plain /\ ParameterLast /\ Complete(Reading) /\ NoOptionAsLevel
Lockstep == letter = 1 /\ (OneTaken \/ argidx = optind)

(* Every word is one option or none.                                       *)
LEMMA PlainWords ==
  ASSUME Inv, Plain, NEW i \in 1 .. Len(line)
  PROVE  /\ Attached(line[i]) = NoWord /\ LettersOf(line[i]) \in Seq(STRING)
         /\ Len(LettersOf(line[i])) \in {0, 1}
         /\ DOMAIN LettersOf(line[i]) = 1 .. Len(LettersOf(line[i]))
<1>1. i \in DOMAIN line /\ line[i] \in Words
  BY WordsAre, LenProperties
<1>2. Attached(line[i]) = NoWord /\ Len(LettersOf(line[i])) <= 1
  BY <1>1, Zenon DEF Plain
<1>3. LettersOf(line[i]) \in Seq(STRING)
  BY <1>1, LettersGiven
<1>4. Len(LettersOf(line[i])) \in Nat /\ DOMAIN LettersOf(line[i]) = 1 .. Len(LettersOf(line[i]))
  BY <1>3, LenProperties
<1>5. \A n \in Nat : n <= 1 => n \in {0, 1}
  OBVIOUS
<1>6. QED BY <1>2, <1>3, <1>4, <1>5, Zenon

LEMMA OrderlyIsClear ==
  ASSUME Inv, Orderly
  PROVE  Clear
<1>1. ~ Reading.stray /\ NoOptionAsLevel
  BY Zenon DEF Orderly, Complete
<1>2. NoneTakenTwice
  <2> SUFFICES ASSUME NEW i \in DOMAIN line,
                      NEW j \in DOMAIN LettersOf(line[i]), NEW k \in DOMAIN LettersOf(line[i]),
                      LettersOf(line[i])[j] = "l", LettersOf(line[i])[k] = "m"
               PROVE  FALSE
    BY DEF NoneTakenTwice
  <2>1. i \in 1 .. Len(line)
    BY WordsAre, LenProperties
  <2>2. /\ Len(LettersOf(line[i])) \in {0, 1}
        /\ DOMAIN LettersOf(line[i]) = 1 .. Len(LettersOf(line[i]))
    BY <2>1, PlainWords DEF Orderly
  <2>3. j = 1 /\ k = 1
    <3> DEFINE m == Len(LettersOf(line[i]))
    <3>1. j \in 1 .. m /\ k \in 1 .. m /\ m \in {0, 1}
      BY <2>2
    <3> HIDE DEF m
    <3>2. QED BY <3>1
  <2>4. QED BY <2>3
<1>3. QED BY <1>1, <1>2 DEF Clear

(* The next option is a word of its own.                                   *)
Letter == LettersOf(line[optind])[1]

LEMMA PlainHere ==
  ASSUME Inv, Orderly, Together, Lockstep, NextWord # argc
  PROVE  /\ Arranged = line /\ NextWord = optind /\ optind \in 1 .. Len(line)
         /\ letter = 1 /\ WordDone /\ AllRead /\ argidx = optind
         /\ SoFar \in Readings /\ SoFar = ReadWords[optind - 1]
         /\ ReadWords[optind] = ReadLetter(SoFar, Letter, NoWord)
         /\ Attached(line[optind]) = NoWord
         /\ Option = IF Letter \in WithParameter /\ optind = Len(line) THEN "?" ELSE Letter
<1>0. /\ Len(line) \in Nat /\ argc = Len(line) + 1 /\ argc \in Nat
      /\ optind \in 1 .. argc /\ optind \in Nat
  BY WordsAre
<1>1. Clear /\ Plain
  BY OrderlyIsClear DEF Orderly
<1>2. letter = 1 /\ ~ (letter > 1)
  BY DEF Lockstep
<1>3. /\ Arranged = line /\ NextWord = optind /\ optind < argc /\ IsOption(line[optind])
      /\ ~ OneTaken
  BY <1>1, <1>2, NextIs, Zenon DEF Together
<1>4. AllRead /\ argidx = optind
  BY <1>3, Zenon DEF Together, Lockstep
<1>5. optind \in 1 .. Len(line) /\ optind - 1 \in 0 .. Len(line)
  <2>1. optind < argc
    BY <1>3
  <2>2. QED BY <1>0, <2>1
<1>6. SoFar = ReadWords[optind - 1] /\ SoFar \in Readings
  <2>1. SoFar = ReadWords[optind - 1]
    BY <1>2 DEF SoFar
  <2>2. QED BY <1>5, <2>1, WordsAre
<1>7. /\ Attached(line[optind]) = NoWord /\ line[optind] \in Words
      /\ Len(LettersOf(line[optind])) = 1
  <2>1. /\ Attached(line[optind]) = NoWord /\ LettersOf(line[optind]) \in Seq(STRING)
        /\ Len(LettersOf(line[optind])) \in {0, 1}
    BY <1>1, <1>5, PlainWords
  <2>2. LettersOf(line[optind]) # <<>>
    BY <1>3 DEF IsOption
  <2>3. QED BY <1>5, <2>1, <2>2, WordsAre, EmptySeq
<1>8. WordDone
  BY <1>2, <1>3, <1>7, Zenon DEF WordDone
<1>9. ReadWords[optind] = ReadLetter(SoFar, Letter, NoWord)
  <2>1. ReadWords[optind] = ReadWord(SoFar, line[optind])
    BY <1>5, <1>6, WordsAre, Zenon
  <2>2. SoFar.wants = ""
    BY <1>4 DEF AllRead
  <2>3. ReadWord(SoFar, line[optind]) = ReadLetters(SoFar, line[optind])[1]
    BY <1>3, <1>7, <2>2, Zenon DEF ReadWord
  <2> DEFINE s == ReadLetters(SoFar, line[optind])
  <2>4. /\ s[0] = SoFar
        /\ \A k \in 1 .. Len(LettersOf(line[optind])) :
              s[k] = ReadLetter(s[k - 1], LettersOf(line[optind])[k], Attached(line[optind]))
    BY <1>6, <1>7, ReadLettersIs, Zenon
  <2> HIDE DEF s
  <2>5. s[1] = ReadLetter(s[0], Letter, NoWord)
    <3>1. 1 \in 1 .. 1 /\ 1 - 1 = 0
      OBVIOUS
    <3>2. s[1] = ReadLetter(s[1 - 1], LettersOf(line[optind])[1], Attached(line[optind]))
      BY <1>7, <2>4, <3>1, Zenon
    <3>3. QED BY <1>7, <3>1, <3>2, Zenon DEF Letter
  <2>6. QED BY <2>1, <2>3, <2>4, <2>5 DEF s
<1>10. Option = IF Letter \in WithParameter /\ optind = Len(line) THEN "?" ELSE Letter
  <2>1. NextWord + 1 = argc <=> optind = Len(line)
    <3>1. \A n, o \in Nat : o + 1 = n + 1 <=> o = n
      OBVIOUS
    <3>2. QED BY <1>0, <1>3, <3>1, Zenon
  <2>2. LettersOf(Arranged[NextWord])[letter] = Letter
    BY <1>2, <1>3, Zenon DEF Letter
  <2>3. Attached(Arranged[NextWord]) = NoWord
    BY <1>3, <1>7, Zenon
  <2>4. QED BY <2>1, <2>2, <2>3, Zenon DEF Option
<1>11. QED BY <1>2, <1>3, <1>4, <1>5, <1>6, <1>7, <1>8, <1>9, <1>10, Zenon

(* What stands on such a line, main accepts.                               *)
LEMMA LetterFits ==
  ASSUME Inv, Orderly, Together, Lockstep, NextWord # argc
  PROVE  /\ Option = Letter /\ Letter \in Known \ {"t"}
         /\ Letter = "s" => ~ cfg.get
         /\ Letter = "g" => ~ cfg.set
         /\ Letter \in {"l", "c"} => cfg.set \/ cfg.get
         /\ Letter \in {"l", "c"} /\ cfg.set => optind + 1 = Len(line)
         /\ Letter = "c" /\ cfg.set => line[optind + 1] \in {On, Off}
<1> DEFINE r == ReadWords[optind]
           q == ReadWords[optind + 1]
           w == line[optind + 1]
<1>0. Len(line) \in Nat /\ optind \in Nat
  BY WordsAre
<1>1. /\ Arranged = line /\ NextWord = optind /\ optind \in 1 .. Len(line)
      /\ letter = 1 /\ WordDone /\ AllRead
      /\ SoFar \in Readings
      /\ r = ReadLetter(SoFar, Letter, NoWord)
      /\ Option = IF Letter \in WithParameter /\ optind = Len(line) THEN "?" ELSE Letter
  BY PlainHere
<1>2. /\ ~ Reading.bad /\ Reading.wants = "" /\ ~ (Reading.set /\ Reading.get)
  BY DEF Orderly, Complete
<1>3. r \in Readings /\ Grows(r, Reading) /\ (optind = Len(line) => r = Reading)
  <2>1. optind \in 0 .. Len(line)
    BY <1>1
  <2>2. QED BY <2>1, WordsAre
<1>4. ~ r.bad /\ ~ (r.set /\ r.get)
  BY <1>2, <1>3 DEF Grows
<1>5. SoFar.set = cfg.set /\ SoFar.get = cfg.get
  BY <1>1 DEF AllRead, Same
<1>6. ASSUME optind # Len(line), r.wants # ""
      PROVE  /\ optind + 1 \in 1 .. Len(line) /\ w \in Words
             /\ q = ReadParameter(r, r.wants, w) /\ q \in Readings /\ ~ q.bad
  <2>1. optind + 1 \in 1 .. Len(line) /\ (optind + 1) - 1 = optind /\ optind + 1 \in 0 .. Len(line)
    <3>1. optind \in 1 .. Len(line) /\ optind # Len(line)
      BY <1>1, <1>6
    <3>2. \A n \in Nat : \A o \in 1 .. n :
            o # n => o + 1 \in 1 .. n /\ (o + 1) - 1 = o /\ o + 1 \in 0 .. n
      OBVIOUS
    <3>3. QED BY <1>0, <3>1, <3>2, Zenon
  <2>2. w \in Words /\ q \in Readings /\ Grows(q, Reading)
    BY <2>1, WordsAre
  <2>3. q = ReadWord(ReadWords[(optind + 1) - 1], w)
    BY <2>1, WordsAre, Zenon
  <2>4. q = ReadWord(r, w)
    BY <2>1, <2>3, Zenon
  <2>5. q = ReadParameter(r, r.wants, w)
    BY <1>6, <2>4, Zenon DEF ReadWord
  <2>6. ~ q.bad
    BY <1>2, <2>2 DEF Grows
  <2>7. QED BY <2>1, <2>2, <2>5, <2>6
<1> HIDE DEF r, q, w
<1>7. Letter \in {"s", "g", "h", "l", "c"} \cup WithParameter
  <2>1. CASE Letter \notin {"s", "g", "h", "l", "c"} \cup WithParameter
    <3>1. r = [SoFar EXCEPT !.bad = TRUE]
      BY <1>1, <2>1, ReadLetterCases
    <3>2. QED BY <1>1, <1>4, <3>1 DEF Readings
  <2>2. QED BY <2>1
<1>8. ASSUME Letter \in WithParameter
      PROVE  r.wants = Letter /\ optind # Len(line) /\ Letter # "t"
  <2>1. r = [SoFar EXCEPT !.wants = Letter]
    BY <1>1, <1>8, ReadLetterCases
  <2>2. r.wants = Letter /\ Letter # ""
    BY <1>1, <1>8, <2>1 DEF Readings, WithParameter
  <2>3. optind # Len(line)
    BY <1>2, <1>3, <2>2
  <2>4. ASSUME Letter = "t"
        PROVE  FALSE
    <3>1. q = ReadParameter(r, "t", w) /\ ~ q.bad
      BY <1>6, <2>2, <2>3, <2>4, Zenon
    <3>2. ReadParameter(r, "t", w).bad
      BY <1>3 DEF ReadParameter, Readings
    <3>3. QED BY <3>1, <3>2
  <2>5. QED BY <2>2, <2>3, <2>4
<1>9. Option = Letter /\ Letter \in Known \ {"t"}
  BY <1>1, <1>7, <1>8 DEF Known, WithParameter
<1>10. ASSUME Letter = "s" PROVE ~ cfg.get
  <2>1. r = [SoFar EXCEPT !.set = TRUE]
    BY <1>1, <1>10, ReadLetterCases
  <2>2. r.set /\ r.get = SoFar.get
    BY <1>1, <2>1 DEF Readings
  <2>3. QED BY <1>4, <1>5, <2>2
<1>11. ASSUME Letter = "g" PROVE ~ cfg.set
  <2>1. r = [SoFar EXCEPT !.get = TRUE]
    BY <1>1, <1>11, ReadLetterCases
  <2>2. r.get /\ r.set = SoFar.set
    BY <1>1, <2>1 DEF Readings
  <2>3. QED BY <1>4, <1>5, <2>2
<1>12. ASSUME Letter \in {"l", "c"} PROVE cfg.set \/ cfg.get
  <2>1. CASE ~ SoFar.set /\ ~ SoFar.get
    <3>1. r = [SoFar EXCEPT !.bad = TRUE]
      BY <1>1, <1>12, <2>1, ReadLetterCases
    <3>2. QED BY <1>1, <1>4, <3>1 DEF Readings
  <2>2. QED BY <1>5, <2>1
<1>13. ASSUME Letter \in {"l", "c"}, cfg.set
       PROVE  /\ optind + 1 = Len(line)
              /\ Letter = "c" => w \in {On, Off}
  <2>1. r = [SoFar EXCEPT !.wants = Letter]
    <3>1. SoFar.set /\ Letter \in {"l", "c"}
      BY <1>5, <1>13
    <3>2. ReadLetter(SoFar, Letter, NoWord) = [SoFar EXCEPT !.wants = Letter]
      BY <3>1, ReadLetterCases
    <3>3. QED BY <1>1, <3>2
  <2>2. r.wants = Letter /\ Letter # ""
    BY <1>1, <1>13, <2>1 DEF Readings, Marks
  <2>3. optind # Len(line)
    BY <1>2, <1>3, <2>2
  <2>4. /\ optind + 1 \in 1 .. Len(line) /\ w \in Words
        /\ q = ReadParameter(r, Letter, w) /\ q \in Readings /\ ~ q.bad
    BY <1>6, <2>2, <2>3, Zenon
  <2>5. ASSUME Letter = "c" PROVE w \in {On, Off}
    <3>1. q = [r EXCEPT !.wants = "", !.coredump = w, !.bad = @ \/ w \notin {On, Off}]
      BY <1>3, <2>4, <2>5, ReadParameterCases
    <3>2. q.bad = (r.bad \/ w \notin {On, Off})
      BY <1>3, <3>1 DEF Readings
    <3>3. QED BY <2>4, <3>2
  <2>6. ~ IsOption(w)
    <3>1. CASE Letter = "c"
      BY <2>4, <2>5, <3>1, SwitchesAreNoOptions, Zenon
    <3>2. CASE Letter = "l"
      <4>1. optind + 1 \in DOMAIN line /\ (optind + 1) - 1 = optind
        BY <1>0, <2>4, WordsAre, LenProperties
      <4>2. ReadWords[(optind + 1) - 1].wants = "l"
        BY <2>2, <3>2, <4>1 DEF r
      <4>3. QED BY <4>1, <4>2, Zenon DEF Orderly, NoOptionAsLevel, w
    <3>3. QED BY <1>13, <3>1, <3>2
  <2>7. LettersOf(line[optind]) \in {<<"l">>, <<"c">>}
    <3>1. LettersOf(line[optind]) \in Seq(STRING)
      BY <1>1, PlainWords DEF Orderly
    <3>2. Len(LettersOf(line[optind])) = 1
      BY <1>1, Zenon DEF WordDone
    <3> DEFINE c == LettersOf(line[optind])
    <3>3. c[1] \in {"l", "c"}
      BY <1>13 DEF Letter
    <3> HIDE DEF c
    <3>4. c = <<c[1]>>
      BY <3>1, <3>2 DEF c
    <3>5. QED BY <3>3, <3>4 DEF c
  <2>8. ~ (optind + 1 < Len(line))
    <3>1. ASSUME optind + 1 < Len(line)
          PROVE  IsOption(w)
      <4>1. /\ optind + 1 \in DOMAIN line /\ optind + 1 > 1 /\ (optind + 1) - 1 = optind
            /\ line[optind] \in Words
        BY <1>0, <1>1, <2>4, WordsAre, LenProperties
      <4>2. line[(optind + 1) - 1] \in {x \in Words : LettersOf(x) \in {<<"l">>, <<"c">>}}
        BY <2>7, <4>1
      <4>3. QED BY <3>1, <4>1, <4>2, Zenon DEF Orderly, ParameterLast, w
    <3>2. QED BY <2>6, <3>1
  <2>9. optind + 1 = Len(line)
    <3>1. \A n, o \in Nat : o + 1 \in 1 .. n /\ ~ (o + 1 < n) => o + 1 = n
      OBVIOUS
    <3>2. QED BY <1>0, <2>4, <2>8, <3>1, Zenon
  <2>10. QED BY <2>5, <2>9, Zenon
<1>14. QED BY <1>9, <1>10, <1>11, <1>12, <1>13 DEF w

(* So main and getopt do not disagree.                                     *)
LEMMA OrderlyCounts ==
  ASSUME Inv, Orderly, Together, Lockstep, pc = "options", Option \in Known, NEW n \in Nat, NEW d,
         Counted(n, d), n >= argc \/ n = optind + (IF Option \in WithParameter THEN 2 ELSE 1)
  PROVE  /\ pc' = "options" /\ letter' = 1 /\ argidx' = n
         /\ optind' = optind + (IF Option \in WithParameter THEN 2 ELSE 1)
<1>1. NextWord # argc
  BY OptionProperties
<1>2. /\ NextWord = optind /\ WordDone /\ Arranged = line /\ Attached(line[optind]) = NoWord
  BY <1>1, PlainHere
<1>3. OptIndAfter = optind + (IF Option \in WithParameter THEN 2 ELSE 1)
  <2>1. OptIndAfter = IF Option \in WithParameter THEN optind + 2 ELSE optind + 1
    BY <1>2, Zenon DEF OptIndAfter
  <2>2. QED BY <2>1
<1>4. ~ Disagree(n)
  <2>1. argc \in Nat
    BY WordsAre
  <2>2. n >= argc \/ n = OptIndAfter
    BY <1>3, Zenon
  <2>3. QED BY <2>1, <2>2 DEF Disagree
<1>5. pc' = "options" /\ argidx' = n /\ GetOpt
  BY <1>4, Zenon DEF Counted
<1>6. letter' = 1 /\ optind' = OptIndAfter
  BY <1>2, <1>5 DEF GetOpt
<1>7. QED BY <1>3, <1>5, <1>6

(* The options one by one: main goes on.                                   *)
LEMMA OrderlySet ==
  ASSUME Inv, Orderly, Together, Lockstep, OptSet
  PROVE  pc' = "options" /\ Together' /\ Lockstep'
<1>1. pc = "options" /\ Option = "s" /\ Option \in Known
  BY DEF OptSet, Known
<1>2. NextWord # argc
  BY <1>1, OptionProperties
<1>3. argidx = optind /\ optind \in Nat /\ ~ OneTaken
  BY <1>1, <1>2, PlainHere, WordsAre, OrderlyIsClear DEF AllRead, OneTaken
<1>4. Counted(argidx + 1, [cfg EXCEPT !.set = TRUE])
  BY <1>1, <1>2, LetterFits, Zenon DEF OptSet
<1>5. pc' = "options" /\ letter' = 1 /\ argidx' = argidx + 1 /\ optind' = optind + 1
  <2> DEFINE n == argidx + 1
             d == [cfg EXCEPT !.set = TRUE]
             k == IF Option \in WithParameter THEN 2 ELSE 1
  <2>1. k = 1
    BY <1>1 DEF WithParameter
  <2>2. n \in Nat /\ n = optind + k
    BY <1>3, <2>1
  <2> HIDE DEF n, d
  <2>3. Counted(n, d)
    BY <1>4 DEF n, d
  <2>4. pc' = "options" /\ letter' = 1 /\ argidx' = n /\ optind' = optind + k
    BY <1>1, <2>2, <2>3, OrderlyCounts, Zenon
  <2>5. QED BY <2>1, <2>4 DEF n
<1>6. Together'
  BY <1>3, <1>5, OrderlyIsClear, SetReads
<1>7. Lockstep'
  BY <1>3, <1>5 DEF Lockstep
<1>8. QED BY <1>5, <1>6, <1>7

LEMMA OrderlyGet ==
  ASSUME Inv, Orderly, Together, Lockstep, OptGet
  PROVE  pc' = "options" /\ Together' /\ Lockstep'
<1>1. pc = "options" /\ Option = "g" /\ Option \in Known
  BY DEF OptGet, Known
<1>2. NextWord # argc
  BY <1>1, OptionProperties
<1>3. argidx = optind /\ optind \in Nat /\ ~ OneTaken
  BY <1>1, <1>2, PlainHere, WordsAre, OrderlyIsClear DEF AllRead, OneTaken
<1>4. Counted(argidx + 1, [cfg EXCEPT !.get = TRUE])
  BY <1>1, <1>2, LetterFits, Zenon DEF OptGet
<1>5. pc' = "options" /\ letter' = 1 /\ argidx' = argidx + 1 /\ optind' = optind + 1
  <2> DEFINE n == argidx + 1
             d == [cfg EXCEPT !.get = TRUE]
             k == IF Option \in WithParameter THEN 2 ELSE 1
  <2>1. k = 1
    BY <1>1 DEF WithParameter
  <2>2. n \in Nat /\ n = optind + k
    BY <1>3, <2>1
  <2> HIDE DEF n, d
  <2>3. Counted(n, d)
    BY <1>4 DEF n, d
  <2>4. pc' = "options" /\ letter' = 1 /\ argidx' = n /\ optind' = optind + k
    BY <1>1, <2>2, <2>3, OrderlyCounts, Zenon
  <2>5. QED BY <2>1, <2>4 DEF n
<1>6. Together'
  BY <1>3, <1>5, OrderlyIsClear, GetReads
<1>7. Lockstep'
  BY <1>3, <1>5 DEF Lockstep
<1>8. QED BY <1>5, <1>6, <1>7

LEMMA OrderlyModule ==
  ASSUME Inv, Orderly, Together, Lockstep, OptModule
  PROVE  pc' = "options" /\ Together' /\ Lockstep'
<1>1. pc = "options" /\ Option = "m" /\ Option \in Known
  BY DEF OptModule, Known
<1>2. NextWord # argc
  BY <1>1, OptionProperties
<1>3. argidx = optind /\ optind \in Nat /\ ~ OneTaken
  BY <1>1, <1>2, PlainHere, WordsAre, OrderlyIsClear DEF AllRead, OneTaken
<1>4. Counted(argidx + 2, [cfg EXCEPT !.names = OptArg])
  BY <1>1, <1>2, LetterFits, Zenon DEF OptModule
<1>5. pc' = "options" /\ letter' = 1 /\ argidx' = argidx + 2 /\ optind' = optind + 2
  <2> DEFINE n == argidx + 2
             d == [cfg EXCEPT !.names = OptArg]
             k == IF Option \in WithParameter THEN 2 ELSE 1
  <2>1. k = 2
    BY <1>1 DEF WithParameter
  <2>2. n \in Nat /\ n = optind + k
    BY <1>3, <2>1
  <2> HIDE DEF n, d
  <2>3. Counted(n, d)
    BY <1>4 DEF n, d
  <2>4. pc' = "options" /\ letter' = 1 /\ argidx' = n /\ optind' = optind + k
    BY <1>1, <2>2, <2>3, OrderlyCounts, Zenon
  <2>5. QED BY <2>1, <2>4 DEF n
<1>6. Together'
  BY <1>3, <1>5, OrderlyIsClear, ModuleReads
<1>7. Lockstep'
  BY <1>3, <1>5 DEF Lockstep
<1>8. QED BY <1>5, <1>6, <1>7

LEMMA OrderlyInstall ==
  ASSUME Inv, Orderly, Together, Lockstep, OptInstall
  PROVE  pc' = "options" /\ Together' /\ Lockstep'
<1>1. pc = "options" /\ Option = "i" /\ Option \in Known
  BY DEF OptInstall, Known
<1>2. NextWord # argc
  BY <1>1, OptionProperties
<1>3. argidx = optind /\ optind \in Nat /\ ~ OneTaken
  BY <1>1, <1>2, PlainHere, WordsAre, OrderlyIsClear DEF AllRead, OneTaken
<1>4. Counted(argidx + 2, [cfg EXCEPT !.pkg = OptArg])
  BY <1>1, <1>2, LetterFits, Zenon DEF OptInstall
<1>5. pc' = "options" /\ letter' = 1 /\ argidx' = argidx + 2 /\ optind' = optind + 2
  <2> DEFINE n == argidx + 2
             d == [cfg EXCEPT !.pkg = OptArg]
             k == IF Option \in WithParameter THEN 2 ELSE 1
  <2>1. k = 2
    BY <1>1 DEF WithParameter
  <2>2. n \in Nat /\ n = optind + k
    BY <1>3, <2>1
  <2> HIDE DEF n, d
  <2>3. Counted(n, d)
    BY <1>4 DEF n, d
  <2>4. pc' = "options" /\ letter' = 1 /\ argidx' = n /\ optind' = optind + k
    BY <1>1, <2>2, <2>3, OrderlyCounts, Zenon
  <2>5. QED BY <2>1, <2>4 DEF n
<1>6. Together'
  BY <1>3, <1>5, OrderlyIsClear, InstallReads
<1>7. Lockstep'
  BY <1>3, <1>5 DEF Lockstep
<1>8. QED BY <1>5, <1>6, <1>7

LEMMA OrderlyLevel ==
  ASSUME Inv, Orderly, Together, Lockstep, OptLevel
  PROVE  pc' = "options" /\ Together' /\ Lockstep'
<1>0. Len(line) \in Nat /\ argc = Len(line) + 1 /\ optind \in Nat /\ Clear
  BY WordsAre, OrderlyIsClear
<1>1. pc = "options" /\ Option = "l" /\ Option \in Known /\ Option \notin WithParameter
  BY DEF OptLevel, Known, WithParameter
<1>2. NextWord # argc
  BY <1>1, OptionProperties
<1>3. argidx = optind /\ AllRead /\ ~ OneTaken /\ Arranged = line
  BY <1>1, <1>2, PlainHere DEF AllRead, OneTaken
<1>4. /\ cfg.set \/ cfg.get
      /\ cfg.set => optind + 1 = Len(line)
      /\ Letter = "l" /\ (Letter = "c" /\ cfg.set => line[optind + 1] \in {On, Off})
  BY <1>1, <1>2, LetterFits
<1>5. (IF Option \in WithParameter THEN 2 ELSE 1) = 1
  BY <1>1
<1>6. CASE cfg.set
  <2>1. HasParameter
    <3>1. HasParameter
      BY <1>0, <1>3, <1>4, <1>6 DEF HasParameter
    <3>2. Letter = "c" => IsSwitch(Parameter)
      BY <1>3, <1>4, <1>6, Zenon DEF IsSwitch, Parameter
    <3>3. QED BY <1>4, <3>1, <3>2
  <2>2. Counted(argidx + 2, [cfg EXCEPT !.level = Parameter])
    BY <1>6, <2>1, Zenon DEF OptLevel
  <2> DEFINE n == argidx + 2
             d == [cfg EXCEPT !.level = Parameter]
  <2>3. n \in Nat /\ n >= argc /\ n = argidx + 2
    BY <1>0, <1>3, <1>4, <1>6
  <2> HIDE DEF n, d
  <2>4. Counted(n, d)
    BY <2>2 DEF n, d
  <2>5. pc' = "options" /\ letter' = 1
    BY <1>1, <2>3, <2>4, OrderlyCounts, Zenon
  <2>6. Together'
    BY <1>0, <2>5, LevelReads
  <2>7. SoFar' = [SoFar EXCEPT !.wants = Option] /\ SoFar \in Readings
    <3>1. Option \in {"l", "c"} /\ Unmoved
      BY <1>1 DEF Together
    <3>2. QED BY <1>0, <1>1, <1>3, <1>6, <2>1, <2>3, <2>4, <2>5, <3>1, TakenWord, Zenon
  <2>8. SoFar'.wants # ""
    BY <1>1, <2>7 DEF Readings, Marks
  <2>9. OneTaken'
    BY <2>6, <2>8, Zenon DEF Together, AllRead
  <2>10. QED BY <2>5, <2>6, <2>9 DEF Lockstep
<1>7. CASE ~ cfg.set
  <2>1. Counted(argidx + 1, [cfg EXCEPT !.show_level = TRUE])
    BY <1>4, <1>7, Zenon DEF OptLevel
  <2> DEFINE n == argidx + 1
             d == [cfg EXCEPT !.show_level = TRUE]
  <2>2. n \in Nat /\ n = optind + 1
    BY <1>0, <1>3
  <2> HIDE DEF n, d
  <2>3. Counted(n, d)
    BY <2>1 DEF n, d
  <2>4. pc' = "options" /\ letter' = 1 /\ argidx' = n /\ optind' = optind + 1
    <3> DEFINE k == IF Option \in WithParameter THEN 2 ELSE 1
    <3>1. n = optind + k
      BY <1>5, <2>2
    <3>2. pc' = "options" /\ letter' = 1 /\ argidx' = n /\ optind' = optind + k
      BY <1>1, <2>2, <2>3, <3>1, OrderlyCounts, Zenon
    <3>3. QED BY <1>5, <3>2
  <2>5. Together'
    BY <1>0, <2>4, LevelReads
  <2>6. Lockstep'
    BY <2>2, <2>4 DEF Lockstep
  <2>7. QED BY <2>4, <2>5, <2>6
<1>8. QED BY <1>6, <1>7

LEMMA OrderlyCoredump ==
  ASSUME Inv, Orderly, Together, Lockstep, OptCoredump
  PROVE  pc' = "options" /\ Together' /\ Lockstep'
<1>0. Len(line) \in Nat /\ argc = Len(line) + 1 /\ optind \in Nat /\ Clear
  BY WordsAre, OrderlyIsClear
<1>1. pc = "options" /\ Option = "c" /\ Option \in Known /\ Option \notin WithParameter
  BY DEF OptCoredump, Known, WithParameter
<1>2. NextWord # argc
  BY <1>1, OptionProperties
<1>3. argidx = optind /\ AllRead /\ ~ OneTaken /\ Arranged = line
  BY <1>1, <1>2, PlainHere DEF AllRead, OneTaken
<1>4. /\ cfg.set \/ cfg.get
      /\ cfg.set => optind + 1 = Len(line)
      /\ Letter = "c" /\ (Letter = "c" /\ cfg.set => line[optind + 1] \in {On, Off})
  BY <1>1, <1>2, LetterFits
<1>5. (IF Option \in WithParameter THEN 2 ELSE 1) = 1
  BY <1>1
<1>6. CASE cfg.set
  <2>1. HasParameter /\ IsSwitch(Parameter)
    <3>1. HasParameter
      BY <1>0, <1>3, <1>4, <1>6 DEF HasParameter
    <3>2. Letter = "c" => IsSwitch(Parameter)
      BY <1>3, <1>4, <1>6, Zenon DEF IsSwitch, Parameter
    <3>3. QED BY <1>4, <3>1, <3>2
  <2>2. Counted(argidx + 2, [cfg EXCEPT !.coredump = Parameter])
    BY <1>6, <2>1, Zenon DEF OptCoredump
  <2> DEFINE n == argidx + 2
             d == [cfg EXCEPT !.coredump = Parameter]
  <2>3. n \in Nat /\ n >= argc /\ n = argidx + 2
    BY <1>0, <1>3, <1>4, <1>6
  <2> HIDE DEF n, d
  <2>4. Counted(n, d)
    BY <2>2 DEF n, d
  <2>5. pc' = "options" /\ letter' = 1
    BY <1>1, <2>3, <2>4, OrderlyCounts, Zenon
  <2>6. Together'
    BY <1>0, <2>5, CoredumpReads
  <2>7. SoFar' = [SoFar EXCEPT !.wants = Option] /\ SoFar \in Readings
    <3>1. Option \in {"l", "c"} /\ Unmoved
      BY <1>1 DEF Together
    <3>2. QED BY <1>0, <1>1, <1>3, <1>6, <2>1, <2>3, <2>4, <2>5, <3>1, TakenWord, Zenon
  <2>8. SoFar'.wants # ""
    BY <1>1, <2>7 DEF Readings, Marks
  <2>9. OneTaken'
    BY <2>6, <2>8, Zenon DEF Together, AllRead
  <2>10. QED BY <2>5, <2>6, <2>9 DEF Lockstep
<1>7. CASE ~ cfg.set
  <2>1. Counted(argidx + 1, [cfg EXCEPT !.show_coredump = TRUE])
    BY <1>4, <1>7, Zenon DEF OptCoredump
  <2> DEFINE n == argidx + 1
             d == [cfg EXCEPT !.show_coredump = TRUE]
  <2>2. n \in Nat /\ n = optind + 1
    BY <1>0, <1>3
  <2> HIDE DEF n, d
  <2>3. Counted(n, d)
    BY <2>1 DEF n, d
  <2>4. pc' = "options" /\ letter' = 1 /\ argidx' = n /\ optind' = optind + 1
    <3> DEFINE k == IF Option \in WithParameter THEN 2 ELSE 1
    <3>1. n = optind + k
      BY <1>5, <2>2
    <3>2. pc' = "options" /\ letter' = 1 /\ argidx' = n /\ optind' = optind + k
      BY <1>1, <2>2, <2>3, <3>1, OrderlyCounts, Zenon
    <3>3. QED BY <1>5, <3>2
  <2>5. Together'
    BY <1>0, <2>4, CoredumpReads
  <2>6. Lockstep'
    BY <2>2, <2>4 DEF Lockstep
  <2>7. QED BY <2>4, <2>5, <2>6
<1>8. QED BY <1>6, <1>7

(* No other option, and no end before the last word.                       *)
LEMMA OrderlyOther ==
  ASSUME Inv, Orderly, Together, Lockstep
  PROVE  ~ OptOther
<1>1. CASE NextWord = argc
  BY <1>1, Zenon DEF OptOther, Option
<1>2. CASE NextWord # argc
  BY <1>2, LetterFits DEF OptOther, Known
<1>3. QED BY <1>1, <1>2

(* What such a line says is valid, and is done.                            *)
LEMMA OrderlyIsValid ==
  ASSUME Complete(Reading), Same(Reading), Exclusive
  PROVE  CheckGCfgIsValid
BY Zenon DEF Complete, Same, Exclusive, CheckGCfgIsValid, SetsLevel, SetsCoredump, Installs,
             ShowsLevel, ShowsCoredump, Lists, Given

(* And it calls a function, unless root has to ask for it.                 *)
LEMMA OrderlyIsDone ==
  ASSUME Complete(Reading), Same(Reading), Exclusive, NEW root \in BOOLEAN, Plan(root) = <<>>
  PROVE  ~ root /\ ~ Shows
<1>1. CASE cfg.show_level
  <2>1. Given(cfg.names)
    BY <1>1, Zenon DEF Complete, Same, Exclusive, SetsLevel, SetsCoredump, Installs,
                       ShowsLevel, ShowsCoredump, Lists, Given
  <2>2. Plan(root) = <<[call |-> "get_level", names |-> cfg.names]>>
    BY <1>1, <2>1, Zenon DEF Plan
  <2>3. QED BY <2>2
<1>2. CASE ~ cfg.show_level /\ Shows
  <2>1. Plan(root) \in {<<[call |-> "get_coredump"]>>, <<[call |-> "list"]>>}
    BY <1>2, Zenon DEF Plan, Shows
  <2>2. QED BY <2>1
<1>3. CASE ~ Shows /\ root
  <2>1. Plan(root) \in {<<[call |-> "set", names |-> cfg.names, level |-> cfg.level],
                          [call |-> "check_log"]>>,
                        <<[call |-> "coredump", to |-> cfg.coredump]>>,
                        <<[call |-> "install", names |-> cfg.pkg]>>}
    BY <1>3, Zenon DEF Plan, Shows
  <2>2. QED BY <2>1
<1>4. QED BY <1>1, <1>2, <1>3 DEF Shows

(* The invariant for lines in the usual order.                             *)
Obeyed ==
  Orderly => /\ pc = "options" => Together /\ Lockstep
             /\ pc \in {"check", "act"} => Same(Reading) /\ Exclusive
             /\ pc = "exit" => calls # <<>> \/ exit = "no_table" \/ uid = "other"

LEMMA SameOrder ==
  ASSUME line' = line
  PROVE  Orderly' <=> Orderly
<1>1. Reading' = Reading /\ ReadWords' = ReadWords
  BY SameWords
<1>2. Plain' <=> Plain
  BY DEF Plain
<1>3. ParameterLast' <=> ParameterLast
  BY DEF ParameterLast
<1>4. NoOptionAsLevel' <=> NoOptionAsLevel
  BY <1>1 DEF NoOptionAsLevel
<1>5. QED BY <1>1, <1>2, <1>3, <1>4, Zenon DEF Orderly

LEMMA InitObeyed == Init => Obeyed
<1> SUFFICES ASSUME Init, Orderly PROVE Obeyed
  BY DEF Obeyed
<1>1. Inv /\ Follows
  BY InitInv, InitFollows
<1>2. Clear
  BY <1>1, OrderlyIsClear
<1>3. pc = "options" /\ letter = 1 /\ argidx = optind /\ cfg = NoCfg
  BY DEF Init
<1>4. ~ Doomed
  BY <1>3 DEF Doomed, NoCfg
<1>5. Together
  BY <1>1, <1>2, <1>3, <1>4 DEF Follows
<1>6. Lockstep
  BY <1>3 DEF Lockstep
<1>7. QED BY <1>3, <1>5, <1>6 DEF Obeyed

LEMMA ActObeyed ==
  ASSUME Inv, Same(Reading), Exclusive, Complete(Reading), Act, calls' = <<>>
  PROVE  uid' = "other"
<1> DEFINE root == uid' = "root"
<1>1. Plan(root) = <<>> /\ uid' \in (IF Shows THEN {"unasked"} ELSE {"root", "other"})
  BY DEF Act
<1>2. root \in BOOLEAN
  OBVIOUS
<1> HIDE DEF root
<1>3. ~ root /\ ~ Shows
  BY <1>1, <1>2, OrderlyIsDone
<1>4. QED BY <1>1, <1>3 DEF root

LEMMA StepObeyed ==
  ASSUME Inv, Obeyed, Orderly, Next
  PROVE  Obeyed'
<1>1. CASE CountedOption
  <2>1. pc = "options"
    BY <1>1, Zenon DEF CountedOption, OptSet, OptGet, OptModule, OptInstall, OptLevel, OptCoredump
  <2>2. Together /\ Lockstep
    BY <2>1 DEF Obeyed
  <2>3. pc' = "options" /\ Together' /\ Lockstep'
    BY <1>1, <2>2, OrderlySet, OrderlyGet, OrderlyModule, OrderlyInstall, OrderlyLevel,
       OrderlyCoredump, Zenon DEF CountedOption
  <2>4. QED BY <2>3 DEF Obeyed
<1>2. CASE Help
  BY <1>2 DEF Obeyed, Help
<1>3. CASE OptOther
  <2>1. Together /\ Lockstep
    BY <1>3 DEF Obeyed, OptOther
  <2>2. QED BY <1>3, <2>1, OrderlyOther
<1>4. CASE OptEnd
  <2>1. Together /\ Option = "end" /\ line' = line /\ argidx' = argidx /\ cfg' = cfg
    BY <1>4 DEF Obeyed, OptEnd, Quit
  <2>2. Same(Reading) /\ Exclusive
    BY <2>1, EndReads, OrderlyIsClear DEF Together
  <2>3. Reading' = Reading /\ argc' = argc
    BY <2>1, SameWords
  <2>4. Same(Reading)' /\ Exclusive'
    BY <2>1, <2>2, <2>3, Zenon DEF Same, Exclusive
  <2>5. pc' = "check" \/ (pc' = "exit" /\ exit' = "no_table")
    BY <1>4 DEF OptEnd
  <2>6. QED BY <2>4, <2>5 DEF Obeyed
<1>5. CASE Check
  <2>1. Same(Reading) /\ Exclusive /\ line' = line /\ argidx' = argidx /\ cfg' = cfg
    BY <1>5 DEF Obeyed, Check, Quit
  <2>2. CheckGCfgIsValid
    BY <2>1, OrderlyIsValid DEF Orderly
  <2>3. pc' = "act"
    BY <1>5, <2>2, Zenon DEF Check
  <2>4. Reading' = Reading /\ argc' = argc
    BY <2>1, SameWords
  <2>5. Same(Reading)' /\ Exclusive'
    BY <2>1, <2>4, Zenon DEF Same, Exclusive
  <2>6. QED BY <2>3, <2>5 DEF Obeyed
<1>6. CASE Act
  <2>1. Same(Reading) /\ Exclusive /\ pc' = "exit"
    BY <1>6 DEF Obeyed, Act
  <2>2. calls' = <<>> => uid' = "other"
    BY <1>6, <2>1, ActObeyed DEF Orderly
  <2>3. QED BY <2>1, <2>2 DEF Obeyed
<1>7. QED BY <1>1, <1>2, <1>3, <1>4, <1>5, <1>6, Zenon DEF Next, CountedOption

LEMMA StutterObeyed ==
  ASSUME Inv, Obeyed, Orderly, UNCHANGED vars
  PROVE  Obeyed'
<1>1. /\ line' = line /\ uid' = uid /\ argv' = argv /\ optind' = optind /\ letter' = letter
      /\ nonopts' = nonopts /\ argidx' = argidx /\ cfg' = cfg /\ calls' = calls
      /\ pc' = pc /\ exit' = exit
  BY DEF vars, getopt
<1>2. Reading' = Reading /\ argc' = argc /\ ReadWords' = ReadWords
  BY <1>1, SameWords
<1>3. SoFar' = SoFar
  BY <1>1, <1>2, Zenon DEF SoFar
<1>4. /\ Exclusive' <=> Exclusive
      /\ Same(Reading)' <=> Same(Reading)
  BY <1>1, <1>2, Zenon DEF Exclusive, Same
<1>5. Unmoved' <=> Unmoved
  BY <1>1, <1>2, Zenon DEF Unmoved
<1>6. AllRead' <=> AllRead
  BY <1>1, <1>3, Zenon DEF AllRead, Same
<1>7. OneTaken' <=> OneTaken
  BY <1>1, <1>2, <1>3, Zenon DEF OneTaken, Same
<1>8. (Together' <=> Together) /\ (Lockstep' <=> Lockstep)
  BY <1>1, <1>4, <1>5, <1>6, <1>7, Zenon DEF Together, Lockstep
<1>9. QED BY <1>1, <1>4, <1>8, Zenon DEF Obeyed

(* A command line that says one thing in full, with each option in a word  *)
(* of its own and the parameter of -l or -c as the last word, is never     *)
(* refused: main's count (main.c:246-251) agrees with getopt's at every    *)
(* option, check_g_cfg_is_valid lets the settings pass, and the function   *)
(* is called unless the table did not load or the user is not root.        *)
THEOREM OrderlyLinesAreObeyed == Spec => []ObeysOrdered
<1>1. Init => Inv /\ Obeyed
  BY InitInv, InitObeyed
<1>2. Inv /\ Obeyed /\ [Next]_vars => Obeyed'
  <2> SUFFICES ASSUME Inv, Obeyed, [Next]_vars PROVE Obeyed'
    OBVIOUS
  <2>1. CASE Orderly
    BY <2>1, StepObeyed, StutterObeyed
  <2>2. CASE ~ Orderly
    <3>1. line' = line
      BY Zenon DEF Next, vars, OptSet, OptGet, OptModule, OptInstall, OptLevel, OptCoredump, Help,
                   OptOther, OptEnd, Check, Act, Counted, Quit
    <3>2. QED BY <2>2, <3>1, SameOrder DEF Obeyed
  <2>3. QED BY <2>1, <2>2
<1>3. Obeyed => ObeysOrdered
  BY DEF Obeyed, Orderly, ObeysOrdered
<1>4. QED BY <1>1, <1>2, <1>3, AlwaysInv, PTL DEF Spec
=============================================================================
