------------------------------ MODULE CliArgs ------------------------------
(***************************************************************************)
(* The command line of deepin-debug-config (main.c).  It has two readers:  *)
(* getopt_long, which steps over the words that are no options and moves   *)
(* them behind the others, and main itself, which counts the words it has  *)
(* seen beside getopt, takes the parameter of -l and -c from the place its *)
(* count points at, and gives up when the two do not agree.                *)
(***************************************************************************)
EXTENDS Naturals, Sequences, SequencesExt

CONSTANTS
  Words,        \* the words of a command line
  LettersOf(_), \* the options a word stands for: <<>> for a word that is none
  Attached(_),  \* the parameter in the same word ("-mx", "--module=x"), or NoWord
  NoWord,       \* no word
  On, Off,      \* the parameters of -c
  MaxWords      \* bound: words behind the program's name

ASSUME NoWordIsNone == NoWord \notin Words
ASSUME LettersGiven == \A w \in Words : LettersOf(w) \in Seq(STRING)
(* What stands for "behind the last option" is no letter.                  *)
ASSUME EndIsNoLetter ==
  \A w \in Words : \A i \in 1 .. Len(LettersOf(w)) : LettersOf(w)[i] # "end"
ASSUME BoundGiven == MaxWords \in Nat

VARIABLES
  line,    \* the words as they were typed
  uid,     \* what getuid said: root, or another user
  argv,    \* the words as getopt has arranged them
  optind,  \* the word getopt looks at next
  letter,  \* which of the options in that word is next
  nonopts, \* the words getopt has stepped over: from the first up to the last
  argidx,  \* main's count
  cfg,     \* g_cfg
  pc,      \* where main is
  calls,   \* the functions of the library it has called
  exit     \* its exit status; a table that did not load is told apart

getopt == <<argv, optind, letter, nonopts>>
vars == <<line, uid, getopt, argidx, cfg, pc, calls, exit>>

NoCfg == [set |-> FALSE, get |-> FALSE, names |-> NoWord, level |-> NoWord,
          coredump |-> NoWord, show_level |-> FALSE, show_coredump |-> FALSE, pkg |-> NoWord]

CommandLines == UNION {[1 .. n -> Words] : n \in 0 .. MaxWords}

Init ==
  /\ line \in CommandLines
  /\ uid = "unasked"
  /\ argv = line
  /\ optind = 1
  /\ letter = 1
  /\ nonopts = [first |-> 1, last |-> 1]
  /\ argidx = 1
  /\ cfg = NoCfg
  /\ pc = "options"
  /\ calls = <<>>
  /\ exit = "none"

argc == Len(line) + 1

-----------------------------------------------------------------------------
(* getopt_long with the options "t:m:lci:hgs".                             *)

WithParameter == {"m", "i", "t"}
(* What stands behind such a letter in its word is the parameter.          *)
ASSUME ParameterEndsWord ==
  \A w \in Words : \A i \in 1 .. Len(LettersOf(w)) - 1 : LettersOf(w)[i] \notin WithParameter
IsOption(w) == LettersOf(w) # <<>>
(* The parameters of -c do not look like options.                          *)
ASSUME SwitchesAreNoOptions == \A w \in Words : w \in {On, Off} => ~ IsOption(w)

(* The words from..mid-1 and mid..to-1 change places.                      *)
Exchange(a, from, mid, to) ==
  [i \in DOMAIN a |->
     IF i < from \/ i >= to THEN a[i]
     ELSE IF i < from + (to - mid) THEN a[i + (mid - from)]
     ELSE a[i - (to - mid)]]

(* Between two words: words stepped over before the options seen since     *)
(* then go behind these, and those that follow are stepped over.           *)
MustExchange == nonopts.first # nonopts.last /\ nonopts.last # optind
Arranged ==
  IF letter > 1 THEN argv
  ELSE IF MustExchange THEN Exchange(argv, nonopts.first, nonopts.last, optind)
  ELSE argv
FirstNonopt ==
  IF letter > 1 THEN nonopts.first
  ELSE IF MustExchange THEN nonopts.first + (optind - nonopts.last)
  ELSE IF nonopts.last # optind THEN optind ELSE nonopts.first
NextWord ==
  IF letter > 1 THEN optind
  ELSE CHOOSE i \in optind .. argc :
         /\ i = argc \/ IsOption(Arranged[i])
         /\ \A j \in optind .. i - 1 : ~ IsOption(Arranged[j])

(* The option getopt returns, with its parameter; "?" for one that it does *)
(* not know or whose parameter is missing, "end" behind the last one.      *)
Option ==
  IF NextWord = argc THEN "end"
  ELSE LET w == Arranged[NextWord]
           c == LettersOf(w)[letter]
       IN IF c \in WithParameter /\ Attached(w) = NoWord /\ NextWord + 1 = argc
            THEN "?" ELSE c
OptArg == IF Attached(Arranged[NextWord]) # NoWord THEN Attached(Arranged[NextWord])
            ELSE Arranged[NextWord + 1]
WordDone == letter = Len(LettersOf(Arranged[NextWord]))
OptIndAfter ==
  IF Option \in WithParameter /\ Attached(Arranged[NextWord]) = NoWord THEN NextWord + 2
  ELSE IF WordDone THEN NextWord + 1 ELSE NextWord

GetOpt ==
  /\ argv' = Arranged
  /\ nonopts' = [first |-> FirstNonopt, last |-> IF letter > 1 THEN nonopts.last ELSE NextWord]
  /\ optind' = OptIndAfter
  /\ letter' = IF WordDone THEN 1 ELSE letter + 1

-----------------------------------------------------------------------------
(* The loop of main over the options.                                      *)

Fail ==
  /\ pc' = "exit"
  /\ exit' = "error"

Quit == UNCHANGED <<line, uid, getopt, argidx, cfg, calls>>

(* The end of the loop's body: the count has to agree with getopt's unless *)
(* it has reached the end.                                                 *)
NeverDisagree(n) == FALSE
DisagreeToTheEnd(n) == n # OptIndAfter
Disagree(n) == n < argc /\ n # OptIndAfter
Counted(n, c) ==
  /\ GetOpt
  /\ argidx' = n
  /\ cfg' = c
  /\ IF Disagree(n) THEN Fail ELSE UNCHANGED <<pc, exit>>
  /\ UNCHANGED <<line, uid, calls>>

OptSet ==
  /\ pc = "options" /\ Option = "s"
  /\ IF cfg.get THEN Fail /\ Quit ELSE Counted(argidx + 1, [cfg EXCEPT !.set = TRUE])

OptGet ==
  /\ pc = "options" /\ Option = "g"
  /\ IF cfg.set THEN Fail /\ Quit ELSE Counted(argidx + 1, [cfg EXCEPT !.get = TRUE])

OptModule ==
  /\ pc = "options" /\ Option = "m"
  /\ Counted(argidx + 2, [cfg EXCEPT !.names = OptArg])

OptInstall ==
  /\ pc = "options" /\ Option = "i"
  /\ Counted(argidx + 2, [cfg EXCEPT !.pkg = OptArg])

(* With --set the word at main's own count is the parameter.               *)
HasParameter == argidx + 1 < argc
Parameter == Arranged[argidx + 1]
OptLevel ==
  /\ pc = "options" /\ Option = "l"
  /\ IF cfg.set
       THEN IF HasParameter
              THEN Counted(argidx + 2, [cfg EXCEPT !.level = Parameter])
              ELSE Fail /\ Quit
       ELSE IF cfg.get
              THEN Counted(argidx + 1, [cfg EXCEPT !.show_level = TRUE])
              ELSE Fail /\ Quit


(* -c takes two words; and any word.                                       *)
AnySwitch(w) == TRUE
IsSwitch(w) == w \in {On, Off}
OptCoredump ==
  /\ pc = "options" /\ Option = "c"
  /\ IF cfg.set
       THEN IF HasParameter /\ IsSwitch(Parameter)
              THEN Counted(argidx + 2, [cfg EXCEPT !.coredump = Parameter])
              ELSE Fail /\ Quit
       ELSE IF cfg.get
              THEN Counted(argidx + 1, [cfg EXCEPT !.show_coredump = TRUE])
              ELSE Fail /\ Quit

(* Help, also for a command line without any word.                         *)
Help ==
  /\ pc = "options"
  /\ Option = "h" \/ argc = 1
  /\ calls' = <<[call |-> "help"]>>
  /\ exit' = "ok"
  /\ pc' = "exit"
  /\ UNCHANGED <<line, uid, getopt, argidx, cfg>>

(* An option without a case of its own, -t among them.                     *)
OptOther ==
  /\ pc = "options" /\ argc > 1
  /\ Option \notin {"s", "g", "m", "i", "l", "c", "h", "end"}
  /\ Fail
  /\ Quit

(* Behind the options the table is loaded.                                 *)
OptEnd ==
  /\ pc = "options" /\ argc > 1
  /\ Option = "end"
  /\ \/ pc' = "check" /\ UNCHANGED exit
     \/ pc' = "exit" /\ exit' = "no_table"
  /\ Quit

-----------------------------------------------------------------------------
(* check_g_cfg_is_valid; module_types has no option that sets it.          *)
Given(x) == x # NoWord
CheckGCfgIsValid ==
  IF cfg.set
    THEN /\ ~ cfg.get /\ ~ Given(cfg.pkg)
         /\ IF Given(cfg.coredump) THEN ~ Given(cfg.names)
              ELSE Given(cfg.names) /\ Given(cfg.level)
  ELSE IF cfg.get
    THEN /\ ~ Given(cfg.pkg)
         /\ IF cfg.show_coredump THEN ~ Given(cfg.names)
              ELSE Given(cfg.names) => cfg.show_level
  ELSE Given(cfg.pkg)

Check ==
  /\ pc = "check"
  /\ IF CheckGCfgIsValid THEN pc' = "act" /\ UNCHANGED exit ELSE Fail
  /\ Quit

(* What main calls for the settings it has, in the order it asks for them. *)
Shows == cfg.show_level \/ cfg.show_coredump \/ cfg.get
Plan(root) ==
  IF cfg.show_level
    THEN IF Given(cfg.names) THEN <<[call |-> "get_level", names |-> cfg.names]>> ELSE <<>>
  ELSE IF cfg.show_coredump THEN <<[call |-> "get_coredump"]>>
  ELSE IF cfg.get THEN <<[call |-> "list"]>>
  ELSE IF ~ root THEN <<>>
  ELSE IF cfg.set
    THEN IF Given(cfg.names)
           THEN <<[call |-> "set", names |-> cfg.names, level |-> cfg.level],
                  [call |-> "check_log"]>>
           ELSE <<[call |-> "coredump", to |-> cfg.coredump]>>
  ELSE <<[call |-> "install", names |-> cfg.pkg]>>

(* The exit status is that of the first call; the list cannot fail.        *)
Act ==
  /\ pc = "act"
  /\ uid' \in IF Shows THEN {"unasked"} ELSE {"root", "other"}
  /\ calls' = Plan(uid' = "root")
  /\ pc' = "exit"
  /\ exit' \in IF calls' = <<>> THEN {"error"}
               ELSE IF calls'[1].call = "list" THEN {"ok"} ELSE {"ok", "error"}
  /\ UNCHANGED <<line, getopt, argidx, cfg>>

Next ==
  \/ OptSet \/ OptGet \/ OptModule \/ OptInstall \/ OptLevel \/ OptCoredump
  \/ Help \/ OptOther \/ OptEnd \/ Check \/ Act
Spec == Init /\ [][Next]_vars

-----------------------------------------------------------------------------
(* What a command line says, by the usage text: an option is followed by   *)
(* its parameter, if it has one, and -l and -c have one behind --set.      *)
Unread == [set |-> FALSE, get |-> FALSE, names |-> NoWord, level |-> NoWord, coredump |-> NoWord,
           show_level |-> FALSE, show_coredump |-> FALSE, pkg |-> NoWord, help |-> FALSE,
           wants |-> "", stray |-> FALSE, bad |-> FALSE]
ReadParameter(r, c, w) ==
  LET q == [r EXCEPT !.wants = ""] IN
  CASE c = "m" -> [q EXCEPT !.names = w]
    [] c = "i" -> [q EXCEPT !.pkg = w]
    [] c = "l" -> [q EXCEPT !.level = w]
    [] c = "c" -> [q EXCEPT !.coredump = w, !.bad = @ \/ w \notin {On, Off}]
    [] OTHER   -> [q EXCEPT !.bad = TRUE]
ReadLetter(r, c, attached) ==
  CASE c = "s" -> [r EXCEPT !.set = TRUE]
    [] c = "g" -> [r EXCEPT !.get = TRUE]
    [] c = "h" -> [r EXCEPT !.help = TRUE]
    [] c = "l" /\ r.set -> [r EXCEPT !.wants = "l"]
    [] c = "c" /\ r.set -> [r EXCEPT !.wants = "c"]
    [] c = "l" /\ ~ r.set /\ r.get -> [r EXCEPT !.show_level = TRUE]
    [] c = "c" /\ ~ r.set /\ r.get -> [r EXCEPT !.show_coredump = TRUE]
    [] c \in WithParameter -> IF attached = NoWord THEN [r EXCEPT !.wants = c]
                                ELSE ReadParameter(r, c, attached)
    [] OTHER -> [r EXCEPT !.bad = TRUE]
ReadLetters(r, w) ==
  LET q[k \in 0 .. Len(LettersOf(w))] ==
        IF k = 0 THEN r ELSE ReadLetter(q[k - 1], LettersOf(w)[k], Attached(w))
  IN q
ReadWord(r, w) ==
  IF r.wants # "" THEN ReadParameter(r, r.wants, w)
  ELSE IF ~ IsOption(w) THEN [r EXCEPT !.stray = TRUE]
  ELSE ReadLetters(r, w)[Len(LettersOf(w))]
(* What the first words say, and all of them.                              *)
ReadWords ==
  LET r[i \in 0 .. Len(line)] == IF i = 0 THEN Unread ELSE ReadWord(r[i - 1], line[i])
  IN r
Reading == ReadWords[Len(line)]

(* It says one thing, and says it in full.                                 *)
SetsLevel(r) == r.set /\ Given(r.names) /\ Given(r.level) /\ ~ Given(r.coredump)
SetsCoredump(r) == r.set /\ Given(r.coredump) /\ ~ Given(r.names) /\ ~ Given(r.level)
Installs(r) == ~ r.set /\ ~ r.get /\ Given(r.pkg)
ShowsLevel(r) == r.get /\ r.show_level /\ Given(r.names) /\ ~ r.show_coredump
ShowsCoredump(r) == r.get /\ r.show_coredump /\ ~ r.show_level /\ ~ Given(r.names)
Lists(r) == r.get /\ ~ r.show_level /\ ~ r.show_coredump /\ ~ Given(r.names)
Complete(r) ==
  /\ ~ r.stray /\ ~ r.bad /\ ~ r.help /\ r.wants = "" /\ ~ (r.set /\ r.get)
  /\ Given(r.pkg) => Installs(r)
  /\ \/ SetsLevel(r) \/ SetsCoredump(r) \/ Installs(r)
     \/ ShowsLevel(r) \/ ShowsCoredump(r) \/ Lists(r)

(* The indices stay within the words, and main's count is getopt's until   *)
(* it has come to their end.                                               *)
TypeOK ==
  /\ line \in Seq(Words)
  /\ uid \in {"unasked", "root", "other"}
  /\ DOMAIN argv = DOMAIN line /\ \A i \in DOMAIN argv : argv[i] \in Words
  /\ optind \in 1 .. argc
  /\ nonopts.first \in 1 .. argc /\ nonopts.last \in 1 .. argc
  /\ argidx \in Nat \ {0} /\ (pc = "options" => argidx = optind \/ argidx >= argc)
  /\ cfg.set \in BOOLEAN /\ cfg.get \in BOOLEAN
  /\ cfg.show_level \in BOOLEAN /\ cfg.show_coredump \in BOOLEAN
  /\ {cfg.names, cfg.pkg, cfg.level} \subseteq Words \cup {Attached(w) : w \in Words} \cup {NoWord}
  /\ cfg.coredump \in {On, Off, NoWord}
  /\ pc \in {"options", "check", "act", "exit"}
  /\ exit \in {"none", "ok", "error", "no_table"}

(* What the program does is what the command line says: no level is set,   *)
(* no coredump switched and nothing installed with words that stand        *)
(* elsewhere on the line, and none of it unless root asks for it.  The     *)
(* line has no word that is neither an option nor a parameter, no level    *)
(* that looks like an option, and no word in which -l stands before -m:    *)
(* main can take a word of the first kind in the place of another, getopt  *)
(* reads one of the second again, and both take the word behind the third. *)
NoOptionAsLevel ==
  \A i \in DOMAIN line : ReadWords[i - 1].wants = "l" => ~ IsOption(line[i])
NoneTakenTwice ==
  \A i \in DOMAIN line :
    LET c == LettersOf(line[i])
    IN  \A j, k \in DOMAIN c : c[j] = "l" /\ c[k] = "m" => k < j
Clear == ~ Reading.stray /\ NoOptionAsLevel /\ NoneTakenTwice
AsRoot == uid = "root"
ActsAsRead ==
  pc = "exit" /\ calls # <<>> /\ Clear =>
    LET r == Reading IN
    \A i \in DOMAIN calls :
      LET c == calls[i] IN
      CASE c.call = "set"          -> SetsLevel(r) /\ c.names = r.names /\ c.level = r.level /\ AsRoot
        [] c.call = "coredump"     -> SetsCoredump(r) /\ c.to = r.coredump /\ AsRoot
        [] c.call = "install"      -> Installs(r) /\ c.names = r.pkg /\ AsRoot
        [] c.call = "get_level"    -> r.get /\ r.show_level /\ c.names = r.names
        [] c.call = "get_coredump" -> ShowsCoredump(r)
        [] c.call = "list"         -> Lists(r)
        [] OTHER                   -> TRUE

(* A command line that says one thing in full is obeyed when each option   *)
(* is a word of its own and the parameter of -l or -c is the last word;    *)
(* other orders of the same words are refused as invalid.                  *)
Plain ==
  \A i \in DOMAIN line : Attached(line[i]) = NoWord /\ Len(LettersOf(line[i])) <= 1
ParameterLast ==
  \A i \in DOMAIN line :
    i > 1 /\ i < Len(line) /\ line[i - 1] \in {w \in Words : LettersOf(w) \in {<<"l">>, <<"c">>}}
      => IsOption(line[i])
ObeysOrdered ==
  pc = "exit" /\ calls = <<>> /\ Plain /\ ParameterLast /\ Complete(Reading) /\ NoOptionAsLevel =>
    exit = "no_table" \/ uid = "other"
=============================================================================
