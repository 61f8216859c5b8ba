---------------------------- MODULE OptionParser ----------------------------
(***************************************************************************)
(* OptionParser::parse(argc, argv) of popl.hpp with the options main adds. *)
(* A word of the command line is an atom; what it looks like is given by   *)
(* the tables Long and Short, and every other word but "--" is plain.  One *)
(* step handles one word, and the next one if it is taken as an argument.  *)
(***************************************************************************)
EXTENDS Integers, Sequences, SequencesExt

CONSTANTS
  Long,     \* word -> [opt, arg]: "--opt" or "--opt=arg" (arg "" if none)
  Short,    \* word -> sequence of [opt, after]: the letters of "-abc", with
            \* the option of each and the rest of the word after it
  Plain,    \* words without a dash
  Number,   \* word -> integer, for words that are numbers
  MaxArgs   \* bound on the number of words

ASSUME WordsAssumption ==
  MaxArgs \in Nat /\ "--" \notin DOMAIN Long \cup DOMAIN Short \cup Plain

Words == DOMAIN Long \cup DOMAIN Short \cup Plain \cup {"--"}

\* The options of main.  A switch has no argument, all others require one.
Switches == {"suppress_hw_info", "units", "fast_memmon", "help"}
Numeric  == {"pid", "interval"}
Textual  == {"filename", "json_summary", "log_filename", "netdev", "disable",
             "level"}
WithArgument == Numeric \cup Textual

VARIABLES
  argv,              \* the words after the program name
  n,                 \* position of the parser
  values,            \* per option with an argument: the values_ collected
  set,               \* the switches that are set
  non_option_args, unknown_options,
  thrown             \* an invalid_option was thrown

parserVars == <<argv, n, values, set, non_option_args, unknown_options, thrown>>

ParserInit ==
  /\ argv \in SeqOf(Words, MaxArgs)
  /\ n = 1
  /\ values = [o \in WithArgument |-> <<>>] /\ set = {}
  /\ non_option_args = <<>> /\ unknown_options = <<>> /\ thrown = FALSE

Word == argv[n]
Parsing == n <= Len(argv) /\ ~thrown
Parsed  == n > Len(argv) /\ ~thrown

\* Mutated form: the words after "--" are read as options again.
ParseTerminatorOnly ==
  /\ Parsing /\ Word = "--"
  /\ n' = n + 1
  /\ UNCHANGED <<argv, values, set, non_option_args, unknown_options, thrown>>

\* "--": all that follows is taken as it is.
ParseTerminator ==
  /\ Parsing /\ Word = "--"
  /\ non_option_args' = non_option_args \o SubSeq(argv, n + 1, Len(argv))
  /\ n' = Len(argv) + 1
  /\ UNCHANGED <<argv, values, set, unknown_options, thrown>>

\* Value<T>::parse: the text of an option's argument is refused if it is
\* missing or is not a number and nothing else.
Acceptable(opt, text) ==
  IF opt \in Numeric THEN text \in DOMAIN Number ELSE text # ""

\* Adds an argument to opt: the text attached to the word or, if there is
\* none, the next word, whatever that looks like.
TakeArgument(opt, attached) ==
  LET next == attached = "" /\ n < Len(argv)
      text == IF next THEN argv[n + 1] ELSE attached
  IN  /\ n' = IF next THEN n + 2 ELSE n + 1
      /\ IF Acceptable(opt, text)
         THEN values' = [values EXCEPT ![opt] = Append(@, text)] /\ UNCHANGED thrown
         ELSE thrown' = TRUE /\ UNCHANGED values

\* A long option; unknown ones, and switches with an argument, are put aside.
ParseLong ==
  /\ Parsing /\ Word \in DOMAIN Long
  /\ LET opt == Long[Word].opt
         arg == Long[Word].arg
     IN  \/ /\ opt \in WithArgument
            /\ TakeArgument(opt, arg) /\ UNCHANGED <<set, unknown_options>>
         \/ /\ opt \in Switches /\ arg = ""
            /\ set' = set \cup {opt} /\ n' = n + 1
            /\ UNCHANGED <<values, unknown_options, thrown>>
         \/ /\ opt \notin WithArgument /\ ~(opt \in Switches /\ arg = "")
            /\ unknown_options' = Append(unknown_options, Word) /\ n' = n + 1
            /\ UNCHANGED <<values, set, thrown>>
  /\ UNCHANGED <<argv, non_option_args>>

\* A group of short options: switches, up to the first option that requires
\* an argument, whose argument is the rest of the word or the next word.
ParseShort ==
  /\ Parsing /\ Word \in DOMAIN Short
  /\ LET letters == Short[Word]
         takers  == {m \in DOMAIN letters : letters[m].opt \in WithArgument}
         used    == {letters[m].opt : m \in {k \in DOMAIN letters :
                                               \A t \in takers : k < t}}
     IN  /\ set' = set \cup (used \cap Switches)
         /\ IF takers = {} THEN n' = n + 1 /\ UNCHANGED <<values, thrown>>
            ELSE \E t \in takers : /\ \A u \in takers : t <= u
                                   /\ TakeArgument(letters[t].opt, letters[t].after)
         /\ unknown_options' =
              IF used \subseteq Switches THEN unknown_options
              ELSE Append(unknown_options, Word)
  /\ UNCHANGED <<argv, non_option_args>>

\* A plain word belongs to the program to run, wherever it stands.
ParsePlain ==
  /\ Parsing /\ Word \in Plain
  /\ non_option_args' = Append(non_option_args, Word) /\ n' = n + 1
  /\ UNCHANGED <<argv, values, set, unknown_options, thrown>>

Parse == ParseTerminator \/ ParseLong \/ ParseShort \/ ParsePlain

\* value(): the first one given, though repeating the option is accepted.
Value(opt) == Head(values[opt])
IsSet(opt) == values[opt] # <<>>

---------------------------------------------------------------------------
(* Properties.                                                             *)

\* Whether word i makes the parser take the next word as its argument.
TakesNext(i) ==
  \/ /\ argv[i] \in DOMAIN Long
     /\ Long[argv[i]].opt \in WithArgument /\ Long[argv[i]].arg = ""
  \/ /\ argv[i] \in DOMAIN Short
     /\ \E m \in DOMAIN Short[argv[i]] :
          Short[argv[i]][m].opt \in WithArgument /\ Short[argv[i]][m].after = ""

\* "--" protects the program: unless the word before it asks for an argument,
\* all that follows reaches the program in order and untouched, with nothing
\* added after it, and no word with a dash from before it does
\* (popl.hpp:998-1081, prmon.cpp:289-292).
VerbatimAfterDashes ==
  Parsed => \A i \in DOMAIN argv :
    (argv[i] = "--" /\ (i = 1 \/ ~TakesNext(i - 1))) =>
      \E k \in 0..(i - 1) :
        /\ SubSeq(non_option_args, k + 1, Len(non_option_args))
             = SubSeq(argv, i + 1, Len(argv))
        /\ (\A j \in 1..(i - 1) : argv[j] # "--")
             => ToSet(SubSeq(non_option_args, 1, k)) \subseteq Plain
============================================================================
