------------------------------- MODULE Options -------------------------------
(***************************************************************************)
(* getopt (src/src/c/unistd): the options of argv one call at a time, the  *)
(* place inside a cluster of them kept between the calls.  A word is the   *)
(* sequence of its characters.                                             *)
(***************************************************************************)
EXTENDS Integers, Sequences, SequencesExt

VARIABLES
    argv,       \* the words of the command line; argv[1] is the program
    optstring,  \* the letters, a colon behind those that take an argument
    optind,     \* the word that comes next, counted from 0 as the code does
    scan,       \* what is left of the cluster being read
    optarg,     \* the argument of the last option, or NULL
    ended,      \* the last call gave -1
    options     \* what the calls before it gave

optionsVars == <<argv, optstring, optind, scan, optarg, ended, options>>

argc == Len(argv)
WordOf(words, i) == words[i + 1]

(* A pointer to a word, or NULL. *)
Null == <<>>
To(word) == <<word>>

OptionsInit(words, letters) ==
    /\ argv = words /\ optstring = letters
    /\ optind = 1 /\ scan = <<>> /\ optarg = Null /\ ended = FALSE /\ options = <<>>

Option(ret, c, arg) == [ret |-> ret, optopt |-> c, optarg |-> arg]
Gives(ret, c, arg) == /\ options' = Append(options, Option(ret, c, arg))
                      /\ optarg' = arg

(* strchr finds the first place of a letter in optstring. *)
Known(letters, c) == c # ":" /\ \E i \in 1..Len(letters) : letters[i] = c
NeedsArgument(letters, c) ==
    \E i \in 1..Len(letters) - 1 : /\ letters[i] = c /\ letters[i + 1] = ":"
                                   /\ \A k \in 1..i - 1 : letters[k] # c
TakesArgument(letters, c) == Known(letters, c) /\ NeedsArgument(letters, c)
Missing(letters) == IF letters # <<>> /\ letters[1] = ":" THEN ":" ELSE "?"

(* One letter of the cluster, the next word begun. *)
Letter(cluster, next) ==
    LET c == Head(cluster)
        rest == Tail(cluster)
    IN  /\ UNCHANGED <<argv, optstring, ended>>
        /\ \/ /\ ~Known(optstring, c)
              /\ Gives("?", c, Null) /\ scan' = rest /\ optind' = next
           \/ /\ Known(optstring, c) /\ ~NeedsArgument(optstring, c)
              /\ Gives(c, c, Null) /\ scan' = rest /\ optind' = next
           \/ /\ TakesArgument(optstring, c) /\ rest # <<>>
              /\ Gives(c, c, To(rest)) /\ scan' = <<>> /\ optind' = next
           \/ /\ TakesArgument(optstring, c) /\ rest = <<>> /\ next < argc
              /\ Gives(c, c, To(WordOf(argv, next))) /\ scan' = <<>> /\ optind' = next + 1
           \/ /\ TakesArgument(optstring, c) /\ rest = <<>> /\ next >= argc
              /\ Gives(Missing(optstring), c, Null) /\ scan' = rest /\ optind' = next

\* Bug: optind stays in front of the -- that ends the options.
Stop_before(next) == /\ ended' = TRUE /\ optarg' = Null
                     /\ UNCHANGED <<argv, optstring, optind, scan, options>>

Stop(next) == /\ ended' = TRUE /\ optarg' = Null /\ optind' = next
              /\ UNCHANGED <<argv, optstring, scan, options>>

(* A word of options begins with a dash, and there is more of it. *)
IsCluster(words, i) == i < Len(words) /\ Len(WordOf(words, i)) > 1 /\ WordOf(words, i)[1] = "-"
IsEnd(words, i) == i < Len(words) /\ WordOf(words, i) = <<"-", "-">>

getopt ==
    LET ind == IF optind = 0 THEN 1 ELSE optind
    IN  \/ scan # <<>> /\ Letter(scan, optind)
        \/ scan = <<>> /\ ~IsCluster(argv, ind) /\ Stop(ind)
        \/ scan = <<>> /\ IsEnd(argv, ind) /\ Stop(ind + 1)
        \/ /\ scan = <<>> /\ IsCluster(argv, ind) /\ ~IsEnd(argv, ind)
           /\ Letter(Tail(WordOf(argv, ind)), ind + 1)

Getopt == ~ended /\ getopt

(* A caller that starts again, at the first word. *)
Reset == /\ ended /\ ended' = FALSE /\ optind' = 0 /\ options' = <<>>
         /\ UNCHANGED <<argv, optstring, scan, optarg>>

OptionsNext == Getopt \/ Reset
OptionsSpec == /\ \E words \in Seq(Seq(STRING)), letters \in Seq(STRING) :
                     OptionsInit(words, letters)
               /\ [][OptionsNext]_optionsVars

-----------------------------------------------------------------------------
(* The command line read as a whole, a word at a time: in a word of        *)
(* options every letter is one up to the first that takes an argument,     *)
(* which is what is behind it in the word or else the next word.           *)
LastLetter(word, letters) ==
    Min({k \in 2..Len(word) : TakesArgument(letters, word[k])} \cup {Len(word)})
TakesNext(words, letters, i) ==
    LET word == WordOf(words, i)
    IN  /\ LastLetter(word, letters) = Len(word) /\ TakesArgument(letters, word[Len(word)])
        /\ i + 1 < Len(words)
OptionAt(words, letters, i, k) ==
    LET word == WordOf(words, i)
        c == word[k]
    IN  IF ~Known(letters, c) THEN Option("?", c, Null)
        ELSE IF ~NeedsArgument(letters, c) THEN Option(c, c, Null)
        ELSE IF k < Len(word) THEN Option(c, c, To(SubSeq(word, k + 1, Len(word))))
        ELSE IF i + 1 < Len(words) THEN Option(c, c, To(WordOf(words, i + 1)))
        ELSE Option(Missing(letters), c, Null)
OptionsOf(words, letters, i) ==
    [k \in 1..LastLetter(WordOf(words, i), letters) - 1 |-> OptionAt(words, letters, i, k + 1)]

(* From word to word, up to the first that is no word of options. *)
ReadWord(words, letters, x) ==
    IF ~IsCluster(words, x.next) \/ IsEnd(words, x.next) THEN x
    ELSE [next |-> x.next + IF TakesNext(words, letters, x.next) THEN 2 ELSE 1,
          list |-> x.list \o OptionsOf(words, letters, x.next)]
ReadAll(words, letters) ==
    LET read[k \in 0..Len(words)] == IF k = 0 THEN [next |-> 1, list |-> <<>>]
                                     ELSE ReadWord(words, letters, read[k - 1])
    IN  read[Len(words)]

(* The calls of getopt, one letter each, give the options of the command   *)
(* line in their order, and end with optind at the first operand: getopt.c *)
(* and the scan it keeps between its calls.                                *)
OptionsInOrder ==
    LET all == ReadAll(argv, optstring)
    IN  /\ IsPrefix(options, all.list)
        /\ ended => /\ options = all.list
                    /\ optind = all.next + IF IsEnd(argv, all.next) THEN 1 ELSE 0
=============================================================================
