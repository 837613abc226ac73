------------------------------ MODULE Options ------------------------------
(***************************************************************************)
(* The scan of the command line, SetOptions, over the table of options and *)
(* their setters.  The value of an option may follow its letters at once   *)
(* (-s5), after a delimiter (-s=5), in the next argument (-s 5), or in the *)
(* next argument after a delimiter (-s =5, -s= 5).  OptionValue, the place *)
(* of the value, is a variable of the whole scan.                          *)
(***************************************************************************)
EXTENDS Integers, Sequences, FiniteSetsExt

CONSTANTS
  UIntMod,      \* 2^32 in the code: an option value is a UINT32
  MaxThreads,   \* MAX_THREADS
  MaxChannel,   \* 1023
  OptionsUsed,  \* the options of the command lines that are scanned
  Values,       \* the numbers on them
  MaxArgs       \* bound: arguments on a command line

Flag == {"e", "fr", "fw", "q", "r", "v", "z"}
Valued == {"a", "b", "c", "dr", "dw", "i", "m", "p", "s", "t"}

ASSUME OptionsAssumption ==
  /\ UIntMod \in Nat /\ MaxThreads \in Nat \ {0} /\ MaxChannel \in Nat
  /\ OptionsUsed \subseteq Flag \cup Valued
  /\ Values \subseteq 0 .. UIntMod - 1
  /\ MaxArgs \in Nat

(* A string that is to be a number: one, or no string, "", not a number.   *)
Null == -1
Empty == -2
Junk == -3
Text == Values \cup {Empty, Junk}

(* An argument: an option, the start of one that is in no table, or no     *)
(* option at all; then a delimiter or none, and the text after it.         *)
Arg == [opt: OptionsUsed \cup {"unknown", "plain"}, delim: BOOLEAN, text: Text]

Lines == UNION {[1 .. n -> Arg] : n \in 0 .. MaxArgs}

VARIABLES
  args,         \* the arguments after the program's name
  argc,         \* index of the scan
  optionValue,  \* what OptionValue points to
  cfg           \* CFG_PARAMS, by the option that sets it

ovars == <<args, argc, optionValue, cfg>>

-----------------------------------------------------------------------------
(* The setters.                                                            *)

(* One thread; every other default is 0 here.                              *)
Default(o) == IF o = "t" THEN 1 ELSE 0

(* The channel numbers are INT32.                                          *)
Signed(v) == IF 2 * v < UIntMod THEN v ELSE v - UIntMod

(* Mutant: the number of threads is only checked from above.               *)
AcceptsNoThread(o, v) ==
  CASE o = "a" -> v = 0
    [] o = "p" -> v <= 2
    [] o = "t" -> v <= MaxThreads
    [] OTHER -> TRUE

(* A value the setter has no use for leaves the setting alone ...          *)
Accepts(o, v) ==
  CASE o = "a" -> v = 0
    [] o = "p" -> v <= 2
    [] o = "t" -> v \in 1 .. MaxThreads
    [] OTHER -> TRUE

(* ... except that a channel out of range sets channel 0.                  *)
Effect(o, v) ==
  CASE o \in Flag \cup {"a"} -> 1
    [] o \in {"dr", "dw"} -> IF Signed(v) > MaxChannel THEN 0 ELSE Signed(v)
    [] OTHER -> v

Set(o, v) == IF Accepts(o, v) THEN [cfg EXCEPT ![o] = Effect(o, v)] ELSE cfg

-----------------------------------------------------------------------------
(* Finding the value of the option at argc.                                *)

(* isHexStr, which "" passes, and __strtoul.                               *)
IsHex(t) == t \notin {Null, Junk}
Number(t) == IF t = Empty THEN 0 ELSE t

There(k) == k <= Len(args)
IsOption(k) == There(k) /\ args[k].opt # "plain"

(* The whole of argument k as a number; an option or a delimiter is none.  *)
Whole(k) ==
  IF ~There(k) THEN Null
  ELSE IF IsOption(k) \/ args[k].delim THEN Junk ELSE args[k].text

Bare(a) == ~a.delim /\ a.text = Empty

(* Mutant: the argument that turns out to be an option is consumed.        *)
PlaceNoBackup ==
  IF ~Bare(args[argc]) THEN argc ELSE argc + 1

(* The argument OptionPtr is left in: the option's own, or the next one if *)
(* that is not an option; past the last argument it is NULL.               *)
Place ==
  IF ~Bare(args[argc]) \/ IsOption(argc + 1) THEN argc ELSE argc + 1

HasPlace == ~Bare(args[argc]) \/ (There(argc + 1) /\ ~IsOption(argc + 1))

(* A delimiter at the end of its argument: the value is the next argument, *)
(* whatever it is.                                                         *)
Dangling(k) == args[k].delim /\ args[k].text = Empty

(* Mutant: a missing value is looked for in yet another argument.          *)
LastReadOnward ==
  IF ~HasPlace \/ Dangling(Place) THEN Place + 1 ELSE Place

LastRead == IF HasPlace /\ Dangling(Place) THEN Place + 1 ELSE Place

(* Mutant: OptionValue is not cleared when the text has no delimiter.      *)
FoundKept ==
  IF HasPlace /\ args[Place].delim
  THEN IF Dangling(Place) THEN Whole(Place + 1) ELSE args[Place].text
  ELSE optionValue

(* OptionValue after the search: without a place to search it keeps what   *)
(* it pointed to.                                                          *)
Found ==
  IF ~HasPlace THEN optionValue
  ELSE IF ~args[Place].delim THEN Null
  ELSE IF Dangling(Place) THEN Whole(Place + 1)
  ELSE args[Place].text

(* The string that is converted.                                           *)
Converted ==
  IF Found # Null THEN Found
  ELSE IF HasPlace /\ ~args[Place].delim THEN args[Place].text ELSE Null

-----------------------------------------------------------------------------
OInit ==
  /\ args \in Lines
  /\ argc = 1
  /\ optionValue = Null
  /\ cfg = [o \in OptionsUsed |-> Default(o)]

(* Not an option, or one that is not recognized.                           *)
Skip ==
  /\ There(argc)
  /\ args[argc].opt \in {"plain", "unknown"}
  /\ argc' = argc + 1
  /\ UNCHANGED <<args, optionValue, cfg>>

FlagOption ==
  /\ There(argc)
  /\ args[argc].opt \in Flag
  /\ cfg' = Set(args[argc].opt, 0)
  /\ argc' = argc + 1
  /\ UNCHANGED <<args, optionValue>>

ValuedOption ==
  /\ There(argc)
  /\ args[argc].opt \in Valued
  /\ optionValue' = Found
  /\ cfg' = IF IsHex(Converted) THEN Set(args[argc].opt, Number(Converted)) ELSE cfg
  /\ argc' = LastRead + 1
  /\ UNCHANGED args

Scanned == ~There(argc) /\ UNCHANGED ovars

ONext == Skip \/ FlagOption \/ ValuedOption \/ Scanned

OSpec == OInit /\ [][ONext]_ovars

-----------------------------------------------------------------------------
OTypeOK ==
  /\ args \in Seq(Arg)
  /\ argc \in Nat \ {0}
  /\ optionValue \in Text \cup {Null}
  /\ cfg \in [OptionsUsed -> Int]
  /\ \A o \in OptionsUsed \cap {"t"} : cfg[o] \in 1 .. MaxThreads

(* The reference reading of a command line on which every option that      *)
(* takes a value has a number of its own, in one of the forms -s5, -s=5    *)
(* and -s 5: an option has the last value its setter accepts.              *)
OwnValue(k) ==
  IF Bare(args[k]) THEN Whole(k + 1) ELSE args[k].text

Proper ==
  \A k \in DOMAIN args : args[k].opt \in Valued => OwnValue(k) \in Values

Reading(o) ==
  LET given == {k \in DOMAIN args :
                  args[k].opt = o /\ (o \in Flag \/ Accepts(o, OwnValue(k)))}
  IN IF given = {} THEN Default(o)
     ELSE IF o \in Flag THEN 1 ELSE Effect(o, OwnValue(Max(given)))

(* When the scan is over, the settings are the reading of the line, however*)
(* the forms of the options before left OptionValue.                       *)
ProperLinesAreRead ==
  ~There(argc) /\ Proper => \A o \in OptionsUsed : cfg[o] = Reading(o)

(* No flag is taken for the value of the option before it, unless that one *)
(* ends in a delimiter (SetOptions: "Make sure the next value isn't        *)
(* another option").                                                       *)
FlagsAreHonoured ==
  ~There(argc) =>
    \A k \in DOMAIN args :
      args[k].opt \in Flag /\ ~(k > 1 /\ Dangling(k - 1)) => cfg[args[k].opt] = 1

(* The scan reads argv up to the NULL that ends it, never what is past it, *)
(* on lines whose last option lacks its value too.                         *)
NeverPastTheNull == argc <= Len(args) + 2

-----------------------------------------------------------------------------
(* What a message of the program says and the code does not do.            *)

(* "The -%s requires a parameter, option ignored" (ExpressoCli.cpp:729):   *)
(* an option with no text of its own and no argument but options after it  *)
(* changes no setting.                                                     *)
MissingValueIgnored ==
  [][There(argc) /\ args[argc].opt \in Valued /\ ~HasPlace => cfg' = cfg]_ovars

=============================================================================
