---------------------------- MODULE OptionParser ----------------------------
(***************************************************************************)
(* parse_args of qos_args.hpp: a loop over the argument list in which an   *)
(* option takes the next argument, whatever it is, for its value.          *)
(***************************************************************************)
EXTENDS DdsQos, Sequences

CONSTANTS
  Tokens,   \* what an argument may be
  Atoi,     \* atoi of each of them
  MaxArgs   \* bound: number of arguments

NumOptions  == {"--domain", "--depth", "--samples", "--interval",
                "--keep-alive", "--timeout"}
TextOptions == {"--topic", "--name"}
KindOptions == {"--reliability", "--durability", "--history"}
AllOptions  == NumOptions \cup TextOptions \cup KindOptions
HelpOptions == {"--help", "-h"}

ASSUME ParserAssumption ==
  /\ Tokens \subseteq STRING
  /\ Atoi \in [Tokens -> Int]
  /\ MaxArgs \in Nat

VARIABLES
  argv,    \* the arguments after the program's name
  i,       \* the argument at hand
  args,    \* the values of the options (QosArgs)
  outcome  \* "parsing", or how main goes on: "run", "help" or "error"

vars == <<argv, i, args, outcome>>

\* The values of the struct's fields before any option.
Defaults ==
  [o \in AllOptions |->
     CASE o = "--topic"       -> "HelloWorldTopic"
       [] o = "--name"        -> ""
       [] o = "--reliability" -> "RELIABLE"
       [] o = "--durability"  -> "VOLATILE"
       [] o = "--history"     -> "KEEP_LAST"
       [] o = "--domain"      -> 0
       [] o = "--depth"       -> 10
       [] o = "--samples"     -> 20
       [] o = "--interval"    -> 250
       [] o = "--keep-alive"  -> 2
       [] o = "--timeout"     -> 300]

\* The spellings of each kind.
Spellings ==
  [k \in Reliability \cup Durability \cup History |->
     CASE k = "RELIABLE"        -> {"reliable", "re"}
       [] k = "BEST_EFFORT"     -> {"best_effort", "best-effort", "be"}
       [] k = "VOLATILE"        -> {"volatile", "v"}
       [] k = "TRANSIENT_LOCAL" -> {"transient_local", "transient", "tl"}
       [] k = "KEEP_LAST"       -> {"keep_last", "keeplast", "kl"}
       [] k = "KEEP_ALL"        -> {"keep_all", "keepall", "ka"}]

KindsOf(o) == CASE o = "--reliability" -> Reliability
                [] o = "--durability"  -> Durability
                [] o = "--history"     -> History

Accepts(o, v) ==
  o \in KindOptions => \E k \in KindsOf(o) : v \in Spellings[k]

\* What option o makes of the text v.
Meaning(o, v) ==
  IF o \in NumOptions THEN Atoi[v]
  ELSE IF o \in TextOptions THEN v
  ELSE CHOOSE k \in KindsOf(o) : v \in Spellings[k]

Init ==
  /\ argv \in UNION {[1..n -> Tokens] : n \in 0..MaxArgs}
  /\ i = 1 /\ args = Defaults /\ outcome = "parsing"

AtOption == outcome = "parsing" /\ i <= Len(argv)
HasValue == i + 1 <= Len(argv)

Stop(how) == outcome' = how /\ UNCHANGED <<argv, i, args>>

Help == AtOption /\ argv[i] \in HelpOptions /\ Stop("help")

Unknown ==
  AtOption /\ argv[i] \notin AllOptions \cup HelpOptions /\ Stop("error")

ValueMissing == AtOption /\ argv[i] \in AllOptions /\ ~HasValue /\ Stop("error")

ValueRejected ==
  /\ AtOption /\ argv[i] \in AllOptions /\ HasValue
  /\ ~Accepts(argv[i], argv[i + 1])
  /\ Stop("error")

\* Mutant: the first value of an option stays.
AssignOnce(o, v) ==
  args' = IF args[o] = Defaults[o]
            THEN [args EXCEPT ![o] = Meaning(o, v)] ELSE args

Assign(o, v) == args' = [args EXCEPT ![o] = Meaning(o, v)]

\* Mutant: an argument too many is skipped.
AdvanceByThree == i' = i + 3

\* Mutant: the value is looked at again as an option.
AdvanceByOne == i' = i + 1

Advance == i' = i + 2

Set ==
  /\ AtOption /\ argv[i] \in AllOptions /\ HasValue
  /\ Accepts(argv[i], argv[i + 1])
  /\ Assign(argv[i], argv[i + 1])
  /\ Advance
  /\ UNCHANGED <<argv, outcome>>

Finish == outcome = "parsing" /\ i > Len(argv) /\ Stop("run")

Finished == outcome # "parsing" /\ UNCHANGED vars

Next == Help \/ Unknown \/ ValueMissing \/ ValueRejected \/ Set \/ Finish
          \/ Finished

Spec == Init /\ [][Next]_vars

-----------------------------------------------------------------------------
(* Properties *)

\* Every variable has its type.
TypeOK ==
  /\ argv \in Seq(Tokens)
  /\ i \in 1..Len(argv) + 1
  /\ outcome \in {"parsing", "run", "help", "error"}
  /\ DOMAIN args = AllOptions
  /\ \A o \in NumOptions : args[o] \in Int
  /\ \A o \in TextOptions : args[o] \in Tokens \cup {Defaults[o]}
  /\ \A o \in KindOptions : args[o] \in KindsOf(o)

\* The places where an option stands, in a list read so far as "before":
\* every option takes one value, so it is every other place.
Places(before) == {p \in 1..before - 1 : p % 2 = 1}

\* An option at place p that is no reason to stop.
Good(p) ==
  argv[p] \in AllOptions /\ p + 1 <= Len(argv) /\ Accepts(argv[p], argv[p + 1])

\* Of an option given several times the last value holds, of one not given
\* the default: no value is taken for an option, or an option for a value
\* that is not its own (qos_args.hpp:84-118).
LastValueHolds ==
  \A o \in AllOptions :
    /\ (\A p \in Places(i) : argv[p] # o) => args[o] = Defaults[o]
    /\ \A p \in Places(i) :
         argv[p] = o /\ (\A q \in Places(i) : q > p => argv[q] # o) =>
           args[o] = Meaning(o, argv[p + 1])

\* The program runs only if every option was known and had a proper value;
\* help and an error end it at the first place that is neither
\* (qos_args.hpp:81,87,117).
OutcomeSound ==
  /\ \A p \in Places(i) : Good(p)
  /\ outcome = "run" => i = Len(argv) + 1
  /\ outcome = "help" => i \in Places(i + 1) /\ argv[i] \in HelpOptions
  /\ outcome = "error" =>
       i \in Places(i + 1) /\ argv[i] \notin HelpOptions /\ ~Good(i)

\* The inductive invariant: the loop is at an option whenever it is at all.
ParserInv == TypeOK /\ i % 2 = 1 /\ LastValueHolds /\ OutcomeSound
=============================================================================
