------------------------- MODULE OptionParserProofs -------------------------
(***************************************************************************)
(* The option parser on argument lists of any length.                      *)
(***************************************************************************)
EXTENDS OptionParser, SequenceTheorems, TLAPS

\* The value of an option has the option's type.
LEMMA MeaningType ==
  ASSUME NEW o \in AllOptions, NEW v \in Tokens, Accepts(o, v)
  PROVE  /\ o \in NumOptions => Meaning(o, v) \in Int
         /\ o \in TextOptions => Meaning(o, v) \in Tokens
         /\ o \in KindOptions => Meaning(o, v) \in KindsOf(o)
<1>1. CASE o \in NumOptions
  BY <1>1, ParserAssumption
     DEF Meaning, NumOptions, TextOptions, KindOptions
<1>2. CASE o \in TextOptions
  BY <1>2, ParserAssumption
     DEF Meaning, NumOptions, TextOptions, KindOptions
<1>3. CASE o \in KindOptions
  <2>1. PICK k \in KindsOf(o) : v \in Spellings[k]
    BY <1>3 DEF Accepts
  <2>2. Meaning(o, v) = CHOOSE c \in KindsOf(o) : v \in Spellings[c]
    BY <1>3 DEF Meaning, NumOptions, TextOptions, KindOptions
  <2>3. Meaning(o, v) \in KindsOf(o)
    BY <2>1, <2>2
  <2> QED
    BY <1>3, <2>3 DEF NumOptions, TextOptions, KindOptions
<1> QED
  BY <1>1, <1>2, <1>3 DEF AllOptions

\* The defaults have the types of their options.
LEMMA DefaultTypes ==
  /\ DOMAIN Defaults = AllOptions
  /\ \A o \in NumOptions : Defaults[o] \in Int
  /\ \A o \in KindOptions : Defaults[o] \in KindsOf(o)
<1>n. /\ Defaults["--domain"] = 0 /\ Defaults["--depth"] = 10
      /\ Defaults["--samples"] = 20 /\ Defaults["--interval"] = 250
      /\ Defaults["--keep-alive"] = 2 /\ Defaults["--timeout"] = 300
  BY DEF Defaults, AllOptions, NumOptions
<1>1. \A o \in NumOptions : Defaults[o] \in Int
  BY <1>n DEF NumOptions
<1>3. \A o \in KindOptions : Defaults[o] \in KindsOf(o)
  BY DEF Defaults, AllOptions, KindOptions, KindsOf, Reliability, Durability,
         History
<1>4. DOMAIN Defaults = AllOptions
  BY DEF Defaults
<1> QED
  BY <1>1, <1>3, <1>4

\* After an option and its value there is one more place.
LEMMA OneMorePlace ==
  ASSUME i \in Nat \ {0}, i % 2 = 1
  PROVE  /\ Places(i + 2) = Places(i) \cup {i}
         /\ \A p \in Places(i) : p < i /\ p \in Nat
         /\ (i + 2) % 2 = 1
         /\ i \in Places(i + 1)
BY DEF Places

LEMMA ParserInit == Init => ParserInv
<1> SUFFICES ASSUME Init PROVE ParserInv
  OBVIOUS
<1>1. PICK n \in 0..MaxArgs : argv \in [1..n -> Tokens]
  BY DEF Init
<1>2. argv \in Seq(Tokens) /\ Len(argv) = n /\ n \in Nat
  BY <1>1, ParserAssumption, SeqDef
<1>3. TypeOK
  <2>1. i = 1 /\ outcome = "parsing" /\ args = Defaults
    BY DEF Init
  <2>2. i \in 1..Len(argv) + 1
    BY <1>2, <2>1
  <2> QED
    BY <1>2, <2>1, <2>2, DefaultTypes DEF TypeOK
<1>4. Places(i) = {} /\ i % 2 = 1
  BY DEF Init, Places
<1> QED
  BY <1>3, <1>4 DEF Init, ParserInv, LastValueHolds, OutcomeSound

\* A step that only ends the loop.
LEMMA StopStep ==
  ASSUME ParserInv, NEW how \in {"run", "help", "error"}, Stop(how),
         how = "run" => i = Len(argv) + 1,
         how = "help" => argv[i] \in HelpOptions,
         how = "error" => argv[i] \notin HelpOptions /\ ~Good(i)
  PROVE  ParserInv'
<1>1. TypeOK' /\ i' % 2 = 1 /\ LastValueHolds'
  BY DEF ParserInv, Stop, TypeOK, LastValueHolds, Places
<1>2. i \in Places(i + 1)
  BY OneMorePlace DEF ParserInv, TypeOK
<1>3. OutcomeSound'
  BY <1>2 DEF ParserInv, Stop, OutcomeSound, Places, Good
<1> QED
  BY <1>1, <1>3 DEF ParserInv

\* A step that takes an option and its value.
LEMMA SetStep ==
  ASSUME ParserInv, Set
  PROVE  ParserInv'
<1> DEFINE o == argv[i]
           v == argv[i + 1]
<1>1. /\ i \in Nat \ {0} /\ i + 1 <= Len(argv) /\ i % 2 = 1
      /\ argv \in Seq(Tokens) /\ Len(argv) \in Nat
  BY DEF ParserInv, TypeOK, Set, HasValue
<1>2. /\ o \in AllOptions /\ v \in Tokens /\ Accepts(o, v)
      /\ args' = [args EXCEPT ![o] = Meaning(o, v)]
      /\ argv' = argv /\ outcome' = outcome /\ outcome = "parsing"
      /\ i' = i + 2
  BY <1>1 DEF Set, Assign, Advance, AtOption
<1>3. Good(i)
  BY <1>1, <1>2 DEF Good
<1> HIDE DEF o, v
<1>4. args'[o] = Meaning(o, v) /\ \A u \in AllOptions : u # o => args'[u] = args[u]
  BY <1>2 DEF ParserInv, TypeOK
<1>5. TypeOK'
  <2>1. DOMAIN args' = AllOptions
    BY <1>2 DEF ParserInv, TypeOK
  <2>2. \A u \in NumOptions : args'[u] \in Int
    BY <1>2, <1>4, MeaningType DEF ParserInv, TypeOK, AllOptions
  <2>3. \A u \in TextOptions : args'[u] \in Tokens \cup {Defaults[u]}
    BY <1>2, <1>4, MeaningType DEF ParserInv, TypeOK, AllOptions
  <2>4. \A u \in KindOptions : args'[u] \in KindsOf(u)
    BY <1>2, <1>4, MeaningType DEF ParserInv, TypeOK, AllOptions
  <2>5. i' \in 1..Len(argv') + 1
    BY <1>1, <1>2
  <2> QED
    BY <1>1, <1>2, <2>1, <2>2, <2>3, <2>4, <2>5 DEF TypeOK
<1>6. /\ Places(i') = Places(i) \cup {i}
      /\ \A p \in Places(i) : p < i /\ p \in Nat
      /\ i' % 2 = 1
  BY <1>1, <1>2, OneMorePlace
<1>7. OutcomeSound'
  <2>1. \A p \in Places(i') : Good(p)
    BY <1>3, <1>6 DEF ParserInv, OutcomeSound
  <2> QED
    BY <1>2, <2>1 DEF OutcomeSound, Good
<1>8. LastValueHolds'
  <2> SUFFICES ASSUME NEW u \in AllOptions
               PROVE  /\ (\A p \in Places(i') : argv[p] # u) =>
                            args'[u] = Defaults[u]
                      /\ \A p \in Places(i') :
                           argv[p] = u /\
                           (\A q \in Places(i') : q > p => argv[q] # u) =>
                             args'[u] = Meaning(u, argv[p + 1])
    BY <1>2 DEF LastValueHolds
  <2>1. CASE u = o
    <3>1. argv[i] = u /\ args'[u] = Meaning(u, argv[i + 1])
      BY <1>4, <2>1 DEF o, v
    <3> QED
      BY <1>1, <1>6, <3>1
  <2>2. CASE u # o
    <3>1. argv[i] # u /\ args'[u] = args[u]
      BY <1>4, <2>2 DEF o
    <3>2. /\ (\A p \in Places(i) : argv[p] # u) => args[u] = Defaults[u]
          /\ \A p \in Places(i) :
               argv[p] = u /\ (\A q \in Places(i) : q > p => argv[q] # u) =>
                 args[u] = Meaning(u, argv[p + 1])
      BY DEF ParserInv, LastValueHolds
    <3> QED
      BY <1>6, <3>1, <3>2
  <2> QED
    BY <2>1, <2>2
<1> QED
  BY <1>5, <1>6, <1>7, <1>8 DEF ParserInv

LEMMA ParserStep == ParserInv /\ [Next]_vars => ParserInv'
<1> SUFFICES ASSUME ParserInv, [Next]_vars
             PROVE  ParserInv'
  OBVIOUS
<1>1. CASE Help
  BY <1>1, StopStep DEF Help
<1>2. CASE Unknown
  BY <1>2, StopStep DEF Unknown, Good
<1>3. CASE ValueMissing \/ ValueRejected
  <2>1. \A o \in AllOptions : o \notin HelpOptions
    BY DEF AllOptions, NumOptions, TextOptions, KindOptions, HelpOptions
  <2> QED
    BY <1>3, <2>1, StopStep
       DEF ValueMissing, ValueRejected, HasValue, Good
<1>4. CASE Set
  BY <1>4, SetStep
<1>5. CASE Finish
  <2>1. i = Len(argv) + 1
    BY <1>5 DEF Finish, ParserInv, TypeOK
  <2> QED
    BY <1>5, <2>1, StopStep DEF Finish
<1>6. CASE Finished \/ UNCHANGED vars
  <2>1. UNCHANGED <<argv, i, args, outcome>>
    BY <1>6 DEF Finished, vars
  <2>2. TypeOK' /\ LastValueHolds'
    BY <2>1 DEF ParserInv, TypeOK, LastValueHolds, Places
  <2>3. OutcomeSound'
    BY <2>1 DEF ParserInv, OutcomeSound, Places, Good
  <2> QED
    BY <2>1, <2>2, <2>3 DEF ParserInv
<1> QED
  BY <1>1, <1>2, <1>3, <1>4, <1>5, <1>6 DEF Next

-----------------------------------------------------------------------------
(* Theorems *)

\* The inductive invariant holds for argument lists of any length.
THEOREM ParserInvariance == Spec => []ParserInv
  BY ParserInit, ParserStep, PTL DEF Spec

\* Every option keeps a value of its type (qos_args.hpp:13-33).
THEOREM ParserTypeCorrect == Spec => []TypeOK
<1>1. ParserInv => TypeOK
  BY DEF ParserInv
<1> QED
  BY <1>1, ParserInvariance, PTL

\* Of an option given several times the last value holds, of one not given
\* the default (qos_args.hpp:84-118).
THEOREM ParserSound == Spec => []LastValueHolds
<1>1. ParserInv => LastValueHolds
  BY DEF ParserInv
<1> QED
  BY <1>1, ParserInvariance, PTL

\* The program runs, helps or fails as the first argument that is not an
\* option with its value says (qos_args.hpp:81-119).
THEOREM ParserOutcome == Spec => []OutcomeSound
<1>1. ParserInv => OutcomeSound
  BY DEF ParserInv
<1> QED
  BY <1>1, ParserInvariance, PTL
=============================================================================
