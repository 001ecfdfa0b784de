-------------------------- MODULE HelloWorldProofs --------------------------
(***************************************************************************)
(* The helloworld pair implements the manual one, for any number of        *)
(* subscribers and of samples and any lengths of the waits; and what is    *)
(* proved of ManualRun is so brought over to it.                           *)
(***************************************************************************)
EXTENDS HelloWorldRun, TLAPS

\* The theorems about ManualRun, under the refinement mapping of Manual.
Proved == INSTANCE ManualRunProofs WITH
  opt     <- Opt(timely),
  Options <- {Opt(FALSE), Opt(TRUE)},
  KeepTicks <- 0,
  ppc   <- IF ppc = "sleep" THEN "keep" ELSE ppc,
  ptick <- IF ppc \in {"sleep", "done"} THEN 0 ELSE ptick

-----------------------------------------------------------------------------
(* The refinement *)

\* Every step of the pair is one of the manual programs, or changes nothing
\* of theirs.
LEMMA StepImplements == [Next]_vars => [Manual!Next]_Manual!vars
<1> SUFFICES ASSUME [Next]_vars
             PROVE  [Manual!Next]_Manual!vars
  OBVIOUS
<1> USE DEF pubVars, subVars, netVars, Opt, Manual!Timely,
           Manual!pubVars, Manual!subVars
<1>1. CASE CreateWriter
  <2>1. Manual!CreateWriter
    BY <1>1 DEF CreateWriter, Manual!CreateWriter, Manual!Creatable, wqos, Default
  <2> QED
    BY <2>1 DEF Manual!Next, Manual!Publisher
<1>2. CASE MatchTick
  <2>1. Manual!MatchTick
    BY <1>2 DEF MatchTick, Manual!MatchTick
  <2> QED
    BY <2>1 DEF Manual!Next, Manual!Publisher
<1>3. CASE StartWriting
  <2>1. Manual!StartWriting
    BY <1>3 DEF StartWriting, Manual!StartWriting, Manual!MatchWaitOver,
                Manual!MatchSettled, Manual!Seen
  <2> QED
    BY <2>1 DEF Manual!Next, Manual!Publisher
<1>4. CASE WriteSample
  <2>1. Manual!WriteSample
    BY <1>4 DEF WriteSample, Manual!WriteSample, Manual!MoreToWrite
  <2> QED
    BY <2>1 DEF Manual!Next, Manual!Publisher
<1>5. CASE WritesDone
  <2>1. Manual!WritesDone
    BY <1>5 DEF WritesDone, Manual!WritesDone, Manual!MoreToWrite
  <2> QED
    BY <2>1 DEF Manual!Next, Manual!Publisher
\* The sleep is over: a keep-alive of no ticks.
<1>6. CASE Leave
  <2>1. Manual!Leave
    BY <1>6 DEF Leave, SleepIsLongEnough, Manual!Leave, Manual!KeepAliveOver,
                Manual!KeepSettled, Manual!RxO, RxO
  <2> QED
    BY <2>1 DEF Manual!Next, Manual!Publisher
<1>7. ASSUME NEW s \in Subs, Subscriber(s)
      PROVE  [Manual!Next]_Manual!vars
  <2>1. CASE CreateReader(s)
    <3>1. Manual!CreateReader(s)
      BY <2>1 DEF CreateReader, Manual!CreateReader, Manual!Creatable, wqos,
                  rqos, Default
    <3> QED
      BY <3>1 DEF Manual!Subscriber, Manual!Next
  <2>2. CASE WaitTick(s)
    BY <2>2 DEF WaitTick, Manual!WaitTick, Manual!Subscriber, Manual!Next
  <2>3. CASE StopWaiting(s)
    <3>1. Manual!StopWaiting(s)
      BY <2>3 DEF StopWaiting, WaitOver, Manual!StopWaiting, Manual!WaitOver,
                  Manual!Patient
    <3> QED
      BY <3>1 DEF Manual!Subscriber, Manual!Next
  <2>4. CASE PrintTotal(s)
    BY <2>4 DEF PrintTotal, Manual!PrintTotal, Manual!Subscriber, Manual!Next
  <2>5. CASE Exit(s)
    BY <2>5 DEF Exit, Manual!Exit, Manual!ReceivedCode, Manual!Subscriber,
                Manual!Next
  <2>6. CASE ProcessEnds(s)
    BY <2>6 DEF ProcessEnds, Unmatched, Manual!ProcessEnds, Manual!Unmatched,
                Manual!Subscriber, Manual!Next
  <2> QED
    BY <1>7, <2>1, <2>2, <2>3, <2>4, <2>5, <2>6 DEF Subscriber
<1>8. CASE PubMatched
  <2>1. Manual!PubMatched
    BY <1>8 DEF PubMatched, Writing, Unmatched, Manual!PubMatched,
                Manual!Writing, Manual!Linked, Manual!Unmatched, Cardinality,
                Manual!Cardinality
  <2> QED
    BY <2>1 DEF Manual!Network, Manual!Next
<1>9. ASSUME NEW s \in Subs, Match(s)
      PROVE  [Manual!Next]_Manual!vars
  <2>1. Manual!Match(s)
    BY <1>9 DEF Match, Writing, Listening, Unmatched, RxO, SkippedAtMatch,
                Retained, Manual!Match, Manual!Writing, Manual!Listening,
                Manual!Unmatched, Manual!RxO, Manual!SkippedAtMatch,
                Manual!Retained
  <2> QED
    BY <2>1 DEF Manual!Network, Manual!Next
<1>10. ASSUME NEW s \in Subs, NEW i \in 1..sent, Deliver(s, i)
       PROVE  [Manual!Next]_Manual!vars
  <2>1. Manual!Deliver(s, i)
    BY <1>10 DEF Deliver, Listening, Unmatched, Manual!Deliver,
                 Manual!TakeSample, Manual!Listening, Manual!Unmatched, Manual!MayMiss, MayMiss,
                 Manual!Retained, Retained
  <2> QED
    BY <2>1 DEF Manual!Network, Manual!Next
<1>11. CASE Terminated \/ UNCHANGED vars
  BY <1>11 DEF Terminated, vars, Manual!vars
<1> QED
  BY <1>1, <1>2, <1>3, <1>4, <1>5, <1>6, <1>7, <1>8, <1>9, <1>10, <1>11
     DEF Next, Publisher, Network

\* The helloworld pair is the manual one, with the options that its code fixes
\* and a keep-alive without a tick (helloworld/publisher.cpp:28-62,
\* helloworld/subscriber.cpp:46-70).
THEOREM HelloWorldImplements == Spec => ImplementsManual
<1>1. Init => Manual!Init
  BY DEF Init, Unmatched, NoCode, Manual!Init, Manual!Unmatched, Manual!NoCode
<1> QED
  BY <1>1, StepImplements, PTL DEF Spec, ImplementsManual, Manual!Spec

-----------------------------------------------------------------------------
(* What ManualRunProofs says of it *)

\* The two instances of ManualRun are one.
LEMMA SameMapping == Manual!Spec <=> Proved!Spec
BY DEF Manual!Spec, Proved!Spec, Manual!Init, Proved!Init, Manual!vars,
       Proved!vars, Manual!pubVars, Proved!pubVars, Manual!subVars,
       Proved!subVars, Manual!Next, Proved!Next, Manual!Publisher,
       Proved!Publisher, Manual!Subscriber, Proved!Subscriber, Manual!Network,
       Proved!Network, Manual!CreateWriter, Proved!CreateWriter,
       Manual!MatchTick, Proved!MatchTick, Manual!StartWriting,
       Proved!StartWriting, Manual!WriteSample, Proved!WriteSample,
       Manual!WritesDone, Proved!WritesDone, Manual!KeepAliveTick,
       Proved!KeepAliveTick, Manual!Leave, Proved!Leave, Manual!CreateReader,
       Proved!CreateReader, Manual!WaitTick, Proved!WaitTick,
       Manual!StopWaiting, Proved!StopWaiting, Manual!PrintTotal,
       Proved!PrintTotal, Manual!Exit, Proved!Exit, Manual!ProcessEnds,
       Proved!ProcessEnds, Manual!PubMatched, Proved!PubMatched, Manual!Match,
       Proved!Match, Manual!Deliver, Proved!Deliver, Manual!Terminated,
       Proved!Terminated, Manual!TakeSample, Proved!TakeSample,
       Manual!Listening, Proved!Listening, Manual!Writing, Proved!Writing,
       Manual!Linked, Proved!Linked, Manual!Unmatched, Proved!Unmatched,
       Manual!NoCode, Proved!NoCode, Manual!Creatable, Proved!Creatable,
       Manual!Seen, Proved!Seen, Manual!MatchSettled, Proved!MatchSettled,
       Manual!MatchWaitOver, Proved!MatchWaitOver, Manual!MoreToWrite,
       Proved!MoreToWrite, Manual!KeepSettled, Proved!KeepSettled,
       Manual!KeepAliveOver, Proved!KeepAliveOver, Manual!Patient,
       Proved!Patient, Manual!WaitOver, Proved!WaitOver, Manual!ReceivedCode,
       Proved!ReceivedCode, Manual!RxO, Proved!RxO, Manual!SkippedAtMatch,
       Proved!SkippedAtMatch, Manual!Retained, Proved!Retained,
       Manual!MayMiss, Proved!MayMiss, Manual!Timely, Proved!Timely,
       Manual!Cardinality, Proved!Cardinality, Cardinality

\* The fixed options are options of ManualRun.
LEMMA Assumed == Proved!ManualAssumption
BY HelloWorldAssumption
   DEF Proved!ManualAssumption, Proved!ManualOptions, Opt, Default, wqos, rqos,
       Proved!Reliability, Proved!Durability, Proved!History,
       Proved!IsFiniteSet, IsFiniteSet

LEMMA PairInvariance == Spec => []Proved!ManualInv
<1>1. Proved!Spec => []Proved!ManualInv
  BY Proved!ManualInvariance, Assumed DEF Proved!ManualAssumption
<1> QED
  BY <1>1, HelloWorldImplements, SameMapping, PTL DEF ImplementsManual

\* The exit code of a helloworld subscriber agrees with the line it printed,
\* although its listener goes on until the process has ended (helloworld/
\* subscriber.cpp:62-70).
THEOREM PairExitCodes == Spec => []Manual!ExitCodeSound
<1>1. Proved!ManualInv => Manual!ExitCodeSound
  BY DEF Proved!ManualInv, Proved!ExitCodeSound, Manual!ExitCodeSound
<1> QED
  BY <1>1, PairInvariance, PTL

\* A publisher ends with all of its samples written, and a subscriber with one
\* of two exit codes.
LEMMA CompleteStep ==
  Proved!ManualInv /\ CompleteInv /\ [Next]_vars => CompleteInv'
<1> SUFFICES ASSUME Proved!ManualInv, CompleteInv, [Next]_vars
             PROVE  CompleteInv'
  OBVIOUS
<1>1. sent \in Nat /\ code \in [Subs -> {NoCode, 0, 1, 2}]
  BY DEF Proved!ManualInv, Proved!TypeOK, Proved!NoCode, NoCode
<1>2. CASE Publisher
  BY <1>1, <1>2, HelloWorldAssumption
     DEF Publisher, CreateWriter, MatchTick, StartWriting, WriteSample,
         WritesDone, Leave, subVars, CompleteInv
<1>3. ASSUME NEW s \in Subs, Exit(s)
      PROVE  CompleteInv'
  BY <1>1, <1>3 DEF Exit, pubVars, CompleteInv
<1>4. ASSUME UNCHANGED <<ppc, sent, code>>
      PROVE  CompleteInv'
  BY <1>4 DEF CompleteInv
<1>5. ASSUME NEW s \in Subs, Match(s)
      PROVE  UNCHANGED <<ppc, sent, code>>
  BY <1>5 DEF Match, pubVars, subVars
<1>6. ASSUME \/ \E s \in Subs : \/ CreateReader(s) \/ WaitTick(s)
                               \/ StopWaiting(s) \/ PrintTotal(s)
                               \/ ProcessEnds(s)
             \/ PubMatched \/ (\E s \in Subs, i \in 1..sent : Deliver(s, i))
             \/ Terminated \/ UNCHANGED vars
      PROVE  UNCHANGED <<ppc, sent, code>>
  BY <1>6 DEF CreateReader, WaitTick, StopWaiting, PrintTotal, ProcessEnds,
     PubMatched, Deliver, Terminated, vars, pubVars, subVars
<1> QED
  BY <1>2, <1>3, <1>4, <1>5, <1>6 DEF Next, Subscriber, Network

\* When the waits are long enough, a helloworld subscriber prints 20 exactly
\* if it missed nothing (helloworld/publisher.cpp:43-59, helloworld/
\* subscriber.cpp:62-67).
THEOREM PairPrintsTwenty ==
  ASSUME Samples # 0
  PROVE  Spec => []TwentyIffInTime
<1>1. Proved!ManualInv /\ Proved!TimelyInv /\ CompleteInv => TwentyIffInTime
  <2> SUFFICES ASSUME Proved!ManualInv, Proved!TimelyInv, CompleteInv,
                      NEW s \in Subs, timely, code[s] # NoCode
               PROVE  printed[s] = Samples <=> missed[s] = 0
    BY DEF TwentyIffInTime
  <2>1. /\ printed[s] \in Nat /\ received[s] \in Nat /\ sent \in Nat
        /\ missed[s] \in Nat \cup {Unmatched} /\ Samples \in Nat
        /\ sent = 0 \/ sent <= Samples
    BY HelloWorldAssumption
       DEF Proved!ManualInv, Proved!TypeOK, Opt, Proved!Unmatched, Unmatched
  <2>2. /\ printed[s] <= received[s]
        /\ missed[s] = Unmatched => received[s] = 0
        /\ missed[s] # Unmatched => missed[s] + received[s] <= sent
    BY DEF Proved!ManualInv, Proved!ExitCodeSound, Proved!JoinInv,
           Proved!Unmatched, Unmatched
  <2>3. code[s] \in {0, 2}
    BY DEF CompleteInv
  <2>4. \/ printed[s] >= Samples
        \/ /\ ppc = "done" /\ printed[s] = received[s]
           /\ received[s] = IF missed[s] = Unmatched THEN 0 ELSE sent - missed[s]
    BY <2>3 DEF Proved!TimelyInv, Proved!Timely, Proved!WaitInv, Opt,
                Proved!AllTaken, Proved!Unmatched, Unmatched
  <2>5. ppc = "done" => sent >= Samples
    BY DEF CompleteInv
  <2> QED
    BY <2>1, <2>2, <2>4, <2>5 DEF Unmatched
<1>2. Init => CompleteInv
  BY DEF Init, CompleteInv
<1>3. Proved!Spec => []Proved!TimelyInv
  BY Proved!TimelyInvariance, Assumed DEF Proved!ManualAssumption
<1> QED
  BY <1>1, <1>2, <1>3, CompleteStep, PairInvariance, HelloWorldImplements,
     SameMapping, PTL DEF Spec, ImplementsManual
=============================================================================
