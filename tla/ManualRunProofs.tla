--------------------------- MODULE ManualRunProofs ---------------------------
(***************************************************************************)
(* The properties of ManualRun for any number of subscribers, any options  *)
(* and any lengths of the waits.                                           *)
(***************************************************************************)
EXTENDS ManualRun, FiniteSetTheorems, TLAPS

\* The options of a run are QoS with depths that atoi may return.
LEMMA OptionTypes ==
  ASSUME opt \in Options
  PROVE  opt.samples \in Int /\ opt.wanted \in Int
BY ManualAssumption DEF ManualOptions

\* What a reader misses when it matches is a part of what was sent, as the
\* DataWriter was created with a history of at least one sample or of all.
LEMMA SkippedIsSent ==
  ASSUME opt \in Options, sent \in Nat, Creatable(opt.wqos)
  PROVE  SkippedAtMatch(opt.wqos, opt.rqos, sent) \in 0..sent
BY ManualAssumption
   DEF ManualOptions, SkippedAtMatch, Retained, Creatable, History

-----------------------------------------------------------------------------
(* The parts of the invariant, each preserved by every step *)

LEMMA ManualInit == Init => ManualInv
<1> SUFFICES ASSUME Init PROVE ManualInv
  OBVIOUS
<1>1. TypeOK
  BY DEF Init, TypeOK, Unmatched, NoCode
<1>2. HeadInv
  BY DEF Init, HeadInv, Writing
<1>3. \A s \in Subs : JoinInv(s) /\ EndInv(s)
  BY DEF Init, JoinInv, EndInv, Listening, Unmatched, NoCode
<1>4. ExitCodeSound
  BY DEF Init, ExitCodeSound, NoCode
<1> QED
  BY <1>1, <1>2, <1>3, <1>4 DEF ManualInv

LEMMA TypeStep ==
  TypeOK /\ HeadInv /\ [Next]_vars => TypeOK'
<1> SUFFICES ASSUME TypeOK, HeadInv, [Next]_vars
             PROVE  TypeOK'
  OBVIOUS
<1> USE DEF TypeOK
<1>o. opt.samples \in Int /\ opt.wanted \in Int
  BY OptionTypes
<1>1. CASE CreateWriter \/ MatchTick \/ StartWriting \/ KeepAliveTick \/ Leave
  BY <1>1 DEF CreateWriter, MatchTick, StartWriting, KeepAliveTick, Leave,
              subVars
<1>2. CASE WriteSample \/ WritesDone
  BY <1>2, <1>o DEF WriteSample, MoreToWrite, WritesDone, subVars
<1>3. ASSUME NEW s \in Subs, CreateReader(s) \/ WaitTick(s)
      PROVE  TypeOK'
  BY <1>3 DEF CreateReader, WaitTick, pubVars
<1>4. ASSUME NEW s \in Subs,
             StopWaiting(s) \/ PrintTotal(s) \/ Exit(s) \/ ProcessEnds(s)
      PROVE  TypeOK'
  BY <1>4 DEF StopWaiting, PrintTotal, Exit, ProcessEnds, ReceivedCode, pubVars
<1>5. ASSUME NEW s \in Subs, Match(s)
      PROVE  TypeOK'
  <2>1. SkippedAtMatch(opt.wqos, opt.rqos, sent) \in Nat
    BY <1>5, SkippedIsSent DEF Match, HeadInv
  <2> QED
    BY <1>5, <2>1 DEF Match, pubVars, subVars
<1>6. ASSUME NEW s \in Subs, NEW i \in 1..sent, Deliver(s, i)
      PROVE  TypeOK'
  BY <1>6 DEF Deliver, TakeSample, pubVars
<1>7. CASE PubMatched
  <2>1. Cardinality(Linked) \in Nat
    BY ManualAssumption, FS_Subset, FS_CardinalityType DEF Linked
  <2> QED
    BY <1>7, <2>1 DEF PubMatched, subVars
<1>8. CASE UNCHANGED vars
  BY <1>8 DEF vars, pubVars, subVars
<1> QED
  BY <1>1, <1>2, <1>3, <1>4, <1>5, <1>6, <1>7, <1>8
     DEF Next, Publisher, Subscriber, Network, Terminated

\* A match, once seen, stays in the history of the subscriber.
LEMMA MissedStays ==
  ASSUME TypeOK, [Next]_vars, NEW s \in Subs, missed[s] # Unmatched,
         JoinInv(s)
  PROVE  missed'[s] # Unmatched
<1>1. ASSUME NEW r \in Subs, Match(r)
      PROVE  missed'[s] # Unmatched
  BY <1>1 DEF Match, Listening, JoinInv, TypeOK
<1>2. CASE missed' = missed
  BY <1>2
<1> QED
  BY <1>1, <1>2
     DEF Next, Publisher, CreateWriter, MatchTick, StartWriting, WriteSample,
         WritesDone, KeepAliveTick, Leave, Subscriber, CreateReader, WaitTick,
         StopWaiting, PrintTotal, Exit, ProcessEnds, Network, PubMatched,
         Deliver, Terminated, vars

LEMMA HeadStep ==
  ManualInv /\ [Next]_vars => HeadInv'
<1> SUFFICES ASSUME ManualInv, [Next]_vars
             PROVE  HeadInv'
  OBVIOUS
<1>t. TypeOK /\ HeadInv /\ \A s \in Subs : JoinInv(s)
  BY DEF ManualInv
<1>1. ASSUME opt' = opt, ppc' = ppc, sent' = sent, matched' = matched
      PROVE  HeadInv'
  BY <1>1, <1>t, MissedStays DEF HeadInv, Writing
<1>2. CASE CreateWriter \/ MatchTick \/ StartWriting \/ KeepAliveTick \/ Leave
  BY <1>2, <1>t DEF CreateWriter, MatchTick, StartWriting, KeepAliveTick, Leave,
                    HeadInv, Writing
<1>3. CASE WriteSample \/ WritesDone
  BY <1>3, <1>t DEF WriteSample, WritesDone, HeadInv, Writing
<1>4. CASE PubMatched
  <2>1. Linked = {} => Cardinality(Linked) = 0
    BY FS_EmptySet
  <2>2. \A s \in Linked : s \in Subs /\ missed[s] # Unmatched
    BY <1>t DEF Linked, JoinInv
  <2> QED
    BY <1>4, <1>t, <2>1, <2>2 DEF PubMatched, HeadInv, Writing
<1>5. CASE Terminated \/ UNCHANGED vars
  BY <1>1, <1>5 DEF Terminated, vars, pubVars
<1> QED
  BY <1>1, <1>2, <1>3, <1>4, <1>5
     DEF Next, Publisher, Subscriber, CreateReader, WaitTick, StopWaiting,
         PrintTotal, Exit, ProcessEnds, Network, Match, Deliver, pubVars

LEMMA JoinStep ==
  ASSUME ManualInv, [Next]_vars, NEW s \in Subs
  PROVE  JoinInv(s)'
<1>t. TypeOK /\ HeadInv /\ JoinInv(s)
  BY DEF ManualInv
<1>1. CASE Publisher \/ PubMatched
  <2>1. sent \in Nat /\ sent' \in Nat /\ sent <= sent'
    BY <1>1, <1>t DEF Publisher, CreateWriter, MatchTick, StartWriting,
         WriteSample, WritesDone, KeepAliveTick, Leave, PubMatched, TypeOK
  <2>2. UNCHANGED <<spc, received, cursor, missed>>
    BY <1>1 DEF Publisher, CreateWriter, MatchTick, StartWriting,
         WriteSample, WritesDone, KeepAliveTick, Leave, PubMatched, subVars
  <2> QED
    BY <1>t, <2>1, <2>2 DEF JoinInv, Listening, TypeOK, Unmatched
<1>2. ASSUME NEW r \in Subs, CreateReader(r)
      PROVE  JoinInv(s)'
  BY <1>2, <1>t DEF CreateReader, JoinInv, Listening, TypeOK, pubVars
<1>3. ASSUME NEW r \in Subs, WaitTick(r) \/ StopWaiting(r) \/ PrintTotal(r)
      PROVE  JoinInv(s)'
  BY <1>3, <1>t DEF WaitTick, StopWaiting, PrintTotal, JoinInv, Listening,
                    TypeOK, pubVars
<1>4. ASSUME NEW r \in Subs, Exit(r) \/ ProcessEnds(r)
      PROVE  JoinInv(s)'
  BY <1>4, <1>t DEF Exit, ProcessEnds, JoinInv, Listening, TypeOK, pubVars
<1>5. ASSUME NEW r \in Subs, Match(r)
      PROVE  JoinInv(s)'
  <2> DEFINE skip == SkippedAtMatch(opt.wqos, opt.rqos, sent)
  <2>1. skip \in 0..sent
    BY <1>5, <1>t, SkippedIsSent DEF Match, HeadInv, TypeOK
  <2>2. /\ cursor[r] = Unmatched /\ Listening(r)
        /\ cursor' = [cursor EXCEPT ![r] = skip]
        /\ missed' = [missed EXCEPT ![r] = skip]
        /\ UNCHANGED <<spc, received, sent>>
    BY <1>5 DEF Match, pubVars, subVars
  <2> HIDE DEF skip
  <2>3. CASE s = r
    BY <1>t, <2>1, <2>2, <2>3 DEF JoinInv, Listening, TypeOK, Unmatched
  <2>4. CASE s # r
    BY <1>t, <2>2, <2>4 DEF JoinInv, Listening, TypeOK
  <2> QED
    BY <2>3, <2>4
<1>6. ASSUME NEW r \in Subs, NEW i \in 1..sent, Deliver(r, i)
      PROVE  JoinInv(s)'
  <2>1. CASE s = r
    BY <1>6, <1>t, <2>1 DEF Deliver, TakeSample, JoinInv, Listening, TypeOK,
                            Unmatched, pubVars
  <2>2. CASE s # r
    BY <1>6, <1>t, <2>2 DEF Deliver, TakeSample, JoinInv, Listening, TypeOK,
                            pubVars
  <2> QED
    BY <2>1, <2>2
<1>7. CASE Terminated \/ UNCHANGED vars
  BY <1>7, <1>t DEF Terminated, vars, pubVars, subVars, JoinInv, Listening
<1> QED
  BY <1>1, <1>2, <1>3, <1>4, <1>5, <1>6, <1>7 DEF Next, Subscriber, Network

LEMMA EndStep ==
  ASSUME ManualInv, [Next]_vars, NEW s \in Subs
  PROVE  EndInv(s)'
<1>t. TypeOK /\ EndInv(s)
  BY DEF ManualInv
<1>1. ASSUME UNCHANGED <<opt, spc, stick, received, printed, code>>
      PROVE  EndInv(s)'
  BY <1>1, <1>t DEF EndInv
<1>2. ASSUME NEW r \in Subs, CreateReader(r)
      PROVE  EndInv(s)'
  BY <1>2, <1>t DEF CreateReader, EndInv, TypeOK, NoCode
<1>3. ASSUME NEW r \in Subs, WaitTick(r)
      PROVE  EndInv(s)'
  BY <1>3, <1>t DEF WaitTick, EndInv, TypeOK, NoCode
<1>4. ASSUME NEW r \in Subs, StopWaiting(r)
      PROVE  EndInv(s)'
  BY <1>4, <1>t, OptionTypes
     DEF StopWaiting, WaitOver, EndInv, TypeOK, NoCode
<1>5. ASSUME NEW r \in Subs, Exit(r) \/ ProcessEnds(r)
      PROVE  EndInv(s)'
  BY <1>5, <1>t DEF Exit, ProcessEnds, ReceivedCode, EndInv, TypeOK, NoCode
<1>6. ASSUME NEW r \in Subs, PrintTotal(r)
      PROVE  EndInv(s)'
  BY <1>6, <1>t DEF PrintTotal, EndInv, TypeOK, NoCode
<1>7. ASSUME NEW r \in Subs, NEW i \in 1..sent, Deliver(r, i)
      PROVE  EndInv(s)'
  <2>1. /\ UNCHANGED <<opt, spc, stick, printed, code>>
        /\ received[s] \in Nat /\ received'[s] \in {received[s], received[s] + 1}
    BY <1>7, <1>t DEF Deliver, TypeOK
  <2> QED
    BY <1>t, <2>1, OptionTypes DEF EndInv, TypeOK
<1> QED
  BY <1>1, <1>2, <1>3, <1>4, <1>5, <1>6, <1>7
     DEF Next, Publisher, CreateWriter, MatchTick, StartWriting, WriteSample,
         WritesDone, KeepAliveTick, Leave, Subscriber, Network, PubMatched,
         Match, Terminated, vars, subVars

LEMMA CodeStep ==
  ManualInv /\ [Next]_vars => ExitCodeSound'
<1> SUFFICES ASSUME ManualInv, [Next]_vars, NEW s \in Subs
             PROVE  /\ printed'[s] <= received'[s]
                    /\ code'[s] = 2 => printed'[s] = 0
                    /\ code'[s] = 0 => received'[s] > 0
  BY DEF ExitCodeSound
<1>t. /\ TypeOK
      /\ \A r \in Subs : EndInv(r)
      /\ printed[s] <= received[s]
      /\ code[s] = 2 => printed[s] = 0
      /\ code[s] = 0 => received[s] > 0
  BY DEF ManualInv, ExitCodeSound
<1>1. CASE UNCHANGED <<received, printed, code>>
  BY <1>1, <1>t
<1>2. ASSUME NEW r \in Subs,
             \/ CreateReader(r) \/ StopWaiting(r)
             \/ PrintTotal(r) \/ ProcessEnds(r)
      PROVE  /\ printed'[s] <= received'[s]
             /\ code'[s] = 2 => printed'[s] = 0
             /\ code'[s] = 0 => received'[s] > 0
  BY <1>2, <1>t
     DEF CreateReader, StopWaiting, PrintTotal, ProcessEnds, EndInv, TypeOK, NoCode
<1>3. ASSUME NEW r \in Subs, Exit(r)
      PROVE  /\ printed'[s] <= received'[s]
             /\ code'[s] = 2 => printed'[s] = 0
             /\ code'[s] = 0 => received'[s] > 0
  BY <1>3, <1>t DEF Exit, ReceivedCode, TypeOK
<1>4. ASSUME NEW r \in Subs, NEW i \in 1..sent, Deliver(r, i)
      PROVE  /\ printed'[s] <= received'[s]
             /\ code'[s] = 2 => printed'[s] = 0
             /\ code'[s] = 0 => received'[s] > 0
  \* The listener only counts up: after the last read, too.
  BY <1>4, <1>t DEF Deliver, TypeOK
<1> QED
  BY <1>1, <1>2, <1>3, <1>4
     DEF Next, Publisher, CreateWriter, MatchTick, StartWriting, WriteSample,
         WritesDone, KeepAliveTick, Leave, Subscriber, WaitTick, Network,
         PubMatched, Match, Terminated, vars, subVars

LEMMA ManualStep == ManualInv /\ [Next]_vars => ManualInv'
BY TypeStep, HeadStep, JoinStep, EndStep, CodeStep DEF ManualInv

-----------------------------------------------------------------------------
(* Theorems *)

\* The invariant of the hand-run pair (publisher.cpp, subscriber.cpp), for
\* any number of subscribers, any options and any waits.
THEOREM ManualInvariance == Spec => []ManualInv
BY ManualInit, ManualStep, PTL DEF Spec

\* Every variable keeps its type, and the publisher sends no more samples
\* than --samples (publisher.cpp:59).
THEOREM ManualTypeCorrect == Spec => []TypeOK
<1>1. ManualInv => TypeOK
  BY DEF ManualInv
<1> QED
  BY <1>1, ManualInvariance, PTL

\* A subscriber counts a sample at most once, and none from before it joined
\* that was not kept for it (subscriber.cpp:30-43).
THEOREM JoinSound == Spec => []CountWithinJoin
<1>1. ManualInv => CountWithinJoin
  BY DEF ManualInv, CountWithinJoin, JoinInv, TypeOK
<1> QED
  BY <1>1, ManualInvariance, PTL

\* However the three reads of the counter interleave with a listener that goes
\* on until the process has ended: 2 is never the exit code of a run that
\* printed a sample, 0 that of one that counted none (subscriber.cpp:74-80).
THEOREM ExitCodes == Spec => []ExitCodeSound
<1>1. ManualInv => ExitCodeSound
  BY DEF ManualInv
<1> QED
  BY <1>1, ManualInvariance, PTL

\* A subscriber that ends before its timeout has received, and says so,
\* everything it was asked for (subscriber.cpp:72-77).
THEOREM EarlyEnd == Spec => []EarlyEndIsComplete
<1>1. ManualInv => EarlyEndIsComplete
  BY ManualAssumption DEF ManualInv, EndInv, EarlyEndIsComplete, TypeOK
<1> QED
  BY <1>1, ManualInvariance, PTL

\* The publisher goes on before its 3 s are over only when there is a
\* subscriber that will miss nothing (publisher.cpp:55-64).
THEOREM EarlyStart == Spec => EarlyStartHasReader
<1>1. ASSUME ManualInv, ppc = "match", ppc' = "write", ptick < MatchTicks,
             [Next]_vars
      PROVE  \E s \in Subs : missed[s] = 0
  <2>1. StartWriting
    BY <1>1 DEF Next, Publisher, CreateWriter, MatchTick, WriteSample,
         WritesDone, KeepAliveTick, Leave, Subscriber, CreateReader, WaitTick,
         StopWaiting, PrintTotal, Exit, ProcessEnds, Network, PubMatched,
         Match, Deliver, Terminated, vars, pubVars
  <2>2. matched # 0
    BY <1>1, <2>1, ManualAssumption
       DEF StartWriting, MatchWaitOver, Seen, ManualInv, TypeOK
  <2>3. PICK s \in Subs : missed[s] # Unmatched
    BY <1>1, <2>2 DEF ManualInv, HeadInv
  <2>4. sent = 0 /\ missed[s] + received[s] <= sent
    BY <1>1, <2>3 DEF ManualInv, HeadInv, JoinInv
  <2>5. missed[s] \in Nat /\ received[s] \in Nat
    BY <1>1, <2>3 DEF ManualInv, TypeOK
  <2> QED
    BY <2>4, <2>5
<1>2. ManualInv /\ [Next]_vars =>
        [ppc = "match" /\ ppc' = "write" /\ ptick < MatchTicks =>
           \E s \in Subs : missed[s] = 0]_vars
  BY <1>1
<1> QED
  BY <1>2, ManualInvariance, PTL DEF Spec, EarlyStartHasReader
-----------------------------------------------------------------------------
(* When the waits are long enough *)

\* A matched reader takes every sample in its order.
LEMMA LinkStep ==
  ASSUME Timely, ManualInv, NEW s \in Subs, LinkInv(s), [Next]_vars
  PROVE  LinkInv(s)'
<1>t. TypeOK /\ HeadInv /\ JoinInv(s)
  BY DEF ManualInv
<1>1. CASE Publisher \/ PubMatched
  <2>1. /\ UNCHANGED <<opt, spc, received, cursor, missed>>
        /\ ppc' = "start" => ppc = "start"
    BY <1>1 DEF Publisher, CreateWriter, MatchTick, StartWriting, WriteSample,
         WritesDone, KeepAliveTick, Leave, PubMatched, subVars
  <2> QED
    BY <2>1 DEF LinkInv, Listening
<1>2. ASSUME NEW r \in Subs, CreateReader(r) \/ WaitTick(r) \/ StopWaiting(r)
                               \/ PrintTotal(r)
      PROVE  LinkInv(s)'
  <2>1. /\ UNCHANGED <<opt, ppc, received, cursor, missed>>
        /\ Listening(s) => Listening(s)'
    BY <1>2, <1>t DEF CreateReader, WaitTick, StopWaiting, PrintTotal, Listening,
                      TypeOK, pubVars
  <2> QED
    BY <2>1 DEF LinkInv
<1>3. ASSUME NEW r \in Subs, Exit(r) \/ ProcessEnds(r)
      PROVE  LinkInv(s)'
  BY <1>3, <1>t DEF Exit, ProcessEnds, LinkInv, Listening, TypeOK, pubVars
<1>4. ASSUME NEW r \in Subs, Match(r)
      PROVE  LinkInv(s)'
  <2> DEFINE skip == SkippedAtMatch(opt.wqos, opt.rqos, sent)
  <2>1. /\ skip \in Nat /\ Listening(r) /\ cursor[r] = Unmatched
        /\ ppc # "start" /\ RxO(opt.wqos, opt.rqos)
        /\ cursor' = [cursor EXCEPT ![r] = skip]
        /\ missed' = [missed EXCEPT ![r] = skip]
        /\ UNCHANGED <<opt, ppc, spc, received>>
    BY <1>4, <1>t, SkippedIsSent
       DEF Match, HeadInv, TypeOK, Writing, pubVars, subVars
  <2> HIDE DEF skip
  <2>2. CASE s = r
    BY <1>t, <2>1, <2>2 DEF LinkInv, JoinInv, Listening, TypeOK
  <2>3. CASE s # r
    BY <1>t, <2>1, <2>3 DEF LinkInv, Listening, TypeOK
  <2> QED
    BY <2>2, <2>3
<1>5. ASSUME NEW r \in Subs, NEW i \in 1..sent, Deliver(r, i)
      PROVE  LinkInv(s)'
  <2>1. /\ cursor[r] # Unmatched /\ i \in cursor[r] + 1..sent
        /\ \A j \in cursor[r] + 1..i - 1 : FALSE
        /\ cursor' = [cursor EXCEPT ![r] = i]
        /\ received' = [received EXCEPT ![r] = @ + 1]
        /\ UNCHANGED <<opt, ppc, spc, missed>>
    BY <1>5 DEF Deliver, TakeSample, pubVars
  <2>2. cursor[r] \in Nat /\ i = cursor[r] + 1
    <3>1. cursor[r] \in Nat /\ i \in Nat /\ cursor[r] + 1 <= i
      BY <1>t, <2>1 DEF TypeOK
    <3>2. ~(cursor[r] + 1 <= i - 1)
      BY <2>1, <3>1
    <3> QED
      BY <3>1, <3>2
  <2>3. CASE s = r
    BY <1>t, <2>1, <2>2, <2>3 DEF LinkInv, JoinInv, Listening, TypeOK, Unmatched
  <2>4. CASE s # r
    BY <1>t, <2>1, <2>4 DEF LinkInv, Listening, TypeOK
  <2> QED
    BY <2>3, <2>4
<1>6. CASE Terminated \/ UNCHANGED vars
  BY <1>6 DEF Terminated, vars, pubVars, subVars, LinkInv, Listening
<1> QED
  BY <1>1, <1>2, <1>3, <1>4, <1>5, <1>6 DEF Next, Subscriber, Network

\* The publisher ends when every subscriber has what there is for it.
LEMMA TakenAtLeave ==
  ASSUME Timely, ManualInv, NEW s \in Subs, LinkInv(s), CreateWriter \/ Leave,
         ppc' = "done", spc[s] \in {"start", "wait"}
  PROVE  AllTaken(s)'
<1>t. TypeOK /\ HeadInv /\ JoinInv(s)
  BY DEF ManualInv
<1>u. UNCHANGED <<received, missed, sent>>
  BY DEF CreateWriter, Leave, subVars
<1>1. CASE missed[s] = Unmatched
  BY <1>1, <1>t, <1>u DEF AllTaken, JoinInv
<1>2. CASE missed[s] # Unmatched
  <2>1. ppc # "start" /\ RxO(opt.wqos, opt.rqos) /\ Leave
    BY <1>2 DEF LinkInv, CreateWriter
  <2>2. cursor[s] # Unmatched
    BY <1>2, <1>t DEF JoinInv
  <2>3. spc[s] = "wait"
    BY <2>2 DEF LinkInv, Listening
  <2>4. cursor[s] = sent
    BY <2>1, <2>3 DEF Leave, KeepAliveOver, KeepSettled
  <2> QED
    BY <1>2, <1>u, <2>2, <2>4 DEF AllTaken, LinkInv
<1> QED
  BY <1>1, <1>2

\* Whoever has all there is, gets no more.
LEMMA TakenStays ==
  ASSUME ManualInv, NEW s \in Subs, LinkInv(s), AllTaken(s), [Next]_vars
  PROVE  AllTaken(s)' /\ received'[s] = received[s]
<1>t. TypeOK /\ HeadInv /\ JoinInv(s)
  BY DEF ManualInv
<1>1. UNCHANGED <<ppc, sent, missed>>
  BY DEF AllTaken, Next, Publisher, CreateWriter, MatchTick, StartWriting,
     WriteSample, WritesDone, KeepAliveTick, Leave, Subscriber, CreateReader,
     WaitTick, StopWaiting, PrintTotal, Exit, ProcessEnds, Network, PubMatched, Match,
     Deliver, Writing, Terminated, vars, pubVars
<1>2. ASSUME NEW r \in Subs, NEW i \in 1..sent, Deliver(r, i)
      PROVE  received'[s] = received[s]
  <2>1. CASE r = s
    <3>1. cursor[s] # Unmatched /\ i \in cursor[s] + 1..sent
      BY <1>2, <2>1 DEF Deliver
    <3>2. cursor[s] \in Nat /\ sent \in Nat /\ missed[s] \in Nat
      BY <1>t, <3>1 DEF TypeOK, JoinInv
    <3>3. sent - missed[s] = cursor[s] - missed[s]
      BY <1>t, <3>1, <3>2 DEF AllTaken, LinkInv, JoinInv
    <3> QED
      BY <3>1, <3>2, <3>3
  <2>2. CASE r # s
    BY <1>2, <1>t, <2>2 DEF Deliver, TypeOK
  <2> QED
    BY <2>1, <2>2
<1>3. received' = received \/ \E r \in Subs : \E i \in 1..sent : Deliver(r, i)
  BY DEF Next, Publisher, CreateWriter, MatchTick, StartWriting,
     WriteSample, WritesDone, KeepAliveTick, Leave, Subscriber, CreateReader,
     WaitTick, StopWaiting, PrintTotal, Exit, ProcessEnds, Network, PubMatched, Match,
     Terminated, vars, subVars
<1>4. received'[s] = received[s]
  BY <1>2, <1>3
<1> QED
  BY <1>1, <1>4 DEF AllTaken

\* A subscriber stops waiting with enough, or with all.
LEMMA WaitStep ==
  ASSUME Timely, ManualInv, NEW s \in Subs, LinkInv(s), WaitInv(s), [Next]_vars
  PROVE  WaitInv(s)'
<1>t. TypeOK /\ EndInv(s) /\ JoinInv(s)
  BY DEF ManualInv
<1>o. opt' = opt /\ opt.wanted \in Int /\ received[s] \in Nat
  BY <1>t, OptionTypes
     DEF TypeOK, Next, Publisher, CreateWriter, MatchTick, StartWriting,
     WriteSample, WritesDone, KeepAliveTick, Leave, Subscriber, CreateReader,
     WaitTick, StopWaiting, PrintTotal, Exit, ProcessEnds, Network, PubMatched, Match,
     Deliver, Terminated, vars
<1>s. AllTaken(s) => AllTaken(s)' /\ received'[s] = received[s]
  BY TakenStays
<1>1. ASSUME UNCHANGED <<spc, received, printed, code>>,
             ppc' = "done" /\ spc[s] \in {"start", "wait"} => AllTaken(s)'
      PROVE  WaitInv(s)'
  BY <1>1, <1>o, <1>s DEF WaitInv
<1>2. CASE CreateWriter \/ Leave
  <2>1. UNCHANGED <<spc, received, printed, code>>
    BY <1>2 DEF CreateWriter, Leave, subVars
  <2> QED
    BY <1>1, <1>2, <2>1, TakenAtLeave
<1>3. ASSUME \/ MatchTick \/ StartWriting \/ WriteSample \/ WritesDone
             \/ KeepAliveTick \/ PubMatched \/ (\E r \in Subs : Match(r))
             \/ Terminated \/ UNCHANGED vars
      PROVE  /\ UNCHANGED <<spc, received, printed, code>>
             /\ ppc' \in {ppc, "write", "keep"}
  BY <1>3 DEF MatchTick, StartWriting, WriteSample, WritesDone, KeepAliveTick,
     PubMatched, Match, Terminated, vars, pubVars, subVars
<1>4. ASSUME NEW r \in Subs, CreateReader(r) \/ WaitTick(r)
      PROVE  WaitInv(s)'
  <2>1. /\ UNCHANGED <<ppc, received, printed>>
        /\ \/ UNCHANGED <<spc, code>>
           \/ r = s /\ spc[s] = "start" /\ spc'[s] = "wait" /\ code' = code
           \/ r = s /\ spc'[s] = "done" /\ code'[s] = 1
           \/ r # s /\ spc'[s] = spc[s] /\ code'[s] = code[s]
    BY <1>4, <1>t DEF CreateReader, WaitTick, TypeOK, pubVars
  <2> QED
    BY <1>o, <1>s, <1>t, <2>1 DEF WaitInv, EndInv, TypeOK, NoCode
<1>5. ASSUME NEW r \in Subs, StopWaiting(r)
      PROVE  WaitInv(s)'
  <2>1. /\ UNCHANGED <<ppc, received, printed, code>>
        /\ r # s => spc'[s] = spc[s]
    BY <1>5, <1>t DEF StopWaiting, TypeOK, pubVars
  <2>2. r = s => /\ spc[s] = "wait" /\ spc'[s] = "print"
                 /\ (received[s] >= opt.wanted \/ ppc = "done")
    BY <1>5, <1>t DEF StopWaiting, WaitOver, Patient, TypeOK
  <2> QED
    BY <1>o, <1>s, <1>t, <2>1, <2>2 DEF WaitInv, EndInv, TypeOK, NoCode
<1>6. ASSUME NEW r \in Subs, PrintTotal(r)
      PROVE  WaitInv(s)'
  <2>1. /\ UNCHANGED <<ppc, received, code>>
        /\ r # s => spc'[s] = spc[s] /\ printed'[s] = printed[s]
        /\ r = s => /\ spc[s] = "print" /\ spc'[s] = "exit"
                    /\ printed'[s] = received[s]
    BY <1>6, <1>t DEF PrintTotal, TypeOK, pubVars
  <2> QED
    BY <1>o, <1>s, <1>t, <2>1 DEF WaitInv, EndInv, TypeOK, NoCode
<1>7. ASSUME NEW r \in Subs, Exit(r) \/ ProcessEnds(r)
      PROVE  WaitInv(s)'
  <2>1. /\ UNCHANGED <<ppc, received, printed>>
        /\ r # s => spc'[s] = spc[s] /\ code'[s] = code[s]
        /\ r = s => \/ spc[s] = "exit" /\ spc'[s] = "return"
                    \/ /\ spc[s] = "return" /\ spc'[s] = "done"
                       /\ code'[s] = code[s]
    BY <1>7, <1>t DEF Exit, ProcessEnds, TypeOK, pubVars
  <2> QED
    BY <1>o, <1>s, <1>t, <2>1 DEF WaitInv, EndInv, TypeOK, NoCode
<1>8. ASSUME NEW r \in Subs, NEW i \in 1..sent, Deliver(r, i)
      PROVE  WaitInv(s)'
  <2>1. /\ UNCHANGED <<ppc, spc, printed, code>>
        /\ received'[s] \in {received[s], received[s] + 1}
    BY <1>8, <1>t DEF Deliver, TypeOK, pubVars
  <2> QED
    BY <1>o, <1>s, <1>t, <2>1 DEF WaitInv
<1>9. ASSUME UNCHANGED <<spc, received, printed, code>>,
             ppc' \in {ppc, "write", "keep"}
      PROVE  WaitInv(s)'
  BY <1>1, <1>9, <1>s DEF WaitInv
<1> QED
  BY <1>2, <1>3, <1>4, <1>5, <1>6, <1>7, <1>8, <1>9
     DEF Next, Publisher, Subscriber, Network

\* When the waits are long enough, this second invariant holds next to the
\* first, for any options and any number of subscribers.
THEOREM TimelyInvariance == Spec => []TimelyInv
<1>1. Init => TimelyInv
  BY DEF Init, TimelyInv, LinkInv, WaitInv, Unmatched, NoCode
<1>2. [Next]_vars => (Timely' <=> Timely)
  BY DEF Timely, Next, Publisher, CreateWriter, MatchTick, StartWriting,
     WriteSample, WritesDone, KeepAliveTick, Leave, Subscriber, CreateReader,
     WaitTick, StopWaiting, PrintTotal, Exit, ProcessEnds, Network, PubMatched,
     Match, Deliver, Terminated, vars
<1>3. ManualInv /\ TimelyInv /\ [Next]_vars => TimelyInv'
  BY <1>2, LinkStep, WaitStep DEF TimelyInv
<1> QED
  BY <1>1, <1>3, ManualInvariance, PTL DEF Spec

\* A subscriber then prints what it asked for, or else all that its QoS left
\* it (publisher.cpp:55-70, subscriber.cpp:74-79).
THEOREM NothingIsLost == Spec => []NothingLost
<1>1. TimelyInv => NothingLost
  BY DEF TimelyInv, WaitInv, AllTaken, NothingLost
<1> QED
  BY <1>1, TimelyInvariance, PTL
=============================================================================
