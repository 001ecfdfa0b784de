---------------------------- MODULE HelloWorldRun ----------------------------
(***************************************************************************)
(* The pair of helloworld, one publisher and some subscribers: publisher.  *)
(* cpp and subscriber.cpp of that directory.  They take no options, use    *)
(* Fast DDS's default QoS, do not look at what create_datawriter and       *)
(* create_datareader return, and the publisher ends with one sleep instead *)
(* of a counted one.  What they promise is ManualRun with these options    *)
(* and no keep-alive; ImplementsManual says so.                            *)
(***************************************************************************)
EXTENDS DdsQos, FiniteSets

CONSTANTS
  Subs,          \* subscriber processes
  Samples,       \* samples written and waited for, 20 in the code
  MatchTicks,    \* publisher: wait for a match, 30 in the code
  TimeoutTicks   \* subscriber: wait for the samples, 3000 in the code

ASSUME HelloWorldAssumption ==
  /\ IsFiniteSet(Subs)
  /\ Samples \in Nat /\ MatchTicks \in Nat /\ TimeoutTicks \in Nat

VARIABLES
  ppc, ptick, matched, sent,             \* publisher
  spc, stick, received, printed, code,   \* subscribers
  cursor, missed,                        \* network, as in ManualRun
  timely     \* whether the waits of this run are long enough, as in ManualRun

pubVars == <<ppc, ptick, matched, sent>>
subVars == <<spc, stick, received, printed, code>>
netVars == <<cursor, missed, timely>>
vars    == <<pubVars, subVars, netVars>>

Unmatched == -1
NoCode    == -1

Default(rel, dur) ==
  [reliability |-> rel, durability |-> dur, history |-> "KEEP_LAST",
   depth |-> 1]

\* DATAWRITER_QOS_DEFAULT and DATAREADER_QOS_DEFAULT: the writer keeps its
\* last sample for late readers, and the reader does not ask for it.
wqos == Default("RELIABLE", "TRANSIENT_LOCAL")
rqos == Default("BEST_EFFORT", "VOLATILE")

Init ==
  /\ ppc = "start" /\ ptick = 0 /\ matched = 0 /\ sent = 0
  /\ spc = [s \in Subs |-> "start"] /\ stick = [s \in Subs |-> 0]
  /\ received = [s \in Subs |-> 0] /\ printed = [s \in Subs |-> 0]
  /\ code = [s \in Subs |-> NoCode]
  /\ cursor = [s \in Subs |-> Unmatched]
  /\ missed = [s \in Subs |-> Unmatched]
  /\ timely \in BOOLEAN

Opt(long) == [wqos |-> wqos, rqos |-> rqos,
              samples |-> Samples, wanted |-> Samples, timely |-> long]

\* The manual programs, run with these options.  The one sleep is a keep-alive
\* without a tick, and the counter of the wait for a match ends with its loop.
Manual == INSTANCE ManualRun WITH
  opt     <- Opt(timely),
  Options <- {Opt(FALSE), Opt(TRUE)},
  KeepTicks <- 0,
  ppc   <- IF ppc = "sleep" THEN "keep" ELSE ppc,
  ptick <- IF ppc \in {"sleep", "done"} THEN 0 ELSE ptick

-----------------------------------------------------------------------------
(* Data topic *)

Writing      == ppc \in {"match", "write", "sleep"}
Listening(s) == spc[s] \in {"wait", "print", "exit", "return"}

\* The default reader asks for no history: it starts behind what was sent.
Match(s) ==
  /\ Writing /\ Listening(s) /\ cursor[s] = Unmatched
  /\ RxO(wqos, rqos)
  /\ LET skip == SkippedAtMatch(wqos, rqos, sent)
     IN  /\ cursor' = [cursor EXCEPT ![s] = skip]
         /\ missed' = [missed EXCEPT ![s] = skip]
  /\ UNCHANGED <<pubVars, subVars, timely>>

\* on_publication_matched, in a thread of Fast DDS.
PubMatched ==
  LET count == Cardinality({s \in Subs : cursor[s] # Unmatched})
  IN  /\ Writing /\ matched # count
      /\ matched' = count
      /\ UNCHANGED <<ppc, ptick, sent, subVars, netVars>>

\* on_data_available; what it jumps over is never taken.
Deliver(s, i) ==
  /\ Listening(s) /\ cursor[s] # Unmatched
  /\ i \in cursor[s] + 1..sent
  /\ \A j \in cursor[s] + 1..i - 1 : ~timely /\ MayMiss(wqos, rqos, sent, j)
  /\ cursor' = [cursor EXCEPT ![s] = i]
  /\ received' = [received EXCEPT ![s] = @ + 1]
  /\ UNCHANGED <<pubVars, spc, stick, printed, code, missed, timely>>

-----------------------------------------------------------------------------
(* Publisher *)

CreateWriter ==
  /\ ppc = "start"
  /\ ppc' = "match"
  /\ UNCHANGED <<ptick, matched, sent, subVars, netVars>>

MatchTick ==
  /\ ppc = "match" /\ ptick < MatchTicks
  /\ ptick' = ptick + 1
  /\ UNCHANGED <<ppc, matched, sent, subVars, netVars>>

\* listener.matched is no atomic: the loop sees its value or the first one.
StartWriting ==
  /\ ppc = "match"
  /\ \/ ptick = MatchTicks /\ (timely => \A s \in Subs : spc[s] # "wait")
     \/ matched # 0
  /\ ppc' = "write"
  /\ UNCHANGED <<ptick, matched, sent, subVars, netVars>>

\* Mutant: the loop writes one sample more.
WriteSampleOneMore ==
  /\ ppc = "write" /\ sent <= Samples
  /\ sent' = sent + 1
  /\ UNCHANGED <<ppc, ptick, matched, subVars, netVars>>

WriteSample ==
  /\ ppc = "write" /\ sent < Samples
  /\ sent' = sent + 1
  /\ UNCHANGED <<ppc, ptick, matched, subVars, netVars>>

WritesDone ==
  /\ ppc = "write" /\ ~(sent < Samples)
  /\ ppc' = "sleep"
  /\ UNCHANGED <<ptick, matched, sent, subVars, netVars>>

\* Mutant: main returns after the last sample.
SleepIsCut == TRUE

\* The second that is to let the last samples arrive.
SleepIsLongEnough ==
  timely => \A s \in Subs :
    /\ spc[s] # "start"
    /\ (spc[s] = "wait" /\ RxO(wqos, rqos)) => cursor[s] = sent

Leave ==
  /\ ppc = "sleep" /\ SleepIsLongEnough
  /\ ppc' = "done"
  /\ UNCHANGED <<ptick, matched, sent, subVars, netVars>>

Publisher ==
  \/ CreateWriter \/ MatchTick \/ StartWriting
  \/ WriteSample \/ WritesDone \/ Leave

-----------------------------------------------------------------------------
(* Subscribers *)

CreateReader(s) ==
  /\ spc[s] = "start"
  /\ spc' = [spc EXCEPT ![s] = "wait"]
  /\ UNCHANGED <<pubVars, stick, received, printed, code, netVars>>

WaitTick(s) ==
  /\ spc[s] = "wait" /\ stick[s] < TimeoutTicks /\ received[s] < Samples
  /\ stick' = [stick EXCEPT ![s] = @ + 1]
  /\ UNCHANGED <<pubVars, spc, received, printed, code, netVars>>

\* Mutant: the wait goes on for as long as nothing has come.
AnyWaitOver(s) ==
  received[s] > 0 /\ (stick[s] >= TimeoutTicks \/ received[s] >= Samples)

\* "Long enough for both sides to be started": no subscriber gives up before
\* the publisher has ended.
WaitOver(s) ==
  \/ stick[s] >= TimeoutTicks /\ (timely => ppc = "done")
  \/ received[s] >= Samples

StopWaiting(s) ==
  /\ spc[s] = "wait" /\ WaitOver(s)
  /\ spc' = [spc EXCEPT ![s] = "print"]
  /\ UNCHANGED <<pubVars, stick, received, printed, code, netVars>>

PrintTotal(s) ==
  /\ spc[s] = "print"
  /\ printed' = [printed EXCEPT ![s] = received[s]]
  /\ spc' = [spc EXCEPT ![s] = "exit"]
  /\ UNCHANGED <<pubVars, stick, received, code, netVars>>

\* delete_participant is refused and the listener counts on, as in ManualRun.
Exit(s) ==
  /\ spc[s] = "exit"
  /\ code' = [code EXCEPT ![s] = IF received[s] > 0 THEN 0 ELSE 2]
  /\ spc' = [spc EXCEPT ![s] = "return"]
  /\ UNCHANGED <<pubVars, stick, received, printed, netVars>>

ProcessEnds(s) ==
  /\ spc[s] = "return"
  /\ spc' = [spc EXCEPT ![s] = "done"]
  /\ cursor' = [cursor EXCEPT ![s] = Unmatched]
  /\ UNCHANGED <<pubVars, stick, received, printed, code, missed, timely>>

Subscriber(s) ==
  \/ CreateReader(s) \/ WaitTick(s) \/ StopWaiting(s)
  \/ PrintTotal(s) \/ Exit(s) \/ ProcessEnds(s)

-----------------------------------------------------------------------------
Network ==
  \/ PubMatched
  \/ \E s \in Subs : Match(s) \/ \E i \in 1..sent : Deliver(s, i)

Terminated ==
  /\ ppc = "done" /\ \A s \in Subs : spc[s] = "done"
  /\ UNCHANGED vars

Next ==
  Publisher \/ (\E s \in Subs : Subscriber(s)) \/ Network \/ Terminated

Spec == Init /\ [][Next]_vars

\* The sleeps end and the loops are counted.
ProgramsFairSpec ==
  Spec /\ WF_vars(Publisher) /\ \A s \in Subs : WF_vars(Subscriber(s))

-----------------------------------------------------------------------------
(* Properties *)

\* The helloworld programs are an instance of the manual ones, QoS, missing
\* checks and single sleep included: what holds of those for any options
\* holds of these (helloworld/publisher.cpp:28-62, helloworld/subscriber.cpp:
\* 46-70, against publisher.cpp and subscriber.cpp of dds_test).
ImplementsManual == Manual!Spec

\* When the waits are long enough, a subscriber that matched before the first
\* sample prints 20, and only such a subscriber does: whoever joins later
\* waits out its time (helloworld/publisher.cpp:43-59 against
\* helloworld/subscriber.cpp:62-67).
TwentyIffInTime ==
  \A s \in Subs :
    timely /\ code[s] # NoCode => (printed[s] = Samples <=> missed[s] = 0)

\* Both programs end, a subscriber of a publisher that never comes or whose
\* samples are lost included (helloworld/subscriber.cpp:61-65).  Of a timely
\* run this says nothing, as ProgramsTerminate of ManualRun.
PairEnds == ~timely => <>(ppc = "done" /\ \A s \in Subs : spc[s] = "done")

\* What the proof of TwentyIffInTime needs besides ManualRun: the publisher
\* ends with all of its samples written, and no subscriber ends with 1.
CompleteInv ==
  /\ ppc \in {"sleep", "done"} => sent >= Samples
  /\ \A s \in Subs : code[s] \in {NoCode, 0, 2}
=============================================================================
