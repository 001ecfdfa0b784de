------------------------------ MODULE ManualRun ------------------------------
(***************************************************************************)
(* The pair of programs run by hand: one publisher and some subscribers    *)
(* (publisher.cpp and subscriber.cpp of dds_test).  Nothing but the data   *)
(* topic is between them: no command, no answer, no common clock.          *)
(*                                                                         *)
(* A sleep of 100 ms in a wait is a tick.  A program's ticks are its own;  *)
(* unless Timely nothing relates those of two programs.  When Timely, the  *)
(* waits are long enough: the publisher sees the subscribers that are      *)
(* there, stays until the others have joined and everything has arrived,   *)
(* and no subscriber gives up before it.                                   *)
(***************************************************************************)
EXTENDS DdsQos, FiniteSets

CONSTANTS
  Subs,          \* subscriber processes
  Options,       \* option values the programs are run with
  MatchTicks,    \* publisher: wait for a match, 30 in the code
  KeepTicks,     \* publisher: keep_alive * 10
  TimeoutTicks   \* subscriber: timeout * 10

\* A depth may be anything atoi returns; both programs are given the same
\* topic and domain.  Whether the waits are long enough is the same for the
\* whole of a run.
ManualOptions ==
  LET AnyDepth == [reliability : Reliability, durability : Durability,
                   history : History, depth : Int]
  IN  [wqos : AnyDepth, rqos : AnyDepth, samples : Int, wanted : Int,
       timely : BOOLEAN]

ASSUME ManualAssumption ==
  /\ IsFiniteSet(Subs)
  /\ Options \subseteq ManualOptions
  /\ MatchTicks \in Nat /\ KeepTicks \in Int /\ TimeoutTicks \in Int

VARIABLES
  opt,       \* the options of this run, and whether it is timely
  \* publisher
  ppc,       \* where main() is
  ptick,     \* the counter of the wait it is in
  matched,   \* listener.matched, a plain int
  sent,      \* samples written
  \* subscribers
  spc,       \* where main() is
  stick,     \* the counter of the wait
  received,  \* listener.received
  printed,   \* the number printed as the total
  code,      \* the exit code
  \* network
  cursor,    \* last sample seen or missed, or Unmatched
  missed     \* (history) samples lost to the reader when it matched

pubVars == <<ppc, ptick, matched, sent>>
subVars == <<spc, stick, received, printed, code>>
vars    == <<opt, pubVars, subVars, cursor, missed>>

Unmatched == -1
NoCode    == -1

Timely == opt.timely

\* Fast DDS creates no endpoint with a KEEP_LAST history of no samples.
Creatable(qos) == qos.history = "KEEP_ALL" \/ qos.depth > 0

Init ==
  /\ opt \in Options
  /\ ppc = "start" /\ ptick = 0 /\ matched = 0 /\ sent = 0
  /\ spc = [s \in Subs |-> "start"] /\ stick = [s \in Subs |-> 0]
  /\ received = [s \in Subs |-> 0] /\ printed = [s \in Subs |-> 0]
  /\ code = [s \in Subs |-> NoCode]
  /\ cursor = [s \in Subs |-> Unmatched]
  /\ missed = [s \in Subs |-> Unmatched]

-----------------------------------------------------------------------------
(* Data topic *)

\* A reader lives as long as its process: Fast DDS refuses to delete a
\* participant that still has one, and main does not look at what
\* delete_participant returns.
Listening(s) == spc[s] \in {"wait", "print", "exit", "return"}
Writing      == ppc \in {"match", "write", "keep"}
Linked       == {s \in Subs : cursor[s] # Unmatched}

Match(s) ==
  /\ Writing /\ Listening(s)
  /\ cursor[s] = Unmatched
  /\ RxO(opt.wqos, opt.rqos)
  /\ LET skip == SkippedAtMatch(opt.wqos, opt.rqos, sent)
     IN  /\ cursor' = [cursor EXCEPT ![s] = skip]
         /\ missed' = [missed EXCEPT ![s] = skip]
  /\ UNCHANGED <<opt, pubVars, subVars>>

\* on_publication_matched, in a thread of Fast DDS.
PubMatched ==
  /\ Writing
  /\ matched # Cardinality(Linked)
  /\ matched' = Cardinality(Linked)
  /\ UNCHANGED <<opt, ppc, ptick, sent, subVars, cursor, missed>>

\* Mutant: the sample is read and stays in the reader's cache.
ReadSample(s, i) == UNCHANGED cursor

TakeSample(s, i) == cursor' = [cursor EXCEPT ![s] = i]

\* on_data_available; what it jumps over is never taken.
Deliver(s, i) ==
  /\ Listening(s) /\ cursor[s] # Unmatched
  /\ i \in cursor[s] + 1..sent
  /\ \A j \in cursor[s] + 1..i - 1 :
       ~Timely /\ MayMiss(opt.wqos, opt.rqos, sent, j)
  /\ TakeSample(s, i)
  /\ received' = [received EXCEPT ![s] = @ + 1]
  /\ UNCHANGED <<opt, pubVars, spc, stick, printed, code, missed>>

-----------------------------------------------------------------------------
(* Publisher *)

CreateWriter ==
  /\ ppc = "start"
  /\ ppc' = IF Creatable(opt.wqos) THEN "match" ELSE "done"
  /\ UNCHANGED <<opt, ptick, matched, sent, subVars, cursor, missed>>

\* The loop reads "matched" while the listener's thread may be writing it:
\* it sees the value or still the first one.
Seen == {0, matched}

MatchTick ==
  /\ ppc = "match" /\ ptick < MatchTicks
  /\ ptick' = ptick + 1
  /\ UNCHANGED <<opt, ppc, matched, sent, subVars, cursor, missed>>

\* Those that are there and compatible were seen in time.
MatchSettled ==
  (Timely /\ RxO(opt.wqos, opt.rqos)) => \A s \in Subs : spc[s] # "wait"

\* Mutant: the wait goes on while a subscriber is seen.
MatchWaitOverUnseen == (ptick = MatchTicks /\ MatchSettled) \/ 0 \in Seen

\* Mutant: the wait has no limit.
MatchWaitUnbounded == Seen # {0}

MatchWaitOver == (ptick = MatchTicks /\ MatchSettled) \/ Seen # {0}

StartWriting ==
  /\ ppc = "match" /\ MatchWaitOver
  /\ ppc' = "write"
  /\ UNCHANGED <<opt, ptick, matched, sent, subVars, cursor, missed>>

\* Mutant: the loop runs once too often.
MoreToWriteOnce == sent <= opt.samples

MoreToWrite == sent < opt.samples

WriteSample ==
  /\ ppc = "write" /\ MoreToWrite
  /\ sent' = sent + 1
  /\ UNCHANGED <<opt, ppc, ptick, matched, subVars, cursor, missed>>

WritesDone ==
  /\ ppc = "write" /\ ~MoreToWrite
  /\ ppc' = "keep" /\ ptick' = 0
  /\ UNCHANGED <<opt, matched, sent, subVars, cursor, missed>>

KeepAliveTick ==
  /\ ppc = "keep" /\ ptick < KeepTicks
  /\ ptick' = ptick + 1
  /\ UNCHANGED <<opt, ppc, matched, sent, subVars, cursor, missed>>

\* What the keep-alive is for: late subscribers join and everything arrives.
KeepSettled ==
  Timely => \A s \in Subs :
    /\ spc[s] # "start"
    /\ (spc[s] = "wait" /\ RxO(opt.wqos, opt.rqos)) => cursor[s] = sent

\* Mutant: main returns after the last sample.
NoKeepAlive == TRUE

KeepAliveOver == ptick >= KeepTicks /\ KeepSettled

\* The writer ends with the process, as delete_participant is refused here too.
Leave ==
  /\ ppc = "keep" /\ KeepAliveOver
  /\ ppc' = "done"
  /\ UNCHANGED <<opt, ptick, matched, sent, subVars, cursor, missed>>

Publisher ==
  \/ CreateWriter \/ MatchTick \/ StartWriting
  \/ WriteSample \/ WritesDone \/ KeepAliveTick \/ Leave

-----------------------------------------------------------------------------
(* Subscribers *)

CreateReader(s) ==
  /\ spc[s] = "start"
  /\ IF Creatable(opt.rqos)
       THEN spc' = [spc EXCEPT ![s] = "wait"] /\ code' = code
       ELSE spc' = [spc EXCEPT ![s] = "done"] /\ code' = [code EXCEPT ![s] = 1]
  /\ UNCHANGED <<opt, pubVars, stick, received, printed, cursor, missed>>

WaitTick(s) ==
  /\ spc[s] = "wait"
  /\ stick[s] < TimeoutTicks /\ received[s] < opt.wanted
  /\ stick' = [stick EXCEPT ![s] = @ + 1]
  /\ UNCHANGED <<opt, pubVars, spc, received, printed, code, cursor, missed>>

\* No subscriber gives up before the publisher has ended.
Patient(s) == Timely => ppc = "done"

\* Mutant: one sample fewer than wanted is enough.
WaitOverEarly(s) ==
  (stick[s] >= TimeoutTicks /\ Patient(s)) \/ received[s] >= opt.wanted - 1

WaitOver(s) ==
  (stick[s] >= TimeoutTicks /\ Patient(s)) \/ received[s] >= opt.wanted

StopWaiting(s) ==
  /\ spc[s] = "wait" /\ WaitOver(s)
  /\ spc' = [spc EXCEPT ![s] = "print"]
  /\ UNCHANGED <<opt, pubVars, stick, received, printed, code, cursor, missed>>

\* The line with the total reads the counter again.
PrintTotal(s) ==
  /\ spc[s] = "print"
  /\ printed' = [printed EXCEPT ![s] = received[s]]
  /\ spc' = [spc EXCEPT ![s] = "exit"]
  /\ UNCHANGED <<opt, pubVars, stick, received, code, cursor, missed>>

\* Mutant: the exit code says whether all were received.
CompleteCode(s) == IF received[s] >= opt.wanted THEN 0 ELSE 2

ReceivedCode(s) == IF received[s] > 0 THEN 0 ELSE 2

\* delete_participant changes nothing, as its result is refused and ignored;
\* the count is read once more for the exit code, and the listener goes on.
Exit(s) ==
  /\ spc[s] = "exit"
  /\ code' = [code EXCEPT ![s] = ReceivedCode(s)]
  /\ spc' = [spc EXCEPT ![s] = "return"]
  /\ UNCHANGED <<opt, pubVars, stick, received, printed, cursor, missed>>

\* main has returned and the process ends, and only now its reader with it.
ProcessEnds(s) ==
  /\ spc[s] = "return"
  /\ spc' = [spc EXCEPT ![s] = "done"]
  /\ cursor' = [cursor EXCEPT ![s] = Unmatched]
  /\ UNCHANGED <<opt, pubVars, stick, received, printed, code, missed>>

Subscriber(s) ==
  \/ CreateReader(s) \/ WaitTick(s) \/ StopWaiting(s)
  \/ PrintTotal(s) \/ Exit(s) \/ ProcessEnds(s)

-----------------------------------------------------------------------------
Network ==
  \/ PubMatched
  \/ \E s \in Subs : Match(s) \/ \E i \in 1..sent : Deliver(s, i)

Terminated ==
  /\ ppc = "done" /\ \A s \in Subs : spc[s] = "done"
  /\ UNCHANGED vars

Next ==
  Publisher \/ (\E s \in Subs : Subscriber(s)) \/ Network \/ Terminated

Spec == Init /\ [][Next]_vars

\* The sleeps end and the loops are counted.
ProgramsFairSpec ==
  Spec /\ WF_vars(Publisher) /\ \A s \in Subs : WF_vars(Subscriber(s))

-----------------------------------------------------------------------------
(* Properties *)

\* Every variable has its type, and no more is sent than was asked for.
TypeOK ==
  /\ opt \in Options
  /\ ppc \in {"start", "match", "write", "keep", "done"}
  /\ ptick \in Nat /\ matched \in Nat
  /\ sent \in Nat /\ (sent = 0 \/ sent <= opt.samples)
  /\ spc \in [Subs -> {"start", "wait", "print", "exit", "return", "done"}]
  /\ stick \in [Subs -> Nat]
  /\ received \in [Subs -> Nat] /\ printed \in [Subs -> Nat]
  /\ code \in [Subs -> {NoCode, 0, 1, 2}]
  /\ cursor \in [Subs -> Nat \cup {Unmatched}]
  /\ missed \in [Subs -> Nat \cup {Unmatched}]

\* A subscriber counts a sample once, and only samples written since it
\* matched or kept for it: however late it joins, however the programs
\* overlap (subscriber.cpp:34-39, take and not read).
CountWithinJoin ==
  \A s \in Subs :
    received[s] <= IF missed[s] = Unmatched THEN 0 ELSE sent - missed[s]

\* The three reads of the counter agree as far as they can while the listener
\* counts on before, between and after them: the exit code 2 is never that of
\* a run that printed a sample, although it need not mean that none arrived;
\* 0 is that of a run that counted one, although the line printed may say
\* none; and no more is printed than was counted (subscriber.cpp:74-79).
ExitCodeSound ==
  \A s \in Subs :
    /\ printed[s] <= received[s]
    /\ code[s] = 2 => printed[s] = 0
    /\ code[s] = 0 => received[s] > 0

\* A wait that ends before its time ends with what was asked for: the number
\* printed says so although it is read again (subscriber.cpp:73-77).
EarlyEndIsComplete ==
  \A s \in Subs :
    code[s] \in {0, 2} /\ stick[s] < TimeoutTicks => printed[s] >= opt.wanted

\* The publisher cuts its wait short only for a subscriber that misses none
\* of the samples (publisher.cpp:55-64).
EarlyStartHasReader ==
  [][ppc = "match" /\ ppc' = "write" /\ ptick < MatchTicks =>
       \E s \in Subs : missed[s] = 0]_vars

\* When the waits are long enough a subscriber prints at least what it asked
\* for, or else every sample its QoS leaves it (README of dds_test, 3-1 to
\* 3-4).
NothingLost ==
  \A s \in Subs : Timely /\ code[s] \in {0, 2} =>
    printed[s] >= opt.wanted
      \/ printed[s] = IF missed[s] = Unmatched THEN 0 ELSE sent - missed[s]

\* Both programs end, whether or not the other was ever there, and whatever
\* the network does (publisher.cpp:55,70, subscriber.cpp:74).  A timely run is
\* one that waits for the network, and nothing makes that move.
ProgramsTerminate ==
  ~Timely => <>(ppc = "done" /\ \A s \in Subs : spc[s] = "done")

-----------------------------------------------------------------------------
(* The inductive invariant of the proofs *)

\* A reader matches once, and counts from where it matched.
JoinInv(s) ==
  /\ cursor[s] # Unmatched => missed[s] # Unmatched
  /\ spc[s] # "done" /\ cursor[s] = Unmatched => missed[s] = Unmatched
  /\ missed[s] = Unmatched => received[s] = 0
  /\ missed[s] # Unmatched => missed[s] + received[s] <= sent
  /\ cursor[s] # Unmatched =>
       missed[s] + received[s] <= cursor[s] /\ cursor[s] <= sent

\* The exit code is there from the last read of the counter on, and what ended
\* the wait still holds when the counter is read again.
EndInv(s) ==
  /\ code[s] = NoCode <=> spc[s] \notin {"return", "done"}
  /\ spc[s] = "print" => stick[s] >= TimeoutTicks \/ received[s] >= opt.wanted
  /\ spc[s] = "exit" \/ code[s] \in {0, 2} =>
       stick[s] >= TimeoutTicks \/ printed[s] >= opt.wanted

\* There is a history to write to, nothing is written before the wait for a
\* match is over, and a match is seen only of a reader that was there.
HeadInv ==
  /\ Writing => Creatable(opt.wqos)
  /\ ppc \in {"start", "match"} => sent = 0
  /\ matched # 0 => \E s \in Subs : missed[s] # Unmatched

\* The invariant of the proofs: every property above follows from it.
ManualInv ==
  /\ TypeOK
  /\ HeadInv
  /\ \A s \in Subs : JoinInv(s) /\ EndInv(s)
  /\ ExitCodeSound
-----------------------------------------------------------------------------
(* The inductive invariant behind NothingLost: the waits are long enough *)

\* A matched reader has taken everything up to its cursor.
LinkInv(s) ==
  /\ cursor[s] # Unmatched =>
       Listening(s) /\ received[s] = cursor[s] - missed[s]
  /\ missed[s] # Unmatched => ppc # "start" /\ RxO(opt.wqos, opt.rqos)

\* The publisher has ended, and left the subscriber nothing to wait for.
AllTaken(s) ==
  /\ ppc = "done"
  /\ received[s] = IF missed[s] = Unmatched THEN 0 ELSE sent - missed[s]

\* A wait is over with what was asked for, or with all there is; and so it
\* stays while the total is printed and the exit code decided.
WaitInv(s) ==
  /\ ppc = "done" /\ spc[s] \in {"start", "wait"} => AllTaken(s)
  /\ spc[s] = "print" => received[s] >= opt.wanted \/ AllTaken(s)
  /\ spc[s] = "exit" \/ code[s] \in {0, 2} =>
       \/ printed[s] >= opt.wanted
       \/ AllTaken(s) /\ printed[s] = received[s]

TimelyInv == Timely => \A s \in Subs : LinkInv(s) /\ WaitInv(s)
=============================================================================
