----------------------------- MODULE AutoRunner -----------------------------
(***************************************************************************)
(* The automatic test: auto_pub.cpp (the orchestrator, on the RPI4) drives *)
(* auto_sub.cpp (the follower, on the RPI5) through the scenario list.     *)
(*                                                                         *)
(* Control topic.  Both ends are RELIABLE, TRANSIENT_LOCAL, KEEP_LAST 100. *)
(* A direction is an append-only log with a reading position: what is not  *)
(* yet taken is on the network or in the reader's cache, and a restarted   *)
(* reader is sent the whole log again.  A log is cut only when the process *)
(* that wrote it ends.  ControlFits is what makes the log faithful: the    *)
(* depth of 100 is never exceeded.  A runner also receives its own         *)
(* messages; it drops them (auto_pub.cpp:130, auto_sub.cpp:104) and they   *)
(* are left out, except from ControlFits.                                  *)
(*                                                                         *)
(* Data topic.  sent[k] samples of scenario k were written; cursor[k] is   *)
(* the last of them that the reader has seen or missed.                    *)
(*                                                                         *)
(* Time.  Every wait of the code is a sleep or a bounded poll.  With       *)
(* Timely = FALSE a wait may end at any moment, whatever the other side    *)
(* has or has not done.  With Timely = TRUE the waits are long enough: no  *)
(* wait for an answer times out, the reader matches within 500 ms, and     *)
(* everything written arrives before STOP and QUIT take effect.            *)
(***************************************************************************)
EXTENDS Scenarios

CONSTANTS
  CtrlDepth,    \* depth of the control topic's histories, 100 in the code
  Timely,       \* whether the waits of the code are long enough
  MaxRestarts,  \* bound: restarts of the follower
  NoReader      \* nullptr

ASSUME AutoAssumption ==
  /\ CtrlDepth \in Nat
  /\ Timely \in BOOLEAN
  /\ MaxRestarts \in Nat
  /\ NoReader \notin Readers

VARIABLES
  \* orchestrator
  ppc,       \* where main() is
  cur,       \* the scenario at hand
  writer,    \* the scenario whose DataWriter exists, 0 for none
  sent,      \* sent[k]: samples of scenario k written
  pubPart,   \* partition of the data Publisher
  count,     \* count of the scenario at hand, NoCount until RES
  results,   \* counts recorded
  pass,      \* the verdicts that are PASS
  ackTaken,  \* answers taken by waitAck
  cmdHist,   \* commands written
  \* follower
  spc,       \* where main() is
  reader,    \* the DataReader (with its filtered topic), or NoReader
  subPart,   \* partition of the data Subscriber
  received,  \* the listener's counter
  cmdTaken,  \* commands taken
  ackHist,   \* answers written
  restarts,  \* times the follower was restarted
  \* network
  cursor     \* cursor[k]: last sample of writer k seen or missed, or Unmatched

orchVars   == <<ppc, cur, writer, sent, pubPart, count, results, pass,
                ackTaken, cmdHist>>
followVars == <<spc, reader, subPart, received, cmdTaken, ackHist, restarts>>
vars       == <<orchVars, followVars, cursor>>

Unmatched == -1

scenario == Scen[cur]

Init ==
  /\ ppc = "begin" /\ cur = 1 /\ writer = 0
  /\ sent = [k \in 1..N |-> 0]
  /\ pubPart = {} /\ count = NoCount /\ results = <<>> /\ pass = 0
  /\ ackTaken = 0 /\ cmdHist = <<>>
  /\ spc = "poll" /\ reader = NoReader /\ subPart = {} /\ received = 0
  /\ cmdTaken = 0 /\ ackHist = <<>> /\ restarts = 0
  /\ cursor = [k \in 1..N |-> Unmatched]

-----------------------------------------------------------------------------
(* Data topic, as Fast DDS runs it between the two processes *)

\* Writer k exists and the reader is compatible with it.
CanMatch(k) ==
  /\ writer = k
  /\ reader # NoReader
  /\ RxO(WriterOf(Scen[k]), reader.qos)
  /\ PartitionsMeet(pubPart, subPart)

\* Samples of writer k that the matched reader should still be given.
Undelivered(k) ==
  {i \in cursor[k] + 1..sent[k] : Passes(reader.filter, i)}

Match(k) ==
  /\ CanMatch(k)
  /\ cursor[k] = Unmatched
  /\ cursor' = [cursor EXCEPT ![k] =
                  SkippedAtMatch(WriterOf(Scen[k]), reader.qos, sent[k])]
  /\ UNCHANGED <<orchVars, followVars>>

\* on_data_available takes sample i and counts it; the ones before it that
\* were not taken never will be.  Samples on their way outlive the writer.
Deliver(k, i) ==
  /\ reader # NoReader
  /\ cursor[k] # Unmatched
  /\ i \in Undelivered(k)
  /\ \A j \in Undelivered(k) :
       j < i => ~Timely /\ MayMiss(WriterOf(Scen[k]), reader.qos, sent[k], j)
  /\ cursor' = [cursor EXCEPT ![k] = i]
  /\ received' = received + 1
  /\ UNCHANGED <<orchVars, spc, reader, subPart, cmdTaken, ackHist, restarts>>

\* What the sleep of 500 ms after create_datawriter is for.
MatchSettled == Timely /\ CanMatch(cur) => cursor[cur] # Unmatched

\* What the sleeps of 1 s and 3 s before STOP are for.
DataSettled == Timely /\ CanMatch(cur) =>
                 cursor[cur] # Unmatched /\ Undelivered(cur) = {}

-----------------------------------------------------------------------------
(* Orchestrator *)

Send(cmd) == cmdHist' = Append(cmdHist, cmd)

\* Mutant: the partition is set but never cleared.
BeginKeepsPartition ==
  /\ ppc = "begin"
  /\ pubPart' = pubPart \cup PartitionOf(scenario.pubPart)
  /\ count' = NoCount
  /\ ppc' = IF scenario.late THEN "create" ELSE "run"
  /\ UNCHANGED <<cur, writer, sent, results, pass, ackTaken, cmdHist,
                 followVars, cursor>>

\* Mutant: a normal scenario, too, writes before it asks for a reader.
BeginWritesFirst ==
  /\ ppc = "begin"
  /\ pubPart' = PartitionOf(scenario.pubPart)
  /\ count' = NoCount
  /\ ppc' = "create"
  /\ UNCHANGED <<cur, writer, sent, results, pass, ackTaken, cmdHist,
                 followVars, cursor>>

Begin ==
  /\ ppc = "begin"
  /\ pubPart' = PartitionOf(scenario.pubPart)
  /\ count' = NoCount
  /\ ppc' = IF scenario.late THEN "create" ELSE "run"
  /\ UNCHANGED <<cur, writer, sent, results, pass, ackTaken, cmdHist,
                 followVars, cursor>>

SendRun ==
  /\ ppc = "run"
  /\ Send(RunCmd(scenario))
  /\ ppc' = "ready"
  /\ UNCHANGED <<cur, writer, sent, pubPart, count, results, pass, ackTaken,
                 followVars, cursor>>

\* The scenario goes on whether waitAck("READY") returned or timed out.
AfterReady == IF scenario.late THEN "stop" ELSE "create"

\* Mutant: waitAck does not compare the name.
AnswersAnyScenario(ack, kind) == ack.kind = kind

\* What waitAck looks for: this kind of answer, with this scenario's name.
Answers(ack, kind) == ack.kind = kind /\ ack.name = scenario.name

ReadyAcked ==
  /\ ppc = "ready"
  /\ ackTaken < Len(ackHist)
  /\ Answers(ackHist[ackTaken + 1], "READY")
  /\ ackTaken' = ackTaken + 1
  /\ ppc' = AfterReady
  /\ UNCHANGED <<cur, writer, sent, pubPart, count, results, pass, cmdHist,
                 followVars, cursor>>

\* Mutant: a scenario whose follower is not ready is given up.
ReadyTimeoutGivesUp ==
  /\ ppc = "ready"
  /\ ~Timely
  /\ ppc' = "record"
  /\ UNCHANGED <<cur, writer, sent, pubPart, count, results, pass, ackTaken,
                 cmdHist, followVars, cursor>>

\* Mutant: the wait for READY has no limit.
ReadyNeverTimesOut == FALSE

ReadyTimeout ==
  /\ ppc = "ready"
  /\ ~Timely
  /\ ppc' = AfterReady
  /\ UNCHANGED <<cur, writer, sent, pubPart, count, results, pass, ackTaken,
                 cmdHist, followVars, cursor>>

\* Any other answer is taken and dropped, and the wait goes on.
AckIgnored ==
  /\ ppc \in {"ready", "res"}
  /\ ackTaken < Len(ackHist)
  /\ ~Answers(ackHist[ackTaken + 1], IF ppc = "ready" THEN "READY" ELSE "RES")
  /\ ackTaken' = ackTaken + 1
  /\ UNCHANGED <<ppc, cur, writer, sent, pubPart, count, results, pass,
                 cmdHist, followVars, cursor>>

CreateWriter ==
  /\ ppc = "create"
  /\ writer' = cur
  /\ ppc' = "write"
  /\ UNCHANGED <<cur, sent, pubPart, count, results, pass, ackTaken, cmdHist,
                 followVars, cursor>>

\* Mutant: the loop runs once too often.
WriteSampleOneMore ==
  /\ ppc = "write"
  /\ sent[cur] <= scenario.samples
  /\ MatchSettled
  /\ sent' = [sent EXCEPT ![cur] = @ + 1]
  /\ UNCHANGED <<ppc, cur, writer, pubPart, count, results, pass, ackTaken,
                 cmdHist, followVars, cursor>>

WriteSample ==
  /\ ppc = "write"
  /\ sent[cur] < scenario.samples
  /\ MatchSettled
  /\ sent' = [sent EXCEPT ![cur] = @ + 1]
  /\ UNCHANGED <<ppc, cur, writer, pubPart, count, results, pass, ackTaken,
                 cmdHist, followVars, cursor>>

WritesDone ==
  /\ ppc = "write"
  /\ sent[cur] = scenario.samples
  /\ ppc' = IF scenario.late THEN "run" ELSE "stop"
  /\ UNCHANGED <<cur, writer, sent, pubPart, count, results, pass, ackTaken,
                 cmdHist, followVars, cursor>>

SendStop ==
  /\ ppc = "stop"
  /\ DataSettled
  /\ Send(StopCmd(scenario))
  /\ ppc' = "res"
  /\ UNCHANGED <<cur, writer, sent, pubPart, count, results, pass, ackTaken,
                 followVars, cursor>>

ResAcked ==
  /\ ppc = "res"
  /\ ackTaken < Len(ackHist)
  /\ Answers(ackHist[ackTaken + 1], "RES")
  /\ ackTaken' = ackTaken + 1
  /\ count' = ackHist[ackTaken + 1].count
  /\ ppc' = "record"
  /\ UNCHANGED <<cur, writer, sent, pubPart, results, pass, cmdHist,
                 followVars, cursor>>

\* Mutant: a follower that does not answer ends the run.
ResTimeoutAborts ==
  /\ ppc = "res"
  /\ ~Timely
  /\ ppc' = "quit"
  /\ UNCHANGED <<cur, writer, sent, pubPart, count, results, pass, ackTaken,
                 cmdHist, followVars, cursor>>

ResTimeout ==
  /\ ppc = "res"
  /\ ~Timely
  /\ ppc' = "record"
  /\ UNCHANGED <<cur, writer, sent, pubPart, count, results, pass, ackTaken,
                 cmdHist, followVars, cursor>>

\* Mutant: a scenario without an answer has no line in the table.
RecordOnlyAnswers ==
  /\ ppc = "record"
  /\ writer' = 0
  /\ results' = IF count = NoCount THEN results ELSE Append(results, count)
  /\ IF cur < N THEN ppc' = "begin" /\ cur' = cur + 1
                ELSE ppc' = "quit" /\ cur' = cur
  /\ UNCHANGED <<sent, pubPart, count, pass, ackTaken, cmdHist,
                 followVars, cursor>>

\* delete_datawriter, the result, and the head of the loop.
Record ==
  /\ ppc = "record"
  /\ writer' = 0
  /\ results' = Append(results, count)
  /\ IF cur < N THEN ppc' = "begin" /\ cur' = cur + 1
                ELSE ppc' = "quit" /\ cur' = cur
  /\ UNCHANGED <<sent, pubPart, count, pass, ackTaken, cmdHist,
                 followVars, cursor>>

SendQuit ==
  /\ ppc = "quit"
  /\ Send(QuitCmd)
  /\ ppc' = "report"
  /\ UNCHANGED <<cur, writer, sent, pubPart, count, results, pass, ackTaken,
                 followVars, cursor>>

\* The result table, then the end of the process one second after QUIT was
\* written: a command that has not reached the follower by then is lost.
Report ==
  /\ ppc = "report"
  /\ pass' = Cardinality({j \in DOMAIN results : Verdict(Scen[j], results[j])})
  /\ \E n \in cmdTaken..Len(cmdHist) :
       /\ Timely => n = Len(cmdHist)
       /\ cmdHist' = SubSeq(cmdHist, 1, n)
  /\ ppc' = "done"
  /\ UNCHANGED <<cur, writer, sent, pubPart, count, results, ackTaken,
                 followVars, cursor>>

Orchestrator ==
  \/ Begin \/ SendRun \/ ReadyAcked \/ ReadyTimeout \/ AckIgnored
  \/ CreateWriter \/ WriteSample \/ WritesDone
  \/ SendStop \/ ResAcked \/ ResTimeout \/ Record
  \/ SendQuit \/ Report

-----------------------------------------------------------------------------
(* Follower *)

\* Mutant: every answer is written twice.
ReplyTwice(ack) == ackHist' = ackHist \o <<ack, ack>>

Reply(ack) == ackHist' = Append(ackHist, ack)

NextCmd == cmdHist[cmdTaken + 1]

Take(kind) ==
  /\ spc = "poll"
  /\ cmdTaken < Len(cmdHist)
  /\ NextCmd.kind = kind
  /\ cmdTaken' = cmdTaken + 1

\* No reader, and nothing matched.
Unmatch == cursor' = [k \in 1..N |-> Unmatched]

\* Mutant: the listener's counter is not reset.
TakeRunKeepsCount ==
  /\ Take("RUN")
  /\ subPart' = PartitionOf(NextCmd.part)
  /\ received' = received
  /\ reader' = ReaderOf(NextCmd)
  /\ Unmatch
  /\ spc' = "ready"
  /\ UNCHANGED <<orchVars, ackHist, restarts>>

TakeRun ==
  /\ Take("RUN")
  /\ subPart' = PartitionOf(NextCmd.part)
  /\ received' = 0
  /\ reader' = ReaderOf(NextCmd)
  /\ Unmatch
  /\ spc' = "ready"
  /\ UNCHANGED <<orchVars, ackHist, restarts>>

SendReady ==
  /\ spc = "ready"
  /\ Reply(ReadyAck(cmdHist[cmdTaken].name))
  /\ spc' = "poll"
  /\ UNCHANGED <<orchVars, reader, subPart, received, cmdTaken, restarts,
                 cursor>>

\* The count is read and sent while the reader still receives.
TakeStop ==
  /\ Take("STOP")
  /\ Reply(ResAck(NextCmd.name, received))
  /\ spc' = "drop"
  /\ UNCHANGED <<orchVars, reader, subPart, received, restarts, cursor>>

DropReader ==
  /\ spc = "drop"
  /\ reader' = NoReader
  /\ Unmatch
  /\ spc' = "poll"
  /\ UNCHANGED <<orchVars, subPart, received, cmdTaken, ackHist, restarts>>

\* Mutant: QUIT leaves the inner loop only.
TakeQuitPollsOn ==
  /\ Take("QUIT")
  /\ reader' = NoReader
  /\ Unmatch
  /\ spc' = "poll"
  /\ UNCHANGED <<orchVars, subPart, received, ackHist, restarts>>

TakeQuit ==
  /\ Take("QUIT")
  /\ reader' = NoReader
  /\ Unmatch
  /\ spc' = "done"
  /\ UNCHANGED <<orchVars, subPart, received, ackHist, restarts>>

Follower == TakeRun \/ SendReady \/ TakeStop \/ DropReader \/ TakeQuit

\* The follower is stopped and started again.  Its answers that had not
\* arrived are lost; the new process is sent every command from the first.
FollowerRestart ==
  /\ restarts < MaxRestarts
  /\ spc # "done" /\ ppc # "done"
  /\ restarts' = restarts + 1
  /\ spc' = "poll" /\ reader' = NoReader /\ subPart' = {} /\ received' = 0
  /\ cmdTaken' = 0
  /\ \E n \in ackTaken..Len(ackHist) : ackHist' = SubSeq(ackHist, 1, n)
  /\ Unmatch
  /\ UNCHANGED orchVars

-----------------------------------------------------------------------------
Network == \E k \in 1..N :
             Match(k) \/ \E i \in 1..sent[k] : Deliver(k, i)

\* The orchestrator has ended: the follower has quit, or waits for a command
\* that will not come.
Terminated == ppc = "done" /\ UNCHANGED vars

Next == Orchestrator \/ Follower \/ Network \/ FollowerRestart \/ Terminated

Spec == Init /\ [][Next]_vars

\* The orchestrator's loops are bounded and its sleeps end; nothing is
\* assumed of the follower or of the network.
OrchestratorFairSpec == Spec /\ WF_vars(Orchestrator)

\* The follower polls every 50 ms, and a reliable network delivers.
FairSpec == OrchestratorFairSpec /\ WF_vars(Follower) /\ WF_vars(Network)

-----------------------------------------------------------------------------
(* Properties *)

\* Every variable but spc has its type, and no scenario writes more than its
\* samples.
StateTypes ==
  /\ ppc \in {"begin", "run", "ready", "create", "write", "stop", "res",
              "record", "quit", "report", "done"}
  /\ cur \in 1..N
  /\ writer \in {0, cur}
  /\ sent \in [1..N -> Nat]
  /\ \A k \in 1..N : sent[k] <= Scen[k].samples
  /\ pubPart \in SUBSET STRING
  /\ count \in Nat \cup {NoCount}
  /\ results \in Seq(Nat \cup {NoCount})
  /\ pass \in 0..N
  /\ reader \in Readers \cup {NoReader}
  /\ subPart \in SUBSET STRING
  /\ received \in Nat
  /\ ackHist \in Seq(Acks)
  /\ ackTaken \in 0..Len(ackHist)
  /\ cmdHist \in Seq(Commands)
  /\ cmdTaken \in 0..Len(cmdHist)
  /\ restarts \in 0..MaxRestarts
  /\ cursor \in [1..N -> Nat \cup {Unmatched}]
  /\ \A k \in 1..N : cursor[k] <= sent[k]

\* The same, with the places the follower may be in.
TypeOK == StateTypes /\ spc \in {"poll", "ready", "drop", "done"}

\* A count is recorded only for the scenario it was counted in, and never
\* exceeds what that scenario's own writer could give its own reader - however
\* late, repeated or mixed up with another scenario's the answers are
\* (waitAck's name test, auto_pub.cpp:130; received = 0, auto_sub.cpp:136).
ResultsWithinQos ==
  \A j \in 1..Len(results) : results[j] \in Outcomes(Scen[j])

\* RUN never replaces a reader that is still there: the old DataReader would
\* go on feeding the shared listener (auto_sub.cpp:136-146).
NoReaderLeak ==
  [][reader # NoReader /\ reader' # reader => reader' = NoReader]_vars

\* No control history overflows: neither the orchestrator's own writer, nor
\* its reader's cache, which holds its own commands next to the answers, nor
\* the cache of a follower that joins late (depth = 100, auto_pub.cpp:103,108).
ControlFits ==
  /\ Len(cmdHist) <= CtrlDepth
  /\ Len(cmdHist) + Len(ackHist) - ackTaken <= CtrlDepth

\* The follower quits only after every result has been recorded, and leaves
\* no reader behind, although nothing but the order of the commands says so
\* (auto_pub.cpp:204, auto_sub.cpp:107-112).
QuitIsLast == spc = "done" => Len(results) = N /\ cmdTaken = 2 * N + 1

\* In a normal scenario the reader is ready before the first sample is
\* written: "Sub first prepares its Reader, then Pub sends" (auto_pub.cpp:183).
ReaderBeforeData ==
  ppc = "write" /\ ~scenario.late =>
    reader # NoReader /\ reader.name = scenario.name

\* The whole promise of the waits: when they are long enough, every scenario
\* counts exactly what its QoS allows, in spite of discovery, filtering,
\* history and the reader being built anew each time (auto_pub.cpp:173-194).
CountsAreExact ==
  \A j \in 1..Len(results) : results[j] = Deliverable(Scen[j])

\* When the waits are long enough the table ends with "PASS N / N"
\* (auto_pub.cpp:208-223).
AllScenariosPass == ppc = "done" => pass = N

\* The run ends whatever the follower does or does not do: every wait for an
\* answer is bounded (auto_pub.cpp:121-135).
OrchestratorTerminates == <>(ppc = "done")

\* QUIT reaches the follower, which ends too, when one second is enough for
\* it to arrive (auto_pub.cpp:204-205).
FollowerQuits == <>(spc = "done")

\* A run is a sequence of results, one for each scenario, and a table.
Abstract == INSTANCE ScenarioRun WITH
  Rounds <- N, Allowed <- [j \in 1..N |-> Outcomes(Scen[j])],
  results <- results, over <- ppc = "done"

ImplementsScenarioRun == Abstract!Spec

-----------------------------------------------------------------------------
(* The inductive invariant behind ResultsWithinQos *)

Closing == ppc \in {"quit", "report", "done"}
StopSent == ppc \in {"res", "record"}
RunSent ==
  \/ StopSent
  \/ ppc \in {"ready", "stop"}
  \/ ppc \in {"create", "write"} /\ ~scenario.late

\* Behind its first b commands, the command log is a prefix of RUN 1, STOP 1,
\* RUN 2, STOP 2, ..., QUIT.
ScriptFrom(b) ==
  /\ \A k \in 1..N :
       /\ b + 2 * k - 1 <= Len(cmdHist) => cmdHist[b + 2 * k - 1] = RunCmd(Scen[k])
       /\ b + 2 * k <= Len(cmdHist) => cmdHist[b + 2 * k] = StopCmd(Scen[k])
  /\ b + 2 * N + 1 <= Len(cmdHist) => cmdHist[b + 2 * N + 1] = QuitCmd

\* How far the log has got, by where the orchestrator is.
LengthFrom(b) ==
  /\ ~RunSent /\ ~Closing => Len(cmdHist) = b + 2 * cur - 2
  /\ RunSent /\ ~StopSent => Len(cmdHist) = b + 2 * cur - 1
  /\ StopSent => Len(cmdHist) = b + 2 * cur
  /\ ppc = "quit" => Len(cmdHist) = b + 2 * N
  /\ ppc = "report" => Len(cmdHist) = b + 2 * N + 1
  /\ Len(cmdHist) <= b + 2 * N + 1
  /\ Closing => cur = N

ScriptInv == ScriptFrom(0) /\ LengthFrom(0)

ReaderFor(k) ==
  /\ reader = ReaderOf(RunCmd(Scen[k]))
  /\ subPart = PartitionOf(Scen[k].subPart)

\* The follower has a reader exactly between RUN and STOP of a scenario.
ReaderFrom(b) ==
  \/ /\ spc = "poll" /\ reader = NoReader
     /\ \E k \in 0..N : cmdTaken = b + 2 * k
  \/ /\ spc \in {"poll", "ready"}
     /\ \E k \in 1..N : cmdTaken = b + 2 * k - 1 /\ ReaderFor(k)
  \/ /\ spc = "drop"
     /\ \E k \in 1..N : cmdTaken = b + 2 * k /\ ReaderFor(k)
  \/ /\ spc = "done" /\ reader = NoReader
     /\ cmdTaken = b + 2 * N + 1

FollowerInv == ReaderFrom(0)

\* A writer has the QoS of its scenario; a late reader is asked for only
\* after all the samples have been written.
WriterInv ==
  /\ ppc = "begin" => writer = 0
  /\ ppc # "begin" => pubPart = PartitionOf(scenario.pubPart)
  /\ scenario.late /\ ppc \notin {"begin", "create", "write"} =>
       sent[cur] = scenario.samples

\* What the reader of the scenario at hand has counted so far.
CountInv ==
  /\ reader = NoReader => \A k \in 1..N : cursor[k] = Unmatched
  /\ ReaderFor(cur) =>
       /\ \A k \in 1..N : k # cur => cursor[k] = Unmatched
       /\ cursor[cur] = Unmatched => received = 0
       /\ cursor[cur] # Unmatched =>
            /\ Compatible(scenario)
            /\ cursor[cur] >= Missed(scenario)
            /\ received <= Passing(Missed(scenario), scenario.filter,
                                  cursor[cur])

\* An answer is for a scenario already begun; a RES for the one at hand exists
\* only after its STOP.
Fits(ack) == \E k \in 1..cur :
  /\ ack.name = Scen[k].name
  /\ k = cur /\ ack.kind = "RES" =>
       (StopSent \/ Closing) /\ ack.count <= Deliverable(scenario)

AckInv == \A i \in 1..Len(ackHist) : Fits(ackHist[i])

ResultInv ==
  /\ Len(results) = IF Closing THEN N ELSE cur - 1
  /\ ppc # "begin" => count \in Outcomes(scenario)
  /\ ResultsWithinQos

\* Each life of the follower answers a command at most once.
Answered == IF spc \in {"ready", "done"} THEN cmdTaken - 1 ELSE cmdTaken
AckCount == Len(ackHist) <= 2 * N * restarts + Answered

IInv == /\ TypeOK /\ ScriptInv /\ FollowerInv /\ WriterInv
        /\ CountInv /\ AckInv /\ ResultInv

-----------------------------------------------------------------------------
(* The inductive invariant behind CountsAreExact: the waits are long enough *)
(* and the follower is not restarted.                                       *)

\* The follower is at most one command behind, and that only while the
\* orchestrator waits for its answer or ends.
InStepInv ==
  /\ Len(cmdHist) <= cmdTaken + 1
  /\ ppc \notin {"ready", "res", "report", "done"} => cmdTaken = Len(cmdHist)
  /\ ppc = "stop" \/ (ppc \in {"create", "write"} /\ ~scenario.late) =>
       spc = "poll"
  /\ ppc = "done" => Len(cmdHist) = 2 * N + 1

\* Nothing has been written for the scenario at hand.
Unwritten ==
  \/ ppc \in {"begin", "create"}
  \/ ppc \in {"run", "ready"} /\ ~scenario.late

\* The one writer is that of the scenario at hand, which has written all of
\* its samples before STOP.
WroteInv ==
  /\ \A k \in cur + 1..N : sent[k] = 0
  /\ Unwritten => writer = 0 /\ sent[cur] = 0
  /\ ~Unwritten /\ ~Closing => writer = cur
  /\ ppc \in {"stop", "res", "record"} => sent[cur] = scenario.samples

\* The reader of the scenario at hand has counted every sample that passed up
\* to its cursor, matched before the first sample of a normal scenario, and
\* has nothing left to take once STOP is on its way.
ExactInv ==
  ReaderFor(cur) =>
    /\ cursor[cur] # Unmatched =>
         received = Passing(Missed(scenario), scenario.filter, cursor[cur])
    /\ ~scenario.late /\ writer = cur /\ Compatible(scenario) /\ sent[cur] > 0 =>
         cursor[cur] # Unmatched
    /\ StopSent /\ Compatible(scenario) =>
         cursor[cur] # Unmatched /\ Undelivered(cur) = {}

\* An answer is written after its command was taken; a READY, when the reader
\* is there, and a RES, with the exact count.
Justified(ack) == \E k \in 1..N :
  /\ ack.name = Scen[k].name
  /\ ack.kind = "READY" =>
       cmdTaken >= 2 * k - 1 /\ ~(spc = "ready" /\ cmdTaken = 2 * k - 1)
  /\ ack.kind = "RES" => cmdTaken >= 2 * k /\ ack.count = Deliverable(Scen[k])

AnswerInv == \A i \in 1..Len(ackHist) : Justified(ackHist[i])

\* The count at hand is exact, and so are those in the table.
ExactResultInv ==
  /\ ppc = "record" => count = Deliverable(scenario)
  /\ CountsAreExact
  /\ ppc = "done" =>
       pass = Cardinality({j \in 1..N : Verdict(Scen[j], Deliverable(Scen[j]))})

TimelyInv == InStepInv /\ WroteInv /\ ExactInv /\ AnswerInv /\ ExactResultInv
=============================================================================
