-------------------------- MODULE AutoRunnerProofs --------------------------
(***************************************************************************)
(* Proofs about AutoRunner, for every scenario list.                       *)
(***************************************************************************)
EXTENDS AutoRunner, SequenceTheorems, FiniteSetTheorems, TLAPS

-----------------------------------------------------------------------------
(* The scenario list and what is built from a scenario *)

\* The list is a non-empty sequence of scenarios with different names.
LEMMA ScenFacts ==
  /\ N \in Nat /\ N >= 1
  /\ \A k \in 1..N : Scen[k] \in Scenario
  /\ \A j, k \in 1..N : Scen[j].name = Scen[k].name => j = k
BY ScenAssumption, LenProperties, ElementOfSeq DEF N

\* MkQos turns any codes into a QoS whose depth is positive.
LEMMA QosType ==
  ASSUME NEW rel, NEW dur, NEW his, NEW depth \in Nat
  PROVE  MkQos(rel, dur, his, depth) \in Qos
BY DEF MkQos, Qos, RelOf, DurOf, HisOf, DepthOf, Reliability, Durability,
       History

\* A scenario's writer has a QoS; its RUN and STOP are commands.
LEMMA ScenarioTypes ==
  ASSUME NEW k \in 1..N
  PROVE  /\ WriterOf(Scen[k]) \in Qos
         /\ RunCmd(Scen[k]) \in RunCommands
         /\ RunCmd(Scen[k]) \in Commands
         /\ StopCmd(Scen[k]) \in Commands
<1>1. Scen[k] \in Scenario
  BY ScenFacts
<1>2. WriterOf(Scen[k]) \in Qos
  BY <1>1, QosType DEF WriterOf, Scenario
<1>3. RunCmd(Scen[k]) \in RunCommands
  BY <1>1 DEF RunCmd, RunCommands, Scenario
<1>4. StopCmd(Scen[k]) \in Commands
  BY <1>1 DEF StopCmd, Commands, Scenario
<1> QED
  BY <1>2, <1>3, <1>4 DEF Commands

\* The reader built from a RUN command is a reader, never nullptr.
LEMMA ReaderType ==
  ASSUME NEW c \in RunCommands
  PROVE  ReaderOf(c) \in Readers /\ ReaderOf(c) # NoReader
<1>1. ReaderOf(c) \in Readers
  BY QosType DEF ReaderOf, Readers, RunCommands
<1> QED
  BY <1>1, AutoAssumption

\* A command of kind RUN has the fields of a RUN, and so for STOP.
LEMMA CommandKinds ==
  ASSUME NEW c \in Commands
  PROVE  /\ c.kind = "RUN" => c \in RunCommands
         /\ c.kind = "STOP" => c.name \in STRING
<1>1. c \in RunCommands => c.kind = "RUN"
  BY DEF RunCommands
<1>2. c \in [kind : {"STOP"}, name : STRING] =>
        c.kind = "STOP" /\ c.name \in STRING
  OBVIOUS
<1>3. c = QuitCmd => c.kind = "QUIT"
  BY DEF QuitCmd
<1> QED
  BY <1>1, <1>2, <1>3 DEF Commands

\* An answer has a name; a RES has a count.
LEMMA AckKinds ==
  ASSUME NEW a \in Acks
  PROVE  a.name \in STRING /\ (a.kind = "RES" => a.count \in Nat)
BY DEF Acks

\* A set of scenario numbers has at most N elements.
LEMMA SubsetOfInterval ==
  ASSUME NEW P \in SUBSET (1..N)
  PROVE  Cardinality(P) \in 0..N
<1>1. IsFiniteSet(1..N) /\ Cardinality(1..N) = N
  BY ScenFacts, FS_Interval
<1>2. IsFiniteSet(P) /\ Cardinality(P) <= N
  BY <1>1, FS_Subset
<1>3. Cardinality(P) \in Nat
  BY <1>2, FS_CardinalityType
<1> QED
  BY <1>2, <1>3, ScenFacts

\* A history retains no more samples than were written.
LEMMA SkippedBounds ==
  ASSUME NEW w \in Qos, NEW r, NEW n \in Nat
  PROVE  SkippedAtMatch(w, r, n) \in 0..n
BY DEF SkippedAtMatch, Retained, Qos

-----------------------------------------------------------------------------
(* Type correctness *)

\* The beginning of a sequence.
LEMMA Beginning ==
  ASSUME NEW S, NEW s \in Seq(S), NEW n \in 0..Len(s)
  PROVE  /\ SubSeq(s, 1, n) \in Seq(S)
         /\ Len(SubSeq(s, 1, n)) = n
         /\ \A i \in 1..n : SubSeq(s, 1, n)[i] = s[i]
<1>1. Len(s) \in Nat /\ n \in Nat /\ n <= Len(s)
  BY LenProperties
<1>2. \A i \in 1..n : s[i] \in S
  BY <1>1, ElementOfSeq
<1> QED
  BY <1>1, <1>2, SubSeqProperties

\* Init satisfies TypeOK.
LEMMA TypeInit == Init => TypeOK
<1> SUFFICES ASSUME Init PROVE TypeOK
  OBVIOUS
<1>1. sent \in [1..N -> Nat] /\ \A k \in 1..N : sent[k] <= Scen[k].samples
  BY ScenFacts DEF Init, Scenario
<1>2. /\ cursor \in [1..N -> Nat \cup {Unmatched}]
      /\ \A k \in 1..N : cursor[k] <= sent[k]
  BY DEF Init, Unmatched
<1>3. /\ results \in Seq(Nat \cup {NoCount}) /\ ackHist \in Seq(Acks)
      /\ cmdHist \in Seq(Commands)
  BY EmptySeq DEF Init
<1>4. ackTaken \in 0..Len(ackHist) /\ cmdTaken \in 0..Len(cmdHist)
  BY EmptySeq DEF Init
<1> QED
  BY <1>1, <1>2, <1>3, <1>4, ScenFacts, AutoAssumption
     DEF TypeOK, StateTypes, Init, NoCount

\* After Unmatch no reader has seen anything.
LEMMA UnmatchTypes ==
  ASSUME sent \in [1..N -> Nat], Unmatch
  PROVE  /\ cursor' \in [1..N -> Nat \cup {Unmatched}]
         /\ \A k \in 1..N : cursor'[k] = Unmatched
         /\ \A k \in 1..N : cursor'[k] <= sent[k]
<1>1. \A k \in 1..N : cursor'[k] = Unmatched /\ sent[k] \in Nat
  BY DEF Unmatch
<1>2. \A k \in 1..N : cursor'[k] <= sent[k]
  BY <1>1 DEF Unmatched
<1> QED
  BY <1>1, <1>2 DEF Unmatch

\* A cursor moves to a sample that was written.
LEMMA CursorTypes ==
  ASSUME StateTypes, NEW k \in 1..N, NEW c \in 0..sent[k],
         cursor' = [cursor EXCEPT ![k] = c]
  PROVE  /\ cursor' \in [1..N -> Nat \cup {Unmatched}]
         /\ \A j \in 1..N : cursor'[j] <= sent[j]
<1>1. /\ cursor \in [1..N -> Nat \cup {Unmatched}] /\ sent[k] \in Nat
      /\ \A j \in 1..N : cursor[j] <= sent[j]
  BY DEF StateTypes
<1>2. c \in Nat /\ c <= sent[k]
  BY <1>1
<1> QED
  BY <1>1, <1>2

\* The orchestrator's steps keep the types; the number of verdicts is that of
\* the results.
LEMMA OrchestratorTypes ==
  ASSUME StateTypes, Orchestrator, ppc = "report" => Len(results) = N
  PROVE  StateTypes'
<1> USE ScenFacts
<1>s. scenario \in Scenario /\ scenario = Scen[cur] /\ cur \in 1..N
  BY DEF scenario, StateTypes
<1>c. RunCmd(scenario) \in Commands /\ StopCmd(scenario) \in Commands
  BY <1>s, ScenarioTypes
<1>p. \A t \in STRING : PartitionOf(t) \in SUBSET STRING
  BY DEF PartitionOf
<1>1. CASE Begin
  BY <1>1, <1>s, <1>p DEF Begin, StateTypes, followVars, NoCount, Scenario
<1>2. CASE SendRun
  <2>1. cmdHist' \in Seq(Commands) /\ Len(cmdHist') = Len(cmdHist) + 1
    BY <1>2, <1>c, AppendProperties DEF SendRun, Send, StateTypes
  <2> QED
    BY <1>2, <2>1, LenProperties DEF SendRun, StateTypes, followVars
<1>3. CASE ReadyAcked \/ AckIgnored
  <2>1. ackTaken' \in 0..Len(ackHist)
    BY <1>3, LenProperties DEF ReadyAcked, AckIgnored, StateTypes
  <2>2. CASE ReadyAcked
    BY <2>1, <2>2 DEF ReadyAcked, AfterReady, StateTypes, followVars
  <2>3. CASE AckIgnored
    BY <2>1, <2>3 DEF AckIgnored, StateTypes, followVars
  <2> QED
    BY <1>3, <2>2, <2>3
<1>4. CASE ReadyTimeout \/ ResTimeout \/ CreateWriter \/ WritesDone
  BY <1>4 DEF ReadyTimeout, ResTimeout, CreateWriter, WritesDone, AfterReady,
              StateTypes, followVars
<1>5. CASE WriteSample
  <2>0. /\ sent' = [sent EXCEPT ![cur] = sent[cur] + 1]
        /\ sent[cur] < Scen[cur].samples /\ Scen[cur].samples \in Nat
    BY <1>5, <1>s DEF WriteSample, Scenario
  <2>1. /\ sent' \in [1..N -> Nat]
        /\ \A k \in 1..N : sent'[k] <= Scen[k].samples /\ sent[k] <= sent'[k]
    BY <2>0, <1>s DEF StateTypes
  <2>2. \A k \in 1..N : cursor'[k] <= sent'[k]
    BY <1>5, <2>1 DEF WriteSample, StateTypes, Unmatched
  <2> QED
    BY <1>5, <2>1, <2>2 DEF WriteSample, StateTypes, followVars
<1>6. CASE SendStop
  <2>1. cmdHist' \in Seq(Commands) /\ Len(cmdHist') = Len(cmdHist) + 1
    BY <1>6, <1>c, AppendProperties DEF SendStop, Send, StateTypes
  <2> QED
    BY <1>6, <2>1, LenProperties DEF SendStop, StateTypes, followVars
<1>7. CASE ResAcked
  <2>1. ackHist[ackTaken + 1] \in Acks
    BY <1>7, LenProperties, ElementOfSeq DEF ResAcked, StateTypes
  <2>2. count' \in Nat
    BY <1>7, <2>1, AckKinds DEF ResAcked, Answers
  <2>3. ackTaken' \in 0..Len(ackHist)
    BY <1>7, LenProperties DEF ResAcked, StateTypes
  <2> QED
    BY <1>7, <2>2, <2>3 DEF ResAcked, StateTypes, followVars
<1>8. CASE Record
  <2>1. results' \in Seq(Nat \cup {NoCount})
    BY <1>8, AppendProperties DEF Record, StateTypes
  <2>2. cur' \in 1..N /\ writer' = 0 /\ ppc' \in {"begin", "quit"}
    BY <1>8 DEF Record, StateTypes
  <2> QED
    BY <1>8, <2>1, <2>2 DEF Record, StateTypes, followVars
<1>9. CASE SendQuit
  <2>1. cmdHist' \in Seq(Commands) /\ Len(cmdHist') = Len(cmdHist) + 1
    BY <1>9, AppendProperties DEF SendQuit, Send, StateTypes, Commands
  <2> QED
    BY <1>9, <2>1, LenProperties DEF SendQuit, StateTypes, followVars
<1>10. CASE Report
  <2>0. DOMAIN results = 1..N
    BY <1>10, LenProperties DEF Report, StateTypes
  <2>1. pass' \in 0..N
    BY <1>10, <2>0, SubsetOfInterval DEF Report
  <2>2. PICK n \in cmdTaken..Len(cmdHist) : cmdHist' = SubSeq(cmdHist, 1, n)
    BY <1>10 DEF Report
  <2>3. n \in Nat /\ n <= Len(cmdHist) /\ cmdTaken \in Nat /\ cmdTaken <= n
    BY LenProperties DEF StateTypes
  <2>5. cmdHist' \in Seq(Commands) /\ Len(cmdHist') = n
    BY <2>2, <2>3, Beginning DEF StateTypes
  <2> QED
    BY <1>10, <2>1, <2>3, <2>5 DEF Report, StateTypes, followVars
<1> QED
  BY <1>1, <1>2, <1>3, <1>4, <1>5, <1>6, <1>7, <1>8, <1>9, <1>10
     DEF Orchestrator

\* The follower's steps keep the types; READY has the name of a RUN.
LEMMA FollowerTypes ==
  ASSUME StateTypes, Follower,
         spc = "ready" => cmdTaken > 0 /\ cmdHist[cmdTaken].kind = "RUN"
  PROVE  StateTypes'
<1> USE ScenFacts
<1>p. \A t \in STRING : PartitionOf(t) \in SUBSET STRING
  BY DEF PartitionOf
<1>11. /\ Len(cmdHist) \in Nat
       /\ cmdTaken < Len(cmdHist) => NextCmd \in Commands
  BY LenProperties, ElementOfSeq DEF StateTypes, NextCmd
<1>12. CASE TakeRun
  <2>1. NextCmd \in RunCommands
    BY <1>11, <1>12, CommandKinds DEF TakeRun, Take
  <2>2. reader' \in Readers /\ subPart' \in SUBSET STRING
    BY <1>12, <2>1, <1>p, ReaderType DEF TakeRun, RunCommands
  <2>3. sent \in [1..N -> Nat] /\ Unmatch
    BY <1>12 DEF TakeRun, StateTypes
  <2>4. /\ cursor' \in [1..N -> Nat \cup {Unmatched}]
        /\ \A k \in 1..N : cursor'[k] <= sent[k]
    BY <2>3, UnmatchTypes
  <2>5. cmdTaken' \in 0..Len(cmdHist)
    BY <1>12, LenProperties DEF TakeRun, Take, StateTypes
  <2> QED
    BY <1>12, <2>2, <2>3, <2>4, <2>5 DEF TakeRun, Take, StateTypes, orchVars
<1>13. CASE SendReady
  <2>1. cmdHist[cmdTaken].name \in STRING
    <3>1. cmdHist[cmdTaken] \in Commands
      BY <1>13, LenProperties, ElementOfSeq DEF SendReady, StateTypes
    <3>2. cmdHist[cmdTaken] \in RunCommands
      BY <1>13, <3>1, CommandKinds DEF SendReady
    <3> QED
      BY <3>2 DEF RunCommands
  <2>2. ReadyAck(cmdHist[cmdTaken].name) \in Acks
    BY <2>1 DEF ReadyAck, Acks
  <2>3. ackHist' \in Seq(Acks) /\ Len(ackHist') = Len(ackHist) + 1
    BY <1>13, <2>2, AppendProperties DEF SendReady, Reply, StateTypes
  <2> QED
    BY <1>13, <2>3, LenProperties DEF SendReady, StateTypes, orchVars
<1>14. CASE TakeStop
  <2>1. NextCmd.name \in STRING
    BY <1>11, <1>14, CommandKinds DEF TakeStop, Take
  <2>2. ResAck(NextCmd.name, received) \in Acks
    BY <2>1 DEF ResAck, Acks, StateTypes
  <2>3. ackHist' \in Seq(Acks) /\ Len(ackHist') = Len(ackHist) + 1
    BY <1>14, <2>2, AppendProperties DEF TakeStop, Reply, StateTypes
  <2>4. cmdTaken' \in 0..Len(cmdHist)
    BY <1>14, LenProperties DEF TakeStop, Take, StateTypes
  <2> QED
    BY <1>14, <2>3, <2>4, LenProperties DEF TakeStop, Take, StateTypes, orchVars
<1>15. CASE DropReader \/ TakeQuit
  <2>1. sent \in [1..N -> Nat] /\ Unmatch
    BY <1>15 DEF DropReader, TakeQuit, StateTypes
  <2>2. /\ cursor' \in [1..N -> Nat \cup {Unmatched}]
        /\ \A k \in 1..N : cursor'[k] <= sent[k]
    BY <2>1, UnmatchTypes
  <2>3. cmdTaken' \in 0..Len(cmdHist)
    BY <1>15, LenProperties DEF DropReader, TakeQuit, Take, StateTypes
  <2> QED
    BY <1>15, <2>1, <2>2, <2>3
       DEF DropReader, TakeQuit, Take, StateTypes, orchVars
<1> QED
  BY <1>12, <1>13, <1>14, <1>15 DEF Follower

\* Discovery and delivery keep the types.
LEMMA NetworkTypes ==
  ASSUME StateTypes, Network
  PROVE  StateTypes'
<1> USE ScenFacts
<1>17. ASSUME NEW k \in 1..N, Match(k)
       PROVE  StateTypes'
  <2> DEFINE skip == SkippedAtMatch(WriterOf(Scen[k]), reader.qos, sent[k])
  <2>1. skip \in 0..sent[k]
    BY ScenarioTypes, SkippedBounds DEF StateTypes
  <2>2. cursor' = [cursor EXCEPT ![k] = skip]
    BY <1>17 DEF Match
  <2> HIDE DEF skip
  <2>3. cursor' \in [1..N -> Nat \cup {Unmatched}]
        /\ \A j \in 1..N : cursor'[j] <= sent[j]
    BY <2>1, <2>2, CursorTypes
  <2> QED
    BY <1>17, <2>3 DEF Match, StateTypes, orchVars, followVars
<1>18. ASSUME NEW k \in 1..N, NEW i \in 1..sent[k], Deliver(k, i)
       PROVE  StateTypes'
  <2>0. i \in 0..sent[k] /\ cursor' = [cursor EXCEPT ![k] = i]
    BY <1>18 DEF Deliver
  <2>1. cursor' \in [1..N -> Nat \cup {Unmatched}]
        /\ \A j \in 1..N : cursor'[j] <= sent[j]
    BY <2>0, CursorTypes
  <2> QED
    BY <1>18, <2>1 DEF Deliver, StateTypes, orchVars
<1> QED
  BY <1>17, <1>18 DEF Network

\* Every step preserves TypeOK; the name in READY needs the command
\* script, the number of verdicts that of the results.
LEMMA TypeStep ==
  TypeOK /\ ScriptInv /\ FollowerInv /\ ResultInv /\ [Next]_vars => TypeOK'
<1> SUFFICES ASSUME StateTypes, spc \in {"poll", "ready", "drop", "done"},
                    ScriptInv, FollowerInv, ResultInv, [Next]_vars
             PROVE  StateTypes' /\ spc' \in {"poll", "ready", "drop", "done"}
  BY DEF TypeOK
<1> USE ScenFacts
<1>1. CASE Orchestrator
  <2>1. ppc = "report" => Len(results) = N
    BY DEF ResultInv, Closing
  <2>2. spc' = spc
    BY <1>1 DEF Orchestrator, Begin, SendRun, ReadyAcked, ReadyTimeout,
       AckIgnored, CreateWriter, WriteSample, WritesDone, SendStop, ResAcked,
       ResTimeout, Record, SendQuit, Report, followVars
  <2> QED
    BY <1>1, <2>1, <2>2, OrchestratorTypes
<1>2. CASE Follower
  <2>1. ASSUME spc = "ready"
        PROVE  cmdTaken > 0 /\ cmdHist[cmdTaken].kind = "RUN"
    <3>1. PICK k \in 1..N : cmdTaken = 2 * k - 1
      BY <2>1 DEF FollowerInv, ReaderFrom
    <3>2. 2 * k - 1 <= Len(cmdHist)
      BY <3>1, LenProperties DEF StateTypes
    <3>3. cmdHist[cmdTaken] = RunCmd(Scen[k])
      BY <3>1, <3>2 DEF ScriptInv, ScriptFrom
    <3> QED
      BY <3>1, <3>3 DEF RunCmd
  <2>2. spc' \in {"poll", "ready", "drop", "done"}
    BY <1>2 DEF Follower, TakeRun, SendReady, TakeStop, DropReader, TakeQuit
  <2> QED
    BY <1>2, <2>1, <2>2, FollowerTypes
<1>3. CASE FollowerRestart
  <2>1. PICK n \in ackTaken..Len(ackHist) : ackHist' = SubSeq(ackHist, 1, n)
    BY <1>3 DEF FollowerRestart
  <2>2. n \in Nat /\ n <= Len(ackHist) /\ ackTaken \in Nat /\ ackTaken <= n
    BY LenProperties DEF StateTypes
  <2>4. ackHist' \in Seq(Acks) /\ Len(ackHist') = n
    BY <2>1, <2>2, Beginning DEF StateTypes
  <2>5. sent \in [1..N -> Nat] /\ Unmatch
    BY <1>3 DEF FollowerRestart, StateTypes
  <2>6. /\ cursor' \in [1..N -> Nat \cup {Unmatched}]
        /\ \A k \in 1..N : cursor'[k] <= sent[k]
    BY <2>5, UnmatchTypes
  <2>7. Len(cmdHist) \in Nat /\ restarts' \in 0..MaxRestarts
    BY <1>3, LenProperties, AutoAssumption DEF FollowerRestart, StateTypes
  <2>8. ackTaken \in 0..Len(ackHist') /\ 0 \in 0..Len(cmdHist)
    BY <2>2, <2>4, <2>7
  <2> QED
    BY <1>3, <2>4, <2>6, <2>7, <2>8 DEF FollowerRestart, StateTypes, orchVars
<1>4. CASE Network
  <2>1. spc' = spc
    BY <1>4 DEF Network, Match, Deliver, followVars
  <2> QED
    BY <1>4, <2>1, NetworkTypes
<1>5. CASE UNCHANGED vars
  BY <1>5 DEF vars, orchVars, followVars, StateTypes
<1> QED
  BY <1>1, <1>2, <1>3, <1>4, <1>5 DEF Next, Terminated

-----------------------------------------------------------------------------
(* Whose variables a step changes *)

\* The orchestrator changes nothing but its own variables.
LEMMA OrchestratorKeeps ==
  Orchestrator => UNCHANGED followVars /\ UNCHANGED cursor
BY DEF Orchestrator, Begin, SendRun, ReadyAcked, ReadyTimeout, AckIgnored,
   CreateWriter, WriteSample, WritesDone, SendStop, ResAcked, ResTimeout, Record,
   SendQuit, Report

\* Nothing but the orchestrator changes its variables.
LEMMA OrchestratorOnly ==
  ASSUME [Next]_vars, ~Orchestrator
  PROVE  UNCHANGED orchVars
BY DEF Next, Follower, TakeRun, SendReady, TakeStop, DropReader, TakeQuit,
   FollowerRestart, Network, Match, Deliver, Terminated, vars

-----------------------------------------------------------------------------
(* The command script *)

\* Writing the next command of the script keeps the log a prefix of it.
LEMMA ScriptAppend ==
  ASSUME StateTypes, NEW b \in Nat, ScriptFrom(b), NEW c \in Commands,
         cmdHist' = Append(cmdHist, c),
         \A k \in 1..N : /\ Len(cmdHist) = b + 2 * k - 2 => c = RunCmd(Scen[k])
                         /\ Len(cmdHist) = b + 2 * k - 1 => c = StopCmd(Scen[k]),
         Len(cmdHist) = b + 2 * N => c = QuitCmd
  PROVE  ScriptFrom(b)' /\ Len(cmdHist') = Len(cmdHist) + 1
<1> USE ScenFacts
<1>1. /\ cmdHist \in Seq(Commands) /\ Len(cmdHist) \in Nat
      /\ Len(cmdHist') = Len(cmdHist) + 1
      /\ \A i \in 1..Len(cmdHist) : cmdHist'[i] = cmdHist[i]
      /\ cmdHist'[Len(cmdHist) + 1] = c
  BY LenProperties, AppendProperties DEF StateTypes
<1>2. ASSUME NEW k \in 1..N, b + 2 * k - 1 <= Len(cmdHist')
      PROVE  cmdHist'[b + 2 * k - 1] = RunCmd(Scen[k])
  <2>1. CASE b + 2 * k - 1 <= Len(cmdHist)
    BY <1>1, <2>1 DEF ScriptFrom
  <2>2. CASE b + 2 * k - 1 = Len(cmdHist) + 1
    BY <1>1, <2>2
  <2>3. b + 2 * k - 1 <= Len(cmdHist) \/ b + 2 * k - 1 = Len(cmdHist) + 1
    BY <1>1, <1>2
  <2> QED
    BY <2>1, <2>2, <2>3
<1>3. ASSUME NEW k \in 1..N, b + 2 * k <= Len(cmdHist')
      PROVE  cmdHist'[b + 2 * k] = StopCmd(Scen[k])
  <2>1. CASE b + 2 * k <= Len(cmdHist)
    BY <1>1, <2>1 DEF ScriptFrom
  <2>2. CASE b + 2 * k = Len(cmdHist) + 1
    BY <1>1, <2>2
  <2> QED
    BY <1>1, <1>3, <2>1, <2>2
<1>4. ASSUME b + 2 * N + 1 <= Len(cmdHist')
      PROVE  cmdHist'[b + 2 * N + 1] = QuitCmd
  <2>1. CASE b + 2 * N + 1 <= Len(cmdHist)
    BY <1>1, <2>1 DEF ScriptFrom
  <2>2. CASE b + 2 * N = Len(cmdHist)
    BY <1>1, <2>2
  <2> QED
    BY <1>1, <1>4, <2>1, <2>2
<1> QED
  BY <1>1, <1>2, <1>3, <1>4 DEF ScriptFrom

\* The log stays a prefix of the script, and as long as the orchestrator's
\* place in the loop says.
LEMMA ScriptMoves ==
  ASSUME StateTypes, NEW b \in Nat, ScriptFrom(b), LengthFrom(b),
         Orchestrator \/ UNCHANGED <<ppc, cur, cmdHist>>
  PROVE  ScriptFrom(b)' /\ LengthFrom(b)'
<1> USE ScenFacts
<1>t. cur \in 1..N /\ Len(cmdHist) \in Nat
  BY LenProperties DEF StateTypes
<1>1. CASE SendRun
  <2>1. RunCmd(Scen[cur]) \in Commands /\ Len(cmdHist) = b + 2 * cur - 2
    BY <1>1, <1>t, ScenarioTypes
       DEF SendRun, LengthFrom, RunSent, StopSent, Closing
  <2>2. cmdHist' = Append(cmdHist, RunCmd(Scen[cur]))
    BY <1>1 DEF SendRun, Send, scenario
  <2>3. ScriptFrom(b)' /\ Len(cmdHist') = b + 2 * cur - 1
    BY <1>t, <2>1, <2>2, ScriptAppend
  <2> QED
    BY <1>1, <1>t, <2>3
       DEF SendRun, LengthFrom, RunSent, StopSent, Closing
<1>2. CASE SendStop
  <2>1. StopCmd(Scen[cur]) \in Commands /\ Len(cmdHist) = b + 2 * cur - 1
    BY <1>2, <1>t, ScenarioTypes
       DEF SendStop, LengthFrom, RunSent, StopSent, Closing
  <2>2. cmdHist' = Append(cmdHist, StopCmd(Scen[cur]))
    BY <1>2 DEF SendStop, Send, scenario
  <2>3. ScriptFrom(b)' /\ Len(cmdHist') = b + 2 * cur
    BY <1>t, <2>1, <2>2, ScriptAppend
  <2> QED
    BY <1>2, <1>t, <2>3
       DEF SendStop, LengthFrom, RunSent, StopSent, Closing
<1>3. CASE SendQuit
  <2>1. QuitCmd \in Commands /\ Len(cmdHist) = b + 2 * N
    BY <1>3 DEF SendQuit, LengthFrom, Commands
  <2>2. cmdHist' = Append(cmdHist, QuitCmd)
    BY <1>3 DEF SendQuit, Send
  <2>3. ScriptFrom(b)' /\ Len(cmdHist') = b + 2 * N + 1
    BY <1>t, <2>1, <2>2, ScriptAppend
  <2> QED
    BY <1>3, <1>t, <2>3
       DEF SendQuit, LengthFrom, RunSent, StopSent, Closing
<1>4. CASE Report
  <2>1. PICK n \in cmdTaken..Len(cmdHist) : cmdHist' = SubSeq(cmdHist, 1, n)
    BY <1>4 DEF Report
  <2>2. n \in Nat /\ n <= Len(cmdHist)
    BY <1>t DEF StateTypes
  <2>3. \A i \in 1..n : cmdHist[i] \in Commands
    BY <1>t, <2>2, ElementOfSeq DEF StateTypes
  <2>4. Len(cmdHist') = n /\ \A i \in 1..n : cmdHist'[i] = cmdHist[i]
    BY <2>1, <2>2, <2>3, SubSeqProperties
  <2>5. ScriptFrom(b)'
    <3>1. ASSUME NEW k \in 1..N
          PROVE  /\ b + 2 * k - 1 <= n => cmdHist'[b + 2 * k - 1] = RunCmd(Scen[k])
                 /\ b + 2 * k <= n => cmdHist'[b + 2 * k] = StopCmd(Scen[k])
      <4>1. b + 2 * k - 1 \in 1..n => cmdHist'[b + 2 * k - 1] = RunCmd(Scen[k])
        BY <1>t, <2>2, <2>4 DEF ScriptFrom
      <4>2. b + 2 * k \in 1..n => cmdHist'[b + 2 * k] = StopCmd(Scen[k])
        BY <1>t, <2>2, <2>4 DEF ScriptFrom
      <4> QED
        BY <2>2, <4>1, <4>2
    <3>2. b + 2 * N + 1 <= n => cmdHist'[b + 2 * N + 1] = QuitCmd
      BY <1>t, <2>2, <2>4 DEF ScriptFrom
    <3> QED
      BY <2>4, <3>1, <3>2 DEF ScriptFrom
  <2> QED
    BY <1>4, <1>t, <2>2, <2>4, <2>5
       DEF Report, LengthFrom, RunSent, StopSent, Closing
<1>5. CASE Record
  <2>1. cmdHist' = cmdHist /\ Len(cmdHist) = b + 2 * cur
    BY <1>5 DEF Record, LengthFrom, StopSent
  <2>2. \/ ppc' = "begin" /\ cur' = cur + 1
        \/ ppc' = "quit" /\ cur' = cur /\ cur = N
    BY <1>5, <1>t DEF Record
  <2>3. ScriptFrom(b)'
    BY <2>1 DEF ScriptFrom
  <2>4. Len(cmdHist') = b + 2 * cur /\ b + 2 * cur <= b + 2 * N
    BY <1>t, <2>1
  <2>5. CASE ppc' = "begin" /\ cur' = cur + 1
    <3>1. ~RunSent' /\ ~StopSent' /\ ~Closing'
      BY <2>5 DEF RunSent, StopSent, Closing
    <3>2. ppc' # "quit" /\ ppc' # "report" /\ b + 2 * cur' - 2 = b + 2 * cur
      BY <1>t, <2>5
    <3> QED
      BY <1>t, <2>3, <2>4, <3>1, <3>2 DEF LengthFrom
  <2>6. CASE ppc' = "quit" /\ cur' = cur /\ cur = N
    <3>1. ~RunSent' /\ ~StopSent' /\ Closing'
      BY <2>6 DEF RunSent, StopSent, Closing
    <3> QED
      BY <1>t, <2>3, <2>4, <2>6, <3>1 DEF LengthFrom
  <2> QED
    BY <2>2, <2>5, <2>6
<1>6. ASSUME UNCHANGED cmdHist
      PROVE  ScriptFrom(b)'
  BY <1>6 DEF ScriptFrom
<1>7. CASE Begin
  BY <1>6, <1>7
     DEF Begin, LengthFrom, RunSent, StopSent, Closing, scenario
<1>8. CASE ReadyAcked \/ ReadyTimeout
  BY <1>6, <1>8 DEF ReadyAcked, ReadyTimeout, AfterReady, LengthFrom,
                    RunSent, StopSent, Closing, scenario
<1>9. CASE CreateWriter \/ WritesDone
  BY <1>6, <1>9 DEF CreateWriter, WritesDone, LengthFrom,
                    RunSent, StopSent, Closing, scenario
<1>10. CASE ResAcked \/ ResTimeout
  BY <1>6, <1>10 DEF ResAcked, ResTimeout, LengthFrom,
                     RunSent, StopSent, Closing, scenario
<1>11. CASE UNCHANGED <<ppc, cur, cmdHist>>
  BY <1>6, <1>11 DEF LengthFrom, RunSent, StopSent, Closing, scenario
<1>12. ASSUME AckIgnored \/ WriteSample
       PROVE  UNCHANGED <<ppc, cur, cmdHist>>
  BY <1>12 DEF AckIgnored, WriteSample
<1> QED
  BY <1>1, <1>2, <1>3, <1>4, <1>5, <1>7, <1>8, <1>9, <1>10, <1>11, <1>12
     DEF Orchestrator

\* The single run's script has no commands before it.
LEMMA ScriptStep ==
  StateTypes /\ ScriptInv /\ [Next]_vars => ScriptInv'
<1> SUFFICES ASSUME StateTypes, ScriptInv, [Next]_vars
             PROVE  ScriptInv'
  OBVIOUS
<1>1. Orchestrator \/ UNCHANGED <<ppc, cur, cmdHist>>
  BY OrchestratorOnly DEF orchVars
<1> QED
  BY <1>1, ScriptMoves DEF ScriptInv

-----------------------------------------------------------------------------
(* The follower *)

\* What the follower takes next: a RUN when it has no reader, the STOP of the
\* scenario whose reader it has, or QUIT when it has none.
LEMMA NextCommand ==
  ASSUME StateTypes, NEW b \in Nat, ScriptFrom(b), LengthFrom(b), ReaderFrom(b),
         spc = "poll", cmdTaken < Len(cmdHist)
  PROVE  \/ /\ reader = NoReader
            /\ \E k \in 1..N : /\ cmdTaken = b + 2 * k - 2
                               /\ NextCmd = RunCmd(Scen[k])
         \/ \E k \in 1..N : /\ cmdTaken = b + 2 * k - 1
                            /\ NextCmd = StopCmd(Scen[k]) /\ ReaderFor(k)
         \/ /\ reader = NoReader
            /\ cmdTaken = b + 2 * N /\ NextCmd = QuitCmd
<1> USE ScenFacts
<1>1. Len(cmdHist) \in Nat /\ cmdTaken \in Nat /\ Len(cmdHist) <= b + 2 * N + 1
  BY LenProperties DEF StateTypes, LengthFrom
<1>2. ASSUME NEW k \in 0..N, cmdTaken = b + 2 * k, reader = NoReader
      PROVE  \/ \E j \in 1..N : /\ cmdTaken = b + 2 * j - 2
                                /\ NextCmd = RunCmd(Scen[j])
             \/ cmdTaken = b + 2 * N /\ NextCmd = QuitCmd
  <2>1. CASE k < N
    <3>1. k + 1 \in 1..N /\ b + 2 * (k + 1) - 1 = cmdTaken + 1
      BY <1>2, <2>1
    <3>2. cmdHist[b + 2 * (k + 1) - 1] = RunCmd(Scen[k + 1])
      BY <1>1, <3>1 DEF ScriptFrom
    <3>3. cmdTaken = b + 2 * (k + 1) - 2 /\ NextCmd = RunCmd(Scen[k + 1])
      BY <1>1, <3>1, <3>2 DEF NextCmd
    <3> QED
      BY <3>1, <3>3
  <2>2. CASE k = N
    BY <1>1, <1>2, <2>2 DEF ScriptFrom, NextCmd
  <2> QED
    BY <2>1, <2>2
<1>3. ASSUME NEW k \in 1..N, cmdTaken = b + 2 * k - 1
      PROVE  NextCmd = StopCmd(Scen[k])
  <2>1. b + 2 * k <= Len(cmdHist) /\ cmdTaken + 1 = b + 2 * k
    BY <1>1, <1>3
  <2> QED
    BY <2>1 DEF ScriptFrom, NextCmd
<1> QED
  BY <1>2, <1>3 DEF ReaderFrom

\* The command taken decides which of the three cases it was.
LEMMA TakenCommand ==
  ASSUME StateTypes, NEW b \in Nat, ScriptFrom(b), LengthFrom(b), ReaderFrom(b)
  PROVE  /\ Take("RUN") =>
              /\ reader = NoReader
              /\ \E k \in 1..N : /\ cmdTaken' = b + 2 * k - 1
                                 /\ NextCmd = RunCmd(Scen[k])
         /\ Take("STOP") =>
              \E k \in 1..N : /\ cmdTaken' = b + 2 * k
                              /\ NextCmd = StopCmd(Scen[k]) /\ ReaderFor(k)
         /\ Take("QUIT") => reader = NoReader /\ cmdTaken' = b + 2 * N + 1
<1> USE ScenFacts
<1>1. \A k \in 1..N : /\ RunCmd(Scen[k]).kind = "RUN"
                      /\ StopCmd(Scen[k]).kind = "STOP"
  BY DEF RunCmd, StopCmd
<1>2. QuitCmd.kind = "QUIT"
  BY DEF QuitCmd
<1>3. ASSUME NEW kind, Take(kind)
      PROVE  /\ spc = "poll" /\ cmdTaken < Len(cmdHist)
             /\ NextCmd.kind = kind /\ cmdTaken' = cmdTaken + 1
  BY <1>3 DEF Take
<1>4. ASSUME Take("RUN")
      PROVE  /\ reader = NoReader
             /\ \E k \in 1..N : /\ cmdTaken' = b + 2 * k - 1
                                /\ NextCmd = RunCmd(Scen[k])
  <2>1. /\ NextCmd.kind = "RUN" /\ cmdTaken' = cmdTaken + 1
    BY <1>3, <1>4
  <2>2. /\ reader = NoReader
        /\ \E k \in 1..N : /\ cmdTaken = b + 2 * k - 2
                           /\ NextCmd = RunCmd(Scen[k])
    BY <1>1, <1>2, <1>3, <1>4, <2>1, NextCommand
  <2> QED
    BY <2>1, <2>2
<1>5. ASSUME Take("STOP")
      PROVE  \E k \in 1..N : /\ cmdTaken' = b + 2 * k
                             /\ NextCmd = StopCmd(Scen[k]) /\ ReaderFor(k)
  <2>1. /\ NextCmd.kind = "STOP" /\ cmdTaken' = cmdTaken + 1
    BY <1>3, <1>5
  <2>2. \E k \in 1..N : /\ cmdTaken = b + 2 * k - 1
                        /\ NextCmd = StopCmd(Scen[k]) /\ ReaderFor(k)
    BY <1>1, <1>2, <1>3, <1>5, <2>1, NextCommand
  <2> QED
    BY <2>1, <2>2
<1>6. ASSUME Take("QUIT")
      PROVE  reader = NoReader /\ cmdTaken' = b + 2 * N + 1
  <2>1. /\ NextCmd.kind = "QUIT" /\ cmdTaken' = cmdTaken + 1
    BY <1>3, <1>6
  <2>2. reader = NoReader /\ cmdTaken = b + 2 * N
    BY <1>1, <1>2, <1>3, <1>6, <2>1, NextCommand
  <2> QED
    BY <2>1, <2>2
<1> QED
  BY <1>4, <1>5, <1>6

\* The follower alternates: a reader exists exactly between RUN and STOP.
LEMMA FollowerMoves ==
  ASSUME StateTypes, NEW b \in Nat, ScriptFrom(b), LengthFrom(b), ReaderFrom(b),
         Follower
  PROVE  ReaderFrom(b)'
<1> USE ScenFacts
<1>0. \A k \in 1..N : ReaderOf(RunCmd(Scen[k])) # NoReader
  BY ScenarioTypes, ReaderType
<1>1. CASE TakeRun
  <2>1. PICK k \in 1..N : cmdTaken' = b + 2 * k - 1 /\ NextCmd = RunCmd(Scen[k])
    BY <1>1, TakenCommand DEF TakeRun
  <2>2. ReaderFor(k)'
    BY <1>1, <2>1 DEF TakeRun, ReaderFor, RunCmd
  <2>3. spc' = "ready"
    BY <1>1 DEF TakeRun
  <2> QED
    BY <2>1, <2>2, <2>3 DEF ReaderFrom
<1>2. CASE SendReady
  <2>1. PICK k \in 1..N : cmdTaken = b + 2 * k - 1 /\ ReaderFor(k)
    BY <1>2 DEF SendReady, ReaderFrom
  <2>2. spc' = "poll" /\ cmdTaken' = cmdTaken /\ ReaderFor(k)'
    BY <1>2, <2>1 DEF SendReady, ReaderFor
  <2> QED
    BY <2>1, <2>2 DEF ReaderFrom
<1>3. CASE TakeStop
  <2>1. PICK k \in 1..N : cmdTaken' = b + 2 * k /\ ReaderFor(k)
    BY <1>3, TakenCommand DEF TakeStop
  <2>2. spc' = "drop" /\ ReaderFor(k)'
    BY <1>3, <2>1 DEF TakeStop, ReaderFor
  <2> QED
    BY <2>1, <2>2 DEF ReaderFrom
<1>4. CASE DropReader
  <2>1. PICK k \in 1..N : cmdTaken = b + 2 * k
    BY <1>4 DEF DropReader, ReaderFrom
  <2>2. spc' = "poll" /\ reader' = NoReader /\ cmdTaken' = cmdTaken
    BY <1>4 DEF DropReader
  <2> QED
    BY <2>1, <2>2 DEF ReaderFrom
<1>5. CASE TakeQuit
  BY <1>5, TakenCommand DEF TakeQuit, ReaderFrom
<1> QED
  BY <1>1, <1>2, <1>3, <1>4, <1>5 DEF Follower

\* A follower that starts again takes the script from its beginning.
LEMMA FollowerInvStep ==
  StateTypes /\ ScriptInv /\ FollowerInv /\ [Next]_vars => FollowerInv'
<1> SUFFICES ASSUME StateTypes, ScriptInv, FollowerInv, [Next]_vars
             PROVE  FollowerInv'
  OBVIOUS
<1> USE ScenFacts
<1>1. CASE Follower
  BY <1>1, FollowerMoves DEF ScriptInv, FollowerInv
<1>2. CASE FollowerRestart
  <2>1. spc' = "poll" /\ reader' = NoReader /\ cmdTaken' = 0 + 2 * 0 /\ 0 \in 0..N
    BY <1>2 DEF FollowerRestart
  <2> QED
    BY <2>1 DEF FollowerInv, ReaderFrom
<1>3. ASSUME UNCHANGED <<spc, reader, subPart, cmdTaken>>
      PROVE  FollowerInv'
  BY <1>3 DEF FollowerInv, ReaderFrom, ReaderFor
<1>4. ASSUME Orchestrator \/ Network \/ UNCHANGED vars
      PROVE  UNCHANGED <<spc, reader, subPart, cmdTaken>>
  BY <1>4, OrchestratorKeeps DEF Network, Match, Deliver, vars, followVars
<1> QED
  BY <1>1, <1>2, <1>3, <1>4 DEF Next, Terminated

-----------------------------------------------------------------------------
(* The writer *)

\* The partition and the samples are those of the scenario at hand.
LEMMA WriterStep ==
  ASSUME StateTypes, WriterInv,
         Orchestrator \/ UNCHANGED <<ppc, cur, writer, sent, pubPart>>
  PROVE  WriterInv'
<1> USE DEF WriterInv, scenario
<1>1. CASE Begin
  BY <1>1 DEF Begin
<1>2. CASE SendRun \/ SendStop \/ SendQuit
  BY <1>2 DEF SendRun, SendStop, SendQuit
<1>3. CASE ReadyAcked \/ ReadyTimeout
  BY <1>3 DEF ReadyAcked, ReadyTimeout, AfterReady
<1>4. CASE CreateWriter
  BY <1>4 DEF CreateWriter
<1>5. CASE WriteSample
  BY <1>5 DEF WriteSample
<1>6. CASE WritesDone
  BY <1>6 DEF WritesDone
<1>7. CASE ResAcked \/ ResTimeout
  BY <1>7 DEF ResAcked, ResTimeout
<1>8. CASE Record
  BY <1>8 DEF Record
<1>9. CASE Report
  BY <1>9 DEF Report
<1>10. CASE UNCHANGED <<ppc, cur, writer, sent, pubPart>>
  BY <1>10
<1>11. ASSUME AckIgnored
       PROVE  UNCHANGED <<ppc, cur, writer, sent, pubPart>>
  BY <1>11 DEF AckIgnored
<1> QED
  BY <1>1, <1>2, <1>3, <1>4, <1>5, <1>6, <1>7, <1>8, <1>9, <1>10, <1>11
     DEF Orchestrator

-----------------------------------------------------------------------------
(* The count of the reader at hand *)

\* What a scenario's own reader has missed, at most all of the samples.
LEMMA MissedBounds ==
  ASSUME NEW k \in 1..N
  PROVE  Missed(Scen[k]) \in 0..Scen[k].samples
<1>1. Scen[k].samples \in Nat /\ WriterOf(Scen[k]) \in Qos
  BY ScenFacts, ScenarioTypes DEF Scenario
<1> QED
  BY <1>1, SkippedBounds DEF Missed

\* One more sample past the last one counts for at least one more.
LEMMA PassingGrows ==
  ASSUME NEW lo \in Nat, NEW bound \in Nat, NEW c \in Nat, NEW i \in Nat,
         lo <= c, c < i, Passes(bound, i)
  PROVE  /\ Passing(lo, bound, c) \in Nat
         /\ Passing(lo, bound, c) + 1 <= Passing(lo, bound, i)
BY DEF Passing, Passes

\* Passing is a number of samples.
LEMMA PassingType ==
  ASSUME NEW lo \in Nat, NEW bound \in Nat, NEW c \in Nat
  PROVE  Passing(lo, bound, c) \in Nat
BY DEF Passing

\* It does not shrink as samples are written.
LEMMA PassingMonotonic ==
  ASSUME NEW lo \in Nat, NEW bound \in Nat, NEW c \in Nat, NEW i \in Nat,
         c <= i
  PROVE  Passing(lo, bound, c) <= Passing(lo, bound, i)
BY DEF Passing

\* The reader of scenario j exists only after RUN j was taken, which was sent
\* only when the loop reached j.
LEMMA ReaderIsNotAhead ==
  ASSUME StateTypes, NEW b \in Nat, LengthFrom(b), ReaderFrom(b), NEW j \in 1..N,
         reader = ReaderOf(RunCmd(Scen[j]))
  PROVE  /\ b + 2 * j - 1 <= cmdTaken
         /\ j <= cur
         /\ j = cur => RunSent \/ Closing
<1> USE ScenFacts
<1>1. PICK k \in 1..N : /\ reader = ReaderOf(RunCmd(Scen[k]))
                        /\ b + 2 * k - 1 <= cmdTaken
  <2>1. reader # NoReader
    BY ScenarioTypes, ReaderType
  <2> QED
    BY <2>1 DEF ReaderFrom, ReaderFor
<1>2. k = j
  <2>1. Scen[k].name = Scen[j].name
    BY <1>1 DEF ReaderOf, RunCmd
  <2> QED
    BY <2>1
<1>3. /\ Len(cmdHist) \in Nat /\ cmdTaken \in Nat
      /\ cmdTaken <= Len(cmdHist) /\ cur \in 1..N
  BY LenProperties DEF StateTypes
<1>4. \/ Closing /\ cur = N
      \/ RunSent /\ b + 2 * j - 1 <= b + 2 * cur
      \/ ~RunSent /\ b + 2 * j - 1 <= b + 2 * cur - 2
  BY <1>1, <1>2, <1>3 DEF LengthFrom, RunSent
<1> QED
  BY <1>1, <1>2, <1>3, <1>4

\* A match with the scenario's own writer starts the count where the history
\* does.
LEMMA CountAtMatch ==
  ASSUME StateTypes, WriterInv, CountInv,
         ReaderFor(cur) => RunSent \/ Closing,
         NEW k \in 1..N, Match(k)
  PROVE  CountInv'
<1> USE ScenFacts
<1>0. \A j \in 1..N : ReaderOf(RunCmd(Scen[j])) # NoReader
  BY ScenarioTypes, ReaderType
<1>1. /\ k = cur /\ writer = cur /\ reader # NoReader
      /\ cursor[k] = Unmatched
      /\ RxO(WriterOf(Scen[k]), reader.qos)
      /\ PartitionsMeet(pubPart, subPart)
      /\ UNCHANGED <<cur, reader, subPart, received>>
  BY DEF Match, CanMatch, StateTypes, orchVars, followVars
<1> DEFINE skip == SkippedAtMatch(WriterOf(Scen[k]), reader.qos, sent[k])
<1>2. cursor' = [cursor EXCEPT ![k] = skip]
  BY DEF Match
<1>3. skip \in 0..sent[k] /\ skip # Unmatched
  <2>1. WriterOf(Scen[k]) \in Qos /\ sent[k] \in Nat
    BY ScenarioTypes DEF StateTypes
  <2>2. skip \in 0..sent[k]
    BY <2>1, SkippedBounds
  <2> QED
    BY <2>1, <2>2 DEF Unmatched
<1>4. /\ cursor' \in [1..N -> Nat \cup {Unmatched}] /\ cursor'[k] = skip
      /\ \A j \in 1..N : j # k => cursor'[j] = cursor[j]
  BY <1>2, <1>3 DEF StateTypes
<1> HIDE DEF skip
<1>5. ASSUME ReaderFor(cur)
      PROVE  /\ Compatible(scenario)
             /\ skip >= Missed(scenario)
             /\ received <= Passing(Missed(scenario), scenario.filter, skip)
  <2>1. /\ reader = ReaderOf(RunCmd(scenario))
        /\ subPart = PartitionOf(scenario.subPart)
        /\ scenario = Scen[cur] /\ scenario \in Scenario
    BY <1>1, <1>5 DEF ReaderFor, scenario
  <2>2. pubPart = PartitionOf(scenario.pubPart)
    BY <1>1 DEF WriterInv, StateTypes
  <2>3. Compatible(scenario)
    BY <1>1, <2>1, <2>2 DEF Compatible
  <2>4. RunSent \/ Closing
    BY <1>5
  <2>5. skip >= Missed(scenario)
    <3>1. CASE scenario.late
      <4>1. sent[cur] = scenario.samples
        BY <2>4, <3>1 DEF WriterInv, RunSent, StopSent, Closing
      <4> QED
        BY <1>1, <1>3, <2>1, <3>1, <4>1 DEF Missed, skip, StateTypes
    <3>2. CASE ~scenario.late
      BY <1>3, <3>2 DEF Missed, StateTypes
    <3> QED
      BY <3>1, <3>2
  <2>6. received = 0
    BY <1>1, <1>5 DEF CountInv
  <2>7. Missed(scenario) \in Nat /\ scenario.filter \in Nat /\ skip \in Nat
    BY <1>1, <1>3, <2>1, MissedBounds DEF Scenario, StateTypes
  <2>8. Passing(Missed(scenario), scenario.filter, skip) \in Nat
    BY <2>7, PassingType
  <2> QED
    BY <2>3, <2>5, <2>6, <2>8
<1>6. ReaderFor(cur)' <=> ReaderFor(cur)
  BY <1>1 DEF ReaderFor
<1> QED
  BY <1>1, <1>3, <1>4, <1>5, <1>6 DEF CountInv, scenario

\* A delivery from the scenario's own writer is one more sample that passes;
\* a delivery to another reader leaves nothing to show.
LEMMA CountAtDelivery ==
  ASSUME StateTypes, CountInv, NEW k \in 1..N, NEW i \in 1..sent[k],
         Deliver(k, i)
  PROVE  CountInv'
<1> USE ScenFacts
<1>1. /\ reader # NoReader /\ cursor[k] # Unmatched /\ i \in Nat
      /\ cursor[k] + 1 <= i /\ Passes(reader.filter, i)
      /\ cursor' = [cursor EXCEPT ![k] = i] /\ received' = received + 1
      /\ UNCHANGED <<cur, reader, subPart>>
  BY DEF Deliver, Undelivered, StateTypes, orchVars
<1>2. /\ cursor' \in [1..N -> Nat \cup {Unmatched}] /\ cursor'[k] = i
      /\ \A j \in 1..N : j # k => cursor'[j] = cursor[j]
  BY <1>1 DEF StateTypes
<1>3. ReaderFor(cur)' <=> ReaderFor(cur)
  BY <1>1 DEF ReaderFor
<1>4. ASSUME ReaderFor(cur)
      PROVE  /\ k = cur /\ Compatible(scenario) /\ i >= Missed(scenario)
             /\ received + 1 <= Passing(Missed(scenario), scenario.filter, i)
  <2>1. k = cur
    BY <1>1, <1>4 DEF CountInv
  <2>2. /\ Compatible(scenario) /\ cursor[cur] >= Missed(scenario)
        /\ received <=
             Passing(Missed(scenario), scenario.filter, cursor[cur])
    BY <1>1, <1>4, <2>1 DEF CountInv
  <2>3. scenario = Scen[cur] /\ scenario \in Scenario /\ cur \in 1..N
    BY DEF scenario, StateTypes
  <2>4. /\ Missed(scenario) \in Nat /\ scenario.filter \in Nat
        /\ cursor[cur] \in Nat /\ received \in Nat
    BY <1>1, <2>1, <2>3, MissedBounds DEF Scenario, StateTypes
  <2>5. Passes(scenario.filter, i)
    BY <1>1, <1>4, <2>3 DEF ReaderFor, ReaderOf, RunCmd
  <2>6. Passing(Missed(scenario), scenario.filter, cursor[cur]) \in Nat
        /\ Passing(Missed(scenario), scenario.filter, cursor[cur]) + 1
             <= Passing(Missed(scenario), scenario.filter, i)
    BY <1>1, <2>1, <2>2, <2>4, <2>5, PassingGrows
  <2>7. Passing(Missed(scenario), scenario.filter, i) \in Nat
    BY <1>1, <2>4, PassingType
  <2> QED
    BY <1>1, <2>1, <2>2, <2>4, <2>6, <2>7
<1>5. i # Unmatched
  BY <1>1 DEF Unmatched
<1> QED
  BY <1>1, <1>2, <1>3, <1>4, <1>5 DEF CountInv, scenario

\* Nothing has been counted by a reader just made, or by none.
LEMMA CountFromZero ==
  ASSUME cur \in 1..N, Unmatch, cur' = cur, received' = 0 \/ reader' = NoReader
  PROVE  CountInv'
<1>1. \A k \in 1..N : cursor'[k] = Unmatched
  BY DEF Unmatch
<1>2. reader' = NoReader => ~ReaderFor(cur)'
  BY ScenarioTypes, ReaderType DEF ReaderFor
<1> QED
  BY <1>1, <1>2 DEF CountInv

\* The count of the scenario's own reader stays within its QoS.
LEMMA CountMoves ==
  ASSUME StateTypes, NEW b \in Nat, LengthFrom(b), ReaderFrom(b), WriterInv,
         CountInv, Orchestrator \/ Follower \/ Network
  PROVE  CountInv'
<1> USE ScenFacts
<1>t. cur \in 1..N
  BY DEF StateTypes
<1>1. CASE TakeRun \/ DropReader \/ TakeQuit
  BY <1>1, <1>t, CountFromZero DEF TakeRun, DropReader, TakeQuit, orchVars
<1>2. CASE Record
  <2>1. /\ UNCHANGED <<reader, subPart, received, cursor>>
        /\ (cur' = cur \/ cur' = cur + 1)
    BY <1>2 DEF Record, followVars
  <2>2. CASE cur' = cur
    BY <2>1, <2>2 DEF CountInv, ReaderFor, scenario
  <2>3. CASE cur' = cur + 1
    <3>1. cur + 1 \in 1..N
      BY <1>2, <1>t, <2>3 DEF Record
    <3>2. ~ReaderFor(cur + 1)
      <4>1. ReaderFor(cur + 1) => cur + 1 <= cur
        BY <3>1, ReaderIsNotAhead DEF ReaderFor
      <4> QED
        BY <1>t, <4>1
    <3>3. ~ReaderFor(cur)'
      BY <2>1, <2>3, <3>2 DEF ReaderFor
    <3> QED
      BY <2>1, <3>3 DEF CountInv
  <2> QED
    BY <2>1, <2>2, <2>3
<1>3. ASSUME UNCHANGED <<cur, reader, subPart, received, cursor>>
      PROVE  CountInv'
  BY <1>3 DEF CountInv, ReaderFor, scenario
<1>4. ASSUME \/ Begin \/ SendRun \/ ReadyAcked \/ ReadyTimeout \/ AckIgnored
             \/ CreateWriter \/ WriteSample \/ WritesDone \/ SendStop
             \/ ResAcked \/ ResTimeout \/ SendQuit \/ Report
             \/ SendReady \/ TakeStop
      PROVE  UNCHANGED <<cur, reader, subPart, received, cursor>>
  BY <1>4 DEF Begin, SendRun, ReadyAcked, ReadyTimeout, AckIgnored,
     CreateWriter, WriteSample, WritesDone, SendStop, ResAcked, ResTimeout,
     SendQuit, Report, SendReady, TakeStop, orchVars, followVars
<1>5. ASSUME Network
      PROVE  CountInv'
  <2>1. ReaderFor(cur) => RunSent \/ Closing
    BY <1>t, ReaderIsNotAhead DEF ReaderFor
  <2> QED
    BY <1>5, <2>1, CountAtMatch, CountAtDelivery DEF Network
<1> QED
  BY <1>1, <1>2, <1>3, <1>4, <1>5 DEF Orchestrator, Follower

\* A restart of the follower, too, begins the count anew.
LEMMA CountStep ==
  StateTypes /\ ScriptInv /\ FollowerInv /\ WriterInv /\ CountInv /\ [Next]_vars
    => CountInv'
<1> SUFFICES ASSUME StateTypes, ScriptInv, FollowerInv, WriterInv, CountInv,
                    [Next]_vars
             PROVE  CountInv'
  OBVIOUS
<1>1. CASE FollowerRestart
  BY <1>1, CountFromZero DEF FollowerRestart, orchVars, StateTypes
<1>2. CASE UNCHANGED vars
  BY <1>2 DEF CountInv, ReaderFor, scenario, vars, orchVars, followVars
<1>3. CASE Orchestrator \/ Follower \/ Network
  BY <1>3, CountMoves DEF ScriptInv, FollowerInv
<1> QED
  BY <1>1, <1>2, <1>3 DEF Next, Terminated

-----------------------------------------------------------------------------
(* The answers and the results *)

\* What a scenario's QoS allows is a number of samples.
LEMMA DeliverableType ==
  ASSUME NEW k \in 1..N
  PROVE  Deliverable(Scen[k]) \in Nat
<1>1. /\ Scen[k].samples \in Nat /\ Scen[k].filter \in Nat
      /\ Missed(Scen[k]) \in Nat
  BY ScenFacts, MissedBounds DEF Scenario
<1> QED
  BY <1>1, PassingType DEF Deliverable

\* At any moment the scenario's own reader has counted no more than its QoS
\* allows.
LEMMA CountWithinQos ==
  ASSUME StateTypes, CountInv, ReaderFor(cur)
  PROVE  received <= Deliverable(Scen[cur])
<1> USE ScenFacts
<1>1. /\ cur \in 1..N /\ scenario = Scen[cur] /\ received \in Nat
      /\ cursor[cur] \in Nat \cup {Unmatched} /\ sent[cur] \in Nat
      /\ cursor[cur] <= sent[cur] /\ sent[cur] <= Scen[cur].samples
  BY DEF StateTypes, scenario
<1>2. /\ Scen[cur].samples \in Nat /\ Scen[cur].filter \in Nat
      /\ Missed(Scen[cur]) \in Nat
  BY <1>1, MissedBounds DEF Scenario
<1>3. CASE cursor[cur] = Unmatched
  BY <1>1, <1>3, DeliverableType DEF CountInv
<1>4. CASE cursor[cur] # Unmatched
  <2>1. /\ Compatible(Scen[cur])
        /\ received <=
             Passing(Missed(Scen[cur]), Scen[cur].filter, cursor[cur])
    BY <1>1, <1>4 DEF CountInv
  <2>2. cursor[cur] \in Nat /\ cursor[cur] <= Scen[cur].samples
    BY <1>1, <1>2, <1>4
  <2>3. Passing(Missed(Scen[cur]), Scen[cur].filter, cursor[cur])
          <= Deliverable(Scen[cur])
    BY <1>2, <2>1, <2>2, PassingMonotonic DEF Deliverable
  <2>4. /\ Passing(Missed(Scen[cur]), Scen[cur].filter, cursor[cur]) \in Nat
        /\ Deliverable(Scen[cur]) \in Nat
    BY <1>1, <1>2, <2>2, PassingType, DeliverableType
  <2> QED
    BY <1>1, <2>1, <2>3, <2>4
<1> QED
  BY <1>3, <1>4

\* READY is for the scenario whose reader there is, and so is RES; a RES for the
\* scenario at hand follows its STOP.
LEMMA NewAnswer ==
  ASSUME StateTypes, NEW b \in Nat, ScriptFrom(b), LengthFrom(b), ReaderFrom(b),
         CountInv, SendReady \/ TakeStop
  PROVE  \E a \in Acks : ackHist' = Append(ackHist, a) /\ Fits(a)
<1> USE ScenFacts
<1>t. /\ cur \in 1..N /\ Len(cmdHist) \in Nat /\ cmdTaken \in Nat
      /\ cmdTaken <= Len(cmdHist)
  BY LenProperties DEF StateTypes
<1>1. CASE SendReady
  <2>1. PICK k \in 1..N : cmdTaken = b + 2 * k - 1 /\ ReaderFor(k)
    BY <1>1 DEF SendReady, ReaderFrom
  <2>2. k \in 1..cur
    BY <1>t, <2>1, ReaderIsNotAhead DEF ReaderFor
  <2>3. cmdHist[cmdTaken] = RunCmd(Scen[k])
    BY <1>t, <2>1 DEF ScriptFrom
  <2> DEFINE a == ReadyAck(cmdHist[cmdTaken].name)
  <2>4. a.name = Scen[k].name /\ a.kind = "READY" /\ a \in Acks
    BY <2>1, <2>3 DEF RunCmd, ReadyAck, Acks, Scenario
  <2>5. ackHist' = Append(ackHist, a)
    BY <1>1 DEF SendReady, Reply
  <2> HIDE DEF a
  <2> QED
    BY <2>2, <2>4, <2>5 DEF Fits
<1>2. CASE TakeStop
  <2>1. PICK k \in 1..N : /\ cmdTaken' = b + 2 * k /\ cmdTaken' = cmdTaken + 1
                          /\ NextCmd = StopCmd(Scen[k]) /\ ReaderFor(k)
    BY <1>2, TakenCommand DEF TakeStop, Take
  <2>2. k \in 1..cur
    BY <1>t, <2>1, ReaderIsNotAhead DEF ReaderFor
  <2> DEFINE a == ResAck(NextCmd.name, received)
  <2>3. a.name = Scen[k].name /\ a.count = received /\ a \in Acks
    BY <2>1 DEF StopCmd, ResAck, Acks, Scenario, StateTypes
  <2>4. ackHist' = Append(ackHist, a)
    BY <1>2 DEF TakeStop, Reply
  <2>5. b + 2 * k <= Len(cmdHist)
    BY <1>2, <1>t, <2>1 DEF TakeStop, Take
  <2> HIDE DEF a
  <2>6. k = cur => (StopSent \/ Closing) /\ a.count <= Deliverable(scenario)
    <3>1. k = cur => StopSent \/ Closing
      BY <1>t, <2>5 DEF LengthFrom
    <3>2. k = cur => received <= Deliverable(Scen[cur])
      BY <2>1, CountWithinQos
    <3> QED
      BY <2>3, <3>1, <3>2 DEF scenario
  <2> QED
    BY <2>2, <2>3, <2>4, <2>6 DEF Fits
<1> QED
  BY <1>1, <1>2

\* An answer that fits goes on fitting: the loop never goes back.
LEMMA FitsOn ==
  ASSUME StateTypes, NEW a, Fits(a), Orchestrator \/ UNCHANGED <<ppc, cur>>
  PROVE  Fits(a)'
<1> USE ScenFacts
<1>t. cur \in 1..N
  BY DEF StateTypes
<1>1. PICK k \in 1..cur :
        /\ a.name = Scen[k].name
        /\ k = cur /\ a.kind = "RES" =>
             (StopSent \/ Closing) /\ a.count <= Deliverable(scenario)
  BY DEF Fits
<1>2. ASSUME cur' = cur, StopSent \/ Closing => StopSent' \/ Closing'
      PROVE  Fits(a)'
  BY <1>1, <1>2 DEF Fits, scenario
<1>3. CASE Record
  <2>1. CASE cur' = cur + 1
    <3>1. k \in 1..cur' /\ k # cur'
      BY <1>t, <2>1
    <3> QED
      BY <1>1, <3>1 DEF Fits
  <2>2. CASE cur' = cur /\ ppc' = "quit"
    BY <1>2, <2>2 DEF Closing
  <2> QED
    BY <1>3, <2>1, <2>2 DEF Record
<1>4. ASSUME Orchestrator, ~Record
      PROVE  cur' = cur /\ (StopSent \/ Closing => StopSent' \/ Closing')
  BY <1>4 DEF Orchestrator, Begin, SendRun, ReadyAcked, ReadyTimeout,
     AckIgnored, CreateWriter, WriteSample, WritesDone, SendStop, ResAcked,
     ResTimeout, SendQuit, Report, StopSent, Closing
<1>5. CASE UNCHANGED <<ppc, cur>>
  BY <1>2, <1>5 DEF StopSent, Closing
<1> QED
  BY <1>2, <1>3, <1>4, <1>5

\* So an answer that is in the history after the step, and fitted before it,
\* fits after it.
LEMMA FitsAfter ==
  ASSUME StateTypes, Orchestrator \/ UNCHANGED <<ppc, cur>>, NEW i,
         Fits(ackHist'[i])
  PROVE  Fits(ackHist[i])'
<1>1. PICK a : a = ackHist'[i]
  OBVIOUS
<1>2. Fits(a)
  BY <1>1 DEF Fits
<1>3. Fits(a)'
  BY <1>2, FitsOn
<1> QED
  BY <1>1, <1>3 DEF Fits

\* Every answer fits.
LEMMA AckStep ==
  StateTypes /\ ScriptInv /\ FollowerInv /\ CountInv /\ AckInv /\ [Next]_vars
    => AckInv'
<1> SUFFICES ASSUME StateTypes, ScriptInv, FollowerInv, CountInv, AckInv,
                    [Next]_vars, NEW i \in 1..Len(ackHist')
             PROVE  Fits(ackHist'[i])
  BY FitsAfter, OrchestratorOnly DEF AckInv, orchVars
<1>t. /\ ackHist \in Seq(Acks) /\ Len(ackHist) \in Nat
      /\ ackTaken \in 0..Len(ackHist)
  BY LenProperties DEF StateTypes
<1>1. CASE SendReady \/ TakeStop
  <2>1. PICK a \in Acks : ackHist' = Append(ackHist, a) /\ Fits(a)
    BY <1>1, NewAnswer DEF ScriptInv, FollowerInv
  <2>2. /\ Len(ackHist') = Len(ackHist) + 1
        /\ \A j \in 1..Len(ackHist) : ackHist'[j] = ackHist[j]
        /\ ackHist'[Len(ackHist) + 1] = a
    BY <1>t, <2>1, AppendProperties
  <2>3. CASE i \in 1..Len(ackHist)
    BY <2>2, <2>3 DEF AckInv
  <2>4. CASE i = Len(ackHist) + 1
    BY <2>1, <2>2, <2>4
  <2> QED
    BY <1>t, <2>2, <2>3, <2>4
<1>2. CASE FollowerRestart
  <2>1. PICK n \in ackTaken..Len(ackHist) : ackHist' = SubSeq(ackHist, 1, n)
    BY <1>2 DEF FollowerRestart
  <2>2. n \in 0..Len(ackHist)
    BY <1>t
  <2>3. Len(ackHist') = n /\ \A j \in 1..n : ackHist'[j] = ackHist[j]
    BY <1>t, <2>1, <2>2, Beginning
  <2> QED
    BY <1>t, <2>2, <2>3 DEF AckInv
<1>3. ASSUME Orchestrator \/ TakeRun \/ DropReader \/ TakeQuit \/ Network
               \/ UNCHANGED vars
      PROVE  ackHist' = ackHist
  BY <1>3, OrchestratorKeeps DEF TakeRun, DropReader, TakeQuit, Network, Match,
     Deliver, vars, followVars
<1> QED
  BY <1>1, <1>2, <1>3 DEF Next, Follower, Terminated, AckInv

\* The count that waitAck lets through is the scenario's own.
LEMMA AcceptedCount ==
  ASSUME StateTypes, ResAcked, Fits(ackHist[ackTaken + 1])
  PROVE  count' \in Outcomes(scenario)
<1> USE ScenFacts
<1>1. /\ ackTaken + 1 \in 1..Len(ackHist) /\ ackHist[ackTaken + 1] \in Acks
      /\ cur \in 1..N
  BY LenProperties, ElementOfSeq DEF ResAcked, StateTypes
<1> DEFINE a == ackHist[ackTaken + 1]
<1>2. a.kind = "RES" /\ a.name = Scen[cur].name /\ count' = a.count
  BY DEF ResAcked, Answers, scenario
<1>3. a.count \in Nat
  BY <1>1, <1>2, AckKinds
<1>4. PICK k \in 1..cur :
        /\ a.name = Scen[k].name
        /\ k = cur /\ a.kind = "RES" => a.count <= Deliverable(scenario)
  BY DEF Fits
<1> HIDE DEF a
<1>5. k = cur
  <2>1. k \in 1..N /\ Scen[k].name = Scen[cur].name
    BY <1>1, <1>2, <1>4
  <2> QED
    BY <1>1, <2>1
<1>6. a.count <= Deliverable(scenario) /\ Deliverable(scenario) \in Nat
  BY <1>1, <1>2, <1>4, <1>5, DeliverableType DEF scenario
<1> QED
  BY <1>2, <1>3, <1>6 DEF Outcomes

\* Each result recorded is an outcome of its own scenario.
LEMMA ResultStep ==
  StateTypes /\ ScriptInv /\ AckInv /\ ResultInv /\ [Next]_vars => ResultInv'
<1> SUFFICES ASSUME StateTypes, ScriptInv, AckInv, ResultInv, [Next]_vars
             PROVE  ResultInv'
  OBVIOUS
<1> USE ScenFacts
<1>t. cur \in 1..N /\ results \in Seq(Nat \cup {NoCount})
  BY DEF StateTypes
<1>1. CASE Begin
  <2>1. /\ count' = NoCount /\ UNCHANGED <<cur, results>>
        /\ ~Closing /\ ~Closing'
    BY <1>1 DEF Begin, Closing
  <2> QED
    BY <2>1 DEF ResultInv, ResultsWithinQos, Outcomes, scenario
<1>2. CASE ResAcked
  <2>1. /\ count' \in Outcomes(scenario) /\ UNCHANGED <<cur, results>>
        /\ ~Closing /\ ~Closing'
    <3>1. ackTaken + 1 \in 1..Len(ackHist)
      BY <1>2, LenProperties DEF ResAcked, StateTypes
    <3> QED
      BY <1>2, <3>1, AcceptedCount DEF ResAcked, Closing, AckInv
  <2> QED
    BY <2>1 DEF ResultInv, ResultsWithinQos, scenario
<1>3. CASE Record
  <2>1. /\ results' = Append(results, count) /\ count \in Outcomes(Scen[cur])
        /\ count' = count /\ count \in Nat \cup {NoCount}
        /\ Len(results) = cur - 1
    BY <1>3 DEF Record, ResultInv, Closing, scenario, StateTypes
  <2>2. /\ Len(results') = cur
        /\ \A j \in 1..Len(results) : results'[j] = results[j]
        /\ results'[cur] = count
    BY <1>t, <2>1, AppendProperties
  <2>3. \A j \in 1..cur : results'[j] \in Outcomes(Scen[j])
    <3> TAKE j \in 1..cur
    <3>1. CASE j < cur
      BY <1>t, <2>1, <2>2, <3>1 DEF ResultInv, ResultsWithinQos
    <3>2. CASE j = cur
      BY <2>1, <2>2, <3>2
    <3> QED
      BY <1>t, <3>1, <3>2
  <2>4. \/ ppc' = "begin" /\ cur' = cur + 1
        \/ ppc' = "quit" /\ cur' = cur /\ cur = N
    BY <1>3, <1>t DEF Record
  <2> QED
    BY <1>t, <2>1, <2>2, <2>3, <2>4
       DEF ResultInv, ResultsWithinQos, Closing, scenario
<1>4. ASSUME UNCHANGED <<cur, count, results>>,
             ppc # "begin", Closing' <=> Closing
      PROVE  ResultInv'
  BY <1>4 DEF ResultInv, ResultsWithinQos, scenario
<1>5. ASSUME Orchestrator, ~Begin, ~ResAcked, ~Record
      PROVE  /\ UNCHANGED <<cur, count, results>>
             /\ ppc # "begin" /\ (Closing' <=> Closing)
  BY <1>5 DEF Orchestrator, SendRun, ReadyAcked, ReadyTimeout, AfterReady,
     AckIgnored, CreateWriter, WriteSample, WritesDone, SendStop, ResTimeout,
     SendQuit, Report, Closing
<1>6. CASE UNCHANGED <<ppc, cur, count, results>>
  BY <1>6 DEF ResultInv, ResultsWithinQos, Closing, scenario
<1>7. ASSUME Follower \/ FollowerRestart \/ Network \/ UNCHANGED vars
      PROVE  UNCHANGED <<ppc, cur, count, results>>
  BY <1>7 DEF Follower, TakeRun, SendReady, TakeStop, DropReader, TakeQuit,
     FollowerRestart, Network, Match, Deliver, vars, orchVars
<1> QED
  BY <1>1, <1>2, <1>3, <1>4, <1>5, <1>6, <1>7 DEF Next, Terminated

-----------------------------------------------------------------------------
(* The inductive invariant and its consequences *)

\* The inductive invariant holds initially.
LEMMA IInvInit == Init => IInv
<1> SUFFICES ASSUME Init PROVE IInv
  OBVIOUS
<1> USE ScenFacts
<1>1. TypeOK
  BY TypeInit
<1>2. Len(cmdHist) = 0 /\ Len(ackHist) = 0 /\ Len(results) = 0
  BY EmptySeq DEF Init
<1>3. ScriptInv
  BY <1>2 DEF Init, ScriptInv, ScriptFrom, LengthFrom, RunSent, StopSent,
              Closing
<1>4. FollowerInv
  <2>1. cmdTaken = 0 + 2 * 0 /\ 0 \in 0..N
    BY DEF Init
  <2> QED
    BY <2>1 DEF Init, FollowerInv, ReaderFrom
<1>5. WriterInv /\ AckInv /\ ResultInv
  BY <1>2 DEF Init, WriterInv, AckInv, ResultInv, ResultsWithinQos, Closing
<1>6. CountInv
  <2>1. ~ReaderFor(cur)
    BY ScenarioTypes, ReaderType DEF Init, ReaderFor
  <2> QED
    BY <2>1 DEF Init, CountInv
<1> QED
  BY <1>1, <1>3, <1>4, <1>5, <1>6 DEF IInv

\* Every step preserves it.
LEMMA IInvStep == IInv /\ [Next]_vars => IInv'
<1> SUFFICES ASSUME IInv, [Next]_vars
             PROVE  IInv'
  OBVIOUS
<1>1. Orchestrator \/ UNCHANGED <<ppc, cur, writer, sent, pubPart>>
  BY OrchestratorOnly DEF orchVars
<1> QED
  BY <1>1, TypeStep, ScriptStep, FollowerInvStep, WriterStep, CountStep, AckStep,
     ResultStep DEF IInv, TypeOK

\* The inductive invariant holds in every reachable state.
THEOREM Invariance == Spec => []IInv
BY IInvInit, IInvStep, PTL DEF Spec

\* Every variable keeps its type (AutoRunner!TypeOK).
THEOREM TypeCorrect == Spec => []TypeOK
<1>1. IInv => TypeOK
  BY DEF IInv
<1> QED
  BY Invariance, <1>1, PTL

\* Whatever is lost, late, repeated or mixed up between scenarios, a recorded
\* count is one its own scenario's QoS allows (auto_pub.cpp:121-135,200).
THEOREM ResultsSound == Spec => []ResultsWithinQos
<1>1. IInv => ResultsWithinQos
  BY DEF IInv, ResultInv
<1> QED
  BY Invariance, <1>1, PTL

\* RUN never finds a reader in place (auto_sub.cpp:136-146).
THEOREM NoLeak == Spec => NoReaderLeak
<1>1. IInv /\ [Next]_vars
        => [reader # NoReader /\ reader' # reader => reader' = NoReader]_vars
  <2> SUFFICES ASSUME IInv, Next, reader # NoReader, reader' # reader
               PROVE  reader' = NoReader
    OBVIOUS
  <2>1. StateTypes /\ ScriptFrom(0) /\ LengthFrom(0) /\ ReaderFrom(0)
    BY DEF IInv, ScriptInv, FollowerInv, TypeOK
  <2>2. ~TakeRun
    BY <2>1, TakenCommand DEF TakeRun
  <2>3. ASSUME Orchestrator \/ SendReady \/ TakeStop \/ Network \/ Terminated
        PROVE  reader' = reader
    BY <2>3 DEF Orchestrator, Begin, SendRun, ReadyAcked, ReadyTimeout,
       AckIgnored, CreateWriter, WriteSample, WritesDone, SendStop, ResAcked,
       ResTimeout, Record, SendQuit, Report, SendReady, TakeStop, Network,
       Match, Deliver, Terminated, vars, followVars
  <2>4. ASSUME DropReader \/ TakeQuit \/ FollowerRestart
        PROVE  reader' = NoReader
    BY <2>4 DEF DropReader, TakeQuit, FollowerRestart
  <2> QED
    BY <2>2, <2>3, <2>4 DEF Next, Follower
<1> QED
  BY Invariance, <1>1, PTL DEF Spec, NoReaderLeak

\* The follower quits last, after every result (auto_pub.cpp:204).
THEOREM QuitsLast == Spec => []QuitIsLast
<1>1. IInv => QuitIsLast
  <2> SUFFICES ASSUME IInv, spc = "done"
               PROVE  Len(results) = N /\ cmdTaken = 2 * N + 1
    BY DEF QuitIsLast
  <2>1. /\ cmdTaken = 2 * N + 1 /\ cmdTaken \in Nat /\ Len(cmdHist) \in Nat
        /\ cmdTaken <= Len(cmdHist) /\ cur \in 1..N
    BY LenProperties, ScenFacts
       DEF IInv, FollowerInv, ReaderFrom, TypeOK, StateTypes
  <2>2. Closing
    BY <2>1, ScenFacts DEF IInv, ScriptInv, LengthFrom, RunSent
  <2> QED
    BY <2>1, <2>2 DEF IInv, ResultInv
<1> QED
  BY Invariance, <1>1, PTL

\* The detailed test implements the abstract run: each Record records the next
\* result, Report ends the run, and every other step is a stutter.
THEOREM Refinement == Spec => ImplementsScenarioRun
<1> USE ScenFacts
<1>1. Init => Abstract!Init
  BY DEF Init, Abstract!Init
<1>2. IInv /\ [Next]_vars => [Abstract!Next]_(Abstract!vars)
  <2> SUFFICES ASSUME IInv, [Next]_vars
               PROVE  [Abstract!Next]_(Abstract!vars)
    OBVIOUS
  <2> USE DEF Abstract!Next, Abstract!vars
  <2>1. CASE Record
    <3>1. /\ results' = Append(results, count) /\ ppc # "done" /\ ppc' # "done"
          /\ count \in Outcomes(Scen[cur]) /\ Len(results) = cur - 1
          /\ cur \in 1..N
      BY <2>1 DEF Record, IInv, ResultInv, Closing, scenario, TypeOK, StateTypes
    <3>2. Len(results) < N /\ Len(results) + 1 = cur
      BY <3>1
    <3>3. Abstract!RecordResult
      BY <3>1, <3>2 DEF Abstract!RecordResult
    <3> QED
      BY <3>3
  <2>2. CASE Report
    <3>1. Abstract!Finish
      BY <2>2 DEF Report, Abstract!Finish, IInv, ResultInv, Closing
    <3> QED
      BY <3>1
  <2>3. ASSUME results' = results, (ppc = "done")' = (ppc = "done")
        PROVE  [Abstract!Next]_(Abstract!vars)
    BY <2>3
  <2>4. ASSUME Orchestrator, ~Record, ~Report
        PROVE  results' = results /\ (ppc = "done")' = (ppc = "done")
    BY <2>4 DEF Orchestrator, Begin, SendRun, ReadyAcked, ReadyTimeout,
       AfterReady, AckIgnored, CreateWriter, WriteSample, WritesDone,
       SendStop, ResAcked, ResTimeout, SendQuit
  <2>5. ASSUME Follower \/ FollowerRestart \/ Network \/ UNCHANGED vars
        PROVE  results' = results /\ (ppc = "done")' = (ppc = "done")
    BY <2>5 DEF Follower, TakeRun, SendReady, TakeStop, DropReader, TakeQuit,
       FollowerRestart, Network, Match, Deliver, vars, orchVars
  <2> QED
    BY <2>1, <2>2, <2>3, <2>4, <2>5 DEF Next, Terminated
<1> QED
  BY <1>1, <1>2, Invariance, PTL
     DEF Spec, ImplementsScenarioRun, Abstract!Spec

-----------------------------------------------------------------------------
(* The control histories *)

\* One more restart is one more round of answers.
LEMMA RoundsOfAnswers ==
  ASSUME NEW r \in Nat, NEW m \in Nat, r <= m
  PROVE  /\ 2 * N * r \in Nat
         /\ 2 * N * (r + 1) = 2 * N * r + 2 * N
         /\ 2 * N * r <= 2 * N * m
<1> DEFINE M == 2 * N
<1>1. M \in Nat
  BY ScenFacts
<1> HIDE DEF M
<1>2. M * r \in Nat /\ M * (r + 1) = M * r + M
  BY <1>1
<1>3. M * r <= M * m
  <2>1. m - r \in Nat /\ M * m = M * r + M * (m - r) /\ M * (m - r) >= 0
    BY <1>1
  <2>2. M * (m - r) \in Nat
    BY <1>1, <2>1
  <2> QED
    BY <1>2, <2>1, <2>2
<1> QED
  BY <1>2, <1>3 DEF M

\* A step adds at most one answer per command taken.
LEMMA AckCountStep ==
  IInv /\ AckCount /\ [Next]_vars => AckCount'
<1> SUFFICES ASSUME IInv, AckCount, [Next]_vars
             PROVE  AckCount'
  OBVIOUS
<1> USE ScenFacts
<1> DEFINE past(r) == 2 * N * r
<1>i. StateTypes /\ FollowerInv
  BY DEF IInv, TypeOK
<1>t. /\ StateTypes /\ FollowerInv
      /\ ackHist \in Seq(Acks) /\ Len(ackHist) \in Nat /\ cmdTaken \in Nat
      /\ restarts \in Nat
  BY <1>i, LenProperties, AutoAssumption DEF StateTypes
<1>p. past(restarts) \in Nat /\ past(restarts + 1) = past(restarts) + 2 * N
  BY <1>t, RoundsOfAnswers
<1>a. /\ AckCount  <=> Len(ackHist) <= past(restarts) + Answered
      /\ AckCount' <=> Len(ackHist)' <= past(restarts') + Answered'
  BY DEF AckCount
<1> HIDE DEF past
<1>1. CASE TakeRun
  BY <1>1, <1>t, <1>p, <1>a DEF TakeRun, Take, Answered
<1>2. CASE SendReady
  <2>1. Len(ackHist') = Len(ackHist) + 1
    BY <1>2, <1>t, AppendProperties DEF SendReady, Reply, ReadyAck
  <2> QED
    BY <1>2, <1>t, <1>p, <1>a, <2>1 DEF SendReady, Answered
<1>3. CASE TakeStop
  <2>1. Len(ackHist') = Len(ackHist) + 1
    BY <1>3, <1>t, AppendProperties DEF TakeStop, Reply, ResAck
  <2> QED
    BY <1>3, <1>t, <1>p, <1>a, <2>1 DEF TakeStop, Take, Answered
<1>4. CASE DropReader \/ TakeQuit
  BY <1>4, <1>t, <1>p, <1>a DEF DropReader, TakeQuit, Take, Answered
<1>5. CASE FollowerRestart
  <2>1. PICK n \in ackTaken..Len(ackHist) : ackHist' = SubSeq(ackHist, 1, n)
    BY <1>5 DEF FollowerRestart
  <2>2. n \in Nat /\ n <= Len(ackHist)
    BY <1>t, <2>1 DEF StateTypes
  <2>3. \A i \in 1..n : ackHist[i] \in Acks
    BY <1>t, <2>2, ElementOfSeq
  <2>4. Len(ackHist') = n
    BY <2>1, <2>2, <2>3, SubSeqProperties
  <2>5. spc # "done" /\ cmdTaken <= 2 * N
    BY <1>5, <1>t DEF FollowerRestart, FollowerInv, ReaderFrom
  <2> QED
    BY <1>5, <1>t, <1>p, <1>a, <2>2, <2>4, <2>5
       DEF FollowerRestart, Answered
<1>6. ASSUME UNCHANGED <<ackHist, restarts, spc, cmdTaken>>
      PROVE  AckCount'
  BY <1>6, <1>a DEF AckCount, Answered
<1>7. ASSUME Orchestrator \/ Network \/ UNCHANGED vars
      PROVE  UNCHANGED <<ackHist, restarts, spc, cmdTaken>>
  BY <1>7 DEF Orchestrator, Begin, SendRun, ReadyAcked, ReadyTimeout,
     AckIgnored, CreateWriter, WriteSample, WritesDone, SendStop, ResAcked,
     ResTimeout, Record, SendQuit, Report, Network, Match, Deliver, vars,
     followVars
<1> QED
  BY <1>1, <1>2, <1>3, <1>4, <1>5, <1>6, <1>7 DEF Next, Follower, Terminated

\* Whatever the scenario list, histories that hold every command and one
\* round of answers per life of the follower never overflow (with the
\* fourteen scenarios and depth = 100, auto_pub.cpp:103, that allows one
\* restart).
THEOREM ControlHistory ==
  ASSUME CtrlDepth >= 2 * N + 1 + 2 * N * (MaxRestarts + 1)
  PROVE  Spec => []ControlFits
<1>1. Init => AckCount
  <2>1. ASSUME Init PROVE Len(ackHist) = 0 /\ 2 * N * restarts = 0
                          /\ Answered = 0
    BY <2>1, EmptySeq, ScenFacts DEF Init, Answered
  <2> QED
    BY <2>1 DEF AckCount
<1>2. IInv /\ AckCount => ControlFits
  <2> SUFFICES ASSUME IInv, AckCount PROVE ControlFits
    OBVIOUS
  <2> DEFINE past(r) == 2 * N * r
  <2>1. /\ Len(cmdHist) \in Nat /\ Len(cmdHist) <= 2 * N + 1
        /\ Len(ackHist) \in Nat /\ cmdTaken \in Nat /\ ackTaken \in Nat
        /\ restarts \in 0..MaxRestarts /\ MaxRestarts \in Nat
    <3>1. StateTypes /\ LengthFrom(0)
      BY DEF IInv, ScriptInv, TypeOK
    <3> QED
      BY <3>1, ScenFacts, LenProperties, AutoAssumption DEF LengthFrom, StateTypes
  <2>2. Answered <= 2 * N /\ Answered \in Int
    BY <2>1, ScenFacts DEF IInv, FollowerInv, ReaderFrom, Answered
  <2>3. past(restarts) \in Nat /\ past(restarts) <= past(MaxRestarts)
        /\ past(MaxRestarts) \in Nat
        /\ past(MaxRestarts + 1) = past(MaxRestarts) + 2 * N
    <3>1. /\ restarts \in Nat /\ restarts <= MaxRestarts
          /\ MaxRestarts <= MaxRestarts
      BY <2>1
    <3>2. past(restarts) \in Nat /\ past(restarts) <= past(MaxRestarts)
      BY <2>1, <3>1, RoundsOfAnswers, Zenon
    <3>3. /\ past(MaxRestarts) \in Nat
          /\ past(MaxRestarts + 1) = past(MaxRestarts) + 2 * N
      BY <2>1, <3>1, RoundsOfAnswers, Zenon
    <3> QED
      BY <3>2, <3>3
  <2>4. /\ Len(ackHist) <= past(restarts) + Answered
        /\ CtrlDepth >= 2 * N + 1 + past(MaxRestarts + 1)
    BY DEF AckCount
  <2> HIDE DEF past
  <2> QED
    BY <2>1, <2>2, <2>3, <2>4, ScenFacts, AutoAssumption DEF ControlFits
<1> QED
  BY <1>1, <1>2, AckCountStep, Invariance, PTL DEF Spec

-----------------------------------------------------------------------------
(* When the waits are long enough and the follower is not restarted, the     *)
(* two processes run in step                                                *)

\* How long the command log is while the follower has something to do.
LEMMA LogLength ==
  ASSUME StateTypes, ScriptInv
  PROVE  /\ Len(cmdHist) \in Nat /\ cmdTaken \in Nat /\ cmdTaken <= Len(cmdHist)
         /\ ppc = "ready" => Len(cmdHist) = 2 * cur - 1
         /\ ppc = "res" => Len(cmdHist) = 2 * cur
         /\ ppc = "report" => Len(cmdHist) = 2 * N + 1
<1>1. Len(cmdHist) \in Nat /\ cmdTaken \in 0..Len(cmdHist) /\ cur \in 1..N
  BY LenProperties DEF StateTypes
<1>2. LengthFrom(0)
  BY DEF ScriptInv
<1> QED
  BY <1>1, <1>2, ScenFacts DEF LengthFrom, RunSent, StopSent, Closing

\* An answer that waitAck lets through was written for the command last sent.
LEMMA AnsweredInTime ==
  ASSUME StateTypes, ScriptInv, FollowerInv, AnswerInv, ReadyAcked \/ ResAcked
  PROVE  /\ cmdTaken = Len(cmdHist)
         /\ ReadyAcked => spc = "poll"
         /\ ResAcked => count' = Deliverable(scenario)
<1> USE ScenFacts
<1>1. ackTaken + 1 \in 1..Len(ackHist) /\ cur \in 1..N
  BY LenProperties DEF ReadyAcked, ResAcked, StateTypes
<1> DEFINE a == ackHist[ackTaken + 1]
<1>2. /\ a.name = Scen[cur].name
      /\ ReadyAcked => a.kind = "READY" /\ ppc = "ready"
      /\ ResAcked => a.kind = "RES" /\ ppc = "res" /\ count' = a.count
  BY DEF ReadyAcked, ResAcked, Answers, scenario
<1>3. Justified(a)
  BY <1>1 DEF AnswerInv
<1> HIDE DEF a
<1>4. PICK k \in 1..N :
        /\ a.name = Scen[k].name
        /\ a.kind = "READY" =>
             cmdTaken >= 2 * k - 1 /\ ~(spc = "ready" /\ cmdTaken = 2 * k - 1)
        /\ a.kind = "RES" => cmdTaken >= 2 * k /\ a.count = Deliverable(Scen[k])
  BY <1>3 DEF Justified
<1>5. k = cur
  <2>1. Scen[k].name = Scen[cur].name
    BY <1>2, <1>4
  <2> QED
    BY <1>1, <2>1
<1>6. CASE ReadyAcked
  <2>1. cmdTaken = 2 * cur - 1 /\ cmdTaken = Len(cmdHist) /\ spc # "ready"
    BY <1>1, <1>2, <1>4, <1>5, <1>6, LogLength
  <2>2. spc = "poll"
    BY <1>1, <2>1 DEF FollowerInv, ReaderFrom
  <2>3. ~ResAcked
    BY <1>6 DEF ReadyAcked, ResAcked
  <2> QED
    BY <2>1, <2>2, <2>3
<1>7. CASE ResAcked
  <2>1. cmdTaken = Len(cmdHist)
    BY <1>1, <1>2, <1>4, <1>5, <1>7, LogLength
  <2>2. count' = Deliverable(scenario)
    BY <1>2, <1>4, <1>5, <1>7 DEF scenario
  <2>3. ~ReadyAcked
    BY <1>7 DEF ReadyAcked, ResAcked
  <2> QED
    BY <2>1, <2>2, <2>3
<1> QED
  BY <1>6, <1>7

\* A command reaches a follower that has taken every other one.
LEMMA CommandsInStep ==
  ASSUME StateTypes, ScriptInv, InStepInv, NEW c \in Commands,
         ppc \in {"run", "stop", "quit"}, ppc' \in {"ready", "res", "report"},
         cmdHist' = Append(cmdHist, c), UNCHANGED cmdTaken
  PROVE  InStepInv'
<1>1. cmdTaken = Len(cmdHist) /\ Len(cmdHist) \in Nat
  BY LogLength DEF InStepInv
<1>2. Len(cmdHist') = Len(cmdHist) + 1
  BY AppendProperties DEF StateTypes
<1> QED
  BY <1>1, <1>2 DEF InStepInv

\* With no timeout and no restart, the two processes run in step.
LEMMA InStepStep ==
  ASSUME Timely, MaxRestarts = 0, StateTypes, ScriptInv, FollowerInv, InStepInv,
         AnswerInv, [Next]_vars
  PROVE  InStepInv'
<1> USE ScenFacts
<1>t. /\ Len(cmdHist) \in Nat /\ cmdTaken \in Nat /\ cmdTaken <= Len(cmdHist)
      /\ cur \in 1..N
  BY LogLength DEF StateTypes
<1>1. CASE SendRun \/ SendStop \/ SendQuit
  <2>1. PICK c \in Commands : cmdHist' = Append(cmdHist, c)
    BY <1>1, <1>t, ScenarioTypes DEF SendRun, SendStop, SendQuit, Send,
       scenario, Commands
  <2>2. /\ ppc \in {"run", "stop", "quit"} /\ ppc' \in {"ready", "res", "report"}
        /\ UNCHANGED cmdTaken
    BY <1>1 DEF SendRun, SendStop, SendQuit, followVars
  <2> QED
    BY <2>1, <2>2, CommandsInStep
<1>2. CASE ReadyAcked \/ ResAcked
  <2>1. /\ cmdTaken = Len(cmdHist) /\ (ReadyAcked => spc = "poll")
    BY <1>2, AnsweredInTime
  <2>2. /\ UNCHANGED <<cmdHist, cmdTaken, spc>>
        /\ \/ ReadyAcked /\ ppc' \in {"stop", "create"}
           \/ ppc' = "record"
    BY <1>2 DEF ReadyAcked, ResAcked, AfterReady, followVars
  <2> QED
    BY <1>t, <2>1, <2>2 DEF InStepInv
<1>3. CASE Begin \/ CreateWriter \/ WriteSample \/ WritesDone
  <2>1. UNCHANGED <<cmdHist, cmdTaken, spc, cur>>
    BY <1>3 DEF Begin, CreateWriter, WriteSample, WritesDone, followVars
  <2>2. \/ ppc = "begin" /\ ppc' = "create" /\ scenario.late
        \/ ppc \in {"begin", "write"} /\ ppc' = "run"
        \/ ppc = "create" /\ ppc' = "write"
        \/ ppc = "write" /\ ppc' = "write"
        \/ ppc = "write" /\ ppc' = "stop" /\ ~scenario.late
    BY <1>3 DEF Begin, CreateWriter, WriteSample, WritesDone
  <2> QED
    BY <1>t, <2>1, <2>2 DEF InStepInv, scenario
<1>4. CASE Record
  BY <1>4, <1>t DEF Record, InStepInv, followVars
<1>5. CASE Report
  <2>1. cmdHist' = SubSeq(cmdHist, 1, Len(cmdHist))
    BY <1>5 DEF Report
  <2>2. Len(cmdHist') = Len(cmdHist) /\ Len(cmdHist) = 2 * N + 1
    BY <1>5, <1>t, <2>1, Beginning, LogLength DEF Report, StateTypes
  <2> QED
    BY <1>5, <1>t, <2>2 DEF Report, InStepInv, followVars
<1>6. CASE Follower
  <2>1. UNCHANGED <<ppc, cur, cmdHist>>
    BY <1>6 DEF Follower, TakeRun, SendReady, TakeStop, DropReader, TakeQuit,
       orchVars
  <2>2. \/ cmdTaken' = cmdTaken + 1 /\ cmdTaken < Len(cmdHist)
        \/ cmdTaken' = cmdTaken /\ spc' = "poll"
    BY <1>6 DEF Follower, TakeRun, SendReady, TakeStop, DropReader, TakeQuit,
       Take
  <2> QED
    BY <1>t, <2>1, <2>2 DEF InStepInv, scenario
<1>7. ASSUME UNCHANGED <<ppc, cur, cmdHist, cmdTaken, spc>>
      PROVE  InStepInv'
  BY <1>7 DEF InStepInv, scenario
<1>8. ASSUME AckIgnored \/ Network \/ UNCHANGED vars
      PROVE  UNCHANGED <<ppc, cur, cmdHist, cmdTaken, spc>>
  BY <1>8 DEF AckIgnored, Network, Match, Deliver, vars, orchVars, followVars
<1>9. ~ReadyTimeout /\ ~ResTimeout /\ ~FollowerRestart
  BY DEF ReadyTimeout, ResTimeout, FollowerRestart, StateTypes
<1> QED
  BY <1>1, <1>2, <1>3, <1>4, <1>5, <1>6, <1>7, <1>8, <1>9
     DEF Next, Orchestrator, Terminated

\* The samples of a scenario are written by its own writer, before its STOP.
LEMMA WroteStep ==
  ASSUME Timely, StateTypes, WriterInv, WroteInv,
         Orchestrator \/ UNCHANGED <<ppc, cur, writer, sent>>
  PROVE  WroteInv'
<1> USE ScenFacts DEF WroteInv, Unwritten, Closing, scenario
<1>t. cur \in 1..N /\ sent \in [1..N -> Nat]
  BY DEF StateTypes
<1>1. CASE Begin \/ SendRun \/ SendStop \/ SendQuit
  BY <1>1, <1>t DEF Begin, SendRun, SendStop, SendQuit, WriterInv
<1>2. CASE ReadyAcked
  BY <1>2, <1>t DEF ReadyAcked, AfterReady, WriterInv
<1>3. CASE CreateWriter
  BY <1>3, <1>t DEF CreateWriter
<1>4. CASE WriteSample
  BY <1>4, <1>t DEF WriteSample
<1>5. CASE WritesDone
  BY <1>5, <1>t DEF WritesDone
<1>6. CASE Record
  BY <1>6, <1>t DEF Record
<1>7. CASE ResAcked \/ Report
  BY <1>7 DEF ResAcked, Report
<1>8. CASE UNCHANGED <<ppc, cur, writer, sent>>
  BY <1>8
<1>9. ASSUME AckIgnored
      PROVE  UNCHANGED <<ppc, cur, writer, sent>>
  BY <1>9 DEF AckIgnored
<1>10. ~ReadyTimeout /\ ~ResTimeout
  BY DEF ReadyTimeout, ResTimeout
<1> QED
  BY <1>1, <1>2, <1>3, <1>4, <1>5, <1>6, <1>7, <1>8, <1>9, <1>10
     DEF Orchestrator

-----------------------------------------------------------------------------
(* The count of the reader at hand *)

\* Where a reader starts there is nothing to count yet.
LEMMA PassingNone ==
  ASSUME NEW lo \in Nat, NEW bound \in Nat
  PROVE  Passing(lo, bound, lo) = 0
BY DEF Passing

\* The next sample that passes counts for one.
LEMMA PassingNext ==
  ASSUME NEW lo \in Nat, NEW bound \in Nat, NEW c \in Nat, NEW i \in Nat,
         lo <= c, c < i, Passes(bound, i),
         \A j \in c + 1..i - 1 : ~Passes(bound, j)
  PROVE  Passing(lo, bound, i) = Passing(lo, bound, c) + 1
<1>1. CASE i - 1 = c
  BY <1>1 DEF Passing, Passes
<1>2. CASE i - 1 # c
  <2>1. i - 1 \in c + 1..i - 1
    BY <1>2
  <2>2. ~(i - 1 > bound)
    BY <2>1 DEF Passes
  <2> QED
    BY <2>1, <2>2 DEF Passing, Passes
<1> QED
  BY <1>1, <1>2

\* Samples that do not pass count for nothing.
LEMMA PassingLast ==
  ASSUME NEW lo \in Nat, NEW bound \in Nat, NEW c \in Nat, NEW n \in Nat,
         lo <= c, c <= n, \A j \in c + 1..n : ~Passes(bound, j)
  PROVE  Passing(lo, bound, n) = Passing(lo, bound, c)
<1>1. CASE n = c
  BY <1>1
<1>2. CASE n # c
  <2>1. n \in c + 1..n
    BY <1>2
  <2>2. ~(n > bound)
    BY <2>1 DEF Passes
  <2> QED
    BY <2>1, <2>2 DEF Passing
<1> QED
  BY <1>1, <1>2

\* The reader of the scenario at hand meets its own writer with exactly the
\* samples missed that its QoS makes it miss.
LEMMA MissedAtMatch ==
  ASSUME StateTypes, WriterInv, ExactInv, ReaderFor(cur), RunSent \/ Closing,
         Match(cur)
  PROVE  cursor'[cur] = Missed(scenario)
<1> USE ScenFacts
<1>1. /\ writer = cur /\ cursor[cur] = Unmatched /\ cur \in 1..N
      /\ RxO(WriterOf(Scen[cur]), reader.qos)
      /\ PartitionsMeet(pubPart, subPart)
  BY DEF Match, CanMatch, StateTypes
<1>2. /\ reader = ReaderOf(RunCmd(scenario))
      /\ subPart = PartitionOf(scenario.subPart)
      /\ scenario = Scen[cur] /\ scenario \in Scenario
  BY <1>1 DEF ReaderFor, scenario
<1>3. Compatible(scenario)
  BY <1>1, <1>2 DEF Compatible, WriterInv
<1>4. cursor'[cur] = SkippedAtMatch(WriterOf(Scen[cur]), reader.qos, sent[cur])
  BY <1>1 DEF Match, StateTypes
<1>5. CASE scenario.late
  <2>1. sent[cur] = scenario.samples
    BY <1>1, <1>5 DEF WriterInv, RunSent, StopSent, Closing
  <2> QED
    BY <1>2, <1>4, <1>5, <2>1 DEF Missed
<1>6. CASE ~scenario.late
  <2>1. sent[cur] = 0
    BY <1>1, <1>3, <1>6 DEF ExactInv, StateTypes
  <2>2. cursor'[cur] = 0
    BY <1>1, <1>4, <2>1, ScenarioTypes, SkippedBounds
  <2> QED
    BY <1>6, <2>2 DEF Missed
<1> QED
  BY <1>5, <1>6

\* So the count begins exact.
LEMMA ExactAtMatch ==
  ASSUME StateTypes, WriterInv, CountInv, ExactInv,
         ReaderFor(cur) => RunSent \/ Closing, NEW k \in 1..N, Match(k)
  PROVE  ExactInv'
<1> USE ScenFacts
<1>1. /\ k = cur /\ writer = cur /\ cursor[cur] = Unmatched
      /\ UNCHANGED <<ppc, cur, writer, sent, reader, subPart, received>>
      /\ cur \in 1..N
  BY DEF Match, CanMatch, StateTypes, orchVars, followVars
<1>2. SUFFICES ASSUME ReaderFor(cur) PROVE ExactInv'
  BY <1>1 DEF ReaderFor, ExactInv
<1>3. cursor'[cur] = Missed(scenario)
  BY <1>1, <1>2, MissedAtMatch
<1>4. /\ Missed(scenario) \in Nat /\ scenario.filter \in Nat
      /\ received = 0 /\ scenario = Scen[cur]
  BY <1>1, <1>2, MissedBounds DEF CountInv, scenario, Scenario
<1>5. received = Passing(Missed(scenario), scenario.filter, cursor'[cur])
  BY <1>3, <1>4, PassingNone
<1>6. cursor'[cur] # Unmatched
  BY <1>3, <1>4 DEF Unmatched
<1>7. ~(StopSent /\ Compatible(scenario))
  BY <1>1, <1>2 DEF ExactInv
<1>8. scenario' = scenario /\ (StopSent' <=> StopSent)
  BY <1>1 DEF scenario, StopSent
<1> QED
  BY <1>1, <1>5, <1>6, <1>7, <1>8 DEF ExactInv

\* Each delivery takes the next sample that passes.
LEMMA ExactAtDelivery ==
  ASSUME Timely, StateTypes, CountInv, ExactInv, NEW k \in 1..N,
         NEW i \in 1..sent[k], Deliver(k, i)
  PROVE  ExactInv'
<1> USE ScenFacts
<1>1. /\ cursor[k] # Unmatched /\ i \in Undelivered(k)
      /\ \A j \in Undelivered(k) : ~(j < i)
      /\ cursor' = [cursor EXCEPT ![k] = i] /\ received' = received + 1
      /\ UNCHANGED <<ppc, cur, writer, sent, reader, subPart>>
      /\ cur \in 1..N
  BY DEF Deliver, StateTypes, orchVars
<1>2. SUFFICES ASSUME ReaderFor(cur) PROVE ExactInv'
  BY <1>1 DEF ReaderFor, ExactInv
<1>3. k = cur /\ Compatible(scenario) /\ cursor[cur] >= Missed(scenario)
  BY <1>1, <1>2 DEF CountInv
<1>4. /\ Missed(scenario) \in Nat /\ scenario.filter \in Nat
      /\ cursor[cur] \in Nat /\ sent[cur] \in Nat
      /\ scenario = Scen[cur] /\ reader.filter = scenario.filter
  BY <1>1, <1>2, <1>3, MissedBounds
     DEF StateTypes, ReaderFor, ReaderOf, RunCmd, scenario, Scenario
<1>5. /\ i \in Nat /\ cursor[cur] < i /\ Passes(scenario.filter, i)
      /\ \A j \in cursor[cur] + 1..i - 1 : ~Passes(scenario.filter, j)
  BY <1>1, <1>3, <1>4 DEF Undelivered
<1>6. received = Passing(Missed(scenario), scenario.filter, cursor[cur])
  BY <1>1, <1>2, <1>3 DEF ExactInv
<1>7. received' = Passing(Missed(scenario), scenario.filter, i)
  <2>1. Passing(Missed(scenario), scenario.filter, i)
          = Passing(Missed(scenario), scenario.filter, cursor[cur]) + 1
    <3>1. Missed(scenario) <= cursor[cur]
      BY <1>3, <1>4
    <3> QED
      BY <1>4, <1>5, <3>1, PassingNext
  <2> QED
    BY <1>1, <1>6, <2>1
<1>8. cursor'[cur] = i /\ i # Unmatched
  BY <1>1, <1>3, <1>5 DEF StateTypes, Unmatched
<1>9. ~StopSent
  BY <1>1, <1>2, <1>3 DEF ExactInv
<1>10. scenario' = scenario /\ (StopSent' <=> StopSent)
  BY <1>1 DEF scenario, StopSent
<1> QED
  BY <1>1, <1>7, <1>8, <1>9, <1>10 DEF ExactInv

\* What the sleeps wait for: the writer at hand can match the reader at hand.
LEMMA OwnPairMatches ==
  ASSUME StateTypes, WriterInv, ReaderFor(cur), writer = cur, ppc # "begin",
         Compatible(scenario)
  PROVE  CanMatch(cur)
<1>1. reader # NoReader /\ scenario = Scen[cur]
  BY ScenarioTypes, ReaderType DEF ReaderFor, StateTypes, scenario
<1> QED
  BY <1>1 DEF CanMatch, Compatible, WriterInv, ReaderFor

\* A sample is written, and STOP sent, when the sleep before it has done its
\* work.
LEMMA ExactAtWrite ==
  ASSUME Timely, StateTypes, WriterInv, WroteInv, ExactInv,
         WriteSample \/ SendStop
  PROVE  ExactInv'
<1>1. /\ UNCHANGED <<cur, writer, reader, subPart, received, cursor>>
      /\ cur \in 1..N /\ ppc # "begin"
  BY DEF WriteSample, SendStop, StateTypes, followVars
<1>2. SUFFICES ASSUME ReaderFor(cur) PROVE ExactInv'
  BY <1>1 DEF ReaderFor, ExactInv
<1>3. scenario' = scenario
  BY <1>1 DEF scenario
<1>4. CASE WriteSample
  <2>1. writer = cur /\ ~StopSent'
    BY <1>4 DEF WriteSample, WroteInv, Unwritten, Closing, StopSent
  <2>2. Compatible(scenario) => cursor[cur] # Unmatched
    BY <1>1, <1>2, <1>4, <2>1, OwnPairMatches DEF WriteSample, MatchSettled
  <2> QED
    BY <1>1, <1>2, <1>3, <2>1, <2>2 DEF ExactInv
<1>5. CASE SendStop
  <2>1. writer = cur /\ sent' = sent
    BY <1>5 DEF SendStop, WroteInv, Unwritten, Closing
  <2>2. Compatible(scenario) => cursor[cur] # Unmatched /\ Undelivered(cur) = {}
    BY <1>1, <1>2, <1>5, <2>1, OwnPairMatches DEF SendStop, DataSettled
  <2>3. Undelivered(cur)' = Undelivered(cur)
    BY <1>1, <2>1 DEF Undelivered
  <2> QED
    BY <1>1, <1>2, <1>3, <2>1, <2>2, <2>3 DEF ExactInv
<1> QED
  BY <1>4, <1>5


\* The follower takes RUN and STOP while the orchestrator waits for its answer.
LEMMA TakesInStep ==
  ASSUME StateTypes, ScriptInv, FollowerInv, InStepInv
  PROVE  /\ TakeRun => ppc = "ready"
         /\ TakeStop => /\ ppc = "res" /\ cmdTaken' = 2 * cur
                        /\ NextCmd = StopCmd(scenario) /\ ReaderFor(cur)
<1> USE ScenFacts
<1>t. /\ Len(cmdHist) \in Nat /\ cmdTaken \in Nat /\ cur \in 1..N
      /\ ScriptFrom(0) /\ LengthFrom(0) /\ ReaderFrom(0)
  BY LogLength DEF StateTypes, ScriptInv, FollowerInv
<1>1. ASSUME TakeRun \/ TakeStop
      PROVE  /\ cmdTaken' = cmdTaken + 1 /\ cmdTaken' = Len(cmdHist)
             /\ ppc \in {"ready", "res", "report", "done"}
  BY <1>1, <1>t DEF TakeRun, TakeStop, Take, InStepInv
<1>2. ASSUME TakeRun
      PROVE  ppc = "ready"
  <2>1. PICK k \in 1..N : cmdTaken' = 0 + 2 * k - 1
    BY <1>t, <1>2, TakenCommand DEF TakeRun
  <2> QED
    BY <1>1, <1>2, <1>t, <2>1, LogLength DEF InStepInv
<1>3. ASSUME TakeStop
      PROVE  /\ ppc = "res" /\ cmdTaken' = 2 * cur
             /\ NextCmd = StopCmd(scenario) /\ ReaderFor(cur)
  <2>1. PICK k \in 1..N : /\ cmdTaken' = 0 + 2 * k
                          /\ NextCmd = StopCmd(Scen[k]) /\ ReaderFor(k)
    BY <1>t, <1>3, TakenCommand DEF TakeStop
  <2>2. ppc = "res" /\ Len(cmdHist) = 2 * cur
    BY <1>1, <1>3, <1>t, <2>1, LogLength DEF InStepInv
  <2>3. k = cur
    BY <1>1, <1>3, <1>t, <2>1, <2>2
  <2> QED
    BY <2>1, <2>2, <2>3 DEF scenario
<1> QED
  BY <1>2, <1>3

\* The count of the reader at hand stays exact.
LEMMA ExactStep ==
  ASSUME Timely, MaxRestarts = 0, StateTypes, ScriptInv, FollowerInv, WriterInv,
         CountInv, InStepInv, WroteInv, ExactInv, [Next]_vars
  PROVE  ExactInv'
<1> USE ScenFacts
<1>t. cur \in 1..N /\ LengthFrom(0) /\ ReaderFrom(0)
  BY DEF StateTypes, ScriptInv, FollowerInv
<1>1. CASE TakeRun
  <2>1. /\ ppc' = "ready" /\ UNCHANGED <<cur, writer, sent>>
        /\ \A k \in 1..N : cursor'[k] = Unmatched
    BY <1>1, TakesInStep DEF TakeRun, Unmatch, orchVars
  <2>2. ~StopSent' /\ (~scenario'.late => writer' # cur')
    BY <1>1, <1>t, <2>1, TakesInStep
       DEF StopSent, WroteInv, Unwritten, scenario
  <2> QED
    BY <1>t, <2>1, <2>2 DEF ExactInv
<1>2. CASE DropReader \/ TakeQuit
  <2>1. reader' = NoReader /\ cur' = cur
    BY <1>2 DEF DropReader, TakeQuit, orchVars
  <2>2. ~ReaderFor(cur)'
    BY <1>t, <2>1, ScenarioTypes, ReaderType DEF ReaderFor
  <2> QED
    BY <2>2 DEF ExactInv
<1>3. CASE Network
  <2>1. ReaderFor(cur) => RunSent \/ Closing
    BY <1>t, ReaderIsNotAhead DEF ReaderFor
  <2> QED
    BY <1>3, <2>1, ExactAtMatch, ExactAtDelivery DEF Network
<1>4. CASE WriteSample \/ SendStop
  BY <1>4, ExactAtWrite
<1>5. CASE CreateWriter
  <2>1. /\ UNCHANGED <<cur, sent, reader, subPart, received, cursor>>
        /\ sent[cur] = 0 /\ ~StopSent'
    BY <1>5 DEF CreateWriter, WroteInv, Unwritten, StopSent, followVars
  <2> QED
    BY <1>t, <2>1 DEF ExactInv, ReaderFor, scenario
<1>6. CASE Record
  <2>1. /\ UNCHANGED <<sent, reader, subPart, received, cursor>>
        /\ writer' = 0 /\ ~StopSent'
        /\ \/ cur' = cur
           \/ cur' = cur + 1 /\ cur + 1 \in 1..N
    BY <1>6, <1>t DEF Record, StopSent, followVars
  <2>2. CASE cur' = cur
    <3>1. scenario' = scenario /\ writer' # cur' /\ cur \in Nat
      BY <1>t, <2>1, <2>2 DEF scenario
    <3> QED
      BY <2>1, <2>2, <3>1 DEF ExactInv, ReaderFor
  <2>3. CASE cur' = cur + 1 /\ cur + 1 \in 1..N
    <3>1. ReaderFor(cur + 1) => cur + 1 <= cur
      BY <1>t, <2>3, ReaderIsNotAhead DEF ReaderFor
    <3>2. ~ReaderFor(cur + 1)
      BY <1>t, <3>1
    <3>3. ~ReaderFor(cur)'
      BY <2>1, <2>3, <3>2 DEF ReaderFor
    <3> QED
      BY <3>3 DEF ExactInv
  <2> QED
    BY <2>1, <2>2, <2>3
<1>7. ASSUME UNCHANGED <<cur, writer, sent, reader, subPart, received, cursor>>,
             StopSent' => StopSent
      PROVE  ExactInv'
  BY <1>7 DEF ExactInv, ReaderFor, Undelivered, scenario
<1>8. ASSUME \/ Begin \/ SendRun \/ ReadyAcked \/ AckIgnored \/ WritesDone
             \/ ResAcked \/ SendQuit \/ Report
             \/ SendReady \/ TakeStop \/ UNCHANGED vars
      PROVE  /\ UNCHANGED <<cur, writer, sent, reader, subPart, received, cursor>>
             /\ StopSent' => StopSent
  BY <1>8 DEF Begin, SendRun, ReadyAcked, AfterReady, AckIgnored, WritesDone,
     ResAcked, SendQuit, Report, SendReady, TakeStop, StopSent, vars, orchVars,
     followVars
<1>9. ~ReadyTimeout /\ ~ResTimeout /\ ~FollowerRestart
  BY DEF ReadyTimeout, ResTimeout, FollowerRestart, StateTypes
<1> QED
  BY <1>1, <1>2, <1>3, <1>4, <1>5, <1>6, <1>7, <1>8, <1>9
     DEF Next, Orchestrator, Follower, Terminated

\* When STOP arrives, the reader has counted all that its QoS allows.
LEMMA CountComplete ==
  ASSUME StateTypes, CountInv, WroteInv, ExactInv, ReaderFor(cur), ppc = "res"
  PROVE  received = Deliverable(scenario)
<1> USE ScenFacts
<1>1. /\ cur \in 1..N /\ scenario = Scen[cur] /\ StopSent
      /\ sent[cur] = scenario.samples /\ sent[cur] \in Nat
  BY DEF StateTypes, scenario, StopSent, WroteInv
<1>2. CASE Compatible(scenario)
  <2>1. /\ cursor[cur] # Unmatched /\ Undelivered(cur) = {}
        /\ received = Passing(Missed(scenario), scenario.filter, cursor[cur])
        /\ cursor[cur] >= Missed(scenario)
    BY <1>1, <1>2 DEF ExactInv, CountInv
  <2>2. /\ Missed(scenario) \in Nat /\ scenario.filter \in Nat
        /\ cursor[cur] \in Nat /\ sent[cur] \in Nat
        /\ cursor[cur] <= sent[cur] /\ reader.filter = scenario.filter
    BY <1>1, <2>1, MissedBounds
       DEF StateTypes, ReaderFor, ReaderOf, RunCmd, Scenario
  <2>3. \A j \in cursor[cur] + 1..sent[cur] : ~Passes(scenario.filter, j)
    BY <2>1, <2>2 DEF Undelivered
  <2>4. Passing(Missed(scenario), scenario.filter, sent[cur])
          = Passing(Missed(scenario), scenario.filter, cursor[cur])
    <3> DEFINE lo == Missed(scenario)
               bound == scenario.filter
               c == cursor[cur]
               n == sent[cur]
    <3>1. /\ lo \in Nat /\ bound \in Nat /\ c \in Nat /\ n \in Nat
          /\ lo <= c /\ c <= n /\ \A j \in c + 1..n : ~Passes(bound, j)
      BY <2>1, <2>2, <2>3
    <3> HIDE DEF lo, bound, c, n
    <3>2. Passing(lo, bound, n) = Passing(lo, bound, c)
      BY <3>1, PassingLast
    <3> QED
      BY <3>2 DEF lo, bound, c, n
  <2> QED
    BY <1>1, <1>2, <2>1, <2>4 DEF Deliverable
<1>3. CASE ~Compatible(scenario)
  BY <1>1, <1>3 DEF CountInv, Deliverable
<1> QED
  BY <1>2, <1>3

-----------------------------------------------------------------------------
(* The answers and the results *)

\* READY says that there is a reader, RES what it counted in all.
LEMMA NewExactAnswer ==
  ASSUME StateTypes, ScriptInv, FollowerInv, CountInv, InStepInv, WroteInv,
         ExactInv, SendReady \/ TakeStop
  PROVE  \E a \in Acks : ackHist' = Append(ackHist, a) /\ Justified(a)'
<1> USE ScenFacts
<1>t. /\ cur \in 1..N /\ Len(cmdHist) \in Nat /\ cmdTaken \in Nat
      /\ cmdTaken <= Len(cmdHist) /\ scenario = Scen[cur]
  BY LogLength DEF StateTypes, scenario
<1>1. CASE SendReady
  <2>1. PICK k \in 1..N : cmdTaken = 0 + 2 * k - 1 /\ ReaderFor(k)
    BY <1>1 DEF SendReady, FollowerInv, ReaderFrom
  <2>2. cmdHist[cmdTaken] = RunCmd(Scen[k])
    BY <1>t, <2>1 DEF ScriptInv, ScriptFrom
  <2> DEFINE a == ReadyAck(cmdHist[cmdTaken].name)
  <2>3. a.name = Scen[k].name /\ a.kind = "READY" /\ a \in Acks
    BY <2>1, <2>2 DEF RunCmd, ReadyAck, Acks, Scenario
  <2>4. ackHist' = Append(ackHist, a) /\ spc' = "poll" /\ cmdTaken' = cmdTaken
    BY <1>1 DEF SendReady, Reply
  <2>5. PICK e \in Acks : e = a
    BY <2>3
  <2> HIDE DEF a
  <2>6. Justified(e)'
    BY <2>1, <2>3, <2>4, <2>5 DEF Justified
  <2> QED
    BY <2>4, <2>5, <2>6
<1>2. CASE TakeStop
  <2>1. /\ ppc = "res" /\ cmdTaken' = 2 * cur
        /\ NextCmd = StopCmd(scenario) /\ ReaderFor(cur)
    BY <1>2, TakesInStep
  <2>2. received = Deliverable(Scen[cur])
    BY <1>t, <2>1, CountComplete
  <2> DEFINE a == ResAck(NextCmd.name, received)
  <2>3. /\ a.name = Scen[cur].name /\ a.kind = "RES"
        /\ a.count = received /\ a \in Acks
    BY <1>t, <2>1 DEF StopCmd, ResAck, Acks, Scenario, StateTypes
  <2>4. ackHist' = Append(ackHist, a)
    BY <1>2 DEF TakeStop, Reply
  <2>5. PICK e \in Acks : e = a
    BY <2>3
  <2>6. PICK k \in 1..N : k = cur
    BY <1>t
  <2> HIDE DEF a
  <2>7. /\ e.name = Scen[k].name /\ e.kind = "RES"
        /\ e.count = Deliverable(Scen[k]) /\ cmdTaken' = 2 * k
    BY <2>1, <2>2, <2>3, <2>5, <2>6
  <2>8. Justified(e)'
    BY <2>7 DEF Justified
  <2> QED
    BY <2>4, <2>5, <2>8
<1> QED
  BY <1>1, <1>2

\* An answer stays justified: the follower never goes back to RUN.
LEMMA JustifiedOn ==
  ASSUME cmdTaken \in Nat, NEW a, Justified(a),
         \/ cmdTaken' = cmdTaken + 1
         \/ cmdTaken' = cmdTaken /\ (spc' = spc \/ spc' = "poll")
  PROVE  Justified(a)'
<1>1. PICK k \in 1..N :
        /\ a.name = Scen[k].name
        /\ a.kind = "READY" =>
             cmdTaken >= 2 * k - 1 /\ ~(spc = "ready" /\ cmdTaken = 2 * k - 1)
        /\ a.kind = "RES" => cmdTaken >= 2 * k /\ a.count = Deliverable(Scen[k])
  BY DEF Justified
<1>2. /\ a.kind = "READY" =>
           cmdTaken' >= 2 * k - 1 /\ ~(spc' = "ready" /\ cmdTaken' = 2 * k - 1)
      /\ a.kind = "RES" => cmdTaken' >= 2 * k
  BY <1>1, ScenFacts
<1> QED
  BY <1>1, <1>2 DEF Justified

\* So every answer is.
LEMMA AnswerStep ==
  ASSUME MaxRestarts = 0, StateTypes, ScriptInv, FollowerInv, CountInv, InStepInv,
         WroteInv, ExactInv, AnswerInv, [Next]_vars
  PROVE  AnswerInv'
<1>t. ackHist \in Seq(Acks) /\ Len(ackHist) \in Nat /\ cmdTaken \in Nat
  BY LenProperties DEF StateTypes
<1>r. ~FollowerRestart
  BY DEF FollowerRestart, StateTypes
<1>m. \/ cmdTaken' = cmdTaken + 1
      \/ cmdTaken' = cmdTaken /\ (spc' = spc \/ spc' = "poll")
  BY <1>r, OrchestratorKeeps DEF Next, Follower, TakeRun, SendReady, TakeStop,
     DropReader, TakeQuit, Take, Network, Match, Deliver, Terminated, vars,
     followVars
<1>1. SUFFICES ASSUME NEW i \in 1..Len(ackHist')
               PROVE  Justified(ackHist[i])'
  BY DEF AnswerInv
<1>2. PICK a : a = ackHist'[i]
  OBVIOUS
<1>3. SUFFICES Justified(a)'
  BY <1>2 DEF Justified
<1>4. ASSUME i \in 1..Len(ackHist), a = ackHist[i]
      PROVE  Justified(a)'
  <2>1. Justified(ackHist[i])
    BY <1>4 DEF AnswerInv
  <2> QED
    BY <1>4, <1>m, <1>t, <2>1, JustifiedOn
<1>5. CASE SendReady \/ TakeStop
  <2>1. PICK e \in Acks : ackHist' = Append(ackHist, e) /\ Justified(e)'
    BY <1>5, NewExactAnswer
  <2>2. /\ Len(ackHist') = Len(ackHist) + 1
        /\ \A j \in 1..Len(ackHist) : ackHist'[j] = ackHist[j]
        /\ ackHist'[Len(ackHist) + 1] = e
    BY <1>t, <2>1, AppendProperties
  <2>3. CASE i \in 1..Len(ackHist)
    BY <1>2, <1>4, <2>2, <2>3
  <2>4. CASE i = Len(ackHist) + 1
    BY <1>2, <2>1, <2>2, <2>4
  <2> QED
    BY <1>t, <2>2, <2>3, <2>4
<1>6. ASSUME Orchestrator \/ TakeRun \/ DropReader \/ TakeQuit \/ Network
               \/ UNCHANGED vars
      PROVE  ackHist' = ackHist
  BY <1>6, OrchestratorKeeps DEF TakeRun, DropReader, TakeQuit, Network, Match,
     Deliver, vars, followVars
<1> QED
  BY <1>2, <1>4, <1>5, <1>6, <1>r DEF Next, Follower, Terminated


\* The table holds exact counts, and its verdicts are those of exact counts.
LEMMA ExactResultStep ==
  ASSUME Timely, StateTypes, ScriptInv, FollowerInv, AnswerInv, ResultInv,
         ExactResultInv, [Next]_vars
  PROVE  ExactResultInv'
<1> USE ScenFacts
<1>t. cur \in 1..N /\ results \in Seq(Nat \cup {NoCount})
  BY DEF StateTypes
<1>1. CASE ResAcked
  <2>1. count' = Deliverable(scenario) /\ UNCHANGED <<cur, results>>
        /\ ppc' = "record"
    BY <1>1, AnsweredInTime DEF ResAcked
  <2> QED
    BY <2>1 DEF ExactResultInv, CountsAreExact, scenario
<1>2. CASE Record
  <2>1. /\ results' = Append(results, count) /\ count = Deliverable(Scen[cur])
        /\ count \in Nat \cup {NoCount} /\ Len(results) = cur - 1
        /\ ppc' \in {"begin", "quit"}
    BY <1>2 DEF Record, ExactResultInv, ResultInv, Closing, scenario, StateTypes
  <2>2. /\ Len(results') = cur
        /\ \A j \in 1..Len(results) : results'[j] = results[j]
        /\ results'[cur] = count
    BY <1>t, <2>1, AppendProperties
  <2>3. \A j \in 1..Len(results') : results'[j] = Deliverable(Scen[j])
    <3> TAKE j \in 1..Len(results')
    <3>1. CASE j < cur
      BY <1>t, <2>1, <2>2, <3>1 DEF ExactResultInv, CountsAreExact
    <3>2. CASE j = cur
      BY <2>1, <2>2, <3>2
    <3> QED
      BY <1>t, <2>2, <3>1, <3>2
  <2> QED
    BY <2>1, <2>3 DEF ExactResultInv, CountsAreExact
<1>3. CASE Report
  <2>1. /\ pass' = Cardinality({j \in DOMAIN results : Verdict(Scen[j], results[j])})
        /\ UNCHANGED <<cur, results>> /\ ppc' = "done"
    BY <1>3 DEF Report
  <2>2. DOMAIN results = 1..N
    BY <1>3, <1>t, LenProperties DEF Report, ResultInv, Closing
  <2>3. \A j \in 1..N : results[j] = Deliverable(Scen[j])
    BY <1>t, <2>2, LenProperties DEF ExactResultInv, CountsAreExact
  <2>4. {j \in DOMAIN results : Verdict(Scen[j], results[j])}
          = {j \in 1..N : Verdict(Scen[j], Deliverable(Scen[j]))}
    BY <2>2, <2>3
  <2>5. CountsAreExact'
    BY <2>1 DEF ExactResultInv, CountsAreExact
  <2> QED
    BY <2>1, <2>4, <2>5 DEF ExactResultInv
<1>4. ASSUME UNCHANGED results, ppc' \notin {"record", "done"}
      PROVE  ExactResultInv'
  BY <1>4 DEF ExactResultInv, CountsAreExact
<1>5. ASSUME \/ Begin \/ SendRun \/ ReadyAcked \/ CreateWriter \/ WriteSample
             \/ WritesDone \/ SendStop \/ SendQuit \/ AckIgnored
      PROVE  UNCHANGED results /\ ppc' \notin {"record", "done"}
  BY <1>5 DEF Begin, SendRun, ReadyAcked, AfterReady, CreateWriter, WriteSample,
     WritesDone, SendStop, SendQuit, AckIgnored
<1>6. CASE UNCHANGED <<ppc, cur, count, results, pass>>
  BY <1>6 DEF ExactResultInv, CountsAreExact, scenario
<1>7. ~Orchestrator => UNCHANGED <<ppc, cur, count, results, pass>>
  BY OrchestratorOnly DEF orchVars
<1>8. ~ReadyTimeout /\ ~ResTimeout
  BY DEF ReadyTimeout, ResTimeout
<1> QED
  BY <1>1, <1>2, <1>3, <1>4, <1>5, <1>6, <1>7, <1>8 DEF Orchestrator

-----------------------------------------------------------------------------
(* The inductive invariant and its consequences *)

\* All of it holds before the first step.
LEMMA TimelyInit == Init => TimelyInv
<1> SUFFICES ASSUME Init PROVE TimelyInv
  OBVIOUS
<1>1. Len(cmdHist) = 0 /\ Len(ackHist) = 0 /\ Len(results) = 0
  BY EmptySeq DEF Init
<1>2. InStepInv /\ AnswerInv /\ ExactResultInv
  BY <1>1 DEF Init, InStepInv, AnswerInv, ExactResultInv, CountsAreExact
<1>3. WroteInv
  BY ScenFacts DEF Init, WroteInv, Unwritten, Closing
<1>4. ~ReaderFor(cur)
  BY ScenFacts, ScenarioTypes, ReaderType DEF Init, ReaderFor
<1> QED
  BY <1>2, <1>3, <1>4 DEF TimelyInv, ExactInv

\* When the waits are long enough and the follower is not restarted, the
\* second inductive invariant holds next to the first.
THEOREM TimelyInvariance ==
  ASSUME Timely, MaxRestarts = 0
  PROVE  Spec => []TimelyInv
<1>1. IInv /\ TimelyInv /\ [Next]_vars => TimelyInv'
  <2> SUFFICES ASSUME IInv, TimelyInv, [Next]_vars
               PROVE  TimelyInv'
    OBVIOUS
  <2>1. /\ StateTypes /\ ScriptInv /\ FollowerInv /\ WriterInv /\ CountInv
        /\ ResultInv
    BY DEF IInv, TypeOK
  <2>2. InStepInv /\ WroteInv /\ ExactInv /\ AnswerInv /\ ExactResultInv
    BY DEF TimelyInv
  <2>3. Orchestrator \/ UNCHANGED <<ppc, cur, writer, sent>>
    BY OrchestratorOnly DEF orchVars
  <2>4. InStepInv' /\ WroteInv' /\ ExactInv'
    BY <2>1, <2>2, <2>3, InStepStep, WroteStep, ExactStep
  <2>5. AnswerInv' /\ ExactResultInv'
    BY <2>1, <2>2, AnswerStep, ExactResultStep
  <2> QED
    BY <2>4, <2>5 DEF TimelyInv
<1> QED
  BY <1>1, TimelyInit, Invariance, PTL DEF Spec

\* Every scenario then counts exactly what its QoS allows
\* (auto_pub.cpp:173-194).
THEOREM ExactCounts ==
  ASSUME Timely, MaxRestarts = 0
  PROVE  Spec => []CountsAreExact
<1>1. TimelyInv => CountsAreExact
  BY DEF TimelyInv, ExactResultInv
<1> QED
  BY <1>1, TimelyInvariance, PTL

\* A normal scenario writes only when its reader is there (auto_pub.cpp:183).
THEOREM ReaderComesFirst ==
  ASSUME Timely, MaxRestarts = 0
  PROVE  Spec => []ReaderBeforeData
<1>1. IInv /\ TimelyInv => ReaderBeforeData
  <2> SUFFICES ASSUME IInv, TimelyInv, ppc = "write", ~scenario.late
               PROVE  reader # NoReader /\ reader.name = scenario.name
    BY DEF ReaderBeforeData
  <2>1. /\ cur \in 1..N /\ Len(cmdHist) \in Nat /\ LengthFrom(0) /\ ReaderFrom(0)
    BY LenProperties DEF IInv, TypeOK, StateTypes, ScriptInv, FollowerInv
  <2>2. cmdTaken = 2 * cur - 1 /\ spc = "poll"
    BY <2>1 DEF TimelyInv, InStepInv, LengthFrom, RunSent, StopSent
  <2>3. PICK k \in 1..N : cmdTaken = 0 + 2 * k - 1 /\ ReaderFor(k)
    BY ScenFacts, <2>1, <2>2 DEF ReaderFrom
  <2>4. ReaderFor(cur)
    BY <2>1, <2>2, <2>3
  <2> QED
    BY <2>1, <2>4, ScenarioTypes, ReaderType
       DEF ReaderFor, ReaderOf, RunCmd, scenario
<1> QED
  BY <1>1, Invariance, TimelyInvariance, PTL

\* The table then says "PASS N / N" for every list whose expected counts are
\* those of its QoS (auto_pub.cpp:208-223).
THEOREM TablePasses ==
  ASSUME Timely, MaxRestarts = 0,
         \A j \in 1..N : Verdict(Scen[j], Deliverable(Scen[j]))
  PROVE  Spec => []AllScenariosPass
<1>1. TimelyInv => AllScenariosPass
  <2>1. {j \in 1..N : Verdict(Scen[j], Deliverable(Scen[j]))} = 1..N
    OBVIOUS
  <2>2. Cardinality(1..N) = N
    BY ScenFacts, FS_Interval
  <2> QED
    BY <2>1, <2>2 DEF TimelyInv, ExactResultInv, AllScenariosPass
<1> QED
  BY <1>1, TimelyInvariance, PTL
=============================================================================
