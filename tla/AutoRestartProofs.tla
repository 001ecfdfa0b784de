------------------------- MODULE AutoRestartProofs --------------------------
(***************************************************************************)
(* Proofs about AutoRestart, for every scenario list and any number of     *)
(* restarts of either side.                                                *)
(***************************************************************************)
EXTENDS AutoRestart, AutoRunnerProofs

-----------------------------------------------------------------------------
(* Type correctness *)

\* A sequence whose elements were all changed is still one.
LEMMA SameLength ==
  ASSUME NEW S, NEW s \in Seq(S), NEW f, f = [l \in DOMAIN s |-> f[l]],
         \A l \in DOMAIN s : f[l] \in S
  PROVE  f \in Seq(S) /\ Len(f) = Len(s)
<1>1. Len(s) \in Nat /\ DOMAIN s = 1..Len(s)
  BY LenProperties
<1>2. f \in [1..Len(s) -> S]
  BY <1>1
<1> QED
  BY <1>1, <1>2, SeqDef, LenProperties

\* The readers left behind are those there were, and the present one.
LEMMA LeftBehindTypes ==
  ASSUME RestartTypeOK
  PROVE  /\ LeftBehind \in Seq(LeakedReader)
         /\ reader = NoReader => LeftBehind = leaked
         /\ reader # NoReader => Len(LeftBehind) = Len(leaked) + 1
<1>1. leaked \in Seq(LeakedReader)
  BY DEF RestartTypeOK
<1>2. reader # NoReader => [reader |-> reader, cursor |-> cursor] \in LeakedReader
  BY DEF RestartTypeOK, StateTypes, LeakedReader
<1> QED
  BY <1>1, <1>2, AppendProperties DEF LeftBehind

\* A change of partition leaves as many readers as before.
LEMMA PartitionChangeTypes ==
  ASSUME NEW r \in Seq(LeakedReader)
  PROVE  /\ AfterPartitionChange(r) \in Seq(LeakedReader)
         /\ Len(AfterPartitionChange(r)) = Len(r)
<1> DEFINE f == AfterPartitionChange(r)
<1>1. f = [l \in DOMAIN r |-> f[l]]
  BY DEF AfterPartitionChange
<1>2. ASSUME NEW l \in DOMAIN r
      PROVE  f[l] \in LeakedReader
  <2>1. r[l] \in LeakedReader
    BY ElementOfSeq, LenProperties
  <2>2. [k \in 1..N |-> Unmatched] \in [1..N -> Nat \cup {Unmatched}]
    OBVIOUS
  <2>3. [r[l] EXCEPT !.cursor = [k \in 1..N |-> Unmatched]] \in LeakedReader
    BY <2>1, <2>2 DEF LeakedReader
  <2> QED
    BY <2>1, <2>3 DEF AfterPartitionChange
<1> HIDE DEF f
<1>3. f \in Seq(LeakedReader) /\ Len(f) = Len(r)
  BY <1>1, <1>2, SameLength
<1> QED
  BY <1>3 DEF f

\* A RUN leaves behind the present reader, if there is one.
LEMMA LeavingTypes ==
  ASSUME RestartTypeOK, leaked' = AfterPartitionChange(LeftBehind),
         leaks' = leaks + Len(LeftBehind) - Len(leaked)
  PROVE  /\ leaked' \in Seq(LeakedReader) /\ leaks' \in Nat
         /\ leaks' = IF reader = NoReader THEN leaks ELSE leaks + 1
         /\ Len(leaked') = IF reader = NoReader THEN Len(leaked) ELSE Len(leaked) + 1
<1>1. /\ leaked \in Seq(LeakedReader) /\ leaks \in Nat
      /\ Len(leaked) \in Nat /\ Len(LeftBehind) \in Nat
  BY LeftBehindTypes, LenProperties DEF RestartTypeOK
<1>2. leaked' \in Seq(LeakedReader) /\ Len(leaked') = Len(LeftBehind)
  BY LeftBehindTypes, PartitionChangeTypes
<1>3. CASE reader = NoReader
  BY <1>1, <1>2, <1>3, LeftBehindTypes
<1>4. CASE reader # NoReader
  BY <1>1, <1>2, <1>4, LeftBehindTypes
<1> QED
  BY <1>3, <1>4

\* RestartTypeOK holds initially.
LEMMA RestartTypeInit == RestartInit => RestartTypeOK
<1> SUFFICES ASSUME RestartInit PROVE RestartTypeOK
  OBVIOUS
<1>1. StateTypes
  BY TypeInit DEF RestartInit, TypeOK
<1>2. Len(ackHist) = 0 /\ Len(answered) = 0
  BY EmptySeq DEF RestartInit, Init
<1>3. answered \in Seq(Nat) /\ leaked \in Seq(LeakedReader)
  BY EmptySeq DEF RestartInit
<1> QED
  BY <1>1, <1>2, <1>3 DEF RestartTypeOK, RestartInit, Init

\* Every step keeps the types; a READY has the name of the RUN it answers.
LEMMA RestartTypeStep ==
  ASSUME RestartTypeOK, LastCommandInv, ppc = "report" => Len(results) = N,
         ppc # "done" => cmdBase <= Len(cmdHist), [RestartNext]_allVars
  PROVE  RestartTypeOK'
<1> USE ScenFacts
<1>t. /\ StateTypes /\ leaks \in Nat /\ stale \subseteq 1..N
      /\ spc \in {"poll", "ready", "drop", "done", "crashed"}
      /\ orchRestarts \in Nat /\ cmdBase \in Nat /\ ackBase \in 0..Len(ackHist)
      /\ leaked \in Seq(LeakedReader)
      /\ answered \in Seq(Nat) /\ Len(answered) = Len(ackHist)
  BY DEF RestartTypeOK
<1>l. /\ Len(ackHist) \in Nat /\ Len(cmdHist) \in Nat /\ cmdTaken \in Nat
      /\ cmdTaken <= Len(cmdHist) /\ cur \in 1..N /\ ackHist \in Seq(Acks)
      /\ cmdHist \in Seq(Commands) /\ sent \in [1..N -> Nat]
      /\ ackTaken \in 0..Len(ackHist)
  BY <1>t, LenProperties DEF StateTypes
<1>r. spc = "ready" => cmdTaken > 0 /\ cmdHist[cmdTaken].kind = "RUN"
  BY DEF LastCommandInv
<1>1. CASE OrchestratorStep
  <2>1. StateTypes'
    BY <1>1, <1>t, OrchestratorTypes DEF OrchestratorStep
  <2>2. spc' = spc /\ ackHist' = ackHist
    BY <1>1, OrchestratorKeeps DEF OrchestratorStep, followVars
  <2>3. stale' \subseteq 1..N
    BY <1>1, <1>t, <1>l DEF OrchestratorStep
  <2> QED
    BY <1>1, <1>t, <2>1, <2>2, <2>3 DEF OrchestratorStep, RestartTypeOK
<1>2. CASE OrchestratorRestart
  <2>1. PICK n \in cmdTaken..Len(cmdHist) :
          cmdHist' = SubSeq(cmdHist, 1, n) /\ cmdBase' = n
    BY <1>2 DEF OrchestratorRestart
  <2>2. n \in Nat /\ n \in 0..Len(cmdHist) /\ cmdTaken <= n
    BY <1>l
  <2>3. cmdHist' \in Seq(Commands) /\ Len(cmdHist') = n
    BY <1>l, <2>1, <2>2, Beginning
  <2>4. /\ sent' \in [1..N -> Nat] /\ Unmatch
        /\ \A k \in 1..N : sent'[k] <= Scen[k].samples
    BY <1>2 DEF OrchestratorRestart, Scenario
  <2>5. /\ cursor' \in [1..N -> Nat \cup {Unmatched}]
        /\ \A k \in 1..N : cursor'[k] <= sent'[k]
    BY <1>2 DEF OrchestratorRestart, Unmatch, Unmatched
  <2>6. results' \in Seq(Nat \cup {NoCount})
    BY <1>2, EmptySeq DEF OrchestratorRestart
  <2>7. /\ ppc' = "begin" /\ cur' \in 1..N /\ writer' = 0 /\ pubPart' = {}
        /\ count' = NoCount /\ pass' \in 0..N /\ ackTaken' = ackBase
        /\ stale' = {} /\ orchRestarts' = orchRestarts + 1
        /\ UNCHANGED <<followVars, ackBase, answered, leaks>>
    BY <1>2 DEF OrchestratorRestart
  <2>8. cmdTaken' \in 0..Len(cmdHist')
    BY <1>l, <2>2, <2>3, <2>7 DEF followVars
  <2>9. StateTypes'
    BY <1>t, <2>3, <2>4, <2>5, <2>6, <2>7, <2>8 DEF StateTypes, followVars
  <2>10. leaked' \in Seq(LeakedReader)
    <3>1. leaked' = [l \in DOMAIN leaked |-> [leaked[l] EXCEPT !.cursor = cursor']]
      BY <1>2 DEF OrchestratorRestart
    <3>2. ASSUME NEW l \in DOMAIN leaked
          PROVE  leaked'[l] \in LeakedReader
      <4>1. leaked[l] \in LeakedReader
        BY <1>t, ElementOfSeq, LenProperties
      <4> QED
        BY <2>5, <3>1, <4>1 DEF LeakedReader
    <3>3. leaked' = [l \in DOMAIN leaked |-> leaked'[l]]
      BY <3>1
    <3> QED
      BY <1>t, <3>2, <3>3, SameLength
  <2> QED
    BY <1>t, <2>1, <2>2, <2>7, <2>9, <2>10 DEF RestartTypeOK, followVars
<1>3. CASE TakeRunLeaving
  <2>1. StateTypes'
    BY <1>3, <1>t, <1>r, FollowerTypes DEF TakeRunLeaving, Follower
  <2>2. leaked' \in Seq(LeakedReader) /\ leaks' \in Nat
    BY <1>3, LeavingTypes DEF TakeRunLeaving
  <2> QED
    BY <1>3, <1>t, <2>1, <2>2 DEF TakeRunLeaving, TakeRun, RestartTypeOK
<1>4. CASE TakeRunClashing
  <2>1. leaked' \in Seq(LeakedReader) /\ leaks' \in Nat
    BY <1>4, LeavingTypes DEF TakeRunClashing
  <2>2. /\ cursor' \in [1..N -> Nat \cup {Unmatched}]
        /\ \A k \in 1..N : cursor'[k] <= sent[k]
    BY <1>4, <1>l, UnmatchTypes DEF TakeRunClashing
  <2>3. cmdTaken' \in 0..Len(cmdHist)
    BY <1>4, <1>l DEF TakeRunClashing, Take
  <2>4. subPart' \in SUBSET STRING
    <3>1. NextCmd \in Commands /\ NextCmd.kind = "RUN"
      BY <1>4, <1>l, ElementOfSeq DEF TakeRunClashing, Take, NextCmd
    <3>2. NextCmd.part \in STRING
      BY <3>1, CommandKinds DEF RunCommands
    <3> QED
      BY <1>4, <3>2 DEF TakeRunClashing, PartitionOf
  <2>5. StateTypes'
    BY <1>4, <1>t, <2>2, <2>3, <2>4 DEF TakeRunClashing, StateTypes, orchVars
  <2> QED
    BY <1>4, <1>t, <2>1, <2>5 DEF TakeRunClashing, RestartTypeOK
<1>5. CASE Answer
  <2>1. StateTypes'
    BY <1>5, <1>t, <1>r, FollowerTypes DEF Answer, Follower
  <2>2. PICK a \in Acks : ackHist' = Append(ackHist, a)
    <3>1. PICK a : ackHist' = Append(ackHist, a)
      BY <1>5 DEF Answer, SendReady, TakeStop, Reply
    <3>2. ackHist' \in Seq(Acks)
      BY <2>1 DEF StateTypes
    <3>3. Len(ackHist') = Len(ackHist) + 1 /\ ackHist'[Len(ackHist) + 1] = a
      BY <1>l, <3>1, AppendProperties
    <3>4. a \in Acks
      BY <1>l, <3>2, <3>3, ElementOfSeq
    <3> QED
      BY <3>1, <3>4
  <2>3. Len(ackHist') = Len(ackHist) + 1
    BY <1>l, <2>2, AppendProperties
  <2>4. answered' \in Seq(Nat) /\ Len(answered') = Len(answered) + 1
    <3>1. cmdTaken' \in Nat
      BY <1>5, <1>l DEF Answer, SendReady, TakeStop, Take
    <3>2. answered' = Append(answered, cmdTaken')
      BY <1>5 DEF Answer
    <3> QED
      BY <1>t, <3>1, <3>2, AppendProperties
  <2>5. spc' \in {"poll", "drop"}
    BY <1>5 DEF Answer, SendReady, TakeStop
  <2>6. ackBase \in 0..Len(ackHist')
    BY <1>t, <1>l, <2>3
  <2> QED
    BY <1>5, <1>t, <2>1, <2>3, <2>4, <2>5, <2>6 DEF Answer, RestartTypeOK
<1>6. CASE DropOwnReader
  <2>1. StateTypes'
    BY <1>6, <1>t, <1>r, FollowerTypes DEF DropOwnReader, Follower
  <2> QED
    BY <1>6, <1>t, <2>1 DEF DropOwnReader, DropReader, RestartTypeOK, restartVars
<1>7. CASE Quit
  <2>1. StateTypes'
    BY <1>7, <1>t, <1>r, FollowerTypes DEF Quit, Follower
  <2>2. leaked' \in Seq(LeakedReader)
    BY <1>7, EmptySeq DEF Quit
  <2> QED
    BY <1>7, <1>t, <2>1, <2>2 DEF Quit, TakeQuit, RestartTypeOK
<1>8. CASE Data
  <2>1. StateTypes'
    BY <1>8, <1>t, NetworkTypes DEF Data
  <2>2. UNCHANGED <<spc, ackHist>>
    BY <1>8 DEF Data, Network, Match, Deliver, followVars
  <2> QED
    BY <1>8, <1>t, <2>1, <2>2 DEF Data, RestartTypeOK, restartVars
<1>9. CASE LeakedData
  <2>1. PICK l \in DOMAIN leaked, k \in 1..N :
          LeakedMatch(l, k) \/ \E i \in 1..sent[k] : LeakedDeliver(l, k, i)
    BY <1>9 DEF LeakedData
  <2>2. PICK c \in Nat : leaked' = [leaked EXCEPT ![l].cursor[k] = c]
    <3>1. CASE LeakedMatch(l, k)
      <4>1. leaked[l] \in LeakedReader /\ sent[k] \in Nat /\ WriterOf(Scen[k]) \in Qos
        BY <1>t, <1>l, ElementOfSeq, LenProperties, ScenarioTypes
      <4>2. SkippedAtMatch(WriterOf(Scen[k]), leaked[l].reader.qos, sent[k]) \in Nat
        BY <4>1, SkippedBounds
      <4> QED
        BY <3>1, <4>2 DEF LeakedMatch
    <3>2. CASE \E i \in 1..sent[k] : LeakedDeliver(l, k, i)
      <4>1. PICK i \in 1..sent[k] : LeakedDeliver(l, k, i)
        BY <3>2
      <4>2. i \in Nat /\ leaked' = [leaked EXCEPT ![l].cursor[k] = i]
        BY <1>l, <4>1 DEF LeakedDeliver
      <4> QED
        BY <4>2
    <3> QED
      BY <2>1, <3>1, <3>2
  <2>3. leaked' \in Seq(LeakedReader)
    <3>1. leaked[l] \in LeakedReader
      BY <1>t, ElementOfSeq, LenProperties
    <3>2. [leaked[l] EXCEPT !.cursor[k] = c] \in LeakedReader
      BY <3>1 DEF LeakedReader
    <3>3. \A j \in DOMAIN leaked : leaked'[j] \in LeakedReader
      BY <1>t, <2>2, <3>2, ElementOfSeq, LenProperties
    <3>4. leaked' = [j \in DOMAIN leaked |-> leaked'[j]]
      BY <2>2
    <3> QED
      BY <1>t, <3>3, <3>4, SameLength
  <2>4. /\ UNCHANGED <<orchVars, spc, reader, subPart, cmdTaken, ackHist, restarts,
                       cursor, orchRestarts, cmdBase, ackBase, answered, leaks, stale>>
        /\ received' \in Nat
    <3>1. received \in Nat
      BY <1>t DEF StateTypes
    <3>2. CASE LeakedMatch(l, k)
      BY <3>1, <3>2 DEF LeakedMatch, vars, followVars
    <3>3. ASSUME NEW i \in 1..sent[k], LeakedDeliver(l, k, i)
          PROVE  /\ UNCHANGED <<orchVars, spc, reader, subPart, cmdTaken, ackHist,
                       restarts, cursor, orchRestarts, cmdBase, ackBase, answered,
                       leaks, stale>>
                 /\ received' = received + 1
      BY <3>3 DEF LeakedDeliver
    <3> QED
      BY <2>1, <3>1, <3>2, <3>3
  <2>5. UNCHANGED <<ppc, cur, writer, sent, pubPart, count, results, pass, ackTaken,
                    cmdHist, reader, subPart, cmdTaken, ackHist, restarts, cursor>>
    BY <2>4 DEF orchVars
  <2>6. StateTypes'
    BY <1>t, <2>4, <2>5 DEF StateTypes
  <2>7. UNCHANGED <<spc, ackHist, orchRestarts, cmdBase, ackBase, answered, leaks, stale>>
    BY <2>4
  <2> QED
    BY <1>t, <2>3, <2>6, <2>7 DEF RestartTypeOK
<1>10. CASE FollowerStartsAgain
  <2>1. PICK n \in ackTaken..Len(ackHist) : /\ ackHist' = SubSeq(ackHist, 1, n)
                                            /\ answered' = SubSeq(answered, 1, n)
                                            /\ ackBase' = n
    BY <1>10 DEF FollowerStartsAgain
  <2>2. n \in Nat /\ n \in 0..Len(ackHist) /\ ackTaken \in 0..n
    BY <1>l
  <2>3. /\ ackHist' \in Seq(Acks) /\ Len(ackHist') = n
        /\ answered' \in Seq(Nat) /\ Len(answered') = n
    BY <1>t, <1>l, <2>1, <2>2, Beginning
  <2>4. /\ cursor' \in [1..N -> Nat \cup {Unmatched}]
        /\ \A k \in 1..N : cursor'[k] <= sent[k]
    <3>1. sent \in [1..N -> Nat] /\ Unmatch
      BY <1>10, <1>l DEF FollowerStartsAgain
    <3> QED
      BY <3>1, UnmatchTypes
  <2>5. restarts' \in 0..MaxRestarts
    BY <1>10, <1>t, AutoAssumption DEF FollowerStartsAgain, StateTypes
  <2>6. cmdTaken' \in 0..Len(cmdHist)
    BY <1>10, <1>t, <1>l DEF FollowerStartsAgain
  <2>7. StateTypes'
    BY <1>10, <1>t, <2>2, <2>3, <2>4, <2>5, <2>6
       DEF FollowerStartsAgain, StateTypes, orchVars
  <2>8. leaked' \in Seq(LeakedReader)
    BY <1>10, EmptySeq DEF FollowerStartsAgain
  <2> QED
    BY <1>10, <1>t, <2>1, <2>2, <2>3, <2>7, <2>8
       DEF FollowerStartsAgain, RestartTypeOK
<1>11. CASE UNCHANGED allVars
  BY <1>11, <1>t DEF allVars, vars, orchVars, followVars, restartVars, RestartTypeOK,
                     StateTypes
<1> QED
  BY <1>1, <1>2, <1>3, <1>4, <1>5, <1>6, <1>7, <1>8, <1>9, <1>10, <1>11
     DEF RestartNext, FollowerStep, Over, Terminated, allVars

-----------------------------------------------------------------------------
(* The present process's own commands *)

\* Nothing but the orchestrator changes its variables.
LEMMA RestartOrchestratorOnly ==
  ASSUME [RestartNext]_allVars, ~OrchestratorStep, ~OrchestratorRestart
  PROVE  UNCHANGED <<orchVars, orchRestarts, cmdBase, stale>>
BY DEF RestartNext, FollowerStep, TakeRunLeaving, TakeRun, TakeRunClashing,
   Answer, SendReady, TakeStop, DropOwnReader, DropReader, Quit, TakeQuit, Data,
   Network, Match, Deliver, LeakedData, LeakedMatch, LeakedDeliver,
   FollowerStartsAgain, Over, Terminated, allVars, restartVars, vars

\* The log goes on as the script of the process that writes it.
LEMMA OwnScriptStep ==
  ASSUME RestartTypeOK, OwnScriptInv, [RestartNext]_allVars
  PROVE  OwnScriptInv'
<1> USE ScenFacts
<1>t. /\ StateTypes /\ cmdBase \in Nat /\ cmdHist \in Seq(Commands)
      /\ Len(cmdHist) \in Nat /\ cmdTaken \in Nat
  BY LenProperties DEF RestartTypeOK, StateTypes
<1>1. CASE OrchestratorRestart
  <2>1. PICK n \in cmdTaken..Len(cmdHist) :
          cmdHist' = SubSeq(cmdHist, 1, n) /\ cmdBase' = n
    BY <1>1 DEF OrchestratorRestart
  <2>2. n \in 0..Len(cmdHist)
    BY <1>t
  <2>3. Len(cmdHist') = n
    BY <1>t, <2>1, <2>2, Beginning
  <2>4. ppc' = "begin" /\ cur' = 1
    BY <1>1 DEF OrchestratorRestart
  <2>5. ScriptFrom(n)'
    BY <2>2, <2>3 DEF ScriptFrom
  <2>6. LengthFrom(n)'
    BY <2>2, <2>3, <2>4 DEF LengthFrom, RunSent, StopSent, Closing
  <2> QED
    BY <2>1, <2>5, <2>6 DEF OwnScriptInv, ScriptFrom, LengthFrom
<1>2. CASE ~OrchestratorRestart
  <2>1. PICK b \in Nat : b = cmdBase
    BY <1>t
  <2>2. ScriptFrom(b) /\ LengthFrom(b)
    BY <2>1 DEF OwnScriptInv, ScriptFrom, LengthFrom
  <2>3. /\ Orchestrator \/ UNCHANGED <<ppc, cur, cmdHist>>
        /\ cmdBase' = b
    BY <1>2, <2>1, RestartOrchestratorOnly DEF OrchestratorStep, orchVars
  <2>4. ScriptFrom(b)' /\ LengthFrom(b)'
    BY <1>t, <2>2, <2>3, ScriptMoves
  <2> QED
    BY <2>3, <2>4 DEF OwnScriptInv, ScriptFrom, LengthFrom
<1> QED
  BY <1>1, <1>2

\* A place in the script is that of a RUN, of a STOP, or of QUIT.
LEMMA PlacesOfScript ==
  ASSUME NEW n \in Nat, NEW d \in 1..2 * n + 1
  PROVE  \/ \E k \in 1..n : d = 2 * k - 1
         \/ \E k \in 1..n : d = 2 * k
         \/ d = 2 * n + 1
<1> DEFINE k == (d + 1) \div 2
<1>1. k \in Nat /\ (d + 1 = 2 * k \/ d + 1 = 2 * k + 1)
  OBVIOUS
<1> HIDE DEF k
<1> QED
  BY <1>1

\* The kinds of the present process's commands.
LEMMA OwnKinds ==
  ASSUME RestartTypeOK, OwnScriptInv, NEW i \in cmdBase + 1..Len(cmdHist)
  PROVE  \/ \E k \in 1..N : i = cmdBase + 2 * k - 1 /\ cmdHist[i].kind = "RUN"
         \/ \E k \in 1..N : i = cmdBase + 2 * k /\ cmdHist[i].kind = "STOP"
         \/ i = cmdBase + 2 * N + 1 /\ cmdHist[i].kind = "QUIT"
<1> USE ScenFacts
<1>1. cmdBase \in Nat /\ Len(cmdHist) \in Nat
  BY LenProperties DEF RestartTypeOK, StateTypes
<1>2. /\ Len(cmdHist) <= cmdBase + 2 * N + 1
      /\ \A k \in 1..N :
           /\ cmdBase + 2 * k - 1 <= Len(cmdHist) =>
                cmdHist[cmdBase + 2 * k - 1].kind = "RUN"
           /\ cmdBase + 2 * k <= Len(cmdHist) =>
                cmdHist[cmdBase + 2 * k].kind = "STOP"
      /\ cmdBase + 2 * N + 1 <= Len(cmdHist) =>
           cmdHist[cmdBase + 2 * N + 1].kind = "QUIT"
  <2>1. /\ Len(cmdHist) <= cmdBase + 2 * N + 1
        /\ \A k \in 1..N :
             /\ cmdBase + 2 * k - 1 <= Len(cmdHist) =>
                  cmdHist[cmdBase + 2 * k - 1] = RunCmd(Scen[k])
             /\ cmdBase + 2 * k <= Len(cmdHist) =>
                  cmdHist[cmdBase + 2 * k] = StopCmd(Scen[k])
        /\ cmdBase + 2 * N + 1 <= Len(cmdHist) =>
             cmdHist[cmdBase + 2 * N + 1] = QuitCmd
    BY DEF OwnScriptInv, ScriptFrom, LengthFrom
  <2>2. /\ \A s : RunCmd(s).kind = "RUN" /\ StopCmd(s).kind = "STOP"
        /\ QuitCmd.kind = "QUIT"
    BY DEF RunCmd, StopCmd, QuitCmd
  <2> QED
    BY <2>1, <2>2
<1> DEFINE d == i - cmdBase
<1>3. d \in 1..2 * N + 1 /\ i = cmdBase + d
  BY <1>1, <1>2
<1> HIDE DEF d
<1>4. CASE \E k \in 1..N : d = 2 * k - 1
  BY <1>1, <1>2, <1>3, <1>4
<1>5. CASE \E k \in 1..N : d = 2 * k
  BY <1>1, <1>2, <1>3, <1>5
<1>6. CASE d = 2 * N + 1
  BY <1>1, <1>2, <1>3, <1>6
<1> QED
  BY <1>3, <1>4, <1>5, <1>6, PlacesOfScript

\* No RUN of the present process is followed by another one.
LEMMA RunThenStop ==
  ASSUME RestartTypeOK, OwnScriptInv, NEW i \in cmdBase + 1..Len(cmdHist),
         cmdHist[i].kind = "RUN"
  PROVE  ~RunAfter(i)
<1> USE ScenFacts
<1>1. cmdBase \in Nat /\ Len(cmdHist) \in Nat
  BY LenProperties DEF RestartTypeOK, StateTypes
<1>2. PICK k \in 1..N : i = cmdBase + 2 * k - 1
  BY OwnKinds
<1>3. CASE i = Len(cmdHist)
  BY <1>1, <1>3 DEF RunAfter
<1>4. CASE i # Len(cmdHist)
  <2>1. i + 1 = cmdBase + 2 * k /\ i + 1 <= Len(cmdHist)
    BY <1>1, <1>2, <1>4
  <2>2. cmdHist[cmdBase + 2 * k] = StopCmd(Scen[k])
    BY <2>1 DEF OwnScriptInv, ScriptFrom
  <2>3. cmdHist[i + 1].kind = "STOP"
    BY <2>1, <2>2 DEF StopCmd
  <2> QED
    BY <1>4, <2>3 DEF RunAfter
<1> QED
  BY <1>3, <1>4

\* What the follower has taken stays in the log.
LEMMA TakenStays ==
  ASSUME RestartTypeOK, OrchestratorStep \/ OrchestratorRestart
  PROVE  \A i \in 1..cmdTaken : cmdHist'[i] = cmdHist[i]
<1>t. /\ cmdHist \in Seq(Commands) /\ Len(cmdHist) \in Nat
      /\ cmdTaken \in 0..Len(cmdHist)
  BY LenProperties DEF RestartTypeOK, StateTypes
<1>1. ASSUME NEW n \in cmdTaken..Len(cmdHist), cmdHist' = SubSeq(cmdHist, 1, n)
      PROVE  \A i \in 1..cmdTaken : cmdHist'[i] = cmdHist[i]
  <2>1. n \in 0..Len(cmdHist)
    BY <1>t
  <2>2. \A i \in 1..n : cmdHist'[i] = cmdHist[i]
    BY <1>t, <1>1, <2>1, Beginning
  <2> QED
    BY <1>t, <2>2
<1>2. CASE OrchestratorRestart \/ Report
  BY <1>1, <1>2 DEF OrchestratorRestart, Report
<1>3. ASSUME SendRun \/ SendStop \/ SendQuit
      PROVE  \E c : cmdHist' = Append(cmdHist, c)
  BY <1>3 DEF SendRun, SendStop, SendQuit, Send
<1>4. CASE SendRun \/ SendStop \/ SendQuit
  <2>1. PICK c : cmdHist' = Append(cmdHist, c)
    BY <1>3, <1>4
  <2>2. \A i \in 1..Len(cmdHist) : cmdHist'[i] = cmdHist[i]
    BY <1>t, <2>1, AppendProperties
  <2> QED
    BY <1>t, <2>2
<1>5. ASSUME Orchestrator, ~SendRun, ~SendStop, ~SendQuit, ~Report
      PROVE  cmdHist' = cmdHist
  BY <1>5 DEF Orchestrator, Begin, ReadyAcked, ReadyTimeout, AckIgnored,
     CreateWriter, WriteSample, WritesDone, ResAcked, ResTimeout, Record
<1> QED
  BY <1>2, <1>4, <1>5 DEF OrchestratorStep

\* A reader is made by a RUN, and is gone when the next command has been dealt
\* with.
LEMMA LastCommandStep ==
  ASSUME RestartTypeOK, LastCommandInv, [RestartNext]_allVars
  PROVE  LastCommandInv'
<1>t. /\ Len(cmdHist) \in Nat /\ cmdTaken \in 0..Len(cmdHist)
      /\ spc \in {"poll", "ready", "drop", "done", "crashed"}
  BY LenProperties DEF RestartTypeOK, StateTypes
<1>1. CASE OrchestratorStep \/ OrchestratorRestart
  <2>1. UNCHANGED followVars
    BY <1>1, OrchestratorKeeps DEF OrchestratorStep, OrchestratorRestart
  <2>2. cmdTaken > 0 => cmdHist'[cmdTaken] = cmdHist[cmdTaken]
    BY <1>1, <1>t, TakenStays
  <2> QED
    BY <2>1, <2>2 DEF LastCommandInv, followVars
<1>2. ASSUME TakeRunLeaving \/ TakeRunClashing
      PROVE  LastCommandInv'
  <2>1. /\ cmdHist[cmdTaken + 1].kind = "RUN" /\ cmdTaken' = cmdTaken + 1
        /\ cmdHist' = cmdHist /\ (spc' = "crashed" => reader' = NoReader)
        /\ spc' # "done"
    BY <1>2 DEF TakeRunLeaving, TakeRunClashing, TakeRun, Take, NextCmd, orchVars
  <2> QED
    BY <1>t, <2>1 DEF LastCommandInv
<1>3. CASE Answer
  BY <1>3 DEF Answer, SendReady, TakeStop, LastCommandInv, orchVars
<1>4. CASE DropOwnReader \/ Quit \/ FollowerStartsAgain
  BY <1>4 DEF DropOwnReader, DropReader, Quit, TakeQuit, FollowerStartsAgain,
              LastCommandInv
<1>5. CASE UNCHANGED <<spc, reader, cmdTaken, cmdHist>>
  BY <1>5 DEF LastCommandInv
<1>6. ASSUME Data \/ LeakedData \/ UNCHANGED allVars
      PROVE  UNCHANGED <<spc, reader, cmdTaken, cmdHist>>
  BY <1>6 DEF Data, Network, Match, Deliver, LeakedData, LeakedMatch,
     LeakedDeliver, allVars, vars, orchVars, followVars
<1> QED
  BY <1>1, <1>2, <1>3, <1>4, <1>5, <1>6
     DEF RestartNext, FollowerStep, Over, Terminated, allVars

-----------------------------------------------------------------------------
(* The leaks *)

\* The places ahead are finitely many.
LEMMA LeaksAheadFinite ==
  ASSUME RestartTypeOK
  PROVE  /\ IsFiniteSet(LeaksAhead) /\ Cardinality(LeaksAhead) \in Nat
         /\ LeaksAhead \subseteq cmdTaken..Len(cmdHist)
<1>1. cmdTaken \in Int /\ Len(cmdHist) \in Int
  BY LenProperties DEF RestartTypeOK, StateTypes
<1>2. LeaksAhead \subseteq cmdTaken..Len(cmdHist)
  BY DEF LeaksAhead
<1>3. IsFiniteSet(LeaksAhead)
  BY <1>1, <1>2, FS_Interval, FS_Subset
<1> QED
  BY <1>2, <1>3, FS_CardinalityType

\* A step that leaks nothing and brings no new place ahead.
LEMMA NoNewLeak ==
  ASSUME RestartTypeOK, LeakInv, LeaksAhead' \subseteq LeaksAhead,
         UNCHANGED <<leaks, orchRestarts>>
  PROVE  LeakInv'
<1> DEFINE before == LeaksAhead
           after  == LeaksAhead'
<1>1. /\ IsFiniteSet(before) /\ Cardinality(before) \in Nat
      /\ leaks \in Nat /\ orchRestarts \in Nat
      /\ leaks + Cardinality(before) <= orchRestarts
  BY LeaksAheadFinite DEF RestartTypeOK, LeakInv
<1>2. after \subseteq before
  OBVIOUS
<1> HIDE DEF before, after
<1>3. Cardinality(after) <= Cardinality(before) /\ IsFiniteSet(after)
  BY <1>1, <1>2, FS_Subset
<1>4. Cardinality(after) \in Nat
  BY <1>3, FS_CardinalityType
<1>5. leaks + Cardinality(after) <= orchRestarts
  BY <1>1, <1>3, <1>4
<1> QED
  BY <1>5 DEF LeakInv, after

\* A RUN taken: the reader it leaves behind was foreseen, and the reader it
\* makes stands for the RUN in what is ahead.
LEMMA LeakAtRun ==
  ASSUME RestartTypeOK, LeakInv, Take("RUN"),
         UNCHANGED <<cmdHist, cmdBase, orchRestarts>>,
         leaks' = IF reader = NoReader THEN leaks ELSE leaks + 1
  PROVE  LeakInv'
<1> DEFINE before == LeaksAhead
           after  == LeaksAhead'
<1>t. /\ leaks \in Nat /\ orchRestarts \in Nat
      /\ Len(cmdHist) \in Nat /\ cmdTaken \in 0..Len(cmdHist)
  BY LenProperties DEF RestartTypeOK, StateTypes
<1>1. /\ spc = "poll" /\ cmdTaken < Len(cmdHist) /\ cmdTaken' = cmdTaken + 1
      /\ cmdHist[cmdTaken + 1].kind = "RUN"
  BY DEF Take, NextCmd
<1>2. after \subseteq before \ {cmdTaken}
  <2> SUFFICES ASSUME NEW i \in after
               PROVE  i \in before /\ i # cmdTaken
    OBVIOUS
  <2>1. i \in cmdTaken + 1..Len(cmdHist) /\ RunAfter(i)' /\ ReaderAfter(i)'
    BY <1>1 DEF LeaksAhead
  <2>2. RunAfter(i)
    BY <2>1 DEF RunAfter
  <2>3. cmdHist[i].kind = "RUN"
    BY <1>1, <1>t, <2>1 DEF ReaderAfter
  <2> QED
    BY <1>t, <2>1, <2>2, <2>3 DEF LeaksAhead, ReaderAfter
<1>3. reader # NoReader => cmdTaken \in before
  BY <1>t, <1>1 DEF LeaksAhead, ReaderAfter, RunAfter
<1>4. /\ IsFiniteSet(before) /\ Cardinality(before) \in Nat
      /\ leaks + Cardinality(before) <= orchRestarts
  BY LeaksAheadFinite DEF LeakInv
<1> HIDE DEF before, after
<1> DEFINE rest == before \ {cmdTaken}
<1>5. /\ IsFiniteSet(rest) /\ Cardinality(rest) \in Nat
      /\ Cardinality(rest) = IF cmdTaken \in before THEN Cardinality(before) - 1
                                                    ELSE Cardinality(before)
  BY <1>4, FS_RemoveElement, FS_CardinalityType
<1> HIDE DEF rest
<1>6. Cardinality(after) <= Cardinality(rest) /\ IsFiniteSet(after)
  BY <1>2, <1>5, FS_Subset DEF rest
<1>7. Cardinality(after) \in Nat
  BY <1>6, FS_CardinalityType
<1>8. leaks' + Cardinality(after) <= orchRestarts
  BY <1>t, <1>3, <1>4, <1>5, <1>6, <1>7
<1> QED
  BY <1>8 DEF LeakInv, after

\* A former process's log, cut short: one more place, where the RUN of the new
\* process will come.
LEMMA LeakAtRestart ==
  ASSUME RestartTypeOK, LeakInv, OrchestratorRestart
  PROVE  LeakInv'
<1> DEFINE before == LeaksAhead
           after  == LeaksAhead'
<1>t. /\ leaks \in Nat /\ orchRestarts \in Nat /\ cmdHist \in Seq(Commands)
      /\ Len(cmdHist) \in Nat /\ cmdTaken \in 0..Len(cmdHist)
  BY LenProperties DEF RestartTypeOK, StateTypes
<1>1. PICK n \in cmdTaken..Len(cmdHist) :
        cmdHist' = SubSeq(cmdHist, 1, n) /\ cmdBase' = n
  BY DEF OrchestratorRestart
<1>2. n \in 0..Len(cmdHist)
  BY <1>t
<1>3. Len(cmdHist') = n /\ \A i \in 1..n : cmdHist'[i] = cmdHist[i]
  BY <1>t, <1>1, <1>2, Beginning
<1>4. /\ UNCHANGED <<reader, spc, cmdTaken>> /\ leaks' = leaks
      /\ orchRestarts' = orchRestarts + 1
  BY DEF OrchestratorRestart, followVars
<1>5. after \subseteq before \cup {n}
  <2> SUFFICES ASSUME NEW i \in after, i # n
               PROVE  i \in before
    OBVIOUS
  <2>1. i \in cmdTaken..n /\ RunAfter(i)' /\ ReaderAfter(i)'
    BY <1>3, <1>4 DEF LeaksAhead
  <2>2. RunAfter(i)
    BY <1>t, <1>2, <1>3, <2>1 DEF RunAfter
  <2>3. ReaderAfter(i)
    BY <1>t, <1>2, <1>3, <1>4, <2>1 DEF ReaderAfter
  <2> QED
    BY <1>t, <1>2, <2>1, <2>2, <2>3 DEF LeaksAhead
<1>6. /\ IsFiniteSet(before) /\ Cardinality(before) \in Nat
      /\ leaks + Cardinality(before) <= orchRestarts
  BY LeaksAheadFinite DEF LeakInv
<1> HIDE DEF before, after
<1> DEFINE more == before \cup {n}
<1>7. /\ IsFiniteSet(more) /\ Cardinality(more) \in Nat
      /\ Cardinality(more) <= Cardinality(before) + 1
  <2>1. /\ IsFiniteSet(more)
        /\ Cardinality(more) = IF n \in before THEN Cardinality(before)
                                               ELSE Cardinality(before) + 1
    BY <1>6, FS_AddElement
  <2> QED
    BY <1>6, <2>1
<1> HIDE DEF more
<1>8. Cardinality(after) <= Cardinality(more) /\ IsFiniteSet(after)
  BY <1>5, <1>7, FS_Subset DEF more
<1>9. Cardinality(after) \in Nat
  BY <1>8, FS_CardinalityType
<1>10. leaks + Cardinality(after) <= orchRestarts + 1
  BY <1>t, <1>6, <1>7, <1>8, <1>9
<1> QED
  BY <1>4, <1>10 DEF LeakInv, after

\* Writing the script, and losing its end, brings no new place.
LEMMA ScriptAhead ==
  ASSUME RestartTypeOK, OwnScriptInv, LastCommandInv, OrchestratorStep
  PROVE  LeaksAhead' \subseteq LeaksAhead
<1> USE ScenFacts
<1>t. /\ cmdHist \in Seq(Commands) /\ Len(cmdHist) \in Nat /\ cmdBase \in Nat
      /\ cmdTaken \in 0..Len(cmdHist) /\ cur \in 1..N
      /\ spc \in {"poll", "ready", "drop", "done", "crashed"}
  BY LenProperties DEF RestartTypeOK, StateTypes
<1>f. UNCHANGED <<reader, spc, cmdTaken, cmdBase>>
  BY OrchestratorKeeps DEF OrchestratorStep, followVars
<1>1. ASSUME NEW c, cmdHist' = Append(cmdHist, c), cmdBase <= Len(cmdHist),
             c.kind = "RUN" => \/ cmdBase = Len(cmdHist)
                               \/ ~ReaderAfter(Len(cmdHist))
      PROVE  LeaksAhead' \subseteq LeaksAhead
  <2>1. /\ Len(cmdHist') = Len(cmdHist) + 1
        /\ \A i \in 1..Len(cmdHist) : cmdHist'[i] = cmdHist[i]
        /\ cmdHist'[Len(cmdHist) + 1] = c
    BY <1>1, <1>t, AppendProperties
  <2> SUFFICES ASSUME NEW i \in LeaksAhead'
               PROVE  i \in LeaksAhead
    OBVIOUS
  <2>2. /\ i \in cmdTaken..Len(cmdHist) + 1 /\ RunAfter(i)' /\ ReaderAfter(i)'
    BY <1>f, <2>1 DEF LeaksAhead
  <2>3. i # Len(cmdHist) + 1
    BY <1>1, <1>f, <1>t, <2>1, <2>2 DEF RunAfter
  <2>4. i \in cmdTaken..Len(cmdHist)
    BY <1>t, <2>2, <2>3
  <2>5. ReaderAfter(i)
    BY <1>f, <1>t, <2>1, <2>2, <2>4 DEF ReaderAfter
  <2>6. CASE i = Len(cmdHist)
    <3>1. c.kind = "RUN"
      BY <1>t, <2>1, <2>2, <2>6 DEF RunAfter
    <3> QED
      BY <1>1, <2>4, <2>5, <2>6, <3>1 DEF LeaksAhead, RunAfter
  <2>7. CASE i # Len(cmdHist)
    <3>1. RunAfter(i)
      BY <1>t, <2>1, <2>2, <2>4, <2>7 DEF RunAfter
    <3> QED
      BY <2>4, <2>5, <3>1 DEF LeaksAhead
  <2> QED
    BY <2>6, <2>7
<1>2. CASE SendRun
  <2>1. /\ cmdHist' = Append(cmdHist, RunCmd(scenario))
        /\ Len(cmdHist) = cmdBase + 2 * cur - 2
    BY <1>2 DEF SendRun, Send, OwnScriptInv, LengthFrom, RunSent, StopSent, Closing
  <2>2. ASSUME cmdBase # Len(cmdHist)
        PROVE  ~ReaderAfter(Len(cmdHist))
    <3>1. cur - 1 \in 1..N /\ Len(cmdHist) = cmdBase + 2 * (cur - 1)
      BY <1>t, <2>1, <2>2
    <3>2. cmdHist[Len(cmdHist)] = StopCmd(Scen[cur - 1])
      BY <1>t, <3>1 DEF OwnScriptInv, ScriptFrom
    <3>3. cmdHist[Len(cmdHist)].kind # "RUN"
      BY <3>2 DEF StopCmd
    <3> QED
      BY <1>t, <3>3 DEF ReaderAfter, LastCommandInv
  <2>3. cmdBase <= Len(cmdHist)
    BY <1>t, <2>1
  <2> QED
    BY <1>1, <2>1, <2>2, <2>3
<1>3. CASE SendStop
  <2>1. /\ cmdHist' = Append(cmdHist, StopCmd(scenario))
        /\ Len(cmdHist) = cmdBase + 2 * cur - 1
    BY <1>3 DEF SendStop, Send, OwnScriptInv, LengthFrom, RunSent, StopSent, Closing
  <2>2. StopCmd(scenario).kind # "RUN" /\ cmdBase <= Len(cmdHist)
    BY <1>t, <2>1 DEF StopCmd
  <2> QED
    BY <1>1, <2>1, <2>2
<1>4. CASE SendQuit
  <2>1. /\ cmdHist' = Append(cmdHist, QuitCmd)
        /\ Len(cmdHist) = cmdBase + 2 * N
    BY <1>4 DEF SendQuit, Send, OwnScriptInv, LengthFrom
  <2>2. QuitCmd.kind # "RUN" /\ cmdBase <= Len(cmdHist)
    BY <1>t, <2>1 DEF QuitCmd
  <2> QED
    BY <1>1, <2>1, <2>2
<1>5. CASE Report
  <2>1. PICK n \in cmdTaken..Len(cmdHist) : cmdHist' = SubSeq(cmdHist, 1, n)
    BY <1>5 DEF Report
  <2>2. n \in 0..Len(cmdHist)
    BY <1>t
  <2>3. Len(cmdHist') = n /\ \A i \in 1..n : cmdHist'[i] = cmdHist[i]
    BY <1>t, <2>1, <2>2, Beginning
  <2>4. cmdBase + 1 <= Len(cmdHist) /\ cmdHist[cmdBase + 1].kind = "RUN"
    <3>1. Len(cmdHist) = cmdBase + 2 * N + 1
      BY <1>5 DEF Report, OwnScriptInv, LengthFrom
    <3>2. 1 \in 1..N /\ cmdBase + 2 * 1 - 1 = cmdBase + 1 /\ cmdBase + 1 <= Len(cmdHist)
      BY <1>t, <3>1
    <3>3. cmdHist[cmdBase + 1] = RunCmd(Scen[1])
      BY <1>t, <3>2 DEF OwnScriptInv, ScriptFrom
    <3> QED
      BY <3>2, <3>3 DEF RunCmd
  <2> SUFFICES ASSUME NEW i \in LeaksAhead'
               PROVE  i \in LeaksAhead
    OBVIOUS
  <2>5. i \in cmdTaken..n /\ RunAfter(i)' /\ ReaderAfter(i)'
    BY <1>f, <2>3 DEF LeaksAhead
  <2>6. RunAfter(i)
    BY <1>f, <1>t, <2>2, <2>3, <2>4, <2>5 DEF RunAfter
  <2>7. ReaderAfter(i)
    BY <1>f, <1>t, <2>2, <2>3, <2>5 DEF ReaderAfter
  <2> QED
    BY <1>t, <2>2, <2>5, <2>6, <2>7 DEF LeaksAhead
<1>6. CASE cmdHist' = cmdHist
  BY <1>f, <1>6 DEF LeaksAhead, ReaderAfter, RunAfter
<1>7. ASSUME Orchestrator, ~SendRun, ~SendStop, ~SendQuit, ~Report
      PROVE  cmdHist' = cmdHist
  BY <1>7 DEF Orchestrator, Begin, ReadyAcked, ReadyTimeout, AckIgnored,
     CreateWriter, WriteSample, WritesDone, ResAcked, ResTimeout, Record
<1> QED
  BY <1>2, <1>3, <1>4, <1>5, <1>6, <1>7 DEF OrchestratorStep

\* The readers lost, and those that will be, are at most as many as the
\* restarts of the orchestrator.
LEMMA LeakStep ==
  ASSUME RestartTypeOK, OwnScriptInv, LastCommandInv, LeakInv, [RestartNext]_allVars
  PROVE  LeakInv'
<1>t. /\ cmdHist \in Seq(Commands) /\ Len(cmdHist) \in Nat /\ cmdBase \in Nat
      /\ cmdTaken \in 0..Len(cmdHist)
  BY LenProperties DEF RestartTypeOK, StateTypes
<1>1. CASE OrchestratorStep
  BY <1>1, ScriptAhead, NoNewLeak DEF OrchestratorStep
<1>2. CASE OrchestratorRestart
  BY <1>2, LeakAtRestart
<1>3. CASE TakeRunLeaving \/ TakeRunClashing
  <2>1. /\ Take("RUN") /\ UNCHANGED <<cmdHist, cmdBase, orchRestarts>>
        /\ leaked' = AfterPartitionChange(LeftBehind)
        /\ leaks' = leaks + Len(LeftBehind) - Len(leaked)
    BY <1>3 DEF TakeRunLeaving, TakeRunClashing, TakeRun, orchVars
  <2> QED
    BY <2>1, LeavingTypes, LeakAtRun
<1>4. ASSUME UNCHANGED <<cmdHist, cmdBase>>, cmdTaken' \in {cmdTaken, cmdTaken + 1},
             reader' = NoReader \/ spc' = "drop"
      PROVE  LeaksAhead' \subseteq LeaksAhead
  <2> SUFFICES ASSUME NEW i \in LeaksAhead'
               PROVE  i \in LeaksAhead
    OBVIOUS
  <2>1. i \in cmdTaken'..Len(cmdHist) /\ RunAfter(i)' /\ ReaderAfter(i)'
    BY <1>4 DEF LeaksAhead
  <2>2. i # cmdTaken' /\ cmdHist[i].kind = "RUN" /\ RunAfter(i)
    BY <1>4, <2>1 DEF ReaderAfter, RunAfter
  <2> QED
    BY <1>4, <1>t, <2>1, <2>2 DEF LeaksAhead, ReaderAfter
<1>5. ASSUME UNCHANGED <<cmdHist, cmdBase, cmdTaken, reader>>,
             spc' = "drop" <=> spc = "drop"
      PROVE  LeaksAhead' \subseteq LeaksAhead
  BY <1>5 DEF LeaksAhead, ReaderAfter, RunAfter
<1>6. CASE Answer
  <2>1. CASE SendReady
    BY <1>5, <1>6, <2>1, NoNewLeak DEF Answer, SendReady, orchVars
  <2>2. CASE TakeStop
    BY <1>4, <1>6, <2>2, NoNewLeak DEF Answer, TakeStop, Take, orchVars
  <2> QED
    BY <1>6, <2>1, <2>2 DEF Answer
<1>7. CASE DropOwnReader
  BY <1>4, <1>7, NoNewLeak DEF DropOwnReader, DropReader, orchVars, restartVars
<1>8. CASE Quit
  BY <1>4, <1>8, NoNewLeak DEF Quit, TakeQuit, Take, orchVars
<1>9. CASE Data \/ LeakedData \/ UNCHANGED allVars
  <2>1. UNCHANGED <<cmdHist, cmdBase, cmdTaken, reader, spc, leaks, orchRestarts>>
    BY <1>9 DEF Data, Network, Match, Deliver, LeakedData, LeakedMatch,
       LeakedDeliver, allVars, vars, orchVars, followVars, restartVars
  <2> QED
    BY <1>5, <2>1, NoNewLeak
<1>10. CASE FollowerStartsAgain
  <2>1. /\ UNCHANGED <<cmdHist, cmdBase, leaks, orchRestarts>>
        /\ cmdTaken' = cmdBase /\ reader' = NoReader
    BY <1>10 DEF FollowerStartsAgain, orchVars
  <2>2. ASSUME NEW i \in LeaksAhead'
        PROVE  FALSE
    <3>1. i \in cmdBase..Len(cmdHist) /\ RunAfter(i)' /\ ReaderAfter(i)'
      BY <2>1 DEF LeaksAhead
    <3>2. i # cmdBase /\ cmdHist[i].kind = "RUN" /\ RunAfter(i)
      BY <2>1, <3>1 DEF ReaderAfter, RunAfter
    <3>3. i \in cmdBase + 1..Len(cmdHist)
      BY <1>t, <3>1, <3>2
    <3> QED
      BY <3>2, <3>3, RunThenStop
  <2> QED
    BY <2>1, <2>2, NoNewLeak
<1> QED
  BY <1>1, <1>2, <1>3, <1>6, <1>7, <1>8, <1>9, <1>10
     DEF RestartNext, FollowerStep, Over, Terminated, allVars

-----------------------------------------------------------------------------
(* As long as no reader has been lost *)

\* What a step does while no reader is lost: a RUN finds none in place, and no
\* name is taken.
LEMMA StillNoLeak ==
  ASSUME RestartTypeOK, OwnReaderInv, [RestartNext]_allVars, leaks' = 0
  PROVE  /\ leaks = 0 /\ leaked = <<>>
         /\ TakeRunLeaving => reader = NoReader /\ leaked' = <<>>
         /\ ~TakeRunClashing /\ ~LeakedData
<1>t. leaks \in Nat
  BY DEF RestartTypeOK
<1>1. ASSUME TakeRunLeaving \/ TakeRunClashing
      PROVE  /\ leaks = 0 /\ reader = NoReader /\ leaked' \in Seq(LeakedReader)
             /\ Len(leaked') = Len(leaked)
  <2>1. /\ leaked' = AfterPartitionChange(LeftBehind)
        /\ leaks' = leaks + Len(LeftBehind) - Len(leaked)
    BY <1>1 DEF TakeRunLeaving, TakeRunClashing
  <2>2. /\ leaked' \in Seq(LeakedReader)
        /\ leaks' = IF reader = NoReader THEN leaks ELSE leaks + 1
        /\ Len(leaked') = IF reader = NoReader THEN Len(leaked) ELSE Len(leaked) + 1
    BY <2>1, LeavingTypes
  <2> QED
    BY <1>t, <2>2
<1>2. leaks = 0
  <2>1. ASSUME ~TakeRunLeaving, ~TakeRunClashing
        PROVE  leaks' = leaks
    BY <2>1 DEF RestartNext, OrchestratorStep, OrchestratorRestart, FollowerStep,
       Answer, DropOwnReader, Quit, Data, LeakedData, LeakedMatch, LeakedDeliver,
       FollowerStartsAgain, Over, allVars, restartVars
  <2> QED
    BY <1>1, <2>1
<1>3. leaked = <<>> /\ Len(leaked) = 0 /\ DOMAIN leaked = {}
  BY <1>2, EmptySeq DEF OwnReaderInv
<1>4. TakeRunLeaving => reader = NoReader /\ leaked' = <<>>
  BY <1>1, <1>3, EmptySeq
<1>5. ~TakeRunClashing
  BY <1>1, <1>3 DEF TakeRunClashing, NameClash, LeftBehind
<1>6. ~LeakedData
  BY <1>3 DEF LeakedData
<1> QED
  BY <1>2, <1>3, <1>4, <1>5, <1>6

\* The present process's first command is the RUN of the first scenario.
LEMMA FirstOwnCommand ==
  ASSUME RestartTypeOK, OwnScriptInv, NEW kind, Take(kind), cmdTaken = cmdBase
  PROVE  NextCmd = RunCmd(Scen[1]) /\ kind = "RUN"
<1> USE ScenFacts
<1>1. /\ Len(cmdHist) \in Nat /\ cmdBase \in Nat /\ cmdBase < Len(cmdHist)
      /\ NextCmd = cmdHist[cmdBase + 1] /\ NextCmd.kind = kind
  BY LenProperties DEF RestartTypeOK, StateTypes, Take, NextCmd
<1>2. 1 \in 1..N /\ cmdBase + 2 * 1 - 1 = cmdBase + 1 /\ cmdBase + 1 <= Len(cmdHist)
  BY <1>1
<1>3. cmdHist[cmdBase + 1] = RunCmd(Scen[1])
  BY <1>2 DEF OwnScriptInv, ScriptFrom
<1> QED
  BY <1>1, <1>3 DEF RunCmd

\* A step of the follower that answers or drops comes after a command of the
\* present process if the follower has then taken one.
LEMMA OwnBefore ==
  ASSUME RestartTypeOK, OwnScriptInv, Answer \/ DropOwnReader \/ Quit,
         cmdTaken' > cmdBase
  PROVE  cmdTaken > cmdBase
<1>t. cmdTaken \in Nat /\ cmdBase \in Nat
  BY LenProperties DEF RestartTypeOK, StateTypes
<1>1. CASE SendReady \/ DropReader
  BY <1>1 DEF SendReady, DropReader
<1>2. ASSUME NEW kind \in {"STOP", "QUIT"}, Take(kind)
      PROVE  cmdTaken > cmdBase
  <2>1. cmdTaken # cmdBase
    BY <1>2, FirstOwnCommand
  <2> QED
    BY <1>t, <1>2, <2>1 DEF Take
<1> QED
  BY <1>1, <1>2 DEF Answer, DropOwnReader, Quit, TakeStop, TakeQuit

\* The follower alternates over the present process's commands as it does in
\* the single run.
LEMMA OwnReaderStep ==
  ASSUME RestartTypeOK, OwnScriptInv, OwnReaderInv, [RestartNext]_allVars
  PROVE  OwnReaderInv'
<1> SUFFICES ASSUME leaks' = 0
             PROVE  /\ leaked' = <<>> /\ spc' # "crashed"
                    /\ cmdTaken' > cmdBase' => ReaderFrom(cmdBase)'
  BY DEF OwnReaderInv
<1> USE ScenFacts
<1>t. /\ StateTypes /\ cmdBase \in Nat /\ cmdTaken \in Nat /\ Len(cmdHist) \in Nat
      /\ cmdTaken <= Len(cmdHist)
  BY LenProperties DEF RestartTypeOK, StateTypes
<1>z. /\ leaks = 0 /\ leaked = <<>>
      /\ TakeRunLeaving => reader = NoReader /\ leaked' = <<>>
      /\ ~TakeRunClashing /\ ~LeakedData
  BY StillNoLeak
<1>h. /\ spc # "crashed"
      /\ cmdTaken > cmdBase => ReaderFrom(cmdBase)
  BY <1>z DEF OwnReaderInv
<1>b. PICK b \in Nat : b = cmdBase
  BY <1>t
<1>c. ScriptFrom(b) /\ LengthFrom(b) /\ (cmdTaken > b => ReaderFrom(b))
  BY <1>b, <1>h DEF OwnScriptInv, ScriptFrom, LengthFrom, ReaderFrom
<1>m. ASSUME Follower, cmdTaken > b, cmdBase' = b
      PROVE  ReaderFrom(cmdBase)'
  <2>1. ReaderFrom(b)'
    BY <1>m, <1>c, <1>t, FollowerMoves
  <2> QED
    BY <1>m, <2>1 DEF ReaderFrom
<1>1. ASSUME UNCHANGED <<spc, reader, subPart, cmdTaken, cmdBase>>, leaked' = leaked
      PROVE  /\ leaked' = <<>> /\ spc' # "crashed"
             /\ cmdTaken' > cmdBase' => ReaderFrom(cmdBase)'
  BY <1>1, <1>z, <1>h DEF ReaderFrom, ReaderFor
<1>2. ASSUME OrchestratorStep \/ Data \/ UNCHANGED allVars
      PROVE  UNCHANGED <<spc, reader, subPart, cmdTaken, cmdBase>> /\ leaked' = leaked
  BY <1>2, OrchestratorKeeps DEF OrchestratorStep, Data, Network, Match, Deliver,
     allVars, vars, followVars, restartVars
<1>3. CASE OrchestratorRestart
  <2>1. cmdBase' >= cmdTaken' /\ UNCHANGED spc
    BY <1>3, <1>t DEF OrchestratorRestart, followVars
  <2>2. DOMAIN leaked = {}
    BY <1>z, EmptySeq
  <2>3. leaked' = <<>>
    BY <1>3, <2>2 DEF OrchestratorRestart
  <2>4. cmdTaken' \in Nat /\ cmdBase' \in Nat
    BY <1>3, <1>t DEF OrchestratorRestart, followVars
  <2> QED
    BY <1>h, <2>1, <2>3, <2>4
<1>4. CASE TakeRunLeaving
  <2>1. /\ TakeRun /\ cmdBase' = b /\ cmdTaken' = cmdTaken + 1 /\ spc' = "ready"
        /\ Take("RUN") /\ cmdTaken < Len(cmdHist)
    BY <1>4, <1>b DEF TakeRunLeaving, TakeRun, Take
  <2>2. CASE cmdTaken > b
    BY <1>4, <1>m, <1>z, <2>1, <2>2 DEF Follower
  <2>3. CASE cmdTaken = b
    <3>1. NextCmd = RunCmd(Scen[1])
      BY <1>b, <2>1, <2>3, FirstOwnCommand
    <3>2. ReaderFor(1)'
      BY <2>1, <3>1 DEF TakeRun, ReaderFor, RunCmd
    <3>3. 1 \in 1..N /\ cmdTaken' = b + 2 * 1 - 1
      BY <1>t, <2>1, <2>3
    <3>4. ReaderFrom(b)'
      BY <2>1, <3>2, <3>3 DEF ReaderFrom
    <3> QED
      BY <1>4, <1>z, <2>1, <3>4 DEF ReaderFrom
  <2>4. CASE cmdTaken < b
    BY <1>4, <1>t, <1>z, <2>1, <2>4
  <2> QED
    BY <1>t, <1>b, <2>2, <2>3, <2>4
<1>5. CASE Answer \/ DropOwnReader \/ Quit
  <2>1. /\ Follower /\ cmdBase' = b /\ leaked' = <<>> /\ spc' # "crashed"
    BY <1>5, <1>b, <1>z DEF Answer, DropOwnReader, Quit, Follower, restartVars,
       SendReady, TakeStop, DropReader, TakeQuit
  <2> QED
    BY <1>5, <1>b, <1>m, <2>1, OwnBefore
<1>6. CASE FollowerStartsAgain
  BY <1>6, <1>t DEF FollowerStartsAgain
<1> QED
  BY <1>1, <1>2, <1>3, <1>4, <1>5, <1>6, <1>z
     DEF RestartNext, FollowerStep, Over, Terminated, allVars

\* The count of a follower that has lost no reader stays within the QoS.
LEMMA OwnCountStep ==
  ASSUME RestartTypeOK, OwnScriptInv, WriterInv, OwnReaderInv, OwnCountInv,
         [RestartNext]_allVars
  PROVE  OwnCountInv'
<1> SUFFICES ASSUME leaks' = 0, cmdTaken' > cmdBase'
             PROVE  CountInv'
  BY DEF OwnCountInv
<1> USE ScenFacts
<1>t. /\ StateTypes /\ cmdBase \in Nat /\ cmdTaken \in Nat /\ cur \in 1..N
      /\ Len(cmdHist) \in Nat
  BY LenProperties DEF RestartTypeOK, StateTypes
<1>z. leaks = 0 /\ ~TakeRunClashing /\ ~LeakedData
  BY StillNoLeak
<1>b. PICK b \in Nat : b = cmdBase
  BY <1>t
<1>1. ASSUME Orchestrator \/ Follower \/ Network, cmdTaken > cmdBase
      PROVE  CountInv'
  <2>1. LengthFrom(b) /\ ReaderFrom(b) /\ CountInv
    BY <1>1, <1>b, <1>z
       DEF OwnScriptInv, OwnReaderInv, OwnCountInv, LengthFrom, ReaderFrom
  <2> QED
    BY <1>1, <1>t, <2>1, CountMoves
<1>2. ASSUME OrchestratorStep \/ Data
      PROVE  /\ Orchestrator \/ Network
             /\ cmdTaken > cmdBase
  <2>1. /\ Orchestrator \/ Network
        /\ UNCHANGED <<cmdTaken, cmdBase>>
    BY <1>2, OrchestratorKeeps DEF OrchestratorStep, Data, Network, Match, Deliver,
       followVars, restartVars
  <2> QED
    BY <2>1
<1>3. CASE OrchestratorRestart \/ FollowerStartsAgain
  BY <1>3, <1>t DEF OrchestratorRestart, FollowerStartsAgain, followVars
<1>4. CASE TakeRunLeaving
  BY <1>4, <1>t, CountFromZero DEF TakeRunLeaving, TakeRun, orchVars
<1>5. CASE Answer \/ DropOwnReader \/ Quit
  <2>1. Follower /\ cmdBase' = cmdBase
    BY <1>5 DEF Answer, DropOwnReader, Quit, Follower, restartVars
  <2> QED
    BY <1>1, <1>5, <2>1, OwnBefore
<1>6. CASE UNCHANGED allVars
  <2>1. CountInv
    BY <1>6, <1>z DEF OwnCountInv, allVars, vars, followVars, restartVars
  <2> QED
    BY <1>6, <2>1 DEF CountInv, ReaderFor, scenario, allVars, vars, orchVars,
                      followVars
<1> QED
  BY <1>1, <1>2, <1>3, <1>4, <1>5, <1>6, <1>z
     DEF RestartNext, FollowerStep, Over, Terminated, allVars

\* A restarted orchestrator has no writer yet.
LEMMA RestartWriterStep ==
  ASSUME RestartTypeOK, WriterInv, [RestartNext]_allVars
  PROVE  WriterInv'
<1>t. StateTypes
  BY DEF RestartTypeOK
<1>1. CASE OrchestratorRestart
  BY <1>1 DEF OrchestratorRestart, WriterInv
<1>2. CASE ~OrchestratorRestart
  BY <1>2, <1>t, WriterStep, RestartOrchestratorOnly DEF OrchestratorStep, orchVars
<1> QED
  BY <1>1, <1>2

\* Answers are for commands already taken.  Those that a follower which has
\* lost no reader gives to the present process fit.
LEMMA OwnAckStep ==
  ASSUME RestartTypeOK, OwnScriptInv, OwnReaderInv, OwnCountInv, OwnAckInv,
         [RestartNext]_allVars
  PROVE  OwnAckInv'
<1> USE ScenFacts
<1>t. /\ StateTypes /\ cmdBase \in Nat /\ cmdTaken \in Nat /\ Len(cmdHist) \in Nat
      /\ ackHist \in Seq(Acks) /\ Len(ackHist) \in Nat /\ ackBase \in 0..Len(ackHist)
      /\ ackTaken \in 0..Len(ackHist)
      /\ answered \in Seq(Nat) /\ Len(answered) = Len(ackHist)
      /\ cmdTaken <= Len(cmdHist)
  BY LenProperties DEF RestartTypeOK, StateTypes
<1>a. \A i \in 1..Len(ackHist) : answered[i] \in Nat
  BY <1>t, ElementOfSeq
<1>z. leaks' = 0 => leaks = 0
  BY StillNoLeak
<1>h. /\ \A i \in ackBase + 1..Len(ackHist) : answered[i] <= cmdTaken
      /\ leaks = 0 =>
           \A i \in ackTaken + 1..Len(ackHist) :
             answered[i] > cmdBase => Fits(ackHist[i])
  BY DEF OwnAckInv
<1>1. ASSUME UNCHANGED <<ackHist, ackBase, cmdBase, answered>>,
             Orchestrator \/ UNCHANGED <<ppc, cur>>,
             ackTaken' \in Nat, ackTaken' >= ackTaken,
             cmdTaken' \in Nat, cmdTaken' >= cmdTaken
      PROVE  OwnAckInv'
  <2>1. ASSUME NEW i \in ackBase + 1..Len(ackHist)
        PROVE  answered[i] <= cmdTaken'
    BY <1>1, <1>a, <1>h, <1>t
  <2>2. ASSUME leaks' = 0, NEW i \in ackTaken' + 1..Len(ackHist),
               answered[i] > cmdBase
        PROVE  Fits(ackHist[i])'
    <3>1. i \in ackTaken + 1..Len(ackHist)
      <4>1. PICK m \in Nat : m = ackTaken'
        BY <1>1
      <4>2. i \in m + 1..Len(ackHist)
        BY <4>1, Zenon
      <4>3. m >= ackTaken
        BY <1>1, <4>1, Zenon
      <4> QED
        BY <1>t, <4>2, <4>3
    <3>2. Fits(ackHist'[i])
      BY <1>1, <1>h, <1>z, <2>2, <3>1
    <3> QED
      BY <1>1, <1>t, <3>2, FitsAfter
  <2> QED
    BY <1>1, <2>1, <2>2 DEF OwnAckInv
<1>2. CASE OrchestratorStep
  <2>1. /\ UNCHANGED <<ackHist, ackBase, cmdBase, answered, cmdTaken>>
        /\ ackTaken' \in {ackTaken, ackTaken + 1}
    <3>1. UNCHANGED followVars
      BY <1>2, OrchestratorKeeps DEF OrchestratorStep
    <3>2. ackTaken' \in {ackTaken, ackTaken + 1}
      BY <1>2 DEF OrchestratorStep, Orchestrator, Begin, SendRun, ReadyAcked,
         ReadyTimeout, AckIgnored, CreateWriter, WriteSample, WritesDone, SendStop,
         ResAcked, ResTimeout, Record, SendQuit, Report
    <3> QED
      BY <1>2, <3>1, <3>2 DEF OrchestratorStep, followVars
  <2> QED
    BY <1>1, <1>2, <1>t, <2>1 DEF OrchestratorStep
<1>3. CASE OrchestratorRestart
  <2>1. /\ UNCHANGED <<ackHist, ackBase, answered, cmdTaken>> /\ ackTaken' = ackBase
        /\ cmdBase' \in cmdTaken..Len(cmdHist)
    BY <1>3 DEF OrchestratorRestart, followVars
  <2>2. \A i \in ackTaken' + 1..Len(ackHist') : ~(answered'[i] > cmdBase')
    BY <1>t, <1>a, <1>h, <2>1
  <2> QED
    BY <1>h, <2>1, <2>2 DEF OwnAckInv
<1>4. CASE TakeRunLeaving \/ TakeRunClashing
  BY <1>1, <1>4, <1>t
     DEF TakeRunLeaving, TakeRunClashing, TakeRun, Take, orchVars
<1>5. CASE DropOwnReader \/ Quit
  BY <1>1, <1>5, <1>t
     DEF DropOwnReader, DropReader, Quit, TakeQuit, Take, orchVars, restartVars
<1>6. CASE Data \/ LeakedData \/ UNCHANGED allVars
  <2>1. UNCHANGED <<ackHist, ackBase, cmdBase, answered, ppc, cur, ackTaken, cmdTaken>>
    BY <1>6 DEF Data, Network, Match, Deliver, LeakedData, LeakedMatch,
       LeakedDeliver, allVars, vars, orchVars, followVars, restartVars
  <2> QED
    BY <1>1, <1>t, <2>1
<1>7. CASE FollowerStartsAgain
  <2>1. PICK n \in ackTaken..Len(ackHist) : /\ ackHist' = SubSeq(ackHist, 1, n)
                                            /\ answered' = SubSeq(answered, 1, n)
                                            /\ ackBase' = n
    BY <1>7 DEF FollowerStartsAgain
  <2>2. n \in 0..Len(ackHist) /\ n \in 0..Len(answered)
    BY <1>t
  <2>3. /\ Len(ackHist') = n
        /\ \A i \in 1..n : ackHist'[i] = ackHist[i] /\ answered'[i] = answered[i]
    BY <1>t, <2>1, <2>2, Beginning
  <2>4. UNCHANGED <<ppc, cur, ackTaken, cmdBase, leaks>>
    BY <1>7 DEF FollowerStartsAgain, orchVars
  <2>5. ASSUME leaks = 0, NEW i \in ackTaken + 1..n, answered'[i] > cmdBase
        PROVE  Fits(ackHist[i])'
    <3>1. i \in 1..n /\ i \in ackTaken + 1..Len(ackHist)
      BY <1>t, <2>2
    <3>2. Fits(ackHist'[i])
      BY <1>h, <2>3, <2>5, <3>1
    <3> QED
      BY <1>t, <2>4, <3>2, FitsAfter
  <2>6. \A i \in ackBase' + 1..Len(ackHist') : FALSE
    BY <2>1, <2>2, <2>3
  <2> QED
    BY <2>3, <2>4, <2>5, <2>6 DEF OwnAckInv
<1>8. CASE Answer
  <2>1. /\ cmdTaken' \in Nat /\ cmdTaken' >= cmdTaken
        /\ SendReady \/ TakeStop
        /\ answered' = Append(answered, cmdTaken')
        /\ UNCHANGED <<ppc, cur, ackTaken, ackBase, cmdBase, leaks>>
    BY <1>8, <1>t DEF Answer, SendReady, TakeStop, Take, orchVars
  <2>2. PICK a : ackHist' = Append(ackHist, a)
    BY <1>8 DEF Answer, SendReady, TakeStop, Reply
  <2>3. /\ Len(ackHist') = Len(ackHist) + 1
        /\ \A i \in 1..Len(ackHist) :
             ackHist'[i] = ackHist[i] /\ answered'[i] = answered[i]
        /\ ackHist'[Len(ackHist) + 1] = a
        /\ answered'[Len(ackHist) + 1] = cmdTaken'
    BY <1>t, <2>1, <2>2, AppendProperties
  <2>4. ASSUME NEW i \in ackBase + 1..Len(ackHist')
        PROVE  answered'[i] <= cmdTaken'
    <3>1. CASE i = Len(ackHist) + 1
      <4>1. answered'[i] = cmdTaken'
        BY <2>3, <3>1
      <4> QED
        BY <2>1, <4>1
    <3>2. CASE i # Len(ackHist) + 1
      <4>1. i \in ackBase + 1..Len(ackHist) /\ i \in 1..Len(ackHist)
        BY <1>t, <2>3, <3>2
      <4>2. answered[i] <= cmdTaken /\ answered[i] \in Nat /\ answered'[i] = answered[i]
        BY <1>a, <1>h, <2>3, <4>1
      <4> QED
        BY <1>t, <2>1, <4>2
    <3> QED
      BY <3>1, <3>2
  <2>5. ASSUME leaks = 0, cmdTaken' > cmdBase
        PROVE  Fits(a)
    <3>1. cmdTaken > cmdBase
      BY <1>8, <2>5, OwnBefore
    <3>2. PICK b \in Nat : b = cmdBase
      BY <1>t
    <3>3. ScriptFrom(b) /\ LengthFrom(b) /\ ReaderFrom(b) /\ CountInv
      BY <2>5, <3>1, <3>2 DEF OwnScriptInv, OwnReaderInv, OwnCountInv, ScriptFrom,
         LengthFrom, ReaderFrom
    <3>4. PICK c \in Acks : ackHist' = Append(ackHist, c) /\ Fits(c)
      BY <1>t, <2>1, <3>3, NewAnswer
    <3>5. ackHist'[Len(ackHist) + 1] = c
      BY <1>t, <3>4, AppendProperties
    <3> QED
      BY <2>3, <3>4, <3>5
  <2>6. ASSUME leaks = 0, NEW i \in ackTaken + 1..Len(ackHist'), answered'[i] > cmdBase
        PROVE  Fits(ackHist[i])'
    <3>1. Fits(ackHist'[i])
      <4>1. CASE i = Len(ackHist) + 1
        BY <2>3, <2>5, <2>6, <4>1
      <4>2. CASE i # Len(ackHist) + 1
        <5>1. i \in ackTaken + 1..Len(ackHist) /\ i \in 1..Len(ackHist)
          BY <1>t, <2>3, <4>2
        <5> QED
          BY <1>h, <2>3, <2>6, <5>1
      <4> QED
        BY <4>1, <4>2
    <3> QED
      BY <1>t, <2>1, <3>1, FitsAfter
  <2> QED
    BY <2>1, <2>4, <2>6 DEF OwnAckInv
<1> QED
  BY <1>2, <1>3, <1>4, <1>5, <1>6, <1>7, <1>8
     DEF RestartNext, FollowerStep, Over, Terminated, allVars

\* A count that reaches the table is within the QoS of its scenario, or was an
\* answer to a former process, or was counted after a leak.
LEMMA OwnResultStep ==
  ASSUME RestartTypeOK, OwnReaderInv, OwnAckInv, OwnResultInv, [RestartNext]_allVars
  PROVE  OwnResultInv'
<1> USE ScenFacts
<1>t. /\ StateTypes /\ leaks \in Nat /\ cur \in 1..N
      /\ results \in Seq(Nat \cup {NoCount})
      /\ Len(ackHist) \in Nat /\ ackTaken \in 0..Len(ackHist) /\ cmdBase \in Nat
      /\ \A i \in 1..Len(ackHist) : answered[i] \in Nat
  BY LenProperties, ElementOfSeq DEF RestartTypeOK, StateTypes
<1>s. OrchestratorStep => stale \subseteq stale' /\ leaks' = leaks
  BY DEF OrchestratorStep
<1>1. CASE OrchestratorRestart
  <2>1. /\ results' = <<>> /\ ppc' = "begin" /\ cur' = 1
    BY <1>1 DEF OrchestratorRestart
  <2>2. Len(results') = 0
    BY <2>1, EmptySeq
  <2> QED
    BY <2>1, <2>2 DEF OwnResultInv, WrongCountExplained, Closing
<1>2. ASSUME stale \subseteq stale', leaks' = 0 => leaks = 0, leaks' \in Nat,
             UNCHANGED <<cur, results>>, Closing' <=> Closing,
             leaks' = 0 /\ ppc' # "begin" =>
               count' \in Outcomes(scenario) \/ cur \in stale'
      PROVE  OwnResultInv'
  BY <1>2 DEF OwnResultInv, WrongCountExplained, scenario
<1>3. CASE OrchestratorStep /\ Begin
  <2>1. count' = NoCount /\ UNCHANGED <<cur, results>> /\ ~Closing /\ ~Closing'
    BY <1>3 DEF Begin, Closing
  <2> QED
    BY <1>2, <1>3, <1>s, <1>t, <2>1 DEF Outcomes
<1>4. CASE OrchestratorStep /\ ResAcked
  <2>1. UNCHANGED <<cur, results>> /\ ~Closing /\ ~Closing' /\ ppc = "res"
    BY <1>4 DEF ResAcked, Closing
  <2>2. ackTaken + 1 \in 1..Len(ackHist) /\ ackTaken + 1 \in ackTaken + 1..Len(ackHist)
    BY <1>4, <1>t DEF ResAcked
  <2>3. ASSUME leaks = 0
        PROVE  count' \in Outcomes(scenario) \/ cur \in stale'
    <3>1. CASE answered[ackTaken + 1] > cmdBase
      <4>1. Fits(ackHist[ackTaken + 1])
        BY <2>2, <2>3, <3>1 DEF OwnAckInv
      <4> QED
        BY <1>4, <1>t, <4>1, AcceptedCount
    <3>2. CASE ~(answered[ackTaken + 1] > cmdBase)
      <4>1. CASE count' = count
        BY <1>s, <1>4, <2>1, <2>3, <4>1 DEF OwnResultInv
      <4>2. CASE count' # count
        <5>1. answered[ackTaken + 1] <= cmdBase
          BY <1>t, <2>2, <3>2
        <5> QED
          BY <1>4, <2>1, <4>2, <5>1 DEF OrchestratorStep
      <4> QED
        BY <4>1, <4>2
    <3> QED
      BY <3>1, <3>2
  <2> QED
    BY <1>2, <1>4, <1>s, <1>t, <2>1, <2>3
<1>5. CASE OrchestratorStep /\ Record
  <2>1. /\ results' = Append(results, count) /\ count' = count
        /\ Len(results) = cur - 1 /\ leaks' = leaks /\ stale \subseteq stale'
        /\ leaks = 0 => count \in Outcomes(Scen[cur]) \/ cur \in stale
        /\ count \in Nat \cup {NoCount}
    <3>1. /\ results' = Append(results, count) /\ count' = count /\ ppc = "record"
      BY <1>5 DEF Record
    <3>2. count \in Nat \cup {NoCount}
      BY <1>t DEF StateTypes
    <3> QED
      BY <1>5, <1>s, <3>1, <3>2 DEF OwnResultInv, Closing, scenario
  <2>2. /\ Len(results') = cur
        /\ \A j \in 1..Len(results) : results'[j] = results[j]
        /\ results'[cur] = count
    BY <1>t, <2>1, AppendProperties
  <2>3. \A j \in 1..cur :
          results'[j] \notin Outcomes(Scen[j]) => j \in stale' \/ leaks' > 0
    <3> TAKE j \in 1..cur
    <3>1. CASE j < cur
      <4>1. j \in 1..Len(results)
        BY <1>t, <2>1, <3>1
      <4> QED
        BY <2>1, <2>2, <4>1 DEF OwnResultInv, WrongCountExplained
    <3>2. CASE j = cur
      BY <1>t, <2>1, <2>2, <3>2
    <3> QED
      BY <1>t, <3>1, <3>2
  <2>4. \/ ppc' = "begin" /\ cur' = cur + 1
        \/ ppc' = "quit" /\ cur' = cur /\ cur = N
    BY <1>5, <1>t DEF Record
  <2>5. Len(results') = IF Closing' THEN N ELSE cur' - 1
    BY <1>t, <2>2, <2>4 DEF Closing
  <2>6. ppc' # "begin" /\ leaks' = 0 =>
          count' \in Outcomes(scenario') \/ cur' \in stale'
    BY <2>1, <2>4 DEF scenario
  <2> QED
    BY <2>2, <2>3, <2>5, <2>6 DEF OwnResultInv, WrongCountExplained
<1>6. CASE OrchestratorStep /\ ~Begin /\ ~ResAcked /\ ~Record
  <2>1. /\ UNCHANGED <<cur, count, results>>
        /\ ppc # "begin" /\ (Closing' <=> Closing)
    BY <1>6 DEF OrchestratorStep, Orchestrator, SendRun, ReadyAcked, ReadyTimeout,
       AfterReady, AckIgnored, CreateWriter, WriteSample, WritesDone, SendStop,
       ResTimeout, SendQuit, Report, Closing
  <2> QED
    BY <1>2, <1>6, <1>s, <1>t, <2>1 DEF OwnResultInv
<1>7. CASE ~OrchestratorStep /\ ~OrchestratorRestart
  <2>1. UNCHANGED <<ppc, cur, count, results, stale>>
    BY <1>7, RestartOrchestratorOnly DEF orchVars
  <2>2. leaks' = 0 => leaks = 0
    BY StillNoLeak
  <2>3. leaks' \in Nat
    <3>1. CASE TakeRunLeaving \/ TakeRunClashing
      BY <3>1, LeavingTypes DEF TakeRunLeaving, TakeRunClashing
    <3>2. CASE ~TakeRunLeaving /\ ~TakeRunClashing
      <4>1. leaks' = leaks
        BY <1>7, <3>2 DEF RestartNext, FollowerStep, Answer, DropOwnReader, Quit,
           Data, LeakedData, LeakedMatch, LeakedDeliver, FollowerStartsAgain, Over,
           allVars, restartVars
      <4> QED
        BY <1>t, <4>1
    <3> QED
      BY <3>1, <3>2
  <2>4. Closing' <=> Closing
    BY <2>1 DEF Closing
  <2> QED
    BY <1>2, <2>1, <2>2, <2>3, <2>4 DEF OwnResultInv
<1> QED
  BY <1>1, <1>3, <1>4, <1>5, <1>6, <1>7

-----------------------------------------------------------------------------
(* The inductive invariant and its consequences *)

\* The inductive invariant holds initially.
LEMMA RestartInvInit == RestartInit => RestartInv
<1> SUFFICES ASSUME RestartInit PROVE RestartInv
  OBVIOUS
<1> USE ScenFacts
<1>1. IInv /\ RestartTypeOK
  BY IInvInit, RestartTypeInit DEF RestartInit
<1>2. /\ cmdBase = 0 /\ ackBase = 0 /\ cmdTaken = 0 /\ reader = NoReader
      /\ spc = "poll" /\ leaks = 0 /\ leaked = <<>> /\ orchRestarts = 0
      /\ Len(cmdHist) = 0 /\ Len(ackHist) = 0 /\ Len(results) = 0
  BY EmptySeq DEF RestartInit, Init
<1>3. OwnScriptInv
  BY <1>1, <1>2 DEF IInv, ScriptInv, OwnScriptInv, ScriptFrom, LengthFrom
<1>4. LastCommandInv /\ OwnReaderInv /\ OwnCountInv
  BY <1>2 DEF LastCommandInv, OwnReaderInv, OwnCountInv
<1>5. LeakInv
  <2>1. LeaksAhead = {}
    BY <1>2 DEF LeaksAhead, ReaderAfter
  <2> QED
    BY <1>2, <2>1, FS_EmptySet DEF LeakInv
<1>6. WriterInv
  BY <1>1 DEF IInv
<1>7. OwnAckInv
  <2>1. ackTaken = 0
    BY DEF RestartInit, Init
  <2> QED
    BY <1>2, <2>1 DEF OwnAckInv
<1>8. OwnResultInv
  BY <1>2 DEF RestartInit, Init, OwnResultInv, WrongCountExplained, Closing
<1> QED
  BY <1>1, <1>3, <1>4, <1>5, <1>6, <1>7, <1>8 DEF RestartInv

\* Every step preserves it.
LEMMA RestartInvStep == RestartInv /\ [RestartNext]_allVars => RestartInv'
<1> SUFFICES ASSUME RestartInv, [RestartNext]_allVars
             PROVE  RestartInv'
  OBVIOUS
<1> USE DEF RestartInv
<1>1. RestartTypeOK'
  <2>1. ppc = "report" => Len(results) = N
    BY DEF OwnResultInv, Closing
  <2>2. ppc # "done" => cmdBase <= Len(cmdHist)
    <3>1. /\ cmdBase \in Nat /\ Len(cmdHist) \in Nat /\ cur \in 1..N /\ N \in Nat
          /\ ppc \in {"begin", "run", "ready", "create", "write", "stop", "res",
                      "record", "quit", "report", "done"}
      BY LenProperties, ScenFacts DEF RestartTypeOK, StateTypes
    <3> QED
      BY <3>1 DEF OwnScriptInv, LengthFrom, StopSent, Closing
  <2> QED
    BY <2>1, <2>2, RestartTypeStep
<1> QED
  BY <1>1, OwnScriptStep, LastCommandStep, LeakStep, RestartWriterStep, OwnReaderStep,
     OwnCountStep, OwnAckStep, OwnResultStep

\* The inductive invariant holds in every reachable state.
THEOREM RestartInvariance == RestartSpec => []RestartInv
BY RestartInvInit, RestartInvStep, PTL DEF RestartSpec

\* Every variable keeps its type, however often either side starts again.
THEOREM RestartTypeCorrect == RestartSpec => []RestartTypeOK
<1>1. RestartInv => RestartTypeOK
  BY DEF RestartInv
<1> QED
  BY RestartInvariance, <1>1, PTL

\* A restart of the orchestrator costs the follower at most one reader
\* (auto_sub.cpp:136-160).
THEOREM FewLeaks == RestartSpec => []LeaksBounded
<1>1. RestartInv => LeaksBounded
  <2> SUFFICES ASSUME RestartInv PROVE LeaksBounded
    OBVIOUS
  <2>1. leaks + Cardinality(LeaksAhead) <= orchRestarts
    BY DEF RestartInv, LeakInv
  <2>2. leaks \in Nat /\ orchRestarts \in Nat /\ Cardinality(LeaksAhead) \in Nat
    BY LeaksAheadFinite DEF RestartInv, RestartTypeOK
  <2> QED
    BY <2>1, <2>2 DEF LeaksBounded
<1> QED
  BY RestartInvariance, <1>1, PTL

\* A count that the scenario's QoS does not allow is an answer to a former
\* orchestrator's command, or was counted after a reader was lost
\* (auto_pub.cpp:120-135, auto_sub.cpp:136-146).
THEOREM WrongCounts == RestartSpec => []WrongCountExplained
<1>1. RestartInv => WrongCountExplained
  BY DEF RestartInv, OwnResultInv
<1> QED
  BY RestartInvariance, <1>1, PTL
=============================================================================
