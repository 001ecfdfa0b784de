---------------------------- MODULE AutoRestart -----------------------------
(***************************************************************************)
(* The automatic test when the orchestrator, too, is killed and started    *)
(* again.  auto_pub.cpp begins with the first scenario; its reader is sent *)
(* every answer the follower has given (TRANSIENT_LOCAL), its writer's     *)
(* history starts empty.  auto_sub.cpp goes on as if nothing had happened. *)
(* It may have a reader when the next RUN arrives: dr and cft are          *)
(* overwritten, and the old DataReader stays in the data Subscriber with   *)
(* the same listener.                                                      *)
(*                                                                         *)
(* The steps are those of AutoRunner; the logs go on through a restart,    *)
(* with a base where the present process's own messages begin.             *)
(***************************************************************************)
EXTENDS AutoRunner

CONSTANT MaxOrchRestarts   \* bound: restarts of the orchestrator

ASSUME RestartAssumption == MaxOrchRestarts \in Nat

VARIABLES
  orchRestarts,  \* times the orchestrator was restarted
  cmdBase,       \* commands that a former orchestrator wrote
  ackBase,       \* answers that a former follower wrote
  leaked,        \* DataReaders without a pointer, with what they have seen
  answered,      \* history: answered[i] is the command that answer i is for
  leaks,         \* history: readers leaked
  stale          \* history: scenarios whose count answers a former command

restartVars == <<orchRestarts, cmdBase, ackBase, leaked, answered, leaks, stale>>
allVars     == <<vars, restartVars>>

RestartInit ==
  /\ Init
  /\ orchRestarts = 0 /\ cmdBase = 0 /\ ackBase = 0
  /\ leaked = <<>> /\ answered = <<>> /\ leaks = 0 /\ stale = {}

-----------------------------------------------------------------------------
(* Orchestrator *)

\* A count is of this run if it answers one of this process's own commands.
OrchestratorStep ==
  /\ Orchestrator
  /\ stale' = IF ppc = "res" /\ count' # count /\ answered[ackTaken + 1] <= cmdBase
                THEN stale \cup {cur} ELSE stale
  /\ UNCHANGED <<orchRestarts, cmdBase, ackBase, leaked, answered, leaks>>

\* A command that has not reached the follower is lost, and so is what the
\* writer had sent.  Every answer of the follower's process comes again.
OrchestratorRestart ==
  /\ orchRestarts < MaxOrchRestarts
  /\ ppc # "done"
  /\ orchRestarts' = orchRestarts + 1
  /\ ppc' = "begin" /\ cur' = 1 /\ writer' = 0
  /\ sent' = [k \in 1..N |-> 0]
  /\ pubPart' = {} /\ count' = NoCount /\ results' = <<>> /\ pass' = 0
  /\ \E n \in cmdTaken..Len(cmdHist) :
       cmdHist' = SubSeq(cmdHist, 1, n) /\ cmdBase' = n
  /\ ackTaken' = ackBase
  /\ Unmatch
  /\ leaked' = [l \in DOMAIN leaked |-> [leaked[l] EXCEPT !.cursor = cursor']]
  /\ stale' = {}
  /\ UNCHANGED <<followVars, ackBase, answered, leaks>>

-----------------------------------------------------------------------------
(* Follower *)

\* The readers that stay behind when the next RUN is taken.
LeftBehind ==
  IF reader = NoReader THEN leaked
                       ELSE Append(leaked, [reader |-> reader, cursor |-> cursor])

\* A change of the Subscriber's partition ends the matches that it forbids.
AfterPartitionChange(readers) ==
  [l \in DOMAIN readers |->
     IF PartitionsMeet(pubPart, subPart')
       THEN readers[l]
       ELSE [readers[l] EXCEPT !.cursor = [k \in 1..N |-> Unmatched]]]

\* "CFT_" and the name are still the name of a topic that a reader uses.
NameClash ==
  /\ NextCmd.filter # 0
  /\ \E l \in DOMAIN LeftBehind :
       /\ LeftBehind[l].reader.filter # 0
       /\ LeftBehind[l].reader.name = NextCmd.name

\* RUN does not look whether there is still a reader.
TakeRunLeaving ==
  /\ TakeRun
  /\ ~NameClash
  /\ leaked' = AfterPartitionChange(LeftBehind)
  /\ leaks' = leaks + Len(LeftBehind) - Len(leaked)
  /\ UNCHANGED <<orchRestarts, cmdBase, ackBase, answered, stale>>

\* create_contentfilteredtopic returns nullptr, create_datareader is called
\* with it: the process ends, or goes on without a reader.
TakeRunClashing ==
  /\ Take("RUN")
  /\ NameClash
  /\ subPart' = PartitionOf(NextCmd.part)
  /\ received' = 0
  /\ reader' = NoReader
  /\ Unmatch
  /\ leaked' = AfterPartitionChange(LeftBehind)
  /\ leaks' = leaks + Len(LeftBehind) - Len(leaked)
  /\ spc' \in {"ready", "crashed"}
  /\ UNCHANGED <<orchVars, ackHist, restarts,
                 orchRestarts, cmdBase, ackBase, answered, stale>>

\* Every answer is for the command taken last.
Answer ==
  /\ SendReady \/ TakeStop
  /\ answered' = Append(answered, cmdTaken')
  /\ UNCHANGED <<orchRestarts, cmdBase, ackBase, leaked, leaks, stale>>

\* Mutant: STOP does not delete the reader.
DropForgets ==
  /\ spc = "drop"
  /\ spc' = "poll"
  /\ UNCHANGED <<orchVars, reader, subPart, received, cmdTaken, ackHist, restarts,
                 cursor, restartVars>>

DropOwnReader == DropReader /\ UNCHANGED restartVars

\* The participant goes, and every reader with it.
Quit ==
  /\ TakeQuit
  /\ leaked' = <<>>
  /\ UNCHANGED <<orchRestarts, cmdBase, ackBase, answered, leaks, stale>>

FollowerStep ==
  TakeRunLeaving \/ TakeRunClashing \/ Answer \/ DropOwnReader \/ Quit

\* The new process is sent the commands of the present orchestrator's writer.
FollowerStartsAgain ==
  /\ restarts < MaxRestarts
  /\ spc # "done" /\ ppc # "done"
  /\ restarts' = restarts + 1
  /\ spc' = "poll" /\ reader' = NoReader /\ subPart' = {} /\ received' = 0
  /\ cmdTaken' = cmdBase
  /\ \E n \in ackTaken..Len(ackHist) :
       /\ ackHist' = SubSeq(ackHist, 1, n)
       /\ answered' = SubSeq(answered, 1, n)
       /\ ackBase' = n
  /\ Unmatch
  /\ leaked' = <<>>
  /\ UNCHANGED <<orchVars, orchRestarts, cmdBase, leaks, stale>>

-----------------------------------------------------------------------------
(* Network *)

Data == Network /\ UNCHANGED restartVars

\* A leaked reader is matched and served as any other, and shares the counter.
LeakedMatch(l, k) ==
  LET old == leaked[l] IN
  /\ writer = k
  /\ old.cursor[k] = Unmatched
  /\ RxO(WriterOf(Scen[k]), old.reader.qos)
  /\ PartitionsMeet(pubPart, subPart)
  /\ leaked' = [leaked EXCEPT ![l].cursor[k] =
                  SkippedAtMatch(WriterOf(Scen[k]), old.reader.qos, sent[k])]
  /\ UNCHANGED <<vars, orchRestarts, cmdBase, ackBase, answered, leaks, stale>>

LeakedDeliver(l, k, i) ==
  LET old == leaked[l] IN
  /\ old.cursor[k] # Unmatched
  /\ i \in old.cursor[k] + 1..sent[k]
  /\ Passes(old.reader.filter, i)
  /\ leaked' = [leaked EXCEPT ![l].cursor[k] = i]
  /\ received' = received + 1
  /\ UNCHANGED <<orchVars, spc, reader, subPart, cmdTaken, ackHist, restarts, cursor,
                 orchRestarts, cmdBase, ackBase, answered, leaks, stale>>

LeakedData ==
  \E l \in DOMAIN leaked, k \in 1..N :
    LeakedMatch(l, k) \/ \E i \in 1..sent[k] : LeakedDeliver(l, k, i)

-----------------------------------------------------------------------------
Over == Terminated /\ UNCHANGED restartVars

RestartNext ==
  \/ OrchestratorStep \/ FollowerStep \/ Data \/ LeakedData
  \/ OrchestratorRestart \/ FollowerStartsAgain \/ Over

RestartSpec == RestartInit /\ [][RestartNext]_allVars

-----------------------------------------------------------------------------
(* Properties *)

\* A crash of the orchestrator costs the follower at most one reader: however
\* often either side is restarted, no run leaks two (auto_sub.cpp:136-160).
LeaksBounded == leaks <= orchRestarts

\* There are two ways, and no third, in which a restart can put a count into
\* the table that the scenario's QoS does not allow: an answer to a command of
\* a former orchestrator, or a leaked reader (auto_pub.cpp:120-135,
\* auto_sub.cpp:136-146).
WrongCountExplained ==
  \A j \in 1..Len(results) :
    results[j] \notin Outcomes(Scen[j]) => j \in stale \/ leaks > 0

-----------------------------------------------------------------------------
(* The inductive invariant behind both *)

\* What a leaked reader is.
LeakedReader == [reader : Readers, cursor : [1..N -> Nat \cup {Unmatched}]]

\* Every variable has its type; each answer has the command it is for.
RestartTypeOK ==
  /\ StateTypes
  /\ spc \in {"poll", "ready", "drop", "done", "crashed"}
  /\ orchRestarts \in Nat /\ cmdBase \in Nat
  /\ ackBase \in 0..Len(ackHist)
  /\ leaked \in Seq(LeakedReader) /\ leaks \in Nat
  /\ answered \in Seq(Nat) /\ Len(answered) = Len(ackHist)
  /\ stale \subseteq 1..N

\* Behind its base, the command log is the present process's own script.
OwnScriptInv == ScriptFrom(cmdBase) /\ LengthFrom(cmdBase)

\* A reader is that of the command taken last.
LastCommandInv ==
  /\ spc = "ready" \/ (spc = "poll" /\ reader # NoReader) =>
       cmdTaken > 0 /\ cmdHist[cmdTaken].kind = "RUN"
  /\ spc \in {"done", "crashed"} => reader = NoReader

\* Whether there will be a reader once command i has been taken, and whether
\* the command that follows is a RUN.  Where the log ends, the next one is
\* the present process's first if it has not written any.
ReaderAfter(i) ==
  IF i = cmdTaken THEN reader # NoReader /\ spc # "drop"
                  ELSE cmdHist[i].kind = "RUN"
RunAfter(i) ==
  IF i = Len(cmdHist) THEN i = cmdBase ELSE cmdHist[i + 1].kind = "RUN"

\* The places ahead of the follower where it will lose a reader.
LeaksAhead == {i \in cmdTaken..Len(cmdHist) : ReaderAfter(i) /\ RunAfter(i)}

LeakInv == leaks + Cardinality(LeaksAhead) <= orchRestarts

\* The present process's commands, taken by a follower that has lost no
\* reader: as in AutoRunner.
OwnReaderInv ==
  leaks = 0 =>
    /\ leaked = <<>> /\ spc # "crashed"
    /\ cmdTaken > cmdBase => ReaderFrom(cmdBase)

OwnCountInv == leaks = 0 /\ cmdTaken > cmdBase => CountInv

\* Answers that a restarted orchestrator will see are for commands that its
\* follower has taken.  One that is still to be taken, and for a command of
\* the present process, is as in AutoRunner.
OwnAckInv ==
  /\ \A i \in ackBase + 1..Len(ackHist) : answered[i] <= cmdTaken
  /\ leaks = 0 =>
       \A i \in ackTaken + 1..Len(ackHist) : answered[i] > cmdBase =>
         Fits(ackHist[i])

OwnResultInv ==
  /\ Len(results) = IF Closing THEN N ELSE cur - 1
  /\ ppc # "begin" /\ leaks = 0 => count \in Outcomes(scenario) \/ cur \in stale
  /\ WrongCountExplained

RestartInv ==
  /\ RestartTypeOK /\ OwnScriptInv /\ LastCommandInv /\ LeakInv
  /\ WriterInv /\ OwnReaderInv /\ OwnCountInv /\ OwnAckInv /\ OwnResultInv
=============================================================================
