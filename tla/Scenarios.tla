----------------------------- MODULE Scenarios ------------------------------
(***************************************************************************)
(* The scenario list of auto_pub.cpp as a parameter: what a scenario is,   *)
(* the commands sent for it, the writer and the reader built for it, the   *)
(* verdict on its result, and the number of samples its QoS allows the     *)
(* reader to count.                                                        *)
(***************************************************************************)
EXTENDS DdsQos, Sequences, FiniteSets

CONSTANT Scen   \* the scenario list, in order

N == Len(Scen)

Check == {"EXACT", "ZERO", "NONZERO"}

\* "desc" is only printed. "filter" is the bound of the expression
\* "index > bound", 0 for none.
Scenario ==
  [name : STRING, pubRel : STRING, subRel : STRING,
   pubDur : STRING, subDur : STRING, his : STRING,
   depth : Nat, samples : Nat, late : BOOLEAN,
   expected : Nat, check : Check,
   pubPart : STRING, subPart : STRING, filter : Nat]

\* waitAck tells one scenario's answers from another's by the name alone.
ASSUME ScenAssumption ==
  /\ Scen \in Seq(Scenario)
  /\ N >= 1
  /\ \A i, j \in 1..N : Scen[i].name = Scen[j].name => i = j

-----------------------------------------------------------------------------
(* Control messages *)

RunCmd(s)  == [kind |-> "RUN", name |-> s.name, rel |-> s.subRel,
               dur |-> s.subDur, his |-> s.his, depth |-> s.depth,
               part |-> s.subPart, filter |-> s.filter]
StopCmd(s) == [kind |-> "STOP", name |-> s.name]
QuitCmd    == [kind |-> "QUIT"]

RunCommands == [kind : {"RUN"}, name : STRING, rel : STRING, dur : STRING,
                his : STRING, depth : Nat, part : STRING, filter : Nat]
Commands == RunCommands \cup [kind : {"STOP"}, name : STRING] \cup {QuitCmd}

ReadyAck(name)  == [kind |-> "READY", name |-> name]
ResAck(name, c) == [kind |-> "RES", name |-> name, count |-> c]

Acks == [kind : {"READY"}, name : STRING]
          \cup [kind : {"RES"}, name : STRING, count : Nat]

-----------------------------------------------------------------------------
(* Endpoints of the data topic *)

WriterOf(s) == MkQos(s.pubRel, s.pubDur, s.his, s.depth)

\* The reader built from a RUN command. "name" is not read by the data path:
\* it names the content-filtered topic and says whom the reader is for.
ReaderOf(cmd) ==
  [name |-> cmd.name, filter |-> cmd.filter,
   qos |-> MkQos(cmd.rel, cmd.dur, cmd.his, cmd.depth)]

Readers == [name : STRING, filter : Nat, qos : Qos]

-----------------------------------------------------------------------------
(* Results *)

NoCount == -1   \* no RES arrived in time

Verdict(s, c) ==
  /\ c >= 0
  /\ s.check = "EXACT"   => c = s.expected
  /\ s.check = "ZERO"    => c = 0
  /\ s.check = "NONZERO" => c > 0

\* The samples that the scenario's own reader can no longer get: none when
\* the reader is made first, those outside the history when it joins late.
Missed(s) ==
  IF s.late
    THEN SkippedAtMatch(WriterOf(s), ReaderOf(RunCmd(s)).qos, s.samples)
    ELSE 0

\* Whether the scenario's own writer and reader match at all.
Compatible(s) ==
  /\ RxO(WriterOf(s), ReaderOf(RunCmd(s)).qos)
  /\ PartitionsMeet(PartitionOf(s.pubPart), PartitionOf(s.subPart))

\* The most samples the QoS of a scenario lets its reader count.
Deliverable(s) ==
  IF Compatible(s) THEN Passing(Missed(s), s.filter, s.samples) ELSE 0

\* What may be recorded for a scenario: no answer, or a count within its QoS.
Outcomes(s) == {NoCount} \cup 0..Deliverable(s)
=============================================================================
