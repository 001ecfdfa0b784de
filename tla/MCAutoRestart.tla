---------------------------- MODULE MCAutoRestart ---------------------------
(* A filtered scenario and one whose reader joins late, one sample each for *)
(* the reader to count.                                                     *)
EXTENDS AutoRestart

LOCAL Row(name, dur, samples, late, filter) ==
  [name |-> name, pubRel |-> "re", subRel |-> "re",
   pubDur |-> dur, subDur |-> dur, his |-> "kl",
   depth |-> 1, samples |-> samples, late |-> late,
   expected |-> 1, check |-> "EXACT",
   pubPart |-> "", subPart |-> "", filter |-> filter]

FilteredThenLate == << Row("filter", "v", 2, FALSE, 1), Row("late", "tl", 1, TRUE, 0) >>
=============================================================================
