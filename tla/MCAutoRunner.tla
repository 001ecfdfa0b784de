---------------------------- MODULE MCAutoRunner ----------------------------
(***************************************************************************)
(* Small scenario lists for TLC.                                           *)
(***************************************************************************)
EXTENDS AutoRunner

LOCAL Row(name, dur, depth, samples, late, expected, check, pubP, subP,
          filter) ==
  [name |-> name, pubRel |-> "re", subRel |-> "re",
   pubDur |-> dur, subDur |-> dur, his |-> "kl",
   depth |-> depth, samples |-> samples, late |-> late,
   expected |-> expected, check |-> check,
   pubPart |-> pubP, subPart |-> subP, filter |-> filter]

\* A normal scenario with a filter, a mismatch between two that match, a late joiner whose
\* history is too short: each with another number of deliverable samples.
ThreeScenarios ==
  << Row("normal", "v", 1, 3, FALSE, 2, "EXACT", "", "", 1),
     Row("partition", "v", 1, 1, FALSE, 0, "ZERO", "A", "B", 0),
     Row("late", "tl", 1, 2, TRUE, 1, "EXACT", "", "", 0) >>

\* A filtered normal scenario after a late one.
TwoScenarios ==
  << Row("late", "tl", 2, 3, TRUE, 2, "EXACT", "", "", 0),
     Row("filter", "v", 3, 3, FALSE, 2, "EXACT", "A", "A", 1) >>
=============================================================================
