---------------------------- MODULE ScenarioRun -----------------------------
(***************************************************************************)
(* What an automatic run promises, without processes or messages: one      *)
(* result per scenario, in the order of the list, each within the QoS of   *)
(* its own scenario, then the result table.                                *)
(***************************************************************************)
EXTENDS Naturals, Sequences

CONSTANTS
  Rounds,   \* how many scenarios there are
  Allowed   \* Allowed[j]: what may be recorded for the j-th

VARIABLES results,  \* counts recorded so far
          over      \* the result table has been printed
vars == <<results, over>>

Init == results = <<>> /\ over = FALSE

RecordResult ==
  /\ Len(results) < Rounds
  /\ \E c \in Allowed[Len(results) + 1] : results' = Append(results, c)
  /\ UNCHANGED over

Finish ==
  /\ Len(results) = Rounds
  /\ over = FALSE
  /\ over' = TRUE
  /\ UNCHANGED results

Next == RecordResult \/ Finish

Spec == Init /\ [][Next]_vars
=============================================================================
