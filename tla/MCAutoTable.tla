---------------------------- MODULE MCAutoTable -----------------------------
(***************************************************************************)
(* The automatic test on the scenario list of the code.                    *)
(***************************************************************************)
EXTENDS AutoRunner, ScenarioTable
=============================================================================
