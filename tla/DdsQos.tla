------------------------------- MODULE DdsQos -------------------------------
(***************************************************************************)
(* QoS of the data topic: the codes used in the scenario table and on the  *)
(* wire ("re", "tl", "ka", ...), what the two runners turn them into, and  *)
(* what the middleware makes of a writer's QoS against a reader's.         *)
(*                                                                         *)
(* The matching rules and the history rules are Fast DDS's, which is not   *)
(* part of the repository; they are modelled from how the scenario table   *)
(* relies on them (its "expected" column).                                 *)
(***************************************************************************)
EXTENDS Integers

Reliability == {"RELIABLE", "BEST_EFFORT"}
Durability  == {"TRANSIENT_LOCAL", "VOLATILE"}
History     == {"KEEP_ALL", "KEEP_LAST"}

\* A string code other than the one tested for means the weaker QoS.
RelOf(v) == IF v = "re" THEN "RELIABLE" ELSE "BEST_EFFORT"
DurOf(v) == IF v = "tl" THEN "TRANSIENT_LOCAL" ELSE "VOLATILE"
HisOf(v) == IF v = "ka" THEN "KEEP_ALL" ELSE "KEEP_LAST"

\* Mutant: the depth of the scenario is not passed on.
DepthNotSet(d) == 1

\* A depth that is not positive leaves the default of Fast DDS, which is 1.
DepthOf(d) == IF d > 0 THEN d ELSE 1

\* set_qos after clear(): the empty partition name stays the default partition.
PartitionOf(name) == IF name = "" THEN {} ELSE {name}

Qos == [reliability : Reliability, durability : Durability,
        history : History, depth : Nat \ {0}]

MkQos(rel, dur, his, depth) ==
  [reliability |-> RelOf(rel), durability |-> DurOf(dur),
   history |-> HisOf(his), depth |-> DepthOf(depth)]

-----------------------------------------------------------------------------
(* Fast DDS *)

\* A writer must offer at least what the reader requests.
RxO(w, r) ==
  /\ r.reliability = "RELIABLE" => w.reliability = "RELIABLE"
  /\ r.durability = "TRANSIENT_LOCAL" => w.durability = "TRANSIENT_LOCAL"

\* Both in the default partition, or a partition in common.
PartitionsMeet(P, Q) ==
  \/ P = {} /\ Q = {}
  \/ P \cap Q # {}

\* How many of the last n samples a writer's history still holds.
Retained(w, n) ==
  IF w.history = "KEEP_ALL" \/ n <= w.depth THEN n ELSE w.depth

\* The samples a reader that matches after n samples will never see.
SkippedAtMatch(w, r, n) ==
  IF r.durability = "TRANSIENT_LOCAL" THEN n - Retained(w, n) ELSE n

\* A sample may miss a matched reader if the pair is not reliable, or if the
\* history that should repair the loss has already dropped it.
MayMiss(w, r, n, i) ==
  \/ r.reliability = "BEST_EFFORT"
  \/ i <= n - Retained(w, n)

\* The content filter "index > bound"; samples are numbered from 1, so a
\* bound of 0 stands for no filter.
Passes(bound, i) == i > bound

\* How many of the samples lo+1 .. hi pass the filter.
Passing(lo, bound, hi) ==
  LET from == IF lo > bound THEN lo ELSE bound
  IN  IF hi > from THEN hi - from ELSE 0
=============================================================================
