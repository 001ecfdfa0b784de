----------------------------- MODULE MCManualRun -----------------------------
(***************************************************************************)
(* Options for TLC: those of the README's command lines, with three        *)
(* samples for its twenty and a depth of two for its five.                 *)
(***************************************************************************)
EXTENDS ManualRun

LOCAL Q(rel, dur, his, depth) ==
  [reliability |-> rel, durability |-> dur, history |-> his, depth |-> depth]
LOCAL Same(q, wanted) ==
  [wqos |-> q, rqos |-> q, samples |-> 3, wanted |-> wanted,
   timely |-> FALSE]

LOCAL RV(depth) == Q("RELIABLE", "VOLATILE", "KEEP_LAST", depth)
LOCAL BV == Q("BEST_EFFORT", "VOLATILE", "KEEP_LAST", 3)
LOCAL RT(depth) == Q("RELIABLE", "TRANSIENT_LOCAL", "KEEP_LAST", depth)

\* The default, best effort, a late subscriber with and without a history
\* that is deep enough, KEEP_ALL, mismatch, a subscriber that wants fewer
\* than are sent, and a depth of zero.
LOCAL Untimely ==
  { Same(RV(3), 3), Same(BV, 3), Same(RT(2), 3),
    Same(Q("RELIABLE", "TRANSIENT_LOCAL", "KEEP_ALL", 2), 3),
    [Same(RV(3), 3) EXCEPT !.wqos = BV],
    Same(RV(3), 1), Same(RV(0), 3) }

\* Each of them with waits of any length, and with waits that are long enough.
ReadmeOptions ==
  {[o EXCEPT !.timely = t] : o \in Untimely, t \in BOOLEAN}
=============================================================================
