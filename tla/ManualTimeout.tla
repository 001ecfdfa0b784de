---------------------------- MODULE ManualTimeout ---------------------------
(***************************************************************************)
(* The manual programs with the number of ticks computed as subscriber.cpp *)
(* does, in an int: the product overflows for a large --timeout, and wraps *)
(* around in the builds of this program.  The width is a parameter, since  *)
(* TLC itself has no numbers beyond 32 bits.                               *)
(***************************************************************************)
EXTENDS ManualRun

CONSTANTS
  Seconds,   \* --timeout
  Width      \* bits of an int, 32 in the code

\* Two's complement of Width bits.
Wrapped(n) ==
  LET half == 2^(Width - 1)
  IN  ((n + half) % (2 * half)) - half

\* int ticks = args.timeout * 10
WrappedTicks == Wrapped(Seconds * 10)

LOCAL Default == [reliability |-> "RELIABLE", durability |-> "VOLATILE",
                  history |-> "KEEP_LAST", depth |-> 10]

\* The options of a run without arguments, but for the number of samples.
DefaultOptions ==
  {[wqos |-> Default, rqos |-> Default, samples |-> 2, wanted |-> 2,
    timely |-> FALSE]}

-----------------------------------------------------------------------------
\* A subscriber that ends with less than it asked for has waited its timeout:
\* "waits for the timeout (ends early when samples are received)"
\* (subscriber.cpp:72).
WaitsTheTimeout ==
  \A s \in Subs :
    code[s] \in {0, 2} /\ printed[s] < opt.wanted => stick[s] >= Seconds * 10
=============================================================================
