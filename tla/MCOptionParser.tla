--------------------------- MODULE MCOptionParser ---------------------------
(***************************************************************************)
(* Arguments for TLC: a number option, a text option, a kind option, help, *)
(* numbers, and words that are a spelling of one kind or of none.          *)
(***************************************************************************)
EXTENDS OptionParser

FewTokens ==
  {"--depth", "--name", "--reliability", "--help", "5", "0", "be", "re", "x"}

\* atoi of a text that is not a number is 0.
FewNumbers == [t \in FewTokens |-> IF t = "5" THEN 5 ELSE 0]
=============================================================================
