--------------------------- MODULE ScenarioTable ----------------------------
(***************************************************************************)
(* The fourteen scenarios that auto_pub.cpp runs, row by row ("desc", which *)
(* is only printed, left out).                                             *)
(***************************************************************************)
EXTENDS Integers, Sequences

\* A row without partitions or a filter: the defaults of the struct's fields.
Row(name, pRel, sRel, pDur, sDur, his, depth, n, late, exp, check) ==
  [name |-> name, pubRel |-> pRel, subRel |-> sRel,
   pubDur |-> pDur, subDur |-> sDur, his |-> his,
   depth |-> depth, samples |-> n, late |-> late,
   expected |-> exp, check |-> check,
   pubPart |-> "", subPart |-> "", filter |-> 0]

\* A row that gives them.
With(row, pubPart, subPart, filter) ==
  [row EXCEPT !.pubPart = pubPart, !.subPart = subPart, !.filter = filter]

Table == <<
  Row("1-1/2-1", "re", "re", "v",  "v",  "kl", 10, 10, FALSE, 10, "EXACT"),
  Row("2-2",     "re", "re", "v",  "v",  "kl", 10, 10, FALSE, 10, "EXACT"),
  Row("3-1-BE",  "be", "be", "v",  "v",  "kl", 10, 10, FALSE, 10, "NONZERO"),
  Row("3-1-RE",  "re", "re", "v",  "v",  "kl", 10, 10, FALSE, 10, "EXACT"),
  Row("3-2-VOL", "re", "re", "v",  "v",  "kl", 10, 10, TRUE,  0,  "ZERO"),
  Row("3-2-TL",  "re", "re", "tl", "tl", "kl", 10, 10, TRUE,  10, "EXACT"),
  Row("3-3-KL5", "re", "re", "tl", "tl", "kl", 5,  20, TRUE,  5,  "EXACT"),
  Row("3-3-KA",  "re", "re", "tl", "tl", "ka", 10, 20, TRUE,  20, "EXACT"),
  Row("3-4-a",   "be", "re", "v",  "v",  "kl", 10, 10, FALSE, 0,  "ZERO"),
  Row("3-4-b",   "re", "re", "v",  "tl", "kl", 10, 10, FALSE, 0,  "ZERO"),
  Row("3-4-c",   "re", "be", "v",  "v",  "kl", 10, 10, FALSE, 10, "NONZERO"),
  With(Row("4-1-PART-OK", "re", "re", "v", "v", "kl", 10, 10, FALSE, 10,
           "NONZERO"), "A", "A", 0),
  With(Row("4-1-PART-NO", "re", "re", "v", "v", "kl", 10, 10, FALSE, 0,
           "ZERO"), "A", "B", 0),
  With(Row("4-2-CFT", "re", "re", "v", "v", "kl", 10, 10, FALSE, 5,
           "EXACT"), "", "", 5) >>
=============================================================================
