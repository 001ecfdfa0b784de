----------------------------- MODULE ControlText ----------------------------
(***************************************************************************)
(* The control messages of one scenario as the texts they are: how         *)
(* auto_pub.cpp puts a scenario into a text, how field() on the other side *)
(* takes it out again, and how an answer finds its way back.  AutoRunner   *)
(* has records in their place; this module says for which scenarios that   *)
(* is right.                                                               *)
(*                                                                         *)
(* A text is a sequence of atoms: "|", a key with its "=", the beginning   *)
(* of a message, or anything else.  No key ends with another key.          *)
(***************************************************************************)
EXTENDS Integers, Sequences

CONSTANTS
  Names, Parts, Filters,  \* texts that name, sub_part and filter may have
  Numbers                 \* numbers that depth and the count may have

ASSUME TextAssumption ==
  /\ Names \cup Parts \cup Filters \subseteq Seq(STRING)
  /\ Numbers \subseteq 1..9

Digits == <<"1", "2", "3", "4", "5", "6", "7", "8", "9">>

\* std::to_string, and std::atoi, which gives 0 for a text without a number.
ToText(n) == <<Digits[n]>>
AtoI(text) ==
  IF text # <<>> /\ \E n \in 1..9 : Digits[n] = text[1]
    THEN CHOOSE n \in 1..9 : Digits[n] = text[1]
    ELSE 0

-----------------------------------------------------------------------------
(* field() *)

Positions(text, atom) == {i \in 1..Len(text) : text[i] = atom}

First(positions) == CHOOSE i \in positions : \A j \in positions : i <= j

Has(text, atom) == Positions(text, atom) # {}

\* The rest of the text from position p, up to the next separator.
UpToSeparator(text, p) ==
  LET ends == {e \in Positions(text, "|") : e >= p}
  IN  SubSeq(text, p, IF ends = {} THEN Len(text) ELSE First(ends) - 1)

\* Mutant: the last occurrence of the key is looked for.
FieldFromEnd(text, key) ==
  IF Has(text, key)
    THEN UpToSeparator(text, 1 + CHOOSE i \in Positions(text, key) :
                                   \A j \in Positions(text, key) : i >= j)
    ELSE <<>>

field(text, key) ==
  IF Has(text, key)
    THEN UpToSeparator(text, 1 + First(Positions(text, key)))
    ELSE <<>>

-----------------------------------------------------------------------------
(* Messages *)

\* The keys of a RUN command in their order, without the last one, "mode=",
\* that nobody reads.
Keys == <<"name=", "rel=", "dur=", "his=", "depth=", "part=", "filter=">>

KeySet == {Keys[i] : i \in DOMAIN Keys}

\* The texts of a scenario's fields, put together in the order of the code.
RunText(s) ==
  <<"CMD:RUN", "|", "name=">> \o s["name="] \o <<"|", "rel=">> \o s["rel="]
    \o <<"|", "dur=">> \o s["dur="] \o <<"|", "his=">> \o s["his="]
    \o <<"|", "depth=">> \o s["depth="] \o <<"|", "part=">> \o s["part="]
    \o <<"|", "filter=">> \o s["filter="] \o <<"|", "mode=", "normal">>

StopText(name)  == <<"CMD:STOP", "|", "name=">> \o name
ReadyText(name) == <<"ACK:READY", "|", "name=">> \o name

\* Mutant: the separator before the count is forgotten.
ResUnseparated(name, n) ==
  <<"ACK:RES", "|", "name=">> \o name \o <<"count=">> \o ToText(n)

ResText(name, n) ==
  <<"ACK:RES", "|", "name=">> \o name \o <<"|", "count=">> \o ToText(n)

-----------------------------------------------------------------------------
VARIABLES
  pc,       \* whose turn it is
  scen,     \* the texts of the scenario's fields, by key
  counted,  \* what the follower's listener counts in the scenario
  text,     \* the message on its way
  run,      \* the fields that the follower has read from RUN
  ready,    \* waitAck("READY") has returned
  count     \* what is recorded for the scenario

vars == <<pc, scen, counted, text, run, ready, count>>

NoCount == -1

Init ==
  /\ pc = "sendRun"
  /\ \E name \in Names, part \in Parts, filter \in Filters, depth \in Numbers :
       scen = [k \in KeySet |->
                 CASE k = "name=" -> name [] k = "part=" -> part
                   [] k = "filter=" -> filter [] k = "depth=" -> ToText(depth)
                   [] OTHER -> <<"code">>]
  /\ counted \in Numbers
  /\ text = <<>> /\ run = [k \in KeySet |-> <<>>]
  /\ ready = FALSE /\ count = NoCount

SendRun ==
  /\ pc = "sendRun"
  /\ text' = RunText(scen)
  /\ pc' = "takeRun"
  /\ UNCHANGED <<scen, counted, run, ready, count>>

\* The follower reads one field after the other, and answers.
TakeRun ==
  /\ pc = "takeRun" /\ text[1] = "CMD:RUN"
  /\ run' = [k \in KeySet |-> field(text, k)]
  /\ text' = ReadyText(run'["name="])
  /\ pc' = "waitReady"
  /\ UNCHANGED <<scen, counted, ready, count>>

\* What waitAck looks for.
IsAnswer(kind) == text[1] = kind /\ field(text, "name=") = scen["name="]

\* The wait returns, or times out; the scenario goes on.
WaitReady ==
  /\ pc = "waitReady"
  /\ ready' = IsAnswer("ACK:READY")
  /\ text' = StopText(scen["name="])
  /\ pc' = "takeStop"
  /\ UNCHANGED <<scen, counted, run, count>>

TakeStop ==
  /\ pc = "takeStop" /\ text[1] = "CMD:STOP"
  /\ text' = ResText(field(text, "name="), counted)
  /\ pc' = "waitRes"
  /\ UNCHANGED <<scen, counted, run, ready, count>>

WaitRes ==
  /\ pc = "waitRes"
  /\ count' = IF IsAnswer("ACK:RES") THEN AtoI(field(text, "count=")) ELSE NoCount
  /\ pc' = "done"
  /\ UNCHANGED <<scen, counted, text, run, ready>>

Recorded == pc = "done" /\ UNCHANGED vars

Next == SendRun \/ TakeRun \/ WaitReady \/ TakeStop \/ WaitRes \/ Recorded

Spec == Init /\ [][Next]_vars

-----------------------------------------------------------------------------
(* Properties *)

Plain(t) == ~Has(t, "|")

\* A value must not hold a separator, or the key of a field that comes after
\* it; the key of an earlier field does no harm.
Readable(s) ==
  \A i \in 1..7 :
    /\ Plain(s[Keys[i]])
    /\ \A j \in i + 1..7 : ~Has(s[Keys[i]], Keys[j])

\* The follower builds its reader from exactly the scenario's fields, empty
\* ones included, although nothing is escaped (auto_pub.cpp:145-148,
\* auto_sub.cpp:29-37,115-121).
FieldsReadBack ==
  pc \notin {"sendRun", "takeRun"} /\ Readable(scen) => run = scen

\* The answers to a scenario are recognized exactly if its name has no
\* separator in it - otherwise it has no result, rather than another one's -
\* and its count is read back if the name does not hold that key, too
\* (auto_pub.cpp:48-56,130,178,194, auto_sub.cpp:151,158).
AnswersFindBack ==
  pc = "done" =>
    /\ ready <=> Plain(scen["name="])
    /\ ready <=> count # NoCount
    /\ ready /\ ~Has(scen["name="], "count=") => count = counted

-----------------------------------------------------------------------------
(* The inductive invariant of the proofs *)

\* Texts, with the atoms of this module named one by one: they are strings,
\* but the provers do not know that a string they see is in STRING.
Atom ==
  STRING \cup {"|", "CMD:RUN", "CMD:STOP", "ACK:READY", "ACK:RES",
               "mode=", "normal", "count=", "code"}
    \cup KeySet \cup {Digits[n] : n \in 1..9}

Text == Seq(Atom)

\* What field() makes of a value: the part before its first separator.
Cut(v) == UpToSeparator(v, 1)

\* The text on its way is the message of the step, with as much of the name
\* as the follower could read.
TextInv ==
  /\ scen \in [KeySet -> Text] /\ counted \in 1..9
  /\ pc \in {"sendRun", "takeRun", "waitReady", "takeStop", "waitRes", "done"}
  /\ pc = "takeRun" => text = RunText(scen)
  /\ FieldsReadBack
  /\ pc = "waitReady" => text = ReadyText(Cut(scen["name="]))
  /\ pc = "takeStop" => text = StopText(scen["name="])
  /\ pc = "waitRes" => text = ResText(Cut(scen["name="]), counted)
  /\ pc \in {"takeStop", "waitRes"} => (ready <=> Plain(scen["name="]))
  /\ AnswersFindBack
=============================================================================
