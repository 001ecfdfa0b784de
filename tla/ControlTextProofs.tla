-------------------------- MODULE ControlTextProofs --------------------------
(***************************************************************************)
(* Proofs about ControlText, for fields of any length and any content.     *)
(***************************************************************************)
EXTENDS ControlText, SequenceTheorems, WellFoundedInduction, TLAPS

-----------------------------------------------------------------------------
(* What field() returns *)

\* The value w follows position p of the text, and then its end or a
\* separator.
ValueAt(t, p, w) ==
  /\ p + Len(w) <= Len(t)
  /\ \A i \in 1..Len(w) : t[p + i] = w[i] /\ w[i] # "|"
  /\ p + Len(w) < Len(t) => t[p + Len(w) + 1] = "|"

\* The first of some positions is the one that no other precedes.
LEMMA FirstIs ==
  ASSUME NEW P \in SUBSET Nat, NEW p \in P, \A q \in P : p <= q
  PROVE  First(P) = p
<1>1. \A q \in P : (\A j \in P : q <= j) => q = p
  OBVIOUS
<1> QED
  BY <1>1 DEF First

\* So that value is what is read there.
LEMMA ReadAt ==
  ASSUME NEW t \in Text, NEW p \in 0..Len(t), NEW w \in Text, ValueAt(t, p, w)
  PROVE  UpToSeparator(t, p + 1) = w
<1> DEFINE ends == {e \in Positions(t, "|") : e >= p + 1}
<1>1. Len(t) \in Nat /\ Len(w) \in Nat /\ p \in Nat
  BY LenProperties DEF Text
<1>2. \A e \in ends : e \in Nat /\ e >= p + Len(w) + 1 /\ e <= Len(t)
  <2> SUFFICES ASSUME NEW e \in ends, e < p + Len(w) + 1
               PROVE  FALSE
    BY <1>1 DEF Positions
  <2>1. e \in Nat /\ e >= p + 1 /\ t[e] = "|"
    BY <1>1 DEF Positions
  <2>2. e - p \in 1..Len(w) /\ p + (e - p) = e
    BY <1>1, <2>1
  <2> QED
    BY <2>1, <2>2 DEF ValueAt
<1>3. UpToSeparator(t, p + 1) = SubSeq(t, p + 1, p + Len(w))
  <2>1. CASE p + Len(w) = Len(t)
    <3>1. ends = {}
      BY <1>1, <1>2, <2>1
    <3> QED
      BY <2>1, <3>1 DEF UpToSeparator
  <2>2. CASE p + Len(w) < Len(t)
    <3> DEFINE e == p + Len(w) + 1
    <3>1. e \in ends /\ ends \in SUBSET Nat /\ \A q \in ends : e <= q
      BY <1>1, <1>2, <2>2 DEF ValueAt, Positions
    <3>2. First(ends) = e
      BY <3>1, FirstIs
    <3>3. ends # {} /\ First(ends) - 1 = p + Len(w)
      BY <1>1, <3>1, <3>2
    <3> QED
      BY <3>3 DEF UpToSeparator
  <2> QED
    BY <1>1, <2>1, <2>2 DEF ValueAt
<1>4. /\ SubSeq(t, p + 1, p + Len(w)) \in Text
      /\ Len(SubSeq(t, p + 1, p + Len(w))) = Len(w)
      /\ \A i \in 1..Len(w) : SubSeq(t, p + 1, p + Len(w))[i] = w[i]
  <2> DEFINE m == p + 1
             n == p + Len(w)
  <2>1. m \in Int /\ n \in Int /\ n - m + 1 = Len(w)
    BY <1>1
  <2>2. \A i \in m..n : t[i] \in Atom
    BY <1>1, ElementOfSeq DEF ValueAt, Text
  <2>3. /\ SubSeq(t, m, n) \in Seq(Atom)
        /\ Len(SubSeq(t, m, n)) = IF m <= n THEN n - m + 1 ELSE 0
        /\ \A i \in 1..n - m + 1 : SubSeq(t, m, n)[i] = t[m + i - 1]
    <3> HIDE DEF m, n
    <3> QED
      BY <2>1, <2>2, SubSeqProperties
  <2>4. \A i \in 1..Len(w) : m + i - 1 = p + i
    BY <1>1
  <2> QED
    BY <1>1, <2>1, <2>3, <2>4 DEF ValueAt, Text
<1>5. SubSeq(t, p + 1, p + Len(w)) = w
  BY <1>1, <1>4, SeqEqual DEF Text
<1> QED
  BY <1>3, <1>5

\* The key has its first occurrence in the text at p.
FirstAt(t, key, p) ==
  /\ p \in 1..Len(t) /\ t[p] = key
  /\ \A q \in 1..p - 1 : t[q] # key

\* field() returns the value behind the first occurrence of the key.
LEMMA FieldOf ==
  ASSUME NEW t \in Text, NEW key, NEW p, FirstAt(t, key, p), NEW w \in Text,
         ValueAt(t, p, w)
  PROVE  field(t, key) = w
<1>1. Len(t) \in Nat /\ p \in 1..Len(t)
  BY LenProperties DEF Text, FirstAt
<1>2. p \in Positions(t, key) /\ Positions(t, key) \in SUBSET Nat
  BY <1>1 DEF FirstAt, Positions
<1>3. \A q \in Positions(t, key) : p <= q
  BY <1>1 DEF FirstAt, Positions
<1>4. First(Positions(t, key)) = p
  BY <1>2, <1>3, FirstIs
<1>5. Has(t, key) /\ 1 + First(Positions(t, key)) = p + 1
  BY <1>1, <1>2, <1>4 DEF Has
<1>6. UpToSeparator(t, p + 1) = w
  BY <1>1, ReadAt
<1> QED
  BY <1>5, <1>6 DEF field

\* A set of positions that is not empty has a first one.
LEMMA FirstExists ==
  ASSUME NEW P \in SUBSET Nat, P # {}
  PROVE  First(P) \in P /\ \A q \in P : First(P) <= q
<1> DEFINE R == OpToRel(<, Nat)
<1>1. IsWellFoundedOn(R, Nat)
  BY NatLessThanWellFounded
<1>2. \A x, y \in Nat : <<y, x>> \in R <=> y < x
  BY DEF OpToRel
<1> HIDE DEF R
<1>3. PICK p \in P : \A q \in P : ~(<<q, p>> \in R)
  BY <1>1, WFMin
<1>4. \A q \in P : ~(q < p)
  BY <1>2, <1>3, Zenon
<1>5. \A q \in P : p <= q
  BY <1>4
<1> QED
  BY <1>5 DEF First

\* A value without a separator is read as it is, and no other one is.
LEMMA CutFacts ==
  ASSUME NEW v \in Text
  PROVE  /\ Cut(v) \in Text
         /\ ValueAt(v, 0, Cut(v))
         /\ Plain(v) <=> Cut(v) = v
<1>1. Len(v) \in Nat
  BY LenProperties DEF Text
<1>2. CASE Plain(v)
  <2>1. ValueAt(v, 0, v)
    BY <1>1, <1>2 DEF ValueAt, Plain, Has, Positions
  <2>2. UpToSeparator(v, 0 + 1) = v
    BY <1>1, <2>1, ReadAt
  <2> QED
    BY <1>2, <2>1, <2>2 DEF Cut
<1>3. CASE ~Plain(v)
  <2> DEFINE n == First(Positions(v, "|"))
             w == SubSeq(v, 1, n - 1)
  <2>1. /\ n \in 1..Len(v) /\ v[n] = "|"
        /\ \A q \in 1..n - 1 : v[q] # "|"
    <3>1. Positions(v, "|") \in SUBSET Nat /\ Positions(v, "|") # {}
      BY <1>3 DEF Plain, Has, Positions
    <3>2. n \in Positions(v, "|") /\ \A q \in Positions(v, "|") : n <= q
      BY <3>1, FirstExists
    <3> HIDE DEF n
    <3> QED
      BY <1>1, <3>2 DEF Positions
  <2> HIDE DEF n
  <2>2. \A i \in 1..n - 1 : v[i] \in Atom
    BY <1>1, <2>1, ElementOfSeq DEF Text
  <2>3. /\ w \in Text /\ Len(w) = n - 1
        /\ \A i \in 1..Len(w) : w[i] = v[i]
    <3>1. /\ 1 \in Int /\ n - 1 \in Int /\ (n - 1) - 1 + 1 = n - 1
          /\ \A i \in 1..n - 1 : 1 + i - 1 = i
      BY <2>1
    <3>2. /\ w \in Seq(Atom)
          /\ Len(w) = IF 1 <= n - 1 THEN (n - 1) - 1 + 1 ELSE 0
          /\ \A i \in 1..(n - 1) - 1 + 1 : w[i] = v[1 + i - 1]
      BY <2>2, <3>1, SubSeqProperties
    <3> HIDE DEF w
    <3> QED
      BY <2>1, <3>1, <3>2 DEF Text
  <2> HIDE DEF w
  <2>4. ValueAt(v, 0, w)
    BY <1>1, <2>1, <2>3 DEF ValueAt
  <2>5. UpToSeparator(v, 0 + 1) = w
    BY <1>1, <2>3, <2>4, ReadAt
  <2>6. Cut(v) = w /\ w # v
    BY <1>1, <2>1, <2>3, <2>5 DEF Cut
  <2> QED
    BY <1>3, <2>3, <2>4, <2>6
<1> QED
  BY <1>2, <1>3

\* A part of a value that ends at a separator has no separator in it.
LEMMA CutIsPlain ==
  ASSUME NEW v \in Text
  PROVE  Plain(Cut(v))
<1>1. ValueAt(v, 0, Cut(v))
  BY CutFacts
<1> QED
  BY <1>1 DEF ValueAt, Plain, Has, Positions

-----------------------------------------------------------------------------
(* Texts put together *)

\* The text holds the field: w stands behind the first occurrence of its key.
Holds(t, key, w) == \E p : FirstAt(t, key, p) /\ ValueAt(t, p, w)

\* A field that the text holds is what field() returns.
LEMMA HeldField ==
  ASSUME NEW t \in Text, NEW key, NEW w \in Text, Holds(t, key, w)
  PROVE  field(t, key) = w
BY FieldOf DEF Holds

\* An atom is in a text put together if it is in one of the parts.
LEMMA HasJoined ==
  ASSUME NEW t \in Text, NEW u \in Text, NEW a
  PROVE  Has(t \o u, a) <=> Has(t, a) \/ Has(u, a)
<1>1. /\ Len(t) \in Nat /\ Len(u) \in Nat /\ Len(t \o u) = Len(t) + Len(u)
      /\ \A i \in 1..Len(t) + Len(u) :
           (t \o u)[i] = IF i <= Len(t) THEN t[i] ELSE u[i - Len(t)]
  BY LenProperties, ConcatProperties DEF Text
<1>2. ASSUME NEW i \in 1..Len(u)
      PROVE  Len(t) + i \in 1..Len(t) + Len(u) /\ (t \o u)[Len(t) + i] = u[i]
  BY <1>1
<1>3. ASSUME NEW i \in 1..Len(t) + Len(u), i > Len(t)
      PROVE  i - Len(t) \in 1..Len(u) /\ (t \o u)[i] = u[i - Len(t)]
  BY <1>1, <1>3
<1>4. /\ Has(t, a) <=> \E i \in 1..Len(t) : t[i] = a
      /\ Has(u, a) <=> \E i \in 1..Len(u) : u[i] = a
      /\ Has(t \o u, a) <=> \E i \in 1..Len(t) + Len(u) : (t \o u)[i] = a
  BY <1>1 DEF Has, Positions
<1>5. ASSUME Has(t, a)
      PROVE  Has(t \o u, a)
  <2>1. PICK i \in 1..Len(t) : t[i] = a
    BY <1>4, <1>5
  <2>2. i \in 1..Len(t) + Len(u) /\ (t \o u)[i] = a
    BY <1>1, <2>1
  <2> QED
    BY <1>4, <2>2
<1>6. ASSUME Has(u, a)
      PROVE  Has(t \o u, a)
  <2>1. PICK i \in 1..Len(u) : u[i] = a
    BY <1>4, <1>6
  <2> QED
    BY <1>2, <1>4, <2>1
<1>7. ASSUME Has(t \o u, a)
      PROVE  Has(t, a) \/ Has(u, a)
  <2>1. PICK i \in 1..Len(t) + Len(u) : (t \o u)[i] = a
    BY <1>4, <1>7
  <2>2. CASE i > Len(t)
    BY <1>3, <1>4, <2>1, <2>2
  <2>3. CASE i <= Len(t)
    <3>1. i \in 1..Len(t) /\ t[i] = a
      BY <1>1, <2>1, <2>3
    <3> QED
      BY <1>4, <3>1
  <2> QED
    BY <1>1, <2>2, <2>3
<1> QED
  BY <1>5, <1>6, <1>7

\* A value that follows the only occurrence of its key is held, up to its
\* first separator.
LEMMA HeldBehind ==
  ASSUME NEW t \in Text, NEW key, FirstAt(t, key, Len(t)), NEW v \in Text
  PROVE  t \o v \in Text /\ Holds(t \o v, key, Cut(v))
<1>1. /\ Len(t) \in Nat /\ Len(v) \in Nat /\ Len(t \o v) = Len(t) + Len(v)
      /\ t \o v \in Text
      /\ \A i \in 1..Len(t) + Len(v) :
           (t \o v)[i] = IF i <= Len(t) THEN t[i] ELSE v[i - Len(t)]
  BY LenProperties, ConcatProperties DEF Text
<1>2. FirstAt(t \o v, key, Len(t))
  BY <1>1 DEF FirstAt
<1> DEFINE w == Cut(v)
<1>3. Len(w) \in Nat /\ ValueAt(v, 0, w)
  BY CutFacts, LenProperties DEF Text
<1> HIDE DEF w
<1>4. /\ Len(w) <= Len(v)
      /\ \A i \in 1..Len(w) : v[i] = w[i] /\ w[i] # "|"
      /\ Len(w) < Len(v) => v[Len(w) + 1] = "|"
  BY <1>1, <1>3 DEF ValueAt
<1>5. ASSUME NEW i \in 1..Len(v)
      PROVE  (t \o v)[Len(t) + i] = v[i]
  BY <1>1
<1>6. Len(w) < Len(v) => (t \o v)[Len(t) + Len(w) + 1] = "|"
  <2> SUFFICES ASSUME Len(w) < Len(v)
               PROVE  (t \o v)[Len(t) + (Len(w) + 1)] = "|"
    BY <1>1, <1>3
  <2>1. Len(w) + 1 \in 1..Len(v)
    BY <1>1, <1>3
  <2> QED
    BY <1>4, <1>5, <2>1
<1>7. \A i \in 1..Len(w) : (t \o v)[Len(t) + i] = w[i] /\ w[i] # "|"
  BY <1>1, <1>3, <1>4, <1>5
<1>8. ValueAt(t \o v, Len(t), w)
  BY <1>1, <1>3, <1>4, <1>6, <1>7 DEF ValueAt
<1> QED
  BY <1>1, <1>2, <1>8 DEF Holds, w

\* A field goes on being held when a separator and more is added.
LEMMA HeldOn ==
  ASSUME NEW t \in Text, NEW key, NEW w \in Text, Holds(t, key, w),
         NEW u \in Text, Len(u) >= 1, u[1] = "|"
  PROVE  t \o u \in Text /\ Holds(t \o u, key, w)
<1>1. /\ Len(t) \in Nat /\ Len(u) \in Nat /\ Len(t \o u) = Len(t) + Len(u)
      /\ t \o u \in Text /\ Len(w) \in Nat
      /\ \A i \in 1..Len(t) + Len(u) :
           (t \o u)[i] = IF i <= Len(t) THEN t[i] ELSE u[i - Len(t)]
  BY LenProperties, ConcatProperties DEF Text
<1>2. PICK p \in 1..Len(t) : FirstAt(t, key, p) /\ ValueAt(t, p, w)
  BY DEF Holds, FirstAt
<1>3. FirstAt(t \o u, key, p)
  BY <1>1, <1>2 DEF FirstAt
<1>4. /\ p + Len(w) <= Len(t)
      /\ \A i \in 1..Len(w) : t[p + i] = w[i] /\ w[i] # "|"
      /\ p + Len(w) < Len(t) => t[p + Len(w) + 1] = "|"
  BY <1>2 DEF ValueAt
<1>5. (t \o u)[p + Len(w) + 1] = "|"
  <2>1. CASE p + Len(w) < Len(t)
    BY <1>1, <1>4, <2>1
  <2>2. CASE p + Len(w) = Len(t)
    <3>1. /\ p + Len(w) + 1 \in 1..Len(t) + Len(u)
          /\ ~(p + Len(w) + 1 <= Len(t)) /\ (p + Len(w) + 1) - Len(t) = 1
      BY <1>1, <2>2
    <3> QED
      BY <1>1, <3>1
  <2> QED
    BY <1>1, <1>4, <2>1, <2>2
<1>6. \A i \in 1..Len(w) : (t \o u)[p + i] = t[p + i]
  BY <1>1, <1>4
<1>7. ValueAt(t \o u, p, w)
  BY <1>1, <1>4, <1>5, <1>6 DEF ValueAt
<1> QED
  BY <1>1, <1>3, <1>7 DEF Holds

\* Sequences written down.
LEMMA Pairs ==
  ASSUME NEW S, NEW a \in S, NEW b \in S
  PROVE  <<a, b>> \in Seq(S) /\ Len(<<a, b>>) = 2 /\ <<a, b>>[1] = a /\ <<a, b>>[2] = b
OBVIOUS

LEMMA Triples ==
  ASSUME NEW S, NEW a \in S, NEW b \in S, NEW c \in S
  PROVE  /\ <<a, b, c>> \in Seq(S) /\ Len(<<a, b, c>>) = 3
         /\ <<a, b, c>>[1] = a /\ <<a, b, c>>[2] = b /\ <<a, b, c>>[3] = c
OBVIOUS

\* A pair of atoms is a text of these two.
LEMMA PairText ==
  ASSUME NEW a \in Atom, NEW b \in Atom
  PROVE  /\ <<a, b>> \in Text /\ Len(<<a, b>>) = 2
         /\ <<a, b>>[1] = a /\ <<a, b>>[2] = b
         /\ \A c : Has(<<a, b>>, c) <=> c \in {a, b}
<1> DEFINE u == <<a, b>>
<1>1. u \in Text /\ Len(u) = 2 /\ u[1] = a /\ u[2] = b
  BY Pairs DEF Text
<1> HIDE DEF u
<1>2. \A c : Has(u, c) <=> c = a \/ c = b
  <2>1. \A c : Has(u, c) <=> \E i \in {1, 2} : u[i] = c
    <3>1. 1..Len(u) = {1, 2}
      BY <1>1
    <3> QED
      BY <3>1, Zenon DEF Has, Positions
  <2> QED
    BY <1>1, <2>1, Zenon
<1> QED
  BY <1>1, <1>2, Zenon DEF u

\* What is put behind a text leaves its beginning as it is.
LEMMA HeadKept ==
  ASSUME NEW t \in Text, Len(t) >= 1, NEW u \in Text
  PROVE  (t \o u)[1] = t[1] /\ t \o u \in Text /\ Len(t \o u) >= 1
<1>1. /\ Len(t) \in Nat /\ Len(u) \in Nat /\ Len(t \o u) = Len(t) + Len(u)
      /\ t \o u \in Text
      /\ \A i \in 1..Len(t) + Len(u) :
           (t \o u)[i] = IF i <= Len(t) THEN t[i] ELSE u[i - Len(t)]
  BY LenProperties, ConcatProperties DEF Text
<1>2. 1 \in 1..Len(t) + Len(u) /\ 1 <= Len(t)
  BY <1>1
<1> QED
  BY <1>1, <1>2

\* A key that is put behind a text without it has its first occurrence there.
LEMMA KeyAtEnd ==
  ASSUME NEW t \in Text, NEW key \in Atom, key # "|", ~Has(t, key)
  PROVE  /\ t \o <<"|", key>> \in Text
         /\ FirstAt(t \o <<"|", key>>, key, Len(t \o <<"|", key>>))
<1> DEFINE u == <<"|", key>>
<1>1. u \in Text /\ Len(u) = 2 /\ u[1] = "|" /\ u[2] = key
  <2>1. "|" \in Atom
    BY DEF Atom
  <2> QED
    BY <2>1, PairText, Zenon
<1> HIDE DEF u
<1>2. /\ Len(t) \in Nat /\ Len(t \o u) = Len(t) + 2 /\ t \o u \in Text
      /\ \A i \in 1..Len(t) + 2 :
           (t \o u)[i] = IF i <= Len(t) THEN t[i] ELSE u[i - Len(t)]
  <2>1. u \in Seq(Atom) /\ t \in Seq(Atom) /\ Len(u) = 2
    BY <1>1 DEF Text
  <2>2. /\ Len(t) \in Nat /\ Len(t \o u) = Len(t) + Len(u) /\ t \o u \in Seq(Atom)
        /\ \A i \in 1..Len(t) + Len(u) :
             (t \o u)[i] = IF i <= Len(t) THEN t[i] ELSE u[i - Len(t)]
    BY <2>1, LenProperties, ConcatProperties
  <2> QED
    BY <2>1, <2>2, Zenon DEF Text
<1>3. (t \o u)[Len(t) + 2] = key
  <2>1. /\ Len(t) + 2 \in 1..Len(t) + 2 /\ ~(Len(t) + 2 <= Len(t))
        /\ (Len(t) + 2) - Len(t) = 2
    BY <1>2
  <2> QED
    BY <1>1, <1>2, <2>1
<1>4. ASSUME NEW q \in 1..Len(t) + 1
      PROVE  (t \o u)[q] # key
  <2>1. CASE q <= Len(t)
    <3>1. q \in 1..Len(t) /\ (t \o u)[q] = t[q]
      BY <1>2, <2>1
    <3> QED
      BY <3>1 DEF Has, Positions
  <2>2. CASE q = Len(t) + 1
    <3>1. q \in 1..Len(t) + 2 /\ ~(q <= Len(t)) /\ q - Len(t) = 1
      BY <1>2, <2>2
    <3> QED
      BY <1>1, <1>2, <3>1
  <2> QED
    BY <1>2, <2>1, <2>2
<1>5. FirstAt(t \o u, key, Len(t) + 2)
  <2>1. Len(t) + 2 \in 1..Len(t) + 2 /\ (Len(t) + 2) - 1 = Len(t) + 1
    BY <1>2
  <2> QED
    BY <1>2, <1>3, <1>4, <2>1 DEF FirstAt
<1> QED
  BY <1>2, <1>5 DEF u

\* A field goes on being held when another field is added.
LEMMA HeldMore ==
  ASSUME NEW t \in Text, NEW key, NEW w \in Text, Holds(t, key, w),
         NEW k \in Atom, NEW v \in Text
  PROVE  /\ (t \o <<"|", k>>) \o v \in Text
         /\ Holds((t \o <<"|", k>>) \o v, key, w)
<1> DEFINE u == <<"|", k>>
<1>1. u \in Text /\ Len(u) = 2 /\ u[1] = "|"
  <2>1. "|" \in Atom
    BY DEF Atom
  <2> QED
    BY <2>1, PairText, Zenon
<1> HIDE DEF u
<1>2. /\ u \o v \in Text /\ Len(u \o v) >= 1 /\ (u \o v)[1] = "|"
      /\ (t \o u) \o v = t \o (u \o v)
  <2>1. u \in Seq(Atom) /\ v \in Seq(Atom) /\ t \in Seq(Atom) /\ Len(u) = 2
    BY <1>1 DEF Text
  <2>2. (t \o u) \o v = t \o (u \o v)
    BY <2>1, ConcatAssociative
  <2>3. /\ Len(v) \in Nat /\ u \o v \in Seq(Atom) /\ Len(u \o v) = 2 + Len(v)
        /\ \A i \in 1..2 + Len(v) :
             (u \o v)[i] = IF i <= 2 THEN u[i] ELSE v[i - 2]
    <3>1. /\ Len(v) \in Nat /\ u \o v \in Seq(Atom) /\ Len(u \o v) = Len(u) + Len(v)
          /\ \A i \in 1..Len(u) + Len(v) :
               (u \o v)[i] = IF i <= Len(u) THEN u[i] ELSE v[i - Len(u)]
      BY <2>1, LenProperties, ConcatProperties
    <3> QED
      BY <2>1, <3>1, Zenon
  <2>4. 1 \in 1..2 + Len(v) /\ 2 + Len(v) >= 1
    BY <2>3
  <2>5. (u \o v)[1] = u[1]
    BY <2>3, <2>4
  <2> QED
    BY <1>1, <2>2, <2>3, <2>4, <2>5, Zenon DEF Text
<1>3. t \o (u \o v) \in Text /\ Holds(t \o (u \o v), key, w)
  BY <1>2, HeldOn
<1> QED
  BY <1>2, <1>3 DEF u

-----------------------------------------------------------------------------
(* The RUN command *)

\* The keys in their order.
LEMMA KeyNames ==
  /\ Keys[1] = "name=" /\ Keys[2] = "rel=" /\ Keys[3] = "dur=" /\ Keys[4] = "his="
  /\ Keys[5] = "depth=" /\ Keys[6] = "part=" /\ Keys[7] = "filter="
  /\ DOMAIN Keys = 1..7
BY DEF Keys

\* They are different atoms, and none is the separator.
LEMMA KeyFacts ==
  /\ \A i \in 1..7 : Keys[i] \in KeySet /\ Keys[i] \in Atom /\ Keys[i] # "|"
  /\ \A i \in 1..7, j \in 1..7 : i # j => Keys[i] # Keys[j]
  /\ KeySet = {Keys[i] : i \in 1..7}
<1>1. \A i \in 1..7 : i = 1 \/ i = 2 \/ i = 3 \/ i = 4 \/ i = 5 \/ i = 6 \/ i = 7
  OBVIOUS
<1>2. KeySet = {Keys[i] : i \in 1..7}
  BY KeyNames, Zenon DEF KeySet
<1>3. \A i \in 1..7 : Keys[i] \in KeySet /\ Keys[i] \in Atom
  BY <1>2 DEF Atom
<1>4. \A i \in 1..7 : Keys[i] # "|"
  BY <1>1, KeyNames
<1>5. \A i \in 1..7, j \in 1..7 : i # j => Keys[i] # Keys[j]
  BY <1>1, KeyNames
<1> QED
  BY <1>2, <1>3, <1>4, <1>5, Zenon

\* The first fields are held by the text, and the keys of the others are not
\* in it yet.
ReadUpTo(s, t, i) ==
  /\ t \in Text
  /\ \A j \in 1..i : Holds(t, Keys[j], s[Keys[j]])
  /\ \A j \in i + 1..7 : ~Has(t, Keys[j])

\* With the next field, that one is held as well.
LEMMA FieldAdded ==
  ASSUME NEW s \in [KeySet -> Text], Readable(s), NEW i \in 1..6, NEW t \in Text,
         ReadUpTo(s, t, i), NEW k, k = Keys[i + 1]
  PROVE  ReadUpTo(s, (t \o <<"|", k>>) \o s[k], i + 1)
<1> DEFINE u == <<"|", k>>
           v == s[k]
<1>1. /\ i + 1 \in 1..7 /\ k \in KeySet /\ k \in Atom /\ k # "|"
      /\ i + 1 \in i + 1..7
  BY KeyFacts
<1>2. v \in Text /\ Plain(v) /\ \A j \in (i + 1) + 1..7 : ~Has(v, Keys[j])
  BY <1>1 DEF Readable
<1>3. ~Has(t, k)
  BY <1>1 DEF ReadUpTo
<1>4. t \o u \in Text /\ FirstAt(t \o u, k, Len(t \o u))
  BY <1>1, <1>3, KeyAtEnd
<1>5. "|" \in Atom
  BY DEF Atom
<1>6. u \in Text /\ \A c : Has(u, c) <=> c \in {"|", k}
  BY <1>1, <1>5, PairText
<1> HIDE DEF u, v
<1>7. (t \o u) \o v \in Text /\ Holds((t \o u) \o v, k, v)
  <2>1. Cut(v) = v
    BY <1>2, CutFacts
  <2> DEFINE a == t \o u
  <2>2. a \in Text /\ FirstAt(a, k, Len(a))
    BY <1>4
  <2> HIDE DEF a
  <2>3. a \o v \in Text /\ Holds(a \o v, k, Cut(v))
    BY <1>2, <2>2, HeldBehind
  <2> QED
    BY <2>1, <2>3 DEF a
<1>8. ASSUME NEW j \in 1..i
      PROVE  Holds((t \o u) \o v, Keys[j], s[Keys[j]])
  <2>1. Holds(t, Keys[j], s[Keys[j]])
    BY DEF ReadUpTo
  <2>2. j \in 1..7 /\ s[Keys[j]] \in Text
    BY KeyFacts
  <2> QED
    BY <1>1, <1>2, <2>1, <2>2, HeldMore DEF u
<1>9. ASSUME NEW j \in (i + 1) + 1..7
      PROVE  ~Has((t \o u) \o v, Keys[j])
  <2>1. j \in 1..7 /\ j # i + 1 /\ j \in i + 1..7
    OBVIOUS
  <2>2. ~Has(t, Keys[j]) /\ ~Has(v, Keys[j])
    BY <1>2, <2>1 DEF ReadUpTo
  <2>3. Keys[j] # k /\ Keys[j] # "|"
    BY <1>1, <2>1, KeyFacts
  <2>4. ~Has(u, Keys[j])
    BY <1>6, <2>3, Zenon
  <2> QED
    BY <1>2, <1>4, <1>6, <2>2, <2>4, HasJoined, Zenon
<1>10. ASSUME NEW j \in 1..i + 1
       PROVE  Holds((t \o u) \o v, Keys[j], s[Keys[j]])
  <2>1. CASE j = i + 1
    BY <1>7, <2>1 DEF v
  <2>2. CASE j # i + 1
    <3>1. j \in 1..i
      BY <2>2
    <3> QED
      BY <1>8, <3>1
  <2> QED
    BY <2>1, <2>2
<1>11. ReadUpTo(s, (t \o u) \o v, i + 1)
  BY <1>7, <1>9, <1>10, Zenon DEF ReadUpTo
<1> QED
  BY <1>11, Zenon DEF u, v

\* A message begins with its kind, and then comes the name.
LEMMA NameFirst ==
  ASSUME NEW kind \in Atom, kind # "|", kind # "name=", NEW v \in Text
  PROVE  /\ <<kind, "|", "name=">> \o v \in Text
         /\ (<<kind, "|", "name=">> \o v)[1] = kind
         /\ Holds(<<kind, "|", "name=">> \o v, "name=", Cut(v))
         /\ \A a : Has(<<kind, "|", "name=">> \o v, a)
                     <=> a \in {kind, "|", "name="} \/ Has(v, a)
<1> DEFINE u == <<kind, "|", "name=">>
<1>1. u \in Seq(Atom) /\ Len(u) = 3 /\ u[1] = kind /\ u[2] = "|" /\ u[3] = "name="
  <2>1. "|" \in Atom /\ "name=" \in Atom
    BY KeyNames, KeyFacts DEF Atom
  <2> QED
    BY <2>1, Triples
<1> HIDE DEF u
<1>2. u \in Text /\ v \in Seq(Atom)
  BY <1>1 DEF Text
<1>3. FirstAt(u, "name=", Len(u))
  BY <1>1 DEF FirstAt
<1>4. u \o v \in Text /\ Holds(u \o v, "name=", Cut(v))
  BY <1>2, <1>3, HeldBehind
<1>5. (u \o v)[1] = kind
  <2>1. /\ Len(v) \in Nat
        /\ \A i \in 1..Len(u) + Len(v) :
             (u \o v)[i] = IF i <= Len(u) THEN u[i] ELSE v[i - Len(u)]
    BY <1>1, <1>2, LenProperties, ConcatProperties
  <2>2. 1 \in 1..Len(u) + Len(v) /\ 1 <= Len(u)
    BY <1>1, <2>1
  <2> QED
    BY <1>1, <2>1, <2>2
<1>6. \A a : Has(u, a) <=> a \in {kind, "|", "name="}
  <2>1. \A a : Has(u, a) <=> \E i \in {1, 2, 3} : u[i] = a
    <3>1. 1..Len(u) = {1, 2, 3}
      BY <1>1
    <3> QED
      BY <3>1, Zenon DEF Has, Positions
  <2> QED
    BY <1>1, <2>1
<1>7. \A a : Has(u \o v, a) <=> Has(u, a) \/ Has(v, a)
  BY <1>2, HasJoined
<1> QED
  BY <1>4, <1>5, <1>6, <1>7, Zenon DEF u

\* What RUN ends with.
LEMMA ModeText ==
  /\ <<"|", "mode=", "normal">> \in Text /\ Len(<<"|", "mode=", "normal">>) >= 1
  /\ <<"|", "mode=", "normal">>[1] = "|"
<1>1. "|" \in Atom /\ "mode=" \in Atom /\ "normal" \in Atom
  BY DEF Atom
<1> QED
  BY <1>1, Triples DEF Text

\* field() takes all seven fields of a readable scenario out of RUN again.
LEMMA RunRead ==
  ASSUME NEW s \in [KeySet -> Text], Readable(s)
  PROVE  \A k \in KeySet : field(RunText(s), k) = s[k]
<1> DEFINE b1 == <<"CMD:RUN", "|", "name=">> \o s["name="]
           b2 == (b1 \o <<"|", "rel=">>) \o s["rel="]
           b3 == (b2 \o <<"|", "dur=">>) \o s["dur="]
           b4 == (b3 \o <<"|", "his=">>) \o s["his="]
           b5 == (b4 \o <<"|", "depth=">>) \o s["depth="]
           b6 == (b5 \o <<"|", "part=">>) \o s["part="]
           b7 == (b6 \o <<"|", "filter=">>) \o s["filter="]
<1>0. RunText(s) = b7 \o <<"|", "mode=", "normal">>
  BY Zenon DEF RunText
<1>1. ReadUpTo(s, b1, 1)
  <2>1. /\ "CMD:RUN" \in Atom /\ "CMD:RUN" # "|"
        /\ \A i \in 1..7 : "CMD:RUN" # Keys[i]
    <3>1. \A i \in 1..7 : i = 1 \/ i = 2 \/ i = 3 \/ i = 4 \/ i = 5 \/ i = 6 \/ i = 7
      OBVIOUS
    <3> QED
      BY <3>1, KeyNames DEF Atom
  <2>2. s["name="] \in Text /\ Plain(s["name="])
    BY KeyNames, KeyFacts DEF Readable
  <2>3. /\ b1 \in Text /\ Holds(b1, "name=", Cut(s["name="]))
        /\ \A a : Has(b1, a) <=> a \in {"CMD:RUN", "|", "name="} \/ Has(s["name="], a)
    <3>1. "CMD:RUN" # "name="
      BY <2>1, KeyNames
    <3> QED
      BY <2>1, <2>2, <3>1, NameFirst, Zenon
  <2> HIDE DEF b1
  <2>4. Holds(b1, Keys[1], s[Keys[1]])
    <3>1. Cut(s["name="]) = s["name="]
      BY <2>2, CutFacts
    <3> QED
      BY <2>3, <3>1, KeyNames, Zenon
  <2>5. ASSUME NEW j \in 1 + 1..7
        PROVE  ~Has(b1, Keys[j])
    <3>1. j \in 1..7 /\ j # 1 /\ 1 \in 1..7
      OBVIOUS
    <3>2. Keys[j] # "name=" /\ Keys[j] # "|" /\ Keys[j] # "CMD:RUN"
      BY <2>1, <3>1, KeyNames, KeyFacts
    <3>3. ~Has(s["name="], Keys[j])
      BY <3>1, KeyNames DEF Readable
    <3> QED
      BY <2>3, <3>2, <3>3, Zenon
  <2>6. \A j \in 1..1 : j = 1
    OBVIOUS
  <2> QED
    BY <2>3, <2>4, <2>5, <2>6 DEF ReadUpTo
<1> HIDE DEF b1
<1>2. ReadUpTo(s, b2, 2)
  <2>1. ReadUpTo(s, b2, 1 + 1)
    BY <1>1, FieldAdded, KeyNames DEF ReadUpTo
  <2> QED
    BY <2>1
<1> HIDE DEF b2
<1>3. ReadUpTo(s, b3, 3)
  <2>1. ReadUpTo(s, b3, 2 + 1)
    BY <1>2, FieldAdded, KeyNames DEF ReadUpTo
  <2> QED
    BY <2>1
<1> HIDE DEF b3
<1>4. ReadUpTo(s, b4, 4)
  <2>1. ReadUpTo(s, b4, 3 + 1)
    BY <1>3, FieldAdded, KeyNames DEF ReadUpTo
  <2> QED
    BY <2>1
<1> HIDE DEF b4
<1>5. ReadUpTo(s, b5, 5)
  <2>1. ReadUpTo(s, b5, 4 + 1)
    BY <1>4, FieldAdded, KeyNames DEF ReadUpTo
  <2> QED
    BY <2>1
<1> HIDE DEF b5
<1>6. ReadUpTo(s, b6, 6)
  <2>1. ReadUpTo(s, b6, 5 + 1)
    BY <1>5, FieldAdded, KeyNames DEF ReadUpTo
  <2> QED
    BY <2>1
<1> HIDE DEF b6
<1>7. ReadUpTo(s, b7, 7)
  <2>1. ReadUpTo(s, b7, 6 + 1)
    BY <1>6, FieldAdded, KeyNames DEF ReadUpTo
  <2> QED
    BY <2>1
<1> HIDE DEF b7
<1>8. ASSUME NEW j \in 1..7
      PROVE  field(RunText(s), Keys[j]) = s[Keys[j]]
  <2>1. b7 \in Text /\ Holds(b7, Keys[j], s[Keys[j]]) /\ s[Keys[j]] \in Text
    BY <1>7, KeyFacts DEF ReadUpTo
  <2> DEFINE m == <<"|", "mode=", "normal">>
  <2>2. m \in Text /\ Len(m) >= 1 /\ m[1] = "|"
    BY ModeText
  <2> HIDE DEF m
  <2>3. b7 \o m \in Text /\ Holds(b7 \o m, Keys[j], s[Keys[j]])
    BY <2>1, <2>2, HeldOn
  <2>4. field(b7 \o m, Keys[j]) = s[Keys[j]]
    BY <2>1, <2>3, HeldField
  <2> QED
    BY <1>0, <2>4, Zenon DEF m
<1> QED
  BY <1>8, KeyFacts, Zenon

\* Of any scenario, it takes the name up to its first separator.
LEMMA RunName ==
  ASSUME NEW s \in [KeySet -> Text]
  PROVE  field(RunText(s), "name=") = Cut(s["name="])
<1> DEFINE b1 == <<"CMD:RUN", "|", "name=">> \o s["name="]
           b2 == (b1 \o <<"|", "rel=">>) \o s["rel="]
           b3 == (b2 \o <<"|", "dur=">>) \o s["dur="]
           b4 == (b3 \o <<"|", "his=">>) \o s["his="]
           b5 == (b4 \o <<"|", "depth=">>) \o s["depth="]
           b6 == (b5 \o <<"|", "part=">>) \o s["part="]
           b7 == (b6 \o <<"|", "filter=">>) \o s["filter="]
           w  == Cut(s["name="])
           m  == <<"|", "mode=", "normal">>
<1>0. RunText(s) = b7 \o m
  BY Zenon DEF RunText
<1>1. \A i \in 1..7 : Keys[i] \in Atom /\ s[Keys[i]] \in Text
  BY KeyFacts
<1>2. w \in Text
  BY <1>1, KeyNames, CutFacts
<1>3. b1 \in Text /\ Holds(b1, "name=", w)
  <2>1. s["name="] \in Text /\ "CMD:RUN" \in Atom
    BY <1>1, KeyNames DEF Atom
  <2>2. "CMD:RUN" # "name=" /\ "CMD:RUN" # "|"
    OBVIOUS
  <2> QED
    BY <2>1, <2>2, NameFirst, Zenon
<1>12. m \in Text /\ Len(m) >= 1 /\ m[1] = "|"
  BY ModeText
<1> HIDE DEF b1, w, m
<1>4. b2 \in Text /\ Holds(b2, "name=", w)
  BY <1>1, <1>2, <1>3, HeldMore, KeyNames
<1> HIDE DEF b2
<1>5. b3 \in Text /\ Holds(b3, "name=", w)
  BY <1>1, <1>2, <1>4, HeldMore, KeyNames
<1> HIDE DEF b3
<1>6. b4 \in Text /\ Holds(b4, "name=", w)
  BY <1>1, <1>2, <1>5, HeldMore, KeyNames
<1> HIDE DEF b4
<1>7. b5 \in Text /\ Holds(b5, "name=", w)
  BY <1>1, <1>2, <1>6, HeldMore, KeyNames
<1> HIDE DEF b5
<1>8. b6 \in Text /\ Holds(b6, "name=", w)
  BY <1>1, <1>2, <1>7, HeldMore, KeyNames
<1> HIDE DEF b6
<1>9. b7 \in Text /\ Holds(b7, "name=", w)
  BY <1>1, <1>2, <1>8, HeldMore, KeyNames
<1> HIDE DEF b7
<1>10. b7 \o m \in Text /\ Holds(b7 \o m, "name=", w)
  BY <1>2, <1>9, <1>12, HeldOn
<1>11. field(b7 \o m, "name=") = w
  BY <1>2, <1>10, HeldField
<1> QED
  BY <1>0, <1>11, Zenon DEF w

-----------------------------------------------------------------------------
(* The answers and STOP *)

\* The name is read up to its first separator there, too.
LEMMA NameRead ==
  ASSUME NEW name \in Text
  PROVE  /\ StopText(name)[1] = "CMD:STOP" /\ ReadyText(name)[1] = "ACK:READY"
         /\ field(StopText(name), "name=") = Cut(name)
         /\ field(ReadyText(name), "name=") = Cut(name)
<1>1. "CMD:STOP" \in Atom /\ "ACK:READY" \in Atom /\ Cut(name) \in Text
  BY CutFacts DEF Atom
<1>2. /\ "CMD:STOP" # "|" /\ "CMD:STOP" # "name="
      /\ "ACK:READY" # "|" /\ "ACK:READY" # "name="
  OBVIOUS
<1>3. /\ StopText(name) \in Text /\ StopText(name)[1] = "CMD:STOP"
      /\ Holds(StopText(name), "name=", Cut(name))
  BY <1>1, <1>2, NameFirst, Zenon DEF StopText
<1>4. /\ ReadyText(name) \in Text /\ ReadyText(name)[1] = "ACK:READY"
      /\ Holds(ReadyText(name), "name=", Cut(name))
  BY <1>1, <1>2, NameFirst, Zenon DEF ReadyText
<1> QED
  BY <1>1, <1>3, <1>4, HeldField, Zenon

\* A number is a text without a separator, and atoi gives it back.
LEMMA NumberText ==
  ASSUME NEW n \in 1..9
  PROVE  ToText(n) \in Text /\ Plain(ToText(n)) /\ AtoI(ToText(n)) = n
<1>1. \A i \in 1..9 : \/ i = 1 \/ i = 2 \/ i = 3 \/ i = 4 \/ i = 5 \/ i = 6
                      \/ i = 7 \/ i = 8 \/ i = 9
  OBVIOUS
<1>2. \A i \in 1..9 : Digits[i] # "|"
  BY <1>1 DEF Digits
<1>3. \A i \in 1..9, j \in 1..9 : i # j => Digits[i] # Digits[j]
  BY <1>1 DEF Digits
<1>4. Digits[n] \in Atom
  BY DEF Atom
<1> DEFINE d == Digits[n]
<1>5. d \in Atom /\ d # "|"
  BY <1>2, <1>4
<1>6. \A i \in 1..9 : Digits[i] = d => i = n
  BY <1>3
<1>7. ToText(n) = <<d>>
  BY DEF ToText
<1> HIDE DEF d
<1>8. <<d>> \in Text /\ Len(<<d>>) = 1 /\ <<d>>[1] = d /\ <<d>> # <<>>
  BY <1>5 DEF Text
<1>9. Plain(<<d>>)
  BY <1>5, <1>8 DEF Plain, Has, Positions
<1>10. AtoI(<<d>>) = n
  BY <1>6, <1>8 DEF AtoI, d
<1> QED
  BY <1>7, <1>8, <1>9, <1>10

\* A result is recognized by a name without a separator, and its count is
\* read back if the name does not hold that key.
LEMMA ResultRead ==
  ASSUME NEW name \in Text, NEW n \in 1..9
  PROVE  /\ ResText(name, n)[1] = "ACK:RES"
         /\ field(ResText(name, n), "name=") = Cut(name)
         /\ ~Has(name, "count=") => field(ResText(name, n), "count=") = ToText(n)
<1> DEFINE t == <<"ACK:RES", "|", "name=">> \o name
           u == <<"|", "count=">>
           v == ToText(n)
           w == Cut(name)
<1>1. ResText(name, n) = (t \o u) \o v
  BY Zenon DEF ResText
<1>2. /\ "ACK:RES" # "|" /\ "ACK:RES" # "name=" /\ "count=" # "|"
      /\ "count=" # "name=" /\ "count=" # "ACK:RES"
  OBVIOUS
<1>3. "ACK:RES" \in Atom /\ "count=" \in Atom /\ "|" \in Atom
  BY DEF Atom
<1>4. /\ t \in Text /\ t[1] = "ACK:RES" /\ Holds(t, "name=", w)
      /\ \A a : Has(t, a) <=> a \in {"ACK:RES", "|", "name="} \/ Has(name, a)
  BY <1>2, <1>3, NameFirst, Zenon
<1>5. v \in Text /\ Plain(v) /\ Cut(v) = v /\ w \in Text
  BY NumberText, CutFacts
<1>6. u \in Text
  BY <1>3, PairText
<1> HIDE DEF t, v, w
<1>7. (t \o u) \o v \in Text /\ Holds((t \o u) \o v, "name=", w)
  BY <1>3, <1>4, <1>5, HeldMore
<1>8. field((t \o u) \o v, "name=") = w
  BY <1>5, <1>7, HeldField
<1>9. ASSUME ~Has(name, "count=")
      PROVE  field((t \o u) \o v, "count=") = v
  <2>1. ~Has(t, "count=")
    BY <1>2, <1>4, <1>9, Zenon
  <2> DEFINE a == t \o u
  <2>2. a \in Text /\ FirstAt(a, "count=", Len(a))
    BY <1>2, <1>3, <1>4, <2>1, KeyAtEnd
  <2> HIDE DEF a
  <2>3. Holds(a \o v, "count=", v) /\ a \o v \in Text
    <3>1. a \o v \in Text /\ Holds(a \o v, "count=", Cut(v))
      BY <1>5, <2>2, HeldBehind
    <3> QED
      BY <1>5, <3>1, Zenon
  <2>4. field(a \o v, "count=") = v
    BY <1>5, <2>3, HeldField
  <2> QED
    BY <2>4 DEF a
<1>10. ((t \o u) \o v)[1] = "ACK:RES"
  <2> HIDE DEF u
  <2>1. t \in Seq(Atom) /\ u \in Seq(Atom) /\ v \in Seq(Atom)
    BY <1>4, <1>5, <1>6 DEF Text
  <2>2. Len(t) \in Nat /\ Len(t) >= 1
    BY <1>4, LenProperties DEF Holds, FirstAt, Text
  <2>3. (t \o u)[1] = t[1] /\ t \o u \in Text /\ Len(t \o u) >= 1
    BY <1>4, <1>6, <2>2, HeadKept
  <2>4. ((t \o u) \o v)[1] = (t \o u)[1]
    BY <1>5, <2>3, HeadKept
  <2> QED
    BY <1>4, <2>3, <2>4
<1> QED
  BY <1>1, <1>8, <1>9, <1>10, Zenon DEF v, w

-----------------------------------------------------------------------------
(* The invariant *)

\* A text of strings is one of atoms.
LEMMA StringsAreText == Seq(STRING) \subseteq Text
<1>1. STRING \subseteq Atom
  BY DEF Atom
<1> QED
  BY <1>1, SeqMonotonic DEF Text

\* A scenario has texts in all its fields, and its message is not yet there.
LEMMA TextInit == Init => TextInv
<1> SUFFICES ASSUME Init
             PROVE  TextInv
  OBVIOUS
<1>1. counted \in 1..9 /\ pc = "sendRun"
  BY TextAssumption DEF Init
<1>2. PICK name \in Names, part \in Parts, filter \in Filters, depth \in Numbers :
        scen = [k \in KeySet |->
                  CASE k = "name=" -> name [] k = "part=" -> part
                    [] k = "filter=" -> filter [] k = "depth=" -> ToText(depth)
                    [] OTHER -> <<"code">>]
  BY Zenon DEF Init
<1>3. name \in Text /\ part \in Text /\ filter \in Text
  <2>1. name \in Seq(STRING) /\ part \in Seq(STRING) /\ filter \in Seq(STRING)
    BY TextAssumption
  <2> QED
    BY <2>1, StringsAreText
<1>4. ToText(depth) \in Text
  BY TextAssumption, NumberText
<1>5. <<"code">> \in Text
  <2>1. "code" \in Atom
    BY DEF Atom
  <2>2. \A a \in Atom : <<a>> \in Seq(Atom)
    OBVIOUS
  <2> QED
    BY <2>1, <2>2 DEF Text
<1> DEFINE d == ToText(depth)
           c == <<"code">>
           V(k) == CASE k = "name=" -> name [] k = "part=" -> part
                     [] k = "filter=" -> filter [] k = "depth=" -> d
                     [] OTHER -> c
<1>6. \A k \in KeySet : V(k) \in Text
  <2> d \in Text /\ c \in Text
    BY <1>4, <1>5
  <2> HIDE DEF d, c
  <2> QED
    BY <1>3
<1>7. scen = [k \in KeySet |-> V(k)]
  BY <1>2
<1> HIDE DEF V
<1>8. scen \in [KeySet -> Text]
  BY <1>6, <1>7
<1> QED
  BY <1>1, <1>8 DEF TextInv, FieldsReadBack, AnswersFindBack

\* Every step keeps it.
LEMMA TextNext == TextInv /\ [Next]_vars => TextInv'
<1> SUFFICES ASSUME TextInv, [Next]_vars
             PROVE  TextInv'
  OBVIOUS
<1> DEFINE name == scen["name="]
<1>1. scen \in [KeySet -> Text] /\ counted \in 1..9 /\ name \in Text
  BY KeyNames, KeyFacts DEF TextInv
<1>2. /\ Cut(name) \in Text /\ Cut(Cut(name)) = Cut(name)
      /\ Plain(name) <=> Cut(name) = name
  BY <1>1, CutFacts, CutIsPlain
<1>3. CASE SendRun
  BY <1>1, <1>3 DEF SendRun, TextInv, FieldsReadBack, AnswersFindBack
<1>4. CASE TakeRun
  <2>1. /\ text = RunText(scen) /\ run' = [k \in KeySet |-> field(text, k)]
        /\ text' = ReadyText(run'["name="])
        /\ pc' = "waitReady" /\ UNCHANGED <<scen, counted, ready, count>>
    BY <1>4, Zenon DEF TakeRun, TextInv
  <2>2. run'["name="] = Cut(name)
    BY <1>1, <2>1, RunName, KeyNames, KeyFacts
  <2>3. Readable(scen) => run' = scen
    BY <1>1, <2>1, RunRead
  <2>4. text' = ReadyText(Cut(name))
    BY <2>1, <2>2, Zenon
  <2> QED
    BY <1>1, <2>1, <2>3, <2>4 DEF TextInv, FieldsReadBack, AnswersFindBack
<1>5. CASE WaitReady
  <2>1. /\ pc = "waitReady" /\ text = ReadyText(Cut(name)) /\ FieldsReadBack
        /\ ready' = IsAnswer("ACK:READY") /\ text' = StopText(name)
        /\ pc' = "takeStop" /\ UNCHANGED <<scen, counted, run, count>>
    BY <1>5, Zenon DEF WaitReady, TextInv
  <2>2. text[1] = "ACK:READY" /\ field(text, "name=") = Cut(name)
    BY <1>2, <2>1, NameRead, Zenon
  <2>3. ready' <=> Plain(name)
    BY <1>2, <2>1, <2>2, Zenon DEF IsAnswer
  <2> QED
    BY <1>1, <2>1, <2>3 DEF TextInv, FieldsReadBack, AnswersFindBack
<1>6. CASE TakeStop
  <2>1. /\ pc = "takeStop" /\ text = StopText(name) /\ FieldsReadBack
        /\ text' = ResText(field(text, "name="), counted)
        /\ ready <=> Plain(name)
        /\ pc' = "waitRes" /\ UNCHANGED <<scen, counted, run, ready, count>>
    BY <1>6, Zenon DEF TakeStop, TextInv
  <2>2. text' = ResText(Cut(name), counted)
    BY <1>1, <2>1, NameRead, Zenon
  <2> QED
    BY <1>1, <2>1, <2>2 DEF TextInv, FieldsReadBack, AnswersFindBack
<1>7. CASE WaitRes
  <2>1. /\ pc = "waitRes" /\ text = ResText(Cut(name), counted) /\ FieldsReadBack
        /\ count' = IF IsAnswer("ACK:RES") THEN AtoI(field(text, "count="))
                                           ELSE NoCount
        /\ ready <=> Plain(name)
        /\ pc' = "done" /\ UNCHANGED <<scen, counted, text, run, ready>>
    BY <1>7, Zenon DEF WaitRes, TextInv
  <2>2. text[1] = "ACK:RES" /\ field(text, "name=") = Cut(name)
    BY <1>1, <1>2, <2>1, ResultRead, Zenon
  <2>3. IsAnswer("ACK:RES") <=> Plain(name)
    BY <1>2, <2>2, Zenon DEF IsAnswer
  <2>4. AtoI(field(text, "count=")) # NoCount
    <3>1. \A v : AtoI(v) \in 0..9
      <4> SUFFICES ASSUME NEW v
                   PROVE  AtoI(v) \in 0..9
        OBVIOUS
      <4>1. (\E n \in 1..9 : Digits[n] = v[1])
              => (CHOOSE n \in 1..9 : Digits[n] = v[1]) \in 1..9
        OBVIOUS
      <4> QED
        BY <4>1 DEF AtoI
    <3> QED
      BY <3>1 DEF NoCount
  <2>5. Plain(name) /\ ~Has(name, "count=") => AtoI(field(text, "count=")) = counted
    BY <1>1, <1>2, <2>1, ResultRead, NumberText, Zenon
  <2>6. AnswersFindBack'
    BY <2>1, <2>3, <2>4, <2>5 DEF AnswersFindBack
  <2> QED
    BY <1>1, <2>1, <2>6 DEF TextInv, FieldsReadBack
<1>8. CASE Recorded \/ UNCHANGED vars
  BY <1>8 DEF Recorded, vars, TextInv, FieldsReadBack, AnswersFindBack
<1> QED
  BY <1>3, <1>4, <1>5, <1>6, <1>7, <1>8, Zenon DEF Next

-----------------------------------------------------------------------------

\* In every step the text on its way is the message that the code has put
\* together there, with as much of the name as field() could read
\* (auto_pub.cpp:130,145-148,178, auto_sub.cpp:29-37,151,158).
THEOREM TextInvariance == Spec => []TextInv
BY TextInit, TextNext, PTL DEF Spec

\* A readable scenario reaches the follower as it is, whatever texts its
\* fields are (auto_pub.cpp:145-148, auto_sub.cpp:29-37,115-121).
THEOREM FieldsAreReadBack == Spec => []FieldsReadBack
<1>1. TextInv => FieldsReadBack
  BY DEF TextInv
<1> QED
  BY <1>1, TextInvariance, PTL

\* Its answers are recognized exactly if its name has no separator in it, and
\* the count comes back as it was sent (auto_pub.cpp:48-56, auto_sub.cpp:158).
THEOREM AnswersAreRecognized == Spec => []AnswersFindBack
<1>1. TextInv => AnswersFindBack
  BY DEF TextInv
<1> QED
  BY <1>1, TextInvariance, PTL
=============================================================================
