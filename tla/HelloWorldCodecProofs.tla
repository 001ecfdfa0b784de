----------------------- MODULE HelloWorldCodecProofs ------------------------
(***************************************************************************)
(* Theorems of HelloWorldCodec, for any values, any messages and any       *)
(* number of samples.  The argument: what was serialized so far is the     *)
(* beginning of the sample and ends where the calculator has it; so a      *)
(* payload is its sample and as long as announced; and the reader, which   *)
(* goes through the same items, has set both members when it is done.      *)
(***************************************************************************)
EXTENDS HelloWorldCodec, TLAPS

LEMMA Small == /\ Aligned(0) = 0 /\ Aligned(4) = 4 /\ Aligned(8) = 8
               /\ Aligned(12) = 12
BY DEF Aligned

LEMMA Grows == ASSUME NEW n \in Nat PROVE Aligned(n) \in Nat /\ Aligned(n) >= n
BY DEF Aligned

LEMMA SizeNat == \A m \in Messages : Size[m] \in Nat
BY CodecAssumption

\* The size of a sample in bytes.
LEMMA Calculated ==
  ASSUME NEW data \in Data
  PROVE  /\ calculate_serialized_size(data, "XCDRv1") = 13 + Size[data.message]
         /\ calculate_serialized_size(data, "XCDRv2") = 17 + Size[data.message]
<1>1. Size[data.message] \in Nat
  BY SizeNat DEF Data
<1>2. QED
  BY <1>1, Small DEF calculate_serialized_size, BodyStart, After, ItemSize

LEMMA MaxSize == max_serialized_type_size \in Nat /\ max_serialized_type_size >= 272
BY CodecAssumption, Grows DEF max_serialized_type_size

LEMMA Totals ==
  /\ rep = "XCDRv1" => Total = 3
  /\ rep = "XCDRv2" => Total = 4
BY DEF Total, WriteItems

\* The calculator and the serializer agree on where an item ends.
LEMMA NextEnd ==
  ASSUME NEW data \in Data, NEW n \in Nat, n < Total, rep \in Representations
  PROVE  /\ After(EndOf(data, n), WriteItems(rep)[n + 1], data) = EndOf(data, n + 1)
         /\ EndOf(data, n + 1) \in Nat
<1>0. Size[data.message] \in Nat
  BY SizeNat DEF Data
<1>1. CASE rep = "XCDRv1"
  <2>1. Total = 3 /\ WriteItems(rep) = <<"encapsulation", "index", "message">>
    BY <1>1, Totals DEF WriteItems
  <2>2. n = 0 \/ n = 1 \/ n = 2
    BY <2>1
  <2>3. QED
    BY <1>0, <1>1, <2>1, <2>2, Calculated, Small DEF EndOf, After, ItemSize
<1>2. CASE rep = "XCDRv2"
  <2>1. Total = 4
        /\ WriteItems(rep) = <<"encapsulation", "header", "index", "message">>
    BY <1>2, Totals DEF WriteItems
  <2>2. n = 0 \/ n = 1 \/ n = 2 \/ n = 3
    BY <2>1
  <2>3. QED
    BY <1>0, <1>2, <2>1, <2>2, Calculated, Small DEF EndOf, After, ItemSize
<1>3. QED BY <1>1, <1>2 DEF Representations

\* Every item is one of the four, with a content of its own type.
LEMMA ItemTyped ==
  ASSUME NEW data \in Data, NEW n \in 1..Total, rep \in Representations
  PROVE  ItemOf(data, n) \in Entries
<1>1. WriteItems(rep)[n] \in {"encapsulation", "header", "index", "message"}
  BY Totals DEF WriteItems, Representations
<1>2. QED BY <1>1 DEF ItemOf, Entries, Data

LEMMA EndBounded ==
  ASSUME NEW data \in Data, NEW n \in 0..Total, rep \in Representations
  PROVE  /\ EndOf(data, n) \in Nat
         /\ EndOf(data, n) <= calculate_serialized_size(data, rep)
         /\ calculate_serialized_size(data, rep) \in Nat
         /\ EndOf(data, n) > 16 => Size[data.message] >= EndOf(data, n) - 17
<1>1. Size[data.message] \in Nat
  BY SizeNat DEF Data
<1>2. QED
  BY <1>1, Totals, Calculated DEF EndOf, Representations

-----------------------------------------------------------------------------
(* Initially nothing is under way. *)

LEMMA CodecInit == Init => CodecInv
<1> SUFFICES ASSUME Init PROVE CodecInv
  OBVIOUS
<1>1. NewData \in Data
  BY CodecAssumption DEF NewData, Data, EmptyMessage
<1>2. TypeOK
  BY <1>1 DEF Init, TypeOK, Idle, NoPayload
<1>3. WriterInv /\ PayloadInv /\ ReaderInv
  BY DEF Init, WriterInv, PayloadInv, ReaderInv, Idle
<1>4. ReadsWhatWasWritten /\ ShortMessagesFit
  BY DEF Init, ReadsWhatWasWritten, ShortMessagesFit
<1>5. QED BY <1>2, <1>3, <1>4 DEF CodecInv

-----------------------------------------------------------------------------
(* The writer *)

LEMMA WriteKeeps ==
  ASSUME CodecInv, NEW i \in Indexes, NEW m \in Messages, Write(i, m)
  PROVE  CodecInv'
<1>1. sample' \in Data /\ rep' = rep /\ items' = <<>> /\ offset' = 0
      /\ rep \in Representations
  BY DEF CodecInv, TypeOK, Write, Data, readerVars
<1>2. calculate_serialized_size(sample', rep) \in Nat
  <2>1. Size[sample'.message] \in Nat
    BY <1>1, SizeNat DEF Data
  <2>2. QED BY <1>1, <2>1, Calculated DEF Representations
<1>3. buffer' \in {calculate_serialized_size(sample', rep), max_serialized_type_size}
  BY DEF Write
<1>4. TypeOK'
  BY <1>1, <1>2, <1>3, MaxSize DEF CodecInv, TypeOK, Write, readerVars
<1>5. WriterInv'
  BY <1>1, <1>3, Totals DEF WriterInv, EndOf, Total, Representations,
     calculate_serialized_size, max_serialized_type_size, BodyStart
<1>6. PayloadInv' /\ ReaderInv'
  BY DEF CodecInv, PayloadInv, ReaderInv, Write, readerVars, ItemOf, Total,
     calculate_serialized_size, BodyStart
<1>7. ReadsWhatWasWritten' /\ ShortMessagesFit'
  BY DEF CodecInv, ReadsWhatWasWritten, ShortMessagesFit, Write
<1>8. QED BY <1>4, <1>5, <1>6, <1>7 DEF CodecInv

\* The item under way, and the state it is written in.
LEMMA WriterState ==
  ASSUME CodecInv, MoreItems
  PROVE  /\ rep \in Representations /\ sample \in Data /\ items \in Seq(Entries)
         /\ Len(items) \in Nat /\ Len(items) < Total
         /\ After(offset, NextItem, sample) = EndOf(sample, Len(items) + 1)
         /\ EndOf(sample, Len(items) + 1) \in Nat
         /\ [item |-> NextItem, content |-> Content(NextItem)]
              = ItemOf(sample, Len(items) + 1)
         /\ ItemOf(sample, Len(items) + 1) \in Entries
<1>1. /\ rep \in Representations /\ sample \in Data /\ items \in Seq(Entries)
      /\ Len(items) \in Nat /\ Len(items) < Total
      /\ offset = EndOf(sample, Len(items))
  BY DEF CodecInv, TypeOK, WriterInv, MoreItems, Total
<1>2. Total \in Nat
  BY <1>1, Totals DEF Representations
<1>3. After(offset, NextItem, sample) = EndOf(sample, Len(items) + 1)
      /\ EndOf(sample, Len(items) + 1) \in Nat
  BY <1>1, NextEnd DEF NextItem
<1>4. ItemOf(sample, Len(items) + 1) \in Entries
  BY <1>1, <1>2, ItemTyped
<1>5. Content(NextItem) = IF NextItem = "index" THEN sample.index
                          ELSE IF NextItem = "message" THEN sample.message
                          ELSE rep
  <2>1. DOMAIN sample = {"index", "message"}
    BY <1>1 DEF Data
  <2>2. QED BY <2>1 DEF Content
<1>6. QED BY <1>1, <1>3, <1>4, <1>5 DEF ItemOf, NextItem

LEMMA SerializeKeeps ==
  ASSUME CodecInv, SerializeItem
  PROVE  CodecInv'
<1>1. MoreItems /\ items' = Append(items, ItemOf(sample, Len(items) + 1))
      /\ offset' = EndOf(sample, Len(items) + 1)
  BY WriterState DEF SerializeItem
<1>2. rep' = rep /\ sample' = sample /\ buffer' = buffer
  BY DEF SerializeItem
<1>3. items' \in Seq(Entries) /\ Len(items') = Len(items) + 1
      /\ \A n \in 1..Len(items') :
           items'[n] = IF n = Len(items) + 1 THEN ItemOf(sample, n) ELSE items[n]
  BY <1>1, WriterState
<1>4. TypeOK'
  BY <1>1, <1>2, <1>3, WriterState DEF CodecInv, TypeOK, SerializeItem, readerVars
<1>5. WriterInv'
  <2>1. \A n \in 1..Len(items') : items'[n] = ItemOf(sample, n)
    BY <1>1, <1>3, WriterState DEF CodecInv, WriterInv, MoreItems
  <2>2. Total \in Nat /\ Len(items') <= Total
    BY <1>1, <1>3, WriterState, Totals DEF Representations
  <2>3. QED
    BY <1>1, <1>2, <1>3, <2>1, <2>2 DEF CodecInv, WriterInv, MoreItems, EndOf,
       Total, ItemOf, calculate_serialized_size, max_serialized_type_size, BodyStart
<1>6. PayloadInv' /\ ReaderInv'
  BY DEF CodecInv, PayloadInv, ReaderInv, SerializeItem, readerVars, ItemOf,
     Total, calculate_serialized_size, BodyStart
<1>7. ReadsWhatWasWritten' /\ ShortMessagesFit'
  BY DEF CodecInv, ReadsWhatWasWritten, ShortMessagesFit, SerializeItem
<1>8. QED BY <1>4, <1>5, <1>6, <1>7 DEF CodecInv

\* Only the type's own payload can be too small, and only for a long message.
LEMMA FailKeeps ==
  ASSUME CodecInv, SerializeFails
  PROVE  CodecInv'
<1>1. MoreItems /\ EndOf(sample, Len(items) + 1) > buffer /\ offset # Idle
      /\ sample \in Data /\ rep \in Representations /\ Len(items) + 1 \in 0..Total
  BY WriterState, Totals DEF SerializeFails, MoreItems, Representations
<1>2. Size[sample.message] > 255
  <2>1. buffer \in {calculate_serialized_size(sample, rep), max_serialized_type_size}
    BY <1>1 DEF CodecInv, WriterInv
  <2>2. buffer >= 272 /\ buffer \in Nat
    BY <1>1, <2>1, EndBounded, MaxSize
  <2>3. QED
    BY <1>1, <2>2, EndBounded, SizeNat DEF Data
<1>3. offset' = Idle /\ failed' = Append(failed, sample) /\ rep' = rep
  BY DEF SerializeFails
<1>4. TypeOK'
  BY <1>1, <1>3 DEF CodecInv, TypeOK, SerializeFails, readerVars
<1>5. WriterInv'
  BY <1>3 DEF WriterInv
<1>6. PayloadInv' /\ ReaderInv'
  BY DEF CodecInv, PayloadInv, ReaderInv, SerializeFails, readerVars, ItemOf,
     Total, calculate_serialized_size, BodyStart
<1>7. ReadsWhatWasWritten'
  BY DEF CodecInv, ReadsWhatWasWritten, SerializeFails
<1>8. ShortMessagesFit'
  BY <1>1, <1>2, <1>3 DEF CodecInv, TypeOK, ShortMessagesFit
<1>9. QED BY <1>4, <1>5, <1>6, <1>7, <1>8 DEF CodecInv
\* A payload starts its way when the one before has arrived.
LEMMA SerializedKeeps ==
  ASSUME CodecInv, Serialized
  PROVE  CodecInv'
<1>1. /\ offset # Idle /\ Len(items) = Total /\ payload = NoPayload
      /\ payload' = [length |-> offset, items |-> items] /\ offset' = Idle
      /\ written' = Append(written, sample)
      /\ UNCHANGED <<sample, rep, buffer, items, taken, got, failed, seen>>
  BY DEF Serialized, readerVars, Total
<1>2. sample \in Data /\ rep \in Representations /\ written \in Seq(Data)
      /\ seen \in Seq(Data) /\ items \in Seq(Entries) /\ offset \in Nat
  BY <1>1 DEF CodecInv, TypeOK
<1>3. got = Idle /\ Len(written) = Len(seen)
  BY <1>1 DEF CodecInv, PayloadInv
<1>4. Len(written') = Len(written) + 1 /\ written' \in Seq(Data)
      /\ written'[Len(written')] = sample
      /\ \A j \in 1..Len(written) : written'[j] = written[j]
  BY <1>1, <1>2
<1>5. offset = calculate_serialized_size(sample, rep)
      /\ \A n \in 1..Total : items[n] = ItemOf(sample, n)
  BY <1>1 DEF CodecInv, WriterInv, EndOf
<1>6. TypeOK'
  BY <1>1, <1>2, <1>4 DEF CodecInv, TypeOK
<1>7. WriterInv' /\ ReaderInv'
  BY <1>1, <1>3 DEF WriterInv, ReaderInv
<1>8. payload' # NoPayload
  BY <1>1, <1>2 DEF NoPayload, Idle
<1>9. PayloadInv'
  <2>1. Total' = Total
    BY <1>1 DEF Total
  <2>2. payload'.length = offset /\ payload'.items = items
    BY <1>1
  <2>3. payload'.length = calculate_serialized_size(written'[Len(written')], rep')
    BY <1>1, <1>4, <1>5, <2>2
  <2>4. \A n \in 1..Total : payload'.items[n] = ItemOf(sample, n)
    BY <1>5, <2>2
  <2>5. Len(payload'.items) = Total' /\ Len(written') = Len(seen') + 1
    BY <1>1, <1>2, <1>3, <1>4, <2>1, <2>2
  <2>6. QED
    BY <1>1, <1>4, <1>8, <2>1, <2>3, <2>4, <2>5 DEF PayloadInv, ItemOf
<1>10. ReadsWhatWasWritten'
  BY <1>1, <1>2, <1>3, <1>4 DEF CodecInv, ReadsWhatWasWritten
<1>11. ShortMessagesFit'
  BY <1>1 DEF CodecInv, ShortMessagesFit
<1>12. QED BY <1>6, <1>7, <1>9, <1>10, <1>11 DEF CodecInv

-----------------------------------------------------------------------------
(* The reader *)

LEMMA TakeKeeps ==
  ASSUME CodecInv, Take
  PROVE  CodecInv'
<1>1. payload # NoPayload /\ got' = 0
      /\ UNCHANGED <<sample, rep, buffer, items, offset, payload, taken,
                     written, failed, seen>>
  BY DEF Take, writerVars
<1>2. TypeOK'
  BY <1>1 DEF CodecInv, TypeOK
<1>3. Total \in {3, 4} /\ Total' = Total
  BY <1>1, Totals DEF CodecInv, TypeOK, Representations, Total
<1>4. WriterInv' /\ PayloadInv'
  BY <1>1, <1>3 DEF CodecInv, WriterInv, PayloadInv, EndOf, ItemOf,
     calculate_serialized_size, max_serialized_type_size, BodyStart
<1>5. ReaderInv'
  BY <1>1, <1>3 DEF ReaderInv
<1>6. ReadsWhatWasWritten' /\ ShortMessagesFit'
  BY <1>1 DEF CodecInv, ReadsWhatWasWritten, ShortMessagesFit
<1>7. QED BY <1>2, <1>4, <1>5, <1>6 DEF CodecInv

\* The encapsulation names the representation.
LEMMA FirstItem ==
  ASSUME NEW data, WriteItems(rep)[1] = "encapsulation"
  PROVE  ItemOf(data, 1).content = rep
BY DEF ItemOf

\* The reader's item is the writer's, and the members come last.
LEMMA ReaderState ==
  ASSUME CodecInv, got # Idle, got < Len(ReadItems(Version))
  PROVE  /\ rep \in Representations /\ taken \in Data /\ got \in Nat /\ got < Total
         /\ written[Len(written)] \in Data
         /\ ReadItems(Version)[got + 1] = WriteItems(rep)[got + 1]
         /\ payload.items[got + 1] = ItemOf(written[Len(written)], got + 1)
<1>1. payload # NoPayload /\ got \in Nat /\ rep \in Representations /\ taken \in Data
      /\ written \in Seq(Data) /\ seen \in Seq(Data)
  BY DEF CodecInv, PayloadInv, TypeOK
<1>2. /\ Len(written) = Len(seen) + 1
      /\ \A n \in 1..Total : payload.items[n] = ItemOf(written[Len(written)], n)
  BY <1>1 DEF CodecInv, PayloadInv
<1>3. Total \in {3, 4} /\ WriteItems(rep)[1] = "encapsulation"
  BY <1>1, Totals DEF Representations, WriteItems
<1>4. Version = rep
  <2>1. payload.items[1] = ItemOf(written[Len(written)], 1)
    BY <1>2, <1>3
  <2>2. QED BY <1>3, <2>1, FirstItem DEF Version
<1>5. ReadItems(Version) = WriteItems(rep)
  BY <1>4 DEF ReadItems, WriteItems
<1>6. QED BY <1>1, <1>2, <1>3, <1>5 DEF Total

LEMMA DeserializeKeeps ==
  ASSUME CodecInv, DeserializeItem
  PROVE  CodecInv'
<1> DEFINE data == written[Len(written)]
           name == WriteItems(rep)[got + 1]
<1>1. /\ got # Idle /\ got < Len(ReadItems(Version)) /\ got' = got + 1
      /\ Store(ReadItems(Version)[got + 1], payload.items[got + 1].content)
      /\ UNCHANGED <<sample, rep, buffer, items, offset, payload,
                     written, failed, seen>>
  BY DEF DeserializeItem, writerVars
<1>2. /\ rep \in Representations /\ taken \in Data /\ got \in Nat /\ got < Total
      /\ data \in Data
      /\ Store(name, ItemOf(data, got + 1).content)
  BY <1>1, ReaderState
<1>3. /\ name = "index" => taken' = [taken EXCEPT !.index = data.index]
      /\ name = "message" => taken' = [taken EXCEPT !.message = data.message]
      /\ name \notin {"index", "message"} => taken' = taken
  <2>1. DOMAIN taken = {"index", "message"}
    BY <1>2 DEF Data
  <2>2. QED BY <1>2, <2>1 DEF Store, ItemOf
<1>4. /\ taken' \in Data
      /\ name = "index" => taken'.index = data.index
      /\ name = "message" => taken'.message = data.message /\ taken'.index = taken.index
  BY <1>2, <1>3 DEF Data
<1>5. Total \in {3, 4} /\ Total' = Total
      /\ (got + 1 = Total - 1 => name = "index")
      /\ (got + 1 = Total => name = "message")
  BY <1>1, <1>2, Totals DEF Representations, Total, WriteItems
<1>6. TypeOK'
  BY <1>1, <1>2, <1>4 DEF CodecInv, TypeOK
<1>7. WriterInv'
  BY <1>1, <1>5 DEF CodecInv, WriterInv, EndOf, ItemOf,
     calculate_serialized_size, max_serialized_type_size, BodyStart
<1>8. PayloadInv'
  <2>1. payload # NoPayload
    BY <1>1 DEF CodecInv, PayloadInv
  <2>2. QED
    BY <1>1, <1>5, <2>1 DEF CodecInv, PayloadInv, ItemOf,
       calculate_serialized_size, BodyStart
<1>9. ReaderInv'
  BY <1>1, <1>2, <1>4, <1>5 DEF CodecInv, ReaderInv
<1>10. ReadsWhatWasWritten' /\ ShortMessagesFit'
  BY <1>1 DEF CodecInv, ReadsWhatWasWritten, ShortMessagesFit
<1>11. QED BY <1>6, <1>7, <1>8, <1>9, <1>10 DEF CodecInv

\* With both members set, the object is the sample.
LEMMA TakenKeeps ==
  ASSUME CodecInv, Taken
  PROVE  CodecInv'
<1>1. /\ got # Idle /\ got = Len(ReadItems(Version)) /\ seen' = Append(seen, taken)
      /\ payload' = NoPayload /\ got' = Idle
      /\ UNCHANGED <<sample, rep, buffer, items, offset, taken, written, failed>>
  BY DEF Taken, writerVars
<1>2. payload # NoPayload /\ got \in Nat /\ rep \in Representations
      /\ taken \in Data /\ written \in Seq(Data) /\ seen \in Seq(Data)
  BY <1>1 DEF CodecInv, PayloadInv, TypeOK
<1>3. /\ Len(written) = Len(seen) + 1 /\ written[Len(written)] \in Data
      /\ \A n \in 1..Total : payload.items[n] = ItemOf(written[Len(written)], n)
  BY <1>2 DEF CodecInv, PayloadInv
<1>4. got = Total /\ Total \in {3, 4}
  <2>1. Total \in {3, 4} /\ WriteItems(rep)[1] = "encapsulation"
    BY <1>2, Totals DEF Representations, WriteItems
  <2>2. payload.items[1] = ItemOf(written[Len(written)], 1)
    BY <1>3, <2>1
  <2>3. Version = rep
    BY <2>1, <2>2, FirstItem DEF Version
  <2>4. QED BY <1>1, <2>1, <2>3 DEF ReadItems, WriteItems, Total
<1>5. taken = written[Len(written)]
  BY <1>1, <1>2, <1>3, <1>4 DEF CodecInv, ReaderInv, Data
<1>6. TypeOK'
  BY <1>1, <1>2 DEF CodecInv, TypeOK, NoPayload
<1>7. WriterInv'
  BY <1>1 DEF CodecInv, WriterInv, EndOf, ItemOf, Total,
     calculate_serialized_size, max_serialized_type_size, BodyStart
<1>8. PayloadInv' /\ ReaderInv'
  BY <1>1, <1>2, <1>3 DEF PayloadInv, ReaderInv
<1>9. ReadsWhatWasWritten'
  BY <1>1, <1>2, <1>3, <1>5 DEF CodecInv, ReadsWhatWasWritten
<1>10. ShortMessagesFit'
  BY <1>1 DEF CodecInv, ShortMessagesFit
<1>11. QED BY <1>6, <1>7, <1>8, <1>9, <1>10 DEF CodecInv

LEMMA StutterKeeps ==
  ASSUME CodecInv, UNCHANGED vars
  PROVE  CodecInv'
BY DEF CodecInv, TypeOK, WriterInv, PayloadInv, ReaderInv, ReadsWhatWasWritten,
   ShortMessagesFit, vars, writerVars, readerVars, EndOf, ItemOf, Total,
   calculate_serialized_size, max_serialized_type_size, BodyStart

-----------------------------------------------------------------------------
(* Theorems *)

LEMMA CodecStep == CodecInv /\ [Next]_vars => CodecInv'
<1> SUFFICES ASSUME CodecInv, [Next]_vars PROVE CodecInv'
  OBVIOUS
<1>1. ASSUME NEW i \in Indexes, NEW m \in Messages, Write(i, m) PROVE CodecInv'
  BY <1>1, WriteKeeps
<1>2. CASE SerializeItem
  BY <1>2, SerializeKeeps
<1>3. CASE SerializeFails
  BY <1>3, FailKeeps
<1>4. CASE Serialized
  BY <1>4, SerializedKeeps
<1>5. CASE Take
  BY <1>5, TakeKeeps
<1>6. CASE DeserializeItem
  BY <1>6, DeserializeKeeps
<1>7. CASE Taken
  BY <1>7, TakenKeeps
<1>8. CASE AllDone \/ UNCHANGED vars
  BY <1>8, StutterKeeps DEF AllDone
<1>9. QED
  BY <1>1, <1>2, <1>3, <1>4, <1>5, <1>6, <1>7, <1>8 DEF Next, Writer, Reader

\* The inductive invariant: what is serialized is the beginning of the sample,
\* a payload is the whole of it, and a reader that is done has both members
\* (HelloWorldPubSubTypes.cxx:50-117).
THEOREM CodecInvariance == Spec => []CodecInv
BY CodecInit, CodecStep, PTL DEF Spec

\* Every variable keeps its type: a member is only ever given a value of its
\* own (HelloWorldCdrAux.ipp:91-109).
THEOREM CodecTypeCorrect == Spec => []TypeOK
<1>1. CodecInv => TypeOK
  BY DEF CodecInv
<1>2. QED BY <1>1, CodecInvariance, PTL

\* The size announced is the number of bytes written, for messages of any
\* length (HelloWorldCdrAux.ipp:37-81, HelloWorldPubSubTypes.cxx:119-138).
THEOREM ExactSizes == Spec => []SizeIsExact
<1>1. CodecInv => SizeIsExact
  BY DEF CodecInv, PayloadInv, SizeIsExact
<1>2. QED BY <1>1, CodecInvariance, PTL

\* serialize() fails for no message of up to 255 characters, whichever payload
\* it is given (HelloWorldPubSubTypes.cxx:37-44, 78-81).
THEOREM ShortFit == Spec => []ShortMessagesFit
<1>1. CodecInv => ShortMessagesFit
  BY DEF CodecInv
<1>2. QED BY <1>1, CodecInvariance, PTL

\* The values taken are the values written, for any number of samples read
\* into the same object (HelloWorldCdrAux.ipp:83-110, subscriber.cpp:32).
THEOREM RoundTrip == Spec => []ReadsWhatWasWritten
<1>1. CodecInv => ReadsWhatWasWritten
  BY DEF CodecInv
<1>2. QED BY <1>1, CodecInvariance, PTL
=============================================================================
