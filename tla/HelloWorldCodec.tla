--------------------------- MODULE HelloWorldCodec --------------------------
(***************************************************************************)
(* The generated type support of the HelloWorld type: a writer that puts   *)
(* samples into payloads with HelloWorldPubSubType::serialize, and a       *)
(* reader that takes them out with ::deserialize, each into one object     *)
(* that it uses again for every sample, as publisher.cpp, subscriber.cpp   *)
(* and the auto runner do.                                                 *)
(*                                                                         *)
(* A payload is the sequence of the items that were put into it and its    *)
(* length in bytes; one is on its way at a time, while the writer works on *)
(* the next.  Fast CDR aligns every item of this type to 4 bytes, and      *)
(* throws when one does not fit the buffer.                                *)
(***************************************************************************)
EXTENDS Integers, Sequences

CONSTANTS
  Indexes,     \* values of the member index
  Messages,    \* values of the member message
  Size,        \* Size[m]: bytes of message m
  TypeBound,   \* HelloWorld_max_cdr_typesize, 268
  MaxSamples   \* bound: calls of write()

ASSUME CodecAssumption ==
  /\ 0 \in Indexes
  /\ Size \in [Messages -> Nat]
  /\ \E m \in Messages : Size[m] = 0
  /\ TypeBound \in Nat /\ TypeBound >= 268
  /\ MaxSamples \in Nat

\* std::string()
EmptyMessage == CHOOSE m \in Messages : Size[m] = 0

Representations == {"XCDRv1", "XCDRv2"}

VARIABLES
  sample,   \* the writer's object
  rep,      \* data_representation of the writer
  buffer,   \* payload.max_size
  items,    \* items serialized so far
  offset,   \* bytes serialized so far
  payload,  \* the payload on its way, or NoPayload
  taken,    \* the reader's object
  got,      \* items deserialized so far
  written,  \* history: the samples that serialize() returned true for
  failed,   \* history: the samples that it returned false for
  seen      \* history: the values that take_next_sample() gave

writerVars == <<sample, rep, buffer, items, offset>>
readerVars == <<taken, got>>
vars       == <<writerVars, payload, readerVars, written, failed, seen>>

Idle == -1
NoPayload == [length |-> Idle, items |-> <<>>]

\* HelloWorld()
NewData == [index |-> 0, message |-> EmptyMessage]

Init ==
  /\ sample = NewData /\ taken = NewData
  /\ rep \in Representations
  /\ buffer = 0 /\ items = <<>> /\ offset = Idle
  /\ payload = NoPayload /\ got = Idle
  /\ written = <<>> /\ failed = <<>> /\ seen = <<>>

-----------------------------------------------------------------------------
(* Sizes *)

Aligned(at) == at + ((4 - (at % 4)) % 4)

\* A string is its length, its characters and a NUL.
ItemSize(item, data) == IF item = "message" THEN 4 + Size[data.message] + 1 ELSE 4

After(at, item, data) == Aligned(at) + ItemSize(item, data)

\* What the calculator and the serializer go through after the encapsulation:
\* DELIMIT_CDR2 has a header with the size of the object, PLAIN_CDR has none.
BodyStart(version) == IF version = "XCDRv2" THEN 4 ELSE 0

\* Mutant: the header of DELIMIT_CDR2 is forgotten.
CalculatePlain(data, version) ==
  4 + After(After(0, "index", data), "message", data)

calculate_serialized_size(data, version) ==
  4 + After(After(BodyStart(version), "index", data), "message", data)

\* Mutant: the space for the header of DELIMIT_CDR2 is not counted.
MaxWithoutHeader == Aligned(TypeBound - 4) + 4

max_serialized_type_size == Aligned(TypeBound) + 4

-----------------------------------------------------------------------------
(* Writer *)

\* The items in the order in which serialize() puts them.
WriteItems(version) ==
  IF version = "XCDRv2" THEN <<"encapsulation", "header", "index", "message">>
                        ELSE <<"encapsulation", "index", "message">>

\* index(i) and message(m), then write(): a payload of the size calculated,
\* or the one that was made for every sample of the type.
Write(i, m) ==
  /\ offset = Idle
  /\ Len(written) + Len(failed) < MaxSamples
  /\ sample' = [index |-> i, message |-> m]
  /\ buffer' \in {calculate_serialized_size(sample', rep), max_serialized_type_size}
  /\ items' = <<>> /\ offset' = 0
  /\ UNCHANGED <<rep, payload, readerVars, written, failed, seen>>

NextItem == WriteItems(rep)[Len(items) + 1]

Content(item) == IF item \in DOMAIN sample THEN sample[item] ELSE rep

MoreItems == offset # Idle /\ Len(items) < Len(WriteItems(rep))

SerializeItem ==
  /\ MoreItems
  /\ After(offset, NextItem, sample) <= buffer
  /\ offset' = After(offset, NextItem, sample)
  /\ items' = Append(items, [item |-> NextItem, content |-> Content(NextItem)])
  /\ UNCHANGED <<sample, rep, buffer, payload, readerVars, written, failed, seen>>

\* Fast CDR throws, serialize() returns false and nothing is sent.
SerializeFails ==
  /\ MoreItems
  /\ After(offset, NextItem, sample) > buffer
  /\ offset' = Idle
  /\ failed' = Append(failed, sample)
  /\ UNCHANGED <<sample, rep, buffer, items, payload, readerVars, written, seen>>

Serialized ==
  /\ offset # Idle /\ Len(items) = Len(WriteItems(rep))
  /\ payload = NoPayload
  /\ payload' = [length |-> offset, items |-> items]
  /\ offset' = Idle
  /\ written' = Append(written, sample)
  /\ UNCHANGED <<sample, rep, buffer, items, readerVars, failed, seen>>

Writer == (\E i \in Indexes, m \in Messages : Write(i, m))
            \/ SerializeItem \/ SerializeFails \/ Serialized

-----------------------------------------------------------------------------
(* Reader *)

\* The members in the order of their numbers, after what the encapsulation
\* says comes before them.
ReadItems(version) ==
  IF version = "XCDRv2" THEN <<"encapsulation", "header", "index", "message">>
                        ELSE <<"encapsulation", "index", "message">>

Take ==
  /\ payload # NoPayload /\ got = Idle
  /\ got' = 0
  /\ UNCHANGED <<writerVars, payload, taken, written, failed, seen>>

\* Mutant: the member index is not among the cases of the switch.
StoreMessage(item, content) ==
  taken' = IF item = "message" THEN [taken EXCEPT !.message = content] ELSE taken

\* Mutant: the cases of the switch are in the wrong order.
StoreSwapped(item, content) ==
  taken' = CASE item = "index"   -> [taken EXCEPT !.message = content]
             [] item = "message" -> [taken EXCEPT !.index = content]
             [] OTHER -> taken

Store(item, content) ==
  taken' = IF item \in DOMAIN taken THEN [taken EXCEPT ![item] = content]
                                    ELSE taken

\* The version is the one that the encapsulation of the payload names.
Version == payload.items[1].content

DeserializeItem ==
  /\ got # Idle /\ got < Len(ReadItems(Version))
  /\ Store(ReadItems(Version)[got + 1], payload.items[got + 1].content)
  /\ got' = got + 1
  /\ UNCHANGED <<writerVars, payload, written, failed, seen>>

Taken ==
  /\ got # Idle /\ got = Len(ReadItems(Version))
  /\ seen' = Append(seen, taken)
  /\ payload' = NoPayload /\ got' = Idle
  /\ UNCHANGED <<writerVars, taken, written, failed>>

Reader == Take \/ DeserializeItem \/ Taken

-----------------------------------------------------------------------------
AllDone ==
  /\ Len(written) + Len(failed) = MaxSamples /\ offset = Idle /\ payload = NoPayload
  /\ UNCHANGED vars

Next == Writer \/ Reader \/ AllDone

Spec == Init /\ [][Next]_vars

-----------------------------------------------------------------------------
(* Properties *)

Data == [index : Indexes, message : Messages]

Entries == [item : {"encapsulation", "header"}, content : Representations]
             \cup [item : {"index"}, content : Indexes]
             \cup [item : {"message"}, content : Messages]

\* Every variable has its type.
TypeOK ==
  /\ sample \in Data /\ taken \in Data /\ rep \in Representations
  /\ buffer \in Nat /\ offset \in Nat \cup {Idle} /\ got \in Nat \cup {Idle}
  /\ items \in Seq(Entries)
  /\ payload \in [length : Nat \cup {Idle}, items : Seq(Entries)]
  /\ written \in Seq(Data) /\ failed \in Seq(Data) /\ seen \in Seq(Data)

\* The size announced for a sample is the number of bytes it takes, header and
\* padding included, in both representations (HelloWorldCdrAux.ipp:37-81,
\* HelloWorldPubSubTypes.cxx:119-138).
SizeIsExact ==
  payload # NoPayload =>
    payload.length = calculate_serialized_size(written[Len(seen) + 1], rep)

\* A message of up to 255 characters, the bound the generator assumes of a
\* string, is never lost for want of room (HelloWorldCdrAux.hpp:27,
\* HelloWorldPubSubTypes.cxx:37-44).
ShortMessagesFit ==
  \A j \in 1..Len(failed) : Size[failed[j].message] > 255

\* What the reader takes is what was written, in order, whatever its object
\* held before: no member keeps the value of an earlier sample
\* (HelloWorldCdrAux.ipp:83-110, subscriber.cpp:32).
ReadsWhatWasWritten ==
  Len(seen) <= Len(written) /\ \A j \in 1..Len(seen) : seen[j] = written[j]

-----------------------------------------------------------------------------
(* The inductive invariant of the proofs *)

Total == Len(WriteItems(rep))

\* Item n of a sample, and where it ends.
ItemOf(data, n) ==
  LET name == WriteItems(rep)[n]
  IN  [item |-> name, content |-> IF name = "index" THEN data.index
                                  ELSE IF name = "message" THEN data.message
                                  ELSE rep]

EndOf(data, n) ==
  IF n = Total THEN calculate_serialized_size(data, rep) ELSE 4 * n

\* What was serialized so far is the beginning of the sample.
WriterInv ==
  offset # Idle =>
    /\ buffer \in {calculate_serialized_size(sample, rep), max_serialized_type_size}
    /\ Len(items) <= Total
    /\ \A n \in 1..Len(items) : items[n] = ItemOf(sample, n)
    /\ offset = EndOf(sample, Len(items))

\* One payload at most is on its way, and it is the whole of its sample.
PayloadInv ==
  IF payload = NoPayload
    THEN got = Idle /\ Len(written) = Len(seen)
    ELSE /\ Len(written) = Len(seen) + 1
         /\ payload.length = calculate_serialized_size(written[Len(written)], rep)
         /\ Len(payload.items) = Total
         /\ \A n \in 1..Total : payload.items[n] = ItemOf(written[Len(written)], n)

\* The members that were deserialized so far are those of the sample.
ReaderInv ==
  got # Idle =>
    /\ got <= Total
    /\ got >= Total - 1 => taken.index = written[Len(written)].index
    /\ got >= Total => taken.message = written[Len(written)].message

CodecInv ==
  TypeOK /\ WriterInv /\ PayloadInv /\ ReaderInv /\ ReadsWhatWasWritten
    /\ ShortMessagesFit
=============================================================================
