------------------------------ MODULE Messages ------------------------------
(***************************************************************************)
(* The pure functions of message.rs: the location codec and the routing by *)
(* key, with proofs that hold for every location, key and partition count. *)
(* A string is the sequence of the segments between its slashes; of a      *)
(* segment only what str::parse makes of it, and how it is spelled, count. *)
(***************************************************************************)
EXTENDS Integers, Sequences, SequenceTheorems, TLAPS

CONSTANTS Spellings,      \* ways to write a segment: 7, 07, +7, a word, ...
          Keys, Hash,     \* Hash[k]: what DefaultHasher makes of key k
          I32Max, I64Max, U64Max      \* the largest numbers of three types

Segments == [numeric : BOOLEAN, value : Int, spelling : Spellings \cup {"plain", "empty"}]

\* How format! writes an integer, and the only segment of an empty string.
Decimal(n) == [numeric |-> TRUE, value |-> n, spelling |-> "plain"]
Empty      == [numeric |-> FALSE, value |-> 0, spelling |-> "empty"]

I32 == (-I32Max - 1)..I32Max
I64 == (-I64Max - 1)..I64Max
U64 == 0..U64Max
Parses(segment, width) == segment.numeric /\ segment.value \in width

Topics    == {t \in Seq(Segments) : t # <<>> /\ t # <<Empty>>}
Locations == [topic : Topics, partition : I32, offset : I64]

NoLocation == [topic |-> <<>>, partition |-> 0, offset |-> 0]

EncodeBusId(at) == at.topic \o <<Decimal(at.partition), Decimal(at.offset)>>

\* Split at the last two slashes; the topic may hold more of them.
ParseBusId(id) ==
  LET n     == Len(id)
      topic == SubSeq(id, 1, n - 2)
  IN  IF n >= 3 /\ Parses(id[n], I64) /\ Parses(id[n - 1], I32) /\ topic # <<Empty>>
        THEN [topic |-> topic, partition |-> id[n - 1].value, offset |-> id[n].value]
        ELSE NoLocation

\* The casts to u64 and back change nothing: the divisor is positive and the
\* remainder below it.
PartitionForKey(k, partitions) == IF partitions <= 1 THEN 0 ELSE Hash[k] % partitions

-----------------------------------------------------------------------------
\* An id has the topic's segments and two more.
LEMMA Encoded ==
  ASSUME I32Max \in Nat, I64Max \in Nat, NEW at \in Locations
  PROVE  LET id == EncodeBusId(at)
             n  == Len(at.topic)
         IN  /\ id \in Seq(Segments) /\ Len(id) = n + 2
             /\ id[n + 1] = Decimal(at.partition) /\ id[n + 2] = Decimal(at.offset)
             /\ SubSeq(id, 1, n) = at.topic
<1>. DEFINE tail == <<Decimal(at.partition), Decimal(at.offset)>>
            id   == at.topic \o tail
            n    == Len(at.topic)
<1>1. /\ at.topic \in Seq(Segments) /\ n \in Nat
      /\ at.partition \in Int /\ at.offset \in Int
  BY DEF Locations, Topics, I32, I64
<1>2. tail \in Seq(Segments) /\ Len(tail) = 2
  BY <1>1 DEF Decimal, Segments
<1>3. id \in Seq(Segments) /\ Len(id) = n + 2
  BY <1>1, <1>2
<1>4. id[n + 1] = Decimal(at.partition) /\ id[n + 2] = Decimal(at.offset)
  BY <1>1, <1>2
<1>5. SubSeq(id, 1, n) = at.topic
  <2>1. SubSeq(id, 1, n) \in Seq(Segments) /\ Len(SubSeq(id, 1, n)) = n
    BY <1>1, <1>3
  <2>2. \A i \in 1..n : SubSeq(id, 1, n)[i] = at.topic[i]
    BY <1>1, <1>2, <1>3
  <2>. QED
    BY <1>1, <2>1, <2>2, SeqEqual
<1>. QED
  BY <1>3, <1>4, <1>5 DEF EncodeBusId

\* parse_bus_id undoes encode_bus_id for every location, slashes in the topic
\* included (message.rs:8-37).
THEOREM RoundTrip ==
  ASSUME I32Max \in Nat, I64Max \in Nat, NEW at \in Locations
  PROVE  ParseBusId(EncodeBusId(at)) = at
<1>. DEFINE id == EncodeBusId(at)
            n  == Len(at.topic)
<1>1. /\ at.topic \in Topics /\ at.partition \in I32 /\ at.offset \in I64
      /\ at = [topic |-> at.topic, partition |-> at.partition, offset |-> at.offset]
  BY DEF Locations
<1>0. n \in Nat /\ n >= 1 /\ at.topic # <<Empty>>
  <2>1. at.topic \in Seq(Segments) /\ at.topic # <<>> /\ at.topic # <<Empty>>
    BY <1>1 DEF Topics
  <2>2. Len(at.topic) \in Nat /\ Len(at.topic) # 0
    BY <2>1, EmptySeq
  <2>. QED
    BY <2>1, <2>2
<1>2. /\ Len(id) = n + 2 /\ SubSeq(id, 1, n) = at.topic
      /\ id[n + 1] = Decimal(at.partition) /\ id[n + 2] = Decimal(at.offset)
  BY Encoded
<1>3. Parses(id[n + 2], I64) /\ Parses(id[n + 1], I32)
  BY <1>1, <1>2 DEF Parses, Decimal
<1>4. id[n + 2].value = at.offset /\ id[n + 1].value = at.partition
  BY <1>2 DEF Decimal
<1>5. Len(id) >= 3 /\ Len(id) - 2 = n /\ Len(id) - 1 = n + 1
  BY <1>0, <1>2
<1>6. ParseBusId(id) = at
  <2>. HIDE DEF id, n
  <2>1. SubSeq(id, 1, Len(id) - 2) # <<Empty>>
    BY <1>0, <1>2, <1>5
  <2>2. ParseBusId(id) = [topic |-> SubSeq(id, 1, Len(id) - 2),
                          partition |-> id[Len(id) - 1].value, offset |-> id[Len(id)].value]
    BY <1>2, <1>3, <1>5, <2>1 DEF ParseBusId
  <2>. QED
    BY <1>1, <1>2, <1>4, <1>5, <2>2
<1>. QED
  BY <1>6

\* Two locations never share an id, so it names one message (message.rs:8).
THEOREM IdsDiffer ==
  ASSUME I32Max \in Nat, I64Max \in Nat,
         NEW a \in Locations, NEW b \in Locations, EncodeBusId(a) = EncodeBusId(b)
  PROVE  a = b
BY RoundTrip

\* The partition is always one that the topic has, for any key and any count, and
\* zero for the counts that make no sense (message.rs:39-52).
THEOREM PartitionInRange ==
  ASSUME I32Max \in Nat, U64Max \in Nat, Hash \in [Keys -> U64],
         NEW k \in Keys, NEW partitions \in I32
  PROVE  /\ PartitionForKey(k, partitions) \in I32
         /\ PartitionForKey(k, partitions) >= 0
         /\ partitions >= 1 => PartitionForKey(k, partitions) < partitions
<1>1. Hash[k] \in Int /\ partitions \in Int
  BY DEF I32, U64
<1>2. CASE partitions <= 1
  BY <1>1, <1>2 DEF PartitionForKey, I32
<1>3. CASE partitions > 1
  <2>1. Hash[k] % partitions \in 0..(partitions - 1)
    BY <1>1, <1>3
  <2>. QED
    BY <1>1, <1>3, <2>1 DEF PartitionForKey, I32
<1>. QED
  BY <1>1, <1>2, <1>3
=============================================================================
