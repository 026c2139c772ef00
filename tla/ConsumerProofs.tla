----------------------------- MODULE ConsumerProofs -----------------------------
(***************************************************************************)
(* Proofs about Consumer, for a log and a channel of any length: what recv *)
(* returns is the log, and an end is an end.                               *)
(***************************************************************************)
EXTENDS Consumer, SequenceTheorems, TLAPS

\* StreamExact without the session: the sequence s is what is due, and the error
\* if the stream has failed; sh when the tail may be missing.
Stream(s, due, fails, sh) ==
  LET items == due \cup (IF fails THEN {Error} ELSE {})
  IN  /\ \A i, j \in DOMAIN s : i < j => s[i] # Error /\ (s[j] = Error \/ s[i] < s[j])
      /\ Range(s) \subseteq items
      /\ \A item \in Range(s), o \in due : item = Error \/ o < item => o \in Range(s)
      /\ ~sh => items \subseteq Range(s)

\* The task and what it holds, and where its stream is in the log: at its start or
\* within the log, for only then what is appended next is still to be fetched.
TaskSound ==
  /\ low <= end /\ log \subseteq 0..end - 1
  /\ session = "none" => task = "none" /\ ~recving /\ reply = "none"
  /\ task = "fetching" => ~failed
  /\ task = "sending" <=> hand # <<>>
  /\ task = "exited" => shutdown \/ failed
  /\ session = "open" => \/ cursor < 0 /\ first = Unknown
                         \/ /\ first \in 0..cursor
                            /\ cursor = first \/ cursor <= end

ConsumerInv == ConsumerTypeOK /\ TaskSound /\ StreamExact /\ EndIsHonest

-----------------------------------------------------------------------------
(***************************************************************************)
(* Sequences.                                                              *)
(***************************************************************************)
LEMMA RangeAppended ==
  ASSUME NEW S, NEW s \in Seq(S), NEW e \in S
  PROVE  Range(Append(s, e)) = Range(s) \cup {e}
<1>1. /\ DOMAIN Append(s, e) = 1..Len(s) + 1 /\ DOMAIN s = 1..Len(s) /\ Len(s) \in Nat
      /\ \A k \in 1..Len(s) : Append(s, e)[k] = s[k]
      /\ Append(s, e)[Len(s) + 1] = e
  BY AppendProperties, LenProperties
<1>2. ASSUME NEW x \in Range(Append(s, e)) PROVE x \in Range(s) \cup {e}
  <2>1. PICK k \in 1..Len(s) + 1 : x = Append(s, e)[k]
    BY <1>1 DEF Range
  <2>2. k \in 1..Len(s) \/ k = Len(s) + 1
    BY <1>1
  <2>. QED
    BY <1>1, <2>1, <2>2 DEF Range
<1>3. ASSUME NEW x \in Range(s) PROVE x \in Range(Append(s, e))
  <2>1. PICK k \in 1..Len(s) : x = s[k]
    BY <1>1 DEF Range
  <2>2. k \in 1..Len(s) + 1 /\ x = Append(s, e)[k]
    BY <1>1, <2>1
  <2>. QED
    BY <1>1, <2>2 DEF Range
<1>4. e \in Range(Append(s, e))
  BY <1>1 DEF Range
<1>. QED
  BY <1>2, <1>3, <1>4

\* The next record that is due goes to the end of the stream.
LEMMA RecordAppended ==
  ASSUME NEW s \in Seq(Item), NEW due \in SUBSET Nat, NEW o \in Nat, o \in Item,
         Stream(s, due, FALSE, FALSE), \A p \in due : p < o
  PROVE  Stream(Append(s, o), due \cup {o}, FALSE, FALSE)
<1>1. Range(Append(s, o)) = Range(s) \cup {o}
  BY RangeAppended
<1>2. Range(s) = due
  BY DEF Stream
<1>3. ASSUME NEW i \in DOMAIN Append(s, o), NEW j \in DOMAIN Append(s, o), i < j
      PROVE  Append(s, o)[i] # Error /\ (Append(s, o)[j] = Error \/ Append(s, o)[i] < Append(s, o)[j])
  <2>1. /\ DOMAIN Append(s, o) = 1..Len(s) + 1 /\ DOMAIN s = 1..Len(s) /\ Len(s) \in Nat
        /\ \A k \in 1..Len(s) : Append(s, o)[k] = s[k]
        /\ Append(s, o)[Len(s) + 1] = o
    BY AppendProperties, LenProperties
  <2>2. CASE j = Len(s) + 1
    <3>1. i \in DOMAIN s /\ Append(s, o)[i] = s[i]
      BY <1>3, <2>1, <2>2
    <3>2. s[i] \in due
      BY <1>2, <3>1 DEF Range
    <3>3. s[i] \in Nat /\ s[i] < o
      BY <3>2
    <3>. QED
      BY <2>1, <2>2, <3>1, <3>3 DEF Error
  <2>3. CASE j # Len(s) + 1
    <3>1. i \in DOMAIN s /\ j \in DOMAIN s /\ Append(s, o)[i] = s[i] /\ Append(s, o)[j] = s[j]
      BY <1>3, <2>1, <2>3
    <3>. QED
      BY <1>3, <3>1 DEF Stream
  <2>. QED
    BY <2>2, <2>3
<1>. QED
  BY <1>1, <1>2, <1>3 DEF Stream

\* An error may follow whatever was sent, once.
LEMMA ErrorAppended ==
  ASSUME NEW s \in Seq(Item), NEW due \in SUBSET Nat, Error \in Item, Stream(s, due, FALSE, FALSE)
  PROVE  Stream(Append(s, Error), due, TRUE, FALSE)
<1>1. Range(Append(s, Error)) = Range(s) \cup {Error}
  BY RangeAppended
<1>2. Range(s) = due
  BY DEF Stream
<1>3. ASSUME NEW i \in DOMAIN Append(s, Error), NEW j \in DOMAIN Append(s, Error), i < j
      PROVE  /\ Append(s, Error)[i] # Error
             /\ Append(s, Error)[j] = Error \/ Append(s, Error)[i] < Append(s, Error)[j]
  <2>1. /\ DOMAIN Append(s, Error) = 1..Len(s) + 1 /\ DOMAIN s = 1..Len(s) /\ Len(s) \in Nat
        /\ \A k \in 1..Len(s) : Append(s, Error)[k] = s[k]
        /\ Append(s, Error)[Len(s) + 1] = Error
    BY AppendProperties, LenProperties
  <2>2. i \in DOMAIN s /\ Append(s, Error)[i] = s[i]
    BY <1>3, <2>1
  <2>3. s[i] # Error
    <3>1. s[i] \in due
      BY <1>2, <2>2 DEF Range
    <3>2. s[i] \in Nat
      BY <3>1
    <3>. QED
      BY <3>2 DEF Error
  <2>4. CASE j = Len(s) + 1
    BY <2>1, <2>2, <2>3, <2>4
  <2>5. CASE j # Len(s) + 1
    <3>1. j \in DOMAIN s /\ Append(s, Error)[j] = s[j]
      BY <2>1, <2>5
    <3>. QED
      BY <1>3, <2>2, <3>1 DEF Stream
  <2>. QED
    BY <2>4, <2>5
<1>. QED
  BY <1>1, <1>2, <1>3 DEF Stream

\* A shutdown cuts off the last item, or none.
LEMMA TailCut ==
  ASSUME NEW s \in Seq(Item), NEW e \in Item, NEW due \in SUBSET Nat, NEW fails, NEW sh,
         Stream(Append(s, e), due, fails, sh)
  PROVE  Stream(s, due, fails, TRUE)
<1>1. Range(Append(s, e)) = Range(s) \cup {e}
  BY RangeAppended
<1>2. /\ DOMAIN Append(s, e) = 1..Len(s) + 1 /\ DOMAIN s = 1..Len(s) /\ Len(s) \in Nat
      /\ \A k \in 1..Len(s) : Append(s, e)[k] = s[k]
      /\ Append(s, e)[Len(s) + 1] = e
  BY AppendProperties, LenProperties
<1>3. \A i, j \in DOMAIN s : i < j => s[i] # Error /\ (s[j] = Error \/ s[i] < s[j])
  BY <1>2 DEF Stream
<1>4. ASSUME NEW item \in Range(s), NEW o \in due, item = Error \/ o < item PROVE o \in Range(s)
  <2>1. o \in Range(s) \/ o = e
    BY <1>1, <1>4 DEF Stream
  <2>2. PICK i \in DOMAIN s : item = s[i]
    BY DEF Range
  <2>3. item # Error /\ (e = Error \/ item < e)
    <3>1. i \in DOMAIN Append(s, e) /\ Len(s) + 1 \in DOMAIN Append(s, e) /\ i < Len(s) + 1
      BY <1>2, <2>2
    <3>2. /\ Append(s, e)[i] # Error
          /\ Append(s, e)[Len(s) + 1] = Error \/ Append(s, e)[i] < Append(s, e)[Len(s) + 1]
      BY <3>1 DEF Stream
    <3>. QED
      BY <1>2, <2>2, <3>2
  <2>4. item \in Int
    <3>1. s[i] \in Item
      BY <1>2, <2>2, ElementOfSeq
    <3>. QED
      BY <2>2, <3>1, ConsumerAssumption DEF Item, Error
  <2>. QED
    BY <1>4, <2>1, <2>3, <2>4 DEF Error
<1>. QED
  BY <1>1, <1>3, <1>4 DEF Stream

\* The last item sent is the error exactly when the stream has failed.
LEMMA LastSent ==
  ASSUME NEW s \in Seq(Item), NEW e \in Item, NEW due \in SUBSET Nat, NEW fails \in BOOLEAN,
         Stream(Append(s, e), due, fails, FALSE)
  PROVE  fails <=> e = Error
<1>1. /\ DOMAIN Append(s, e) = 1..Len(s) + 1 /\ Len(s) \in Nat
      /\ Append(s, e)[Len(s) + 1] = e
  BY AppendProperties, LenProperties
<1>2. CASE fails
  <2>1. Error \in Range(Append(s, e))
    BY <1>2 DEF Stream
  <2>2. PICK i \in 1..Len(s) + 1 : Append(s, e)[i] = Error
    BY <1>1, <2>1 DEF Range
  <2>3. ~(i < Len(s) + 1)
    BY <1>1, <2>2 DEF Stream
  <2>. QED
    BY <1>1, <1>2, <2>2, <2>3
<1>3. CASE ~fails
  <2>1. e \in Range(Append(s, e))
    BY <1>1 DEF Range
  <2>2. e \in Nat
    BY <1>3, <2>1 DEF Stream
  <2>. QED
    BY <1>3, <2>2 DEF Error
<1>. QED
  BY <1>2, <1>3

\* A stream that has just begun.
LEMMA EmptyStream ==
  ASSUME NEW sh PROVE Stream(<<>>, {}, FALSE, sh)
<1>1. DOMAIN <<>> = {} /\ Range(<<>>) = {}
  BY DEF Range
<1>. QED
  BY <1>1 DEF Stream

-----------------------------------------------------------------------------
(***************************************************************************)
(* The steps of a session, in a program that may also leave it, build a    *)
(* new pool between two sessions, and count a fault of another kind.       *)
(***************************************************************************)
Leave ==
  /\ NoSession
  /\ closed' \in BOOLEAN /\ shutdown' \in BOOLEAN /\ faults' \in 0..MaxFaults
  /\ UNCHANGED broker

Replace ==
  /\ session = "none"
  /\ closed' \in BOOLEAN /\ shutdown' \in BOOLEAN
  /\ UNCHANGED <<broker, fetcher, buffer, caller, faults>>

Mishap ==
  /\ faults' \in 0..MaxFaults
  /\ UNCHANGED <<broker, pool, fetcher, buffer, caller>>

SessionStep ==
  \/ AppendRecord \/ Retain \/ Close \/ Broadcast
  \/ \E start \in Positions : Connect(start)
  \/ TaskStep
  \/ RecvStart \/ RecvStep \/ RecvTimeout \/ RecvDropped
  \/ Leave \/ Replace \/ Mishap

\* All that is on its way to the caller, or has arrived.
Sent == got \o buffer \o hand

LEMMA HandForm ==
  hand \in {<<>>} \cup {<<i>> : i \in Item} <=> hand = <<>> \/ \E i \in Item : hand = <<i>>
OBVIOUS

LEMMA ExactIsStream ==
  StreamExact <=> (session = "open" => Stream(Sent, Due, failed, shutdown))
BY DEF StreamExact, Stream, Sent, Items

\* The item in the task's hand is the last of them.
LEMMA HandLast ==
  ASSUME ConsumerTypeOK
  PROVE  /\ got \o buffer \in Seq(Item)
         /\ \/ hand = <<>> /\ Sent = got \o buffer
            \/ \E i \in Item : hand = <<i>> /\ Sent = Append(got \o buffer, i)
<1>1. got \in Seq(Item) /\ buffer \in Seq(Item) /\ hand \in {<<>>} \cup {<<i>> : i \in Item}
  BY DEF ConsumerTypeOK
<1>2. got \o buffer \in Seq(Item)
  BY <1>1, ConcatProperties
<1>3. CASE hand = <<>>
  BY <1>2, <1>3, ConcatEmptySeq DEF Sent
<1>4. ASSUME NEW i \in Item, hand = <<i>> PROVE Sent = Append(got \o buffer, i)
  BY <1>2, <1>4, AppendIsConcat DEF Sent
<1>. QED
  BY <1>1, <1>2, <1>3, <1>4

\* Send and recv only pass items on.
LEMMA SendPasses ==
  ASSUME ConsumerTypeOK, buffer' = buffer \o hand, hand' = <<>>, got' = got
  PROVE  Sent' = Sent
<1>1. got \in Seq(Item) /\ buffer \in Seq(Item) /\ hand \in Seq(Item)
  <2>1. hand = <<>> \/ \E i \in Item : hand = <<i>>
    BY HandForm DEF ConsumerTypeOK
  <2>2. <<>> \in Seq(Item) /\ \A i \in Item : <<i>> \in Seq(Item)
    OBVIOUS
  <2>. QED
    BY <2>1, <2>2 DEF ConsumerTypeOK
<1>2. buffer \o hand \in Seq(Item) /\ got \o (buffer \o hand) \in Seq(Item)
  BY <1>1, ConcatProperties
<1>3. (got \o (buffer \o hand)) \o <<>> = got \o (buffer \o hand)
  BY <1>2, ConcatEmptySeq
<1>4. got \o (buffer \o hand) = (got \o buffer) \o hand
  BY <1>1, ConcatAssociative
<1>. QED
  BY <1>3, <1>4 DEF Sent

LEMMA HeadThenTail ==
  ASSUME NEW S, NEW s \in Seq(S), s # <<>>
  PROVE  s = <<Head(s)>> \o Tail(s)
<1>0. <<Head(s)>> \in Seq(S) /\ Tail(s) \in Seq(S)
  BY HeadTailProperties
<1>1. /\ Len(<<Head(s)>>) = 1 /\ <<Head(s)>>[1] = Head(s)
      /\ Len(s) \in Nat \ {0} /\ Head(s) = s[1]
  BY EmptySeq
<1>2. /\ Len(Tail(s)) = Len(s) - 1
      /\ \A i \in 1..Len(Tail(s)) : Tail(s)[i] = s[i + 1]
  BY HeadTailProperties
<1>3. /\ <<Head(s)>> \o Tail(s) \in Seq(S)
      /\ Len(<<Head(s)>> \o Tail(s)) = Len(s)
      /\ \A i \in 1..Len(s) : (<<Head(s)>> \o Tail(s))[i] =
             IF i <= 1 THEN <<Head(s)>>[i] ELSE Tail(s)[i - 1]
  BY <1>0, <1>1, <1>2, ConcatProperties
<1>4. ASSUME NEW i \in 1..Len(s) PROVE (<<Head(s)>> \o Tail(s))[i] = s[i]
  <2>1. CASE i = 1
    BY <1>1, <1>3, <2>1
  <2>2. CASE i # 1
    <3>1. i - 1 \in 1..Len(Tail(s)) /\ (i - 1) + 1 = i /\ ~(i <= 1)
      BY <1>1, <1>2, <2>2
    <3>. QED
      BY <1>2, <1>3, <3>1
  <2>. QED
    BY <2>1, <2>2
<1>. QED
  BY <1>1, <1>3, <1>4, SeqEqual

LEMMA RecvPasses ==
  ASSUME ConsumerTypeOK, buffer # <<>>, buffer' = Tail(buffer), got' = Append(got, Head(buffer)),
         hand' = hand
  PROVE  Sent' = Sent
<1>1. got \in Seq(Item) /\ buffer \in Seq(Item)
  BY DEF ConsumerTypeOK
<1>2. Head(buffer) \in Item /\ Tail(buffer) \in Seq(Item) /\ <<Head(buffer)>> \in Seq(Item)
  BY <1>1, HeadTailProperties
<1>3. Append(got, Head(buffer)) = got \o <<Head(buffer)>>
  BY <1>1, <1>2, AppendIsConcat
<1>4. <<Head(buffer)>> \o Tail(buffer) = buffer
  BY <1>1, HeadThenTail
<1>5. (got \o <<Head(buffer)>>) \o Tail(buffer) = got \o buffer
  BY <1>1, <1>2, <1>4, ConcatAssociative
<1>. QED
  BY <1>3, <1>5 DEF Sent

-----------------------------------------------------------------------------
(***************************************************************************)
(* Types.                                                                  *)
(***************************************************************************)
LEMMA ConsumerTypeInit == InitConsumer => ConsumerTypeOK
<1>1. <<>> \in Seq(Item) /\ Len(<<>>) = 0
  BY EmptySeq
<1>2. SUFFICES ASSUME InitConsumer PROVE ConsumerTypeOK
  OBVIOUS
<1>3. hand \in {<<>>} \cup {<<i>> : i \in Item}
  BY <1>2, HandForm DEF InitConsumer
<1>4. /\ cursor \in Positions /\ first \in Unknown..MaxEnd /\ low \in 0..MaxLow /\ end \in 0..MaxEnd
      /\ faults \in 0..MaxFaults /\ Len(buffer) <= Capacity
  BY <1>1, <1>2, ConsumerAssumption DEF InitConsumer, Positions, Earliest, Unknown
<1>. QED
  BY <1>1, <1>2, <1>3, <1>4 DEF InitConsumer, ConsumerTypeOK

LEMMA ConsumerTypeStep ==
  ASSUME ConsumerTypeOK, low <= end, SessionStep
  PROVE  ConsumerTypeOK'
<1>. DEFINE BrokerOK  == log \subseteq 0..MaxEnd - 1 /\ low \in 0..MaxLow /\ end \in 0..MaxEnd
            PoolOK    == closed \in BOOLEAN /\ shutdown \in BOOLEAN
            FetcherOK == /\ task \in Alive \cup {"none", "exited"} /\ failed \in BOOLEAN
                         /\ cursor \in Positions /\ first \in Unknown..MaxEnd
                         /\ hand = <<>> \/ \E i \in Item : hand = <<i>>
            BufferOK  == buffer \in Seq(Item) /\ Len(buffer) <= Capacity
            CallerOK  == /\ session \in {"none", "open"} /\ recving \in BOOLEAN /\ got \in Seq(Item)
                         /\ reply \in {"none", "message", "error", "end", "closed", "timeout"}
            FaultsOK  == faults \in 0..MaxFaults
<1>t. BrokerOK /\ PoolOK /\ FetcherOK /\ BufferOK /\ CallerOK /\ FaultsOK
  BY HandForm DEF ConsumerTypeOK
<1>q. BrokerOK' /\ PoolOK' /\ FetcherOK' /\ BufferOK' /\ CallerOK' /\ FaultsOK' => ConsumerTypeOK'
  BY HandForm DEF ConsumerTypeOK
<1>b. UNCHANGED broker => BrokerOK'
  BY <1>t DEF broker
<1>p. UNCHANGED pool => PoolOK'
  BY <1>t DEF pool
<1>f. UNCHANGED fetcher => FetcherOK'
  BY <1>t DEF fetcher
<1>u. UNCHANGED buffer => BufferOK'
  BY <1>t
<1>c. UNCHANGED caller => CallerOK'
  BY <1>t DEF caller
<1>n. UNCHANGED faults => FaultsOK'
  BY <1>t
<1>x. Fault => FaultsOK'
  BY <1>t, ConsumerAssumption DEF Fault
<1>e. <<>> \in Seq(Item) /\ Len(<<>>) = 0 /\ Len(<<>>) <= Capacity
  BY EmptySeq, ConsumerAssumption
<1>. HIDE DEF BrokerOK, PoolOK, FetcherOK, BufferOK, CallerOK, FaultsOK
<1>1. CASE AppendRecord
  <2>1. BrokerOK'
    <3>1. end' = end + 1 /\ end \in 0..MaxEnd - 1 /\ log' \subseteq log \cup {end} /\ low' = low
      BY <1>1, <1>t, ConsumerAssumption DEF AppendRecord, BrokerOK, broker
    <3>. QED
      BY <3>1, <1>t, ConsumerAssumption DEF BrokerOK
  <2>. QED
    BY <1>1, <2>1, <1>q, <1>p, <1>f, <1>u, <1>c, <1>n DEF AppendRecord
<1>2. CASE Retain
  <2>1. BrokerOK'
    BY <1>2, <1>t, ConsumerAssumption DEF Retain, BrokerOK
  <2>. QED
    BY <1>2, <2>1, <1>q, <1>p, <1>f, <1>u, <1>c, <1>n DEF Retain
<1>3. CASE Close
  <2>1. PoolOK'
    BY <1>3, <1>t DEF Close, PoolOK
  <2>. QED
    BY <1>3, <2>1, <1>q, <1>b, <1>f, <1>u, <1>c, <1>x DEF Close
<1>4. CASE Broadcast
  <2>1. PoolOK'
    BY <1>4, <1>t DEF Broadcast, PoolOK
  <2>. QED
    BY <1>4, <2>1, <1>q, <1>b, <1>f, <1>u, <1>c, <1>n DEF Broadcast
<1>5. ASSUME NEW start \in Positions, Connect(start) PROVE ConsumerTypeOK'
  <2>1. FetcherOK'
    <3>1. cursor' \in Positions /\ first' \in Unknown..MaxEnd
      BY <1>5, ConsumerAssumption DEF Connect, Positions, Earliest, Unknown
    <3>. QED
      BY <1>5, <3>1 DEF Connect, FetcherOK, Alive
  <2>2. BufferOK' /\ CallerOK'
    BY <1>5, <1>e DEF Connect, BufferOK, CallerOK
  <2>. QED
    BY <1>5, <2>1, <2>2, <1>q, <1>b, <1>p, <1>n DEF Connect
<1>6. CASE ResolveStart
  <2>1. FetcherOK'
    <3>1. low \in 0..MaxEnd /\ end \in 0..MaxEnd
      BY <1>t, ConsumerAssumption DEF BrokerOK
    <3>2. cursor' \in Positions /\ first' \in Unknown..MaxEnd
      BY <1>6, <3>1, ConsumerAssumption DEF ResolveStart, Positions, Earliest, Unknown
    <3>. QED
      BY <1>6, <1>t, <3>2 DEF ResolveStart, FetcherOK
  <2>. QED
    BY <1>6, <2>1, <1>q, <1>b, <1>p, <1>u, <1>c, <1>n DEF ResolveStart
<1>7. CASE Fetch
  <2>1. FetcherOK'
    <3>1. PICK o \in log : hand' = <<o>> /\ cursor' = o + 1
      BY <1>7 DEF Fetch
    <3>2. o \in Item /\ o + 1 \in Positions
      BY <1>t, ConsumerAssumption DEF BrokerOK, Item, Error, Positions, Earliest
    <3>. QED
      BY <1>7, <1>t, <3>1, <3>2 DEF Fetch, FetcherOK, Alive
  <2>. QED
    BY <1>7, <2>1, <1>q, <1>b, <1>p, <1>u, <1>c, <1>n DEF Fetch
<1>8. CASE FetchError \/ OffsetOutOfRange
  <2>1. FetcherOK'
    <3>1. Error \in Item
      BY ConsumerAssumption DEF Item, Error
    <3>. QED
      BY <1>8, <3>1, <1>t DEF FetchError, OffsetOutOfRange, StreamFails, FetcherOK, Alive
  <2>2. FaultsOK'
    BY <1>8, <1>x, <1>n DEF FetchError, OffsetOutOfRange
  <2>. QED
    BY <1>8, <2>1, <2>2, <1>q, <1>b, <1>p, <1>u, <1>c DEF FetchError, OffsetOutOfRange, StreamFails
<1>9. CASE Send
  <2>1. FetcherOK'
    BY <1>9, <1>t DEF Send, FetcherOK, Alive
  <2>2. BufferOK'
    <3>1. CASE hand = <<>>
      BY <1>9, <3>1, <1>t, ConcatEmptySeq DEF Send, BufferOK
    <3>2. ASSUME NEW i \in Item, hand = <<i>> PROVE BufferOK'
      <4>1. buffer' = Append(buffer, i)
        BY <1>9, <3>2, <1>t, AppendIsConcat DEF Send, BufferOK
      <4>2. Append(buffer, i) \in Seq(Item) /\ Len(Append(buffer, i)) = Len(buffer) + 1
        BY <1>t, AppendProperties DEF BufferOK
      <4>3. Len(buffer) \in Nat /\ Len(buffer) < Capacity
        BY <1>9, <1>t, LenProperties DEF Send, BufferOK
      <4>. QED
        BY <4>1, <4>2, <4>3, ConsumerAssumption DEF BufferOK
    <3>. QED
      BY <3>1, <3>2, <1>t DEF FetcherOK
  <2>. QED
    BY <1>9, <2>1, <2>2, <1>q, <1>b, <1>p, <1>c, <1>n DEF Send
<1>10. CASE TaskShutdown
  <2>1. FetcherOK'
    BY <1>10, <1>t DEF TaskShutdown, FetcherOK
  <2>. QED
    BY <1>10, <2>1, <1>q, <1>b, <1>p, <1>u, <1>c, <1>n DEF TaskShutdown
<1>11. CASE RecvStart
  <2>1. CallerOK'
    BY <1>11, <1>t DEF RecvStart, CallerOK
  <2>. QED
    BY <1>11, <2>1, <1>q, <1>b, <1>p, <1>f, <1>u, <1>n DEF RecvStart
<1>12. CASE RecvItem
  <2>1. /\ Head(buffer) \in Item /\ Tail(buffer) \in Seq(Item)
        /\ Len(Tail(buffer)) = Len(buffer) - 1 /\ Len(buffer) \in Nat
    BY <1>12, <1>t, HeadTailProperties, LenProperties DEF RecvItem, BufferOK
  <2>2. BufferOK'
    BY <1>12, <2>1, <1>t, ConsumerAssumption DEF RecvItem, BufferOK
  <2>3. Append(got, Head(buffer)) \in Seq(Item)
    BY <2>1, <1>t, AppendProperties DEF CallerOK
  <2>4. CallerOK'
    BY <1>12, <2>3, <1>t DEF RecvItem, CallerOK
  <2>. QED
    BY <1>12, <2>2, <2>4, <1>q, <1>b, <1>p, <1>f, <1>n DEF RecvItem
<1>13. CASE RecvEnd \/ RecvTimeout \/ RecvDropped
  <2>1. CallerOK'
    BY <1>13, <1>t DEF RecvEnd, RecvTimeout, RecvDropped, RecvWithout, CallerOK
  <2>2. FaultsOK'
    BY <1>13, <1>x, <1>n DEF RecvEnd, RecvTimeout, RecvDropped
  <2>. QED
    BY <1>13, <2>1, <2>2, <1>q, <1>b, <1>p, <1>f, <1>u DEF RecvEnd, RecvTimeout, RecvDropped, RecvWithout
<1>14. CASE Leave
  <2>1. FetcherOK'
    <3>1. cursor' \in Positions /\ first' \in Unknown..MaxEnd
      BY <1>14, ConsumerAssumption DEF Leave, NoSession, Positions, Earliest, Unknown
    <3>. QED
      BY <1>14, <3>1 DEF Leave, NoSession, FetcherOK, Alive
  <2>2. BufferOK' /\ CallerOK'
    BY <1>14, <1>e DEF Leave, NoSession, BufferOK, CallerOK
  <2>3. PoolOK' /\ FaultsOK'
    BY <1>14 DEF Leave, PoolOK, FaultsOK
  <2>. QED
    BY <1>14, <2>1, <2>2, <2>3, <1>q, <1>b DEF Leave
<1>15. CASE Replace
  <2>1. PoolOK'
    BY <1>15 DEF Replace, PoolOK
  <2>. QED
    BY <1>15, <2>1, <1>q, <1>b, <1>f, <1>u, <1>c, <1>n DEF Replace
<1>16. CASE Mishap
  <2>1. FaultsOK'
    BY <1>16 DEF Mishap, FaultsOK
  <2>. QED
    BY <1>16, <2>1, <1>q, <1>b, <1>p, <1>f, <1>u, <1>c DEF Mishap
<1>. QED
  BY <1>1, <1>2, <1>3, <1>4, <1>5, <1>6, <1>7, <1>8, <1>9, <1>10, <1>11, <1>12, <1>13, <1>14, <1>15,
     <1>16 DEF SessionStep, TaskStep, RecvStep

-----------------------------------------------------------------------------
(***************************************************************************)
(* The task.                                                               *)
(***************************************************************************)
\* What is due are offsets.
LEMMA DueOffsets ==
  ASSUME ConsumerTypeOK PROVE Due \in SUBSET Nat
<1>1. \A o \in log : o \in Nat
  BY ConsumerAssumption DEF ConsumerTypeOK
<1>. QED
  BY <1>1 DEF Due

\* Nothing is due before the start is known, or where it is.
LEMMA NothingDue ==
  ASSUME NEW S \in SUBSET Nat, NEW f \in Int, NEW c \in Int, c < 0 \/ f = c
  PROVE  {o \in S : f <= o /\ o < c} = {}
<1>1. ASSUME NEW o \in S, f <= o, o < c PROVE FALSE
  <2>1. o \in Nat
    OBVIOUS
  <2>. QED
    BY <1>1, <2>1
<1>. QED
  BY <1>1

\* Before the shutdown, what the task sends is the error exactly if the stream
\* has failed.
LEMMA SendsErrorIfFailed ==
  ASSUME ConsumerTypeOK, TaskSound, StreamExact, task = "sending", ~shutdown
  PROVE  failed <=> hand = <<Error>>
<1>1. PICK i \in Item : hand = <<i>> /\ Sent = Append(got \o buffer, i)
  BY HandLast DEF TaskSound
<1>2. session = "open"
  BY DEF ConsumerTypeOK, TaskSound
<1>3. Stream(Append(got \o buffer, i), Due, failed, FALSE)
  BY <1>1, <1>2, ExactIsStream DEF Stream
<1>4. failed <=> i = Error
  BY <1>3, HandLast, LastSent, DueOffsets DEF ConsumerTypeOK
<1>. QED
  BY <1>1, <1>4

LEMMA TaskSoundStep ==
  ASSUME ConsumerTypeOK, TaskSound, StreamExact, SessionStep
  PROVE  TaskSound'
<1>. DEFINE LogOK     == low <= end /\ log \subseteq 0..end - 1
            NoneOK    == session = "none" => task = "none" /\ ~recving /\ reply = "none"
            TaskOK    == /\ task = "fetching" => ~failed
                         /\ task = "sending" <=> hand # <<>>
                         /\ task = "exited" => shutdown \/ failed
            StartOK   == session = "open" => \/ cursor < 0 /\ first = Unknown
                                             \/ /\ first \in 0..cursor
                                                /\ cursor = first \/ cursor <= end
<1>t. LogOK /\ NoneOK /\ TaskOK /\ StartOK
  BY DEF TaskSound
<1>y. low \in Nat /\ end \in Nat /\ cursor \in Int /\ first \in Int /\ session \in {"none", "open"}
  BY ConsumerAssumption DEF ConsumerTypeOK, Positions, Earliest, Unknown
<1>o. task # "none" => session = "open"
  BY <1>t, <1>y
<1>q. LogOK' /\ NoneOK' /\ TaskOK' /\ StartOK' => TaskSound'
  BY DEF TaskSound
<1>b. UNCHANGED broker => LogOK'
  BY <1>t DEF broker
<1>n. UNCHANGED <<session, task, recving, reply>> => NoneOK'
  BY <1>t
<1>p. UNCHANGED <<task, failed, hand>> /\ (shutdown => shutdown') => TaskOK'
  BY <1>t
<1>s. UNCHANGED <<session, cursor, first>> /\ end' >= end /\ end' \in Nat => StartOK'
  BY <1>t, <1>y
<1>f. UNCHANGED <<session, fetcher, broker>> => StartOK'
  BY <1>s, <1>y DEF fetcher, broker
<1>. HIDE DEF LogOK, NoneOK, TaskOK, StartOK
<1>1. CASE AppendRecord
  <2>1. end' = end + 1 /\ log' \subseteq log \cup {end} /\ low' = low
    BY <1>1 DEF AppendRecord, broker
  <2>2. LogOK'
    BY <2>1, <1>t, <1>y DEF LogOK
  <2>. QED
    BY <1>1, <2>1, <2>2, <1>q, <1>n, <1>p, <1>s, <1>y DEF AppendRecord, pool, fetcher, caller
<1>2. CASE Retain
  <2>1. LogOK'
    BY <1>2, <1>t, <1>y DEF Retain, LogOK
  <2>. QED
    BY <1>2, <2>1, <1>q, <1>n, <1>p, <1>s, <1>y DEF Retain, pool, fetcher, caller
<1>3. CASE Close \/ Broadcast
  BY <1>3, <1>q, <1>b, <1>n, <1>p, <1>f DEF Close, Broadcast, fetcher, caller
<1>4. ASSUME NEW start \in Positions, Connect(start) PROVE TaskSound'
  <2>1. StartOK'
    BY <1>4, ConsumerAssumption DEF Connect, StartOK, Positions, Earliest, Unknown
  <2>2. NoneOK' /\ TaskOK'
    BY <1>4 DEF Connect, NoneOK, TaskOK
  <2>. QED
    BY <1>4, <2>1, <2>2, <1>q, <1>b DEF Connect
<1>5. CASE ResolveStart
  <2>1. StartOK'
    BY <1>5, <1>y, <1>t DEF ResolveStart, Earliest, StartOK, LogOK, broker
  <2>. QED
    BY <1>5, <2>1, <1>q, <1>b, <1>n, <1>p DEF ResolveStart, pool, caller
<1>6. CASE Fetch
  <2>1. PICK o \in log : o >= cursor /\ hand' = <<o>> /\ cursor' = o + 1
    BY <1>6 DEF Fetch
  <2>2. o \in Nat /\ o < end /\ cursor >= 0 /\ session = "open"
    BY <1>6, <1>t, <1>y, <1>o DEF LogOK, Fetch, Polls
  <2>3. StartOK'
    BY <1>6, <2>1, <2>2, <1>t, <1>y DEF Fetch, StartOK, Unknown, broker, caller
  <2>4. TaskOK'
    BY <1>6, <2>1 DEF Fetch, TaskOK
  <2>5. NoneOK'
    BY <1>6, <2>2 DEF Fetch, NoneOK, caller
  <2>. QED
    BY <1>6, <2>3, <2>4, <2>5, <1>q, <1>b DEF Fetch
<1>7. CASE FetchError \/ OffsetOutOfRange
  <2>1. StreamFails
    BY <1>7 DEF FetchError, OffsetOutOfRange
  <2>2. TaskOK'
    BY <2>1 DEF StreamFails, TaskOK
  <2>3. NoneOK'
    BY <2>1, <1>o DEF StreamFails, Polls, NoneOK, caller
  <2>. QED
    BY <2>1, <2>2, <2>3, <1>q, <1>b, <1>s, <1>y DEF StreamFails, broker, caller
<1>8. CASE Send
  <2>1. failed <=> hand = <<Error>>
    BY <1>8, SendsErrorIfFailed DEF Send
  <2>2. TaskOK'
    BY <1>8, <2>1 DEF Send, TaskOK
  <2>3. NoneOK'
    BY <1>8, <1>o DEF Send, NoneOK, caller
  <2>. QED
    BY <1>8, <2>2, <2>3, <1>q, <1>b, <1>s, <1>y DEF Send, broker, caller
<1>9. CASE TaskShutdown
  <2>1. TaskOK'
    BY <1>9 DEF TaskShutdown, TaskOK, pool
  <2>2. NoneOK'
    BY <1>9, <1>o DEF TaskShutdown, Alive, NoneOK, caller
  <2>. QED
    BY <1>9, <2>1, <2>2, <1>q, <1>b, <1>s, <1>y DEF TaskShutdown, broker, caller
<1>10. CASE RecvStart \/ RecvItem \/ RecvEnd \/ RecvTimeout \/ RecvDropped
  <2>1. session = "open" /\ session' = session
    BY <1>10, <1>t, <1>y DEF NoneOK, RecvStart, RecvItem, RecvEnd, RecvTimeout, RecvDropped, RecvWithout
  <2>2. UNCHANGED <<broker, pool, fetcher>>
    BY <1>10 DEF RecvStart, RecvItem, RecvEnd, RecvTimeout, RecvDropped, RecvWithout
  <2>3. NoneOK'
    BY <2>1 DEF NoneOK
  <2>. QED
    BY <2>1, <2>2, <2>3, <1>q, <1>b, <1>p, <1>f DEF pool, fetcher
<1>11. CASE Leave
  <2>1. NoneOK' /\ TaskOK' /\ StartOK'
    BY <1>11 DEF Leave, NoSession, NoneOK, TaskOK, StartOK
  <2>. QED
    BY <1>11, <2>1, <1>q, <1>b DEF Leave
<1>12. CASE Replace
  <2>1. TaskOK'
    <3>1. task = "none" /\ task' = task /\ hand' = hand
      BY <1>12, <1>t DEF Replace, NoneOK, fetcher
    <3>. QED
      BY <3>1, <1>t DEF TaskOK
  <2>. QED
    BY <1>12, <2>1, <1>q, <1>b, <1>n, <1>f DEF Replace, fetcher, caller
<1>13. CASE Mishap
  BY <1>13, <1>q, <1>b, <1>n, <1>p, <1>f DEF Mishap, pool, fetcher, caller
<1>. QED
  BY <1>1, <1>2, <1>3, <1>4, <1>5, <1>6, <1>7, <1>8, <1>9, <1>10, <1>11, <1>12, <1>13
     DEF SessionStep, TaskStep, RecvStep

-----------------------------------------------------------------------------
(***************************************************************************)
(* The stream.                                                             *)
(***************************************************************************)
\* A record that is appended is not due yet.
LEMMA AppendNotDue ==
  ASSUME ConsumerTypeOK, TaskSound, session = "open", AppendRecord
  PROVE  Due' = Due
<1>1. /\ log' \subseteq log \cup {end} /\ log \subseteq log' /\ cursor' = cursor /\ first' = first
  BY DEF AppendRecord, fetcher
<1>2. end \in Nat /\ cursor \in Int /\ first \in Int
  BY ConsumerAssumption DEF ConsumerTypeOK, Positions, Earliest, Unknown
<1>3. ~(first <= end /\ end < cursor)
  BY <1>2 DEF TaskSound
<1>. QED
  BY <1>1, <1>3 DEF Due

LEMMA StreamStep ==
  ASSUME ConsumerTypeOK, TaskSound, StreamExact, SessionStep, ConsumerTypeOK'
  PROVE  StreamExact'
<1>s. session = "open" => Stream(Sent, Due, failed, shutdown)
  BY ExactIsStream
<1>q. (session' = "open" => Stream(Sent', Due', failed', shutdown')) => StreamExact'
  BY DEF StreamExact, Stream, Sent, Items
<1>k. Sent' = Sent /\ Due' = Due /\ failed' = failed /\ session' = session /\ (shutdown => shutdown')
        => StreamExact'
  BY <1>s, <1>q DEF Stream
<1>o. task # "none" => session = "open"
  BY DEF ConsumerTypeOK, TaskSound
<1>d. UNCHANGED <<broker, fetcher>> => Due' = Due
  BY DEF broker, fetcher, Due
<1>n. UNCHANGED <<got, buffer, hand>> => Sent' = Sent
  BY DEF Sent
<1>y. log \subseteq Nat /\ cursor \in Int /\ first \in Int
  BY ConsumerAssumption DEF ConsumerTypeOK, Positions, Earliest, Unknown
<1>z. log' \subseteq Nat /\ cursor' \in Int /\ first' \in Int
  BY ConsumerAssumption DEF ConsumerTypeOK, Positions, Earliest, Unknown
<1>e. cursor' < 0 \/ first' = cursor' => Due' = {}
  BY <1>z, NothingDue DEF Due
<1>1. CASE AppendRecord
  <2>1. session = "open" => Due' = Due
    BY <1>1, AppendNotDue
  <2>. QED
    BY <1>1, <2>1, <1>s, <1>q, <1>n DEF AppendRecord, pool, fetcher, caller
<1>2. CASE Retain
  <2>1. Due' = Due
    BY <1>2 DEF Retain, fetcher, Due
  <2>. QED
    BY <1>2, <2>1, <1>k, <1>n DEF Retain, pool, fetcher, caller
<1>3. CASE Close \/ Broadcast
  BY <1>3, <1>k, <1>d, <1>n DEF Close, Broadcast, fetcher, caller
<1>4. ASSUME NEW start \in Positions, Connect(start) PROVE StreamExact'
  <2>1. Due' = {}
    <3>1. cursor' < 0 \/ first' = cursor'
      BY <1>4, ConsumerAssumption DEF Connect, Positions, Earliest
    <3>. QED
      BY <3>1, <1>e
  <2>2. Sent' = <<>>
    BY <1>4 DEF Connect, Sent
  <2>. QED
    BY <1>4, <2>1, <2>2, <1>q, EmptyStream DEF Connect
<1>5. CASE ResolveStart
  <2>1. Due = {}
    BY <1>5, <1>y, NothingDue DEF ResolveStart, Due
  <2>2. Due' = {}
    <3>1. first' = cursor'
      BY <1>5 DEF ResolveStart
    <3>. QED
      BY <3>1, <1>e
  <2>. QED
    BY <1>5, <2>1, <2>2, <1>k, <1>n DEF ResolveStart, pool, caller
<1>6. CASE Fetch
  <2>1. PICK o \in log : /\ o >= cursor /\ \A p \in log : p >= cursor => o <= p
                         /\ hand' = <<o>> /\ cursor' = o + 1
    BY <1>6 DEF Fetch
  <2>2. session = "open" /\ shutdown = FALSE /\ failed = FALSE /\ hand = <<>> /\ cursor >= 0
    BY <1>6, <1>o DEF Fetch, Polls, TaskSound, ConsumerTypeOK
  <2>3. /\ log \subseteq Nat /\ o \in Nat /\ o \in Item /\ cursor \in Int /\ first \in Int /\ first <= o
    BY <2>1, <2>2, ConsumerAssumption
       DEF ConsumerTypeOK, TaskSound, Positions, Earliest, Unknown, Item, Error
  <2>4. Due' = Due \cup {o}
    <3>1. log' = log /\ first' = first
      BY <1>6 DEF Fetch, broker
    <3>2. ASSUME NEW p \in log PROVE p < o + 1 <=> p < cursor \/ p = o
      BY <2>1, <2>3
    <3>. QED
      BY <2>1, <2>3, <3>1, <3>2 DEF Due
  <2>5. got \o buffer \in Seq(Item) /\ Sent = got \o buffer
    BY <2>2, HandLast
  <2>6. Sent' = Append(Sent, o)
    BY <1>6, <2>1, <2>3, <2>5, AppendIsConcat DEF Fetch, Sent, caller
  <2>7. \A p \in Due : p < o
    BY <2>1, <2>3 DEF Due
  <2>8. Stream(Append(Sent, o), Due \cup {o}, FALSE, FALSE)
    <3>1. Stream(Sent, Due, FALSE, FALSE)
      BY <2>2, <1>s
    <3>. QED
      BY <2>3, <2>5, <2>7, <3>1, DueOffsets, RecordAppended
  <2>. QED
    <3>1. shutdown' = FALSE /\ failed' = FALSE
      BY <1>6, <2>2 DEF Fetch, pool
    <3>. QED
      BY <2>4, <2>6, <2>8, <3>1, <1>q
<1>7. CASE FetchError \/ OffsetOutOfRange
  <2>1. StreamFails
    BY <1>7 DEF FetchError, OffsetOutOfRange
  <2>2. session = "open" /\ shutdown = FALSE /\ failed = FALSE /\ hand = <<>>
    BY <2>1, <1>o DEF StreamFails, Polls, TaskSound, ConsumerTypeOK
  <2>3. got \o buffer \in Seq(Item) /\ Sent = got \o buffer /\ Error \in Item
    BY <2>2, HandLast, ConsumerAssumption DEF Item, Error
  <2>4. Sent' = Append(Sent, Error)
    BY <2>1, <2>3, AppendIsConcat DEF StreamFails, Sent, caller
  <2>5. Due' = Due
    BY <2>1 DEF StreamFails, broker, Due
  <2>6. Stream(Append(Sent, Error), Due, TRUE, FALSE)
    <3>1. Stream(Sent, Due, FALSE, FALSE)
      BY <2>2, <1>s
    <3>. QED
      BY <2>3, <3>1, DueOffsets, ErrorAppended
  <2>. QED
    <3>1. shutdown' = FALSE /\ failed' = TRUE
      BY <2>1, <2>2 DEF StreamFails, pool
    <3>. QED
      BY <2>4, <2>5, <2>6, <3>1, <1>q
<1>8. CASE Send
  <2>1. Sent' = Sent
    BY <1>8, SendPasses DEF Send, caller
  <2>2. Due' = Due
    BY <1>8 DEF Send, broker, Due
  <2>. QED
    BY <1>8, <2>1, <2>2, <1>k DEF Send, pool, caller
<1>9. CASE TaskShutdown
  <2>1. Due' = Due /\ failed' = failed /\ shutdown /\ shutdown' /\ session' = session
    BY <1>9 DEF TaskShutdown, broker, pool, caller, Due
  <2>2. Sent' = got \o buffer
    <3>1. Sent' = (got \o buffer) \o <<>>
      BY <1>9 DEF TaskShutdown, Sent, caller
    <3>. QED
      BY <3>1, HandLast, ConcatEmptySeq
  <2>3. session = "open" => Stream(got \o buffer, Due, failed, TRUE)
    <3>1. CASE Sent = got \o buffer
      BY <2>1, <3>1, <1>s DEF Stream
    <3>2. ASSUME NEW i \in Item, Sent = Append(got \o buffer, i), session = "open"
          PROVE  Stream(got \o buffer, Due, failed, TRUE)
      BY <3>2, <1>s, HandLast, DueOffsets, TailCut
    <3>. QED
      BY <3>1, <3>2, HandLast
  <2>. QED
    BY <2>1, <2>2, <2>3, <1>q DEF Stream
<1>10. CASE RecvItem
  <2>1. Sent' = Sent
    BY <1>10, RecvPasses DEF RecvItem, fetcher
  <2>. QED
    BY <1>10, <2>1, <1>k, <1>d DEF RecvItem, pool, fetcher
<1>11. CASE RecvStart \/ RecvEnd \/ RecvTimeout \/ RecvDropped
  <2>1. UNCHANGED <<broker, pool, fetcher, buffer, session, got>>
    BY <1>11 DEF RecvStart, RecvEnd, RecvTimeout, RecvDropped, RecvWithout
  <2>. QED
    BY <2>1, <1>k, <1>d, <1>n DEF pool, fetcher
<1>12. CASE Leave
  BY <1>12, <1>q DEF Leave, NoSession
<1>13. CASE Replace
  BY <1>13, <1>q DEF Replace, caller
<1>14. CASE Mishap
  BY <1>14, <1>k, <1>d, <1>n DEF Mishap, pool, fetcher, caller
<1>. QED
  BY <1>1, <1>2, <1>3, <1>4, <1>5, <1>6, <1>7, <1>8, <1>9, <1>10, <1>11, <1>12, <1>13, <1>14
     DEF SessionStep, TaskStep, RecvStep

-----------------------------------------------------------------------------
(***************************************************************************)
(* The end.                                                                *)
(***************************************************************************)
LEMMA EndStep ==
  ASSUME ConsumerTypeOK, TaskSound, StreamExact, EndIsHonest, SessionStep
  PROVE  EndIsHonest'
<1>k. UNCHANGED <<reply, got>> /\ (shutdown => shutdown') => EndIsHonest'
  BY DEF EndIsHonest
<1>r. reply' # "end" => EndIsHonest'
  BY DEF EndIsHonest
<1>1. CASE AppendRecord \/ Retain \/ Close \/ Broadcast \/ TaskStep \/ Mishap
  <2>1. UNCHANGED caller
    BY <1>1 DEF AppendRecord, Retain, Close, Broadcast, TaskStep, ResolveStart, Fetch, FetchError,
       OffsetOutOfRange, StreamFails, Send, TaskShutdown, Mishap
  <2>2. shutdown => shutdown'
    BY <1>1 DEF AppendRecord, Retain, Close, Broadcast, TaskStep, ResolveStart, Fetch, FetchError,
       OffsetOutOfRange, StreamFails, Send, TaskShutdown, Mishap, pool
  <2>. QED
    BY <2>1, <2>2, <1>k DEF caller
<1>2. CASE (\E start \in Positions : Connect(start)) \/ RecvItem \/ RecvTimeout \/ RecvDropped \/ Leave
  BY <1>2, <1>r DEF Connect, RecvItem, RecvTimeout, RecvDropped, RecvWithout, Leave, NoSession
<1>3. CASE RecvStart
  BY <1>3, <1>r DEF RecvStart
<1>4. CASE RecvEnd
  <2>1. session = "open" /\ buffer = <<>> /\ task = "exited" /\ shutdown' = shutdown /\ got' = got
    BY <1>4 DEF RecvEnd, RecvWithout, ConsumerTypeOK, TaskSound, pool
  <2>2. Sent = got
    BY <2>1, ConcatEmptySeq DEF Sent, ConsumerTypeOK, TaskSound
  <2>3. ~shutdown => Error \in Range(got)
    <3>1. ~shutdown => failed
      BY <2>1 DEF TaskSound
    <3>. QED
      BY <2>1, <2>2, <3>1, ExactIsStream DEF Stream
  <2>. QED
    BY <2>1, <2>3 DEF EndIsHonest
<1>5. CASE Replace
  BY <1>5, <1>r DEF Replace, caller, TaskSound
<1>. QED
  BY <1>1, <1>2, <1>3, <1>4, <1>5 DEF SessionStep, RecvStep

-----------------------------------------------------------------------------
(***************************************************************************)
(* The theorems.                                                           *)
(***************************************************************************)
LEMMA ConsumerInvStep ==
  ASSUME ConsumerInv, SessionStep
  PROVE  ConsumerInv'
<1>1. ConsumerTypeOK /\ TaskSound /\ StreamExact /\ EndIsHonest /\ low <= end
  BY DEF ConsumerInv, TaskSound
<1>2. ConsumerTypeOK'
  BY <1>1, ConsumerTypeStep
<1>. QED
  BY <1>1, <1>2, TaskSoundStep, StreamStep, EndStep DEF ConsumerInv

LEMMA ConsumerInvKept ==
  ASSUME ConsumerInv, UNCHANGED consumerVars
  PROVE  ConsumerInv'
<1>1. UNCHANGED <<log, low, end, closed, shutdown, task, cursor, first, failed, hand, buffer,
                  session, recving, reply, got, faults>>
  BY DEF consumerVars, broker, pool, fetcher, caller
<1>2. ConsumerTypeOK' /\ TaskSound' /\ EndIsHonest'
  BY <1>1 DEF ConsumerInv, ConsumerTypeOK, TaskSound, EndIsHonest
<1>3. StreamExact'
  BY <1>1 DEF ConsumerInv, StreamExact, Items, Due
<1>. QED
  BY <1>2, <1>3 DEF ConsumerInv

LEMMA ConsumerInvInit == InitConsumer => ConsumerInv
<1>1. InitConsumer => TaskSound /\ StreamExact /\ EndIsHonest
  BY DEF InitConsumer, TaskSound, StreamExact, EndIsHonest
<1>. QED
  BY <1>1, ConsumerTypeInit DEF ConsumerInv

\* Every start that a ConsumerConfig resolves to is a position.
LEMMA ConsumerNextIsSessionStep ==
  ASSUME ConsumerTypeOK, ConsumerNext
  PROVE  SessionStep
<1>1. ASSUME NEW at \in None..MaxEnd, NEW beginning \in BOOLEAN, Connect(StartOf(at, beginning))
      PROVE  SessionStep
  <2>1. StartOf(at, beginning) \in Positions
    BY ConsumerAssumption DEF StartOf, None, Positions, Earliest, Latest
  <2>. QED
    BY <1>1, <2>1 DEF SessionStep
<1>2. CASE Drop /\ UNCHANGED faults
  BY <1>2 DEF Drop, Leave, SessionStep, ConsumerTypeOK, pool
<1>. QED
  BY <1>1, <1>2 DEF ConsumerNext, SessionStep

LEMMA ConsumerInvariant == ConsumerSpec => []ConsumerInv
<1>1. ConsumerInv /\ [ConsumerNext]_consumerVars => ConsumerInv'
  BY ConsumerInvStep, ConsumerInvKept, ConsumerNextIsSessionStep DEF ConsumerInv
<1>. QED
  BY <1>1, ConsumerInvInit, PTL DEF ConsumerSpec

\* The channel keeps its bound (consumer.rs:18), and every variable its type.
THEOREM ConsumerTypeCorrect == ConsumerSpec => []ConsumerTypeOK
<1>1. ConsumerInv => ConsumerTypeOK
  BY DEF ConsumerInv
<1>. QED
  BY <1>1, ConsumerInvariant, PTL

\* On its way from the broker through the task and the channel to recv, no record is
\* lost, repeated or reordered, and nothing follows an error (consumer.rs:105-141).
THEOREM StreamIsTheLog == ConsumerSpec => []StreamExact
<1>1. ConsumerInv => StreamExact
  BY DEF ConsumerInv
<1>. QED
  BY <1>1, ConsumerInvariant, PTL

\* recv returns None only on shutdown or after the error (consumer.rs:133-138).
THEOREM EndsAreHonest == ConsumerSpec => []EndIsHonest
<1>1. ConsumerInv => EndIsHonest
  BY DEF ConsumerInv
<1>. QED
  BY <1>1, ConsumerInvariant, PTL
=============================================================================
