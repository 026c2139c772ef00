--------------------------- MODULE AtLeastOnceProofs ---------------------------
(***************************************************************************)
(* Proofs about AtLeastOnce, for a log and a channel of any length and any *)
(* number of faults: no record is skipped, what is not committed comes     *)
(* again, and what is acknowledged does not.                               *)
(***************************************************************************)
EXTENDS AtLeastOnce, ConsumerProofs

\* What the session has taken from the broker and recv has not returned yet.
Coming == buffer \o hand

\* The owner of the session: one message at a time, and its commit.
OwnerSound ==
  /\ session = "none" => pending = NoMessage /\ ~terminated
  /\ session = "open" => resume # NotRead
  /\ recving => pending = NoMessage /\ ~terminated
  /\ pending # NoMessage => pending \in Range(got) /\ pending \in delivered /\ ~terminated
  /\ commit # "none" => pending # NoMessage /\ pending \in processed
  /\ commit = "applied" => pending < committed

\* What is acknowledged is in every state the store may be left in, and behind all
\* that this session, or the one that is being opened, will return.
AckSound ==
  LET ack == acked[Partition]
  IN  /\ \A m \in survives : ack <= m[Partition]
      /\ session = "none" /\ resume # NotRead => ack <= resume
      /\ session = "open" => /\ IF cursor < 0 THEN ack = None ELSE ack <= cursor
                             /\ \A o \in Range(Coming) : o = Error \/ ack <= o

OwnerInv == TypeOK /\ ConsumerInv /\ OwnerSound /\ AckSound

\* To resume at n skips nothing, also when the log has grown.
SafePoint(n) ==
  /\ n <= end /\ (n = None \/ Base <= n)
  /\ \A o \in log : Base <= o /\ low <= o /\ o < n => o \in processed

\* Whatever the store may hold now or later, and whatever has been read from it.
PointsSafe ==
  /\ \A m \in survives : SafePoint(m[Partition])
  /\ \A n \in late : SafePoint(n)
  /\ resume # NotRead => SafePoint(resume)
  /\ commit # "none" => SafePoint(pending + 1)

\* The session has begun where it skips nothing, and the application has processed
\* what it was given, but for the message that is pending.
SessionSafe ==
  session = "open" =>
    /\ cursor < 0 => cursor = Earliest /\ Base = 0
    /\ cursor >= 0 => /\ Base <= first /\ (first <= end \/ first = Base)
                      /\ \A o \in log : Base <= o /\ low <= o /\ o < first => o \in processed
    /\ \A o \in Range(got) : o = Error \/ o \in processed \/ o = pending \/ terminated

\* Only an open session can have lost its rest, by a shutdown or by being terminated.
Redelivered ==
  \A o \in delivered : /\ Base <= o
                        /\ \/ o < committed \/ o < low \/ ToCome(o)
                           \/ session = "open" /\ (terminated \/ shutdown)

DeliveryInv == PointsSafe /\ SessionSafe /\ Redelivered

-----------------------------------------------------------------------------
(***************************************************************************)
(* Sequences.                                                              *)
(***************************************************************************)
LEMMA RangeConcat ==
  ASSUME NEW S, NEW s \in Seq(S), NEW t \in Seq(S)
  PROVE  Range(s \o t) = Range(s) \cup Range(t)
<1>1. /\ DOMAIN s = 1..Len(s) /\ DOMAIN t = 1..Len(t) /\ Len(s) \in Nat /\ Len(t) \in Nat
      /\ DOMAIN (s \o t) = 1..Len(s) + Len(t)
      /\ \A i \in 1..Len(s) + Len(t) : (s \o t)[i] = IF i <= Len(s) THEN s[i] ELSE t[i - Len(s)]
  BY ConcatProperties, LenProperties
<1>2. ASSUME NEW x \in Range(s \o t) PROVE x \in Range(s) \cup Range(t)
  <2>1. PICK i \in 1..Len(s) + Len(t) : x = (s \o t)[i]
    BY <1>1 DEF Range
  <2>2. CASE i <= Len(s)
    BY <1>1, <2>1, <2>2 DEF Range
  <2>3. CASE ~(i <= Len(s))
    <3>1. i - Len(s) \in DOMAIN t /\ x = t[i - Len(s)]
      BY <1>1, <2>1, <2>3
    <3>. QED
      BY <3>1 DEF Range
  <2>. QED
    BY <2>2, <2>3
<1>3. ASSUME NEW x \in Range(s) PROVE x \in Range(s \o t)
  <2>1. PICK i \in 1..Len(s) : x = s[i]
    BY <1>1 DEF Range
  <2>2. i \in 1..Len(s) + Len(t) /\ x = (s \o t)[i]
    BY <1>1, <2>1
  <2>. QED
    BY <1>1, <2>2 DEF Range
<1>4. ASSUME NEW x \in Range(t) PROVE x \in Range(s \o t)
  <2>1. PICK i \in 1..Len(t) : x = t[i]
    BY <1>1 DEF Range
  <2>2. /\ Len(s) + i \in 1..Len(s) + Len(t) /\ ~(Len(s) + i <= Len(s)) /\ (Len(s) + i) - Len(s) = i
    BY <1>1
  <2>3. x = (s \o t)[Len(s) + i]
    BY <1>1, <2>1, <2>2
  <2>. QED
    BY <1>1, <2>2, <2>3 DEF Range
<1>. QED
  BY <1>2, <1>3, <1>4

LEMMA RangeShort ==
  /\ Range(<<>>) = {}
  /\ \A x : Range(<<x>>) = {x}
<1>1. DOMAIN <<>> = {} /\ \A x : DOMAIN <<x>> = {1} /\ <<x>>[1] = x
  OBVIOUS
<1>. QED
  BY <1>1 DEF Range

\* In a sequence in order, the first part is in order, and before the rest.
LEMMA OrderSplit ==
  ASSUME NEW S, NEW s \in Seq(S), NEW t \in Seq(S),
         \A i, j \in DOMAIN (s \o t) : i < j =>
           (s \o t)[i] # Error /\ ((s \o t)[j] = Error \/ (s \o t)[i] < (s \o t)[j]),
         NEW x \in Range(s), NEW y \in Range(t)
  PROVE  x # Error /\ (y = Error \/ x < y)
<1>1. /\ DOMAIN s = 1..Len(s) /\ DOMAIN t = 1..Len(t) /\ Len(s) \in Nat /\ Len(t) \in Nat
      /\ DOMAIN (s \o t) = 1..Len(s) + Len(t)
      /\ \A i \in 1..Len(s) + Len(t) : (s \o t)[i] = IF i <= Len(s) THEN s[i] ELSE t[i - Len(s)]
  BY ConcatProperties, LenProperties
<1>2. PICK i \in 1..Len(s) : x = s[i]
  BY <1>1 DEF Range
<1>3. PICK k \in 1..Len(t) : y = t[k]
  BY <1>1 DEF Range
<1>4. /\ i \in DOMAIN (s \o t) /\ Len(s) + k \in DOMAIN (s \o t) /\ i < Len(s) + k
      /\ i <= Len(s) /\ ~(Len(s) + k <= Len(s)) /\ (Len(s) + k) - Len(s) = k
  BY <1>1
<1>5. (s \o t)[i] = x /\ (s \o t)[Len(s) + k] = y
  BY <1>1, <1>2, <1>3, <1>4
<1>6. (s \o t)[i] # Error /\ ((s \o t)[Len(s) + k] = Error \/ (s \o t)[i] < (s \o t)[Len(s) + k])
  BY <1>4
<1>. QED
  BY <1>5, <1>6

\* What recv has returned, and what is still coming: records that are due, in order.
LEMMA SentSplit ==
  ASSUME ConsumerInv, session = "open"
  PROVE  /\ \A x \in Range(got) \cup Range(Coming) : x = Error \/ x \in Due
         /\ \A x \in Range(got), y \in Range(Coming) : x # Error /\ (y = Error \/ x < y)
         /\ \A x \in Range(got), o \in Due : x # Error /\ o < x => o \in Range(got)
<1>t. got \in Seq(Item) /\ buffer \in Seq(Item) /\ hand \in Seq(Item) /\ Coming \in Seq(Item)
  <2>1. hand \in Seq(Item)
    <3>1. <<>> \in Seq(Item) /\ \A i \in Item : <<i>> \in Seq(Item)
      OBVIOUS
    <3>. QED
      BY <3>1, HandForm DEF ConsumerInv, ConsumerTypeOK
  <2>2. got \in Seq(Item) /\ buffer \in Seq(Item)
    BY DEF ConsumerInv, ConsumerTypeOK
  <2>. QED
    BY <2>1, <2>2, ConcatProperties DEF Coming
<1>1. Sent = got \o Coming
  BY <1>t, ConcatAssociative DEF Sent, Coming
<1>2. Stream(got \o Coming, Due, failed, shutdown)
  BY <1>1, ExactIsStream DEF ConsumerInv
<1>3. Range(got \o Coming) = Range(got) \cup Range(Coming)
  BY <1>t, RangeConcat
<1>4. \A x \in Range(got) \cup Range(Coming) : x = Error \/ x \in Due
  BY <1>2, <1>3 DEF Stream
<1>5. ASSUME NEW x \in Range(got), NEW y \in Range(Coming) PROVE x # Error /\ (y = Error \/ x < y)
  <2>1. \A i, j \in DOMAIN (got \o Coming) : i < j =>
          /\ (got \o Coming)[i] # Error
          /\ (got \o Coming)[j] = Error \/ (got \o Coming)[i] < (got \o Coming)[j]
    BY <1>2 DEF Stream
  <2>. QED
    BY <1>t, <2>1, OrderSplit
<1>6. ASSUME NEW x \in Range(got), NEW o \in Due, x # Error, o < x PROVE o \in Range(got)
  <2>1. o \in Range(got) \cup Range(Coming)
    BY <1>2, <1>3, <1>6 DEF Stream
  <2>2. x \in Nat /\ o \in Nat
    BY <1>4, <1>6, DueOffsets DEF ConsumerInv
  <2>3. o \in Range(Coming) => o = Error \/ x < o
    BY <1>5
  <2>. QED
    BY <1>6, <2>1, <2>2, <2>3 DEF Error
<1>. QED
  BY <1>4, <1>5, <1>6

LEMMA HeldRange ==
  ASSUME NEW b \in Seq(Item), NEW h \in {<<>>} \cup {<<i>> : i \in Item}
  PROVE  Range(b \o h) = Range(b) \cup Range(h)
<1>1. h = <<>> \/ \E i \in Item : h = <<i>>
  OBVIOUS
<1>2. <<>> \in Seq(Item) /\ \A i \in Item : <<i>> \in Seq(Item)
  OBVIOUS
<1>3. h \in Seq(Item)
  BY <1>1, <1>2
<1>. QED
  BY <1>3, RangeConcat

\* What a step does to the items that are coming.
LEMMA ComingStep ==
  ASSUME ConsumerTypeOK, ConsumerTypeOK'
  PROVE  /\ UNCHANGED <<buffer, hand>> => Coming' = Coming
         /\ Send => Range(Coming') = Range(Coming)
         /\ TaskShutdown => Range(Coming') \subseteq Range(Coming)
         /\ \A x : hand = <<>> /\ hand' = <<x>> /\ buffer' = buffer
                     => Range(Coming') = Range(Coming) \cup {x}
         /\ RecvItem => /\ Range(Coming) = {Head(buffer)} \cup Range(Coming')
                        /\ Range(got') = Range(got) \cup {Head(buffer)}
<1>1. /\ Range(Coming) = Range(buffer) \cup Range(hand)
      /\ Range(Coming') = Range(buffer') \cup Range(hand')
  BY HeldRange DEF Coming, ConsumerTypeOK
<1>2. UNCHANGED <<buffer, hand>> => Coming' = Coming
  BY DEF Coming
<1>3. Send => Range(Coming') = Range(Coming)
  BY <1>1, RangeShort DEF Send, Coming
<1>4. TaskShutdown => Range(Coming') \subseteq Range(Coming)
  BY <1>1, RangeShort DEF TaskShutdown
<1>5. ASSUME NEW x, hand = <<>>, hand' = <<x>>, buffer' = buffer
      PROVE  Range(Coming') = Range(Coming) \cup {x}
  BY <1>1, <1>5, RangeShort
<1>6. ASSUME RecvItem
      PROVE  /\ Range(Coming) = {Head(buffer)} \cup Range(Coming')
             /\ Range(got') = Range(got) \cup {Head(buffer)}
  <2>1. buffer \in Seq(Item) /\ buffer # <<>> /\ got \in Seq(Item)
    BY <1>6 DEF RecvItem, ConsumerTypeOK
  <2>2. /\ Head(buffer) \in Item /\ Tail(buffer) \in Seq(Item) /\ <<Head(buffer)>> \in Seq(Item)
        /\ buffer = <<Head(buffer)>> \o Tail(buffer)
    BY <2>1, HeadTailProperties, HeadThenTail
  <2>3. Range(buffer) = {Head(buffer)} \cup Range(Tail(buffer))
    <3>1. Range(<<Head(buffer)>> \o Tail(buffer)) = Range(<<Head(buffer)>>) \cup Range(Tail(buffer))
      BY <2>2, RangeConcat
    <3>. QED
      BY <2>2, <3>1, RangeShort
  <2>4. Range(got') = Range(got) \cup {Head(buffer)}
    BY <1>6, <2>1, <2>2, RangeAppended DEF RecvItem
  <2>5. buffer' = Tail(buffer) /\ hand' = hand
    BY <1>6 DEF RecvItem, fetcher
  <2>. QED
    BY <1>1, <2>3, <2>4, <2>5
<1>. QED
  BY <1>2, <1>3, <1>4, <1>5, <1>6

-----------------------------------------------------------------------------
(***************************************************************************)
(* The session: every step of AtLeastOnce is one of its consumer, or none. *)
(***************************************************************************)
LEMMA StartPositions ==
  ASSUME TypeOK, resume # NotRead
  PROVE  StartAt(resume) \in Positions
BY StartsAssumption, ConsumerAssumption DEF TypeOK, StartAt, NotRead, None, Positions, Earliest

LEMMA FaultCounted ==
  ASSUME ConsumerTypeOK, Fault PROVE faults' \in 0..MaxFaults
BY ConsumerAssumption DEF ConsumerTypeOK, Fault

LEMMA StepIsConsumers ==
  ASSUME TypeOK, Next
  PROVE  SessionStep \/ UNCHANGED consumerVars
<1>t. ConsumerTypeOK
  BY DEF TypeOK
<1>1. CASE ReadCommitted \/ Ack \/ CommitTakesEffect \/ AckOk \/ LateCommit
  BY <1>1 DEF ReadCommitted, Ack, CommitTakesEffect, AckOk, LateCommit
<1>2. CASE OpenConsumer
  BY <1>2, StartPositions DEF OpenConsumer, SessionStep
<1>3. CASE Recv \/ Deliver \/ RecvNothing
  BY <1>3 DEF Recv, Deliver, RecvNothing, SessionStep, RecvStep
<1>4. CASE OpenFails \/ AckFails \/ AckDropped \/ DropPendingUnacked
  <2>1. Fault /\ UNCHANGED <<broker, pool, fetcher, buffer, caller>>
    BY <1>4 DEF OpenFails, AckFails, AckDropped, DropPendingUnacked
  <2>. QED
    BY <1>t, <2>1, FaultCounted DEF Mishap, SessionStep
<1>5. CASE DropConsumer /\ (Fault \/ UNCHANGED faults)
  <2>1. faults' \in 0..MaxFaults
    BY <1>5, <1>t, FaultCounted DEF ConsumerTypeOK
  <2>2. NoSession /\ UNCHANGED <<broker, pool>> /\ closed \in BOOLEAN /\ shutdown \in BOOLEAN
    BY <1>5, <1>t DEF DropConsumer, Drop, ConsumerTypeOK
  <2>. QED
    BY <2>1, <2>2 DEF Leave, SessionStep, pool
<1>6. CASE NewPool
  BY <1>6 DEF NewPool, Replace, SessionStep
<1>7. CASE Crash
  BY <1>7, <1>t, FaultCounted DEF Crash, ProcessDies, Leave, SessionStep
<1>8. CASE Environment
  BY <1>8 DEF Environment, SessionStep
<1>. QED
  BY <1>1, <1>2, <1>3, <1>4, <1>5, <1>6, <1>7, <1>8 DEF Next, Application, Reconnect, GiveUp

LEMMA ConsumerStep ==
  ASSUME TypeOK, ConsumerInv, [Next]_vars
  PROVE  ConsumerInv'
BY StepIsConsumers, ConsumerInvStep, ConsumerInvKept DEF vars

-----------------------------------------------------------------------------
(***************************************************************************)
(* The store.                                                              *)
(***************************************************************************)
StoreTyped == visible \in survives /\ survives \cup {acked} \subseteq [{Partition} -> None..MaxEnd]

LEMMA AdvanceDoes ==
  ASSUME StoreTyped, NEW n \in 0..MaxEnd, Store!Advance(Partition, n)
  PROVE  /\ StoreTyped' /\ acked' = acked /\ survives' = survives \cup {visible'}
         /\ visible'[Partition] \in {committed, n}
         /\ committed <= visible'[Partition] /\ n <= visible'[Partition]
<1>1. visible \in [{Partition} -> None..MaxEnd]
  BY DEF StoreTyped
<1>2. visible[Partition] \in None..MaxEnd /\ n \in None..MaxEnd
  BY <1>1 DEF None
<1>3. /\ visible' = [visible EXCEPT ![Partition] = Store!Larger(visible[Partition], n)]
      /\ survives' = survives \cup {visible'} /\ acked' = acked
  BY DEF Store!Advance
<1>4. /\ Store!Larger(visible[Partition], n) \in {visible[Partition], n}
      /\ visible[Partition] <= Store!Larger(visible[Partition], n)
      /\ n <= Store!Larger(visible[Partition], n)
  BY <1>2, ConsumerAssumption DEF Store!Larger, None
<1>5. visible' \in [{Partition} -> None..MaxEnd]
  BY <1>1, <1>2, <1>3, <1>4
<1>6. visible'[Partition] = Store!Larger(visible[Partition], n)
  BY <1>1, <1>3
<1>. QED
  BY <1>3, <1>4, <1>5, <1>6 DEF StoreTyped, committed

LEMMA AcknowledgeDoes ==
  ASSUME StoreTyped, NEW n \in 0..MaxEnd, Store!Acknowledge(Partition, n)
  PROVE  /\ StoreTyped' /\ visible' = visible /\ survives' \subseteq survives
         /\ \A m \in survives' : n <= m[Partition]
         /\ acked'[Partition] \in {acked[Partition], n}
<1>1. acked \in [{Partition} -> None..MaxEnd] /\ visible \in survives
  BY DEF StoreTyped
<1>2. n \in None..MaxEnd
  BY DEF None
<1>3. /\ survives' = {m \in survives : m[Partition] >= n} \/ survives' = {visible}
      /\ visible \in survives' /\ \A m \in survives' : m[Partition] >= n
      /\ acked' = [acked EXCEPT ![Partition] = Store!Larger(acked[Partition], n)]
      /\ visible' = visible
  BY DEF Store!Acknowledge
<1>4. Store!Larger(acked[Partition], n) \in {acked[Partition], n}
  BY DEF Store!Larger
<1>5. survives' \subseteq survives
  BY <1>1, <1>3
<1>6. acked' \in [{Partition} -> None..MaxEnd] /\ acked'[Partition] = Store!Larger(acked[Partition], n)
  BY <1>1, <1>2, <1>3, <1>4
<1>7. ASSUME NEW m \in survives' PROVE n <= m[Partition]
  <2>1. m[Partition] >= n /\ m \in [{Partition} -> None..MaxEnd]
    BY <1>3, <1>5 DEF StoreTyped
  <2>2. m[Partition] \in Int
    BY <2>1, ConsumerAssumption DEF None
  <2>. QED
    BY <2>1, <2>2
<1>. QED
  BY <1>3, <1>4, <1>5, <1>6, <1>7 DEF StoreTyped

\* A crash leaves a state that could be left, or a store in memory that is new.
LEMMA CrashDoes ==
  ASSUME StoreTyped, Crash
  PROVE  /\ StoreTyped'
         /\ \/ survives' \subseteq survives /\ acked' = acked
            \/ acked'[Partition] = None /\ \A m \in survives' : m[Partition] = None
<1>1. CASE Store!Forget
  <2>1. /\ visible' = [k \in {Partition} |-> None] /\ survives' = {visible'}
        /\ acked' = [k \in {Partition} |-> None]
    BY <1>1 DEF Store!Forget, Store!Nothing, Store!None, None
  <2>2. None \in None..MaxEnd
    BY ConsumerAssumption DEF None
  <2>. QED
    BY <2>1, <2>2 DEF StoreTyped
<1>2. CASE UNCHANGED store
  BY <1>2 DEF store, StoreTyped
<1>3. CASE Store!Lose
  BY <1>3 DEF Store!Lose, StoreTyped
<1>. QED
  BY <1>1, <1>2, <1>3 DEF Crash

\* What each step does to the store, and to what is still to be committed.
LEMMA StoreStep ==
  ASSUME TypeOK, OwnerSound, Next
  PROVE  StoreTyped'
<1>t. StoreTyped /\ pending \in NoMessage..MaxEnd - 1 /\ late \subseteq 1..MaxEnd
  BY DEF TypeOK, StoreTyped
<1>k. UNCHANGED store => StoreTyped'
  BY <1>t DEF store, StoreTyped
<1>n. commit # "none" => pending + 1 \in 0..MaxEnd
  BY <1>t, ConsumerAssumption DEF OwnerSound, NoMessage
<1>1. CASE CommitTakesEffect
  BY <1>1, <1>t, <1>n, AdvanceDoes DEF CommitTakesEffect
<1>2. CASE AckOk
  BY <1>2, <1>t, <1>n, AcknowledgeDoes DEF AckOk
<1>3. CASE LateCommit
  <2>1. PICK n \in late : Store!Advance(Partition, n)
    BY <1>3 DEF LateCommit
  <2>2. n \in 0..MaxEnd
    BY <1>t
  <2>. QED
    BY <1>t, <2>1, <2>2, AdvanceDoes
<1>4. CASE Crash
  BY <1>4, <1>t, CrashDoes
<1>5. CASE UNCHANGED store
  BY <1>5, <1>k
<1>. QED
  BY <1>1, <1>2, <1>3, <1>4, <1>5
     DEF Next, Application, ReadCommitted, OpenConsumer, Recv, Ack, NewPool, Reconnect, GiveUp,
         DropConsumer, Deliver, RecvNothing, AckFails, AckDropped, DropPendingUnacked, OpenFails,
         Environment

-----------------------------------------------------------------------------
(***************************************************************************)
(* Types.                                                                  *)
(***************************************************************************)
\* What recv returns is a record of the log, or the error.
LEMMA HeadInLog ==
  ASSUME ConsumerInv, ConsumerInv', RecvItem
  PROVE  /\ session = "open" /\ Head(buffer) \in Range(Coming)
         /\ Head(buffer) = Error \/ Head(buffer) \in log
<1>1. session = "open"
  BY DEF RecvItem, ConsumerInv, ConsumerTypeOK, TaskSound
<1>2. Head(buffer) \in Range(Coming)
  BY ComingStep DEF ConsumerInv
<1>. QED
  BY <1>1, <1>2, SentSplit DEF Due

LEMMA TypeStep ==
  ASSUME TypeOK, ConsumerInv, ConsumerInv', OwnerSound, Next
  PROVE  TypeOK'
<1>. DEFINE SetupOK   == config \in Starts /\ inMemory \in BOOLEAN
            OwnerOK   == /\ resume \in NotRead..MaxEnd /\ pending \in NoMessage..MaxEnd - 1
                         /\ terminated \in BOOLEAN /\ commit \in {"none", "started", "applied"}
            LateOK    == late \subseteq 1..MaxEnd
            HistoryOK == delivered \subseteq log /\ processed \subseteq delivered
<1>t. SetupOK /\ OwnerOK /\ LateOK /\ HistoryOK
  BY DEF TypeOK
<1>q. SetupOK' /\ OwnerOK' /\ LateOK' /\ HistoryOK' => TypeOK'
  BY StoreStep DEF TypeOK, StoreTyped, ConsumerInv
<1>s. SetupOK'
  <2>1. UNCHANGED setup
    BY DEF Next, Application, ReadCommitted, OpenConsumer, Recv, Ack, NewPool, Reconnect, GiveUp,
           DropConsumer, Deliver, RecvNothing, AckFails, AckDropped, DropPendingUnacked, OpenFails,
           Environment, CommitTakesEffect, AckOk, LateCommit, Crash, ProcessDies
  <2>. QED
    BY <1>t, <2>1 DEF setup
<1>o. UNCHANGED owner => OwnerOK'
  BY <1>t DEF owner
<1>m. NotRead \in NotRead..MaxEnd /\ NoMessage \in NoMessage..MaxEnd - 1
  BY ConsumerAssumption DEF NotRead, NoMessage
<1>z. NoOwner => OwnerOK'
  BY <1>m DEF NoOwner
<1>l. late' \subseteq late => LateOK'
  BY <1>t
<1>h. UNCHANGED history /\ log \subseteq log' => HistoryOK'
  BY <1>t DEF history
<1>. HIDE DEF SetupOK, OwnerOK, LateOK, HistoryOK
<1>1. CASE ReadCommitted
  <2>1. committed \in None..MaxEnd
    BY DEF TypeOK, committed
  <2>2. OwnerOK'
    BY <1>1, <1>t, <2>1, ConsumerAssumption DEF ReadCommitted, OwnerOK, None, NotRead
  <2>. QED
    BY <1>1, <2>2, <1>q, <1>s, <1>l, <1>h DEF ReadCommitted, consumerVars, broker
<1>2. CASE OpenConsumer \/ Recv \/ NewPool \/ RecvNothing
  <2>1. UNCHANGED <<owner, late, history, log>>
    BY <1>2 DEF OpenConsumer, Connect, Recv, RecvStart, NewPool, RecvNothing, RecvEnd, RecvTimeout,
                RecvDropped, RecvWithout, broker
  <2>. QED
    BY <2>1, <1>q, <1>s, <1>o, <1>l, <1>h
<1>3. CASE Ack
  <2>1. pending \in delivered
    BY <1>3 DEF Ack, OwnerSound
  <2>2. OwnerOK' /\ HistoryOK'
    BY <1>3, <1>t, <2>1 DEF Ack, OwnerOK, HistoryOK, consumerVars, broker
  <2>. QED
    BY <1>3, <2>2, <1>q, <1>s, <1>l DEF Ack
<1>4. CASE DropConsumer
  BY <1>4, <1>q, <1>s, <1>z, <1>l, <1>h DEF DropConsumer, Drop, broker
<1>5. CASE Deliver
  <2>1. UNCHANGED <<resume, terminated, commit, late, processed, log>>
    BY <1>5 DEF Deliver, RecvItem, broker
  <2>2. CASE Head(buffer) = Error
    <3>1. UNCHANGED <<pending, delivered>>
      BY <1>5, <2>2 DEF Deliver
    <3>. QED
      BY <2>1, <3>1, <1>q, <1>s, <1>o, <1>l, <1>h DEF owner, history
  <2>3. CASE Head(buffer) # Error
    <3>1. pending' = Head(buffer) /\ delivered' = delivered \cup {Head(buffer)}
      BY <1>5, <2>3 DEF Deliver
    <3>2. Head(buffer) \in log /\ Head(buffer) \in NoMessage..MaxEnd - 1
      <4>1. Head(buffer) \in log
        BY <1>5, <2>3, HeadInLog DEF Deliver
      <4>2. log \subseteq 0..MaxEnd - 1
        BY DEF ConsumerInv, ConsumerTypeOK
      <4>3. 0..MaxEnd - 1 \subseteq NoMessage..MaxEnd - 1
        BY ConsumerAssumption DEF NoMessage
      <4>. QED
        BY <4>1, <4>2, <4>3
    <3>3. OwnerOK'
      BY <2>1, <3>1, <3>2, <1>t DEF OwnerOK
    <3>4. HistoryOK'
      BY <2>1, <3>1, <3>2, <1>t DEF HistoryOK
    <3>. QED
      BY <2>1, <3>3, <3>4, <1>q, <1>s, <1>l
  <2>. QED
    BY <2>2, <2>3
<1>6. CASE CommitTakesEffect \/ AckOk \/ AckFails
  <2>1. OwnerOK'
    BY <1>6, <1>t, ConsumerAssumption DEF CommitTakesEffect, AckOk, AckFails, OwnerOK, NoMessage
  <2>. QED
    BY <1>6, <2>1, <1>q, <1>s, <1>l, <1>h DEF CommitTakesEffect, AckOk, AckFails, consumerVars, broker
<1>7. CASE AckDropped
  <2>1. OwnerOK'
    BY <1>7, <1>t DEF AckDropped, OwnerOK
  <2>2. LateOK'
    <3>1. pending + 1 \in 1..MaxEnd
      BY <1>7, <1>t, ConsumerAssumption DEF AckDropped, OwnerOK, OwnerSound, NoMessage
    <3>. QED
      BY <1>7, <3>1, <1>t DEF AckDropped, LateOK
  <2>. QED
    BY <1>7, <2>1, <2>2, <1>q, <1>s, <1>h DEF AckDropped, broker
<1>8. CASE LateCommit
  BY <1>8, <1>q, <1>s, <1>o, <1>l, <1>h DEF LateCommit, consumerVars, broker
<1>9. CASE DropPendingUnacked \/ OpenFails
  <2>1. OwnerOK'
    BY <1>9, <1>t, <1>m DEF DropPendingUnacked, OpenFails, OwnerOK
  <2>. QED
    BY <1>9, <2>1, <1>q, <1>s, <1>l, <1>h DEF DropPendingUnacked, OpenFails, broker
<1>10. CASE Environment
  <2>1. log \subseteq log'
    BY <1>10 DEF Environment, AppendRecord, Retain, Close, Broadcast, TaskStep, ResolveStart, Fetch,
       FetchError, OffsetOutOfRange, StreamFails, Send, TaskShutdown, broker
  <2>. QED
    BY <1>10, <2>1, <1>q, <1>s, <1>o, <1>l, <1>h DEF Environment
<1>11. CASE Crash
  BY <1>11, <1>q, <1>s, <1>z, <1>l, <1>h DEF Crash, ProcessDies, broker
<1>. QED
  BY <1>1, <1>2, <1>3, <1>4, <1>5, <1>6, <1>7, <1>8, <1>9, <1>10, <1>11
     DEF Next, Application, Reconnect, GiveUp

-----------------------------------------------------------------------------
(***************************************************************************)
(* The owner.                                                              *)
(***************************************************************************)
LEMMA OwnerStep ==
  ASSUME TypeOK, ConsumerInv, ConsumerInv', OwnerSound, Next
  PROVE  OwnerSound'
<1>y. /\ session \in {"none", "open"} /\ (session = "none" => ~recving)
      /\ StoreTyped /\ pending \in Int /\ committed \in Int
  <2>1. committed \in None..MaxEnd
    BY DEF TypeOK, committed
  <2>2. committed \in Int
    BY <2>1, ConsumerAssumption DEF None
  <2>3. pending \in Int
    BY ConsumerAssumption DEF TypeOK, NoMessage
  <2>4. StoreTyped
    BY DEF TypeOK, StoreTyped
  <2>. QED
    BY <2>2, <2>3, <2>4 DEF ConsumerInv, ConsumerTypeOK, TaskSound
<1>n. commit # "none" => pending + 1 \in 0..MaxEnd
  BY ConsumerAssumption DEF TypeOK, OwnerSound, NoMessage
<1>i. pending # NoMessage => session = "open"
  BY <1>y DEF OwnerSound
<1>k. UNCHANGED <<session, recving, owner, got, history, visible>> => OwnerSound'
  BY DEF OwnerSound, owner, history, committed
<1>1. CASE ReadCommitted
  BY <1>1, <1>y DEF ReadCommitted, OwnerSound, consumerVars, caller, store, history, committed
<1>2. CASE OpenConsumer
  BY <1>2 DEF OpenConsumer, Connect, OwnerSound, owner
<1>3. CASE Recv
  BY <1>3 DEF Recv, RecvStart, OwnerSound, owner, store, history, committed
<1>4. CASE Ack
  BY <1>4 DEF Ack, OwnerSound, consumerVars, caller, store, committed
<1>5. CASE NewPool
  BY <1>5, <1>k DEF NewPool, caller, store, history
<1>6. CASE DropConsumer
  BY <1>6 DEF DropConsumer, Drop, NoSession, NoOwner, OwnerSound
<1>7. CASE Deliver
  <2>1. Range(got') = Range(got) \cup {Head(buffer)}
    BY <1>7, ComingStep DEF Deliver, ConsumerInv
  <2>2. /\ recving /\ ~recving' /\ UNCHANGED <<session, resume, terminated, commit, processed>>
        /\ \/ UNCHANGED <<pending, delivered>>
           \/ pending' = Head(buffer) /\ delivered' = delivered \cup {Head(buffer)}
    BY <1>7 DEF Deliver, RecvItem
  <2>3. session = "open"
    BY <2>2, <1>y
  <2>. QED
    BY <2>1, <2>2, <2>3 DEF OwnerSound
<1>8. CASE RecvNothing
  BY <1>8 DEF RecvNothing, RecvEnd, RecvTimeout, RecvDropped, RecvWithout, OwnerSound, owner, store,
              history, committed
<1>9. CASE CommitTakesEffect
  <2>1. pending + 1 <= visible'[Partition] /\ visible'[Partition] \in {committed, pending + 1}
    BY <1>9, <1>y, <1>n, AdvanceDoes DEF CommitTakesEffect
  <2>2. pending < visible'[Partition]
    BY <2>1, <1>y
  <2>. QED
    BY <1>9, <2>2 DEF CommitTakesEffect, OwnerSound, consumerVars, caller, history, committed
<1>10. CASE AckOk
  BY <1>10 DEF AckOk, OwnerSound, consumerVars, caller, history
<1>11. CASE AckFails \/ AckDropped
  BY <1>11 DEF AckFails, AckDropped, OwnerSound, caller, history
<1>12. CASE LateCommit
  <2>1. PICK n \in late : Store!Advance(Partition, n)
    BY <1>12 DEF LateCommit
  <2>2. n \in 0..MaxEnd
    BY DEF TypeOK
  <2>3. committed <= visible'[Partition] /\ visible'[Partition] \in {committed, n}
    BY <2>1, <2>2, <1>y, AdvanceDoes
  <2>4. pending < committed => pending < visible'[Partition]
    BY <2>2, <2>3, <1>y
  <2>. QED
    BY <1>12, <2>4 DEF LateCommit, OwnerSound, consumerVars, caller, owner, history, committed
<1>13. CASE DropPendingUnacked
  BY <1>13 DEF DropPendingUnacked, OwnerSound, caller
<1>14. CASE OpenFails
  BY <1>14 DEF OpenFails, OwnerSound, caller, store, history, committed
<1>15. CASE Environment
  <2>1. UNCHANGED caller
    BY <1>15 DEF Environment, AppendRecord, Retain, Close, Broadcast, TaskStep, ResolveStart, Fetch,
       FetchError, OffsetOutOfRange, StreamFails, Send, TaskShutdown
  <2>. QED
    BY <1>15, <2>1, <1>k DEF Environment, caller, store, history
<1>16. CASE Crash
  BY <1>16 DEF Crash, ProcessDies, NoSession, NoOwner, OwnerSound
<1>. QED
  BY <1>1, <1>2, <1>3, <1>4, <1>5, <1>6, <1>7, <1>8, <1>9, <1>10, <1>11, <1>12, <1>13, <1>14, <1>15,
     <1>16 DEF Next, Application, Reconnect, GiveUp

-----------------------------------------------------------------------------
(***************************************************************************)
(* What is acknowledged.                                                   *)
(***************************************************************************)
\* The pending message is a record that is due, before all that is coming.
LEMMA PendingIsDue ==
  ASSUME TypeOK, ConsumerInv, OwnerSound, pending # NoMessage
  PROVE  /\ session = "open" /\ pending \in Due /\ pending \in Nat
         /\ pending < cursor /\ 0 <= cursor /\ first <= pending
         /\ \A o \in Range(Coming) : o = Error \/ pending < o
         /\ \A o \in Due : o < pending => o \in Range(got)
<1>1. session = "open" /\ pending \in Range(got) /\ pending # Error
  BY DEF OwnerSound, ConsumerInv, ConsumerTypeOK, NoMessage, Error
<1>2. pending \in Due
  BY <1>1, SentSplit
<1>3. pending \in Nat /\ cursor \in Int
  BY <1>2, DueOffsets, ConsumerAssumption DEF ConsumerInv, ConsumerTypeOK, Positions, Earliest
<1>4. pending < cursor /\ first <= pending
  BY <1>2 DEF Due
<1>. QED
  BY <1>1, <1>2, <1>3, <1>4, SentSplit

LEMMA AckStep ==
  ASSUME TypeOK, ConsumerInv, ConsumerInv', OwnerSound, AckSound, Next
  PROVE  AckSound'
<1>. DEFINE ack       == acked[Partition]
            StoreOK   == \A m \in survives : ack <= m[Partition]
            OpeningOK == session = "none" /\ resume # NotRead => ack <= resume
            CursorOK  == session = "open" => IF cursor < 0 THEN ack = None ELSE ack <= cursor
            ComingOK  == session = "open" => \A o \in Range(Coming) : o = Error \/ ack <= o
<1>t. StoreOK /\ OpeningOK /\ CursorOK /\ ComingOK
  BY DEF AckSound
<1>q. StoreOK' /\ OpeningOK' /\ CursorOK' /\ ComingOK' => AckSound'
  BY DEF AckSound
<1>y. /\ StoreTyped /\ ack \in None..MaxEnd /\ ack \in Int /\ pending \in Int
      /\ cursor \in Int /\ cursor' \in Int
      /\ \A m \in survives : m[Partition] \in Int
  <2>1. StoreTyped
    BY DEF TypeOK, StoreTyped
  <2>2. ack \in None..MaxEnd /\ \A m \in survives : m[Partition] \in None..MaxEnd
    BY <2>1 DEF StoreTyped
  <2>3. \A i \in None..MaxEnd : i \in Int
    BY ConsumerAssumption DEF None
  <2>4. pending \in Int
    BY ConsumerAssumption DEF TypeOK, NoMessage
  <2>5. cursor \in Int /\ cursor' \in Int
    BY ConsumerAssumption DEF ConsumerInv, ConsumerTypeOK, Positions, Earliest
  <2>. QED
    BY <2>1, <2>2, <2>3, <2>4, <2>5
<1>c. ack <= committed /\ committed \in Int
  BY <1>t, <1>y DEF StoreTyped, committed
<1>n. commit # "none" => pending + 1 \in 0..MaxEnd
  BY ConsumerAssumption DEF TypeOK, OwnerSound, NoMessage
<1>s. UNCHANGED <<survives, acked>> => StoreOK'
  BY <1>t
<1>o. UNCHANGED <<session, resume, acked>> \/ resume' = NotRead => OpeningOK'
  BY <1>t
<1>u. UNCHANGED <<session, cursor, acked>> => CursorOK'
  BY <1>t
<1>r. UNCHANGED <<session, acked>> /\ Range(Coming') \subseteq Range(Coming) => ComingOK'
  BY <1>t
<1>f. UNCHANGED <<buffer, hand>> => Range(Coming') \subseteq Range(Coming)
  BY DEF Coming
<1>. HIDE DEF StoreOK, OpeningOK, CursorOK, ComingOK, ack
<1>1. CASE ReadCommitted
  <2>1. OpeningOK'
    BY <1>1, <1>c DEF ReadCommitted, OpeningOK, ack, store
  <2>. QED
    BY <1>1, <2>1, <1>q, <1>s, <1>u, <1>r, <1>f DEF ReadCommitted, consumerVars, caller, fetcher, store
<1>2. CASE OpenConsumer
  <2>1. ack <= resume /\ resume \in Int /\ resume # NotRead /\ resume >= None
    BY <1>2, <1>t, ConsumerAssumption
       DEF OpenConsumer, Connect, OpeningOK, TypeOK, NotRead, None
  <2>2. ack' = ack /\ session' = "open" /\ cursor' = StartAt(resume)
    BY <1>2 DEF OpenConsumer, Connect, store, ack
  <2>3. CursorOK'
    <3>1. CASE resume = None
      <4>1. ack = None
        BY <2>1, <3>1, <1>y DEF None
      <4>. QED
        BY <2>2, <4>1, <1>y DEF CursorOK, None
    <3>2. CASE resume # None
      <4>1. cursor' = resume /\ resume >= 0
        BY <2>1, <2>2, <3>2 DEF StartAt, None
      <4>. QED
        BY <2>1, <2>2, <4>1 DEF CursorOK
    <3>. QED
      BY <3>1, <3>2
  <2>4. ComingOK'
    <3>1. Coming' = <<>>
      BY <1>2 DEF OpenConsumer, Connect, Coming
    <3>. QED
      BY <3>1, RangeShort DEF ComingOK
  <2>5. OpeningOK'
    BY <2>2 DEF OpeningOK
  <2>. QED
    BY <1>2, <2>3, <2>4, <2>5, <1>q, <1>s DEF OpenConsumer, store
<1>3. CASE Recv \/ Ack \/ NewPool \/ RecvNothing \/ AckFails \/ AckDropped \/ DropPendingUnacked
  <2>1. UNCHANGED <<survives, acked, session, resume, cursor, buffer, hand>>
    BY <1>3 DEF Recv, RecvStart, Ack, NewPool, RecvNothing, RecvEnd, RecvTimeout, RecvDropped,
       RecvWithout, AckFails, AckDropped, DropPendingUnacked, consumerVars, caller, fetcher, owner, store
  <2>. QED
    BY <2>1, <1>q, <1>s, <1>o, <1>u, <1>r, <1>f
<1>4. CASE DropConsumer
  <2>1. session' = "none" /\ resume' = NotRead /\ UNCHANGED <<survives, acked>>
    BY <1>4 DEF DropConsumer, Drop, NoSession, NoOwner, store
  <2>2. CursorOK' /\ ComingOK'
    BY <2>1 DEF CursorOK, ComingOK
  <2>. QED
    BY <2>1, <2>2, <1>q, <1>s, <1>o
<1>5. CASE OpenFails
  <2>1. UNCHANGED <<survives, acked, session, cursor, buffer, hand>> /\ resume' = NotRead
    BY <1>5 DEF OpenFails, caller, fetcher, store
  <2>. QED
    BY <2>1, <1>q, <1>s, <1>o, <1>u, <1>r, <1>f
<1>6. CASE Deliver
  <2>1. Range(Coming') \subseteq Range(Coming)
    BY <1>6, ComingStep DEF Deliver, ConsumerInv
  <2>. QED
    BY <1>6, <2>1, <1>q, <1>s, <1>o, <1>u, <1>r DEF Deliver, RecvItem, fetcher, store
<1>7. ASSUME NEW n \in 0..MaxEnd, Store!Advance(Partition, n), UNCHANGED <<session, resume, cursor, buffer, hand>>
      PROVE  AckSound'
  <2>1. /\ acked' = acked /\ survives' = survives \cup {visible'}
        /\ visible'[Partition] \in {committed, n} /\ committed <= visible'[Partition]
    BY <1>7, <1>y, AdvanceDoes
  <2>2. ack <= visible'[Partition]
    BY <1>7, <2>1, <1>c, <1>y
  <2>3. StoreOK'
    BY <2>1, <2>2, <1>t DEF StoreOK, ack
  <2>. QED
    BY <1>7, <2>1, <2>3, <1>q, <1>o, <1>u, <1>r, <1>f
<1>8. CASE CommitTakesEffect
  BY <1>8, <1>7, <1>n DEF CommitTakesEffect, consumerVars, caller, fetcher
<1>9. CASE LateCommit
  <2>1. PICK n \in late : Store!Advance(Partition, n)
    BY <1>9 DEF LateCommit
  <2>2. n \in 0..MaxEnd
    BY DEF TypeOK
  <2>. QED
    BY <1>9, <2>1, <2>2, <1>7 DEF LateCommit, consumerVars, caller, fetcher, owner
<1>10. CASE AckOk
  <2>1. /\ survives' \subseteq survives /\ (\A m \in survives' : pending + 1 <= m[Partition])
        /\ ack' \in {ack, pending + 1}
    BY <1>10, <1>y, <1>n, AcknowledgeDoes DEF AckOk, ack
  <2>2. UNCHANGED <<session, resume, cursor, buffer, hand>>
    BY <1>10 DEF AckOk, consumerVars, caller, fetcher
  <2>3. StoreOK'
    BY <2>1, <1>t DEF StoreOK
  <2>4. /\ session = "open" /\ pending \in Nat /\ pending < cursor
        /\ \A o \in Range(Coming) : o = Error \/ pending < o
    BY <1>10, PendingIsDue DEF AckOk, OwnerSound
  <2>5. OpeningOK'
    BY <2>2, <2>4 DEF OpeningOK
  <2>6. CursorOK'
    <3>1. ack <= cursor /\ pending + 1 <= cursor /\ ~(cursor < 0)
      BY <2>4, <1>t, <1>y DEF CursorOK
    <3>. QED
      BY <2>1, <2>2, <3>1 DEF CursorOK
  <2>7. ComingOK'
    <3>1. Range(Coming') = Range(Coming)
      BY <2>2 DEF Coming
    <3>2. ASSUME NEW o \in Range(Coming), o # Error PROVE ack <= o /\ pending + 1 <= o
      <4>1. o \in Due
        BY <2>4, <3>2, SentSplit
      <4>2. o \in Nat
        BY <4>1, DueOffsets DEF ConsumerInv
      <4>. QED
        BY <2>4, <3>2, <4>2, <1>t DEF ComingOK
    <3>. QED
      BY <2>1, <3>1, <3>2 DEF ComingOK
  <2>. QED
    BY <2>3, <2>5, <2>6, <2>7, <1>q
<1>11. CASE Environment
  <2>1. UNCHANGED <<survives, acked, session, resume>>
    BY <1>11 DEF Environment, store, owner, AppendRecord, Retain, Close, Broadcast, TaskStep, ResolveStart,
       Fetch, FetchError, OffsetOutOfRange, StreamFails, Send, TaskShutdown, caller
  <2>2. CASE AppendRecord \/ Retain \/ Close \/ Broadcast
    <3>1. UNCHANGED <<cursor, buffer, hand>>
      BY <2>2 DEF AppendRecord, Retain, Close, Broadcast, fetcher
    <3>. QED
      BY <2>1, <3>1, <1>q, <1>s, <1>o, <1>u, <1>r, <1>f
  <2>3. CASE ResolveStart
    <3>1. CursorOK'
      <4>1. cursor < 0 /\ cursor' >= 0
        BY <2>3, ConsumerAssumption DEF ResolveStart, ConsumerInv, ConsumerTypeOK
      <4>. QED
        BY <2>1, <4>1, <1>t, <1>y DEF CursorOK, None, ack
    <3>. QED
      BY <2>1, <2>3, <3>1, <1>q, <1>s, <1>o, <1>r, <1>f DEF ResolveStart
  <2>4. CASE Fetch
    <3>1. PICK o \in log : o >= cursor /\ hand' = <<o>> /\ cursor' = o + 1
      BY <2>4 DEF Fetch
    <3>2. /\ hand = <<>> /\ buffer' = buffer /\ cursor >= 0 /\ o \in Nat /\ session = "open"
      BY <2>4, ConsumerAssumption DEF Fetch, Polls, ConsumerInv, ConsumerTypeOK, TaskSound
    <3>3. ack <= o /\ ack <= o + 1
      BY <3>1, <3>2, <1>t, <1>y DEF CursorOK
    <3>4. CursorOK'
      BY <2>1, <3>1, <3>2, <3>3, <1>y DEF CursorOK, ack
    <3>5. Range(Coming') = Range(Coming) \cup {o}
      BY <3>1, <3>2, ComingStep DEF ConsumerInv
    <3>6. ComingOK'
      BY <2>1, <3>2, <3>3, <3>5, <1>t DEF ComingOK, ack
    <3>. QED
      BY <2>1, <3>4, <3>6, <1>q, <1>s, <1>o
  <2>5. CASE FetchError \/ OffsetOutOfRange
    <3>1. hand = <<>> /\ hand' = <<Error>> /\ buffer' = buffer /\ cursor' = cursor
      BY <2>5 DEF FetchError, OffsetOutOfRange, StreamFails, Polls, ConsumerInv, TaskSound
    <3>2. Range(Coming') = Range(Coming) \cup {Error}
      BY <3>1, ComingStep DEF ConsumerInv
    <3>3. ComingOK'
      BY <2>1, <3>2, <1>t DEF ComingOK, ack
    <3>. QED
      BY <2>1, <3>1, <3>3, <1>q, <1>s, <1>o, <1>u
  <2>6. CASE Send \/ TaskShutdown
    <3>1. Range(Coming') \subseteq Range(Coming) /\ cursor' = cursor
      BY <2>6, ComingStep DEF ConsumerInv, Send, TaskShutdown
    <3>. QED
      BY <2>1, <3>1, <1>q, <1>s, <1>o, <1>u, <1>r
  <2>. QED
    BY <1>11, <2>2, <2>3, <2>4, <2>5, <2>6 DEF Environment, TaskStep
<1>12. CASE Crash
  <2>1. session' = "none" /\ resume' = NotRead
    BY <1>12 DEF Crash, ProcessDies, NoSession, NoOwner
  <2>2. StoreOK'
    <3>1. \/ survives' \subseteq survives /\ acked' = acked
          \/ acked'[Partition] = None /\ \A m \in survives' : m[Partition] = None
      BY <1>12, <1>y, CrashDoes
    <3>. QED
      BY <3>1, <1>t DEF StoreOK, ack, None
  <2>3. CursorOK' /\ ComingOK'
    BY <2>1 DEF CursorOK, ComingOK
  <2>. QED
    BY <2>1, <2>2, <2>3, <1>q, <1>o
<1>. QED
  BY <1>1, <1>2, <1>3, <1>4, <1>5, <1>6, <1>8, <1>9, <1>10, <1>11, <1>12
     DEF Next, Application, Reconnect, GiveUp

-----------------------------------------------------------------------------
LEMMA OwnerInvInit == Init => OwnerInv
<1>. SUFFICES ASSUME Init PROVE OwnerInv
  OBVIOUS
<1>1. ConsumerInv
  BY ConsumerInvInit DEF Init
<1>2. visible = [k \in {Partition} |-> None] /\ survives = {visible} /\ acked = visible
  BY DEF Init, Store!Init, Store!Nothing, Store!None, None
<1>3. TypeOK
  <2>1. /\ None \in None..MaxEnd /\ NotRead \in NotRead..MaxEnd /\ NoMessage \in NoMessage..MaxEnd - 1
    BY ConsumerAssumption DEF None, NotRead, NoMessage
  <2>2. visible \in [{Partition} -> None..MaxEnd]
    BY <1>2, <2>1
  <2>. QED
    BY <1>1, <1>2, <2>1, <2>2 DEF Init, TypeOK, ConsumerInv
<1>4. OwnerSound
  BY DEF Init, InitConsumer, OwnerSound
<1>5. AckSound
  BY <1>2 DEF Init, InitConsumer, AckSound, None
<1>. QED
  BY <1>1, <1>3, <1>4, <1>5 DEF OwnerInv

LEMMA OwnerInvStep == OwnerInv /\ [Next]_vars => OwnerInv'
<1>1. CASE OwnerInv /\ Next
  <2>1. TypeOK /\ ConsumerInv /\ OwnerSound /\ AckSound
    BY <1>1 DEF OwnerInv
  <2>2. ConsumerInv'
    BY <1>1, <2>1, ConsumerStep
  <2>. QED
    BY <1>1, <2>1, <2>2, TypeStep, OwnerStep, AckStep DEF OwnerInv
<1>2. CASE OwnerInv /\ UNCHANGED vars
  <2>1. ConsumerInv'
    BY <1>2, ConsumerInvKept DEF OwnerInv, vars
  <2>2. UNCHANGED <<log, low, end, session, cursor, hand, buffer, recving, got, config, inMemory, visible,
                    survives, acked, resume, pending, terminated, commit, late, delivered, processed>>
    BY <1>2 DEF vars, consumerVars, broker, fetcher, caller, setup, store, owner, history
  <2>3. TypeOK'
    BY <1>2, <2>1, <2>2 DEF OwnerInv, TypeOK, ConsumerInv
  <2>4. OwnerSound' /\ AckSound'
    BY <1>2, <2>2 DEF OwnerInv, OwnerSound, AckSound, Coming, committed
  <2>. QED
    BY <2>1, <2>3, <2>4 DEF OwnerInv
<1>. QED
  BY <1>1, <1>2

LEMMA OwnerInvariant == Spec => []OwnerInv
BY OwnerInvInit, OwnerInvStep, PTL DEF Spec

\* Every variable of the whole composition keeps its type.
THEOREM TypeCorrect == Spec => []TypeOK
<1>1. OwnerInv => TypeOK
  BY DEF OwnerInv
<1>. QED
  BY <1>1, OwnerInvariant, PTL

\* The consumer that AtLeastOnce drives, also through new pools and processes, keeps
\* what Consumer promises: recv still returns the log, exactly.
THEOREM StreamStaysTheLog == Spec => []StreamExact
<1>1. OwnerInv => StreamExact
  BY DEF OwnerInv, ConsumerInv
<1>. QED
  BY <1>1, OwnerInvariant, PTL

\* After ack has returned Ok (at_least_once.rs:188-196) no session, this one or one
\* after any crash, delivers the message again or one before it.
THEOREM AcksAreFinal == Spec => AckIsFinal
<1>1. ASSUME OwnerInv, OwnerInv', Next
      PROVE  pending' # pending /\ pending' # NoMessage => pending' >= acked[Partition]
  <2>0. TypeOK /\ ConsumerInv /\ ConsumerInv' /\ OwnerSound /\ AckSound
    BY <1>1 DEF OwnerInv
  <2>1. CASE Deliver /\ Head(buffer) # Error
    <3>1. pending' = Head(buffer) /\ session = "open" /\ Head(buffer) \in Range(Coming) /\ Head(buffer) \in log
      BY <2>0, <2>1, HeadInLog DEF Deliver
    <3>2. acked[Partition] <= Head(buffer)
      BY <2>0, <2>1, <3>1 DEF AckSound
    <3>3. acked[Partition] \in Int /\ Head(buffer) \in Int
      <4>1. acked[Partition] \in None..MaxEnd
        BY <2>0 DEF TypeOK
      <4>2. Head(buffer) \in 0..MaxEnd - 1
        BY <2>0, <3>1 DEF ConsumerInv, ConsumerTypeOK
      <4>. QED
        BY <4>1, <4>2, ConsumerAssumption DEF None
    <3>. QED
      BY <3>1, <3>2, <3>3
  <2>2. CASE pending' \in {pending, NoMessage}
    BY <2>2
  <2>. QED
    BY <1>1, <2>1, <2>2
       DEF Next, Application, ReadCommitted, OpenConsumer, Recv, Ack, NewPool, Reconnect, GiveUp,
           DropConsumer, NoOwner, Deliver, RecvNothing, CommitTakesEffect, AckOk, AckFails, AckDropped,
           LateCommit, DropPendingUnacked, OpenFails, Environment, Crash, ProcessDies, owner
<1>2. OwnerInv /\ OwnerInv' /\ [Next]_vars
        => [pending' # pending /\ pending' # NoMessage => pending' >= acked[Partition]]_vars
  BY <1>1
<1>. QED
  BY <1>2, OwnerInvariant, PTL DEF Spec, AckIsFinal

-----------------------------------------------------------------------------
(***************************************************************************)
(* What may be skipped.                                                    *)
(***************************************************************************)
LEMMA NumbersTyped ==
  ASSUME OwnerInv
  PROVE  /\ low \in Nat /\ end \in Nat /\ low <= end /\ log \subseteq Nat /\ (\A o \in log : o < end)
         /\ cursor \in Int /\ first \in Int /\ resume \in Int /\ pending \in Int /\ Base \in Nat
         /\ committed \in Int /\ StoreTyped /\ (\A m \in survives : m[Partition] \in Int)
         /\ (\A n \in late : n \in Int) /\ delivered \subseteq log
<1>. USE DEF OwnerInv
<1>1. low \in Nat /\ end \in Nat /\ cursor \in Int /\ first \in Int
  BY ConsumerAssumption DEF ConsumerInv, ConsumerTypeOK, Positions, Earliest, Unknown
<1>2. low <= end /\ \A o \in log : o \in Nat /\ o < end
  BY <1>1 DEF ConsumerInv, TaskSound
<1>3. resume \in Int /\ pending \in Int
  BY ConsumerAssumption DEF TypeOK, NotRead, NoMessage
<1>4. Base \in Nat
  BY StartsAssumption, ConsumerAssumption DEF TypeOK, Base, Positions, Earliest
<1>5. StoreTyped
  BY DEF TypeOK, StoreTyped
<1>6. \A m \in survives : m[Partition] \in Int
  <2>1. \A m \in survives : m[Partition] \in None..MaxEnd
    BY <1>5 DEF StoreTyped
  <2>. QED
    BY <2>1, ConsumerAssumption DEF None
<1>7. committed \in Int
  BY <1>5, <1>6 DEF StoreTyped, committed
<1>8. (\A n \in late : n \in Int) /\ delivered \subseteq log
  BY ConsumerAssumption DEF TypeOK
<1>. QED
  BY <1>1, <1>2, <1>3, <1>4, <1>5, <1>6, <1>7, <1>8

\* The log grows at its end, retention goes on, and what is processed stays so.
LEMMA LogMoves ==
  ASSUME OwnerInv, Next
  PROVE  /\ log' \subseteq log \cup {end} /\ end <= end' /\ low <= low' /\ end' \in Int /\ low' \in Int
         /\ processed \subseteq processed' /\ config' = config
<1>y. low \in Nat /\ end \in Nat
  BY NumbersTyped
<1>1. processed \subseteq processed' /\ config' = config
  BY DEF Next, Application, ReadCommitted, OpenConsumer, Recv, Ack, NewPool, Reconnect, GiveUp,
         DropConsumer, Deliver, RecvNothing, AckFails, AckDropped, DropPendingUnacked, OpenFails,
         Environment, CommitTakesEffect, AckOk, LateCommit, Crash, ProcessDies, setup, history
<1>2. CASE UNCHANGED broker
  BY <1>1, <1>2, <1>y DEF broker
<1>3. CASE AppendRecord \/ Retain
  BY <1>1, <1>3, <1>y DEF AppendRecord, Retain
<1>4. AppendRecord \/ Retain \/ UNCHANGED broker
  BY DEF Next, Application, ReadCommitted, OpenConsumer, Connect, Recv, RecvStart, Ack, NewPool, Reconnect,
         GiveUp, DropConsumer, Drop, Deliver, RecvItem, RecvNothing, RecvEnd, RecvTimeout, RecvDropped,
         RecvWithout, AckFails, AckDropped, DropPendingUnacked, OpenFails, Environment, CommitTakesEffect,
         AckOk, LateCommit, Crash, ProcessDies, consumerVars, Close, Broadcast, TaskStep, ResolveStart,
         Fetch, FetchError, OffsetOutOfRange, StreamFails, Send, TaskShutdown
<1>. QED
  BY <1>2, <1>3, <1>4

LEMMA PointsStep ==
  ASSUME OwnerInv, OwnerInv', PointsSafe, SessionSafe, Next
  PROVE  PointsSafe'
<1>. DEFINE SafeNext(n) == /\ n <= end' /\ (n = None \/ Base <= n)
                           /\ \A o \in log' : Base <= o /\ low' <= o /\ o < n => o \in processed'
<1>y. /\ low \in Nat /\ end \in Nat /\ log \subseteq Nat /\ (\A o \in log : o < end)
      /\ cursor \in Int /\ first \in Int /\ resume \in Int /\ pending \in Int /\ Base \in Nat
      /\ committed \in Int /\ StoreTyped /\ (\A m \in survives : m[Partition] \in Int)
      /\ (\A n \in late : n \in Int)
  BY NumbersTyped
<1>m. /\ log' \subseteq log \cup {end} /\ end <= end' /\ low <= low' /\ end' \in Int /\ low' \in Int
      /\ processed \subseteq processed' /\ config' = config
  BY LogMoves
<1>k. ASSUME NEW n \in Int, SafePoint(n) PROVE SafeNext(n)
  <2>1. n <= end /\ (n = None \/ Base <= n)
    BY <1>k DEF SafePoint
  <2>2. ASSUME NEW o \in log', Base <= o, low' <= o, o < n PROVE o \in processed'
    <3>1. o \in log
      BY <1>y, <1>m, <2>1, <2>2
    <3>2. low <= o
      BY <1>y, <1>m, <2>2, <3>1
    <3>. QED
      BY <1>k, <1>m, <2>2, <3>1, <3>2 DEF SafePoint
  <2>. QED
    BY <1>y, <1>m, <2>1, <2>2
<1>z. SafeNext(None)
  <2>1. ASSUME NEW o \in log', Base <= o, o < None PROVE FALSE
    BY <1>y, <1>m, <2>1 DEF None
  <2>2. None <= end'
    BY <1>y, <1>m DEF None
  <2>. QED
    BY <2>1, <2>2
<1>. DEFINE StoreOK  == \A m \in survives' : SafeNext(m[Partition])
            LateOK   == \A n \in late' : SafeNext(n)
            ResumeOK == resume' # NotRead => SafeNext(resume')
            CommitOK == commit' # "none" => SafeNext(pending' + 1)
<1>q. StoreOK /\ LateOK /\ ResumeOK /\ CommitOK => PointsSafe'
  <2>1. Base' = Base
    BY <1>m DEF Base
  <2>. QED
    BY <2>1 DEF PointsSafe, SafePoint
<1>t. /\ \A m \in survives : SafeNext(m[Partition])
      /\ \A n \in late : SafeNext(n)
      /\ resume # NotRead => SafeNext(resume)
      /\ commit # "none" => SafeNext(pending + 1)
  <2>1. pending + 1 \in Int
    BY <1>y
  <2>. QED
    BY <1>y, <1>k, <2>1 DEF PointsSafe
<1>v. SafeNext(committed)
  BY <1>t, <1>y DEF StoreTyped, committed
<1>. HIDE DEF SafeNext
<1>s. survives' \subseteq survives => StoreOK
  BY <1>t
<1>l. late' \subseteq late => LateOK
  BY <1>t
<1>r. resume' \in {resume, NotRead} => ResumeOK
  BY <1>t
<1>c. UNCHANGED <<pending, commit>> \/ commit' = "none" => CommitOK
  BY <1>t
<1>n. commit # "none" => pending + 1 \in 0..MaxEnd /\ pending # NoMessage
  BY ConsumerAssumption DEF OwnerInv, TypeOK, OwnerSound, NoMessage
<1>. HIDE DEF StoreOK, LateOK, ResumeOK, CommitOK
<1>1. CASE ReadCommitted
  <2>1. ResumeOK
    BY <1>1, <1>v DEF ReadCommitted, ResumeOK
  <2>. QED
    BY <1>1, <2>1, <1>q, <1>s, <1>l, <1>c DEF ReadCommitted, store
<1>2. CASE OpenConsumer \/ Recv \/ NewPool \/ RecvNothing \/ Environment
  <2>1. UNCHANGED <<store, owner, late>>
    BY <1>2 DEF OpenConsumer, Recv, NewPool, RecvNothing, Environment
  <2>. QED
    BY <2>1, <1>q, <1>s, <1>l, <1>r, <1>c DEF store, owner
<1>3. CASE Ack
  <2>1. pending # NoMessage /\ commit' = "started" /\ processed' = processed \cup {pending}
        /\ UNCHANGED <<log, low, end, survives, resume, pending, late>>
    BY <1>3 DEF Ack, consumerVars, broker, store
  <2>2. /\ session = "open" /\ pending \in Due /\ pending \in Nat /\ pending < cursor /\ 0 <= cursor
        /\ first <= pending /\ \A o \in Due : o < pending => o \in Range(got)
    BY <2>1, PendingIsDue DEF OwnerInv
  <2>3. /\ Base <= first /\ \A o \in log : Base <= o /\ low <= o /\ o < first => o \in processed
        /\ \A o \in Range(got) : o = Error \/ o \in processed \/ o = pending \/ terminated
    BY <2>2, <1>y DEF SessionSafe
  <2>4. ~terminated
    BY <2>1 DEF OwnerInv, OwnerSound
  <2>5. ASSUME NEW o \in log, Base <= o, low <= o, o < pending + 1 PROVE o \in processed'
    <3>1. o \in Nat /\ (o = pending \/ o < pending)
      BY <1>y, <2>2, <2>5
    <3>2. CASE o < first
      BY <2>1, <2>3, <2>5, <3>2
    <3>3. CASE ~(o < first) /\ o < pending
      <4>1. o \in Due
        BY <1>y, <2>2, <3>1, <3>3 DEF Due
      <4>2. o \in Range(got) /\ o # Error
        BY <2>2, <3>1, <3>3, <4>1 DEF Error
      <4>. QED
        BY <2>1, <2>3, <2>4, <4>2
    <3>. QED
      BY <2>1, <3>1, <3>2, <3>3
  <2>6. pending + 1 <= end /\ Base <= pending + 1
    BY <1>y, <2>2, <2>3 DEF Due
  <2>7. CommitOK
    <3>1. SafeNext(pending + 1)
      BY <2>1, <2>5, <2>6 DEF SafeNext
    <3>. QED
      BY <2>1, <3>1 DEF CommitOK
  <2>. QED
    BY <2>1, <2>7, <1>q, <1>s, <1>l, <1>r
<1>4. CASE DropConsumer
  BY <1>4, <1>q, <1>s, <1>l, <1>r, <1>c DEF DropConsumer, NoOwner, store
<1>5. CASE Deliver
  <2>1. CommitOK
    <3>1. commit' = commit /\ commit = "none"
      BY <1>5 DEF Deliver, RecvItem, OwnerInv, OwnerSound
    <3>. QED
      BY <3>1, <1>c
  <2>. QED
    BY <1>5, <2>1, <1>q, <1>s, <1>l, <1>r DEF Deliver, store
<1>6. CASE CommitTakesEffect
  <2>1. /\ survives' = survives \cup {visible'} /\ visible'[Partition] \in {committed, pending + 1}
        /\ commit # "none" /\ UNCHANGED <<pending, resume, late>>
    BY <1>6, <1>y, <1>n, AdvanceDoes DEF CommitTakesEffect
  <2>2. StoreOK
    BY <2>1, <1>t, <1>v DEF StoreOK
  <2>3. CommitOK
    BY <2>1, <1>t DEF CommitOK
  <2>. QED
    BY <2>1, <2>2, <2>3, <1>q, <1>l, <1>r
<1>7. CASE AckOk
  <2>1. survives' \subseteq survives
    BY <1>7, <1>y, <1>n, AcknowledgeDoes DEF AckOk
  <2>. QED
    BY <1>7, <2>1, <1>q, <1>s, <1>l, <1>r, <1>c DEF AckOk
<1>8. CASE AckFails \/ DropPendingUnacked \/ OpenFails
  <2>1. CommitOK
    BY <1>8, <1>c, <1>n DEF AckFails, DropPendingUnacked, OpenFails
  <2>. QED
    BY <1>8, <2>1, <1>q, <1>s, <1>l, <1>r DEF AckFails, DropPendingUnacked, OpenFails, store
<1>9. CASE AckDropped
  <2>1. LateOK
    BY <1>9, <1>t DEF AckDropped, LateOK
  <2>. QED
    BY <1>9, <2>1, <1>q, <1>s, <1>r, <1>c DEF AckDropped, store
<1>10. CASE LateCommit
  <2>1. PICK n \in late : Store!Advance(Partition, n)
    BY <1>10 DEF LateCommit
  <2>2. n \in 0..MaxEnd
    BY DEF OwnerInv, TypeOK
  <2>3. survives' = survives \cup {visible'} /\ visible'[Partition] \in {committed, n}
    BY <2>1, <2>2, <1>y, AdvanceDoes
  <2>4. StoreOK
    BY <2>3, <1>t, <1>v DEF StoreOK
  <2>5. late' \subseteq late /\ UNCHANGED <<resume, pending, commit>>
    BY <1>10 DEF LateCommit, owner
  <2>. QED
    BY <2>4, <2>5, <1>q, <1>l, <1>r, <1>c
<1>11. CASE Crash
  <2>1. late' = {} /\ resume' = NotRead /\ commit' = "none"
    BY <1>11 DEF Crash, ProcessDies, NoOwner
  <2>2. survives' \subseteq survives \/ \A m \in survives' : m[Partition] = None
    BY <1>11, <1>y, CrashDoes
  <2>3. StoreOK
    BY <2>2, <1>s, <1>z DEF StoreOK
  <2>. QED
    BY <2>1, <2>3, <1>q, <1>l, <1>r, <1>c
<1>. QED
  BY <1>1, <1>2, <1>3, <1>4, <1>5, <1>6, <1>7, <1>8, <1>9, <1>10, <1>11
     DEF Next, Application, Reconnect, GiveUp

LEMMA SessionSafeStep ==
  ASSUME Latest \notin Starts,
         OwnerInv, OwnerInv', PointsSafe, SessionSafe, Next
  PROVE  SessionSafe'
<1>. DEFINE UnstartedOK == session' = "open" /\ cursor' < 0 => cursor' = Earliest /\ Base = 0
            StartedOK   == session' = "open" /\ cursor' >= 0 =>
                             /\ Base <= first' /\ (first' <= end' \/ first' = Base)
                             /\ \A o \in log' : Base <= o /\ low' <= o /\ o < first' => o \in processed'
            GotOK       == session' = "open" =>
                             \A o \in Range(got') : o = Error \/ o \in processed' \/ o = pending' \/ terminated'
<1>y. /\ low \in Nat /\ end \in Nat /\ low <= end /\ log \subseteq Nat /\ (\A o \in log : o < end)
      /\ cursor \in Int /\ first \in Int /\ resume \in Int /\ pending \in Int /\ Base \in Nat
  BY NumbersTyped
<1>m. /\ log' \subseteq log \cup {end} /\ end <= end' /\ low <= low' /\ end' \in Int /\ low' \in Int
      /\ processed \subseteq processed' /\ config' = config
  BY LogMoves
<1>q. UnstartedOK /\ StartedOK /\ GotOK => SessionSafe'
  <2>1. Base' = Base
    BY <1>m DEF Base
  <2>. QED
    BY <2>1 DEF SessionSafe
<1>z. session' # "open" => SessionSafe'
  BY DEF SessionSafe
<1>u. UNCHANGED <<session, cursor>> => UnstartedOK
  BY DEF SessionSafe
<1>s. session' = session /\ first' = first /\ cursor >= 0 => StartedOK
  <2>1. SUFFICES ASSUME session = "open", session' = session, first' = first, cursor >= 0
                 PROVE  StartedOK
    BY DEF SessionSafe
  <2>2. /\ Base <= first /\ (first <= end \/ first = Base)
        /\ \A o \in log : Base <= o /\ low <= o /\ o < first => o \in processed
    BY <2>1 DEF SessionSafe
  <2>3. first' <= end' \/ first' = Base
    BY <1>y, <1>m, <2>1, <2>2
  <2>4. ASSUME NEW o \in log', Base <= o, low' <= o, o < first' PROVE o \in processed'
    <3>1. o \in log
      BY <1>y, <1>m, <2>1, <2>2, <2>4
    <3>2. low <= o
      BY <1>y, <1>m, <2>4, <3>1
    <3>. QED
      BY <1>m, <2>1, <2>2, <2>4, <3>1, <3>2
  <2>. QED
    BY <2>1, <2>2, <2>3, <2>4
<1>c. UNCHANGED <<session, cursor, first>> => UnstartedOK /\ StartedOK
  <2>1. UNCHANGED <<session, cursor, first>> /\ ~(cursor >= 0) => StartedOK
    OBVIOUS
  <2>. QED
    BY <2>1, <1>u, <1>s
<1>g. UNCHANGED <<session, got, pending>> /\ (terminated => terminated') => GotOK
  BY <1>m DEF SessionSafe
<1>. HIDE DEF UnstartedOK, StartedOK, GotOK
<1>1. CASE OpenConsumer
  <2>1. /\ session' = "open" /\ got' = <<>> /\ cursor' = StartAt(resume) /\ resume # NotRead
        /\ first' = (IF cursor' >= 0 THEN cursor' ELSE Unknown)
        /\ UNCHANGED <<log, low, end, processed>>
    BY <1>1 DEF OpenConsumer, Connect, broker, history
  <2>2. resume >= None /\ SafePoint(resume)
    BY <2>1, ConsumerAssumption DEF PointsSafe, OwnerInv, TypeOK, NotRead, None
  <2>3. GotOK
    BY <2>1, RangeShort DEF GotOK
  <2>4. CASE resume # None
    <3>1. cursor' = resume /\ resume >= 0 /\ first' = resume
      BY <2>1, <2>2, <2>4, <1>y DEF StartAt, None
    <3>2. /\ resume <= end /\ Base <= resume
          /\ \A o \in log : Base <= o /\ low <= o /\ o < resume => o \in processed
      BY <2>2, <2>4 DEF SafePoint
    <3>3. UnstartedOK /\ StartedOK
      BY <2>1, <3>1, <3>2, <1>y DEF UnstartedOK, StartedOK
    <3>. QED
      BY <2>3, <3>3, <1>q
  <2>5. CASE resume = None
    <3>1. cursor' = config /\ config \in Positions /\ config # Latest
      BY <2>1, <2>5, StartsAssumption DEF StartAt, OwnerInv, TypeOK
    <3>2. config \in Int /\ (config < 0 => config = Earliest)
      BY <3>1, ConsumerAssumption DEF Positions, Earliest, Latest
    <3>3. UnstartedOK
      BY <3>1, <3>2 DEF UnstartedOK, Base
    <3>4. StartedOK
      <4>1. SUFFICES ASSUME config >= 0 PROVE StartedOK
        BY <3>1 DEF StartedOK
      <4>2. first' = Base
        BY <2>1, <3>1, <4>1 DEF Base
      <4>3. \A o \in log : ~(Base <= o /\ o < Base)
        BY <1>y
      <4>. QED
        BY <2>1, <4>2, <4>3, <1>y DEF StartedOK
    <3>. QED
      BY <2>3, <3>3, <3>4, <1>q
  <2>. QED
    BY <2>4, <2>5
<1>2. CASE ReadCommitted \/ Recv \/ Ack \/ NewPool \/ RecvNothing \/ AckFails \/ AckDropped
           \/ OpenFails \/ CommitTakesEffect \/ LateCommit
  <2>1. UNCHANGED <<session, cursor, first, got, pending, terminated>>
    BY <1>2 DEF ReadCommitted, Recv, RecvStart, Ack, NewPool, RecvNothing, RecvEnd, RecvTimeout,
       RecvDropped, RecvWithout, AckFails, AckDropped, OpenFails, CommitTakesEffect, LateCommit,
       consumerVars, caller, fetcher, owner
  <2>. QED
    BY <2>1, <1>q, <1>c, <1>g
<1>3. CASE DropConsumer \/ Crash
  BY <1>3, <1>z DEF DropConsumer, Drop, Crash, ProcessDies, NoSession
<1>4. CASE Deliver
  <2>1. /\ UNCHANGED <<session, cursor, first, terminated, processed>> /\ recving
        /\ Head(buffer) = Error \/ pending' = Head(buffer)
    BY <1>4 DEF Deliver, RecvItem, fetcher
  <2>2. pending = Error /\ session = "open"
    BY <2>1 DEF OwnerInv, OwnerSound, ConsumerInv, ConsumerTypeOK, TaskSound, NoMessage, Error
  <2>3. Range(got') = Range(got) \cup {Head(buffer)}
    BY <1>4, ComingStep DEF Deliver, OwnerInv, ConsumerInv
  <2>4. GotOK
    BY <2>1, <2>2, <2>3 DEF GotOK, SessionSafe
  <2>. QED
    BY <2>1, <2>4, <1>q, <1>c
<1>5. CASE AckOk
  <2>1. UNCHANGED <<session, cursor, first, got, terminated, processed>> /\ pending \in processed
    BY <1>5 DEF AckOk, consumerVars, caller, fetcher, history, OwnerInv, OwnerSound
  <2>2. GotOK
    BY <2>1 DEF GotOK, SessionSafe
  <2>. QED
    BY <2>1, <2>2, <1>q, <1>c
<1>6. CASE DropPendingUnacked
  <2>1. UNCHANGED <<session, cursor, first>> /\ terminated' = TRUE
    BY <1>6 DEF DropPendingUnacked, caller, fetcher
  <2>2. GotOK
    BY <2>1 DEF GotOK
  <2>. QED
    BY <2>1, <2>2, <1>q, <1>c
<1>7. CASE Environment
  <2>1. UNCHANGED <<session, got, pending, terminated>>
    BY <1>7 DEF Environment, owner, AppendRecord, Retain, Close, Broadcast, TaskStep, ResolveStart,
       Fetch, FetchError, OffsetOutOfRange, StreamFails, Send, TaskShutdown, caller
  <2>2. CASE AppendRecord \/ Retain \/ Close \/ Broadcast \/ FetchError \/ OffsetOutOfRange \/ Send
             \/ TaskShutdown
    <3>1. UNCHANGED <<cursor, first>>
      BY <2>2 DEF AppendRecord, Retain, Close, Broadcast, FetchError, OffsetOutOfRange, StreamFails,
         Send, TaskShutdown, fetcher
    <3>. QED
      BY <2>1, <3>1, <1>q, <1>c, <1>g
  <2>3. CASE ResolveStart
    <3>1. CASE session = "open"
      <4>1. cursor = Earliest /\ Base = 0
        BY <2>3, <3>1 DEF ResolveStart, SessionSafe
      <4>2. cursor' = low /\ first' = low /\ UNCHANGED <<log, low, end>>
        BY <2>3, <4>1 DEF ResolveStart, broker
      <4>3. \A o \in log : ~(low <= o /\ o < low)
        BY <1>y
      <4>4. UnstartedOK /\ StartedOK
        BY <4>1, <4>2, <4>3, <1>y DEF UnstartedOK, StartedOK
      <4>. QED
        BY <2>1, <4>4, <1>q, <1>g
    <3>2. CASE session # "open"
      BY <2>1, <3>2, <1>z
    <3>. QED
      BY <3>1, <3>2
  <2>4. CASE Fetch
    <3>1. PICK o \in log : o >= cursor /\ cursor' = o + 1
      BY <2>4 DEF Fetch
    <3>2. cursor >= 0 /\ first' = first /\ cursor' >= 0
      BY <2>4, <3>1, <1>y DEF Fetch
    <3>3. UnstartedOK
      BY <3>1, <3>2, <1>y DEF UnstartedOK
    <3>. QED
      BY <2>1, <3>2, <3>3, <1>q, <1>s, <1>g
  <2>. QED
    BY <1>7, <2>2, <2>3, <2>4 DEF Environment, TaskStep
<1>. QED
  BY <1>1, <1>2, <1>3, <1>4, <1>5, <1>6, <1>7 DEF Next, Application, Reconnect, GiveUp

-----------------------------------------------------------------------------
(***************************************************************************)
(* What is delivered again.                                                *)
(***************************************************************************)
LEMMA RedeliveredStep ==
  ASSUME Latest \notin Starts,
         OwnerInv, OwnerInv', PointsSafe, SessionSafe, Redelivered, Next
  PROVE  Redelivered'
<1>. DEFINE Later(o) == o < visible'[Partition] \/ o < low'
            Open(o)  == o = pending' \/ o \in Range(Coming') \/ o >= cursor' \/ terminated' \/ shutdown'
<1>y. /\ low \in Nat /\ end \in Nat /\ log \subseteq Nat /\ delivered \subseteq Nat /\ delivered \subseteq log
      /\ cursor \in Int /\ resume \in Int /\ pending \in Int /\ Base \in Nat /\ committed \in Int
      /\ StoreTyped
  <2>1. \A o \in delivered : o \in Nat
    BY NumbersTyped
  <2>. QED
    BY <2>1, NumbersTyped
<1>m. low <= low' /\ low' \in Int /\ config' = config
  BY LogMoves
<1>b. Base' = Base /\ \A o \in delivered : Base <= o
  BY <1>m DEF Base, Redelivered
<1>o. session = "open" => \A o \in delivered :
         \/ o < committed \/ o < low
         \/ o = pending \/ o \in Range(Coming) \/ o >= cursor \/ terminated \/ shutdown
  BY DEF Redelivered, ToCome, Coming
<1>n. session = "none" => \A o \in delivered :
         o < committed \/ o < low \/ (resume # NotRead => StartAt(resume) <= o)
  BY DEF Redelivered, ToCome
<1>p. ASSUME session' = "open", delivered' = delivered, \A o \in delivered : Later(o) \/ Open(o)
      PROVE  Redelivered'
  BY <1>p, <1>b DEF Redelivered, ToCome, Coming, committed
<1>e. ASSUME session' = "none", delivered' = delivered,
             \A o \in delivered : Later(o) \/ resume' = NotRead \/ StartAt(resume)' <= o
      PROVE  Redelivered'
  BY <1>e, <1>b DEF Redelivered, ToCome, committed
<1>w. visible' = visible => \A o \in delivered : o < committed \/ o < low => Later(o)
  BY <1>y, <1>m DEF committed
<1>x. session \in {"none", "open"}
  BY DEF OwnerInv, ConsumerInv, ConsumerTypeOK
<1>k. ASSUME UNCHANGED <<session, delivered, pending, buffer, hand, cursor, terminated, resume>>,
             shutdown => shutdown' \/ session = "none",
             \A o \in delivered : o < committed \/ o < low => Later(o)
      PROVE  Redelivered'
  <2>1. CASE session = "open"
    <3>1. Coming' = Coming
      BY <1>k DEF Coming
    <3>. QED
      BY <2>1, <3>1, <1>k, <1>o, <1>p
  <2>2. CASE session = "none"
    <3>1. StartAt(resume)' = StartAt(resume)
      BY <1>k, <1>m DEF StartAt
    <3>. QED
      BY <2>2, <3>1, <1>k, <1>n, <1>e
  <2>. QED
    BY <2>1, <2>2, <1>x
<1>1. CASE ReadCommitted
  <2>1. session = "none" /\ UNCHANGED <<session, delivered, visible>> /\ resume' = committed
    BY <1>1 DEF ReadCommitted, consumerVars, caller, history, store
  <2>2. ASSUME NEW o \in delivered PROVE Later(o) \/ StartAt(resume)' <= o
    <3>1. StartAt(resume)' = IF committed # None THEN committed ELSE config
      BY <2>1, <1>m DEF StartAt
    <3>2. config \in Int
      BY StartsAssumption, ConsumerAssumption DEF OwnerInv, TypeOK, Positions, Earliest
    <3>3. config <= o
      BY <1>b, <1>y, <3>2 DEF Base
    <3>4. committed <= o \/ o < committed
      BY <1>y
    <3>. QED
      BY <2>1, <3>1, <3>3, <3>4, <1>w
  <2>. QED
    BY <2>1, <2>2, <1>e
<1>2. CASE OpenConsumer
  <2>1. /\ session = "none" /\ session' = "open" /\ cursor' = StartAt(resume) /\ resume # NotRead
        /\ UNCHANGED <<delivered, visible>>
    BY <1>2 DEF OpenConsumer, Connect, history, store
  <2>2. StartAt(resume) \in Int
    BY <2>1, StartPositions, ConsumerAssumption DEF OwnerInv, Positions, Earliest
  <2>3. ASSUME NEW o \in delivered PROVE Later(o) \/ Open(o)
    <3>1. o < committed \/ o < low \/ StartAt(resume) <= o
      BY <2>1, <1>n
    <3>2. StartAt(resume) <= o => o >= cursor'
      BY <2>1, <2>2, <1>y
    <3>. QED
      BY <2>1, <3>1, <3>2, <1>w
  <2>. QED
    BY <2>1, <2>3, <1>p
<1>3. CASE Recv \/ Ack \/ NewPool \/ RecvNothing \/ AckFails \/ AckDropped
  <2>1. /\ UNCHANGED <<session, delivered, pending, buffer, hand, cursor, terminated, resume, visible>>
        /\ shutdown => shutdown' \/ session = "none"
    BY <1>3 DEF Recv, RecvStart, Ack, NewPool, RecvNothing, RecvEnd, RecvTimeout, RecvDropped, RecvWithout,
       AckFails, AckDropped, consumerVars, pool, caller, fetcher, owner, store, history
  <2>. QED
    BY <2>1, <1>k, <1>w
<1>4. CASE DropConsumer \/ Crash
  BY <1>4, <1>e DEF DropConsumer, Drop, Crash, ProcessDies, NoSession, NoOwner, history
<1>5. CASE OpenFails
  BY <1>5, <1>e DEF OpenFails, caller, history
<1>6. CASE Deliver
  <2>1. /\ session' = session /\ UNCHANGED <<cursor, terminated, shutdown, visible>> /\ recving
        /\ \/ Head(buffer) = Error /\ UNCHANGED <<pending, delivered>>
           \/ /\ Head(buffer) # Error /\ pending' = Head(buffer)
              /\ delivered' = delivered \cup {Head(buffer)}
    BY <1>6 DEF Deliver, RecvItem, fetcher, pool, store
  <2>2. /\ session = "open" /\ Head(buffer) \in Range(Coming)
        /\ Range(Coming) = {Head(buffer)} \cup Range(Coming')
    BY <1>6, HeadInLog, ComingStep DEF Deliver, OwnerInv, ConsumerInv
  <2>3. pending = NoMessage
    BY <2>1 DEF OwnerInv, OwnerSound
  <2>4. ASSUME NEW o \in delivered PROVE Later(o) \/ Open(o)
    <3>1. o # pending /\ o # Error
      BY <2>3, <1>y DEF NoMessage, Error
    <3>. QED
      BY <2>1, <2>2, <3>1, <1>o, <1>w
  <2>5. CASE Head(buffer) = Error
    BY <2>1, <2>2, <2>4, <2>5, <1>p
  <2>6. CASE Head(buffer) # Error
    <3>1. Base <= Head(buffer)
      <4>1. Head(buffer) \in Due
        BY <2>2, <2>6, SentSplit DEF OwnerInv
      <4>2. first <= Head(buffer) /\ Head(buffer) < cursor /\ Head(buffer) \in Nat /\ first \in Int
        BY <4>1, <1>y, NumbersTyped DEF Due
      <4>3. Base <= first
        BY <2>2, <4>2, <1>y DEF SessionSafe
      <4>. QED
        BY <4>2, <4>3, <1>y
    <3>2. \A o \in delivered' : Base <= o /\ (Later(o) \/ Open(o))
      BY <2>1, <2>4, <2>6, <3>1, <1>b
    <3>. QED
      BY <2>1, <2>2, <3>2, <1>b DEF Redelivered, ToCome, Coming, committed
  <2>. QED
    BY <2>5, <2>6
<1>7. ASSUME NEW n \in 0..MaxEnd, Store!Advance(Partition, n), shutdown' = shutdown,
             UNCHANGED <<session, delivered, pending, buffer, hand, cursor, terminated, resume>>
      PROVE  Redelivered'
  <2>1. committed <= visible'[Partition] /\ visible'[Partition] \in {committed, n}
    BY <1>7, <1>y, AdvanceDoes
  <2>2. \A o \in delivered : o < committed \/ o < low => Later(o)
    BY <2>1, <1>7, <1>y, <1>m
  <2>. QED
    BY <2>2, <1>7, <1>k
<1>8. CASE CommitTakesEffect
  <2>1. pending + 1 \in 0..MaxEnd
    BY <1>8, ConsumerAssumption DEF CommitTakesEffect, OwnerInv, TypeOK, OwnerSound, NoMessage
  <2>. QED
    BY <1>8, <2>1, <1>7 DEF CommitTakesEffect, consumerVars, pool, caller, fetcher, history
<1>9. CASE LateCommit
  <2>1. PICK n \in late : Store!Advance(Partition, n)
    BY <1>9 DEF LateCommit
  <2>2. n \in 0..MaxEnd
    BY DEF OwnerInv, TypeOK
  <2>. QED
    BY <1>9, <2>1, <2>2, <1>7 DEF LateCommit, consumerVars, pool, caller, fetcher, owner, history
<1>10. CASE AckOk
  <2>1. /\ UNCHANGED <<session, delivered, buffer, hand, cursor, terminated, shutdown, visible>>
        /\ commit = "applied"
    BY <1>10 DEF AckOk, Store!Acknowledge, consumerVars, pool, caller, fetcher, history
  <2>2. pending < committed /\ session = "open"
    BY <2>1, PendingIsDue DEF OwnerInv, OwnerSound
  <2>3. Coming' = Coming
    BY <2>1 DEF Coming
  <2>4. ASSUME NEW o \in delivered PROVE Later(o) \/ Open(o)
    BY <2>1, <2>2, <2>3, <1>o, <1>w
  <2>. QED
    BY <2>1, <2>2, <2>4, <1>p
<1>11. CASE DropPendingUnacked
  BY <1>11, <1>p DEF DropPendingUnacked, caller, history
<1>12. CASE Environment
  <2>1. UNCHANGED <<session, delivered, pending, terminated, resume, visible>> /\ (shutdown => shutdown')
    BY <1>12 DEF Environment, owner, store, history, AppendRecord, Retain, Close, Broadcast, TaskStep,
       ResolveStart, Fetch, FetchError, OffsetOutOfRange, StreamFails, Send, TaskShutdown, caller, pool
  <2>2. CASE AppendRecord \/ Retain \/ Close \/ Broadcast
    <3>1. UNCHANGED <<buffer, hand, cursor>>
      BY <2>2 DEF AppendRecord, Retain, Close, Broadcast, fetcher
    <3>. QED
      BY <2>1, <3>1, <1>k, <1>w
  <2>3. CASE TaskStep
    <3>1. session = "open"
      BY <2>3, <1>x DEF TaskStep, ResolveStart, Fetch, FetchError, OffsetOutOfRange, StreamFails, Polls,
         Send, TaskShutdown, Alive, OwnerInv, ConsumerInv, TaskSound
    <3>2. SUFFICES ASSUME NEW o \in delivered, o = pending \/ o \in Range(Coming) \/ o >= cursor
                   PROVE  Later(o) \/ Open(o)
      BY <2>1, <3>1, <1>o, <1>p, <1>w
    <3>3. CASE ResolveStart
      <4>1. cursor = Earliest /\ cursor' = low /\ low' = low /\ hand' = hand /\ buffer' = buffer
        BY <3>1, <3>3 DEF ResolveStart, SessionSafe, broker
      <4>2. o < low \/ o >= low
        BY <1>y
      <4>. QED
        BY <4>1, <4>2
    <3>4. CASE Fetch
      <4>1. PICK r \in log : /\ r >= cursor /\ \A p \in log : p >= cursor => r <= p
                             /\ hand' = <<r>> /\ cursor' = r + 1
        BY <3>4 DEF Fetch
      <4>2. hand = <<>> /\ buffer' = buffer
        BY <3>4 DEF Fetch, Polls, OwnerInv, ConsumerInv, TaskSound
      <4>3. Range(Coming') = Range(Coming) \cup {r}
        BY <4>1, <4>2, ComingStep DEF OwnerInv, ConsumerInv
      <4>4. o >= cursor => o = r \/ o >= r + 1
        <5>1. o \in log /\ o \in Nat /\ r \in Nat
          BY <1>y
        <5>2. o >= cursor => r <= o
          BY <4>1, <5>1
        <5>. QED
          BY <5>1, <5>2
      <4>. QED
        BY <2>1, <3>2, <4>1, <4>3, <4>4
    <3>5. CASE FetchError \/ OffsetOutOfRange
      <4>1. hand = <<>> /\ hand' = <<Error>> /\ buffer' = buffer /\ cursor' = cursor
        BY <3>5 DEF FetchError, OffsetOutOfRange, StreamFails, Polls, OwnerInv, ConsumerInv, TaskSound
      <4>2. Range(Coming') = Range(Coming) \cup {Error}
        BY <4>1, ComingStep DEF OwnerInv, ConsumerInv
      <4>. QED
        BY <2>1, <3>2, <4>1, <4>2
    <3>6. CASE Send
      <4>1. Range(Coming') = Range(Coming) /\ cursor' = cursor
        BY <3>6, ComingStep DEF OwnerInv, ConsumerInv, Send
      <4>. QED
        BY <2>1, <3>2, <4>1
    <3>7. CASE TaskShutdown
      BY <2>1, <3>7 DEF TaskShutdown
    <3>. QED
      BY <2>3, <3>3, <3>4, <3>5, <3>6, <3>7 DEF TaskStep
  <2>. QED
    BY <1>12, <2>2, <2>3 DEF Environment
<1>. QED
  BY <1>1, <1>2, <1>3, <1>4, <1>5, <1>6, <1>8, <1>9, <1>10, <1>11, <1>12
     DEF Next, Application, Reconnect, GiveUp

-----------------------------------------------------------------------------
LEMMA DeliveryInvInit == Init => DeliveryInv
<1>. SUFFICES ASSUME Init PROVE DeliveryInv
  OBVIOUS
<1>1. /\ survives = {[k \in {Partition} |-> None]} /\ late = {} /\ resume = NotRead /\ commit = "none"
      /\ log = {} /\ end = 0 /\ session = "none" /\ delivered = {}
  BY DEF Init, InitConsumer, Store!Init, Store!Nothing, Store!None, None
<1>2. SafePoint(None)
  BY <1>1 DEF SafePoint, None
<1>3. PointsSafe
  BY <1>1, <1>2 DEF PointsSafe
<1>. QED
  BY <1>1, <1>3 DEF DeliveryInv, SessionSafe, Redelivered

LEMMA DeliveryInvStep ==
  ASSUME Latest \notin Starts
  PROVE  OwnerInv /\ OwnerInv' /\ DeliveryInv /\ [Next]_vars => DeliveryInv'
<1>1. CASE OwnerInv /\ OwnerInv' /\ DeliveryInv /\ Next
  BY <1>1, PointsStep, SessionSafeStep, RedeliveredStep DEF DeliveryInv
<1>2. CASE DeliveryInv /\ UNCHANGED vars
  <2>1. UNCHANGED <<log, low, end, shutdown, session, cursor, first, hand, buffer, got, config, visible,
                    survives, resume, pending, terminated, commit, late, delivered, processed>>
    BY <1>2 DEF vars, consumerVars, broker, pool, fetcher, caller, setup, store, owner, history
  <2>2. PointsSafe'
    BY <1>2, <2>1 DEF DeliveryInv, PointsSafe, SafePoint, Base
  <2>3. SessionSafe'
    BY <1>2, <2>1 DEF DeliveryInv, SessionSafe, Base
  <2>4. Redelivered'
    BY <1>2, <2>1 DEF DeliveryInv, Redelivered, ToCome, StartAt, Base, committed
  <2>. QED
    BY <2>2, <2>3, <2>4 DEF DeliveryInv
<1>. QED
  BY <1>1, <1>2

LEMMA DeliveryInvariant ==
  ASSUME Latest \notin Starts
  PROVE  Spec => []DeliveryInv
<1>1. OwnerInv /\ OwnerInv' /\ DeliveryInv /\ [Next]_vars => DeliveryInv'
  BY DeliveryInvStep
<1>. QED
  BY <1>1, DeliveryInvInit, OwnerInvariant, PTL DEF Spec

\* The committed offset passes only records the application has called ack on
\* (at_least_once.rs:5-7), whatever fails, crashes, or is dropped half way.  A start
\* at the latest offset asks to skip what is there.
THEOREM NothingIsSkipped ==
  ASSUME Latest \notin Starts
  PROVE  Spec => []NothingSkipped
<1>1. OwnerInv /\ DeliveryInv => NothingSkipped
  BY DEF OwnerInv, TypeOK, DeliveryInv, PointsSafe, SafePoint, NothingSkipped, committed
<1>. QED
  BY <1>1, OwnerInvariant, DeliveryInvariant, PTL

\* What was delivered and is not committed comes again (at_least_once.rs:8,
\* docs/API.md:65).  The assumption is needed: from the latest offset, a message that
\* was delivered and never committed is lost on reconnecting, as the run
\* MCAtLeastOnceLatest shows.
THEOREM UncommittedComesAgain ==
  ASSUME Latest \notin Starts
  PROVE  Spec => []UncommittedRedelivered
<1>1. DeliveryInv => UncommittedRedelivered
  BY DEF DeliveryInv, Redelivered, UncommittedRedelivered
<1>. QED
  BY <1>1, DeliveryInvariant, PTL
=============================================================================
