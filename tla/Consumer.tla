------------------------------- MODULE Consumer -------------------------------
(***************************************************************************)
(* KafkaConsumer (consumer.rs): the background task that drains the fetch  *)
(* stream of one partition into a bounded channel, recv at the other end,  *)
(* and the pool's shutdown between the two.  The broker's log and the      *)
(* fetch stream of rskafka are external.                                   *)
(***************************************************************************)
EXTENDS Integers, SequencesExt

CONSTANTS MaxEnd,         \* bound: offsets appended to the log, 0..MaxEnd-1
          MaxLow,         \* bound: offsets removed by retention
          Capacity,       \* CONSUMER_BUFFER_CAPACITY
          MaxFaults       \* bound: fetch errors, closes and crashes

ASSUME ConsumerAssumption ==
  /\ MaxEnd \in Nat /\ MaxLow \in Nat /\ MaxFaults \in Nat
  /\ Capacity \in Nat \ {0}

VARIABLES log, low, end,  \* records present; first offset kept; next to append
          closed,         \* the pool refuses new work
          shutdown,       \* the shutdown signal has been broadcast
          session,        \* "none" or "open": a KafkaConsumer exists
          task,           \* the background task
          cursor,         \* where the stream goes on, or a symbolic start
          first,          \* history: the offset the start was resolved to
          failed,         \* history: the stream of this session failed
          hand,           \* what the task is about to send: at most one item
          buffer,         \* the channel
          recving,        \* a recv is waiting on the channel
          reply,          \* what the last recv returned
          got,            \* history: every item recv has returned in this session
          faults          \* how many faults have been taken

broker  == <<log, low, end>>
pool    == <<closed, shutdown>>
fetcher == <<task, cursor, first, failed, hand>>
caller  == <<session, recving, reply, got>>
consumerVars == <<broker, pool, fetcher, buffer, caller, faults>>

Earliest == -2
Latest   == -1
Unknown  == -1
Error    == -1            \* the item that carries a mapped fetch error

Alive == {"fetching", "sending"}

Fault == faults < MaxFaults /\ faults' = faults + 1

(***************************************************************************)
(* The broker.  An offset may hold no record: control batches, compaction. *)
(***************************************************************************)
AppendRecord ==
  /\ end < MaxEnd
  /\ end' = end + 1
  /\ \/ log' = log \cup {end}
     \/ UNCHANGED log
  /\ UNCHANGED <<low, pool, fetcher, buffer, caller, faults>>

Retain ==
  /\ low < MaxLow /\ low < end
  /\ low' = low + 1
  /\ UNCHANGED <<log, end, pool, fetcher, buffer, caller, faults>>

(***************************************************************************)
(* KafkaPool::close, as the consumer sees it.                              *)
(***************************************************************************)
Close ==
  /\ ~closed /\ Fault
  /\ closed' = TRUE
  /\ UNCHANGED <<broker, shutdown, fetcher, buffer, caller>>

Broadcast ==
  /\ closed /\ ~shutdown
  /\ shutdown' = TRUE
  /\ UNCHANGED <<broker, closed, fetcher, buffer, caller, faults>>

(***************************************************************************)
(* Connecting, and dropping the session, which aborts the task.            *)
(***************************************************************************)
\* ConsumerConfig::resolve_start_offset; None is a config without start_offset.
None == -1
StartOf(startOffset, fromBeginning) ==
  IF startOffset # None THEN startOffset
                        ELSE IF fromBeginning THEN Earliest ELSE Latest

\* connect fails, and changes nothing, when the pool is closed.
Connect(start) ==
  /\ session = "none" /\ ~closed
  /\ session' = "open" /\ task' = "fetching"
  /\ cursor' = start
  /\ first' = (IF start >= 0 THEN start ELSE Unknown) /\ failed' = FALSE
  /\ hand' = <<>> /\ buffer' = <<>> /\ got' = <<>>
  /\ recving' = FALSE /\ reply' = "none"
  /\ UNCHANGED <<broker, pool, faults>>

NoSession ==
  /\ session' = "none" /\ task' = "none"
  /\ cursor' = Earliest
  /\ first' = Unknown /\ failed' = FALSE
  /\ hand' = <<>> /\ buffer' = <<>> /\ got' = <<>>
  /\ recving' = FALSE /\ reply' = "none"

Drop ==
  /\ session = "open" /\ ~recving
  /\ NoSession
  /\ UNCHANGED <<broker, pool>>

(***************************************************************************)
(* The background task.  Both of its waits prefer the shutdown signal.     *)
(***************************************************************************)
Polls == task = "fetching" /\ ~shutdown

\* The stream asks the broker where a symbolic start is.
ResolveStart ==
  /\ Polls /\ cursor < 0
  /\ cursor' = IF cursor = Earliest THEN low ELSE end
  /\ first' = cursor'
  /\ UNCHANGED <<broker, pool, task, failed, hand, buffer, caller, faults>>

\* Mutated form of Fetch: it goes on from the log's end, not from the record.
FetchJumps ==
  /\ Polls /\ cursor >= 0
  /\ \E o \in log : /\ o >= cursor /\ \A p \in log : p >= cursor => o <= p
                    /\ hand' = <<o>>
                    /\ cursor' = end
  /\ task' = "sending"
  /\ UNCHANGED <<broker, pool, first, failed, buffer, caller, faults>>

Fetch ==
  /\ Polls /\ cursor >= 0
  /\ \E o \in log : /\ o >= cursor /\ \A p \in log : p >= cursor => o <= p
                    /\ hand' = <<o>>
                    /\ cursor' = o + 1
  /\ task' = "sending"
  /\ UNCHANGED <<broker, pool, first, failed, buffer, caller, faults>>

StreamFails ==
  /\ Polls
  /\ hand' = <<Error>> /\ failed' = TRUE
  /\ task' = "sending"
  /\ UNCHANGED <<broker, pool, cursor, first, buffer, caller>>

FetchError == Fault /\ StreamFails

\* The broker refuses a position outside its log.
OffsetOutOfRange == cursor >= 0 /\ cursor \notin low..end /\ StreamFails /\ UNCHANGED faults

\* Mutated form of Send: one item too many.
SendUnbounded ==
  /\ task = "sending" /\ ~shutdown
  /\ Len(buffer) <= Capacity
  /\ buffer' = buffer \o hand
  /\ hand' = <<>>
  /\ task' = IF hand = <<Error>> THEN "exited" ELSE "fetching"
  /\ UNCHANGED <<broker, pool, cursor, first, failed, caller, faults>>

\* Mutated form of Send: the task goes on after an error.
SendGoesOn ==
  /\ task = "sending" /\ ~shutdown
  /\ Len(buffer) < Capacity
  /\ buffer' = buffer \o hand
  /\ hand' = <<>> /\ task' = "fetching"
  /\ UNCHANGED <<broker, pool, cursor, first, failed, caller, faults>>

\* Mutated form of Send: an error leaves the loop before it is sent.
SendOnlyRecords ==
  /\ task = "sending" /\ ~shutdown
  /\ Len(buffer) < Capacity
  /\ buffer' = IF hand = <<Error>> THEN buffer ELSE buffer \o hand
  /\ hand' = <<>>
  /\ task' = IF hand = <<Error>> THEN "exited" ELSE "fetching"
  /\ UNCHANGED <<broker, pool, cursor, first, failed, caller, faults>>

\* send_or_shutdown with room in the channel; an error is the last item sent.
Send ==
  /\ task = "sending" /\ ~shutdown
  /\ Len(buffer) < Capacity
  /\ buffer' = buffer \o hand
  /\ hand' = <<>>
  /\ task' = IF hand = <<Error>> THEN "exited" ELSE "fetching"
  /\ UNCHANGED <<broker, pool, cursor, first, failed, caller, faults>>

\* Mutated form of TaskShutdown: a task blocked on a full channel does not look
\* at the signal.
ShutdownOnlyFetching ==
  /\ shutdown /\ task = "fetching"
  /\ task' = "exited" /\ hand' = <<>>
  /\ UNCHANGED <<broker, pool, cursor, first, failed, buffer, caller, faults>>

TaskShutdown ==
  /\ shutdown /\ task \in Alive
  /\ task' = "exited" /\ hand' = <<>>
  /\ UNCHANGED <<broker, pool, cursor, first, failed, buffer, caller, faults>>

(***************************************************************************)
(* recv and recv_timeout.                                                  *)
(***************************************************************************)
RecvStart ==
  /\ session = "open" /\ ~recving
  /\ IF closed THEN reply' = "closed" /\ UNCHANGED recving
               ELSE recving' = TRUE /\ reply' = "none"
  /\ UNCHANGED <<broker, pool, fetcher, buffer, session, got, faults>>

RecvItem ==
  /\ recving /\ buffer # <<>>
  /\ buffer' = Tail(buffer)
  /\ got' = Append(got, Head(buffer))
  /\ reply' = IF Head(buffer) = Error THEN "error" ELSE "message"
  /\ recving' = FALSE
  /\ UNCHANGED <<broker, pool, fetcher, session, faults>>

RecvWithout(result) ==
  /\ recving
  /\ reply' = result /\ recving' = FALSE
  /\ UNCHANGED <<broker, pool, fetcher, buffer, session, got>>

\* The channel is empty and its sender is gone: recv returns None.
RecvEnd ==
  /\ buffer = <<>> /\ task = "exited"
  /\ RecvWithout("end") /\ UNCHANGED faults

\* recv_timeout looks into the channel before it looks at its deadline.
RecvTimeout ==
  /\ buffer = <<>> /\ task # "exited"
  /\ RecvWithout("timeout") /\ UNCHANGED faults

\* The caller drops the future of recv; no item is taken.
RecvDropped == RecvWithout("none") /\ Fault

-----------------------------------------------------------------------------
InitConsumer ==
  /\ log = {} /\ low = 0 /\ end = 0
  /\ closed = FALSE /\ shutdown = FALSE
  /\ session = "none" /\ task = "none" /\ cursor = Earliest
  /\ first = Unknown /\ failed = FALSE
  /\ hand = <<>> /\ buffer = <<>> /\ got = <<>>
  /\ recving = FALSE /\ reply = "none"
  /\ faults = 0

TaskStep == \/ ResolveStart \/ Fetch \/ FetchError \/ OffsetOutOfRange
            \/ Send \/ TaskShutdown
RecvStep == RecvItem \/ RecvEnd

ConsumerNext ==
  \/ AppendRecord \/ Retain \/ Close \/ Broadcast
  \/ \E at \in None..MaxEnd, beginning \in BOOLEAN : Connect(StartOf(at, beginning))
  \/ Drop /\ UNCHANGED faults
  \/ TaskStep
  \/ RecvStart \/ RecvStep \/ RecvTimeout \/ RecvDropped

ConsumerSpec == InitConsumer /\ [][ConsumerNext]_consumerVars

\* The runtime polls the task and a waiting recv; close broadcasts what it has
\* stored.  The broker, the callers and the faults are free to do nothing.
ConsumerFairSpec ==
  /\ ConsumerSpec
  /\ WF_consumerVars(TaskStep) /\ WF_consumerVars(RecvStep) /\ WF_consumerVars(Broadcast)

-----------------------------------------------------------------------------
Positions == Earliest..MaxEnd
Item      == Error..MaxEnd - 1

\* Every variable keeps its type; the channel never exceeds its capacity.
ConsumerTypeOK ==
  /\ log \subseteq 0..MaxEnd - 1 /\ low \in 0..MaxLow /\ end \in 0..MaxEnd
  /\ closed \in BOOLEAN /\ shutdown \in BOOLEAN /\ failed \in BOOLEAN
  /\ session \in {"none", "open"} /\ recving \in BOOLEAN
  /\ task \in Alive \cup {"none", "exited"}
  /\ cursor \in Positions /\ first \in Unknown..MaxEnd
  /\ hand \in {<<>>} \cup {<<i>> : i \in Item}
  /\ buffer \in Seq(Item) /\ Len(buffer) <= Capacity
  /\ got \in Seq(Item)
  /\ reply \in {"none", "message", "error", "end", "closed", "timeout"}
  /\ faults \in 0..MaxFaults

\* The items of the session so far: every record from its start to its position,
\* and the error if the stream has failed.
Due   == {o \in log : first <= o /\ o < cursor}
Items == Due \cup (IF failed THEN {Error} ELSE {})

\* What recv has returned, what is buffered and what the task holds are exactly
\* those items, each once and in order, the error last: no record is lost, repeated
\* or reordered on its way through the channel.  Only a shutdown cuts the tail off.
StreamExact ==
  session = "open" =>
    LET sent == got \o buffer \o hand
    IN  /\ \A i, j \in DOMAIN sent :
             i < j => sent[i] # Error /\ (sent[j] = Error \/ sent[i] < sent[j])
        /\ Range(sent) \subseteq Items
        /\ \A item \in Range(sent), o \in Due : item = Error \/ o < item => o \in Range(sent)
        /\ ~shutdown => Items \subseteq Range(sent)

\* recv ends with None only after it has returned the error, or on shutdown: a
\* stream that fails never looks like one that has ended (consumer.rs:133-138).
EndIsHonest == reply = "end" => shutdown \/ Error \in Range(got)

\* What recv documents (consumer.rs:144): when the pool is closed it returns None.
ClosedRecvIsNone == closed => reply # "closed"

\* A shutdown ends the task, also one blocked on a full channel whose receiver
\* takes nothing (lifecycle.rs:117): otherwise its guard would hold up close.
TaskEnds == shutdown ~> task \notin Alive

\* A recv that waits returns once the stream has failed or the pool is closed.
RecvReturns == recving /\ (failed \/ closed) ~> ~recving
=============================================================================
