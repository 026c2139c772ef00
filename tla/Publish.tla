------------------------------- MODULE Publish -------------------------------
(***************************************************************************)
(* KafkaProducer::publish (producer.rs) by concurrent publishers of one    *)
(* pool, one record each: the partition client is looked up under one      *)
(* guard, the record is produced under another, the result is counted and  *)
(* then the guard is released.  The pool's admission and close are those   *)
(* of PoolGate, which Lifecycle implements.  The broker, and the network   *)
(* before and after it, are external.                                      *)
(***************************************************************************)
EXTENDS Integers, Sequences, FiniteSets, KafkaErrors

CONSTANTS Publishers,     \* tasks that publish, each its own record
          MaxAttempts     \* bound: calls of publish for one record

ASSUME PublishAssumption ==
  IsFiniteSet(Publishers) /\ MaxAttempts \in Nat \ {0}

VARIABLES open, inside, drained,   \* the pool's gate
          shutdown,       \* the shutdown signal
          pc,             \* where each publisher is
          out,            \* the outcome of its present call
          attempt,        \* the number of its present call
          sent,           \* the requests <<publisher, attempt>> at the broker
          log,            \* the partition: who wrote each record
          place,          \* requests that were written, and where
          result,         \* the offset returned with Ok, or NoOffset
          count,          \* the four publish counters of PoolInner
          returned        \* history: how many calls have returned each outcome

gate   == <<open, inside, drained>>
remote == <<sent, log, place>>
stats  == <<count, returned>>
vars   == <<gate, shutdown, pc, out, attempt, remote, result, stats>>

NoOffset  == -1
Outcomes  == {"ok", "odd", "refused", "unsure", "timeout", "cancelled", "lookup", "config"}
Counters  == {"published", "failed", "timeouts", "cancelled"}

\* The errors of a produce: after the first the broker has not written the record
\* and will not, the others leave that open.
Rejections == {Server("MessageTooLarge"), Server("NotLeaderOrFollower")}
OpenErrors == {Driver("Connection"), Driver("InvalidResponse"),
               Server("NotEnoughReplicasAfterAppend")}

\* map_kafka_error: whether the caller may retry is all that is kept.
ErrorOutcome(e) == IF IsRetryable(ClassifyRskafka(e)) THEN "unsure" ELSE "refused"

\* Mutated form of Retryable: an acknowledgement without its offset counts as well.
RetryableOdd == {"unsure", "timeout", "lookup", "odd"}

\* is_retryable of the error that stands for each outcome: Timeout, Connection
\* and Transient are, Backend, Closed and Config are not.
Retryable == {"unsure", "timeout", "lookup"}

Request(p) == <<p, attempt[p]>>
Goto(p, from, to) == pc[p] = from /\ pc' = [pc EXCEPT ![p] = to]

Gate == INSTANCE PoolGate WITH Ops <- Publishers

\* The call ends in outcome o: what is counted for it comes next, if anything.
Conclude(p, o) ==
  /\ out' = [out EXCEPT ![p] = o]
  /\ pc' = [pc EXCEPT ![p] = IF o \in {"lookup", "config"} THEN "counted" ELSE "outcome"]

(***************************************************************************)
(* KafkaPool::close, as publishers see it.                                 *)
(***************************************************************************)
Close == Gate!Shut /\ UNCHANGED <<shutdown, pc, out, attempt, remote, result, stats>>

Broadcast ==
  /\ ~open /\ shutdown' = TRUE
  /\ UNCHANGED <<gate, pc, out, attempt, remote, result, stats>>

CloseReturns ==
  /\ shutdown /\ Gate!Drain
  /\ UNCHANGED <<shutdown, pc, out, attempt, remote, result, stats>>

(***************************************************************************)
(* publish up to the request.                                              *)
(***************************************************************************)
\* ensure_open and the validation of topic and partition.
Call(p) ==
  /\ pc[p] = "idle"
  /\ attempt' = [attempt EXCEPT ![p] = @ + 1]
  /\ \/ open /\ Goto(p, "idle", "lookup") /\ UNCHANGED out
     \/ open /\ Conclude(p, "config")
     \/ ~open /\ Conclude(p, "cancelled")
  /\ UNCHANGED <<gate, shutdown, remote, result, stats>>

\* partition_client takes its guard, or finds the pool closed.
LookupStart(p) ==
  /\ pc[p] = "lookup"
  /\ \/ Gate!Enter(p) /\ Goto(p, "lookup", "looking") /\ UNCHANGED out
     \/ ~open /\ Conclude(p, "cancelled") /\ UNCHANGED gate
  /\ UNCHANGED <<shutdown, attempt, remote, result, stats>>

\* partition_client returns, and its guard is dropped: shutdown comes first,
\* else there is a client, or a timeout or an error of the broker; a pool without
\* a client fails before it looks at the signal.
LookupEnd(p) ==
  /\ pc[p] = "looking"
  /\ Gate!Leave(p)
  /\ \/ shutdown /\ Conclude(p, "cancelled")
     \/ ~shutdown /\ Goto(p, "looking", "found") /\ UNCHANGED out
     \/ Conclude(p, "lookup")
  /\ UNCHANGED <<shutdown, attempt, remote, result, stats>>

\* Mutated form of Guard: the produce runs without a guard of its own.
NoGuard(p) ==
  /\ Goto(p, "found", "ready") /\ UNCHANGED <<gate, out>>
  /\ UNCHANGED <<shutdown, attempt, remote, result, stats>>

\* The second start_operation.
Guard(p) ==
  /\ pc[p] = "found"
  /\ \/ Gate!Enter(p) /\ Goto(p, "found", "ready") /\ UNCHANGED out
     \/ ~open /\ Conclude(p, "cancelled") /\ UNCHANGED gate
  /\ UNCHANGED <<shutdown, attempt, remote, result, stats>>

\* The first poll of limited_produce_await: the signal is looked at before the
\* request leaves.
Produce(p) ==
  /\ pc[p] = "ready"
  /\ \/ shutdown /\ Conclude(p, "cancelled") /\ UNCHANGED sent
     \/ /\ ~shutdown /\ Goto(p, "ready", "awaiting") /\ UNCHANGED out
        /\ sent' = sent \cup {Request(p)}
  /\ UNCHANGED <<gate, shutdown, attempt, log, place, result, stats>>

(***************************************************************************)
(* The broker writes a request it has, whether anyone still waits or not,  *)
(* or it never does.                                                       *)
(***************************************************************************)
BrokerWrites(r) ==
  /\ r \in sent
  /\ place' = [q \in DOMAIN place \cup {r} |-> IF q = r THEN Len(log) ELSE place[q]]
  /\ log' = Append(log, r[1])
  /\ sent' = sent \ {r}
  /\ UNCHANGED <<gate, shutdown, pc, out, attempt, result, stats>>

RequestLost(r) ==
  /\ r \in sent
  /\ sent' = sent \ {r}
  /\ UNCHANGED <<gate, shutdown, pc, out, attempt, log, place, result, stats>>

(***************************************************************************)
(* limited_produce_await: shutdown before the answer before the deadline.  *)
(***************************************************************************)
\* Mutated form of Acked: any acknowledgement is a delivery, at offset 0 when
\* the broker has returned none.
AckedAsZero(p) ==
  /\ pc[p] = "awaiting" /\ ~shutdown /\ Request(p) \in DOMAIN place
  /\ Conclude(p, "ok")
  /\ result' = [result EXCEPT ![p] = 0]
  /\ UNCHANGED <<gate, shutdown, attempt, remote, stats>>

\* Mutated form of Acked: the next offset is returned, not that of the record.
AckedNext(p) ==
  /\ pc[p] = "awaiting" /\ ~shutdown /\ Request(p) \in DOMAIN place
  /\ Conclude(p, "ok")
  /\ result' = [result EXCEPT ![p] = place[Request(p)] + 1]
  /\ UNCHANGED <<gate, shutdown, attempt, remote, stats>>

\* The broker acknowledges: with exactly one offset, or with none or several.
Acked(p) ==
  /\ pc[p] = "awaiting" /\ ~shutdown /\ Request(p) \in DOMAIN place
  /\ \/ Conclude(p, "ok") /\ result' = [result EXCEPT ![p] = place[Request(p)]]
     \/ Conclude(p, "odd") /\ UNCHANGED result
  /\ UNCHANGED <<gate, shutdown, attempt, remote, stats>>

Failed(p) ==
  /\ pc[p] = "awaiting" /\ ~shutdown
  /\ \/ /\ Request(p) \in sent /\ \E e \in Rejections : Conclude(p, ErrorOutcome(e))
        /\ sent' = sent \ {Request(p)}
     \/ (\E e \in OpenErrors : Conclude(p, ErrorOutcome(e))) /\ UNCHANGED sent
  /\ UNCHANGED <<gate, shutdown, attempt, log, place, result, stats>>

\* Mutated form of TimedOut: the deadline is looked at after the answer only.
TimedOutOnAnswer(p) ==
  /\ pc[p] = "awaiting" /\ ~shutdown /\ Request(p) \in DOMAIN place
  /\ Conclude(p, "timeout")
  /\ UNCHANGED <<gate, shutdown, attempt, remote, result, stats>>

TimedOut(p) ==
  /\ pc[p] = "awaiting" /\ ~shutdown
  /\ Conclude(p, "timeout")
  /\ UNCHANGED <<gate, shutdown, attempt, remote, result, stats>>

Cancelled(p) ==
  /\ pc[p] = "awaiting" /\ shutdown
  /\ Conclude(p, "cancelled")
  /\ UNCHANGED <<gate, shutdown, attempt, remote, result, stats>>

(***************************************************************************)
(* record_publish_*: a timeout and a cancellation bump their own counter   *)
(* first and publish_failed after it.                                      *)
(***************************************************************************)
Bump(counter) == count' = [count EXCEPT ![counter] = @ + 1]

FirstCounter(o) == CASE o = "ok"        -> "published"
                     [] o = "timeout"   -> "timeouts"
                     [] o = "cancelled" -> "cancelled"
                     [] OTHER           -> "failed"

RecordFirst(p) ==
  /\ Goto(p, "outcome", IF out[p] \in {"timeout", "cancelled"} THEN "recording" ELSE "counted")
  /\ Bump(FirstCounter(out[p]))
  /\ UNCHANGED <<gate, shutdown, out, attempt, remote, result, returned>>

\* Mutated form of RecordSecond: the failure itself is not counted.
RecordNoFailure(p) ==
  /\ Goto(p, "recording", "counted")
  /\ UNCHANGED <<gate, shutdown, out, attempt, remote, result, stats>>

RecordSecond(p) ==
  /\ Goto(p, "recording", "counted")
  /\ Bump("failed")
  /\ UNCHANGED <<gate, shutdown, out, attempt, remote, result, returned>>

\* publish returns: its guard, if any, is dropped.  The caller may publish the
\* record again when the error is retryable.
Return(p) ==
  /\ pc[p] = "counted"
  /\ Gate!Leave(p)
  /\ returned' = [returned EXCEPT ![out[p]] = @ + 1]
  /\ \/ Goto(p, "counted", "done")
     \/ /\ out[p] \in Retryable /\ attempt[p] < MaxAttempts
        /\ Goto(p, "counted", "idle")
  /\ UNCHANGED <<shutdown, out, attempt, remote, result, count>>

-----------------------------------------------------------------------------
Init ==
  /\ Gate!Init /\ shutdown = FALSE
  /\ pc = [p \in Publishers |-> "idle"]
  /\ out = [p \in Publishers |-> "config"]
  /\ attempt = [p \in Publishers |-> 0]
  /\ sent = {} /\ log = <<>> /\ place = <<>>
  /\ result = [p \in Publishers |-> NoOffset]
  /\ count = [c \in Counters |-> 0]
  /\ returned = [o \in Outcomes |-> 0]

\* The answers of the broker, and the steps a publisher takes without one.
Answered(p) == Acked(p) \/ Failed(p)

Runs(p) == \/ LookupStart(p) \/ LookupEnd(p) \/ Guard(p) \/ Produce(p)
           \/ TimedOut(p) \/ Cancelled(p)
           \/ RecordFirst(p) \/ RecordSecond(p) \/ Return(p)

Next ==
  \/ \E p \in Publishers : Call(p) \/ Answered(p) \/ Runs(p)
  \/ \E r \in sent : BrokerWrites(r) \/ RequestLost(r)
  \/ Close \/ Broadcast \/ CloseReturns

Spec == Init /\ [][Next]_vars

\* Publishers run, and the timeouts of their two waits pass.  The broker need
\* not answer, and nobody need call publish or close.
FairSpec == Spec /\ \A p \in Publishers : WF_vars(Runs(p))

-----------------------------------------------------------------------------
At(state, o) == {p \in Publishers : pc[p] = state /\ out[p] = o}

\* The calls whose outcome o is counted in full, and those that have begun to count it.
Done(o)    == returned[o] + Cardinality(At("counted", o))
Started(o) == Done(o) + Cardinality(At("recording", o))

\* Every variable keeps its type.
TypeOK ==
  /\ open \in BOOLEAN /\ drained \in BOOLEAN /\ shutdown \in BOOLEAN
  /\ inside \subseteq Publishers
  /\ pc \in [Publishers -> {"idle", "lookup", "looking", "found", "ready", "awaiting",
                            "outcome", "recording", "counted", "done"}]
  /\ out \in [Publishers -> Outcomes]
  /\ attempt \in [Publishers -> 0..MaxAttempts]
  /\ sent \subseteq Publishers \X (1..MaxAttempts)
  /\ log \in Seq(Publishers)
  /\ DOMAIN place \subseteq Publishers \X (1..MaxAttempts)
  /\ result \in [Publishers -> NoOffset..Len(log) - 1]
  /\ count \in [Counters -> Nat] /\ returned \in [Outcomes -> Nat]

\* Ok means written: the offset returned is where the broker has this record
\* (producer.rs:72-77, CONTEXT.md "Delivery").
OkIsWritten ==
  \A p \in Publishers : result[p] # NoOffset => log[result[p] + 1] = p

\* The counters tell exactly what the calls have returned: each success once;
\* each failure once, except those of the lookup and of the validation; each
\* timeout and cancellation also on its own (connection/runtime.rs:43-63).
CountsExact ==
  /\ count["published"] = Done("ok")
  /\ count["failed"]    = Done("odd") + Done("refused") + Done("unsure")
                            + Done("timeout") + Done("cancelled")
  /\ count["timeouts"]  = Started("timeout")
  /\ count["cancelled"] = Started("cancelled")

\* Once close has returned Ok nothing is delivered and nothing is sent any more,
\* and the number of successes is final: a guard outlives the counting.  (The
\* broker may still write what was cancelled.)
QuietAfterDrain ==
  [][drained => /\ count'["published"] = count["published"]
                /\ sent' \subseteq sent /\ result' = result]_vars

\* Each further copy of a record in the log is paid for by a call that returned a
\* timeout or an error that leaves the write open: an acknowledgement without its
\* offset is not retryable and leads to none (producer.rs:256-259).
CopiesExplained ==
  Len(log) <= Cardinality(Publishers) + returned["unsure"] + returned["timeout"]

\* Every call returns, also when the pool is closed under it (producer.rs:103).
PublishReturns == \A p \in Publishers : pc[p] # "idle" ~> pc[p] \in {"idle", "done"}

(***************************************************************************)
(* What the documentation says and the code does not do.                   *)
(***************************************************************************)
\* "Retryable" is documented as safe to apply again (CONTEXT.md, error.rs:40),
\* and producer.rs:258 counts a duplicate write as unsafe: then a record that is
\* only ever retried after a retryable error would be in the log at most once.
RetryIsSafe == \A p \in Publishers : Cardinality({i \in DOMAIN log : log[i] = p}) <= 1

\* publish_failed is documented to count broker errors, timeouts and
\* cancellations of publish (connection.rs:25): at rest, all that was not Ok.
EveryFailureCounted ==
  (\A p \in Publishers : pc[p] \in {"idle", "done"}) =>
    count["failed"] >= returned["odd"] + returned["refused"] + returned["unsure"]
                         + returned["timeout"] + returned["cancelled"] + returned["lookup"]
=============================================================================
