------------------------------ MODULE TopicAdmin ------------------------------
(***************************************************************************)
(* ensure_topic, delete_topic (connection/topic.rs) and health_check       *)
(* (connection/observe.rs) by concurrent callers of one pool, about one    *)
(* topic.  Admission and close are those of PoolGate.  The broker, and the *)
(* retries that rskafka makes inside one call, are external.               *)
(***************************************************************************)
EXTENDS Naturals, FiniteSets

CONSTANTS Callers,        \* tasks that call the three operations
          MaxCalls,       \* bound: calls of any two callers together
          Refusals        \* the texts of the broker's other errors

ASSUME AdminAssumption == IsFiniteSet(Callers) /\ MaxCalls \in Nat

VARIABLES open, inside, drained,   \* the pool's gate
          shutdown,       \* the shutdown signal
          pc, kind, out,  \* where each caller is, what it calls, how that ended
          calls,          \* how many calls it has begun
          exists,         \* the broker has the topic
          sent,           \* requests on their way: <<caller, call, kind>>
          answer,         \* the broker's answer to each caller's present call
          count,          \* topics_ensured and topics_deleted of PoolInner
          returned,       \* history: calls that have returned Ok, per kind
          saw             \* history: the topic was as wanted during the call

gate == <<open, inside, drained>>
task == <<pc, kind, out, calls>>
net  == <<exists, sent, answer, saw>>
vars == <<gate, shutdown, task, net, count, returned>>

Kinds    == {"ensure", "delete", "health"}
Outcomes == {"ok", "failed", "timeout", "closed"}
NoAnswer == [text |-> {}, ok |-> FALSE, here |-> FALSE]
Done     == [text |-> {}, ok |-> TRUE, here |-> TRUE]
Error(t) == [text |-> t, ok |-> FALSE, here |-> TRUE]

Gate == INSTANCE PoolGate WITH Ops <- Callers

(***************************************************************************)
(* A text is the set of the phrases in it that the code looks for.         *)
(***************************************************************************)
AlreadyThere == {"already", "exist"}
NotThere     == {"unknowntopic"}

\* Mutated form of IsTopicAlreadyExists: any refusal will do.
AnyError(text) == TRUE

IsTopicAlreadyExists(text) == text \cap {"exist", "already"} # {}
IsTopicMissing(text) ==
  text \cap {"unknown_topic", "unknown topic", "does not exist", "not_exist", "unknowntopic"} # {}

\* The answer counts as success: it is one, or says that nothing is to be done.
Succeeds(k, a) == \/ a.ok
                  \/ k = "ensure" /\ IsTopicAlreadyExists(a.text)
                  \/ k = "delete" /\ IsTopicMissing(a.text)

Wanted(k, there) == (k = "ensure" /\ there) \/ (k = "delete" /\ ~there)
Request(p) == <<p, calls[p], kind[p]>>

Conclude(p, o) == /\ out' = [out EXCEPT ![p] = o]
                  /\ pc' = [pc EXCEPT ![p] = "ended"]
                  /\ UNCHANGED <<kind, calls>>

(***************************************************************************)
(* KafkaPool::close, as the callers see it.                                *)
(***************************************************************************)
Close == Gate!Shut /\ UNCHANGED <<shutdown, task, net, count, returned>>

Broadcast ==
  /\ ~open /\ shutdown' = TRUE
  /\ UNCHANGED <<gate, task, net, count, returned>>

CloseReturns ==
  /\ shutdown /\ Gate!Drain
  /\ UNCHANGED <<shutdown, task, net, count, returned>>

(***************************************************************************)
(* The calls.  One with an illegal request returns before it does anything *)
(* and is left out.                                                        *)
(***************************************************************************)
\* The bound on the calls, not the code's.
MayCall(p) == \A q \in Callers : calls[p] + (IF q = p THEN 0 ELSE calls[q]) < MaxCalls

\* Mutated form of Call: `let _ = start_operation()?` drops the guard at once.
CallUnguarded(p, k) ==
  /\ pc[p] = "idle" /\ MayCall(p)
  /\ calls' = [calls EXCEPT ![p] = @ + 1]
  /\ kind' = [kind EXCEPT ![p] = k]
  /\ saw' = [saw EXCEPT ![p] = Wanted(k, exists)]
  /\ open /\ pc' = [pc EXCEPT ![p] = "started"]
  /\ UNCHANGED <<gate, out, shutdown, exists, sent, answer, count, returned>>

\* start_operation.
Call(p, k) ==
  /\ pc[p] = "idle" /\ MayCall(p)
  /\ calls' = [calls EXCEPT ![p] = @ + 1]
  /\ kind' = [kind EXCEPT ![p] = k]
  /\ saw' = [saw EXCEPT ![p] = Wanted(k, exists)]
  /\ \/ /\ Gate!Enter(p)
        /\ pc' = [pc EXCEPT ![p] = "started"] /\ UNCHANGED out
     \/ /\ ~open /\ UNCHANGED gate
        /\ pc' = [pc EXCEPT ![p] = "ended"] /\ out' = [out EXCEPT ![p] = "closed"]
  /\ UNCHANGED <<shutdown, exists, sent, answer, count, returned>>

\* The pool may have no client; else the select is polled, shutdown first.
Begin(p) ==
  /\ pc[p] = "started"
  /\ \/ Conclude(p, "failed")
     \/ shutdown /\ Conclude(p, "closed")
     \/ ~shutdown /\ pc' = [pc EXCEPT ![p] = "awaiting"] /\ UNCHANGED <<out, kind, calls>>
  /\ UNCHANGED <<gate, shutdown, net, count, returned>>

\* rskafka sends the request, and sends it again when an answer is lost.
Transmit(p) ==
  /\ pc[p] = "awaiting" /\ ~shutdown
  /\ sent' = sent \cup {Request(p)}
  /\ UNCHANGED <<gate, shutdown, task, exists, answer, saw, count, returned>>

(***************************************************************************)
(* The broker handles a request whether anyone still waits or not, or the  *)
(* request is lost, or its answer is.                                      *)
(***************************************************************************)
Handle(r, there, a) ==
  /\ r \in sent /\ sent' = sent \ {r}
  /\ exists' = there
  /\ saw' = [p \in Callers |-> saw[p] \/ (pc[p] # "idle" /\ Wanted(kind[p], there))]
  /\ \/ /\ Request(r[1]) = r /\ pc[r[1]] = "awaiting"
        /\ answer' = [answer EXCEPT ![r[1]] = a]
     \/ UNCHANGED answer
  /\ UNCHANGED <<gate, shutdown, task, count, returned>>

Creates(r)  == r[3] = "ensure" /\ Handle(r, TRUE, IF exists THEN Error(AlreadyThere) ELSE Done)
Deletes(r)  == r[3] = "delete" /\ Handle(r, FALSE, IF exists THEN Done ELSE Error(NotThere))
Lists(r)    == r[3] = "health" /\ Handle(r, exists, Done)
Refuses(r)  == \E text \in Refusals : Handle(r, exists, Error(text))

(***************************************************************************)
(* The outcome, the counter, the return.                                   *)
(***************************************************************************)
Counter(k) == IF k = "ensure" THEN "ensured" ELSE "deleted"

ToCounting(p) == pc' = [pc EXCEPT ![p] = "counting"] /\ UNCHANGED <<kind, out, calls>>

\* Mutated form of Answered: an answer that says that nothing was to be done is
\* a success that is not counted.
AnsweredOnce(p) ==
  /\ pc[p] = "awaiting" /\ ~shutdown /\ answer[p].here
  /\ \/ ~Succeeds(kind[p], answer[p]) /\ Conclude(p, "failed")
     \/ answer[p].ok /\ kind[p] # "health" /\ ToCounting(p)
     \/ Succeeds(kind[p], answer[p]) /\ (~answer[p].ok \/ kind[p] = "health") /\ Conclude(p, "ok")
  /\ UNCHANGED <<gate, shutdown, net, count, returned>>

\* The answer arrives; health_check has nothing to count.
Answered(p) ==
  /\ pc[p] = "awaiting" /\ ~shutdown /\ answer[p].here
  /\ \/ ~Succeeds(kind[p], answer[p]) /\ Conclude(p, "failed")
     \/ Succeeds(kind[p], answer[p]) /\ kind[p] # "health" /\ ToCounting(p)
     \/ Succeeds(kind[p], answer[p]) /\ kind[p] = "health" /\ Conclude(p, "ok")
  /\ UNCHANGED <<gate, shutdown, net, count, returned>>

\* record_topic_ensured, record_topic_deleted.  Other threads run meanwhile: a close
\* may begin between the answer and the count.
Record(p) ==
  /\ pc[p] = "counting"
  /\ count' = [count EXCEPT ![Counter(kind[p])] = @ + 1]
  /\ Conclude(p, "ok")
  /\ UNCHANGED <<gate, shutdown, net, returned>>

\* rskafka gives up without an answer of the broker.
Failed(p) ==
  /\ pc[p] = "awaiting" /\ ~shutdown
  /\ Conclude(p, "failed")
  /\ UNCHANGED <<gate, shutdown, net, count, returned>>

TimedOut(p) ==
  /\ pc[p] = "awaiting" /\ ~shutdown
  /\ Conclude(p, "timeout")
  /\ UNCHANGED <<gate, shutdown, net, count, returned>>

\* Mutated form of Cancelled: it hangs up only on a request that was sent.
CancelledSent(p) ==
  /\ pc[p] = "awaiting" /\ shutdown /\ Request(p) \in sent
  /\ Conclude(p, "closed")
  /\ UNCHANGED <<gate, shutdown, net, count, returned>>

Cancelled(p) ==
  /\ pc[p] = "awaiting" /\ shutdown
  /\ Conclude(p, "closed")
  /\ UNCHANGED <<gate, shutdown, net, count, returned>>

\* The guard is dropped, and with it all that the call knew.
Return(p) ==
  /\ pc[p] = "ended"
  /\ Gate!Leave(p)
  /\ pc' = [pc EXCEPT ![p] = "idle"]
  /\ returned' = [k \in Kinds |-> returned[k] + IF k = kind[p] /\ out[p] = "ok" THEN 1 ELSE 0]
  /\ kind' = [kind EXCEPT ![p] = "health"] /\ out' = [out EXCEPT ![p] = "failed"]
  /\ answer' = [answer EXCEPT ![p] = NoAnswer] /\ saw' = [saw EXCEPT ![p] = FALSE]
  /\ UNCHANGED <<shutdown, calls, exists, sent, count>>

-----------------------------------------------------------------------------
Init ==
  /\ Gate!Init /\ shutdown = FALSE
  /\ pc = [p \in Callers |-> "idle"]
  /\ kind = [p \in Callers |-> "health"]
  /\ out = [p \in Callers |-> "failed"]
  /\ calls = [p \in Callers |-> 0]
  /\ exists \in BOOLEAN
  /\ sent = {} /\ answer = [p \in Callers |-> NoAnswer]
  /\ saw = [p \in Callers |-> FALSE]
  /\ count = [c \in {"ensured", "deleted"} |-> 0]
  /\ returned = [k \in Kinds |-> 0]

Runs(p) == Begin(p) \/ Record(p) \/ TimedOut(p) \/ Cancelled(p) \/ Return(p)

Next ==
  \/ \E p \in Callers : \/ \E k \in Kinds : Call(p, k)
                        \/ Runs(p) \/ Transmit(p) \/ Answered(p) \/ Failed(p)
  \/ \E r \in sent : Creates(r) \/ Deletes(r) \/ Lists(r) \/ Refuses(r)
  \/ Close \/ Broadcast \/ CloseReturns

Spec == Init /\ [][Next]_vars

\* Callers run and the timeout of their wait passes; the broker need not answer.
FairSpec == Spec /\ \A p \in Callers : WF_vars(Runs(p))

-----------------------------------------------------------------------------
\* Every variable keeps its type, and who works on a call holds a guard (topic.rs:22).
TypeOK ==
  /\ open \in BOOLEAN /\ drained \in BOOLEAN /\ shutdown \in BOOLEAN /\ exists \in BOOLEAN
  /\ inside \subseteq Callers /\ \A p \in Callers : pc[p] \in {"started", "awaiting", "counting"} => p \in inside
  /\ pc \in [Callers -> {"idle", "started", "awaiting", "counting", "ended"}]
  /\ kind \in [Callers -> Kinds] /\ out \in [Callers -> Outcomes]
  /\ calls \in [Callers -> 0..MaxCalls]
  /\ sent \subseteq Callers \X (1..MaxCalls) \X Kinds
  /\ saw \in [Callers -> BOOLEAN]
  /\ count \in [{"ensured", "deleted"} -> Nat]
  /\ returned \in [Kinds -> Nat]

\* An Ok of ensure_topic means that the topic was there at some moment of the
\* call, an Ok of delete_topic that it was gone, also when others create and
\* delete it, and when the request was handled twice (topic.rs:45, 87).
OkIsTrue ==
  \A p \in Callers : pc[p] = "ended" /\ out[p] = "ok" /\ kind[p] # "health" => saw[p]

\* The two counters are the numbers of calls that have ended in Ok, the idempotent
\* ones included (connection.rs:31-34): each once, and no failed call.
CountsExact ==
  \A k \in {"ensure", "delete"} :
    count[Counter(k)] =
      returned[k] + Cardinality({p \in Callers : pc[p] = "ended" /\ kind[p] = k /\ out[p] = "ok"})

\* Once close has returned Ok no request is sent and no call succeeds any more;
\* the broker may still handle what was sent.
QuietAfterDrain ==
  [][drained => sent' \subseteq sent /\ count' = count]_vars

\* Every call returns, whether the broker answers or not.
CallReturns == \A p \in Callers : pc[p] # "idle" ~> pc[p] = "idle"
=============================================================================
