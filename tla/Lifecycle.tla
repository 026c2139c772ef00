------------------------------ MODULE Lifecycle ------------------------------
(***************************************************************************)
(* The pool's shutdown protocol (lifecycle.rs), one action per atomic      *)
(* access to the shared state: `closed`, the counter of operations in      *)
(* flight, and the two watch channels.  A watch channel is modelled by its *)
(* value and, per receiver, whether the version it has seen is stale.      *)
(***************************************************************************)
EXTENDS Naturals, FiniteSets

CONSTANTS Ops,            \* tasks that run guarded operations, one at a time
          Closers         \* tasks that call close

ASSUME FiniteOps == IsFiniteSet(Ops)

VARIABLES closed,         \* LifecycleInner.closed
          active,         \* LifecycleInner.active
          shutdown,       \* the value of the shutdown channel
          unseen,         \* unseen[o]: o's shutdown receiver has a change to see
          notified,       \* notified[c]: c's activity receiver has a change to see
          op,             \* where each operation is
          closer,         \* where each call of close is, and its result
          drained         \* history: some close has returned Ok

shared == <<closed, active, shutdown>>
vars   == <<shared, unseen, notified, op, closer, drained>>

Counted  == {"counted", "rejected", "held", "subscribed", "awaiting", "ending"}
Guarded  == {"held", "subscribed", "awaiting", "ending"}
OpPc     == Counted \cup {"idle", "ensured", "notifying"}
Stored   == {"stored", "checking", "waiting", "ok", "timeout"}
Returned == {"idle", "ok", "timeout"}
CloserPc == Stored \cup {"idle", "subscribed"}

Registered == {o \in Ops : op[o] \in Counted}
Admitted   == {o \in Ops : op[o] \in Guarded}

Goto(o, from, to) == op[o] = from /\ op' = [op EXCEPT ![o] = to]
Step(c, from, to) == closer[c] = from /\ closer' = [closer EXCEPT ![c] = to]

(***************************************************************************)
(* Operations.  start_operation is EnsureOpen, Register, Recheck: a call   *)
(* that finds the pool closed in the first of them returns at once.        *)
(***************************************************************************)
EnsureOpen(o) ==
  /\ ~closed
  /\ Goto(o, "idle", "ensured")
  /\ UNCHANGED <<shared, unseen, notified, closer, drained>>

\* Mutated form of Register: the guard is built without the fetch_add.
RegisterUncounted(o) ==
  /\ Goto(o, "ensured", "counted")
  /\ UNCHANGED <<shared, unseen, notified, closer, drained>>

Register(o) ==
  /\ Goto(o, "ensured", "counted")
  /\ active' = active + 1
  /\ UNCHANGED <<closed, shutdown, unseen, notified, closer, drained>>

\* Mutated form of Recheck: the second look at `closed` is gone.
RecheckNever(o) ==
  /\ Goto(o, "counted", "held")
  /\ UNCHANGED <<shared, unseen, notified, closer, drained>>

Recheck(o) ==
  /\ Goto(o, "counted", IF closed THEN "rejected" ELSE "held")
  /\ UNCHANGED <<shared, unseen, notified, closer, drained>>

\* A fresh receiver has seen the channel's present value.
SubscribeShutdown(o) ==
  /\ Goto(o, "held", "subscribed")
  /\ unseen' = [unseen EXCEPT ![o] = FALSE]
  /\ UNCHANGED <<shared, notified, closer, drained>>

\* Mutated form of BorrowShutdown: wait for a change without first reading
\* the present value.
BorrowNever(o) ==
  /\ Goto(o, "subscribed", "awaiting")
  /\ UNCHANGED <<shared, unseen, notified, closer, drained>>

BorrowShutdown(o) ==
  /\ Goto(o, "subscribed", IF shutdown THEN "ending" ELSE "awaiting")
  /\ UNCHANGED <<shared, unseen, notified, closer, drained>>

ShutdownChanged(o) ==
  /\ unseen[o]
  /\ Goto(o, "awaiting", IF shutdown THEN "ending" ELSE "awaiting")
  /\ unseen' = [unseen EXCEPT ![o] = FALSE]
  /\ UNCHANGED <<shared, notified, closer, drained>>

\* The guarded work ends by itself (a result, an error, a timeout, the caller
\* drops the future), or fails before it has subscribed.
WorkDone(o) ==
  /\ op[o] \in {"held", "awaiting"}
  /\ op' = [op EXCEPT ![o] = "ending"]
  /\ UNCHANGED <<shared, unseen, notified, closer, drained>>

\* OperationGuard::drop, first statement.
ReleaseCount(o) ==
  /\ op[o] \in {"rejected", "ending"}
  /\ op' = [op EXCEPT ![o] = "notifying"]
  /\ active' = active - 1
  /\ UNCHANGED <<closed, shutdown, unseen, notified, closer, drained>>

\* Mutated form of NotifyActivity: one waiting close is woken, not all.
NotifyOne(o) ==
  /\ Goto(o, "notifying", "idle")
  /\ \E c \in Closers : notified' = [notified EXCEPT ![c] = TRUE]
  /\ UNCHANGED <<shared, unseen, closer, drained>>

\* OperationGuard::drop, second statement.
NotifyActivity(o) ==
  /\ Goto(o, "notifying", "idle")
  /\ notified' = [c \in Closers |-> TRUE]
  /\ UNCHANGED <<shared, unseen, closer, drained>>

(***************************************************************************)
(* close.  It may be called again once it has returned.                    *)
(***************************************************************************)
CloseSubscribe(c) ==
  /\ closer[c] \in Returned
  /\ closer' = [closer EXCEPT ![c] = "subscribed"]
  /\ notified' = [notified EXCEPT ![c] = FALSE]
  /\ UNCHANGED <<shared, unseen, op, drained>>

CloseStore(c) ==
  /\ Step(c, "subscribed", "stored")
  /\ closed' = TRUE
  /\ UNCHANGED <<active, shutdown, unseen, notified, op, drained>>

\* Mutated form of CloseBroadcast: the value is stored but no receiver is told.
BroadcastSilently(c) ==
  /\ Step(c, "stored", "checking")
  /\ shutdown' = TRUE
  /\ UNCHANGED <<closed, active, unseen, notified, op, drained>>

CloseBroadcast(c) ==
  /\ Step(c, "stored", "checking")
  /\ shutdown' = TRUE
  /\ unseen' = [o \in Ops |-> TRUE]
  /\ UNCHANGED <<closed, active, notified, op, drained>>

CloseCheck(c) ==
  /\ Step(c, "checking", IF active = 0 THEN "ok" ELSE "waiting")
  /\ drained' = (drained \/ active = 0)
  /\ UNCHANGED <<shared, unseen, notified, op>>

CloseWake(c) ==
  /\ notified[c]
  /\ Step(c, "waiting", "checking")
  /\ notified' = [notified EXCEPT ![c] = FALSE]
  /\ UNCHANGED <<shared, unseen, op, drained>>

\* The deadline passes, or the caller drops the future.
CloseTimeout(c) ==
  /\ Step(c, "waiting", "timeout")
  /\ UNCHANGED <<shared, unseen, notified, op, drained>>

-----------------------------------------------------------------------------
Init ==
  /\ closed = FALSE /\ active = 0 /\ shutdown = FALSE /\ drained = FALSE
  /\ unseen = [o \in Ops |-> FALSE]
  /\ notified = [c \in Closers |-> FALSE]
  /\ op = [o \in Ops |-> "idle"]
  /\ closer = [c \in Closers |-> "idle"]

\* The steps a task takes by itself once it is scheduled.
OpRuns(o) == \/ Register(o) \/ Recheck(o) \/ SubscribeShutdown(o)
             \/ BorrowShutdown(o) \/ ShutdownChanged(o)
             \/ ReleaseCount(o) \/ NotifyActivity(o)

CloserRuns(c) == CloseStore(c) \/ CloseBroadcast(c) \/ CloseCheck(c) \/ CloseWake(c)

Next == \/ \E o \in Ops : OpRuns(o) \/ EnsureOpen(o) \/ WorkDone(o)
        \/ \E c \in Closers : CloserRuns(c) \/ CloseSubscribe(c) \/ CloseTimeout(c)

Spec == Init /\ [][Next]_vars

\* The runtime polls every task that is ready.  It starts no operation, ends no
\* operation's work and lets no deadline pass.
FairSpec == /\ Spec
            /\ \A o \in Ops : WF_vars(OpRuns(o))
            /\ \A c \in Closers : WF_vars(CloserRuns(c))

-----------------------------------------------------------------------------
\* Every variable keeps its type; the counter is a usize that never wraps.
TypeOK ==
  /\ closed \in BOOLEAN /\ shutdown \in BOOLEAN /\ drained \in BOOLEAN
  /\ active \in Nat
  /\ unseen \in [Ops -> BOOLEAN]
  /\ notified \in [Closers -> BOOLEAN]
  /\ op \in [Ops -> OpPc]
  /\ closer \in [Closers -> CloserPc]

\* The counter is exactly the number of operations between their fetch_add and
\* their fetch_sub, the rejected ones included.
ActiveCounts == active = Cardinality(Registered)

\* Once a close has returned Ok no caller holds a guard, however the close
\* raced with start_operation (lifecycle.rs:58, "double check").
DrainedIsEmpty == drained => closed /\ Admitted = {}

\* A close that is parked with nothing to see still has somebody to wake it: an
\* operation that has yet to release its guard, or to announce the release.
NoLostWakeup ==
  \A c \in Closers : closer[c] = "waiting" /\ ~notified[c] =>
    \E o \in Ops : op[o] \in Counted \cup {"notifying"}

\* A guarded operation parked on the shutdown channel has not missed it.
NoLostShutdown ==
  \A o \in Ops : op[o] = "awaiting" /\ shutdown => unseen[o]

\* The protocol implements the gate: admission only while open, drained only
\* when empty.
Gate == INSTANCE PoolGate WITH open <- ~closed, inside <- Admitted
GateSpec == Gate!Spec

\* Every call of close returns even if its deadline never passes: operations in
\* flight are cancelled and the last of them wakes it (lifecycle.rs:76).
CloseReturns ==
  \A c \in Closers : closer[c] = "subscribed" ~> closer[c] \in {"ok", "timeout"}

\* The broadcast ends every guarded operation, also one that subscribes after
\* it (lifecycle.rs:105).
ShutdownCancels ==
  \A o \in Ops : shutdown /\ op[o] \in Guarded ~> op[o] \notin Guarded
=============================================================================
