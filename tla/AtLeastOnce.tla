----------------------------- MODULE AtLeastOnce -----------------------------
(***************************************************************************)
(* AtLeastOnceConsumer (at_least_once.rs): an application that receives,   *)
(* acknowledges, gives up and reconnects, over a KafkaConsumer and an      *)
(* offset store of which only the promise is known, or one in memory.  One *)
(* partition, one owner, as at_least_once.rs:28 asks; processes and        *)
(* machines crash.                                                         *)
(***************************************************************************)
EXTENDS Consumer

CONSTANTS Starts,         \* the configured starts that are tried
          Partition       \* the (topic, partition) of this consumer

ASSUME StartsAssumption == Starts \subseteq Positions

VARIABLES config,         \* the start the application configures, fixed
          inMemory,       \* the store is a MemoryOffsetStore, fixed
          visible, survives, acked, \* the offset store
          resume,         \* what connect has read from the store, or NotRead
          pending,        \* the message delivered and not yet acknowledged
          terminated,     \* drop_pending_unacked was called
          commit,         \* ack: "none", or how far its commit has come
          late,           \* commits whose caller is gone and that may yet happen
          delivered,      \* history: the offsets handed to the application
          processed       \* history: the offsets the application has called ack on

store    == <<visible, survives, acked>>
setup    == <<config, inMemory>>
owner    == <<resume, pending, terminated, commit>>
history  == <<delivered, processed>>
vars     == <<consumerVars, setup, store, owner, late, history>>

NotRead   == -2
NoMessage == -1

Store == INSTANCE MonotoneOffsets WITH Keys <- {Partition}, MaxNext <- MaxEnd
committed == visible[Partition]

(***************************************************************************)
(* connect: first read the store, then open the consumer.                  *)
(***************************************************************************)
ReadCommitted ==
  /\ session = "none" /\ resume = NotRead
  /\ resume' = committed
  /\ UNCHANGED <<consumerVars, setup, store, pending, terminated, commit, late, history>>

\* Mutated form of StartAt: the stored offset is taken for the last one processed.
StartAfter(next) == IF next # None THEN next + 1 ELSE config

\* Mutated form of StartAt: the stored offset is ignored.
StartConfigured(next) == config

\* A stored offset takes precedence over the configured start.
StartAt(next) == IF next # None THEN next ELSE config

OpenConsumer ==
  /\ resume # NotRead
  /\ Connect(StartAt(resume))
  /\ UNCHANGED <<setup, store, owner, late, history>>

\* The consumer cannot be opened: the pool is closed, or the broker away.
OpenFails ==
  /\ session = "none" /\ resume # NotRead /\ Fault
  /\ resume' = NotRead
  /\ UNCHANGED <<broker, pool, fetcher, buffer, caller, setup, store, pending,
                 terminated, commit, late, history>>

(***************************************************************************)
(* recv.  A pending message is returned again and changes nothing.         *)
(***************************************************************************)
\* Mutated form of Recv: a pending message does not stop the next one.
RecvAhead ==
  /\ ~terminated /\ commit = "none"
  /\ RecvStart
  /\ UNCHANGED <<setup, store, owner, late, history>>

Recv ==
  /\ ~terminated /\ pending = NoMessage /\ commit = "none"
  /\ RecvStart
  /\ UNCHANGED <<setup, store, owner, late, history>>

Deliver ==
  /\ RecvItem
  /\ IF Head(buffer) = Error
       THEN UNCHANGED <<pending, delivered>>
       ELSE pending' = Head(buffer) /\ delivered' = delivered \cup {Head(buffer)}
  /\ UNCHANGED <<setup, store, resume, terminated, commit, late, processed>>

RecvNothing ==
  /\ RecvEnd \/ RecvTimeout \/ RecvDropped
  /\ UNCHANGED <<setup, store, owner, late, history>>

(***************************************************************************)
(* ack: commit the pending offset + 1, and forget it if that succeeds.     *)
(***************************************************************************)
Ack ==
  /\ ~terminated /\ pending # NoMessage /\ commit = "none" /\ ~recving
  /\ commit' = "started"
  /\ processed' = processed \cup {pending}
  /\ UNCHANGED <<consumerVars, setup, store, resume, pending, terminated, late, delivered>>

CommitTakesEffect ==
  /\ commit = "started"
  /\ Store!Advance(Partition, pending + 1)
  /\ commit' = "applied"
  /\ UNCHANGED <<consumerVars, setup, resume, pending, terminated, late, history>>

AckOk ==
  /\ commit = "applied"
  /\ Store!Acknowledge(Partition, pending + 1)
  /\ commit' = "none" /\ pending' = NoMessage
  /\ UNCHANGED <<consumerVars, setup, resume, terminated, late, history>>

\* Mutated form of AckFails: the message is forgotten although the commit failed.
AckFailsForgets ==
  /\ commit # "none" /\ Fault
  /\ commit' = "none" /\ pending' = NoMessage
  /\ UNCHANGED <<broker, pool, fetcher, buffer, caller, setup, store, resume,
                 terminated, late, history>>

\* The commit fails, before or after it took effect; the message stays pending.
\* A store in memory has nothing that fails.
AckFails ==
  /\ commit # "none" /\ Fault /\ ~inMemory
  /\ commit' = "none"
  /\ UNCHANGED <<broker, pool, fetcher, buffer, caller, setup, store, resume,
                 pending, terminated, late, history>>

\* The future of ack is dropped while the store works on: the commit may happen
\* at any later time, or never.  In memory it waits for the lock and is gone.
AckDropped ==
  /\ commit = "started" /\ Fault
  /\ commit' = "none"
  /\ late' = (IF inMemory THEN late ELSE late \cup {pending + 1})
  /\ UNCHANGED <<broker, pool, fetcher, buffer, caller, setup, store, resume,
                 pending, terminated, history>>

LateCommit ==
  /\ \E n \in late : Store!Advance(Partition, n) /\ late' = late \ {n}
  /\ UNCHANGED <<consumerVars, setup, owner, history>>

(***************************************************************************)
(* Giving up.  nack_keep_pending changes nothing.                          *)
(***************************************************************************)
\* Mutated form of DropPendingUnacked: the session goes on.
DropPendingGoesOn ==
  /\ session = "open" /\ ~recving /\ commit = "none" /\ ~terminated /\ Fault
  /\ pending' = NoMessage /\ UNCHANGED terminated
  /\ UNCHANGED <<broker, pool, fetcher, buffer, caller, setup, store, resume, commit, late, history>>

DropPendingUnacked ==
  /\ session = "open" /\ ~recving /\ commit = "none" /\ ~terminated /\ Fault
  /\ pending' = NoMessage /\ terminated' = TRUE
  /\ UNCHANGED <<broker, pool, fetcher, buffer, caller, setup, store, resume, commit, late, history>>

NoOwner == resume' = NotRead /\ pending' = NoMessage /\ terminated' = FALSE /\ commit' = "none"

DropConsumer ==
  /\ commit = "none"
  /\ Drop /\ NoOwner
  /\ UNCHANGED <<setup, store, late, history>>

\* The application gives the session up, whatever its state.
GiveUp == Fault /\ DropConsumer

\* The application gives up a session that returns nothing more.
Reconnect ==
  /\ terminated \/ reply \in {"error", "end", "closed"}
  /\ DropConsumer
  /\ UNCHANGED faults

(***************************************************************************)
(* The environment: a pool that closes, processes and machines that stop.  *)
(***************************************************************************)
Environment ==
  /\ AppendRecord \/ Retain \/ Close \/ Broadcast \/ TaskStep
  /\ UNCHANGED <<setup, store, owner, late, history>>

\* The application builds a new pool, in place of one that is closed.
NewPool ==
  /\ closed /\ session = "none"
  /\ closed' = FALSE /\ shutdown' = FALSE
  /\ UNCHANGED <<broker, fetcher, buffer, caller, faults, setup, store, owner, late, history>>

\* The process dies with all it holds; a store in files and the broker do not.
ProcessDies ==
  /\ Fault /\ NoSession /\ NoOwner
  /\ closed' = FALSE /\ shutdown' = FALSE
  /\ late' = {}
  /\ UNCHANGED <<broker, setup, history>>

Crash == ProcessDies /\ (IF inMemory THEN Store!Forget ELSE UNCHANGED store \/ Store!Lose)

-----------------------------------------------------------------------------
Init ==
  /\ InitConsumer
  /\ config \in Starts /\ inMemory \in BOOLEAN
  /\ Store!Init
  /\ resume = NotRead /\ pending = NoMessage /\ terminated = FALSE
  /\ commit = "none" /\ late = {}
  /\ delivered = {} /\ processed = {}

Application == ReadCommitted \/ OpenConsumer \/ Recv \/ Ack \/ NewPool

Next ==
  \/ Application \/ Reconnect \/ Deliver \/ RecvNothing
  \/ CommitTakesEffect \/ AckOk \/ AckFails \/ AckDropped \/ LateCommit
  \/ DropPendingUnacked \/ GiveUp \/ OpenFails
  \/ Environment \/ Crash

Spec == Init /\ [][Next]_vars

\* The runtime polls what is ready and the store answers.  The application goes
\* on: it receives and acknowledges, and leaves a session that is over.  What it
\* or the environment does against that is bounded by MaxFaults.
FairSpec ==
  /\ Spec
  /\ WF_vars(Environment /\ (TaskStep \/ Broadcast))
  /\ WF_vars(Deliver) /\ WF_vars(RecvEnd /\ RecvNothing)
  /\ WF_vars(CommitTakesEffect) /\ WF_vars(AckOk)
  /\ WF_vars(Application) /\ SF_vars(Reconnect)

-----------------------------------------------------------------------------
\* Every variable keeps its type.
TypeOK ==
  /\ ConsumerTypeOK
  /\ config \in Starts /\ inMemory \in BOOLEAN
  /\ visible \in survives /\ survives \cup {acked} \subseteq [{Partition} -> None..MaxEnd]
  /\ resume \in NotRead..MaxEnd
  /\ pending \in NoMessage..MaxEnd - 1
  /\ terminated \in BOOLEAN
  /\ commit \in {"none", "started", "applied"}
  /\ late \subseteq 1..MaxEnd
  /\ delivered \subseteq log /\ processed \subseteq delivered

\* Where the application has asked to begin.
Base == IF config >= 0 THEN config ELSE 0

\* The committed offset never passes a record the application has not called ack
\* on: whatever fails, crashes or is dropped half way, nothing is skipped
\* (at_least_once.rs:5-7, 160, 194).  Retention may have removed it.
NothingSkipped ==
  \A o \in log : Base <= o /\ low <= o /\ o < committed => o \in processed

\* The present session, or the one being opened, is still to return o.
ToCome(o) ==
  \/ session = "none" /\ (resume # NotRead => StartAt(resume) <= o)
  \/ session = "open" /\ (o = pending \/ o \in Range(buffer \o hand) \/ o >= cursor)

\* A message that was delivered and is not committed is delivered again
\* (at_least_once.rs:8, docs/API.md:65): the session is still to return it, or
\* it is over (shut down, terminated) and the next one will.
UncommittedRedelivered ==
  \A o \in delivered : \/ o < committed \/ o < low \/ ToCome(o)
                        \/ terminated \/ shutdown

\* Once ack has returned Ok the message is never delivered again, by this
\* session or any later one, after any crash that leaves the store.
AckIsFinal ==
  [][pending' # pending /\ pending' # NoMessage => pending' >= acked[Partition]]_vars

\* Every record is eventually processed, unless retention removes it or removes
\* the position at which the next session would start: then every session gets
\* OffsetOutOfRange.
EveryRecordProcessed ==
  \A o \in 0..MaxEnd - 1 : o \in log /\ o >= Base ~>
    o \in processed \/ o < low \/ StartAt(committed) \in 0..low - 1
=============================================================================
