# A verification development for kafkax

kafkax is a Rust client library over `rskafka`: a connection pool, a producer, a
per-partition consumer, application-side offset stores and, on top of them, an
at-least-once consumer. This directory holds TLA+ models of its stateful parts, the
TLC configurations that check them, and proofs checked by TLAPS.
Paths such as `lifecycle.rs:58` are relative to `src/src/`.

## The system

| Component | State it keeps | Operations | What makes it correct |
|---|---|---|---|
| Lifecycle (`lifecycle.rs`) | `closed`, the counter `active`, two watch channels | `ensure_open`, `start_operation`, drop of the guard, `subscribe_shutdown`, `wait_for_shutdown`, `close` | after `close` has returned Ok no guard is held; no wake-up is lost; the counter is exact |
| Producer (`producer.rs`, `connection/runtime.rs`) | four counters of the pool | `publish` and two wrappers | an Ok carries the record's own offset; counters agree with what was returned; nothing goes on after `close` |
| Consumer (`consumer.rs`) | background task, fetch position, bounded channel | `connect`, `recv`, `recv_timeout`, drop | the caller sees the log's records once and in order, then the error; a shutdown ends a blocked task |
| At-least-once consumer (`at_least_once.rs`) | pending message, `terminated` | `connect`, `recv`, `recv_timeout`, `ack`, `nack_keep_pending`, `drop_pending_unacked`, drop | no record is committed unprocessed; what is not committed is delivered again; an ack is final |
| File offset store (`offset.rs`) | one file, its temporary file, an async lock | `commit`, `committed` | an acknowledged commit survives a power loss; offsets only grow; one closure at a time |
| Memory offset store (`offset.rs`) | a map under a lock | `put_next`, `commit`, `committed` | offsets only grow |
| Observation (`connection/observe.rs`) | none | `stats`, `health`, `health_check`, `ping` | reports what was counted |
| Topic administration (`connection/topic.rs`) | two counters | `ensure_topic`, `delete_topic` | an Ok means that the topic was there (was gone) |
| Connect and TLS (`connection/connect.rs`) | process-wide crypto provider, a blocking task per call | `connect`, `connect_from_env`, `new` | the client is the one that was configured; nothing remote in clear; calls that race for the provider all get past it; every call returns |
| Errors (`error.rs`, `error_map.rs`) | none | `map_kafka_error`, `is_retryable` | retryable means safe to retry |
| Configuration (`config.rs`, `config/`) | the configuration, with public fields | `from_toml`, `from_env`, the builder, `validate`, writes to fields | what a constructor accepts is valid; what is written afterwards is validated again |
| Messages (`message.rs`) | none | location codec, key routing | decode inverts encode; a key's partition exists |

How they interact. Every broker call of the pool, and the consumer's background task,
holds an `OperationGuard` and races against the shutdown signal; `close` refuses new
guards, broadcasts the signal and waits for the held ones. The consumer's task and its
caller share a bounded channel. The at-least-once consumer calls the consumer and, in
`connect` and `ack`, an offset store that other sessions, earlier processes and
abandoned futures have written or are still writing. `connect` copies the configuration,
hands the TLS part to a blocking task and both read what the process shares: its crypto
provider and the CA file. Every error of rskafka goes through `map_kafka_error`.

The hard behaviours are the interleavings of `close` with everything else, futures that
callers drop at any await, blocking closures that go on after their future is gone,
writes that take effect after their caller was told they failed, and crashes of the
process or the machine between any two steps of a commit. `PROJECT.json` lists
these hazards one by one, at the line where each bites.

## The modules

| Module | What it is | Uses |
|---|---|---|
| `PoolGate` | the lifecycle's promise: operations enter while open, drained means empty for good | |
| `Lifecycle` | the shutdown protocol, one action per atomic access | implements `PoolGate` |
| `LifecycleProofs` | TLAPS proofs about `Lifecycle` | |
| `MonotoneOffsets` | the promise of an `OffsetCommitStore` | |
| `FileOffsetStore` | the file store, one action per system call, over a file system that may lose power | implements `MonotoneOffsets` |
| `FileOffsetStoreProofs` | TLAPS proofs about `FileOffsetStore`, the implementation included | |
| `KafkaErrors` | `map_kafka_error` and `is_retryable` as operators | |
| `Publish` | concurrent calls of `publish` | admission and close by `PoolGate`; `KafkaErrors` |
| `PublishProofs` | TLAPS proofs about `Publish` | |
| `TopicAdmin` | concurrent calls of `ensure_topic`, `delete_topic` and `health_check` about one topic | admission and close by `PoolGate` |
| `TopicAdminProofs` | TLAPS proofs about `TopicAdmin` | |
| `Consumer` | task, channel and `recv` over a partition's log | |
| `ConsumerProofs` | TLAPS proofs about `Consumer` | |
| `AtLeastOnce` | the application's protocol | extends `Consumer`; the store is `MonotoneOffsets` |
| `AtLeastOnceProofs` | TLAPS proofs about `AtLeastOnce` | extends `ConsumerProofs` |
| `Configuration` | one configuration from its constructor to the writes after it | |
| `Connect` | concurrent calls of `connect` and `new` with their blocking tasks | extends `Configuration`, `KafkaErrors` |
| `ConnectProofs` | TLAPS proofs about `Connect` | |
| `Messages` | the location codec and the routing by key, with their theorems | |

So the composition rests on the two refinements, and both are proved: `AtLeastOnce` is
verified over the promise of the store, which `FileOffsetStore` keeps (`KeepsPromise`);
`Publish` and `TopicAdmin` are verified over the gate, which `Lifecycle` implements
(`ImplementsGate`).
`MCAtLeastOnce` adds the sets of configured starts, `MCTopicAdmin` the broker's other error
texts; the other runs check the module itself.

Definitions named `...` in a comment "Mutated form of D" are plausible bugs of D. No
specification uses them: they show, one per property, that the property would notice.

### Lifecycle

`closed`, `active` and `shutdown` are the fields of `LifecycleInner`. A watch channel is
its value and, for each receiver, whether it has a version to see: `unseen[o]` for the
shutdown receiver of operation `o`, `notified[c]` for the activity receiver of closer
`c`. The generation number that `drop` increments is only ever compared for change, so
the flag stands for it. `op[o]` and `closer[c]` are the places in the code between two
accesses to shared state:

- `start_operation` is `EnsureOpen`, `Register`, `Recheck`; a rejected operation passes
  through the same drop as a guard that ends;
- the drop is `ReleaseCount`, `NotifyActivity`;
- `wait_for_shutdown` is `SubscribeShutdown`, `BorrowShutdown`, `ShutdownChanged`;
- `close` is `CloseSubscribe`, `CloseStore`, `CloseBroadcast`, then `CloseCheck` and
  `CloseWake` in a loop, or `CloseTimeout`.

An operation starts again when it has ended, and `close` may be called again whatever it
has returned. Atomic accesses interleave in one total order: the memory model of the
hardware is not modelled (see the hazard at `lifecycle.rs:47`).

### File offset store

`queue` is tokio's fair mutex: the holder first, the waiters after it. A call is an async
part (`Commit`, `Committed`, `Spawn`, `Cancel`) and a closure that loads the map, merges
and saves it (`LoadMap` ... `SyncDirectory`), each system call an action; `IoError` ends
the closure at any of them and keeps what the earlier ones did. `Cancel` drops the future:
a waiter leaves the queue, a running closure is detached and keeps the lock.

The file system: `file` is what a reader of the path finds now, `survives` the contents
that a power loss may leave there. A rename adds to `survives` (the empty map when the
temporary file's data was never synced), the directory sync leaves only the present one.
A crash of the process alone keeps the file as it is. The text of a file is a map; the
parent directory is taken as durable and each file has one store, as `offset.rs:114` has it.

### KafkaErrors

An error of rskafka is its variant and, for a `ServerError`, its protocol code; the text of
any other error is the set of the phrases in it that `classify_message` looks for, tried
in the order of the code. `ClassifyRskafka` is `map_rskafka_error`, `IsRetryable` is
`KafkaError::is_retryable` without the kinds of local I/O errors. In this crate only rskafka's
errors reach `map_kafka_error`, so `ClassifyMessage` is translated and used by no action.

### Publish

A publisher calls `publish` for one record, and again only after a retryable error
(`Retryable` asks `IsRetryable` of the error each outcome stands for). The steps are the
first check, the lookup of the partition client under a guard (`LookupStart`,
`LookupEnd`), the second guard (`Guard`), the first poll of the produce (`Produce`), the
outcome in the order of the biased select (shutdown, answer, deadline), the counters one
by one (`RecordFirst`, `RecordSecond`), and the return that drops the guard. At the other
end `BrokerWrites` writes a request whenever it likes, whether or not anyone waits, and
`RequestLost` drops it. An acknowledgement may carry one offset (`ok`) or not (`odd`). One
call of rskafka's `produce` is one request: what rskafka retries inside one call is
external and shows as a later write or an error that leaves the write open.

### TopicAdmin

`Call` is `start_operation`, `Begin` the test for a client and the first poll of the select,
`Answered`, `Failed`, `TimedOut` and `Cancelled` its outcomes, `Record` the counter,
`Return` the drop of the guard. rskafka may send a request again (`Transmit`); the broker
handles what it gets at any time, and the answer counts only while its call still waits. A
text is the set of the phrases in it that the two classifiers look for. `saw` remembers
whether the topic was as the caller wants it at some moment of the call, which is what an Ok
can mean when others create and delete the same topic.

### Consumer and AtLeastOnce

`log` holds the offsets that carry a record: offsets between them may be empty (control
batches, compaction). The task's loop is `Fetch` (or `StreamFails`) into `hand`, then
`Send` from `hand` into `buffer`; both of its waits prefer `TaskShutdown`. An error is the
last item of a session. `recv` is `RecvStart` and then `RecvItem`, `RecvEnd`,
`RecvTimeout`, or the caller drops it. A session that ends without an error is not
modelled since rskafka's stream ends only after one, and by then the task has left.

`AtLeastOnce` adds the application: it reads the store and opens a consumer
(`ReadCommitted`, `OpenConsumer`), receives, acknowledges in the steps of the store
(`CommitTakesEffect`, `AckOk`; `AckFails` before or after the effect; `AckDropped`, after
which the commit may happen at any later time), gives up, reconnects. The process may die
at any point, alone or with the machine. Retention may remove a prefix of the log. The
histories `delivered` and `processed` name what was handed out and what was acknowledged.

The store is in a file or in memory (`inMemory`, chosen once). A commit to either is
`Advance` and `Acknowledge` of `MonotoneOffsets`: the memory store does both in one critical
section, which is one of the interleavings. With a store in memory the death of the process
is also `Forget`, and what had been acknowledged to it binds nobody any more.

### Configuration and Connect

A value is named for what the code tells apart in it: a list of brokers is blank, only
separators, loopback, remote, both, or carries user information; a secret is blank or not;
the three time limits are one. `layer` is the TOML text or the environment as the
application writes it (`Write`), `FromToml`, `FromEnv` and `Build` are the constructors with
all their checks, `Overlay` the order in which `apply_env_overlay` looks at the variables.
Each constructor starts from the defaults, as the code does. `Edit` writes to a public field
of a finished configuration, which no code of the crate sees.

A call of `connect` takes the configuration as it is (`Connect`, with its own `validate`),
then awaits a blocking task when TLS is on (`Join`), then dials (`Dial`, `Built`). The task
is `Install`, `Check`, `Roots`, `Read`: the installation of the process-wide provider and
the look at whether there is one are two steps, and so are the look at the CA file's size and
its reading, between which the file may be replaced. The timeout or the caller may end the
call at any point (`TimedOut`, `Dropped`); the task goes on. `result[c].client` is what is
asked of the driver once the dialling begins.

### Messages

An id is the sequence of its segments between slashes. A segment is what the two `parse`
calls make of it, and a spelling, so that `7` and `07` are two segments of one value.
`ParseBusId` and `PartitionForKey` are pure, over integers whose largest values `I32Max`,
`I64Max` and `U64Max` are parameters; they have theorems and no run.

## What the runs check

| Run | Bounds | Shows |
|---|---|---|
| `MCLifecycle` | 2 operations, 2 closers, no bound on repetitions | the five invariants, `GateSpec`, `CloseReturns`, `ShutdownCancels` |
| `MCFileOffsetStore` | 2 calls, 2 keys, offsets to 2 | `AckedSurvives`, `ReadsAcked`, `OneClosure`, `PromiseSpec`, `CallReturns` |
| `MCPublish` | 2 publishers, 2 calls each | `OkIsWritten`, `CountsExact`, `CopiesExplained`, `QuietAfterDrain`, `PublishReturns` |
| `MCConsumer` | 4 offsets, retention of 1, channel of 2, 2 faults | `StreamExact`, `EndIsHonest`, `TaskEnds`, `RecvReturns` |
| `MCAtLeastOnce` | 3 offsets, retention of 1, channel of 1, 3 faults, both stores | `NothingSkipped`, `UncommittedRedelivered`, `AckIsFinal`, `EveryRecordProcessed` |
| `MCTopicAdmin` | 2 callers, 2 calls of any two callers together | `OkIsTrue`, `CountsExact`, `QuietAfterDrain`, `CallReturns` |
| `MCConnect` | 2 calls, 3 values set, one replaced CA file | `NothingInClear`, `ClientMatchesConfig`, `ProviderRaceIsBenign`, `ConnectReturns` |

Why the bounds are enough. Two operations and two closers contain every pair of roles,
and what holds of more is proved. Two calls of the store are a holder, cancelled or not,
and the waiter that must not run beside it, and both are called again without end; two keys
show a map that is written back whole; offsets to 2 allow an older commit to arrive late. Two publishers and two attempts give a late first
write, a retry that succeeds and a stranger's record between them. Two calls of
`TopicAdmin`, by one caller or by two, are a request that outlives its call and one that
meets its effect. Two calls of `connect` are a race for the provider, with the winner
timed out or dropped; three values are a remote broker with TLS and a CA file, or a SASL
mechanism with its two credentials, or either with one value written afterwards. One
replacement of the CA file falls before, between or after the task's looks at it. Four offsets fill a
channel of two, the task's hand and leave one to fetch. In `MCAtLeastOnce` a fault is a
close, a fetch or store error, a dropped future, a crash or giving up: three allow, for
instance, a dropped ack, a crash after it and a failed open. `faults`, `MaxCalls`,
`MaxSettings` and the bounds on the log are the only counters; everything else is finite by
itself. `MCConnect` does not check deadlock: once every call has been made the application
may stop.

### Where documents and code disagree

Each of these runs checks one statement of the repository and ends in a counterexample.

- `MCAtLeastOnceLatest` (`UncommittedRedelivered`): `at_least_once.rs:8` and
  `docs/API.md:65` promise that a message dropped without ack is delivered again on
  reconnect. With `from_beginning = false` and nothing committed yet, the next session
  starts at the log's end and passes it by. With any other start the promise holds, on the
  instance of `MCAtLeastOnce` and for all (`UncommittedComesAgain`).
- `MCConsumerClosedRecv` (`ClosedRecvIsNone`): `consumer.rs:144` says that `recv` returns
  `None` on a closed pool; it returns `Some(Err(Closed))`.
- `MCPublishRetryIsSafe` (`RetryIsSafe`): `error.rs:40` and `CONTEXT.md` call a retryable
  error safe to retry; after a timeout or a connection error of a produce the record may
  be in the log already, or get there later, and the retry writes it again.
- `MCPublishEveryFailureCounted` (`EveryFailureCounted`): `connection.rs:25` says that
  `publish_failed` includes broker errors and timeouts; those met while looking up the
  partition client are not counted.
- `MCTopicAdminNotExist` (`OkIsTrue`): `topic.rs:117` says that
  `is_topic_already_exists_error` tells whether a text means that the topic exists. It
  looks for "exist" and accepts "does not exist" as well, which the test at
  `connection.rs:169` lists as the opposite; `ensure_topic` then returns Ok for nothing.

Two more were met while modelling and have no run, since they are plain in one function:

- `config.rs:3-8` and `README.md:113` list four layers, each over the one before. `from_toml`,
  `from_env` and the builder each start from the defaults, and no function takes another
  layer's result. So a TOML text that names a SASL mechanism is never accepted, because the
  credentials are refused in TOML (`FromToml`).
- `docs/API.md:63` and `README.md:108` say that `is_retryable` is false for I/O errors;
  `error.rs:59` returns true for five kinds of them, as its own comment says.

### Fairness

`Lifecycle`, `FileOffsetStore`, `Consumer`: weak fairness for the steps that a runtime
polls once they are ready (a task's own steps, a granted lock, a blocking closure). No
deadline, cancellation, error or crash is fair, and nobody is forced to start an operation
or to call `close`. So `CloseReturns` holds without the deadline: it is the
cancellation of what is in flight that lets `close` return. `IoError` shares the fairness of
the closure's own steps, since a system call returns one way or the other.

`Publish`, `TopicAdmin`: weak fairness for each caller, its timeouts included, since every
wait of a call is under a tokio timeout; none for the broker, which may never answer.

`Connect`: weak fairness of `TimedOut` alone, the tokio timer around the whole of `connect`.
Neither the blocking task nor the broker is fair: a file system may hang.

`AtLeastOnce`: also for the application, which keeps receiving, acknowledging and
reconnecting (strong fairness for `Reconnect`, whose condition comes and goes with the
session). That is an assumption about the library's user; without it no record need ever
be processed. The bounded faults can be taken at any time but are never forced.

## What is proved

Every invariant, every action property and both refinements that the passing runs check are
also theorems, for every value of the constants. Each `...Proofs` module has an inductive
invariant that TLC has checked on the instance of the run before it was proved.

Assumptions on the constants, each named in the module that declares the constant:
`FiniteOps` and the finiteness of callers and publishers, without which nothing could be
counted; that bounds are natural numbers, a channel has room for one item and the set of keys
is not empty; that the configured starts are positions of the log (`StartsAssumption`). Three
theorems have a hypothesis of their own, and for both hypotheses a run shows what happens
without: `RefusalsTellNothing` for `OkTrue`, `Latest \notin Starts` for `NothingIsSkipped` and
`UncommittedComesAgain`.

### Lifecycle

`LifecycleProofs`, for any finite set of operations and any set of closers:

| Theorem | Statement |
|---|---|
| `TypeCorrect` | `Spec => []TypeOK`; `active` stays a natural number, so the `fetch_sub` never wraps |
| `CountCorrect` | `Spec => []ActiveCounts` |
| `DrainCorrect` | `Spec => []DrainedIsEmpty` |
| `WakeupCorrect` | `Spec => []NoLostWakeup` |
| `ShutdownCorrect` | `Spec => []NoLostShutdown` |
| `ImplementsGate` | `Spec => GateSpec` |

The inductive invariant `IndInv` is `TypeOK`, `ActiveCounts`, `CloserClosed`
and `DrainedIsEmpty`. `ActiveCounts` ties the counter to the set of registered operations,
so that a counter of zero means that nobody is registered (`ZeroIsEmpty`): this is what
`CloseCheck` needs to establish `DrainedIsEmpty`. `DrainedIsEmpty` alone is not inductive:
one must know that a closer that looks at the counter has already stored `closed`
(`CloserClosed`), for then an operation that registers later is turned away by `Recheck`.
The counting lemmas (`RegisteredAfter`, `SameCount`, `CountStep`) say how one step of one
operation changes the cardinality. `NoLostWakeup` and `NoLostShutdown` are inductive
relative to `IndInv`; `ImplementsGate` maps each action to an action of the gate or to a
stutter, with the two history conjuncts supplying the guard of `Drain`.

### File offset store

`FileOffsetStoreProofs`, for any calls, any keys and any largest offset:

| Theorem | Statement |
|---|---|
| `TypeCorrect` | `Spec => []TypeOK` |
| `AckedCommitsSurvive` | `Spec => []AckedSurvives` |
| `ClosuresExclude` | `Spec => []OneClosure` |
| `ReadsAreFresh` | `Spec => []ReadsAcked` |
| `KeepsPromise` | `Spec => PromiseSpec` |

`IndInv` is `TypeOK`, `AckedSurvives` and, for each call, `Sound`: a closure that runs is the
first in the queue, so nobody else changes the file under it, and therefore what it has in
memory stays the file merged with its own offset, what is in the temporary file stays that
map, and once it is synced the rename may make it the file's only content. Without the part
about the map `AckedSurvives` is not inductive: a closure that renamed an old map would take
back another key's offset. `QueueLeft` is the lemma about the fair lock: who leaves the queue
hands the lock on only if it held it. In `KeepsPromise` the rename is the moment a commit takes
effect and the directory's sync the moment it is acknowledged; everything else but a power
loss is a stutter.

### Publish

`PublishProofs`, for any finite set of publishers and any number of attempts:

| Theorem | Statement |
|---|---|
| `TypeCorrect` | `Spec => []TypeOK` |
| `OkWritten` | `Spec => []OkIsWritten` |
| `CountersExact` | `Spec => []CountsExact` |
| `DuplicatesPaid` | `Spec => []CopiesExplained` |
| `DrainIsQuiet` | `Spec => QuietAfterDrain` |

`CopiesExplained` bounds the log by what was returned, and no step alone shows it: the
broker writes long after the call that sent the request. The invariant counts the requests
when they are sent (`CopiesPaid`): requests, and publishers that may still send one for
nothing (`Fresh`), are together no more than the publishers and the timeouts and open errors
returned. A publisher leaves `Fresh` with its request and comes back only through an outcome
that is counted. `WrittenOnce` says that the log is no longer than the requests, `RequestsPast`
that a call's request is a new one. `PlacesTrue` is what makes an Ok true: the broker's answer
names the place of the request's own record, and a log that only grows keeps it there.
`CountsExact` is inductive with the lemmas about one publisher's step (`AtMoved`, `DoneMoved`);
`GuardsHeld` places the guard around everything that `QuietAfterDrain` says has stopped.

### Topic administration

`TopicAdminProofs`, for any finite set of callers, any number of calls and any texts of the
broker's other errors:

| Theorem | Statement |
|---|---|
| `TypeCorrect` | `Spec => []TypeOK` |
| `CountersExact` | `Spec => []CountsExact` |
| `DrainIsQuiet` | `Spec => QuietAfterDrain` |
| `OkTrue` | `RefusalsTellNothing` implies `Spec => []OkIsTrue` |

`RefusalsTellNothing` says that no other error of the broker holds one of the phrases that the
two classifiers look for: `connection.rs:169` knows a text that does, and with it
`MCTopicAdminNotExist` ends in a counterexample. The invariant of `OkTrue` is `AnswersTrue`: an
answer that counts as a success was given during the call that waits for it, so the topic
was as asked at some moment of it.

### Consumer

`ConsumerProofs`, for a log and a channel of any length, any retention and any faults:

| Theorem | Statement |
|---|---|
| `ConsumerTypeCorrect` | `ConsumerSpec => []ConsumerTypeOK` |
| `StreamIsTheLog` | `ConsumerSpec => []StreamExact` |
| `EndsAreHonest` | `ConsumerSpec => []EndIsHonest` |

`StreamExact` is about one sequence, what `recv` has returned, then the channel, then the
task's hand, and about the records of the log between the session's start and its cursor. It is
stated by its parts (in order, nothing that is not due, nothing left out before an item that
is there, complete while there is no shutdown) and not as an equality with a sorted sequence,
since a recursive definition is out of the prover's reach; the parts fix the sequence
all the same. `TaskSound` has what the steps need: the cursor is within the log or has not
moved from the session's start, so that what the broker appends later is still ahead of it; the
task holds an item exactly when it sends one; it is past its loop only after an error or a
shutdown. `RecordAppended`, `ErrorAppended`, `HeadThenTail` and `TailCut` say what `Fetch`,
`StreamFails`, `recv` and a shutdown do to the sequence. The steps are proved for any step that
a session can see (`SessionStep`), which includes the end of a session by its owner.

### At-least-once consumer

`AtLeastOnceProofs`, for the composition of consumer, application and store, with a log and a
channel of any length, any number of faults and both stores:

| Theorem | Statement |
|---|---|
| `TypeCorrect` | `Spec => []TypeOK` |
| `StreamStaysTheLog` | `Spec => []StreamExact`, for every session through crashes and reconnects |
| `AcksAreFinal` | `Spec => AckIsFinal` |
| `NothingIsSkipped` | `Latest \notin Starts` implies `Spec => []NothingSkipped` |
| `UncommittedComesAgain` | `Latest \notin Starts` implies `Spec => []UncommittedRedelivered` |

There are two inductive invariants. `OwnerInv` needs no hypothesis: the consumer's invariant
(`StepIsConsumers` shows that every step of the composition is one that `ConsumerProofs` has
treated), `OwnerSound` (one message at a time; it was returned by this session; a commit
that is under way is of this message) and `AckSound`: what is acknowledged is in every content
the store may be left with, and behind everything this session, or the one being opened, will
return. `AckIsFinal` follows from it.

`DeliveryInv` is relative to `OwnerInv` and needs the hypothesis. A point is safe if to resume
there skips no record that was not processed (`SafePoint`). `NothingSkipped` alone is not
inductive, since a commit may take effect at any later time, a crash may bring back an earlier
content, and a position is used long after it was read: so every content that may be left,
every abandoned commit, every position read and not yet used and the commit under way are
safe (`PointsSafe`). `SessionSafe` says that the session began at a safe point and that
everything it has returned was processed or is pending: by `StreamExact` there is no gap
between the two, so the offset after the pending message is again safe. `Redelivered` is
`UncommittedRedelivered` with the cases in which a session may have lost its rest made
precise. A session that starts at the log's end is the one step that does not keep
`SessionSafe`.

### Connect

`ConnectProofs`, for any set of calls and any number of values set:

| Theorem | Statement |
|---|---|
| `TypeCorrect` | `Spec => []TypeOK` |
| `ClearCorrect` | `Spec => []NothingInClear` |
| `ClientCorrect` | `Spec => []ClientMatchesConfig` |
| `ProviderCorrect` | `Spec => []ProviderRaceIsBenign` |

Calls share only the configuration, the provider and the CA file, and of these
only the provider matters once a call has begun, since a call keeps its own copy of the
configuration. So the inductive invariant `IndInv` is the shapes and, for each call, the
predicate `Sound` of its place, copy, task and client and of whether a provider is installed:
past the provider there is one; a call that went on was given a valid configuration; the task
looks for the file the copy names; the client fits the copy. The provider never goes away,
which keeps the other calls sound (`StaysSound`), so one lemma (`Moved`) serves every step:
show the moved call's new record sound. `Ended`, `Dialled` and `JobMoved` are its three uses.
`ConfigStays` says that no constructor, setter or write leaves the values a field can have.
`NothingInClear` then follows from `Valid` of the copy and `Fits` of the client. `TypeOK` says
more of each field than `IndInv` does: `KindsStay` shows that the layers, the overlay and the
setters keep a field to values of its own kind, and `ClientStays` that a call has a client
exactly while it dials and once it is "ok", since a valid list of brokers is not empty.

### Messages

`Messages` proves, for locations whose topic is not empty and integers of any widths:

| Theorem | Statement |
|---|---|
| `RoundTrip` | `ParseBusId(EncodeBusId(at)) = at`, slashes in the topic included |
| `IdsDiffer` | two locations never share an id |
| `PartitionInRange` | `PartitionForKey` is in range for every hash and every count |

### Only model-checked

All liveness: `CloseReturns`, `ShutdownCancels`, the two `CallReturns`, `TaskEnds`,
`RecvReturns`, `EveryRecordProcessed`, `PublishReturns`, `ConnectReturns`. TLAPS 1.4.5 does not
reason about fairness and ENABLED. That the memory store keeps the promise is by construction
(a commit to it is `Advance` and `Acknowledge` in one step) and is not a theorem of its own.

## Not modelled

- Weak memory orderings; overflow of the 64-bit counters.
- Two stores over one file, the durability of a new parent directory, and the text format
  of the offset file (hazards with notes in `PROJECT.json`).
- Two owners of one partition: excluded by `at_least_once.rs:28`.
- What rskafka and the broker do inside: external actions with the outcomes the code
  distinguishes.
- Contents of records and the accessors of `message.rs`, error texts, logging, the facade's
  re-exports.
- `MemoryOffsetStore::put_next` as an action of its own: it is a commit whose caller names the
  next offset, so `Advance` and `Acknowledge` already are what it does; only tests call it.
- The retryable kinds of I/O errors: an `ack` that failed may be repeated whatever they are.
- The URL parser and the TOML reader: an address and a text are readable or not. Certificates
  are valid or not.
- The reader `stats`: it loads the counters one by one, so a snapshot may be torn; no document
  promises more, and nothing is decided by it.

## Plan

Done: every component that keeps state is modelled; every safety property of the runs is a
theorem, and so are the refinements of the gate and of the store's promise.
Next, in this order:

1. That `Publish` and `TopicAdmin` implement `PoolGate` as compositions: their admission and
   close are its actions by construction, but that nothing else moves its variables is not yet
   a theorem.
2. `AtLeastOnce` over a start at the log's end: what still holds there (once a commit was
   acknowledged, no message is left behind that is not below it), with the invariant it needs.
3. What a constructor accepts passes `validate`, and what `FromEnv` makes of half a pair of
   credentials, as theorems about `Configuration` alone.
4. `KafkaErrors`: that the retryable outcomes are those after which the record may be in the
   log, as a lemma between `ClassifyRskafka` and `Retryable`.
