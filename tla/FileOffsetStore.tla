--------------------------- MODULE FileOffsetStore ---------------------------
(***************************************************************************)
(* One FileOffsetStore over one file (offset.rs:111-261): calls of commit  *)
(* and committed, the blocking closure each of them spawns, and the file   *)
(* system under it.  A map from keys to offsets stands for a file's text.  *)
(***************************************************************************)
EXTENDS Integers, Sequences, SequencesExt

CONSTANTS Calls,          \* calls in flight at the same time
          Keys,           \* (topic, partition) pairs
          MaxNext         \* i64::MAX: the largest offset that can be stored

ASSUME MaxNextAssumption == MaxNext \in Nat
ASSUME KeysAssumption == Keys # {}

VARIABLES call,           \* each call: where it is and what it carries
          queue,          \* the async lock: its holder, then the waiters in order
          file,           \* the map a reader of `path` finds
          tmp,            \* the temporary file, and whether its data is on disk
          survives,       \* the maps a power loss may leave at `path`
          acked           \* history: the largest next-to-read acknowledged, per key

fsVars == <<file, tmp, survives>>
vars   == <<call, queue, fsVars, acked>>

None    == -1
Map     == [Keys -> None..MaxNext]
Empty   == [k \in Keys |-> None]
Kind    == {"commit", "committed"}
Running == {"spawned", "loaded", "created", "written", "synced", "renamed"}
Pc      == Running \cup {"idle", "queued"}
Call    == [pc : Pc, kind : Kind, key : Keys, next : 0..MaxNext,
            map : Map, floor : None..MaxNext, awaited : BOOLEAN]

Idle == [pc |-> "idle", kind |-> "commit", key |-> CHOOSE k \in Keys : TRUE, next |-> 0,
         map |-> Empty, floor |-> None, awaited |-> FALSE]

Larger(a, b) == IF a >= b THEN a ELSE b
Holds(c)     == queue # <<>> /\ Head(queue) = c

\* The closure goes on to its next statement; it touches its own call only.
Goto(c, to) == call' = [call EXCEPT ![c].pc = to]

\* A guard is dropped, or a waiter gives up: the others keep their order.
Unqueue(c) == \E i \in DOMAIN queue : queue[i] = c /\ queue' = RemoveAt(queue, i)

\* The closure returns: its guard is dropped and the next waiter gets the lock.
Return(c) == call' = [call EXCEPT ![c] = Idle] /\ Unqueue(c)

(***************************************************************************)
(* The async part of the two methods.                                      *)
(***************************************************************************)
\* Mutated form of NextOffsetOf: the sum is not checked.
UncheckedNext(offset) == {n \in {offset + 1} : offset >= 0}

\* next_offset_of: the offset to store, or nothing when the commit is refused.
NextOffsetOf(offset) == {n \in {offset + 1} : offset >= 0 /\ n <= MaxNext}

Enqueue(c, kind, k, n) ==
  /\ call[c].pc = "idle"
  /\ call' = [call EXCEPT ![c] =
       [pc |-> "queued", kind |-> kind, key |-> k, next |-> n,
        map |-> Empty, floor |-> acked[k], awaited |-> TRUE]]
  /\ queue' = Append(queue, c)
  /\ UNCHANGED <<fsVars, acked>>

Commit(c, k, offset) == \E n \in NextOffsetOf(offset) : Enqueue(c, "commit", k, n)

Committed(c, k) == Enqueue(c, "committed", k, 0)

\* The lock is granted; the guard moves into the closure.
Spawn(c) ==
  /\ call[c].pc = "queued" /\ Holds(c)
  /\ Goto(c, "spawned")
  /\ UNCHANGED <<queue, fsVars, acked>>

\* Mutated form of Cancel: the guard stays in the future, so that dropping the
\* future frees the lock under a running closure.
CancelFreesLock(c) ==
  /\ call[c].pc # "idle" /\ call[c].awaited
  /\ Unqueue(c)
  /\ IF call[c].pc = "queued" THEN call' = [call EXCEPT ![c] = Idle]
                              ELSE call' = [call EXCEPT ![c].awaited = FALSE]
  /\ UNCHANGED <<fsVars, acked>>

\* The caller drops the future: a waiter leaves the queue, a closure that runs
\* is detached and keeps the lock to its end.
Cancel(c) ==
  /\ call[c].pc # "idle" /\ call[c].awaited
  /\ IF call[c].pc = "queued"
       THEN Return(c)
       ELSE call' = [call EXCEPT ![c].awaited = FALSE] /\ UNCHANGED queue
  /\ UNCHANGED <<fsVars, acked>>

(***************************************************************************)
(* The closure: load_map, then, for a commit, save_map statement by        *)
(* statement.                                                              *)
(***************************************************************************)
\* Mutated form of Merge: the new offset replaces the old one.
Overwrite(map, k, n) == [map EXCEPT ![k] = n]

Merge(map, k, n) == [map EXCEPT ![k] = Larger(@, n)]

LoadMap(c) ==
  /\ call[c].pc = "spawned"
  /\ call' = [call EXCEPT ![c].pc = "loaded",
       ![c].map = IF call[c].kind = "commit" THEN Merge(file, call[c].key, call[c].next)
                                             ELSE file]
  /\ UNCHANGED <<queue, fsVars, acked>>

ReturnCommitted(c) ==
  /\ call[c].pc = "loaded" /\ call[c].kind = "committed"
  /\ Return(c)
  /\ UNCHANGED <<fsVars, acked>>

CreateTmp(c) ==
  /\ call[c].pc = "loaded" /\ call[c].kind = "commit"
  /\ tmp' = [map |-> Empty, synced |-> FALSE]
  /\ Goto(c, "created")
  /\ UNCHANGED <<queue, file, survives, acked>>

WriteAll(c) ==
  /\ call[c].pc = "created"
  /\ tmp' = [map |-> call[c].map, synced |-> FALSE]
  /\ Goto(c, "written")
  /\ UNCHANGED <<queue, file, survives, acked>>

\* Mutated form of SyncTmp: the data is left in the page cache.
SyncNothing(c) ==
  /\ call[c].pc = "written"
  /\ Goto(c, "synced")
  /\ UNCHANGED <<queue, fsVars, acked>>

SyncTmp(c) ==
  /\ call[c].pc = "written"
  /\ tmp' = [tmp EXCEPT !.synced = TRUE]
  /\ Goto(c, "synced")
  /\ UNCHANGED <<queue, file, survives, acked>>

\* Mutated form of Rename: its failure is ignored.
RenameIgnored(c) ==
  /\ call[c].pc = "synced"
  /\ Goto(c, "renamed")
  /\ UNCHANGED <<queue, fsVars, acked>>

\* After the rename a power loss may leave the new entry or an earlier one; an
\* entry whose data never reached the disk comes back without data.
Rename(c) ==
  /\ call[c].pc = "synced"
  /\ file' = tmp.map
  /\ survives' = survives \cup {tmp.map} \cup (IF tmp.synced THEN {} ELSE {Empty})
  /\ Goto(c, "renamed")
  /\ UNCHANGED <<queue, tmp, acked>>

\* The directory reaches the disk and commit returns Ok, to whoever still waits.
SyncDirectory(c) ==
  /\ call[c].pc = "renamed"
  /\ survives' = {file}
  /\ acked' = [acked EXCEPT ![call[c].key] = Larger(@, call[c].next)]
  /\ Return(c)
  /\ UNCHANGED <<file, tmp>>

\* Mutated form of IoError: the error path forgets the guard.
IoErrorKeepsLock(c) ==
  /\ call[c].pc \in Running
  /\ call' = [call EXCEPT ![c] = Idle]
  /\ UNCHANGED <<queue, fsVars, acked>>

\* An I/O call of the closure fails and the error is returned.  What the earlier
\* calls did stays: a rename whose directory sync fails remains visible.
IoError(c) ==
  /\ call[c].pc \in Running
  /\ Return(c)
  /\ UNCHANGED <<fsVars, acked>>

-----------------------------------------------------------------------------
\* The process dies at any point and is started again; the file system goes on.
ProcessCrash ==
  /\ queue # <<>>
  /\ call' = [c \in Calls |-> Idle]
  /\ queue' = <<>>
  /\ UNCHANGED <<fsVars, acked>>

\* The machine loses power and is started again.
PowerLoss ==
  /\ \E m \in survives : file' = m /\ survives' = {m}
  /\ tmp' = [map |-> Empty, synced |-> FALSE]
  /\ call' = [c \in Calls |-> Idle]
  /\ queue' = <<>>
  /\ UNCHANGED acked

Init ==
  /\ call = [c \in Calls |-> Idle]
  /\ queue = <<>>
  /\ file = Empty /\ survives = {Empty}
  /\ tmp = [map |-> Empty, synced |-> FALSE]
  /\ acked = Empty

ClosureStep(c) == \/ LoadMap(c) \/ ReturnCommitted(c) \/ CreateTmp(c) \/ WriteAll(c)
                  \/ SyncTmp(c) \/ Rename(c) \/ SyncDirectory(c)

Next == \/ \E c \in Calls : \/ Spawn(c) \/ ClosureStep(c) \/ IoError(c) \/ Cancel(c)
                            \/ \E k \in Keys : \/ Committed(c, k)
                                               \/ \E o \in -1..MaxNext : Commit(c, k, o)
        \/ ProcessCrash \/ PowerLoss

Spec == Init /\ [][Next]_vars

\* The runtime polls granted calls and the blocking pool runs its closures; no
\* call, cancellation, error or crash is ever forced.
FairSpec == Spec /\ \A c \in Calls : WF_vars(Spawn(c)) /\ WF_vars(ClosureStep(c) \/ IoError(c))

-----------------------------------------------------------------------------
\* Every variable keeps its type.
TypeOK ==
  /\ call \in [Calls -> Call]
  /\ queue \in Seq(Calls)
  /\ file \in Map /\ acked \in Map
  /\ tmp \in [map : Map, synced : BOOLEAN]
  /\ survives \subseteq Map /\ file \in survives

\* Whatever a power loss leaves at the path, no acknowledged commit is missing
\* from it, for its own key or for any other (offset.rs:113-114, 228-234).
AckedSurvives == \A m \in survives, k \in Keys : acked[k] <= m[k]

\* committed returns at least every offset acknowledged before it was called.
ReadsAcked ==
  \A c \in Calls : call[c].kind = "committed" /\ call[c].pc = "loaded" =>
    call[c].map[call[c].key] >= call[c].floor

\* Only one closure is between its load and its save, also when the futures that
\* started them have been dropped (offset.rs:206, 229): the lock is the holder's
\* until its closure ends.
OneClosure == \A c \in Calls : call[c].pc \in Running => Holds(c)

\* The store keeps the promise of the trait: what is visible only grows, and
\* only a power loss takes it back, never below what was acknowledged.
Promise == INSTANCE MonotoneOffsets WITH visible <- file
PromiseSpec == Promise!Spec

\* Every call returns: the lock is handed on whatever the closures run into.
CallReturns == \A c \in Calls : call[c].pc # "idle" ~> call[c].pc = "idle"
=============================================================================
