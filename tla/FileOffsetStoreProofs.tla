------------------------ MODULE FileOffsetStoreProofs ------------------------
(***************************************************************************)
(* Proofs about FileOffsetStore, for any calls, any keys and any largest   *)
(* offset: the invariants that MCFileOffsetStore checks, and that the      *)
(* store keeps the promise of the trait.                                   *)
(***************************************************************************)
EXTENDS FileOffsetStore, SequenceTheorems, TLAPS

\* What a call r carries at its place, with or without the lock, over the file f,
\* the temporary file t and the acknowledged offsets a.  A closure works on a copy
\* of the file; while it runs nobody else changes the file, so the copy stays what
\* it was made from.
Sound(r, holds, f, t, a) ==
  /\ r.pc \in Running => holds
  /\ r.pc \in {"created", "written", "synced", "renamed"} => r.kind = "commit"
  /\ r.pc # "idle" => r.floor <= a[r.key]
  /\ r.pc = "loaded" /\ r.kind = "committed" => r.map = f
  /\ r.pc \in {"loaded", "created", "written", "synced"} /\ r.kind = "commit" =>
       r.map = Merge(f, r.key, r.next)
  /\ r.pc \in {"written", "synced", "renamed"} => t.map = r.map
  /\ r.pc = "synced" => t.synced
  /\ r.pc = "renamed" => f = r.map /\ r.next <= f[r.key]

AllSound == \A c \in Calls : Sound(call[c], Holds(c), file, tmp, acked)

IndInv == TypeOK /\ AckedSurvives /\ AllSound

-----------------------------------------------------------------------------
LEMMA IdleTyped == Idle \in Call /\ Empty \in Map
<1>1. (CHOOSE k \in Keys : TRUE) \in Keys
  BY KeysAssumption
<1>2. Empty \in Map
  BY MaxNextAssumption DEF Empty, Map, None
<1>. QED
  BY <1>1, <1>2, MaxNextAssumption DEF Idle, Call, Kind, Pc, None

LEMMA IdleSound ==
  ASSUME NEW holds, NEW f, NEW t, NEW a
  PROVE  Sound(Idle, holds, f, t, a)
BY DEF Sound, Idle, Running

\* A merge keeps what is there (offset.rs:231-233).
LEMMA Merged ==
  ASSUME NEW map \in Map, NEW k \in Keys, NEW n \in 0..MaxNext
  PROVE  /\ Merge(map, k, n) \in Map
         /\ \A j \in Keys : map[j] <= Merge(map, k, n)[j]
         /\ n <= Merge(map, k, n)[k]
BY MaxNextAssumption DEF Merge, Map, Larger, None

LEMMA InitInv == Init => IndInv
<1>. SUFFICES ASSUME Init PROVE IndInv
  OBVIOUS
<1>. USE DEF Init
<1>1. TypeOK
  BY IdleTyped, EmptySeq DEF TypeOK
<1>2. AckedSurvives
  BY DEF AckedSurvives, Empty, None
<1>3. AllSound
  BY IdleSound DEF AllSound
<1>. QED
  BY <1>1, <1>2, <1>3 DEF IndInv

-----------------------------------------------------------------------------
(***************************************************************************)
(* The lock.                                                               *)
(***************************************************************************)
\* Who joins the queue or leaves it does not take the lock from its holder, unless
\* it is the holder that leaves.
LEMMA QueueAppended ==
  ASSUME queue \in Seq(Calls), NEW c \in Calls, queue' = Append(queue, c)
  PROVE  /\ queue' \in Seq(Calls)
         /\ \A d : Holds(d) => Holds(d)'
BY AppendProperties, HeadTailAppend DEF Holds

LEMMA QueueLeft ==
  ASSUME queue \in Seq(Calls), NEW c \in Calls, Unqueue(c)
  PROVE  /\ queue' \in Seq(Calls)
         /\ \A d : Holds(d) /\ d # c => Holds(d)'
<1>1. PICK i \in 1..Len(queue) : queue[i] = c /\ queue' = RemoveAt(queue, i)
  BY DEF Unqueue
<1>. DEFINE before == SubSeq(queue, 1, i - 1)
            after  == SubSeq(queue, i + 1, Len(queue))
<1>2. Len(queue) \in Nat /\ i \in Int /\ \A j \in 1..Len(queue) : queue[j] \in Calls
  BY LenProperties, ElementOfSeq
<1>3. /\ before \in Seq(Calls) /\ Len(before) = i - 1
      /\ \A j \in 1..i - 1 : before[j] = queue[j]
  <2>1. \A j \in 1..i - 1 : queue[j] \in Calls
    BY <1>2
  <2>. QED
    BY <1>2, <2>1, SubSeqProperties
<1>4. after \in Seq(Calls)
  <2>1. \A j \in i + 1..Len(queue) : queue[j] \in Calls
    BY <1>2
  <2>. QED
    BY <1>2, <2>1, SubSeqProperties
<1>5. queue' = before \o after
  BY <1>1 DEF RemoveAt
<1>. HIDE DEF before, after
<1>6. queue' \in Seq(Calls)
  BY <1>3, <1>4, <1>5, ConcatProperties
<1>7. ASSUME NEW d, Holds(d), d # c PROVE Holds(d)'
  <2>1. queue[1] = d /\ i > 1
    BY <1>1, <1>2, <1>7 DEF Holds
  <2>2. queue'[1] = before[1] /\ Len(queue') > 0
    BY <1>2, <1>3, <1>4, <1>5, <2>1, ConcatProperties
  <2>3. before[1] = d
    BY <1>2, <1>3, <2>1
  <2>. QED
    BY <1>6, <2>2, <2>3 DEF Holds
<1>. QED
  BY <1>6, <1>7

-----------------------------------------------------------------------------
(***************************************************************************)
(* One call moves.                                                         *)
(***************************************************************************)
DiskTyped == /\ file \in Map /\ tmp \in [map : Map, synced : BOOLEAN]
             /\ survives \subseteq Map /\ file \in survives

\* The call of c becomes r: what is to be shown of such a step.
LEMMA Moved ==
  ASSUME IndInv, NEW c \in Calls, NEW r \in Call, call' = [call EXCEPT ![c] = r],
         queue' \in Seq(Calls), DiskTyped', acked' \in Map, AckedSurvives',
         Sound(r, Holds(c)', file', tmp', acked'),
         \A d \in Calls \ {c} : Sound(call[d], Holds(d), file, tmp, acked)'
  PROVE  IndInv'
<1>1. TypeOK'
  BY DEF IndInv, TypeOK, DiskTyped
<1>2. \A d \in Calls : call'[d] = IF d = c THEN r ELSE call[d]
  BY DEF IndInv, TypeOK
<1>3. ASSUME NEW d \in Calls PROVE Sound(call[d], Holds(d), file, tmp, acked)'
  <2>1. CASE d = c
    <3>1. call'[c] = r
      BY <1>2
    <3>. QED
      BY <2>1, <3>1 DEF Sound, Holds
  <2>2. CASE d # c
    <3>1. call'[d] = call[d]
      BY <1>2, <2>2
    <3>. QED
      BY <2>2, <3>1 DEF Sound, Holds
  <2>. QED
    BY <2>1, <2>2
<1>. QED
  BY <1>1, <1>3 DEF IndInv, AllSound

\* The file system is left alone: only the lock and the record of c count.
LEMMA CallMoved ==
  ASSUME IndInv, NEW c \in Calls, NEW r \in Call, call' = [call EXCEPT ![c] = r],
         UNCHANGED <<fsVars, acked>>, queue' \in Seq(Calls),
         \A d \in Calls \ {c} : Holds(d) => Holds(d)',
         Sound(r, Holds(c)', file', tmp', acked')
  PROVE  IndInv'
<1>1. DiskTyped' /\ acked' \in Map /\ AckedSurvives'
  BY DEF IndInv, TypeOK, DiskTyped, AckedSurvives, fsVars
<1>2. \A d \in Calls \ {c} : Sound(call[d], Holds(d), file, tmp, acked)'
  BY DEF IndInv, AllSound, Sound, fsVars
<1>. QED
  BY <1>1, <1>2, Moved

\* While the closure of c runs, no other does.
LEMMA Alone ==
  ASSUME IndInv, NEW c \in Calls, call[c].pc \in Running, NEW d \in Calls, d # c
  PROVE  call[d].pc \notin Running
BY DEF IndInv, AllSound, Sound, Holds

\* The closure of c takes a step: the others wait and carry nothing of the file.
LEMMA ClosureMoved ==
  ASSUME IndInv, NEW c \in Calls, NEW r \in Call, call' = [call EXCEPT ![c] = r],
         call[c].pc \in Running, queue' \in Seq(Calls),
         DiskTyped', acked' \in Map, AckedSurvives',
         \A k \in Keys : acked[k] <= acked'[k],
         Sound(r, Holds(c)', file', tmp', acked')
  PROVE  IndInv'
<1>1. ASSUME NEW d \in Calls \ {c} PROVE Sound(call[d], Holds(d), file, tmp, acked)'
  <2>1. call[d].pc \notin Running /\ Sound(call[d], Holds(d), file, tmp, acked) /\ call[d] \in Call
    BY Alone DEF IndInv, AllSound, TypeOK
  <2>2. call[d].key \in Keys /\ call[d].floor \in Int
    BY <2>1, MaxNextAssumption DEF Call, None
  <2>3. acked[call[d].key] \in Int /\ acked'[call[d].key] \in Int
    BY <2>2, MaxNextAssumption DEF IndInv, TypeOK, Map, None
  <2>. QED
    BY <2>1, <2>2, <2>3 DEF Sound, Running
<1>. QED
  BY <1>1, Moved

\* The record of c, with its place changed.
LEMMA Going ==
  ASSUME TypeOK, NEW c \in Calls, NEW to \in Pc, Goto(c, to)
  PROVE  /\ call' = [call EXCEPT ![c] = [call[c] EXCEPT !.pc = to]]
         /\ [call[c] EXCEPT !.pc = to] \in Call
BY DEF TypeOK, Goto, Call

\* A call that ends, whatever it was doing, leaves nothing behind but its effects
\* on the file system.
LEMMA Returned ==
  ASSUME IndInv, NEW c \in Calls, Return(c), UNCHANGED <<fsVars, acked>>
  PROVE  IndInv'
<1>1. queue' \in Seq(Calls) /\ \A d : Holds(d) /\ d # c => Holds(d)'
  BY QueueLeft DEF Return, IndInv, TypeOK
<1>2. call' = [call EXCEPT ![c] = Idle]
  BY DEF Return
<1>. QED
  BY <1>1, <1>2, IdleTyped, IdleSound, CallMoved

(***************************************************************************)
(* The steps of a call.                                                    *)
(***************************************************************************)
LEMMA Enqueued ==
  ASSUME IndInv, NEW c \in Calls, NEW kind \in Kind, NEW k \in Keys, NEW n \in 0..MaxNext,
         Enqueue(c, kind, k, n)
  PROVE  IndInv'
<1>. DEFINE r == [pc |-> "queued", kind |-> kind, key |-> k, next |-> n,
                  map |-> Empty, floor |-> acked[k], awaited |-> TRUE]
<1>1. r \in Call
  <2>1. acked[k] \in None..MaxNext
    BY DEF IndInv, TypeOK, Map
  <2>. QED
    BY <2>1, IdleTyped DEF Call, Pc
<1>2. call' = [call EXCEPT ![c] = r] /\ UNCHANGED <<fsVars, acked>>
  BY DEF Enqueue
<1>3. queue' \in Seq(Calls) /\ \A d : Holds(d) => Holds(d)'
  BY QueueAppended DEF Enqueue, IndInv, TypeOK
<1>4. Sound(r, Holds(c)', file', tmp', acked')
  <2>1. acked'[k] = acked[k] /\ acked[k] \in Int
    BY <1>2, MaxNextAssumption DEF IndInv, TypeOK, Map, None
  <2>. QED
    BY <2>1 DEF Sound, Running
<1>. HIDE DEF r
<1>. QED
  BY <1>1, <1>2, <1>3, <1>4, CallMoved

LEMMA CallStep ==
  ASSUME IndInv, NEW c \in Calls,
         \/ Spawn(c) \/ Cancel(c) \/ IoError(c) \/ ReturnCommitted(c)
         \/ \E k \in Keys : Committed(c, k) \/ \E o \in -1..MaxNext : Commit(c, k, o)
  PROVE  IndInv'
<1>0. /\ TypeOK /\ call[c] \in Call /\ Sound(call[c], Holds(c), file, tmp, acked) /\ queue \in Seq(Calls)
  BY DEF IndInv, TypeOK, AllSound
<1>1. CASE Spawn(c)
  <2>. DEFINE r == [call[c] EXCEPT !.pc = "spawned"]
  <2>1. call' = [call EXCEPT ![c] = r] /\ r \in Call
    BY <1>0, <1>1, Going DEF Spawn, Pc, Running
  <2>2. Sound(r, Holds(c)', file', tmp', acked')
    BY <1>0, <1>1 DEF Spawn, Sound, Running, Holds, fsVars, Call
  <2>3. UNCHANGED <<fsVars, acked, queue>>
    BY <1>1 DEF Spawn
  <2>. HIDE DEF r
  <2>. QED
    BY <1>0, <2>1, <2>2, <2>3, CallMoved DEF Holds
<1>2. CASE Cancel(c)
  <2>1. CASE call[c].pc = "queued"
    BY <1>2, <2>1, Returned DEF Cancel
  <2>2. CASE call[c].pc # "queued"
    <3>. DEFINE r == [call[c] EXCEPT !.awaited = FALSE]
    <3>1. call' = [call EXCEPT ![c] = r] /\ UNCHANGED <<fsVars, acked, queue>>
      BY <1>0, <1>2, <2>2 DEF Cancel, TypeOK
    <3>2. r \in Call
      BY <1>0 DEF Call
    <3>3. Sound(r, Holds(c)', file', tmp', acked')
      BY <1>0, <3>1 DEF Sound, Running, Holds, fsVars, Call
    <3>. HIDE DEF r
    <3>. QED
      BY <1>0, <3>1, <3>2, <3>3, CallMoved DEF Holds
  <2>. QED
    BY <2>1, <2>2
<1>3. CASE IoError(c)
  BY <1>3, Returned DEF IoError
<1>4. CASE ReturnCommitted(c)
  BY <1>4, Returned DEF ReturnCommitted
<1>5. ASSUME NEW k \in Keys, Committed(c, k) PROVE IndInv'
  BY <1>5, Enqueued, MaxNextAssumption DEF Committed, Kind
<1>6. ASSUME NEW k \in Keys, NEW o \in -1..MaxNext, Commit(c, k, o) PROVE IndInv'
  <2>1. PICK n \in NextOffsetOf(o) : Enqueue(c, "commit", k, n)
    BY <1>6 DEF Commit
  <2>2. n \in 0..MaxNext
    BY MaxNextAssumption DEF NextOffsetOf
  <2>. QED
    BY <2>1, <2>2, Enqueued DEF Kind
<1>. QED
  BY <1>1, <1>2, <1>3, <1>4, <1>5, <1>6

\* The steps of a closure: each one keeps the copy what it was made from, or puts
\* the copy in the place of the file (offset.rs:143-196).
LEMMA ClosureInv ==
  ASSUME IndInv, NEW c \in Calls,
         LoadMap(c) \/ CreateTmp(c) \/ WriteAll(c) \/ SyncTmp(c) \/ Rename(c) \/ SyncDirectory(c)
  PROVE  IndInv'
<1>0. /\ TypeOK /\ call[c] \in Call /\ queue \in Seq(Calls) /\ AckedSurvives /\ DiskTyped
      /\ acked \in Map /\ call[c].pc \in Running
      /\ Sound(call[c], Holds(c), file, tmp, acked)
  BY DEF IndInv, TypeOK, AllSound, DiskTyped, Running, LoadMap, CreateTmp, WriteAll, SyncTmp,
         Rename, SyncDirectory
<1>1. \A k \in Keys : acked[k] \in Int /\ acked[k] <= acked[k]
  BY <1>0, MaxNextAssumption DEF Map, None
<1>2. call[c].key \in Keys /\ call[c].next \in 0..MaxNext /\ call[c].map \in Map
  BY <1>0 DEF Call
<1>3. CASE LoadMap(c)
  <2>. DEFINE m == IF call[c].kind = "commit" THEN Merge(file, call[c].key, call[c].next)
                                              ELSE file
              r == [call[c] EXCEPT !.pc = "loaded", !.map = m]
  <2>1. m \in Map
    BY <1>0, <1>2, Merged DEF DiskTyped
  <2>2. r \in Call
    BY <1>0, <2>1 DEF Call, Pc, Running
  <2>3. call' = [call EXCEPT ![c] = r] /\ UNCHANGED <<queue, fsVars, acked>>
    BY <1>0, <1>3 DEF LoadMap, TypeOK
  <2>4. Sound(r, Holds(c)', file', tmp', acked')
    BY <1>0, <1>3, <2>3 DEF LoadMap, Sound, Running, Holds, fsVars, Call, Kind
  <2>. HIDE DEF r
  <2>5. DiskTyped' /\ AckedSurvives'
    BY <1>0, <2>3 DEF DiskTyped, AckedSurvives, fsVars
  <2>. QED
    BY <1>0, <1>1, <2>2, <2>3, <2>4, <2>5, ClosureMoved
<1>4. CASE CreateTmp(c)
  <2>. DEFINE r == [call[c] EXCEPT !.pc = "created"]
  <2>1. /\ call' = [call EXCEPT ![c] = r] /\ r \in Call
    BY <1>0, <1>4, Going DEF CreateTmp, Pc, Running
  <2>2. UNCHANGED <<queue, file, survives, acked>> /\ tmp' = [map |-> Empty, synced |-> FALSE]
    BY <1>4 DEF CreateTmp
  <2>3. Sound(r, Holds(c)', file', tmp', acked')
    BY <1>0, <1>4, <2>2 DEF CreateTmp, Sound, Running, Holds, Call
  <2>. HIDE DEF r
  <2>4. DiskTyped' /\ AckedSurvives'
    BY <1>0, <2>2, IdleTyped DEF DiskTyped, AckedSurvives
  <2>. QED
    BY <1>0, <1>1, <2>1, <2>2, <2>3, <2>4, ClosureMoved
<1>5. CASE WriteAll(c)
  <2>. DEFINE r == [call[c] EXCEPT !.pc = "written"]
  <2>1. /\ call' = [call EXCEPT ![c] = r] /\ r \in Call
    BY <1>0, <1>5, Going DEF WriteAll, Pc, Running
  <2>2. UNCHANGED <<queue, file, survives, acked>> /\ tmp' = [map |-> call[c].map, synced |-> FALSE]
    BY <1>5 DEF WriteAll
  <2>3. Sound(r, Holds(c)', file', tmp', acked')
    BY <1>0, <1>5, <2>2 DEF WriteAll, Sound, Running, Holds, Call
  <2>. HIDE DEF r
  <2>4. DiskTyped' /\ AckedSurvives'
    BY <1>0, <1>2, <2>2 DEF DiskTyped, AckedSurvives
  <2>. QED
    BY <1>0, <1>1, <2>1, <2>2, <2>3, <2>4, ClosureMoved
<1>6. CASE SyncTmp(c)
  <2>. DEFINE r == [call[c] EXCEPT !.pc = "synced"]
  <2>1. /\ call' = [call EXCEPT ![c] = r] /\ r \in Call
    BY <1>0, <1>6, Going DEF SyncTmp, Pc, Running
  <2>2. UNCHANGED <<queue, file, survives, acked>> /\ tmp' = [tmp EXCEPT !.synced = TRUE]
    BY <1>6 DEF SyncTmp
  <2>3. Sound(r, Holds(c)', file', tmp', acked')
    BY <1>0, <1>6, <2>2 DEF SyncTmp, Sound, Running, Holds, Call, DiskTyped
  <2>. HIDE DEF r
  <2>4. DiskTyped' /\ AckedSurvives'
    BY <1>0, <2>2 DEF DiskTyped, AckedSurvives
  <2>. QED
    BY <1>0, <1>1, <2>1, <2>2, <2>3, <2>4, ClosureMoved
<1>7. CASE Rename(c)
  <2>. DEFINE r == [call[c] EXCEPT !.pc = "renamed"]
  <2>1. /\ call' = [call EXCEPT ![c] = r] /\ r \in Call
    BY <1>0, <1>7, Going DEF Rename, Pc, Running
  <2>2. /\ UNCHANGED <<queue, tmp, acked>> /\ file' = tmp.map
        /\ survives' = survives \cup {tmp.map}
    BY <1>0, <1>7 DEF Rename, Sound
  <2>3. tmp.map = Merge(file, call[c].key, call[c].next) /\ tmp.map = call[c].map
        /\ call[c].kind = "commit"
    BY <1>0, <1>7 DEF Rename, Sound
  <2>4. /\ tmp.map \in Map /\ \A k \in Keys : file[k] <= tmp.map[k]
        /\ call[c].next <= tmp.map[call[c].key]
    BY <1>0, <1>2, <2>3, Merged DEF DiskTyped
  <2>5. Sound(r, Holds(c)', file', tmp', acked')
    BY <1>0, <1>7, <2>2, <2>3, <2>4 DEF Rename, Sound, Running, Holds, Call, DiskTyped
  <2>. HIDE DEF r
  <2>6. DiskTyped'
    BY <1>0, <2>2, <2>4 DEF DiskTyped
  <2>7. AckedSurvives'
    <3>1. ASSUME NEW k \in Keys PROVE acked[k] <= tmp.map[k]
      <4>1. acked[k] \in Int /\ file[k] \in Int /\ tmp.map[k] \in Int
        BY <1>0, <2>4, MaxNextAssumption DEF Map, None, DiskTyped
      <4>. QED
        BY <1>0, <2>4, <4>1 DEF AckedSurvives, DiskTyped
    <3>. QED
      BY <1>0, <2>2, <3>1 DEF AckedSurvives
  <2>. QED
    BY <1>0, <1>1, <2>1, <2>2, <2>5, <2>6, <2>7, ClosureMoved
<1>8. CASE SyncDirectory(c)
  <2>1. /\ survives' = {file} /\ UNCHANGED <<file, tmp>>
        /\ acked' = Merge(acked, call[c].key, call[c].next)
        /\ call' = [call EXCEPT ![c] = Idle] /\ Unqueue(c)
    BY <1>8 DEF SyncDirectory, Return, Merge
  <2>2. acked' \in Map /\ \A k \in Keys : acked[k] <= acked'[k]
    BY <1>0, <1>2, <2>1, Merged
  <2>3. DiskTyped'
    BY <1>0, <2>1 DEF DiskTyped
  <2>4. AckedSurvives'
    <3>1. call[c].next <= file[call[c].key] /\ \A k \in Keys : acked[k] <= file[k]
      BY <1>0, <1>8 DEF SyncDirectory, Sound, AckedSurvives, DiskTyped
    <3>2. ASSUME NEW k \in Keys PROVE acked'[k] <= file[k]
      BY <1>0, <2>1, <3>1 DEF Merge, Larger, Map
    <3>. QED
      BY <2>1, <3>2 DEF AckedSurvives
  <2>5. queue' \in Seq(Calls)
    BY <1>0, <2>1, QueueLeft
  <2>. QED
    BY <1>0, <2>1, <2>2, <2>3, <2>4, <2>5, IdleTyped, IdleSound, ClosureMoved
<1>. QED
  BY <1>3, <1>4, <1>5, <1>6, <1>7, <1>8

\* After a crash, of the process or of the machine, no call is left: what is on
\* the disk has to be sound by itself.
LEMMA CrashInv ==
  ASSUME IndInv, ProcessCrash \/ PowerLoss
  PROVE  IndInv'
<1>1. /\ call' = [c \in Calls |-> Idle] /\ queue' = <<>> /\ acked' = acked
      /\ file' \in survives' /\ survives' \subseteq survives
      /\ tmp' \in [map : Map, synced : BOOLEAN]
  <2>1. CASE ProcessCrash
    BY <2>1 DEF IndInv, TypeOK, ProcessCrash, fsVars
  <2>2. CASE PowerLoss
    <3>1. tmp' = [map |-> Empty, synced |-> FALSE]
      BY <2>2 DEF PowerLoss
    <3>2. file' \in survives' /\ survives' \subseteq survives
      BY <2>2 DEF PowerLoss
    <3>. QED
      BY <2>2, <3>1, <3>2, IdleTyped DEF PowerLoss
  <2>. QED
    BY <2>1, <2>2
<1>2. TypeOK'
  BY <1>1, IdleTyped, EmptySeq DEF IndInv, TypeOK
<1>3. AckedSurvives'
  BY <1>1 DEF IndInv, AckedSurvives
<1>4. AllSound'
  BY <1>1, IdleSound DEF AllSound
<1>. QED
  BY <1>2, <1>3, <1>4 DEF IndInv

LEMMA NextInv ==
  ASSUME IndInv, [Next]_vars
  PROVE  IndInv'
<1>1. CASE UNCHANGED vars
  BY <1>1 DEF IndInv, TypeOK, AckedSurvives, AllSound, Sound, Holds, vars, fsVars
<1>2. CASE Next
  <2>1. ASSUME NEW c \in Calls, ClosureStep(c) PROVE IndInv'
    BY <2>1, CallStep, ClosureInv DEF ClosureStep
  <2>2. ASSUME NEW c \in Calls,
               \/ Spawn(c) \/ IoError(c) \/ Cancel(c)
               \/ \E k \in Keys : Committed(c, k) \/ \E o \in -1..MaxNext : Commit(c, k, o)
        PROVE  IndInv'
    BY <2>2, CallStep
  <2>. QED
    BY <1>2, <2>1, <2>2, CrashInv DEF Next
<1>. QED
  BY <1>1, <1>2

-----------------------------------------------------------------------------
(***************************************************************************)
(* The theorems.                                                           *)
(***************************************************************************)
LEMMA Invariance == Spec => []IndInv
BY InitInv, NextInv, PTL DEF Spec

\* The variables of the store keep their types.
THEOREM TypeCorrect == Spec => []TypeOK
<1>1. IndInv => TypeOK
  BY DEF IndInv
<1>. QED
  BY <1>1, Invariance, PTL

\* No power loss takes back an acknowledged commit, of any key, wherever the calls
\* are in their closures (offset.rs:113-114, 228-234).
THEOREM AckedCommitsSurvive == Spec => []AckedSurvives
<1>1. IndInv => AckedSurvives
  BY DEF IndInv
<1>. QED
  BY <1>1, Invariance, PTL

\* The guard that moves into the closure keeps the others out to the closure's end,
\* also when the future that started it was dropped (offset.rs:206, 229).
THEOREM ClosuresExclude == Spec => []OneClosure
<1>1. IndInv => OneClosure
  BY DEF IndInv, AllSound, Sound, OneClosure
<1>. QED
  BY <1>1, Invariance, PTL

\* A read returns no less than what was acknowledged before it was asked for
\* (offset.rs:240-259).
THEOREM ReadsAreFresh == Spec => []ReadsAcked
<1>1. ASSUME IndInv PROVE ReadsAcked
  <2>1. SUFFICES ASSUME NEW c \in Calls, call[c].kind = "committed", call[c].pc = "loaded"
                 PROVE  call[c].map[call[c].key] >= call[c].floor
    BY DEF ReadsAcked
  <2>2. call[c].key \in Keys /\ call[c].floor \in Int
    BY <1>1, MaxNextAssumption DEF IndInv, TypeOK, Call, None
  <2>3. call[c].map = file /\ call[c].floor <= acked[call[c].key]
    BY <1>1, <2>1 DEF IndInv, AllSound, Sound
  <2>4. acked[call[c].key] <= file[call[c].key]
    BY <1>1, <2>2 DEF IndInv, TypeOK, AckedSurvives
  <2>5. acked[call[c].key] \in Int /\ file[call[c].key] \in Int
    BY <1>1, <2>2, MaxNextAssumption DEF IndInv, TypeOK, Map, None
  <2>. QED
    BY <2>2, <2>3, <2>4, <2>5
<1>. QED
  BY <1>1, Invariance, PTL

-----------------------------------------------------------------------------
(***************************************************************************)
(* The store keeps the promise.                                            *)
(***************************************************************************)
LEMMA PromiseInit == Init => Promise!Init
BY DEF Init, Promise!Init, Promise!Nothing, Promise!None, Empty, None

\* The rename is the moment a commit takes effect, the directory's sync the moment
\* it is acknowledged; a power loss loses, everything else stutters.
LEMMA PromiseStep ==
  ASSUME IndInv, [Next]_vars
  PROVE  [Promise!Next]_(Promise!storeVars)
<1>. USE DEF Promise!storeVars
<1>1. ASSUME NEW c \in Calls, Rename(c) PROVE Promise!Next
  <2>. DEFINE k == call[c].key
              n == call[c].next
  <2>1. k \in Keys /\ n \in 0..MaxNext
    BY DEF IndInv, TypeOK, Call
  <2>2. tmp.synced /\ tmp.map = Merge(file, k, n)
    BY <1>1 DEF Rename, IndInv, AllSound, Sound
  <2>3. Promise!Advance(k, n)
    BY <1>1, <2>2 DEF Rename, Merge, Larger, Promise!Advance, Promise!Larger
  <2>. QED
    BY <2>1, <2>3 DEF Promise!Next
<1>2. ASSUME NEW c \in Calls, SyncDirectory(c) PROVE Promise!Next
  <2>. DEFINE k == call[c].key
              n == call[c].next
  <2>1. k \in Keys /\ n \in 0..MaxNext /\ file \in Map
    BY DEF IndInv, TypeOK, Call
  <2>2. file[k] >= n
    BY <1>2, <2>1, MaxNextAssumption DEF SyncDirectory, IndInv, AllSound, Sound, Map, None
  <2>3. /\ survives' = {file} /\ UNCHANGED file
        /\ acked' = [acked EXCEPT ![k] = Promise!Larger(@, n)]
    BY <1>2 DEF SyncDirectory, Larger, Promise!Larger
  <2>4. Promise!Acknowledge(k, n)
    BY <2>2, <2>3 DEF Promise!Acknowledge
  <2>. QED
    BY <2>1, <2>4 DEF Promise!Next
<1>3. CASE PowerLoss
  BY <1>3 DEF PowerLoss, Promise!Lose, Promise!Next
<1>4. ASSUME NEW c \in Calls,
             \/ Spawn(c) \/ IoError(c) \/ Cancel(c) \/ LoadMap(c) \/ ReturnCommitted(c)
             \/ CreateTmp(c) \/ WriteAll(c) \/ SyncTmp(c)
             \/ \E k \in Keys : Committed(c, k) \/ \E o \in -1..MaxNext : Commit(c, k, o)
      PROVE  UNCHANGED Promise!storeVars
  BY <1>4 DEF Spawn, IoError, Cancel, LoadMap, ReturnCommitted, CreateTmp, WriteAll, SyncTmp,
              Committed, Commit, Enqueue, fsVars
<1>5. CASE ProcessCrash \/ UNCHANGED vars
  BY <1>5 DEF ProcessCrash, vars, fsVars
<1>. QED
  BY <1>1, <1>2, <1>3, <1>4, <1>5 DEF Next, ClosureStep

\* The file store is an OffsetCommitStore: what a reader sees only grows, and a
\* failure of the machine never takes it below what was acknowledged
\* (offset.rs:10, 23-44).
THEOREM KeepsPromise == Spec => PromiseSpec
<1>1. Spec => Promise!Init /\ [][Promise!Next]_(Promise!storeVars)
  BY PromiseInit, PromiseStep, Invariance, PTL DEF Spec
<1>. QED
  BY <1>1 DEF PromiseSpec, Promise!Spec
=============================================================================
