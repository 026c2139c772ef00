--------------------------- MODULE LifecycleProofs ---------------------------
(***************************************************************************)
(* Proofs about Lifecycle, for every finite set of operations and every    *)
(* set of closers.                                                         *)
(***************************************************************************)
EXTENDS Lifecycle, FiniteSetTheorems, TLAPS

\* A call of close that looks at the counter has closed the pool before.
CloserClosed ==
  \A c \in Closers : closer[c] \in {"stored", "checking", "waiting"} => closed

\* The inductive invariant.  DrainedIsEmpty needs ActiveCounts, for close reads
\* the counter and not the guards, and CloserClosed, for an operation that is
\* counted but not admitted when the counter is read must find the pool closed.
IndInv == /\ TypeOK
          /\ ActiveCounts
          /\ CloserClosed
          /\ DrainedIsEmpty

-----------------------------------------------------------------------------
\* While some operation is counted the counter is positive, so the fetch_sub of
\* its guard cannot wrap (lifecycle.rs:98).
LEMMA CountedIsPositive ==
  ASSUME TypeOK, ActiveCounts, NEW o \in Ops, op[o] \in Counted
  PROVE  active \in Nat \ {0}
<1>1. IsFiniteSet(Registered)
  BY FiniteOps, FS_Subset DEF Registered
<1>2. o \in Registered
  BY DEF Registered
<1>3. Cardinality(Registered) # 0
  BY <1>1, <1>2, FS_EmptySet
<1>. QED
  BY <1>3 DEF TypeOK, ActiveCounts

\* The set of counted operations after o has moved to `to`.
LEMMA RegisteredAfter ==
  ASSUME TypeOK, NEW o \in Ops, NEW to \in OpPc, op' = [op EXCEPT ![o] = to]
  PROVE  Registered' = IF to \in Counted THEN Registered \cup {o} ELSE Registered \ {o}
BY DEF TypeOK, Registered

\* An operation that stays counted, or stays not counted, leaves the counter true.
LEMMA SameCount ==
  ASSUME TypeOK, ActiveCounts, NEW o \in Ops, NEW to \in OpPc,
         op' = [op EXCEPT ![o] = to], active' = active,
         op[o] \in Counted <=> to \in Counted
  PROVE  ActiveCounts'
<1>1. Registered' = Registered
  BY RegisteredAfter DEF Registered
<1>. QED
  BY <1>1 DEF ActiveCounts

\* The counter is exact at Init and after every step (lifecycle.rs:61, 98).
LEMMA CountStep == TypeOK /\ ActiveCounts /\ [Next]_vars => ActiveCounts'
<1>. SUFFICES ASSUME TypeOK, ActiveCounts, [Next]_vars PROVE ActiveCounts'
  OBVIOUS
<1>. USE DEF Goto, Counted, OpPc
<1>f. IsFiniteSet(Registered)
  BY FiniteOps, FS_Subset DEF Registered
<1>1. ASSUME NEW o \in Ops, Register(o) PROVE ActiveCounts'
  <2>1. Registered' = Registered \cup {o} /\ o \notin Registered
    BY <1>1, RegisteredAfter DEF Register, Registered
  <2>2. Cardinality(Registered') = Cardinality(Registered) + 1
    BY <2>1, <1>f, FS_AddElement
  <2>. QED
    BY <1>1, <2>2 DEF Register, ActiveCounts
<1>2. ASSUME NEW o \in Ops, ReleaseCount(o) PROVE ActiveCounts'
  <2>1. Registered' = Registered \ {o} /\ o \in Registered
    BY <1>2, RegisteredAfter DEF ReleaseCount, Registered
  <2>2. Cardinality(Registered') = Cardinality(Registered) - 1
    BY <2>1, <1>f, FS_RemoveElement
  <2>. QED
    BY <1>2, <2>2 DEF ReleaseCount, ActiveCounts
<1>3. ASSUME NEW o \in Ops, EnsureOpen(o) PROVE ActiveCounts'
  BY <1>3, SameCount DEF EnsureOpen, shared
<1>4. ASSUME NEW o \in Ops, Recheck(o) PROVE ActiveCounts'
  BY <1>4, SameCount DEF Recheck, shared
<1>5. ASSUME NEW o \in Ops, SubscribeShutdown(o) PROVE ActiveCounts'
  BY <1>5, SameCount DEF SubscribeShutdown, shared
<1>6. ASSUME NEW o \in Ops, BorrowShutdown(o) PROVE ActiveCounts'
  BY <1>6, SameCount DEF BorrowShutdown, shared
<1>7. ASSUME NEW o \in Ops, ShutdownChanged(o) PROVE ActiveCounts'
  BY <1>7, SameCount DEF ShutdownChanged, shared
<1>8. ASSUME NEW o \in Ops, WorkDone(o) PROVE ActiveCounts'
  BY <1>8, SameCount DEF WorkDone, shared
<1>9. ASSUME NEW o \in Ops, NotifyActivity(o) PROVE ActiveCounts'
  BY <1>9, SameCount DEF NotifyActivity, shared
<1>10. ASSUME op' = op, active' = active PROVE ActiveCounts'
  BY <1>10 DEF ActiveCounts, Registered
<1>11. ASSUME NEW c \in Closers, CloserRuns(c) \/ CloseSubscribe(c) \/ CloseTimeout(c)
       PROVE ActiveCounts'
  BY <1>11, <1>10 DEF CloserRuns, CloseSubscribe, CloseStore, CloseBroadcast,
     CloseCheck, CloseWake, CloseTimeout, shared
<1>12. ASSUME UNCHANGED vars PROVE ActiveCounts'
  BY <1>12, <1>10 DEF vars, shared
<1>. QED
  BY <1>1, <1>2, <1>3, <1>4, <1>5, <1>6, <1>7, <1>8, <1>9, <1>11, <1>12
  DEF Next, OpRuns

-----------------------------------------------------------------------------
\* Types are kept by every step, given that the counter is exact.
LEMMA TypeStep == TypeOK /\ ActiveCounts /\ [Next]_vars => TypeOK'
<1>. SUFFICES ASSUME TypeOK, ActiveCounts, [Next]_vars PROVE TypeOK'
  OBVIOUS
<1>. USE DEF TypeOK, Goto, Step, Counted, OpPc, Stored, CloserPc, shared
<1>1. ASSUME NEW o \in Ops, ReleaseCount(o) PROVE TypeOK'
  <2>1. active - 1 \in Nat
    BY <1>1, CountedIsPositive DEF ReleaseCount
  <2>. QED
    BY <1>1, <2>1 DEF ReleaseCount
<1>2. ASSUME NEW o \in Ops, EnsureOpen(o) \/ Register(o) \/ Recheck(o) PROVE TypeOK'
  BY <1>2 DEF EnsureOpen, Register, Recheck
<1>3. ASSUME NEW o \in Ops, SubscribeShutdown(o) \/ BorrowShutdown(o) \/ ShutdownChanged(o)
      PROVE TypeOK'
  BY <1>3 DEF SubscribeShutdown, BorrowShutdown, ShutdownChanged
<1>4. ASSUME NEW o \in Ops, WorkDone(o) \/ NotifyActivity(o) PROVE TypeOK'
  BY <1>4 DEF WorkDone, NotifyActivity
<1>5. ASSUME NEW c \in Closers, CloseSubscribe(c) \/ CloseStore(c) \/ CloseBroadcast(c)
      PROVE TypeOK'
  BY <1>5 DEF CloseSubscribe, CloseStore, CloseBroadcast
<1>6. ASSUME NEW c \in Closers, CloseCheck(c) \/ CloseWake(c) \/ CloseTimeout(c)
      PROVE TypeOK'
  BY <1>6 DEF CloseCheck, CloseWake, CloseTimeout
<1>7. ASSUME UNCHANGED vars PROVE TypeOK'
  BY <1>7 DEF vars
<1>. QED
  BY <1>1, <1>2, <1>3, <1>4, <1>5, <1>6, <1>7 DEF Next, OpRuns, CloserRuns

-----------------------------------------------------------------------------
\* A counter that reads zero means that no caller holds a guard.
LEMMA ZeroIsEmpty ==
  ASSUME TypeOK, ActiveCounts, active = 0
  PROVE  Admitted = {}
<1>1. \A o \in Ops : op[o] \notin Counted
  BY CountedIsPositive
<1>. QED
  BY <1>1 DEF Admitted, Guarded, Counted

\* The pool is never opened again, so what needs it closed stays true.
LEMMA ClosedStep == TypeOK /\ CloserClosed /\ [Next]_vars => CloserClosed'
<1>. SUFFICES ASSUME TypeOK, CloserClosed, [Next]_vars PROVE CloserClosed'
  OBVIOUS
<1>. USE DEF TypeOK, CloserClosed, Step, shared
<1>1. ASSUME NEW o \in Ops, OpRuns(o) \/ EnsureOpen(o) \/ WorkDone(o) PROVE CloserClosed'
  BY <1>1 DEF OpRuns, EnsureOpen, Register, Recheck, SubscribeShutdown, BorrowShutdown,
     ShutdownChanged, WorkDone, ReleaseCount, NotifyActivity
<1>2. ASSUME NEW c \in Closers, CloserRuns(c) \/ CloseSubscribe(c) \/ CloseTimeout(c)
      PROVE CloserClosed'
  BY <1>2 DEF CloserRuns, CloseSubscribe, CloseStore, CloseBroadcast, CloseCheck,
     CloseWake, CloseTimeout, Returned
<1>3. ASSUME UNCHANGED vars PROVE CloserClosed'
  BY <1>3 DEF vars
<1>. QED
  BY <1>1, <1>2, <1>3 DEF Next

\* A drained pool stays empty: nobody is admitted to a closed pool, and close
\* declares the pool drained only on a zero counter.
LEMMA DrainedStep == IndInv /\ [Next]_vars => DrainedIsEmpty'
<1>. SUFFICES ASSUME IndInv, [Next]_vars PROVE DrainedIsEmpty'
  OBVIOUS
<1>. USE DEF IndInv, TypeOK, DrainedIsEmpty, Admitted, Guarded, Goto, Step, shared
<1>1. ASSUME NEW o \in Ops, EnsureOpen(o) \/ Register(o) PROVE DrainedIsEmpty'
  BY <1>1 DEF EnsureOpen, Register
<1>2. ASSUME NEW o \in Ops, Recheck(o) PROVE DrainedIsEmpty'
  BY <1>2 DEF Recheck
<1>3. ASSUME NEW o \in Ops, SubscribeShutdown(o) PROVE DrainedIsEmpty'
  BY <1>3 DEF SubscribeShutdown
<1>4. ASSUME NEW o \in Ops, BorrowShutdown(o) PROVE DrainedIsEmpty'
  BY <1>4 DEF BorrowShutdown
<1>5. ASSUME NEW o \in Ops, ShutdownChanged(o) PROVE DrainedIsEmpty'
  BY <1>5 DEF ShutdownChanged
<1>6. ASSUME NEW o \in Ops, WorkDone(o) PROVE DrainedIsEmpty'
  BY <1>6 DEF WorkDone
<1>7. ASSUME NEW o \in Ops, ReleaseCount(o) \/ NotifyActivity(o) PROVE DrainedIsEmpty'
  BY <1>7 DEF ReleaseCount, NotifyActivity
<1>8. ASSUME NEW c \in Closers, CloseCheck(c) PROVE DrainedIsEmpty'
  <2>1. CASE active = 0
    <3>1. closed /\ Admitted = {}
      BY <1>8, <2>1, ZeroIsEmpty DEF CloseCheck, CloserClosed
    <3>. QED
      BY <1>8, <3>1 DEF CloseCheck
  <2>2. CASE active # 0
    BY <1>8, <2>2 DEF CloseCheck
  <2>. QED
    BY <2>1, <2>2
<1>9. ASSUME NEW c \in Closers, CloseSubscribe(c) \/ CloseStore(c) \/ CloseBroadcast(c)
                                \/ CloseWake(c) \/ CloseTimeout(c)
      PROVE DrainedIsEmpty'
  BY <1>9 DEF CloseSubscribe, CloseStore, CloseBroadcast, CloseWake, CloseTimeout
<1>10. ASSUME UNCHANGED vars PROVE DrainedIsEmpty'
  BY <1>10 DEF vars
<1>. QED
  BY <1>1, <1>2, <1>3, <1>4, <1>5, <1>6, <1>7, <1>8, <1>9, <1>10
  DEF Next, OpRuns, CloserRuns

-----------------------------------------------------------------------------
\* The invariant holds at the start and is kept by every step (lifecycle.rs:59-93).
THEOREM Inductive == Spec => []IndInv
<1>1. Init => IndInv
  <2>. SUFFICES ASSUME Init PROVE IndInv
    OBVIOUS
  <2>1. Registered = {}
    BY DEF Init, Registered, Counted
  <2>2. ActiveCounts
    BY <2>1, FS_EmptySet DEF ActiveCounts, Init
  <2>. QED
    BY <2>2 DEF Init, IndInv, TypeOK, CloserClosed, DrainedIsEmpty, OpPc, CloserPc
<1>2. IndInv /\ [Next]_vars => IndInv'
  BY CountStep, TypeStep, ClosedStep, DrainedStep DEF IndInv
<1>. QED
  BY <1>1, <1>2, PTL DEF Spec

\* Every reachable state is well typed; in particular the usize counter of
\* operations never goes below zero (lifecycle.rs:98).
THEOREM TypeCorrect == Spec => []TypeOK
BY Inductive, PTL DEF IndInv

\* The counter always equals the number of live registrations (lifecycle.rs:59-70).
THEOREM CountCorrect == Spec => []ActiveCounts
BY Inductive, PTL DEF IndInv

\* No guard is held once close has returned Ok (lifecycle.rs:58, 77-93).
THEOREM DrainCorrect == Spec => []DrainedIsEmpty
BY Inductive, PTL DEF IndInv
-----------------------------------------------------------------------------
\* A parked close has a wake-up pending or somebody left to send one: the guard
\* is released before the release is announced (lifecycle.rs:97-101), and close
\* subscribes before it reads the counter (lifecycle.rs:78).
THEOREM WakeupCorrect == Spec => []NoLostWakeup
<1>1. Init => NoLostWakeup
  BY DEF Init, NoLostWakeup
<1>2. IndInv /\ NoLostWakeup /\ [Next]_vars => NoLostWakeup'
  <2>. SUFFICES ASSUME IndInv, NoLostWakeup, [Next]_vars PROVE NoLostWakeup'
    OBVIOUS
  <2>. USE DEF IndInv, TypeOK, NoLostWakeup, Counted, Goto, Step, shared
  <2>1. ASSUME NEW o \in Ops, EnsureOpen(o) \/ Register(o) \/ Recheck(o) PROVE NoLostWakeup'
    BY <2>1 DEF EnsureOpen, Register, Recheck
  <2>2. ASSUME NEW o \in Ops, SubscribeShutdown(o) \/ BorrowShutdown(o) PROVE NoLostWakeup'
    BY <2>2 DEF SubscribeShutdown, BorrowShutdown
  <2>3. ASSUME NEW o \in Ops, ShutdownChanged(o) \/ WorkDone(o) PROVE NoLostWakeup'
    BY <2>3 DEF ShutdownChanged, WorkDone
  <2>4. ASSUME NEW o \in Ops, ReleaseCount(o) \/ NotifyActivity(o) PROVE NoLostWakeup'
    BY <2>4 DEF ReleaseCount, NotifyActivity
  <2>5. ASSUME NEW c \in Closers, CloseCheck(c) PROVE NoLostWakeup'
    <3>1. ASSUME active # 0 PROVE \E o \in Ops : op[o] \in Counted
      <4>1. Registered # {}
        BY <3>1, FS_EmptySet DEF ActiveCounts
      <4>. QED
        BY <4>1 DEF Registered
    <3>. QED
      BY <2>5, <3>1 DEF CloseCheck
  <2>6. ASSUME NEW c \in Closers, CloseSubscribe(c) \/ CloseStore(c) \/ CloseBroadcast(c)
                                  \/ CloseWake(c) \/ CloseTimeout(c)
        PROVE NoLostWakeup'
    BY <2>6 DEF CloseSubscribe, CloseStore, CloseBroadcast, CloseWake, CloseTimeout
  <2>7. ASSUME UNCHANGED vars PROVE NoLostWakeup'
    BY <2>7 DEF vars
  <2>. QED
    BY <2>1, <2>2, <2>3, <2>4, <2>5, <2>6, <2>7 DEF Next, OpRuns, CloserRuns
<1>. QED
  BY <1>1, <1>2, Inductive, PTL DEF Spec

\* An operation parked on the shutdown channel is told of the shutdown, however
\* its subscription raced with the broadcast (lifecycle.rs:106-109).
THEOREM ShutdownCorrect == Spec => []NoLostShutdown
<1>1. Init => NoLostShutdown
  BY DEF Init, NoLostShutdown
<1>2. TypeOK /\ NoLostShutdown /\ [Next]_vars => NoLostShutdown'
  <2>. SUFFICES ASSUME TypeOK, NoLostShutdown, [Next]_vars PROVE NoLostShutdown'
    OBVIOUS
  <2>. USE DEF TypeOK, NoLostShutdown, Goto, Step, shared
  <2>1. ASSUME NEW o \in Ops, OpRuns(o) \/ EnsureOpen(o) \/ WorkDone(o) PROVE NoLostShutdown'
    BY <2>1 DEF OpRuns, EnsureOpen, Register, Recheck, SubscribeShutdown, BorrowShutdown,
       ShutdownChanged, WorkDone, ReleaseCount, NotifyActivity
  <2>2. ASSUME NEW c \in Closers, CloserRuns(c) \/ CloseSubscribe(c) \/ CloseTimeout(c)
        PROVE NoLostShutdown'
    BY <2>2 DEF CloserRuns, CloseSubscribe, CloseStore, CloseBroadcast, CloseCheck,
       CloseWake, CloseTimeout
  <2>3. ASSUME UNCHANGED vars PROVE NoLostShutdown'
    BY <2>3 DEF vars
  <2>. QED
    BY <2>1, <2>2, <2>3 DEF Next
<1>. QED
  BY <1>1, <1>2, TypeCorrect, PTL DEF Spec

-----------------------------------------------------------------------------
\* The fine-grained protocol implements the atomic gate (lifecycle.rs:58-93).
THEOREM ImplementsGate == Spec => GateSpec
<1>1. Init => Gate!Init
  BY DEF Init, Gate!Init, Admitted, Guarded
<1>2. IndInv /\ [Next]_vars => [Gate!Next]_(Gate!gateVars)
  <2>. SUFFICES ASSUME IndInv, [Next]_vars PROVE [Gate!Next]_(Gate!gateVars)
    OBVIOUS
  <2>. USE DEF IndInv, TypeOK, Admitted, Guarded, Goto, Step, shared, Gate!gateVars
  <2>1. ASSUME NEW o \in Ops, Recheck(o) PROVE [Gate!Next]_(Gate!gateVars)
    <3>1. CASE closed
      BY <2>1, <3>1 DEF Recheck
    <3>2. CASE ~closed
      <4>1. Gate!Enter(o)
        BY <2>1, <3>2 DEF Recheck, Gate!Enter
      <4>. QED
        BY <4>1 DEF Gate!Next
    <3>. QED
      BY <3>1, <3>2
  <2>2. ASSUME NEW o \in Ops, ReleaseCount(o) PROVE [Gate!Next]_(Gate!gateVars)
    <3>1. Gate!Leave(o)
      BY <2>2 DEF ReleaseCount, Gate!Leave
    <3>. QED
      BY <3>1 DEF Gate!Next
  <2>3. ASSUME NEW o \in Ops, EnsureOpen(o) \/ Register(o) \/ NotifyActivity(o) \/ WorkDone(o)
        PROVE UNCHANGED Gate!gateVars
    BY <2>3 DEF EnsureOpen, Register, NotifyActivity, WorkDone
  <2>4. ASSUME NEW o \in Ops, SubscribeShutdown(o) \/ BorrowShutdown(o) \/ ShutdownChanged(o)
        PROVE UNCHANGED Gate!gateVars
    BY <2>4 DEF SubscribeShutdown, BorrowShutdown, ShutdownChanged
  <2>5. ASSUME NEW c \in Closers, CloseStore(c) PROVE Gate!Shut
    BY <2>5 DEF CloseStore, Gate!Shut
  <2>6. ASSUME NEW c \in Closers, CloseCheck(c) PROVE [Gate!Next]_(Gate!gateVars)
    <3>1. CASE active = 0
      <4>1. closed /\ Admitted = {}
        BY <2>6, <3>1, ZeroIsEmpty DEF CloseCheck, CloserClosed
      <4>2. Gate!Drain
        BY <2>6, <3>1, <4>1 DEF CloseCheck, Gate!Drain
      <4>. QED
        BY <4>2 DEF Gate!Next
    <3>2. CASE active # 0
      BY <2>6, <3>2 DEF CloseCheck
    <3>. QED
      BY <3>1, <3>2
  <2>7. ASSUME NEW c \in Closers, CloseSubscribe(c) \/ CloseBroadcast(c) \/ CloseWake(c)
                                  \/ CloseTimeout(c)
        PROVE UNCHANGED Gate!gateVars
    BY <2>7 DEF CloseSubscribe, CloseBroadcast, CloseWake, CloseTimeout
  <2>8. ASSUME UNCHANGED vars PROVE UNCHANGED Gate!gateVars
    BY <2>8 DEF vars
  <2>. QED
    BY <2>1, <2>2, <2>3, <2>4, <2>5, <2>6, <2>7, <2>8 DEF Next, OpRuns, CloserRuns, Gate!Next
<1>. QED
  BY <1>1, <1>2, Inductive, PTL DEF Spec, GateSpec, Gate!Spec
=============================================================================
