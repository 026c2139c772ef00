---------------------------- MODULE TopicAdminProofs ----------------------------
(***************************************************************************)
(* Proofs about TopicAdmin, for any finite set of callers, any number of   *)
(* calls and any texts of the broker's other errors.                       *)
(***************************************************************************)
EXTENDS TopicAdmin, FiniteSetTheorems, TLAPS

PcValues == {"idle", "started", "awaiting", "counting", "ended"}

\* What a broker can answer.
Answers == {NoAnswer, Done} \cup {Error(t) : t \in Refusals \cup {AlreadyThere, NotThere}}

AnswersTyped == answer \in [Callers -> Answers]

\* A call has a number, health_check counts nothing, and after close has returned
\* nobody holds a guard.
CallsSound ==
  /\ \A p \in Callers : /\ pc[p] # "idle" => calls[p] >= 1
                        /\ pc[p] = "counting" => kind[p] # "health"
  /\ drained => ~open /\ inside = {}

\* None of the texts of the broker's other errors holds a phrase that the two
\* classifiers look for.  connection.rs:169 knows one that does.
RefusalsTellNothing ==
  \A t \in Refusals : ~IsTopicAlreadyExists(t) /\ ~IsTopicMissing(t)

\* A request's answer belongs to the call that waits for it: what it says was so
\* during this call, for every caller that counts on it or has concluded with it.
AnswersTrue ==
  \A p \in Callers :
    /\ pc[p] \in {"idle", "started"} => answer[p] = NoAnswer
    /\ /\ pc[p] # "idle" /\ kind[p] # "health"
       /\ answer[p].here /\ Succeeds(kind[p], answer[p])
       => saw[p]
    /\ pc[p] = "counting" => saw[p]
    /\ pc[p] = "ended" /\ out[p] = "ok" /\ kind[p] # "health" => saw[p]

IndInv == TypeOK /\ CallsSound /\ CountsExact

-----------------------------------------------------------------------------
LEMMA Concluding ==
  ASSUME TypeOK, NEW p \in Callers, NEW o \in Outcomes, Conclude(p, o)
  PROVE  /\ pc' \in [Callers -> PcValues] /\ out' \in [Callers -> Outcomes]
         /\ kind' = kind /\ calls' = calls /\ pc'[p] = "ended" /\ out'[p] = o
         /\ \A q \in Callers \ {p} : pc'[q] = pc[q] /\ out'[q] = out[q]
BY DEF TypeOK, Conclude, PcValues

\* What a step has to show for the types, when p moves at most.
LEMMA TypeMoves ==
  ASSUME TypeOK, NEW p \in Callers,
         pc' \in [Callers -> PcValues], out' \in [Callers -> Outcomes], kind' \in [Callers -> Kinds],
         calls' \in [Callers -> 0..MaxCalls], inside' \subseteq Callers,
         \A q \in Callers \ {p} : pc'[q] = pc[q] /\ (q \in inside => q \in inside'),
         pc'[p] \in {"started", "awaiting", "counting"} => p \in inside',
         sent' \subseteq Callers \X (1..MaxCalls) \X Kinds,
         saw' \in [Callers -> BOOLEAN], returned' \in [Kinds -> Nat],
         count' \in [{"ensured", "deleted"} -> Nat],
         UNCHANGED <<open, drained, shutdown, exists>>
  PROVE  TypeOK'
BY DEF TypeOK, PcValues

LEMMA TypeStep == TypeOK /\ CallsSound /\ [Next]_vars => TypeOK'
<1>. SUFFICES ASSUME TypeOK, CallsSound, [Next]_vars PROVE TypeOK'
  OBVIOUS
<1>t. /\ pc \in [Callers -> PcValues] /\ out \in [Callers -> Outcomes] /\ kind \in [Callers -> Kinds]
      /\ calls \in [Callers -> 0..MaxCalls] /\ inside \subseteq Callers
      /\ \A p \in Callers : pc[p] \in {"started", "awaiting", "counting"} => p \in inside
      /\ sent \subseteq Callers \X (1..MaxCalls) \X Kinds
      /\ saw \in [Callers -> BOOLEAN] /\ returned \in [Kinds -> Nat]
      /\ count \in [{"ensured", "deleted"} -> Nat] /\ MaxCalls \in Nat
  BY AdminAssumption DEF TypeOK, PcValues
<1>1. ASSUME NEW p \in Callers, NEW k \in Kinds, Call(p, k) PROVE TypeOK'
  <2>1. calls[p] + 1 \in 0..MaxCalls
    BY <1>1, <1>t DEF Call, MayCall
  <2>2. calls' \in [Callers -> 0..MaxCalls] /\ kind' \in [Callers -> Kinds]
    BY <1>1, <1>t, <2>1 DEF Call
  <2>3. /\ pc' \in [Callers -> PcValues] /\ out' \in [Callers -> Outcomes]
        /\ \A q \in Callers \ {p} : pc'[q] = pc[q] /\ (q \in inside => q \in inside')
        /\ pc'[p] \in {"started", "awaiting", "counting"} => p \in inside'
        /\ inside' \subseteq Callers /\ UNCHANGED <<open, drained>>
    BY <1>1, <1>t DEF Call, PcValues, Outcomes, Gate!Enter, gate
  <2>4. saw' \in [Callers -> BOOLEAN]
    BY <1>1, <1>t DEF Call, Wanted
  <2>. QED
    BY <1>1, <1>t, <2>2, <2>3, <2>4, TypeMoves DEF Call
<1>2. ASSUME NEW p \in Callers, Begin(p) \/ Failed(p) \/ TimedOut(p) \/ Cancelled(p) \/ Answered(p)
      PROVE  TypeOK'
  <2>1. UNCHANGED <<gate, shutdown, net, count, returned>> /\ pc[p] \in {"started", "awaiting"}
    BY <1>2 DEF Begin, Failed, TimedOut, Cancelled, Answered
  <2>2. /\ pc' \in [Callers -> PcValues] /\ out' \in [Callers -> Outcomes] /\ kind' = kind /\ calls' = calls
        /\ \A q \in Callers \ {p} : pc'[q] = pc[q]
    BY <1>2, <1>t, Concluding DEF Begin, Failed, TimedOut, Cancelled, Answered, ToCounting, Outcomes, PcValues
  <2>3. p \in inside
    BY <1>t, <2>1
  <2>. QED
    BY <1>t, <2>1, <2>2, <2>3, TypeMoves DEF gate, net
<1>3. ASSUME NEW p \in Callers, Transmit(p) PROVE TypeOK'
  <2>1. Request(p) \in Callers \X (1..MaxCalls) \X Kinds
    BY <1>3, <1>t DEF Transmit, Request, CallsSound
  <2>. QED
    BY <1>3, <1>t, <2>1, TypeMoves DEF Transmit, gate, task
<1>4. ASSUME NEW p \in Callers, Record(p) PROVE TypeOK'
  <2>1. count' \in [{"ensured", "deleted"} -> Nat]
    BY <1>4, <1>t DEF Record, Counter
  <2>2. /\ pc' \in [Callers -> PcValues] /\ out' \in [Callers -> Outcomes] /\ kind' = kind /\ calls' = calls
        /\ pc'[p] = "ended" /\ \A q \in Callers \ {p} : pc'[q] = pc[q]
    BY <1>4, Concluding DEF Record, Outcomes
  <2>. QED
    BY <1>4, <1>t, <2>1, <2>2, TypeMoves DEF Record, gate, net
<1>5. ASSUME NEW p \in Callers, Return(p) PROVE TypeOK'
  <2>1. returned' \in [Kinds -> Nat]
    BY <1>5, <1>t DEF Return
  <2>2. /\ pc' \in [Callers -> PcValues] /\ out' \in [Callers -> Outcomes] /\ kind' \in [Callers -> Kinds]
        /\ pc'[p] = "idle" /\ \A q \in Callers \ {p} : pc'[q] = pc[q]
        /\ saw' \in [Callers -> BOOLEAN]
    BY <1>5, <1>t DEF Return, PcValues, Outcomes, Kinds
  <2>3. inside' = inside \ {p} /\ UNCHANGED <<open, drained>>
    BY <1>5 DEF Return, Gate!Leave
  <2>. QED
    BY <1>5, <1>t, <2>1, <2>2, <2>3, TypeMoves DEF Return
<1>6. ASSUME NEW r \in sent, Creates(r) \/ Deletes(r) \/ Lists(r) \/ Refuses(r) PROVE TypeOK'
  <2>1. exists \in BOOLEAN
    BY DEF TypeOK
  <2>2. PICK there \in BOOLEAN : \E a : Handle(r, there, a)
    BY <1>6, <2>1 DEF Creates, Deletes, Lists, Refuses
  <2>3. saw' \in [Callers -> BOOLEAN]
    BY <1>t, <2>2 DEF Handle, Wanted
  <2>. QED
    BY <2>2, <2>3 DEF Handle, TypeOK, gate, task
<1>7. CASE Close \/ Broadcast \/ CloseReturns \/ UNCHANGED vars
  BY <1>7 DEF Close, Broadcast, CloseReturns, Gate!Shut, Gate!Drain, TypeOK, gate, task, net, vars
<1>. QED
  BY <1>1, <1>2, <1>3, <1>4, <1>5, <1>6, <1>7 DEF Next, Runs

LEMMA CallsMove ==
  ASSUME CallsSound, NEW p \in Callers,
         \A q \in Callers \ {p} : pc'[q] = pc[q] /\ kind'[q] = kind[q] /\ calls'[q] = calls[q],
         pc'[p] # "idle" => calls'[p] >= 1,
         pc'[p] = "counting" => kind'[p] # "health",
         UNCHANGED <<open, drained>>, ~open => inside' \subseteq inside
  PROVE  CallsSound'
BY DEF CallsSound

LEMMA CallsStep == TypeOK /\ CallsSound /\ [Next]_vars => CallsSound'
<1>. SUFFICES ASSUME TypeOK, CallsSound, [Next]_vars PROVE CallsSound'
  OBVIOUS
<1>t. /\ pc \in [Callers -> PcValues] /\ out \in [Callers -> Outcomes] /\ kind \in [Callers -> Kinds]
      /\ calls \in [Callers -> 0..MaxCalls] /\ MaxCalls \in Nat
      /\ \A q \in Callers : pc[q] # "idle" => calls[q] >= 1
  BY AdminAssumption DEF TypeOK, PcValues, CallsSound
<1>1. ASSUME NEW p \in Callers, NEW k \in Kinds, Call(p, k) PROVE CallsSound'
  BY <1>1, <1>t, CallsMove DEF Call, Gate!Enter, gate
<1>2. ASSUME NEW p \in Callers, Begin(p) \/ Failed(p) \/ TimedOut(p) \/ Cancelled(p) \/ Answered(p)
      PROVE  CallsSound'
  BY <1>2, <1>t, CallsMove DEF Begin, Failed, TimedOut, Cancelled, Answered, ToCounting, Conclude, gate
<1>3. ASSUME NEW p \in Callers, Record(p) PROVE CallsSound'
  BY <1>3, <1>t, CallsMove DEF Record, Conclude, gate
<1>7. ASSUME NEW p \in Callers, Return(p) PROVE CallsSound'
  <2>1. /\ inside' \subseteq inside /\ UNCHANGED <<open, drained>>
        /\ pc'[p] = "idle"
        /\ \A q \in Callers \ {p} : pc'[q] = pc[q] /\ kind'[q] = kind[q] /\ calls'[q] = calls[q]
    BY <1>7, <1>t DEF Return, Gate!Leave
  <2>. QED
    BY <2>1, CallsMove
<1>4. ASSUME NEW p \in Callers, Transmit(p) PROVE CallsSound'
  BY <1>4 DEF Transmit, CallsSound, gate, task
<1>5. ASSUME NEW r \in sent, Creates(r) \/ Deletes(r) \/ Lists(r) \/ Refuses(r) PROVE CallsSound'
  <2>1. UNCHANGED <<pc, kind, calls, open, inside, drained>>
    BY <1>5 DEF Creates, Deletes, Lists, Refuses, Handle, gate, task
  <2>. QED
    BY <2>1 DEF CallsSound
<1>6. CASE Close \/ Broadcast \/ CloseReturns \/ UNCHANGED vars
  <2>1. UNCHANGED <<pc, kind, calls>>
    BY <1>6 DEF Close, Broadcast, CloseReturns, task, vars
  <2>2. drained' => ~open' /\ inside' = {}
    BY <1>6 DEF Close, Broadcast, CloseReturns, Gate!Shut, Gate!Drain, CallsSound, gate, vars
  <2>. QED
    BY <2>1, <2>2 DEF CallsSound
<1>. QED
  BY <1>1, <1>2, <1>3, <1>4, <1>5, <1>6, <1>7 DEF Next, Runs

-----------------------------------------------------------------------------
(***************************************************************************)
(* The counters.                                                           *)
(***************************************************************************)
\* The calls that have ended in Ok and not yet returned.
Ended(k) == {p \in Callers : pc[p] = "ended" /\ kind[p] = k /\ out[p] = "ok"}

LEMMA EndedMoved ==
  ASSUME NEW p \in Callers, NEW k,
         \A q \in Callers \ {p} : pc'[q] = pc[q] /\ kind'[q] = kind[q] /\ out'[q] = out[q]
  PROVE  /\ Cardinality(Ended(k)) \in Nat
         /\ Cardinality(Ended(k)') =
              Cardinality(Ended(k))
                + (IF pc'[p] = "ended" /\ kind'[p] = k /\ out'[p] = "ok" THEN 1 ELSE 0)
                - (IF pc[p] = "ended" /\ kind[p] = k /\ out[p] = "ok" THEN 1 ELSE 0)
<1>1. IsFiniteSet(Ended(k))
  <2>1. Ended(k) \in SUBSET Callers
    BY DEF Ended
  <2>. QED
    BY <2>1, AdminAssumption, FS_Subset
<1>2. Cardinality(Ended(k)) \in Nat
  BY <1>1, FS_CardinalityType
<1>3. Ended(k)' = IF pc'[p] = "ended" /\ kind'[p] = k /\ out'[p] = "ok"
                    THEN Ended(k) \cup {p} ELSE Ended(k) \ {p}
  BY DEF Ended
<1>4. p \in Ended(k) <=> pc[p] = "ended" /\ kind[p] = k /\ out[p] = "ok"
  BY DEF Ended
<1>5. /\ Cardinality(Ended(k) \cup {p})
           = IF p \in Ended(k) THEN Cardinality(Ended(k)) ELSE Cardinality(Ended(k)) + 1
      /\ Cardinality(Ended(k) \ {p})
           = IF p \in Ended(k) THEN Cardinality(Ended(k)) - 1 ELSE Cardinality(Ended(k))
  BY <1>1, FS_AddElement, FS_RemoveElement
<1>. QED
  BY <1>2, <1>3, <1>4, <1>5

\* A step that counts nothing and returns from nothing.
LEMMA NothingCounted ==
  ASSUME CountsExact, UNCHANGED <<count, returned>>, NEW p \in Callers,
         \A q \in Callers \ {p} : pc'[q] = pc[q] /\ kind'[q] = kind[q] /\ out'[q] = out[q],
         pc[p] # "ended",
         pc'[p] = "ended" /\ out'[p] = "ok" => kind'[p] = "health"
  PROVE  CountsExact'
<1>1. ASSUME NEW k \in {"ensure", "delete"}
      PROVE  count'[Counter(k)] = returned'[k] + Cardinality(Ended(k)')
  <2>1. count[Counter(k)] = returned[k] + Cardinality(Ended(k))
    BY DEF CountsExact, Ended
  <2>2. Cardinality(Ended(k)') = Cardinality(Ended(k))
    BY EndedMoved
  <2>. QED
    BY <2>1, <2>2
<1>. QED
  BY <1>1 DEF CountsExact, Ended

LEMMA CountStep == TypeOK /\ CallsSound /\ CountsExact /\ [Next]_vars => CountsExact'
<1>. SUFFICES ASSUME TypeOK, CallsSound, CountsExact, [Next]_vars PROVE CountsExact'
  OBVIOUS
<1>t. /\ pc \in [Callers -> PcValues] /\ out \in [Callers -> Outcomes] /\ kind \in [Callers -> Kinds]
      /\ returned \in [Kinds -> Nat] /\ count \in [{"ensured", "deleted"} -> Nat]
  BY DEF TypeOK, PcValues
<1>c. \A k \in {"ensure", "delete"} :
        /\ count[Counter(k)] = returned[k] + Cardinality(Ended(k))
        /\ Counter(k) \in {"ensured", "deleted"} /\ returned[k] \in Nat
  BY <1>t DEF CountsExact, Ended, Counter, Kinds
<1>1. ASSUME NEW p \in Callers, NEW k \in Kinds, Call(p, k) PROVE CountsExact'
  BY <1>1, <1>t, NothingCounted DEF Call
<1>2. ASSUME NEW p \in Callers, Begin(p) \/ Failed(p) \/ TimedOut(p) \/ Cancelled(p) \/ Answered(p)
      PROVE  CountsExact'
  BY <1>2, <1>t, NothingCounted DEF Begin, Failed, TimedOut, Cancelled, Answered, ToCounting, Conclude
<1>3. ASSUME NEW p \in Callers, Record(p) PROVE CountsExact'
  <2>1. /\ pc[p] = "counting" /\ kind[p] \in {"ensure", "delete"} /\ returned' = returned /\ kind' = kind
        /\ count' = [count EXCEPT ![Counter(kind[p])] = @ + 1]
        /\ pc'[p] = "ended" /\ out'[p] = "ok"
        /\ \A q \in Callers \ {p} : pc'[q] = pc[q] /\ out'[q] = out[q]
    BY <1>3, <1>t DEF Record, Conclude, CallsSound, Kinds
  <2>2. ASSUME NEW k \in {"ensure", "delete"}
        PROVE  count'[Counter(k)] = returned'[k] + Cardinality(Ended(k)')
    <3>1. /\ Cardinality(Ended(k)) \in Nat
          /\ Cardinality(Ended(k)') = Cardinality(Ended(k)) + (IF kind[p] = k THEN 1 ELSE 0)
      BY <2>1, EndedMoved
    <3>2. count'[Counter(k)] = count[Counter(k)] + (IF kind[p] = k THEN 1 ELSE 0)
      BY <1>t, <2>1 DEF Counter
    <3>. QED
      BY <1>c, <2>1, <3>1, <3>2
  <2>. QED
    BY <2>2 DEF CountsExact, Ended
<1>4. ASSUME NEW p \in Callers, Return(p) PROVE CountsExact'
  <2>1. /\ pc[p] = "ended" /\ count' = count /\ pc'[p] = "idle"
        /\ returned' = [k \in Kinds |-> returned[k] + IF k = kind[p] /\ out[p] = "ok" THEN 1 ELSE 0]
        /\ \A q \in Callers \ {p} : pc'[q] = pc[q] /\ kind'[q] = kind[q] /\ out'[q] = out[q]
    BY <1>4, <1>t DEF Return
  <2>2. ASSUME NEW k \in {"ensure", "delete"}
        PROVE  count'[Counter(k)] = returned'[k] + Cardinality(Ended(k)')
    <3>1. /\ Cardinality(Ended(k)) \in Nat
          /\ Cardinality(Ended(k)')
               = Cardinality(Ended(k)) - (IF k = kind[p] /\ out[p] = "ok" THEN 1 ELSE 0)
      BY <2>1, EndedMoved
    <3>2. returned'[k] = returned[k] + (IF k = kind[p] /\ out[p] = "ok" THEN 1 ELSE 0)
      BY <2>1 DEF Kinds
    <3>. QED
      BY <1>c, <2>1, <3>1, <3>2
  <2>. QED
    BY <2>2 DEF CountsExact, Ended
<1>5. ASSUME UNCHANGED <<pc, kind, out, count, returned>> PROVE CountsExact'
  BY <1>5 DEF CountsExact
<1>6. ASSUME NEW r \in sent, Creates(r) \/ Deletes(r) \/ Lists(r) \/ Refuses(r)
      PROVE  UNCHANGED <<pc, kind, out, count, returned>>
  BY <1>6 DEF Creates, Deletes, Lists, Refuses, Handle, task
<1>7. ASSUME Close \/ Broadcast \/ CloseReturns \/ UNCHANGED vars \/ \E p \in Callers : Transmit(p)
      PROVE  UNCHANGED <<pc, kind, out, count, returned>>
  BY <1>7 DEF Close, Broadcast, CloseReturns, Transmit, task, vars
<1>. QED
  BY <1>1, <1>2, <1>3, <1>4, <1>5, <1>6, <1>7 DEF Next, Runs

LEMMA InitInv == Init => IndInv
<1>. SUFFICES ASSUME Init PROVE IndInv
  OBVIOUS
<1>. USE DEF Init, Gate!Init
<1>1. TypeOK
  <2>1. calls \in [Callers -> 0..MaxCalls]
    BY AdminAssumption
  <2>2. kind \in [Callers -> Kinds] /\ out \in [Callers -> Outcomes] /\ returned \in [Kinds -> Nat]
    BY DEF Kinds, Outcomes
  <2>3. pc \in [Callers -> PcValues] /\ \A p \in Callers : pc[p] = "idle"
    BY DEF PcValues
  <2>. QED
    BY <2>1, <2>2, <2>3 DEF TypeOK, PcValues
<1>2. CallsSound
  BY DEF CallsSound
<1>3. CountsExact
  <2>1. \A k : Ended(k) = {}
    BY DEF Ended
  <2>2. \A k : Cardinality(Ended(k)) = 0
    BY <2>1, FS_EmptySet
  <2>3. \A k \in {"ensure", "delete"} : count[Counter(k)] = 0 /\ returned[k] = 0
    BY DEF Counter, Kinds
  <2>. QED
    BY <2>2, <2>3 DEF CountsExact, Ended
<1>. QED
  BY <1>1, <1>2, <1>3 DEF IndInv

LEMMA Invariance == Spec => []IndInv
<1>1. IndInv /\ [Next]_vars => IndInv'
  BY TypeStep, CallsStep, CountStep DEF IndInv
<1>. QED
  BY InitInv, <1>1, PTL DEF Spec

\* The variables of the callers keep their types, and who works on a call holds a
\* guard (topic.rs:22, 68).
THEOREM TypeCorrect == Spec => []TypeOK
<1>1. IndInv => TypeOK
  BY DEF IndInv
<1>. QED
  BY <1>1, Invariance, PTL

\* topics_ensured and topics_deleted count the calls that succeed, each once
\* (connection/topic.rs:47, 88).
THEOREM CountersExact == Spec => []CountsExact
<1>1. IndInv => CountsExact
  BY DEF IndInv
<1>. QED
  BY <1>1, Invariance, PTL

\* Once close has returned Ok nobody sends a request and nobody counts a success.
THEOREM DrainIsQuiet == Spec => QuietAfterDrain
<1>1. ASSUME IndInv, [Next]_vars, drained PROVE sent' \subseteq sent /\ count' = count
  <2>1. \A p \in Callers : pc[p] \notin {"started", "awaiting", "counting"}
    BY <1>1 DEF IndInv, CallsSound, TypeOK
  <2>2. ASSUME NEW p \in Callers, Runs(p) \/ Transmit(p) \/ Answered(p) \/ Failed(p)
        PROVE  UNCHANGED <<sent, count>>
    BY <2>1, <2>2 DEF Runs, Begin, Record, TimedOut, Cancelled, Return, Transmit, Answered, Failed, net
  <2>3. ASSUME NEW p \in Callers, NEW k \in Kinds, Call(p, k) PROVE UNCHANGED <<sent, count>>
    BY <2>3 DEF Call
  <2>4. ASSUME NEW r \in sent, Creates(r) \/ Deletes(r) \/ Lists(r) \/ Refuses(r)
        PROVE  sent' \subseteq sent /\ count' = count
    BY <2>4 DEF Creates, Deletes, Lists, Refuses, Handle
  <2>5. CASE Close \/ Broadcast \/ CloseReturns \/ UNCHANGED vars
    BY <2>5 DEF Close, Broadcast, CloseReturns, net, vars
  <2>. QED
    BY <1>1, <2>2, <2>3, <2>4, <2>5 DEF Next
<1>2. IndInv /\ [Next]_vars => [drained => sent' \subseteq sent /\ count' = count]_vars
  BY <1>1
<1>. QED
  BY <1>2, Invariance, PTL DEF Spec, QuietAfterDrain

-----------------------------------------------------------------------------
(***************************************************************************)
(* What an Ok means.                                                       *)
(***************************************************************************)
\* Each of the broker's answers tells what the topic is like once it is handled.
LEMMA AnswersTell ==
  ASSUME RefusalsTellNothing, TypeOK, NEW r \in sent, NEW there, NEW a, Handle(r, there, a),
         \/ r[3] = "ensure" /\ there = TRUE /\ a \in {Done, Error(AlreadyThere)}
         \/ r[3] = "delete" /\ there = FALSE /\ a \in {Done, Error(NotThere)}
         \/ r[3] = "health" /\ there = exists /\ a = Done
         \/ there = exists /\ \E text \in Refusals : a = Error(text)
  PROVE  /\ a \in Answers
         /\ r[3] # "health" /\ Succeeds(r[3], a) => Wanted(r[3], there)
<1>1. r[3] \in Kinds
  BY DEF TypeOK
<1>2. a \in Answers
  BY DEF Answers
<1>3. ASSUME NEW text \in Refusals, a = Error(text) PROVE ~Succeeds(r[3], a)
  BY <1>3 DEF Error, Succeeds, RefusalsTellNothing
<1>. QED
  BY <1>1, <1>2, <1>3 DEF Wanted, Kinds

LEMMA AnswersMove ==
  ASSUME TypeOK, AnswersTyped, AnswersTrue, NEW p \in Callers,
         \A q \in Callers \ {p} : /\ pc'[q] = pc[q] /\ kind'[q] = kind[q] /\ out'[q] = out[q]
                                 /\ answer'[q] = answer[q] /\ saw'[q] = saw[q],
         answer' \in [Callers -> Answers],
         pc'[p] \in {"idle", "started"} => answer'[p] = NoAnswer,
         pc'[p] # "idle" /\ kind'[p] # "health" /\ answer'[p].here /\ Succeeds(kind'[p], answer'[p])
           => saw'[p],
         pc'[p] = "counting" => saw'[p],
         pc'[p] = "ended" /\ out'[p] = "ok" /\ kind'[p] # "health" => saw'[p]
  PROVE  AnswersTyped' /\ AnswersTrue'
BY DEF AnswersTyped, AnswersTrue

LEMMA AnswersStep ==
  ASSUME RefusalsTellNothing, TypeOK, CallsSound, AnswersTyped, AnswersTrue, [Next]_vars
  PROVE  AnswersTyped' /\ AnswersTrue'
<1>t. /\ pc \in [Callers -> PcValues] /\ out \in [Callers -> Outcomes] /\ kind \in [Callers -> Kinds]
      /\ saw \in [Callers -> BOOLEAN] /\ answer \in [Callers -> Answers]
  BY DEF TypeOK, PcValues, AnswersTyped
<1>n. NoAnswer.here = FALSE /\ NoAnswer \in Answers
  BY DEF NoAnswer, Answers
<1>1. ASSUME NEW p \in Callers, NEW k \in Kinds, Call(p, k) PROVE AnswersTyped' /\ AnswersTrue'
  <2>1. answer[p] = NoAnswer /\ answer' = answer
    BY <1>1 DEF Call, AnswersTrue
  <2>2. /\ \A q \in Callers \ {p} : /\ pc'[q] = pc[q] /\ kind'[q] = kind[q] /\ out'[q] = out[q]
                                    /\ saw'[q] = saw[q]
        /\ pc'[p] # "counting" /\ (pc'[p] = "ended" => out'[p] = "closed")
    BY <1>1, <1>t DEF Call
  <2>. QED
    BY <1>t, <1>n, <2>1, <2>2, AnswersMove
<1>2. ASSUME NEW p \in Callers, Begin(p) \/ Failed(p) \/ TimedOut(p) \/ Cancelled(p)
      PROVE  AnswersTyped' /\ AnswersTrue'
  <2>1. /\ UNCHANGED <<answer, saw, kind>> /\ pc[p] # "idle"
        /\ \A q \in Callers \ {p} : pc'[q] = pc[q] /\ out'[q] = out[q]
        /\ pc'[p] \in {"ended", "awaiting"} /\ (pc'[p] = "ended" => out'[p] # "ok")
    BY <1>2, <1>t DEF Begin, Failed, TimedOut, Cancelled, Conclude, net
  <2>2. kind[p] # "health" /\ answer[p].here /\ Succeeds(kind[p], answer[p]) => saw[p]
    BY <2>1 DEF AnswersTrue
  <2>. QED
    BY <1>t, <2>1, <2>2, AnswersMove
<1>3. ASSUME NEW p \in Callers, Answered(p) PROVE AnswersTyped' /\ AnswersTrue'
  <2>1. /\ UNCHANGED <<answer, saw, kind>> /\ pc[p] # "idle" /\ answer[p].here
        /\ \A q \in Callers \ {p} : pc'[q] = pc[q] /\ out'[q] = out[q]
        /\ \/ pc'[p] = "ended" /\ out'[p] = "failed"
           \/ pc'[p] = "ended" /\ kind[p] = "health"
           \/ pc'[p] = "counting" /\ kind[p] # "health" /\ Succeeds(kind[p], answer[p])
    BY <1>3, <1>t DEF Answered, ToCounting, Conclude, net
  <2>2. kind[p] # "health" /\ answer[p].here /\ Succeeds(kind[p], answer[p]) => saw[p]
    BY <2>1 DEF AnswersTrue
  <2>. QED
    BY <1>t, <2>1, <2>2, AnswersMove
<1>4. ASSUME NEW p \in Callers, Record(p) PROVE AnswersTyped' /\ AnswersTrue'
  <2>1. /\ UNCHANGED <<answer, saw, kind>> /\ pc[p] = "counting" /\ pc'[p] = "ended"
        /\ \A q \in Callers \ {p} : pc'[q] = pc[q] /\ out'[q] = out[q]
    BY <1>4, <1>t DEF Record, Conclude, net
  <2>2. saw[p]
    BY <2>1 DEF AnswersTrue
  <2>. QED
    BY <1>t, <2>1, <2>2, AnswersMove
<1>5. ASSUME NEW p \in Callers, Return(p) PROVE AnswersTyped' /\ AnswersTrue'
  <2>1. /\ answer' = [answer EXCEPT ![p] = NoAnswer] /\ pc'[p] = "idle"
        /\ \A q \in Callers \ {p} : /\ pc'[q] = pc[q] /\ kind'[q] = kind[q] /\ out'[q] = out[q]
                                    /\ saw'[q] = saw[q]
    BY <1>5, <1>t DEF Return
  <2>. QED
    BY <1>t, <1>n, <2>1, AnswersMove
<1>6. ASSUME NEW r \in sent, Creates(r) \/ Deletes(r) \/ Lists(r) \/ Refuses(r)
      PROVE  AnswersTyped' /\ AnswersTrue'
  <2>1. PICK there, a : /\ Handle(r, there, a)
                        /\ a \in Answers
                        /\ r[3] # "health" /\ Succeeds(r[3], a) => Wanted(r[3], there)
    <3>1. CASE Creates(r)
      BY <3>1, AnswersTell DEF Creates
    <3>2. CASE Deletes(r)
      BY <3>2, AnswersTell DEF Deletes
    <3>3. CASE Lists(r)
      BY <3>3, AnswersTell DEF Lists
    <3>4. CASE Refuses(r)
      BY <3>4, AnswersTell DEF Refuses
    <3>. QED
      BY <1>6, <3>1, <3>2, <3>3, <3>4
  <2>2. /\ UNCHANGED <<pc, kind, out>>
        /\ \A q \in Callers : saw'[q] = (saw[q] \/ (pc[q] # "idle" /\ Wanted(kind[q], there)))
    BY <2>1 DEF Handle, task
  <2>3. \/ answer' = answer
        \/ /\ Request(r[1]) = r /\ pc[r[1]] = "awaiting" /\ r[1] \in Callers
           /\ answer' = [answer EXCEPT ![r[1]] = a]
    BY <2>1 DEF Handle, TypeOK
  <2>4. answer' \in [Callers -> Answers]
    BY <1>t, <2>1, <2>3
  <2>5. ASSUME NEW q \in Callers
        PROVE  /\ pc[q] \in {"idle", "started"} => answer'[q] = NoAnswer
               /\ /\ pc[q] # "idle" /\ kind[q] # "health"
                  /\ answer'[q].here /\ Succeeds(kind[q], answer'[q])
                  => saw'[q]
    <3>1. CASE answer'[q] = answer[q]
      BY <2>2, <3>1 DEF AnswersTrue
    <3>2. CASE answer'[q] # answer[q]
      <4>1. q = r[1] /\ Request(q) = r /\ pc[q] = "awaiting" /\ answer'[q] = a
        BY <1>t, <2>3, <3>2
      <4>2. r[3] = kind[q]
        BY <4>1 DEF Request
      <4>. QED
        BY <2>1, <2>2, <4>1, <4>2
    <3>. QED
      BY <3>1, <3>2
  <2>6. ASSUME NEW q \in Callers
        PROVE  /\ pc[q] = "counting" => saw'[q]
               /\ pc[q] = "ended" /\ out[q] = "ok" /\ kind[q] # "health" => saw'[q]
    BY <2>2 DEF AnswersTrue
  <2>. QED
    BY <2>2, <2>4, <2>5, <2>6 DEF AnswersTyped, AnswersTrue
<1>7. ASSUME Close \/ Broadcast \/ CloseReturns \/ UNCHANGED vars \/ \E p \in Callers : Transmit(p)
      PROVE  AnswersTyped' /\ AnswersTrue'
  <2>1. UNCHANGED <<pc, kind, out, answer, saw>>
    BY <1>7 DEF Close, Broadcast, CloseReturns, Transmit, task, net, vars
  <2>. QED
    BY <2>1 DEF AnswersTyped, AnswersTrue
<1>. QED
  BY <1>1, <1>2, <1>3, <1>4, <1>5, <1>6, <1>7 DEF Next, Runs

\* An Ok of ensure_topic or delete_topic was true at some moment of the call, given
\* that the broker's other errors hold none of the phrases that stand for "exists"
\* and "missing" (connection/topic.rs:45, 87); connection.rs:169 shows one that does.
THEOREM OkTrue ==
  ASSUME RefusalsTellNothing
  PROVE  Spec => []OkIsTrue
<1>1. Init => AnswersTyped /\ AnswersTrue
  <2>1. NoAnswer.here = FALSE /\ NoAnswer \in Answers
    BY DEF NoAnswer, Answers
  <2>. QED
    BY <2>1 DEF Init, AnswersTyped, AnswersTrue
<1>2. IndInv /\ AnswersTyped /\ AnswersTrue /\ [Next]_vars => AnswersTyped' /\ AnswersTrue'
  BY AnswersStep DEF IndInv
<1>3. AnswersTrue => OkIsTrue
  BY DEF AnswersTrue, OkIsTrue
<1>. QED
  BY <1>1, <1>2, <1>3, Invariance, PTL DEF Spec
=============================================================================
