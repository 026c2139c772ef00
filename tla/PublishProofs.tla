----------------------------- MODULE PublishProofs -----------------------------
(***************************************************************************)
(* Proofs about Publish, for any finite set of publishers and any number   *)
(* of attempts: the invariants that MCPublish checks, and that nothing     *)
(* moves once close has returned.                                          *)
(***************************************************************************)
EXTENDS Publish, SequenceTheorems, FiniteSetTheorems, TLAPS

PcValues == {"idle", "lookup", "looking", "found", "ready", "awaiting",
             "outcome", "recording", "counted", "done"}

\* The places of a call of publish before its request leaves.
Before   == {"lookup", "looking", "found", "ready"}
Ending   == {"outcome", "recording", "counted"}
\* The outcomes that are found under the guard of the produce.
Produced == {"ok", "odd", "refused", "unsure", "timeout"}

\* Every request the broker has or has written.
Requests == sent \cup DOMAIN place

\* The publishers that may yet send a request before a call of theirs returns a
\* timeout or an open error.
Fresh == {p \in Publishers : \/ pc[p] \in Before \cup {"idle"}
                             \/ pc[p] = "counted" /\ out[p] = "lookup"}

\* A guard is held where the code holds one, and after close has returned nowhere.
GuardsHeld ==
  /\ drained => ~open /\ inside = {}
  /\ \A p \in Publishers :
       \/ pc[p] \in {"looking", "ready", "awaiting"}
       \/ pc[p] \in Ending /\ out[p] \in Produced
       => p \in inside

\* The number of a call, and the outcome it has on the way to its counters.
CallsSound ==
  \A p \in Publishers :
    /\ pc[p] = "idle" => attempt[p] < MaxAttempts
    /\ pc[p] # "idle" => attempt[p] >= 1
    /\ pc[p] = "outcome" => out[p] \notin {"lookup", "config"}
    /\ pc[p] = "recording" => out[p] \in {"timeout", "cancelled"}

\* The broker's answer names the place of the request's own record.
PlacesTrue ==
  \A r \in DOMAIN place : place[r] \in 0..Len(log) - 1 /\ log[place[r] + 1] = r[1]

\* Requests belong to calls that were made; the present one has sent none before
\* it is at its produce.
RequestsPast ==
  \A r \in Requests : /\ r[2] <= attempt[r[1]]
                      /\ pc[r[1]] \in Before => r[2] < attempt[r[1]]

\* A request is written at most once, and each record in the log is a request's.
WrittenOnce == sent \cap DOMAIN place = {} /\ Len(log) = Cardinality(DOMAIN place)

\* Whoever may send again without having paid for it is counted beforehand.
CopiesPaid ==
  Cardinality(Requests) + Cardinality(Fresh)
    <= Cardinality(Publishers) + returned["unsure"] + returned["timeout"]

IndInv == /\ TypeOK /\ GuardsHeld /\ CallsSound /\ PlacesTrue /\ OkIsWritten
          /\ CountsExact /\ RequestsPast /\ WrittenOnce /\ CopiesPaid

-----------------------------------------------------------------------------
LEMMA ErrorOutcomes == \A e : ErrorOutcome(e) \in {"unsure", "refused"}
BY DEF ErrorOutcome

\* The record a publisher appends.
LEMMA LogAppended ==
  ASSUME log \in Seq(Publishers), NEW p \in Publishers, log' = Append(log, p)
  PROVE  /\ log' \in Seq(Publishers) /\ Len(log') = Len(log) + 1 /\ Len(log) \in Nat
         /\ log'[Len(log) + 1] = p
         /\ \A i \in 1..Len(log) : log'[i] = log[i]
BY AppendProperties, LenProperties

LEMMA PcMoves ==
  ASSUME TypeOK, NEW p \in Publishers
  PROVE  /\ \A to \in PcValues : [pc EXCEPT ![p] = to] \in [Publishers -> PcValues]
         /\ \A o \in Outcomes : Conclude(p, o) =>
              /\ pc' \in [Publishers -> PcValues]
              /\ out' \in [Publishers -> Outcomes]
BY DEF TypeOK, PcValues, Conclude

\* A step of publisher p that leaves the records and the counters alone.
LEMMA TypeMoves ==
  ASSUME TypeOK, UNCHANGED <<log, place, result, stats>>,
         pc' \in [Publishers -> PcValues], out' \in [Publishers -> Outcomes],
         attempt' \in [Publishers -> 0..MaxAttempts],
         sent' \subseteq Publishers \X (1..MaxAttempts),
         inside' \subseteq Publishers,
         open' \in BOOLEAN, drained' \in BOOLEAN, shutdown' \in BOOLEAN
  PROVE  TypeOK'
BY DEF TypeOK, PcValues, stats

LEMMA TypeStep == TypeOK /\ CallsSound /\ PlacesTrue /\ [Next]_vars => TypeOK'
<1>. SUFFICES ASSUME TypeOK, CallsSound, PlacesTrue, [Next]_vars PROVE TypeOK'
  OBVIOUS
<1>t. /\ pc \in [Publishers -> PcValues] /\ out \in [Publishers -> Outcomes]
      /\ attempt \in [Publishers -> 0..MaxAttempts]
      /\ sent \subseteq Publishers \X (1..MaxAttempts) /\ inside \subseteq Publishers
      /\ open \in BOOLEAN /\ drained \in BOOLEAN /\ shutdown \in BOOLEAN
  BY DEF TypeOK, PcValues
<1>l. log \in Seq(Publishers) /\ Len(log) \in Nat
  BY LenProperties DEF TypeOK
<1>1. ASSUME NEW p \in Publishers, Call(p) PROVE TypeOK'
  <2>1. attempt[p] + 1 \in 0..MaxAttempts
    BY <1>1, PublishAssumption DEF Call, CallsSound, TypeOK
  <2>2. attempt' \in [Publishers -> 0..MaxAttempts]
    BY <1>1, <1>t, <2>1 DEF Call
  <2>3. pc' \in [Publishers -> PcValues] /\ out' \in [Publishers -> Outcomes]
    BY <1>1, <1>t, PcMoves DEF Call, Goto, PcValues, Outcomes
  <2>. QED
    BY <1>1, <1>t, <2>2, <2>3, TypeMoves DEF Call, gate, remote
<1>2. ASSUME NEW p \in Publishers, LookupStart(p) \/ LookupEnd(p) \/ Guard(p) PROVE TypeOK'
  <2>1. pc' \in [Publishers -> PcValues] /\ out' \in [Publishers -> Outcomes]
    BY <1>2, <1>t, PcMoves DEF LookupStart, LookupEnd, Guard, Goto, PcValues, Outcomes
  <2>2. inside' \subseteq Publishers /\ UNCHANGED <<open, drained>>
    BY <1>2, <1>t DEF LookupStart, LookupEnd, Guard, Gate!Enter, Gate!Leave, gate
  <2>. QED
    BY <1>2, <1>t, <2>1, <2>2, TypeMoves DEF LookupStart, LookupEnd, Guard, remote
<1>3. ASSUME NEW p \in Publishers, Produce(p) PROVE TypeOK'
  <2>1. pc' \in [Publishers -> PcValues] /\ out' \in [Publishers -> Outcomes]
    BY <1>3, <1>t, PcMoves DEF Produce, Goto, PcValues, Outcomes
  <2>2. Request(p) \in Publishers \X (1..MaxAttempts)
    BY <1>3, <1>t, PublishAssumption DEF Produce, Goto, CallsSound, Request
  <2>. QED
    BY <1>3, <1>t, <2>1, <2>2, TypeMoves DEF Produce, gate
<1>4. ASSUME NEW p \in Publishers, Acked(p) PROVE TypeOK'
  <2>1. place[Request(p)] \in NoOffset..Len(log) - 1
    <3>1. place[Request(p)] \in 0..Len(log) - 1
      BY <1>4 DEF Acked, PlacesTrue
    <3>. QED
      BY <1>l, <3>1 DEF NoOffset
  <2>2. result' \in [Publishers -> NoOffset..Len(log) - 1]
    <3>1. result' = result \/ result' = [result EXCEPT ![p] = place[Request(p)]]
      BY <1>4 DEF Acked
    <3>. QED
      BY <2>1, <3>1 DEF TypeOK
  <2>3. pc' \in [Publishers -> PcValues] /\ out' \in [Publishers -> Outcomes]
    BY <1>4, PcMoves DEF Acked, Outcomes
  <2>. QED
    BY <1>4, <2>2, <2>3 DEF Acked, TypeOK, gate, remote, stats, PcValues
<1>5. ASSUME NEW p \in Publishers, Failed(p) PROVE TypeOK'
  <2>1. pc' \in [Publishers -> PcValues] /\ out' \in [Publishers -> Outcomes]
    BY <1>5, ErrorOutcomes, PcMoves DEF Failed, Outcomes
  <2>. QED
    BY <1>5, <1>t, <2>1, TypeMoves DEF Failed, gate
<1>6. ASSUME NEW p \in Publishers, TimedOut(p) \/ Cancelled(p) PROVE TypeOK'
  <2>1. pc' \in [Publishers -> PcValues] /\ out' \in [Publishers -> Outcomes]
    BY <1>6, PcMoves DEF TimedOut, Cancelled, Outcomes
  <2>. QED
    BY <1>6, <1>t, <2>1, TypeMoves DEF TimedOut, Cancelled, gate, remote
<1>7. ASSUME NEW p \in Publishers, RecordFirst(p) \/ RecordSecond(p) PROVE TypeOK'
  <2>1. PICK c \in Counters : count' = [count EXCEPT ![c] = @ + 1]
    BY <1>7 DEF RecordFirst, RecordSecond, Bump, FirstCounter, Counters
  <2>2. count' \in [Counters -> Nat]
    BY <2>1 DEF TypeOK
  <2>3. pc' \in [Publishers -> PcValues]
    BY <1>7, PcMoves DEF RecordFirst, RecordSecond, Goto, PcValues
  <2>. QED
    BY <1>7, <2>2, <2>3 DEF RecordFirst, RecordSecond, TypeOK, gate, remote, PcValues
<1>8. ASSUME NEW p \in Publishers, Return(p) PROVE TypeOK'
  <2>1. pc' \in [Publishers -> PcValues]
    BY <1>8, PcMoves DEF Return, Goto, PcValues
  <2>2. returned' \in [Outcomes -> Nat]
    <3>1. out[p] \in Outcomes /\ returned \in [Outcomes -> Nat]
      BY <1>t DEF TypeOK
    <3>2. returned' = [returned EXCEPT ![out[p]] = returned[out[p]] + 1]
      BY <1>8 DEF Return
    <3>. QED
      BY <3>1, <3>2
  <2>. QED
    BY <1>8, <2>1, <2>2 DEF Return, Gate!Leave, TypeOK, remote, PcValues
<1>9. ASSUME NEW r \in sent, BrokerWrites(r) PROVE TypeOK'
  <2>1. r[1] \in Publishers /\ log' = Append(log, r[1])
    BY <1>9, <1>t DEF BrokerWrites
  <2>2. log' \in Seq(Publishers) /\ Len(log') = Len(log) + 1
    BY <1>l, <2>1, LogAppended
  <2>3. DOMAIN place' = DOMAIN place \cup {r} /\ sent' \subseteq sent
    BY <1>9 DEF BrokerWrites
  <2>4. result' \in [Publishers -> NoOffset..Len(log') - 1]
    <3>1. result' = result /\ result \in [Publishers -> NoOffset..Len(log) - 1]
      BY <1>9 DEF BrokerWrites, TypeOK
    <3>2. NoOffset..Len(log) - 1 \subseteq NoOffset..Len(log') - 1
      BY <1>l, <2>2 DEF NoOffset
    <3>. QED
      BY <3>1, <3>2
  <2>5. DOMAIN place' \subseteq Publishers \X (1..MaxAttempts)
    BY <1>t, <2>3 DEF TypeOK
  <2>. QED
    BY <1>9, <2>2, <2>3, <2>4, <2>5 DEF BrokerWrites, TypeOK, gate, stats
<1>10. ASSUME NEW r \in sent, RequestLost(r) PROVE TypeOK'
  BY <1>10, <1>t, TypeMoves DEF RequestLost, gate
<1>11. CASE Close \/ Broadcast \/ CloseReturns
  BY <1>11, <1>t, TypeMoves DEF Close, Broadcast, CloseReturns, Gate!Shut, Gate!Drain, gate, remote
<1>12. CASE UNCHANGED vars
  BY <1>12, <1>t, TypeMoves DEF vars, gate, remote
<1>. QED
  BY <1>1, <1>2, <1>3, <1>4, <1>5, <1>6, <1>7, <1>8, <1>9, <1>10, <1>11, <1>12
  DEF Next, Answered, Runs

-----------------------------------------------------------------------------
(***************************************************************************)
(* The guards.                                                             *)
(***************************************************************************)
\* Publisher p moves, at most its own guard is taken or dropped.
LEMMA GuardMoves ==
  ASSUME TypeOK, GuardsHeld, NEW p \in Publishers,
         \A q \in Publishers \ {p} : pc'[q] = pc[q] /\ out'[q] = out[q],
         \A q \in Publishers \ {p} : q \in inside => q \in inside',
         UNCHANGED <<open, drained>>, ~open => inside' \subseteq inside,
         \/ pc'[p] \in {"looking", "ready", "awaiting"}
         \/ pc'[p] \in Ending /\ out'[p] \in Produced
         => p \in inside'
  PROVE  GuardsHeld'
BY DEF GuardsHeld

LEMMA GuardStep == TypeOK /\ GuardsHeld /\ CallsSound /\ [Next]_vars => GuardsHeld'
<1>. SUFFICES ASSUME TypeOK, GuardsHeld, CallsSound, [Next]_vars PROVE GuardsHeld'
  OBVIOUS
<1>t. pc \in [Publishers -> PcValues] /\ out \in [Publishers -> Outcomes]
  BY DEF TypeOK, PcValues
<1>h. \A q \in Publishers :
        /\ pc[q] \in {"looking", "ready", "awaiting"} => q \in inside
        /\ pc[q] \in Ending /\ out[q] \in Produced => q \in inside
  BY DEF GuardsHeld
<1>. USE DEF Goto, Conclude, Ending, Produced, gate
<1>1. ASSUME NEW p \in Publishers, Call(p) \/ Produce(p) PROVE GuardsHeld'
  BY <1>1, <1>t, <1>h, GuardMoves DEF Call, Produce
<1>2. ASSUME NEW p \in Publishers, LookupStart(p) \/ LookupEnd(p) PROVE GuardsHeld'
  BY <1>2, <1>t, <1>h, GuardMoves DEF LookupStart, LookupEnd, Gate!Enter, Gate!Leave
<1>3. ASSUME NEW p \in Publishers, Guard(p) PROVE GuardsHeld'
  BY <1>3, <1>t, <1>h, GuardMoves DEF Guard, Gate!Enter
<1>4. ASSUME NEW p \in Publishers, Acked(p) \/ TimedOut(p) \/ Cancelled(p) PROVE GuardsHeld'
  BY <1>4, <1>t, <1>h, GuardMoves DEF Acked, TimedOut, Cancelled
<1>5. ASSUME NEW p \in Publishers, Failed(p) PROVE GuardsHeld'
  BY <1>5, <1>t, <1>h, ErrorOutcomes, GuardMoves DEF Failed
<1>6. ASSUME NEW p \in Publishers, RecordFirst(p) \/ RecordSecond(p) PROVE GuardsHeld'
  BY <1>6, <1>t, <1>h, GuardMoves DEF RecordFirst, RecordSecond
<1>7. ASSUME NEW p \in Publishers, Return(p) PROVE GuardsHeld'
  BY <1>7, <1>t, <1>h, GuardMoves DEF Return, Gate!Leave
<1>8. ASSUME NEW r \in sent, BrokerWrites(r) \/ RequestLost(r) PROVE GuardsHeld'
  BY <1>8 DEF BrokerWrites, RequestLost, GuardsHeld
<1>9. CASE Close \/ Broadcast \/ CloseReturns \/ UNCHANGED vars
  BY <1>9 DEF Close, Broadcast, CloseReturns, Gate!Shut, Gate!Drain, GuardsHeld, vars
<1>. QED
  BY <1>1, <1>2, <1>3, <1>4, <1>5, <1>6, <1>7, <1>8, <1>9 DEF Next, Answered, Runs

(***************************************************************************)
(* The calls.                                                              *)
(***************************************************************************)
LEMMA CallMoves ==
  ASSUME CallsSound, NEW p \in Publishers,
         \A q \in Publishers \ {p} : pc'[q] = pc[q] /\ out'[q] = out[q] /\ attempt'[q] = attempt[q],
         pc'[p] = "idle" => attempt'[p] < MaxAttempts,
         pc'[p] # "idle" => attempt'[p] >= 1,
         pc'[p] = "outcome" => out'[p] \notin {"lookup", "config"},
         pc'[p] = "recording" => out'[p] \in {"timeout", "cancelled"}
  PROVE  CallsSound'
BY DEF CallsSound

LEMMA CallsStep == TypeOK /\ CallsSound /\ [Next]_vars => CallsSound'
<1>. SUFFICES ASSUME TypeOK, CallsSound, [Next]_vars PROVE CallsSound'
  OBVIOUS
<1>t. /\ pc \in [Publishers -> PcValues] /\ out \in [Publishers -> Outcomes]
      /\ attempt \in [Publishers -> 0..MaxAttempts] /\ MaxAttempts \in Nat
  BY PublishAssumption DEF TypeOK, PcValues
<1>h. \A q \in Publishers : pc[q] # "idle" => attempt[q] >= 1
  BY DEF CallsSound
<1>. USE DEF Goto, Conclude
<1>1. ASSUME NEW p \in Publishers, Call(p) PROVE CallsSound'
  BY <1>1, <1>t, CallMoves DEF Call
<1>2. ASSUME NEW p \in Publishers, LookupStart(p) \/ LookupEnd(p) \/ Guard(p) PROVE CallsSound'
  BY <1>2, <1>t, <1>h, CallMoves DEF LookupStart, LookupEnd, Guard
<1>3. ASSUME NEW p \in Publishers, Produce(p) \/ Acked(p) \/ TimedOut(p) \/ Cancelled(p)
      PROVE  CallsSound'
  BY <1>3, <1>t, <1>h, CallMoves DEF Produce, Acked, TimedOut, Cancelled
<1>4. ASSUME NEW p \in Publishers, Failed(p) PROVE CallsSound'
  BY <1>4, <1>t, <1>h, ErrorOutcomes, CallMoves DEF Failed
<1>5. ASSUME NEW p \in Publishers, RecordFirst(p) \/ RecordSecond(p) PROVE CallsSound'
  BY <1>5, <1>t, <1>h, CallMoves DEF RecordFirst, RecordSecond
<1>6. ASSUME NEW p \in Publishers, Return(p) PROVE CallsSound'
  BY <1>6, <1>t, <1>h, CallMoves DEF Return
<1>7. ASSUME NEW r \in sent, BrokerWrites(r) \/ RequestLost(r) PROVE CallsSound'
  BY <1>7 DEF BrokerWrites, RequestLost, CallsSound
<1>8. CASE Close \/ Broadcast \/ CloseReturns \/ UNCHANGED vars
  BY <1>8 DEF Close, Broadcast, CloseReturns, CallsSound, vars
<1>. QED
  BY <1>1, <1>2, <1>3, <1>4, <1>5, <1>6, <1>7, <1>8 DEF Next, Answered, Runs

-----------------------------------------------------------------------------
(***************************************************************************)
(* The log, the requests and what they cost.                               *)
(***************************************************************************)
LEMMA PlacesStep ==
  TypeOK /\ PlacesTrue /\ OkIsWritten /\ [Next]_vars => PlacesTrue' /\ OkIsWritten'
<1>. SUFFICES ASSUME TypeOK, PlacesTrue, OkIsWritten, [Next]_vars
              PROVE  PlacesTrue' /\ OkIsWritten'
  OBVIOUS
<1>t. /\ log \in Seq(Publishers) /\ Len(log) \in Nat
      /\ sent \subseteq Publishers \X (1..MaxAttempts)
      /\ result \in [Publishers -> NoOffset..Len(log) - 1]
  BY LenProperties DEF TypeOK
<1>1. ASSUME NEW r \in sent, BrokerWrites(r) PROVE PlacesTrue' /\ OkIsWritten'
  <2>1. log' = Append(log, r[1]) /\ r[1] \in Publishers
    BY <1>1, <1>t DEF BrokerWrites
  <2>2. /\ Len(log') = Len(log) + 1 /\ log'[Len(log) + 1] = r[1]
        /\ \A i \in 1..Len(log) : log'[i] = log[i]
    BY <1>t, <2>1, LogAppended
  <2>3. /\ DOMAIN place' = DOMAIN place \cup {r} /\ result' = result
        /\ \A q \in DOMAIN place' : place'[q] = IF q = r THEN Len(log) ELSE place[q]
    BY <1>1 DEF BrokerWrites
  <2>4. ASSUME NEW q \in DOMAIN place'
        PROVE  place'[q] \in 0..Len(log') - 1 /\ log'[place'[q] + 1] = q[1]
    <3>1. CASE q = r
      BY <1>t, <2>2, <2>3, <3>1
    <3>2. CASE q # r
      <4>1. place'[q] = place[q] /\ place[q] \in 0..Len(log) - 1 /\ log[place[q] + 1] = q[1]
        BY <2>3, <2>4, <3>2 DEF PlacesTrue
      <4>2. place[q] + 1 \in 1..Len(log) /\ place[q] \in 0..Len(log') - 1
        BY <1>t, <2>2, <4>1
      <4>3. log'[place[q] + 1] = q[1]
        BY <2>2, <4>1, <4>2
      <4>. QED
        BY <4>1, <4>2, <4>3
    <3>. QED
      BY <3>1, <3>2
  <2>5. ASSUME NEW q \in Publishers, result'[q] # NoOffset PROVE log'[result'[q] + 1] = q
    <3>1. result'[q] = result[q] /\ result[q] + 1 \in 1..Len(log)
      BY <1>t, <2>3, <2>5 DEF NoOffset
    <3>. QED
      BY <2>2, <2>5, <3>1 DEF OkIsWritten
  <2>. QED
    BY <2>4, <2>5 DEF PlacesTrue, OkIsWritten
<1>2. ASSUME NEW p \in Publishers, Acked(p) PROVE PlacesTrue' /\ OkIsWritten'
  <2>1. UNCHANGED <<log, place>> /\ Request(p) \in DOMAIN place
    BY <1>2 DEF Acked, remote
  <2>2. log[place[Request(p)] + 1] = p
    BY <2>1 DEF PlacesTrue, Request
  <2>3. result' = result \/ result' = [result EXCEPT ![p] = place[Request(p)]]
    BY <1>2 DEF Acked
  <2>4. \A q \in Publishers : result'[q] = result[q] \/ (q = p /\ result'[q] = place[Request(p)])
    BY <1>t, <2>3
  <2>. QED
    BY <2>1, <2>2, <2>4 DEF PlacesTrue, OkIsWritten
<1>3. CASE UNCHANGED <<log, place, result>>
  BY <1>3 DEF PlacesTrue, OkIsWritten
<1>4. ASSUME NEW p \in Publishers, Call(p) \/ Failed(p) \/ Runs(p) PROVE UNCHANGED <<log, place, result>>
  BY <1>4 DEF Call, Failed, Runs, LookupStart, LookupEnd, Guard, Produce, TimedOut, Cancelled,
     RecordFirst, RecordSecond, Return, remote
<1>5. ASSUME \/ Close \/ Broadcast \/ CloseReturns \/ UNCHANGED vars
             \/ \E r \in sent : RequestLost(r)
      PROVE  UNCHANGED <<log, place, result>>
  BY <1>5 DEF Close, Broadcast, CloseReturns, RequestLost, remote, vars
<1>. QED
  BY <1>1, <1>2, <1>3, <1>4, <1>5 DEF Next, Answered

\* The requests and the calls they belong to, when only p moves.
LEMMA RequestMoves ==
  ASSUME TypeOK, RequestsPast, NEW p \in Publishers, Requests' \subseteq Requests,
         \A q \in Publishers \ {p} : pc'[q] = pc[q] /\ attempt'[q] = attempt[q],
         attempt'[p] \in Int, attempt[p] <= attempt'[p],
         pc'[p] \in Before => pc[p] \in Before \/ attempt[p] < attempt'[p]
  PROVE  RequestsPast'
<1>1. \A r \in Requests : r[1] \in Publishers /\ r[2] \in Int /\ attempt[r[1]] \in Int
  BY DEF TypeOK, Requests
<1>2. SUFFICES ASSUME NEW r \in Requests
               PROVE  r[2] <= attempt'[r[1]] /\ (pc'[r[1]] \in Before => r[2] < attempt'[r[1]])
  BY DEF RequestsPast
<1>3. /\ r[2] <= attempt[r[1]]
      /\ pc[r[1]] \in Before => r[2] < attempt[r[1]]
  BY DEF RequestsPast
<1>4. CASE r[1] = p
  BY <1>1, <1>3, <1>4
<1>5. CASE r[1] # p
  BY <1>1, <1>3, <1>5
<1>. QED
  BY <1>4, <1>5

LEMMA RequestsStep == TypeOK /\ RequestsPast /\ [Next]_vars => RequestsPast'
<1>. SUFFICES ASSUME TypeOK, RequestsPast, [Next]_vars PROVE RequestsPast'
  OBVIOUS
<1>t. /\ pc \in [Publishers -> PcValues] /\ \A q \in Publishers : attempt[q] \in Int
      /\ attempt \in [Publishers -> 0..MaxAttempts]
  BY DEF TypeOK, PcValues
<1>. USE DEF Goto, Conclude, Before
<1>1. ASSUME NEW p \in Publishers, Call(p) PROVE RequestsPast'
  <2>1. Requests' = Requests
    BY <1>1 DEF Call, Requests, remote
  <2>2. /\ attempt' = [attempt EXCEPT ![p] = @ + 1]
        /\ \A q \in Publishers \ {p} : pc'[q] = pc[q]
    BY <1>1, <1>t DEF Call
  <2>. QED
    BY <1>t, <2>1, <2>2, RequestMoves
<1>2. ASSUME NEW p \in Publishers, LookupStart(p) \/ LookupEnd(p) \/ Guard(p) PROVE RequestsPast'
  <2>1. Requests' = Requests
    BY <1>2 DEF LookupStart, LookupEnd, Guard, Requests, remote
  <2>. QED
    BY <1>2, <1>t, <2>1, RequestMoves DEF LookupStart, LookupEnd, Guard
<1>3. ASSUME NEW p \in Publishers, Produce(p) PROVE RequestsPast'
  <2>1. UNCHANGED <<attempt, place>> /\ pc[p] = "ready"
    BY <1>3 DEF Produce
  <2>2. /\ \A q \in Publishers \ {p} : pc'[q] = pc[q]
        /\ pc'[p] \notin Before
        /\ Requests' \subseteq Requests \cup {Request(p)}
    BY <1>3, <1>t DEF Produce, Requests
  <2>3. SUFFICES ASSUME NEW r \in Requests'
                 PROVE  r[2] <= attempt[r[1]] /\ (pc'[r[1]] \in Before => r[2] < attempt[r[1]])
    BY <2>1 DEF RequestsPast
  <2>4. CASE r \in Requests
    <3>1. r[1] \in Publishers
      BY <2>4 DEF TypeOK, Requests
    <3>2. r[2] <= attempt[r[1]] /\ (pc[r[1]] \in Before => r[2] < attempt[r[1]])
      BY <2>4 DEF RequestsPast
    <3>. QED
      BY <2>2, <3>1, <3>2
  <2>5. CASE r = Request(p)
    BY <1>t, <2>2, <2>5 DEF Request
  <2>. QED
    BY <2>2, <2>4, <2>5
<1>4. ASSUME NEW p \in Publishers, Acked(p) \/ TimedOut(p) \/ Cancelled(p) \/ Failed(p)
      PROVE  RequestsPast'
  <2>1. Requests' \subseteq Requests /\ UNCHANGED attempt
    BY <1>4 DEF Acked, TimedOut, Cancelled, Failed, Requests, remote
  <2>2. /\ \A q \in Publishers \ {p} : pc'[q] = pc[q]
        /\ pc'[p] \notin Before
    BY <1>4, <1>t, ErrorOutcomes DEF Acked, TimedOut, Cancelled, Failed
  <2>. QED
    BY <1>t, <2>1, <2>2, RequestMoves
<1>5. ASSUME NEW p \in Publishers, RecordFirst(p) \/ RecordSecond(p) \/ Return(p)
      PROVE  RequestsPast'
  <2>1. Requests' = Requests /\ UNCHANGED attempt
    BY <1>5 DEF RecordFirst, RecordSecond, Return, Requests, remote
  <2>2. /\ \A q \in Publishers \ {p} : pc'[q] = pc[q]
        /\ pc'[p] \notin Before
    BY <1>5, <1>t DEF RecordFirst, RecordSecond, Return
  <2>. QED
    BY <1>t, <2>1, <2>2, RequestMoves
<1>6. ASSUME \/ \E r \in sent : BrokerWrites(r) \/ RequestLost(r)
             \/ Close \/ Broadcast \/ CloseReturns \/ UNCHANGED vars
      PROVE  RequestsPast'
  <2>1. UNCHANGED <<pc, attempt>>
    BY <1>6 DEF BrokerWrites, RequestLost, Close, Broadcast, CloseReturns, vars
  <2>2. Requests' \subseteq Requests
    <3>1. ASSUME NEW r \in sent, BrokerWrites(r) PROVE Requests' \subseteq Requests
      BY <3>1 DEF BrokerWrites, Requests
    <3>2. ASSUME NEW r \in sent, RequestLost(r) PROVE Requests' \subseteq Requests
      BY <3>2 DEF RequestLost, Requests
    <3>3. CASE Close \/ Broadcast \/ CloseReturns \/ UNCHANGED vars
      BY <3>3 DEF Close, Broadcast, CloseReturns, Requests, remote, vars
    <3>. QED
      BY <1>6, <3>1, <3>2, <3>3
  <2>. QED
    BY <2>1, <2>2 DEF RequestsPast
<1>. QED
  BY <1>1, <1>2, <1>3, <1>4, <1>5, <1>6 DEF Next, Answered, Runs

LEMMA FiniteRequests == TypeOK =>
  /\ IsFiniteSet(Requests) /\ Cardinality(Requests) \in Nat
  /\ IsFiniteSet(DOMAIN place) /\ Cardinality(DOMAIN place) \in Nat
<1>. SUFFICES ASSUME TypeOK PROVE
       /\ IsFiniteSet(Requests) /\ Cardinality(Requests) \in Nat
       /\ IsFiniteSet(DOMAIN place) /\ Cardinality(DOMAIN place) \in Nat
  OBVIOUS
<1>1. IsFiniteSet(Publishers \X (1..MaxAttempts))
  <2>1. 1 \in Int /\ MaxAttempts \in Int
    BY PublishAssumption
  <2>2. IsFiniteSet(1..MaxAttempts)
    BY <2>1, FS_Interval
  <2>. QED
    BY <2>2, PublishAssumption, FS_Product
<1>2. Requests \in SUBSET (Publishers \X (1..MaxAttempts)) /\ DOMAIN place \in SUBSET Requests
  BY DEF TypeOK, Requests
<1>3. IsFiniteSet(Requests)
  BY <1>1, <1>2, FS_Subset
<1>4. IsFiniteSet(DOMAIN place)
  BY <1>2, <1>3, FS_Subset
<1>. QED
  BY <1>3, <1>4, FS_CardinalityType

LEMMA FiniteFresh == IsFiniteSet(Fresh) /\ Cardinality(Fresh) \in Nat
<1>1. Fresh \in SUBSET Publishers
  BY DEF Fresh
<1>2. IsFiniteSet(Fresh)
  BY <1>1, PublishAssumption, FS_Subset
<1>. QED
  BY <1>2, FS_CardinalityType

LEMMA WrittenStep == TypeOK /\ RequestsPast /\ WrittenOnce /\ [Next]_vars => WrittenOnce'
<1>. SUFFICES ASSUME TypeOK, RequestsPast, WrittenOnce, [Next]_vars PROVE WrittenOnce'
  OBVIOUS
<1>1. ASSUME NEW p \in Publishers, Produce(p) PROVE WrittenOnce'
  <2>1. UNCHANGED <<log, place>> /\ sent' \subseteq sent \cup {Request(p)} /\ pc[p] = "ready"
    BY <1>1 DEF Produce, Goto
  <2>2. Request(p) \notin DOMAIN place
    <3>1. attempt[p] \in Int
      BY DEF TypeOK
    <3>2. Request(p)[1] = p /\ Request(p)[2] = attempt[p]
      BY DEF Request
    <3>. QED
      BY <2>1, <3>1, <3>2 DEF RequestsPast, Requests, Before
  <2>. QED
    BY <2>1, <2>2 DEF WrittenOnce
<1>2. ASSUME NEW r \in sent, BrokerWrites(r) PROVE WrittenOnce'
  <2>1. DOMAIN place' = DOMAIN place \cup {r} /\ r \notin DOMAIN place /\ sent' = sent \ {r}
    BY <1>2 DEF BrokerWrites, WrittenOnce
  <2>2. Cardinality(DOMAIN place') = Cardinality(DOMAIN place) + 1
    BY <2>1, FiniteRequests, FS_AddElement
  <2>3. Len(log') = Len(log) + 1
    <3>1. r[1] \in Publishers /\ log' = Append(log, r[1])
      BY <1>2 DEF BrokerWrites, TypeOK
    <3>. QED
      BY <3>1, LogAppended DEF TypeOK
  <2>. QED
    BY <2>1, <2>2, <2>3 DEF WrittenOnce
<1>3. ASSUME UNCHANGED <<log, place>>, sent' \subseteq sent PROVE WrittenOnce'
  BY <1>3 DEF WrittenOnce
<1>4. ASSUME NEW p \in Publishers, \/ Call(p) \/ Answered(p) \/ LookupStart(p) \/ LookupEnd(p)
             \/ Guard(p) \/ TimedOut(p) \/ Cancelled(p) \/ RecordFirst(p) \/ RecordSecond(p) \/ Return(p)
      PROVE  UNCHANGED <<log, place>> /\ sent' \subseteq sent
  BY <1>4 DEF Call, Answered, Acked, Failed, LookupStart, LookupEnd, Guard, TimedOut, Cancelled,
     RecordFirst, RecordSecond, Return, remote
<1>5. ASSUME \/ Close \/ Broadcast \/ CloseReturns \/ UNCHANGED vars
             \/ \E r \in sent : RequestLost(r)
      PROVE  UNCHANGED <<log, place>> /\ sent' \subseteq sent
  BY <1>5 DEF Close, Broadcast, CloseReturns, RequestLost, remote, vars
<1>. QED
  BY <1>1, <1>2, <1>3, <1>4, <1>5 DEF Next, Runs

\* No request more, nobody more that may send one for nothing.
LEMMA NothingSpent ==
  ASSUME TypeOK, CopiesPaid, Requests' \subseteq Requests, Fresh' \subseteq Fresh,
         returned'["unsure"] = returned["unsure"], returned'["timeout"] = returned["timeout"]
  PROVE  CopiesPaid'
<1>1. /\ Cardinality(Requests') <= Cardinality(Requests) /\ Cardinality(Requests') \in Nat
      /\ Cardinality(Fresh') <= Cardinality(Fresh) /\ Cardinality(Fresh') \in Nat
  <2>1. Requests' \in SUBSET Requests /\ Fresh' \in SUBSET Fresh
    OBVIOUS
  <2>. QED
    BY <2>1, FiniteRequests, FiniteFresh, FS_Subset, FS_CardinalityType
<1>2. /\ Cardinality(Requests) \in Nat /\ Cardinality(Fresh) \in Nat /\ Cardinality(Publishers) \in Nat
      /\ returned["unsure"] \in Nat /\ returned["timeout"] \in Nat
  BY FiniteRequests, FiniteFresh, PublishAssumption, FS_CardinalityType DEF TypeOK, Outcomes
<1>. QED
  BY <1>1, <1>2 DEF CopiesPaid

LEMMA CopiesStep == TypeOK /\ CallsSound /\ CopiesPaid /\ [Next]_vars => CopiesPaid'
<1>. SUFFICES ASSUME TypeOK, CallsSound, CopiesPaid, [Next]_vars PROVE CopiesPaid'
  OBVIOUS
<1>t. /\ pc \in [Publishers -> PcValues] /\ out \in [Publishers -> Outcomes]
      /\ returned \in [Outcomes -> Nat] /\ "unsure" \in Outcomes /\ "timeout" \in Outcomes
  BY DEF TypeOK, PcValues, Outcomes
<1>n. /\ Cardinality(Requests) \in Nat /\ Cardinality(Fresh) \in Nat /\ Cardinality(Publishers) \in Nat
      /\ returned["unsure"] \in Nat /\ returned["timeout"] \in Nat
  BY <1>t, FiniteRequests, FiniteFresh, PublishAssumption, FS_CardinalityType
<1>. USE DEF Goto, Conclude
<1>1. ASSUME NEW p \in Publishers, Produce(p) PROVE CopiesPaid'
  <2>1. CASE sent' = sent
    <3>1. Requests' = Requests /\ Fresh' \subseteq Fresh /\ returned' = returned
      BY <1>1, <1>t, <2>1 DEF Produce, Requests, Fresh, Before, stats
    <3>. QED
      BY <3>1, NothingSpent
  <2>2. CASE sent' # sent
    <3>1. /\ Requests' = Requests \cup {Request(p)} /\ returned' = returned
          /\ Fresh' = Fresh \ {p} /\ p \in Fresh
      BY <1>1, <1>t, <2>2 DEF Produce, Requests, Fresh, Before, stats
    <3>2. /\ Cardinality(Requests') \in Nat /\ Cardinality(Requests') <= Cardinality(Requests) + 1
          /\ Cardinality(Fresh') = Cardinality(Fresh) - 1
      <4>1. Cardinality(Requests \cup {Request(p)})
              = IF Request(p) \in Requests THEN Cardinality(Requests) ELSE Cardinality(Requests) + 1
        BY FiniteRequests, FS_AddElement
      <4>2. Cardinality(Fresh \ {p}) = IF p \in Fresh THEN Cardinality(Fresh) - 1 ELSE Cardinality(Fresh)
        BY FiniteFresh, FS_RemoveElement
      <4>. QED
        BY <1>n, <3>1, <4>1, <4>2
    <3>. QED
      BY <1>n, <3>1, <3>2 DEF CopiesPaid
  <2>. QED
    BY <2>1, <2>2
<1>2. ASSUME NEW p \in Publishers, Return(p) PROVE CopiesPaid'
  <2>1. /\ Requests' = Requests /\ returned' = [returned EXCEPT ![out[p]] = @ + 1]
        /\ pc[p] = "counted" /\ out' = out
    BY <1>2 DEF Return, Requests, remote
  <2>2. CASE out[p] \in {"unsure", "timeout"}
    <3>1. Fresh' \subseteq Fresh \cup {p}
      BY <1>2, <1>t DEF Return, Fresh
    <3>2. Cardinality(Fresh') \in Nat /\ Cardinality(Fresh') <= Cardinality(Fresh) + 1
      <4>1. IsFiniteSet(Fresh \cup {p}) /\ Cardinality(Fresh \cup {p}) <= Cardinality(Fresh) + 1
        <5>1. /\ IsFiniteSet(Fresh \cup {p})
              /\ Cardinality(Fresh \cup {p})
                   = IF p \in Fresh THEN Cardinality(Fresh) ELSE Cardinality(Fresh) + 1
          BY FiniteFresh, FS_AddElement
        <5>. QED
          BY <1>n, <5>1
      <4>2. IsFiniteSet(Fresh') /\ Cardinality(Fresh') <= Cardinality(Fresh \cup {p})
        BY <3>1, <4>1, FS_Subset
      <4>. QED
        BY <1>n, <4>1, <4>2, FS_CardinalityType
    <3>3. returned'["unsure"] + returned'["timeout"] = returned["unsure"] + returned["timeout"] + 1
      BY <1>t, <1>n, <2>1, <2>2
    <3>4. returned'["unsure"] \in Nat /\ returned'["timeout"] \in Nat
      BY <1>t, <1>n, <2>1, <2>2
    <3>. QED
      BY <1>n, <2>1, <3>2, <3>3, <3>4 DEF CopiesPaid
  <2>3. CASE out[p] \notin {"unsure", "timeout"}
    <3>1. returned'["unsure"] = returned["unsure"] /\ returned'["timeout"] = returned["timeout"]
      BY <1>t, <2>1, <2>3
    <3>2. Fresh' \subseteq Fresh
      BY <1>2, <1>t, <2>3 DEF Return, Fresh, Before, Retryable
    <3>. QED
      BY <2>1, <3>1, <3>2, NothingSpent
  <2>. QED
    BY <2>2, <2>3
<1>3. ASSUME NEW p \in Publishers,
             Call(p) \/ LookupStart(p) \/ LookupEnd(p) \/ Guard(p)
      PROVE CopiesPaid'
  <2>1. Requests' = Requests /\ returned' = returned
    BY <1>3 DEF Call, LookupStart, LookupEnd, Guard, Requests, remote, stats
  <2>2. Fresh' \subseteq Fresh
    BY <1>3, <1>t DEF Call, LookupStart, LookupEnd, Guard, Fresh, Before
  <2>. QED
    BY <2>1, <2>2, NothingSpent
<1>4. ASSUME NEW p \in Publishers, Answered(p) \/ TimedOut(p) \/ Cancelled(p) PROVE CopiesPaid'
  <2>1. Requests' \subseteq Requests /\ returned' = returned
    BY <1>4 DEF Answered, Acked, Failed, TimedOut, Cancelled, Requests, remote, stats
  <2>2. Fresh' \subseteq Fresh
    BY <1>4, <1>t, ErrorOutcomes DEF Answered, Acked, Failed, TimedOut, Cancelled, Fresh, Before
  <2>. QED
    BY <2>1, <2>2, NothingSpent
<1>5. ASSUME NEW p \in Publishers, RecordFirst(p) \/ RecordSecond(p) PROVE CopiesPaid'
  <2>1. Requests' = Requests /\ returned' = returned
    BY <1>5 DEF RecordFirst, RecordSecond, Requests, remote
  <2>2. Fresh' \subseteq Fresh
    BY <1>5, <1>t DEF RecordFirst, RecordSecond, CallsSound, Fresh, Before
  <2>. QED
    BY <2>1, <2>2, NothingSpent
<1>6. ASSUME \/ \E r \in sent : BrokerWrites(r) \/ RequestLost(r)
             \/ Close \/ Broadcast \/ CloseReturns \/ UNCHANGED vars
      PROVE  CopiesPaid'
  <2>1. UNCHANGED <<pc, out, returned>>
    BY <1>6 DEF BrokerWrites, RequestLost, Close, Broadcast, CloseReturns, stats, vars
  <2>2. Requests' \subseteq Requests
    <3>1. ASSUME NEW r \in sent, BrokerWrites(r) PROVE Requests' \subseteq Requests
      BY <3>1 DEF BrokerWrites, Requests
    <3>2. ASSUME NEW r \in sent, RequestLost(r) PROVE Requests' \subseteq Requests
      BY <3>2 DEF RequestLost, Requests
    <3>3. CASE Close \/ Broadcast \/ CloseReturns \/ UNCHANGED vars
      BY <3>3 DEF Close, Broadcast, CloseReturns, Requests, remote, vars
    <3>. QED
      BY <1>6, <3>1, <3>2, <3>3
  <2>3. Fresh' = Fresh
    BY <2>1 DEF Fresh
  <2>. QED
    BY <2>1, <2>2, <2>3, NothingSpent
<1>. QED
  BY <1>1, <1>2, <1>3, <1>4, <1>5, <1>6 DEF Next, Answered, Runs

-----------------------------------------------------------------------------
(***************************************************************************)
(* The counters.                                                           *)
(***************************************************************************)
Only(p) == \A q \in Publishers \ {p} : pc'[q] = pc[q] /\ out'[q] = out[q]

LEMMA AtMoved ==
  ASSUME TypeOK, NEW p \in Publishers, Only(p), NEW s, NEW o
  PROVE  /\ Cardinality(At(s, o)) \in Nat
         /\ Cardinality(At(s, o)') = Cardinality(At(s, o))
              + (IF pc'[p] = s /\ out'[p] = o THEN 1 ELSE 0)
              - (IF pc[p] = s /\ out[p] = o THEN 1 ELSE 0)
<1>1. IsFiniteSet(At(s, o))
  <2>1. At(s, o) \in SUBSET Publishers
    BY DEF At
  <2>. QED
    BY <2>1, PublishAssumption, FS_Subset
<1>2. Cardinality(At(s, o)) \in Nat
  BY <1>1, FS_CardinalityType
<1>3. At(s, o)' = IF pc'[p] = s /\ out'[p] = o THEN At(s, o) \cup {p} ELSE At(s, o) \ {p}
  BY DEF At, Only
<1>4. p \in At(s, o) <=> pc[p] = s /\ out[p] = o
  BY DEF At
<1>5. /\ Cardinality(At(s, o) \cup {p}) = IF p \in At(s, o) THEN Cardinality(At(s, o)) ELSE Cardinality(At(s, o)) + 1
      /\ Cardinality(At(s, o) \ {p}) = IF p \in At(s, o) THEN Cardinality(At(s, o)) - 1 ELSE Cardinality(At(s, o))
  BY <1>1, FS_AddElement, FS_RemoveElement
<1>. QED
  BY <1>2, <1>3, <1>4, <1>5

\* The outcomes the counters tell apart.
Told == {"ok", "odd", "refused", "unsure", "timeout", "cancelled"}

LEMMA DoneMoved ==
  ASSUME TypeOK, NEW p \in Publishers, Only(p), NEW o \in Told, returned' \in [Outcomes -> Nat]
  PROVE  /\ Done(o) \in Int /\ Started(o) \in Int
         /\ Done(o)' = Done(o) + returned'[o] - returned[o]
              + (IF pc'[p] = "counted" /\ out'[p] = o THEN 1 ELSE 0)
              - (IF pc[p] = "counted" /\ out[p] = o THEN 1 ELSE 0)
         /\ Started(o)' = Started(o) + returned'[o] - returned[o]
              + (IF pc'[p] \in {"counted", "recording"} /\ out'[p] = o THEN 1 ELSE 0)
              - (IF pc[p] \in {"counted", "recording"} /\ out[p] = o THEN 1 ELSE 0)
<1>1. returned[o] \in Nat /\ returned'[o] \in Nat
  BY DEF TypeOK, Told, Outcomes
<1>. DEFINE c == Cardinality(At("counted", o))
            r == Cardinality(At("recording", o))
<1>2. /\ c \in Nat
      /\ c' = c + (IF pc'[p] = "counted" /\ out'[p] = o THEN 1 ELSE 0)
                - (IF pc[p] = "counted" /\ out[p] = o THEN 1 ELSE 0)
  BY AtMoved
<1>3. /\ r \in Nat
      /\ r' = r + (IF pc'[p] = "recording" /\ out'[p] = o THEN 1 ELSE 0)
                - (IF pc[p] = "recording" /\ out[p] = o THEN 1 ELSE 0)
  BY AtMoved
<1>4. Done(o) = returned[o] + c /\ Started(o) = Done(o) + r
  BY DEF Done, Started
<1>5. Done(o)' = returned'[o] + c' /\ Started(o)' = Done(o)' + r'
  BY DEF Done, Started
<1>. HIDE DEF c, r
<1>6. Done(o) \in Int /\ Started(o) \in Int
  BY <1>1, <1>2, <1>3, <1>4
<1>7. Done(o)' = Done(o) + returned'[o] - returned[o]
              + (IF pc'[p] = "counted" /\ out'[p] = o THEN 1 ELSE 0)
              - (IF pc[p] = "counted" /\ out[p] = o THEN 1 ELSE 0)
  BY <1>1, <1>2, <1>4, <1>5
<1>8. Started(o)' = Started(o) + returned'[o] - returned[o]
              + (IF pc'[p] \in {"counted", "recording"} /\ out'[p] = o THEN 1 ELSE 0)
              - (IF pc[p] \in {"counted", "recording"} /\ out[p] = o THEN 1 ELSE 0)
  BY <1>1, <1>2, <1>3, <1>4, <1>5
<1>. QED
  BY <1>6, <1>7, <1>8

\* Nobody begins or ends to count.
LEMMA CountsStay ==
  ASSUME TypeOK, CountsExact, UNCHANGED <<count, returned>>,
         \A o \in Told : Done(o)' = Done(o) /\ Started(o)' = Started(o)
  PROVE  CountsExact'
BY DEF CountsExact, Told

LEMMA CountsStep == TypeOK /\ TypeOK' /\ CallsSound /\ CountsExact /\ [Next]_vars => CountsExact'
<1>. SUFFICES ASSUME TypeOK, TypeOK', CallsSound, CountsExact, [Next]_vars PROVE CountsExact'
  OBVIOUS
<1>t. /\ pc \in [Publishers -> PcValues] /\ out \in [Publishers -> Outcomes]
      /\ returned \in [Outcomes -> Nat] /\ returned' \in [Outcomes -> Nat]
      /\ count \in [Counters -> Nat]
  BY DEF TypeOK, PcValues
<1>r. \A o \in Told : returned[o] \in Nat
  BY <1>t DEF Told, Outcomes
<1>. USE DEF Goto, Conclude
\* Until its outcome is found a call counts for nothing.
<1>1. ASSUME NEW p \in Publishers, Only(p), UNCHANGED stats,
             pc[p] \notin {"counted", "recording"}, pc'[p] # "recording",
             pc'[p] = "counted" => out'[p] \in {"lookup", "config"}
      PROVE  CountsExact'
  <2>1. \A o \in Told : o \notin {"lookup", "config"}
    BY DEF Told
  <2>2. UNCHANGED <<count, returned>>
    BY <1>1 DEF stats
  <2>3. ASSUME NEW o \in Told PROVE Done(o)' = Done(o) /\ Started(o)' = Started(o)
    BY <1>1, <1>r, <1>t, <2>1, <2>2, DoneMoved
  <2>. QED
    BY <2>2, <2>3, CountsStay
<1>2. ASSUME NEW p \in Publishers,
             Call(p) \/ LookupStart(p) \/ LookupEnd(p) \/ Guard(p) \/ Produce(p)
      PROVE  CountsExact'
  <2>1. /\ Only(p) /\ UNCHANGED stats /\ pc[p] \notin {"counted", "recording"}
        /\ pc'[p] # "recording" /\ (pc'[p] = "counted" => out'[p] \in {"lookup", "config"})
    BY <1>2, <1>t DEF Call, LookupStart, LookupEnd, Guard, Produce, Only
  <2>. QED
    BY <1>1, <2>1
<1>3. ASSUME NEW p \in Publishers, Answered(p) \/ TimedOut(p) \/ Cancelled(p) PROVE CountsExact'
  <2>1. /\ Only(p) /\ UNCHANGED stats /\ pc[p] \notin {"counted", "recording"}
        /\ pc'[p] \notin {"counted", "recording"}
    BY <1>3, <1>t, ErrorOutcomes DEF Answered, Acked, Failed, TimedOut, Cancelled, Only
  <2>. QED
    BY <1>1, <2>1
<1>4. ASSUME NEW p \in Publishers, RecordFirst(p) PROVE CountsExact'
  <2>1. /\ Only(p) /\ returned' = returned /\ pc[p] = "outcome" /\ out[p] \in Told /\ out' = out
        /\ pc'[p] = IF out[p] \in {"timeout", "cancelled"} THEN "recording" ELSE "counted"
    BY <1>4, <1>t DEF RecordFirst, Only, CallsSound, Told, Outcomes
  <2>2. ASSUME NEW o \in Told
        PROVE  /\ Done(o) \in Int /\ Started(o) \in Int
               /\ Done(o)' = Done(o) +
                    (IF o = out[p] /\ out[p] \notin {"timeout", "cancelled"} THEN 1 ELSE 0)
               /\ Started(o)' = Started(o) + (IF o = out[p] THEN 1 ELSE 0)
    BY <1>r, <1>t, <2>1, DoneMoved
  <2>3. count' = [count EXCEPT ![FirstCounter(out[p])] = @ + 1]
    BY <1>4 DEF RecordFirst, Bump
  <2>4. CASE out[p] = "ok"
    <3>1. count' = [count EXCEPT !["published"] = @ + 1]
      BY <2>3, <2>4 DEF FirstCounter
    <3>. QED
      BY <1>t, <2>2, <2>4, <3>1 DEF CountsExact, Told, Counters
  <2>5. CASE out[p] = "timeout"
    <3>1. count' = [count EXCEPT !["timeouts"] = @ + 1]
      BY <2>3, <2>5 DEF FirstCounter
    <3>. QED
      BY <1>t, <2>2, <2>5, <3>1 DEF CountsExact, Told, Counters
  <2>6. CASE out[p] = "cancelled"
    <3>1. count' = [count EXCEPT !["cancelled"] = @ + 1]
      BY <2>3, <2>6 DEF FirstCounter
    <3>. QED
      BY <1>t, <2>2, <2>6, <3>1 DEF CountsExact, Told, Counters
  <2>7. CASE out[p] \in {"odd", "refused", "unsure"}
    <3>1. count' = [count EXCEPT !["failed"] = @ + 1]
      BY <2>3, <2>7 DEF FirstCounter
    <3>. QED
      BY <1>t, <2>2, <2>7, <3>1 DEF CountsExact, Told, Counters
  <2>. QED
    BY <2>1, <2>4, <2>5, <2>6, <2>7 DEF Told
<1>5. ASSUME NEW p \in Publishers, RecordSecond(p) PROVE CountsExact'
  <2>1. /\ Only(p) /\ returned' = returned /\ pc[p] = "recording" /\ pc'[p] = "counted"
        /\ out[p] \in {"timeout", "cancelled"} /\ out' = out
    BY <1>5, <1>t DEF RecordSecond, Only, CallsSound
  <2>2. ASSUME NEW o \in Told
        PROVE  /\ Done(o) \in Int
               /\ Done(o)' = Done(o) + (IF o = out[p] THEN 1 ELSE 0)
               /\ Started(o)' = Started(o)
    BY <1>r, <1>t, <2>1, DoneMoved
  <2>3. count' = [count EXCEPT !["failed"] = @ + 1]
    BY <1>5 DEF RecordSecond, Bump
  <2>. QED
    BY <1>t, <2>1, <2>2, <2>3 DEF CountsExact, Told, Counters
<1>6. ASSUME NEW p \in Publishers, Return(p) PROVE CountsExact'
  <2>1. /\ Only(p) /\ returned' = [returned EXCEPT ![out[p]] = @ + 1]
        /\ pc[p] = "counted" /\ pc'[p] \in {"idle", "done"} /\ out' = out /\ count' = count
    BY <1>6, <1>t DEF Return, Only
  <2>2. ASSUME NEW o \in Told PROVE Done(o)' = Done(o) /\ Started(o)' = Started(o)
    <3>1. returned'[o] = returned[o] + (IF o = out[p] THEN 1 ELSE 0)
      BY <1>t, <2>1 DEF Told, Outcomes
    <3>. QED
      BY <1>r, <1>t, <2>1, <3>1, DoneMoved
  <2>. QED
    BY <2>1, <2>2 DEF CountsExact, Told
<1>7. ASSUME \/ \E r \in sent : BrokerWrites(r) \/ RequestLost(r)
             \/ Close \/ Broadcast \/ CloseReturns \/ UNCHANGED vars
      PROVE  CountsExact'
  <2>1. UNCHANGED <<pc, out, count, returned>>
    BY <1>7 DEF BrokerWrites, RequestLost, Close, Broadcast, CloseReturns, stats, vars
  <2>. QED
    BY <2>1 DEF CountsExact, Done, Started, At
<1>. QED
  BY <1>2, <1>3, <1>4, <1>5, <1>6, <1>7 DEF Next, Runs

-----------------------------------------------------------------------------
(***************************************************************************)
(* The theorems.                                                           *)
(***************************************************************************)
LEMMA InitInv == Init => IndInv
<1>. SUFFICES ASSUME Init PROVE IndInv
  OBVIOUS
<1>. USE DEF Init, Gate!Init
<1>1. log = <<>> /\ Len(log) = 0 /\ log \in Seq(Publishers) /\ DOMAIN place = {} /\ sent = {}
  BY EmptySeq
<1>2. TypeOK
  <2>1. result \in [Publishers -> NoOffset..Len(log) - 1]
    BY <1>1 DEF NoOffset
  <2>2. attempt \in [Publishers -> 0..MaxAttempts]
    BY PublishAssumption
  <2>3. count \in [Counters -> Nat] /\ returned \in [Outcomes -> Nat] /\ out \in [Publishers -> Outcomes]
    BY DEF Outcomes
  <2>. QED
    BY <1>1, <2>1, <2>2, <2>3 DEF TypeOK
<1>3. GuardsHeld /\ CallsSound
  BY PublishAssumption DEF GuardsHeld, CallsSound, Ending
<1>4. PlacesTrue /\ OkIsWritten /\ RequestsPast
  BY <1>1 DEF PlacesTrue, OkIsWritten, RequestsPast, Requests
<1>5. WrittenOnce
  BY <1>1, FS_EmptySet DEF WrittenOnce
<1>6. CopiesPaid
  <2>1. Requests = {} /\ Fresh = Publishers
    BY <1>1 DEF Requests, Fresh
  <2>2. returned["unsure"] = 0 /\ returned["timeout"] = 0
    BY DEF Outcomes
  <2>3. Cardinality(Publishers) \in Nat /\ Cardinality({}) = 0
    BY PublishAssumption, FS_CardinalityType, FS_EmptySet
  <2>. QED
    BY <2>1, <2>2, <2>3 DEF CopiesPaid
<1>7. CountsExact
  <2>1. ASSUME NEW o PROVE Cardinality(At("counted", o)) = 0 /\ Cardinality(At("recording", o)) = 0
    <3>1. At("counted", o) = {} /\ At("recording", o) = {}
      BY DEF At
    <3>. QED
      BY <3>1, FS_EmptySet
  <2>2. \A o \in Told : Done(o) = 0 /\ Started(o) = 0
    <3>1. \A o \in Told : returned[o] = 0
      BY DEF Told, Outcomes
    <3>. QED
      BY <2>1, <3>1 DEF Done, Started
  <2>. QED
    BY <2>2 DEF CountsExact, Told, Counters
<1>. QED
  BY <1>2, <1>3, <1>4, <1>5, <1>6, <1>7 DEF IndInv

LEMMA NextInv == IndInv /\ [Next]_vars => IndInv'
<1>. SUFFICES ASSUME IndInv, [Next]_vars PROVE IndInv'
  OBVIOUS
<1>1. TypeOK' /\ GuardsHeld' /\ CallsSound' /\ PlacesTrue' /\ OkIsWritten'
  BY TypeStep, GuardStep, CallsStep, PlacesStep DEF IndInv
<1>2. RequestsPast' /\ WrittenOnce' /\ CopiesPaid'
  BY RequestsStep, WrittenStep, CopiesStep DEF IndInv
<1>3. CountsExact'
  BY <1>1, CountsStep DEF IndInv
<1>. QED
  BY <1>1, <1>2, <1>3 DEF IndInv

LEMMA Invariance == Spec => []IndInv
BY InitInv, NextInv, PTL DEF Spec

\* The variables of the publishers keep their types.
THEOREM TypeCorrect == Spec => []TypeOK
<1>1. IndInv => TypeOK
  BY DEF IndInv
<1>. QED
  BY <1>1, Invariance, PTL

\* A publish that has returned Ok has its record at the offset it returned
\* (producer.rs:72-77).
THEOREM OkWritten == Spec => []OkIsWritten
<1>1. IndInv => OkIsWritten
  BY DEF IndInv
<1>. QED
  BY <1>1, Invariance, PTL

\* The four counters tell the outcomes of the calls at every moment, whatever the
\* interleaving (connection/runtime.rs:43-63).
THEOREM CountersExact == Spec => []CountsExact
<1>1. IndInv => CountsExact
  BY DEF IndInv
<1>. QED
  BY <1>1, Invariance, PTL

\* Nobody's record is in the log a second time but for a timeout or an open error
\* returned (producer.rs:256-259).
THEOREM DuplicatesPaid == Spec => []CopiesExplained
<1>1. ASSUME IndInv PROVE CopiesExplained
  <2>. USE <1>1 DEF IndInv
  <2>1. DOMAIN place \in SUBSET Requests /\ IsFiniteSet(Requests)
    BY FiniteRequests DEF Requests
  <2>2. Cardinality(DOMAIN place) <= Cardinality(Requests)
    BY <2>1, FS_Subset
  <2>3. /\ Cardinality(Requests) \in Nat /\ Cardinality(Fresh) \in Nat /\ Cardinality(Publishers) \in Nat
        /\ Cardinality(DOMAIN place) \in Nat
        /\ returned["unsure"] \in Nat /\ returned["timeout"] \in Nat
    BY FiniteRequests, FiniteFresh, PublishAssumption, FS_CardinalityType DEF TypeOK, Outcomes
  <2>. QED
    BY <2>2, <2>3 DEF CopiesExplained, WrittenOnce, CopiesPaid
<1>. QED
  BY <1>1, Invariance, PTL

\* Once close has returned Ok no request leaves, no success is counted and no
\* result is set: each of them happens under a guard (producer.rs:124-135).
THEOREM DrainIsQuiet == Spec => QuietAfterDrain
<1>1. ASSUME IndInv, [Next]_vars, drained
      PROVE  /\ count'["published"] = count["published"]
             /\ sent' \subseteq sent /\ result' = result
  <2>1. /\ inside = {} /\ count \in [Counters -> Nat]
        /\ \A p \in Publishers : /\ pc[p] \notin {"ready", "awaiting"}
                                 /\ pc[p] = "outcome" => out[p] # "ok"
    BY <1>1 DEF IndInv, GuardsHeld, Ending, Produced, TypeOK
  <2>2. ASSUME NEW p \in Publishers, RecordFirst(p) \/ RecordSecond(p)
        PROVE  count'["published"] = count["published"] /\ UNCHANGED <<sent, result>>
    <3>1. PICK c \in Counters \ {"published"} : count' = [count EXCEPT ![c] = @ + 1]
      BY <2>1, <2>2 DEF RecordFirst, RecordSecond, Goto, Bump, FirstCounter, Counters
    <3>. QED
      BY <2>1, <2>2, <3>1 DEF RecordFirst, RecordSecond, remote
  <2>3. ASSUME NEW p \in Publishers,
               Call(p) \/ Answered(p) \/ LookupStart(p) \/ LookupEnd(p) \/ Guard(p) \/ Produce(p)
               \/ TimedOut(p) \/ Cancelled(p) \/ Return(p)
        PROVE  UNCHANGED <<count, sent, result>>
    BY <2>1, <2>3 DEF Call, Answered, Acked, Failed, LookupStart, LookupEnd, Guard, Produce, TimedOut,
       Cancelled, Return, Goto, remote, stats
  <2>4. ASSUME \/ \E r \in sent : BrokerWrites(r) \/ RequestLost(r)
               \/ Close \/ Broadcast \/ CloseReturns \/ UNCHANGED vars
        PROVE  UNCHANGED <<count, result>> /\ sent' \subseteq sent
    BY <2>4 DEF BrokerWrites, RequestLost, Close, Broadcast, CloseReturns, remote, stats, vars
  <2>. QED
    BY <1>1, <2>2, <2>3, <2>4 DEF Next, Runs
<1>2. IndInv /\ [Next]_vars =>
        [drained => /\ count'["published"] = count["published"]
                    /\ sent' \subseteq sent /\ result' = result]_vars
  BY <1>1
<1>. QED
  BY <1>2, Invariance, PTL DEF Spec, QuietAfterDrain
=============================================================================
