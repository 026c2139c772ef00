--------------------------- MODULE MonotoneOffsets ---------------------------
(***************************************************************************)
(* What an OffsetCommitStore promises (offset.rs:10, 23-44): the offset a  *)
(* reader sees for a key only grows; a failure of the machine may bring    *)
(* back an earlier state of the store, but none that lacks a commit that   *)
(* was acknowledged.  None stands for "no record".                         *)
(***************************************************************************)
EXTENDS Integers

CONSTANTS Keys,           \* (topic, partition) pairs
          MaxNext         \* the largest next-to-read offset

VARIABLES visible,        \* visible[k]: the next-to-read a reader sees
          survives,       \* the states that a failure of the machine may leave
          acked           \* acked[k]: the largest next-to-read acknowledged

storeVars == <<visible, survives, acked>>

None == -1
Larger(a, b) == IF a >= b THEN a ELSE b
Nothing == [k \in Keys |-> None]

Init == visible = Nothing /\ survives = {Nothing} /\ acked = Nothing

\* A commit of n takes effect.
Advance(k, n) ==
  /\ visible' = [visible EXCEPT ![k] = Larger(@, n)]
  /\ survives' = survives \cup {visible'}
  /\ UNCHANGED acked

\* A commit of n returns Ok: from now on it is in every state that may be left.
Acknowledge(k, n) ==
  /\ survives' \in {{m \in survives : m[k] >= n}, {visible}}
  /\ visible \in survives'
  /\ \A m \in survives' : m[k] >= n
  /\ acked' = [acked EXCEPT ![k] = Larger(@, n)]
  /\ UNCHANGED visible

\* The machine stops and comes back.
Lose ==
  /\ visible' \in survives
  /\ survives' = {visible'}
  /\ UNCHANGED acked

\* The process ends, and with it a store that is kept in memory.
Forget == visible' = Nothing /\ survives' = {Nothing} /\ acked' = Nothing

Next == Lose \/ \E k \in Keys, n \in 0..MaxNext : Advance(k, n) \/ Acknowledge(k, n)

Spec == Init /\ [][Next]_storeVars
=============================================================================
