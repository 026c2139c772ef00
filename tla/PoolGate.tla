------------------------------ MODULE PoolGate ------------------------------
(***************************************************************************)
(* What the pool's lifecycle promises its users, with none of the          *)
(* machinery: operations enter only while the pool is open, and once close *)
(* has reported that the pool is drained nobody is inside, ever again.     *)
(***************************************************************************)
CONSTANT Ops              \* the tasks that run guarded operations

VARIABLES open,           \* the pool still admits operations
          inside,         \* the operations whose caller holds a guard
          drained         \* some call of close has returned Ok

gateVars == <<open, inside, drained>>

Init == open = TRUE /\ inside = {} /\ drained = FALSE

Enter(o) == /\ open
            /\ inside' = inside \cup {o}
            /\ UNCHANGED <<open, drained>>

Leave(o) == /\ inside' = inside \ {o}
            /\ UNCHANGED <<open, drained>>

Shut == open' = FALSE /\ UNCHANGED <<inside, drained>>

Drain == /\ ~open
         /\ inside = {}
         /\ drained' = TRUE
         /\ UNCHANGED <<open, inside>>

Next == Shut \/ Drain \/ \E o \in Ops : Enter(o) \/ Leave(o)

Spec == Init /\ [][Next]_gateVars
=============================================================================
