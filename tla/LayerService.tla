----------------------------- MODULE LayerService -----------------------------
(***************************************************************************)
(* What the layer cache promises of one layer: it is given only when it is *)
(* available, which it then stays.                                         *)
(***************************************************************************)
CONSTANT Users

VARIABLES
    available, \* is the layer there, extracted and verified?
    using      \* the users that were given its directory

vars == <<available, using>>

Init ==
    /\ available \in BOOLEAN
    /\ using = {}

Publish ==
    /\ ~available
    /\ available' = TRUE
    /\ UNCHANGED using

Give(u) ==
    /\ available
    /\ u \notin using
    /\ using' = using \cup {u}
    /\ UNCHANGED available

Release(u) ==
    /\ u \in using
    /\ using' = using \ {u}
    /\ UNCHANGED available

Next == Publish \/ \E u \in Users : Give(u) \/ Release(u)

Spec == Init /\ [][Next]_vars
=============================================================================
