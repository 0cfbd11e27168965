----------------------------- MODULE Exclusive -----------------------------
(***************************************************************************)
(* What a lock promises: a critical section that one process at a time may *)
(* enter, and may leave at any time.                                       *)
(***************************************************************************)

CONSTANT Process

VARIABLE inside  \* the processes in the critical section

Init == inside = {}

Enter(p) == inside = {} /\ inside' = {p}

Leave(p) == p \in inside /\ inside' = inside \ {p}

Next == \E p \in Process : Enter(p) \/ Leave(p)

Spec == Init /\ [][Next]_inside

\* Two processes are never inside together.
AtMostOne == \A p, q \in inside : p = q

=============================================================================
