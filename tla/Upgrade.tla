------------------------------ MODULE Upgrade ------------------------------
(***************************************************************************)
(* What the migrations promise, as if one process upgraded the schema: the *)
(* versions are applied one by one in the order of the list, none is taken *)
(* back, and a server begins to serve when all of them are there.          *)
(***************************************************************************)
EXTENDS Naturals

CONSTANTS
    Last,   \* the versions are 1 .. Last
    Server  \* the processes that may serve

VARIABLES
    applied,  \* the versions that are part of the schema
    serving   \* the servers that run

Init == applied = {} /\ serving = {}

Apply(v) ==
    /\ applied = 1 .. (v - 1) /\ applied' = applied \cup {v}
    /\ UNCHANGED serving

Serve(s) ==
    /\ applied = 1 .. Last /\ s \notin serving /\ serving' = serving \cup {s}
    /\ UNCHANGED applied

Stop(s) ==
    /\ s \in serving /\ serving' = serving \ {s}
    /\ UNCHANGED applied

Next == (\E v \in 1 .. Last : Apply(v)) \/ (\E s \in Server : Serve(s) \/ Stop(s))

Spec == Init /\ [][Next]_<<applied, serving>>

=============================================================================
