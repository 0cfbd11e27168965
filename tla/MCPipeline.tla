----------------------------- MODULE MCPipeline -----------------------------
(***************************************************************************)
(* Model-checking instances of Pipeline: r1 and r2 are two rows of one url *)
(* and content, r3 is another url.                                         *)
(***************************************************************************)
EXTENDS Pipeline, TLC

CONSTANTS r1, r2, r3, u1, u2, f1, f2

MCUrlOf == [r \in Row |-> IF r = r3 THEN u2 ELSE u1]
MCFpOf == [r \in Row |-> IF r = r3 THEN f2 ELSE f1]
MCRank == [r \in Row |-> IF r = r3 THEN 1 ELSE 0]

\* r1 and r2 agree in url, content and time: they may be exchanged.
Twins == Permutations({r1, r2})

=============================================================================
