----------------------------- MODULE MCBurstJob -----------------------------
(***************************************************************************)
(* Model-checking instances of BurstJob: the crawler's scheduler starts    *)
(* one run at a time (max_instances=1), admins may trigger two at once.    *)
(***************************************************************************)
EXTENDS BurstJob

CONSTANTS a1, m1, m2, g1, g2

=============================================================================
