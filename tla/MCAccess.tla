------------------------------ MODULE MCAccess ------------------------------
(***************************************************************************)
(* Model-checking instance of Access: one call a minute and a day, two     *)
(* hours of one day, tokens that live an hour.                             *)
(***************************************************************************)
EXTENDS Access, TLC

CONSTANTS a, b

MCQuotaLimit == [t \in QuotaType |-> 1]

MCDayOf == [t \in Time |-> 0]

Same == Permutations({a, b})

=============================================================================
