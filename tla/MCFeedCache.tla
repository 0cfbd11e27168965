---------------------------- MODULE MCFeedCache ----------------------------
(***************************************************************************)
(* Model-checking instances of FeedCache.                                  *)
(***************************************************************************)
EXTENDS FeedCache

CONSTANTS
    none,        \* no category given
    all, tech,   \* category=all, category=tech
    a

\* Without a category the key is that of category=all.
MCKeyOf == [f \in Feed |-> IF f = none THEN all ELSE f]

=============================================================================
