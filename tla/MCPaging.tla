------------------------------ MODULE MCPaging ------------------------------
(***************************************************************************)
(* Two trends of scores a cursor may have to carry, paged one by one.      *)
(***************************************************************************)
EXTENDS FeedPaging

MCTimeOf == [a \in ArticleRow |-> 7]

\* All pairs of scores; the other column is written like one of them.
MCScored == {to \in [Column -> TrendScore] : to["other"] = to["early"]}

=============================================================================
