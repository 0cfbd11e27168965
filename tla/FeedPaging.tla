----------------------------- MODULE FeedPaging -----------------------------
(***************************************************************************)
(* Following next_cursor: /trends, /trends/early and /news                 *)
(* (backend/api/routers/trends.py, early_trend.py and news.py with the     *)
(* queries of backend/db/queries/trends.py), while the processor and the   *)
(* jobs go on writing the rows.                                            *)
(*                                                                         *)
(* Nothing is kept between two pages but the cursor: the score and the id  *)
(* of the last row shown. The first page of /trends may be a copy that     *)
(* another request had read, in any order and of any length, and had left  *)
(* in Redis; the lists that the processor leaves there, which hold no      *)
(* next_cursor, are FeedCache's. A row is a number; the order of the ids   *)
(* is that of the numbers, and a column a row is ranked by is 0 while the  *)
(* WHERE of the list leaves the row out.                                   *)
(***************************************************************************)
EXTENDS Naturals, FiniteSets

CONSTANTS
    TrendRow,     \* ids of news_group
    Recent,       \* those that a filter by hours (since) lets through
    TrendScore,   \* values of score, of burst_score and the other columns, of early_trend_score
    Scored,       \* what a statement may set the columns of a row to
    ArticleRow,   \* ids of news_article
    TimeOf,       \* publish_time of each, which several may share
    Colon,        \* scores and times of which a byte of the double is that of a colon
    PageSize,     \* values of limit
    MaxFirstPages,\* bound on the first pages that requests have read and Redis keeps
    MaxRescores   \* bound on the writes to the rows

ASSUME FeedPagingAssumption ==
    /\ TrendRow \subseteq Nat \ {0} /\ IsFiniteSet(TrendRow) /\ Recent \subseteq TrendRow
    /\ TrendScore \subseteq Nat \ {0} /\ Scored \subseteq [{"score", "other", "early"} -> TrendScore]
    /\ ArticleRow \subseteq Nat /\ IsFiniteSet(ArticleRow) /\ TimeOf \in [ArticleRow -> Nat]
    /\ PageSize \subseteq Nat \ {0} /\ MaxFirstPages \in Nat /\ MaxRescores \in Nat

VARIABLES
    rank,       \* the columns a list is sorted by
    hidden,     \* rows with is_hidden
    groupOf,    \* news_article.group_id, 0 for none
    rescores,   \* writes so far
    firstPages, \* first pages of /trends, in the hands of requests or in Redis
    paging,     \* the client: the list, the sort, the cursor and how it went
    shown,      \* rows shown to it
    repeated,   \* rows, or groups of news, shown to it twice
    changed     \* groups written since its first page was read from the database

pagingVars ==
    <<rank, hidden, groupOf, rescores, firstPages, paging, shown, repeated, changed>>

\* news_group.score, one of burst_score, article_count and created_at, early_trend_score.
Column == {"score", "other", "early"}

\* inOrder: every page so far came in the order its cursor is of.
Away == [list |-> "none", sort |-> "default", cursor |-> {}, inOrder |-> TRUE, at |-> "start"]

InitPaging ==
    /\ rank \in [Column -> [TrendRow -> {0}]] /\ hidden = {}
    /\ groupOf = [a \in ArticleRow |-> 0]
    /\ rescores = 0 /\ firstPages = {} /\ paging = Away
    /\ shown = {} /\ repeated = {} /\ changed = {}

(***************************************************************************)
(* The rows: stage_save and the jobs that update scores, hide_trend, and   *)
(* stage_save giving an article its group.                                 *)
(***************************************************************************)

\* A statement writes row g, which every page read before no longer tells of.
Write(g) ==
    /\ rescores < MaxRescores /\ rescores' = rescores + 1
    /\ changed' = changed \cup {g}
    /\ firstPages' = {[p EXCEPT !.changed = @ \cup {g}] : p \in firstPages}
    /\ UNCHANGED <<paging, shown, repeated>>

Rescore(g, to) ==
    /\ Write(g)
    /\ rank' = [column \in Column |-> [rank[column] EXCEPT ![g] = to[column]]]
    /\ UNCHANGED <<hidden, groupOf>>

\* run_early_trend_update: a row at a time, each with a score of its own.
UpdateEarlyTrend(g, s) ==
    Rescore(g, [score |-> rank["score"][g], other |-> rank["other"][g], early |-> s])

HideTrend(g) ==
    /\ Write(g)
    /\ hidden' = hidden \cup {g}
    /\ UNCHANGED <<rank, groupOf>>

JoinGroup(a, g) ==
    /\ groupOf[a] = 0
    /\ Write(g)
    /\ groupOf' = [groupOf EXCEPT ![a] = g]
    /\ UNCHANGED <<rank, hidden>>

(***************************************************************************)
(* The lists by score.                                                     *)
(***************************************************************************)

\* The column a list is of, which its cursor holds.
ScoreOf(list) == IF list = "early" THEN "early" ELSE "score"

\* _SAFE_SORT_COLS: what a list is sorted by, its score unless the client asks for another.
SortedBy(list, sort) == IF sort = "other" THEN "other" ELSE ScoreOf(list)

\* The WHERE of a list: a hidden row stays among the early trends.
Listed(list, g) == rank[ScoreOf(list)][g] # 0 /\ (list = "trends" => g \notin hidden)

\* ORDER BY: a column downwards, then the id upwards.
Precedes(column, g, h) ==
    rank[column][g] > rank[column][h] \/ (rank[column][g] = rank[column][h] /\ g < h)

\* Without the id for scores that are equal.
BeyondScore(list, cursor, g) == \A c \in cursor : rank[ScoreOf(list)][g] < c.score

\* The condition a cursor adds: on the list's score, whatever the list is sorted by.
Beyond(list, cursor, g) ==
    \A c \in cursor : \/ rank[ScoreOf(list)][g] < c.score
                      \/ rank[ScoreOf(list)][g] = c.score /\ g > c.id

Found(list, window, cursor) == {g \in window : Listed(list, g) /\ Beyond(list, cursor, g)}

\* ORDER BY and LIMIT.
Page(column, limit, R) ==
    {g \in R : Cardinality({h \in R : Precedes(column, h, g)}) < limit}

LastOf(column, P) == {g \in P : \A h \in P : h = g \/ Precedes(column, h, g)}

\* encode_cursor: the eight bytes of the double, a colon and the id; for a page that is full.
Cursor(list, column, limit, P) ==
    IF Cardinality(P) = limit
    THEN {[score |-> rank[ScoreOf(list)][g], id |-> g] : g \in LastOf(column, P)} ELSE {}

\* decode_cursor cuts at the first colon, the byte 58, wherever it is: when one is in the
\* double, struct.unpack raises. The second byte of a double from 16 to 32 is 48 and as
\* much as it exceeds 16, which makes every score from 26 to below 27 such a one.
Decodable(cursor) == \A c \in cursor : c.score \notin Colon

\* What the database answers to a request: the rows, the next cursor, whether they are all
\* that come first in the order of the cursor, and the rows written since.
PageOf(list, sort, window, limit, cursor) ==
    LET P == Page(SortedBy(list, sort), limit, Found(list, window, cursor))
    IN [rows |-> P, next |-> Cursor(list, SortedBy(list, sort), limit, P),
        inOrder |-> sort # "other" /\ window = TrendRow, changed |-> {}]

(***************************************************************************)
(* The first pages of /trends, under one key for all orders, windows and   *)
(* limits.                                                                 *)
(***************************************************************************)

\* A request of another client reads its first page, which it is to store.
AnswerOther(sort, window, limit) ==
    /\ Cardinality(firstPages) < MaxFirstPages
    /\ firstPages' = firstPages \cup {PageOf("trends", sort, window, limit, {})}
    /\ UNCHANGED <<rank, hidden, groupOf, rescores, paging, shown, repeated, changed>>

\* A copy expires, is deleted or overwritten; or the SET has failed.
ForgetFirstPage(p) ==
    /\ firstPages' = firstPages \ {p}
    /\ UNCHANGED <<rank, hidden, groupOf, rescores, paging, shown, repeated, changed>>

(***************************************************************************)
(* The client.                                                             *)
(***************************************************************************)

OpenList(list, sort) ==
    /\ paging.at \in {"start", "end", "refused"}
    /\ sort # "default" => list = "trends"
    /\ paging' = [list |-> list, sort |-> sort, cursor |-> {}, inOrder |-> TRUE, at |-> "page"]
    /\ shown' = {} /\ repeated' = {} /\ changed' = {}
    /\ UNCHANGED <<rank, hidden, groupOf, rescores, firstPages>>

\* A page: what it shows, and the next cursor; or a 500.
Show(page) ==
    /\ IF Decodable(paging.cursor)
       THEN /\ shown' = shown \cup page.rows
            /\ repeated' = repeated \cup (shown \cap page.rows)
            /\ paging' = [paging EXCEPT !.cursor = page.next,
                                        !.inOrder = @ /\ page.inOrder,
                                        !.at = IF page.next = {} THEN "end" ELSE @]
            /\ changed' = IF paging.cursor = {} THEN page.changed ELSE changed
       ELSE /\ paging' = [paging EXCEPT !.at = "refused"]
            /\ UNCHANGED <<shown, repeated, changed>>
    /\ UNCHANGED <<rank, hidden, groupOf, rescores>>

\* list_trends, which asks the cache for a first page nobody wants sorted, and else the
\* database; a first page it then stores, sorted or not.
ShowTrends(limit) ==
    LET page == PageOf("trends", paging.sort, TrendRow, limit, paging.cursor)
    IN /\ paging.at = "page" /\ paging.list = "trends"
       /\ \/ /\ paging.cursor = {} /\ paging.sort = "default"
             /\ \E p \in firstPages : Show(p)
             /\ UNCHANGED firstPages
          \/ /\ Show(page)
             /\ \/ UNCHANGED firstPages
                \/ /\ paging.cursor = {} /\ Cardinality(firstPages) < MaxFirstPages
                   /\ firstPages' = firstPages \cup {page}

ShowEarlyRows(limit) ==
    /\ paging.at = "page" /\ paging.list = "early"
    /\ Show(PageOf("early", paging.sort, TrendRow, limit, paging.cursor))
    /\ UNCHANGED firstPages

\* list_early_trends, which has one order, and list_early_trends_pro: one's cursor serves
\* the other.
ShowEarly(limit) == ShowEarlyRows(limit)

ShowEarlyPro(limit) == ShowEarlyRows(limit)

(***************************************************************************)
(* The news: articles, newest first, one for each group.                   *)
(***************************************************************************)

\* ORDER BY publish_time DESC, id.
NewsPrecedes(a, b) == TimeOf[a] > TimeOf[b] \/ (TimeOf[a] = TimeOf[b] /\ a < b)

SameEntry(a, b) == a = b \/ (groupOf[a] # 0 /\ groupOf[a] = groupOf[b])

\* DISTINCT ON (COALESCE(group_id, id)): of the articles the WHERE finds, cursor included,
\* one of the newest of each group.
Collapsed(A) ==
    {B \in SUBSET A :
        /\ \A a, b \in B : SameEntry(a, b) => a = b
        /\ \A a \in A : \E b \in B : SameEntry(a, b) /\ TimeOf[b] >= TimeOf[a]}

\* fetch_news: the pages the query may return.
NewsPages(limit, cursor) ==
    LET found == {a \in ArticleRow :
                    \A c \in cursor : TimeOf[a] < c.score \/ (TimeOf[a] = c.score /\ a > c.id)}
    IN {{a \in B : Cardinality({b \in B : NewsPrecedes(b, a)}) < limit} : B \in Collapsed(found)}

\* list_news: the cursor is the time and the id of the last row.
ShowNews(limit) ==
    /\ paging.at = "page" /\ paging.list = "news"
    /\ \E P \in NewsPages(limit, paging.cursor) :
          LET last == {a \in P : \A b \in P : b = a \/ NewsPrecedes(b, a)}
          IN Show([rows |-> {groupOf[a] : a \in P} \ {0},
                   next |-> IF Cardinality(P) = limit
                            THEN {[score |-> TimeOf[a], id |-> a] : a \in last} ELSE {},
                   inOrder |-> FALSE, changed |-> {}])
    /\ UNCHANGED firstPages

NextPaging ==
    \/ \E g \in TrendRow : \/ \E to \in Scored : Rescore(g, to)
                           \/ \E s \in TrendScore : UpdateEarlyTrend(g, s)
                           \/ HideTrend(g)
                           \/ \E a \in ArticleRow : JoinGroup(a, g)
    \/ \E list \in {"trends", "early", "news"}, sort \in {"default", "score", "other"} :
          OpenList(list, sort)
    \/ \E limit \in PageSize :
          \/ \E sort \in {"default", "score", "other"}, window \in {TrendRow, Recent} :
                AnswerOther(sort, window, limit)
          \/ ShowTrends(limit) \/ ShowEarly(limit) \/ ShowEarlyPro(limit) \/ ShowNews(limit)
    \/ \E p \in firstPages : ForgetFirstPage(p)

SpecPaging == InitPaging /\ [][NextPaging]_pagingVars

(***************************************************************************)
(* Properties.                                                             *)
(***************************************************************************)

\* The columns, the pages, the client and what it was shown.
PagingTypeOK ==
    LET cursors == SUBSET [score : TrendScore \cup {TimeOf[a] : a \in ArticleRow},
                           id : TrendRow \cup ArticleRow]
    IN /\ rank \in [Column -> [TrendRow -> TrendScore \cup {0}]] /\ hidden \subseteq TrendRow
       /\ groupOf \in [ArticleRow -> TrendRow \cup {0}] /\ rescores \in 0 .. MaxRescores
       /\ firstPages \subseteq [rows : SUBSET TrendRow, next : cursors, inOrder : BOOLEAN,
                                changed : SUBSET TrendRow]
       /\ paging \in [list : {"none", "trends", "early", "news"},
                      sort : {"default", "score", "other"}, cursor : cursors,
                      inOrder : BOOLEAN, at : {"start", "page", "end", "refused"}]
       /\ shown \subseteq TrendRow /\ repeated \subseteq TrendRow /\ changed \subseteq TrendRow

\* Of the rows that are not in `but`, `rows` are those listed up to the cursor, and all of
\* them without one.
Covers(list, rows, cursor, but) ==
    \A g \in TrendRow \ but :
        g \in rows <=> Listed(list, g) /\ (cursor = {} \/ ~Beyond(list, cursor, g))

\* A client that follows next_cursor through /trends or /trends/early in the order of the
\* score has seen, of the rows nobody wrote since its first page was read from the database
\* (by another request, it may be, minutes before), those up to its cursor, all of them once
\* it is at the end, and none of them twice, whatever becomes of the other rows and
\* whichever scores are equal. It is not claimed of a client whose first page was a copy
\* left by a request in another order or of a window.
StableRowsPagedOnce ==
    /\ paging.list \in {"trends", "early"} /\ paging.inOrder
    /\ paging.cursor # {} \/ paging.at = "end"
    => repeated \subseteq changed /\ Covers(paging.list, shown, paging.cursor, changed)

\* decode_cursor gives back what encode_cursor was given: a cursor that the API has
\* handed out is not refused.
CursorsAccepted == paging.at # "refused"

=============================================================================
