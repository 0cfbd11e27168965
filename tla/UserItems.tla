------------------------------ MODULE UserItems ------------------------------
(***************************************************************************)
(* What a user keeps: scraps, keyword alerts and brand monitors, each with *)
(* a limit for some plan, and the user's personalization                   *)
(* (backend/api/routers/scraps.py, notifications.py, brand.py and          *)
(* personalization.py with the queries they call).                         *)
(*                                                                         *)
(* Every create counts the user's rows, perhaps looks for a duplicate, and *)
(* inserts: separate statements, without a transaction, between which the  *)
(* other requests of the user run.                                         *)
(***************************************************************************)
EXTENDS Naturals, FiniteSets

CONSTANTS
    Member,      \* users
    Kind,        \* kinds of item, of "scrap", "keyword" and "brand"
    Item,        \* scraped items, keywords and brand names
    Create,      \* create requests in progress at once
    LimitOf,     \* [Kind -> Nat]: _FREE_SCRAP_LIMIT, _PRO_KEYWORD_LIMIT, _BUSINESS_BRAND_LIMIT
    Ratio,       \* values of locale_ratio, with 0 for its default
    Applier,     \* POST /behavior/apply in progress at once
    MaxItems,    \* bound on the rows ever inserted
    MaxChanges   \* bound on the changes of plan

ASSUME UserItemsAssumption ==
    /\ IsFiniteSet(Member) /\ IsFiniteSet(Create) /\ Create # {}
    /\ Kind \subseteq {"scrap", "keyword", "brand"} /\ LimitOf \in [Kind -> Nat]
    /\ 0 \in Ratio /\ MaxItems \in Nat /\ MaxChanges \in Nat

ItemId == 1 .. MaxItems

ItemRow == [id : ItemId, owner : Member, kind : Kind, name : Item, live : BOOLEAN]

NoCreate == [pc |-> "idle"]

VARIABLES
    items,      \* rows of scrap, notification_keyword and brand_monitor
    lastItem,   \* the last id given out
    create,     \* the create requests
    limited,    \* users whose plan has the limits
    everFree,   \* users who had a plan without limits at some time
    changes,    \* changes of plan
    pref,       \* user_personalization: by whom the weights are, and locale_ratio
    applying,   \* the apply requests: the ratio read
    lastPut     \* the ratio of the last PUT, and whether an apply had read before it

itemVars == <<items, lastItem, create, limited, everFree, changes>>
prefVars == <<pref, applying, lastPut>>
userItemsVars == <<items, lastItem, create, limited, everFree, changes, pref, applying, lastPut>>

InitUserItems ==
    /\ items = {} /\ lastItem = 0 /\ create = [c \in Create |-> NoCreate]
    /\ limited = Member /\ everFree = {} /\ changes = 0
    /\ pref = [m \in Member |-> [by |-> "none", ratio |-> 0]]
    /\ applying = [a \in Applier |-> <<>>]
    /\ lastPut = [m \in Member |-> [ratio |-> 0, raced |-> FALSE]]

(***************************************************************************)
(* Items.                                                                  *)
(***************************************************************************)

\* get_scrap_count, count_keywords_for_user and the COUNT of create_brand, which leaves
\* out the deactivated rows.
Owned(m, k) == {i \in items : i.owner = m /\ i.kind = k /\ i.live}

Named(m, k, x) == {i \in Owned(m, k) : i.name = x}

\* The limit itself let through.
CountToLimit(c, m, k, x, next) ==
    /\ k \in Kind /\ create[c] = NoCreate
    /\ m \in limited => Cardinality(Owned(m, k)) <= LimitOf[k]
    /\ create' = [create EXCEPT ![c] = [pc |-> next, owner |-> m, kind |-> k, name |-> x]]
    /\ UNCHANGED <<items, lastItem, limited, everFree, changes, prefVars>>

\* A create up to its count; a request the limit refuses leaves nothing behind.
CountItems(c, m, k, x, next) ==
    /\ k \in Kind /\ create[c] = NoCreate
    /\ m \in limited => Cardinality(Owned(m, k)) < LimitOf[k]
    /\ create' = [create EXCEPT ![c] = [pc |-> next, owner |-> m, kind |-> k, name |-> x]]
    /\ UNCHANGED <<items, lastItem, limited, everFree, changes, prefVars>>

\* create_scrap_endpoint, add_keyword and create_brand.
CreateScrap(c, m, x) == CountItems(c, m, "scrap", x, "insert")

AddKeyword(c, m, x) == CountItems(c, m, "keyword", x, "insert")

CreateBrand(c, m, x) == CountItems(c, m, "brand", x, "check")

\* create_brand looks for an active row of that name.
CheckDuplicate(c) ==
    /\ create[c].pc = "check"
    /\ LET r == create[c]
       IN create' = [create EXCEPT ![c] = IF Named(r.owner, r.kind, r.name) = {}
                                          THEN [r EXCEPT !.pc = "insert"] ELSE NoCreate]
    /\ UNCHANGED <<items, lastItem, limited, everFree, changes, prefVars>>

NewItem(r) == [id |-> lastItem + 1, owner |-> r.owner, kind |-> r.kind, name |-> r.name,
               live |-> TRUE]

InsertItem(c, k) ==
    /\ create[c].pc = "insert" /\ create[c].kind = k
    /\ lastItem < MaxItems /\ lastItem' = lastItem + 1
    /\ items' = items \cup {NewItem(create[c])}
    /\ create' = [create EXCEPT ![c] = NoCreate]
    /\ UNCHANGED <<limited, everFree, changes, prefVars>>

\* create_scrap, insert_keyword and the INSERT of create_brand. Keywords are UNIQUE per
\* user: a second one raises, which ends the request as any failure does.
InsertScrap(c) == InsertItem(c, "scrap")

InsertKeyword(c) ==
    /\ create[c] # NoCreate /\ Named(create[c].owner, "keyword", create[c].name) = {}
    /\ InsertItem(c, "keyword")

InsertBrand(c) == InsertItem(c, "brand")

\* A query raises, the client is gone or the process stops.
CreateFails(c) ==
    /\ create[c] # NoCreate
    /\ create' = [create EXCEPT ![c] = NoCreate]
    /\ UNCHANGED <<items, lastItem, limited, everFree, changes, prefVars>>

\* The row of that id, when the caller owns it.
DeleteItem(m, k, i) ==
    /\ i \in items /\ i.owner = m /\ i.kind = k
    /\ items' = items \ {i}
    /\ UNCHANGED <<lastItem, create, limited, everFree, changes, prefVars>>

DeleteScrap(m, i) == DeleteItem(m, "scrap", i)

RemoveKeyword(m, i) == DeleteItem(m, "keyword", i)

\* delete_brand deactivates every active row of the name.
DeleteBrand(m, x) ==
    LET found == Named(m, "brand", x)
    IN /\ found # {}
       /\ items' = (items \ found) \cup {[i EXCEPT !.live = FALSE] : i \in found}
       /\ UNCHANGED <<lastItem, create, limited, everFree, changes, prefVars>>

\* The plan of a user changes, and with the next token the limits they are held to.
ChangePlan(m) ==
    /\ changes < MaxChanges /\ changes' = changes + 1
    /\ limited' = IF m \in limited THEN limited \ {m} ELSE limited \cup {m}
    /\ everFree' = everFree \cup {m}
    /\ UNCHANGED <<items, lastItem, create, prefVars>>

(***************************************************************************)
(* Personalization.                                                        *)
(***************************************************************************)

\* PUT /personalization writes both columns.
PutPersonalization(m, q) ==
    /\ pref' = [pref EXCEPT ![m] = [by |-> "put", ratio |-> q]]
    /\ lastPut' = [lastPut EXCEPT ![m] =
                     [ratio |-> q, raced |-> \E a \in Applier : applying[a] # <<>> /\ applying[a][1] = m]]
    /\ UNCHANGED <<itemVars, applying>>

\* Had it not carried the ratio of the row along.
ApplyDefault(a, m) ==
    /\ applying[a] = <<>>
    /\ applying' = [applying EXCEPT ![a] = <<m, 0>>]
    /\ UNCHANGED <<itemVars, pref, lastPut>>

\* POST /behavior/apply reads the row, the default ratio standing for none, ...
ApplyRead(a, m) ==
    /\ applying[a] = <<>>
    /\ applying' = [applying EXCEPT ![a] = <<m, pref[m].ratio>>]
    /\ UNCHANGED <<itemVars, pref, lastPut>>

\* ... and writes both columns: its own weights and the ratio as it was, unless it fails.
ApplyWrite(a, done) ==
    /\ applying[a] # <<>>
    /\ pref' = IF done
               THEN [pref EXCEPT ![applying[a][1]] = [by |-> "behavior", ratio |-> applying[a][2]]]
               ELSE pref
    /\ applying' = [applying EXCEPT ![a] = <<>>]
    /\ UNCHANGED <<itemVars, lastPut>>

NextUserItems ==
    \/ \E c \in Create : \/ CheckDuplicate(c) \/ CreateFails(c)
                         \/ InsertScrap(c) \/ InsertKeyword(c) \/ InsertBrand(c)
                         \/ \E m \in Member, x \in Item :
                               CreateScrap(c, m, x) \/ AddKeyword(c, m, x) \/ CreateBrand(c, m, x)
    \/ \E m \in Member : \/ \E i \in items : DeleteScrap(m, i) \/ RemoveKeyword(m, i)
                         \/ \E x \in Item : DeleteBrand(m, x)
                         \/ ChangePlan(m)
                         \/ \E q \in Ratio : PutPersonalization(m, q)
    \/ \E a \in Applier : \/ \E m \in Member : ApplyRead(a, m)
                          \/ \E done \in BOOLEAN : ApplyWrite(a, done)

SpecUserItems == InitUserItems /\ [][NextUserItems]_userItemsVars

(***************************************************************************)
(* Properties.                                                             *)
(***************************************************************************)

\* The rows, the requests and the settings, and the UNIQUE of notification_keyword.
UserItemsTypeOK ==
    /\ items \subseteq ItemRow /\ \A i, j \in items : i.id = j.id => i = j
    /\ lastItem \in 0 .. MaxItems /\ \A i \in items : i.id <= lastItem
    /\ \A i, j \in items :
          (i.kind = "keyword" /\ j.kind = "keyword" /\ i.owner = j.owner /\ i.name = j.name) => i = j
    /\ create \in [Create -> {NoCreate} \cup
                     [pc : {"check", "insert"}, owner : Member, kind : Kind, name : Item]]
    /\ limited \subseteq Member /\ everFree \subseteq Member /\ changes \in 0 .. MaxChanges
    /\ pref \in [Member -> [by : {"none", "put", "behavior"}, ratio : Ratio]]
    /\ applying \in [Applier -> {<<>>} \cup (Member \X Ratio)]
    /\ lastPut \in [Member -> [ratio : Ratio, raced : BOOLEAN]]

\* Requests that have counted and not inserted yet.
Pending(m, k) == {c \in Create : create[c] # NoCreate /\ create[c].owner = m /\ create[c].kind = k}

\* Counting before inserting lets parallel requests of a user pass the last free place
\* together, but by no more than there are in progress at once: a user who never had a
\* plan without limits holds fewer rows than the limit and the requests together.
LimitOvershootBounded ==
    \A m \in Member \ everFree, k \in Kind :
        Cardinality(Owned(m, k)) + Cardinality(Pending(m, k)) < LimitOf[k] + Cardinality(Create)

\* What a user last put as locale_ratio stays, whatever weights are applied from their
\* behavior, but for an apply that had read the row before the PUT and writes after it.
PutRatioKept ==
    \A m \in Member : pref[m].ratio = lastPut[m].ratio \/ lastPut[m].raced

=============================================================================
