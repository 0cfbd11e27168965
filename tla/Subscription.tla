---------------------------- MODULE Subscription ----------------------------
(***************************************************************************)
(* What users have bought and the plan they are on: the /subscriptions     *)
(* routes, the payment webhook, the admin's refund and PATCH of a user,    *)
(* and run_plan_expiry (backend/jobs/plan_expiry.py).                      *)
(*                                                                         *)
(* The tables are subscription and the column plan of user_profile. Rows   *)
(* of subscription are numbered in the order of created_at. A request and  *)
(* the job are a statement per step.                                       *)
(***************************************************************************)
EXTENDS Naturals, FiniteSets

CONSTANTS
    Customer,    \* users
    PaidPlan,    \* the plans checkout sells, a subset of _VALID_PLANS
    Caller,      \* cancel requests in progress at once
    MaxSubs,     \* bound on the rows of subscription
    MaxEvents,   \* bound on the events the payment provider emits
    MaxCrashes   \* bound on the crashes of the expiry job

ASSUME SubscriptionAssumption ==
    /\ "free" \notin PaidPlan /\ IsFiniteSet(Customer) /\ IsFiniteSet(Caller)
    /\ MaxSubs \in Nat /\ MaxEvents \in Nat /\ MaxCrashes \in Nat

SubId == 1 .. MaxSubs

\* The CHECK of subscription.status.
Status == {"active", "cancelled", "expired", "past_due"}

SubPlan == PaidPlan \cup {"free"}

VARIABLES
    subs,     \* rows of subscription, ids without gaps
    plan,     \* user_profile.plan
    overdue,  \* rows whose expires_at is set and past
    events,   \* events of the provider on their way, each may come twice
    emitted,  \* number of events emitted
    cancel,   \* cancel requests: the row read, 0 when idle
    expiry,   \* the job: users whose plan it is about to take
    due,      \* owners of a row the job expired, whose plan no admin has set since
    crashes,  \* crashes of the job
    spared    \* users the job died on, with their row expired already

subscriptionVars == <<subs, plan, overdue, events, emitted, cancel, expiry, due,
                      crashes, spared>>

InitSubscription ==
    /\ subs = {} /\ plan = [c \in Customer |-> "free"] /\ overdue = {}
    /\ events = {} /\ emitted = 0
    /\ cancel = [r \in Caller |-> 0] /\ expiry = {}
    /\ due = {} /\ crashes = 0 /\ spared = {}

ActiveSubs(c) == {s \in subs : s.user = c /\ s.status = "active"}

\* get_current_subscription: the newest active row of the user.
Current(c) == {s \in ActiveSubs(c) : \A t \in ActiveSubs(c) : t.id <= s.id}

\* One UPDATE: the rows that match W take the status.
SetStatus(W, status) ==
    subs' = (subs \ W) \cup {[s EXCEPT !.status = status] : s \in W}

\* create_subscription.
NewSub(c, p) == [id |-> Cardinality(subs) + 1, user |-> c, plan |-> p, status |-> "active"]

\* POST /checkout inserts the row, active, before anything is paid.
Checkout(c, p) ==
    /\ Cardinality(subs) < MaxSubs
    /\ subs' = subs \cup {NewSub(c, p)}
    /\ UNCHANGED <<plan, overdue, events, emitted, cancel, expiry, due, crashes, spared>>

\* POST /cancel reads the current row, and then updates it if it is active still.
CancelRead(r, c) ==
    /\ cancel[r] = 0
    /\ \E s \in Current(c) : cancel' = [cancel EXCEPT ![r] = s.id]
    /\ UNCHANGED <<subs, plan, overdue, events, emitted, expiry, due, crashes, spared>>

\* Without status = 'active' in the UPDATE.
CancelAnyway(r) ==
    /\ cancel[r] # 0
    /\ SetStatus({s \in subs : s.id = cancel[r]}, "cancelled")
    /\ cancel' = [cancel EXCEPT ![r] = 0]
    /\ UNCHANGED <<plan, overdue, events, emitted, expiry, due, crashes, spared>>

CancelUpdate(r) ==
    /\ cancel[r] # 0
    /\ SetStatus({s \in subs : s.id = cancel[r] /\ s.status = "active"}, "cancelled")
    /\ cancel' = [cancel EXCEPT ![r] = 0]
    /\ UNCHANGED <<plan, overdue, events, emitted, expiry, due, crashes, spared>>

\* The provider reports a row's status, with or without a plan.
Emit(i, status, p) ==
    /\ emitted < MaxEvents
    /\ \E s \in subs : s.id = i
    /\ events' = events \cup {[sub |-> i, status |-> status, plan |-> p]}
    /\ emitted' = emitted + 1
    /\ UNCHANGED <<subs, plan, overdue, cancel, expiry, due, crashes, spared>>

\* update_subscription_by_provider_id: the row takes the status, and the plan when there
\* is one, whatever it was.
Reported(s, e) ==
    IF s.id # e.sub THEN s
    ELSE [s EXCEPT !.status = e.status, !.plan = IF e.plan = "free" THEN @ ELSE e.plan]

\* POST /webhooks/payment. The provider may deliver an event again, in any order; a status
\* the CHECK refuses answers 500 and changes nothing.
Deliver(e) ==
    /\ e \in events
    /\ e.status \in Status
    /\ subs' = {Reported(s, e) : s \in subs}
    /\ UNCHANGED <<plan, overdue, events, emitted, cancel, expiry, due, crashes, spared>>

\* The provider stops repeating an event.
Forget(e) ==
    /\ e \in events
    /\ events' = events \ {e}
    /\ UNCHANGED <<subs, plan, overdue, emitted, cancel, expiry, due, crashes, spared>>

\* admin_refund_subscription: the row to update.
Refundable(i) == {s \in subs : s.id = i /\ s.status \in {"active", "cancelled"}}

\* Without the CHECK of subscription.status.
RefundUnchecked(i) ==
    /\ Refundable(i) # {}
    /\ SetStatus(Refundable(i), "refunded")
    /\ UNCHANGED <<plan, overdue, events, emitted, cancel, expiry, due, crashes, spared>>

\* POST /{id}/refund: 'refunded' is no status the CHECK allows, so the UPDATE of a row
\* it finds raises and the endpoint answers 500.
Refund(i) ==
    /\ Refundable(i) # {}
    /\ IF "refunded" \in Status
       THEN SetStatus(Refundable(i), "refunded")
       ELSE UNCHANGED subs
    /\ UNCHANGED <<plan, overdue, events, emitted, cancel, expiry, due, crashes, spared>>

\* PATCH /users/{id} with a plan.
AdminSetPlan(c, p) ==
    /\ plan[c] # p
    /\ plan' = [plan EXCEPT ![c] = p]
    /\ due' = due \ {c}
    /\ spared' = spared \ {c}
    /\ UNCHANGED <<subs, overdue, events, emitted, cancel, expiry, crashes>>

\* Nothing in the code writes expires_at: a row has one that somebody set by hand.
GetOverdue(i) ==
    /\ \E s \in subs : s.id = i
    /\ i \notin overdue
    /\ overdue' = overdue \cup {i}
    /\ UNCHANGED <<subs, plan, events, emitted, cancel, expiry, due, crashes, spared>>

\* run_plan_expiry, the first statement: active rows past expires_at are expired.
ExpiryMark ==
    LET W == {s \in subs : s.status = "active" /\ s.id \in overdue}
        owners == {s.user : s \in W}
    IN /\ expiry = {} /\ W # {}
       /\ SetStatus(W, "expired")
       /\ expiry' = owners
       /\ due' = due \cup owners
       /\ UNCHANGED <<plan, overdue, events, emitted, cancel, crashes, spared>>

\* Had it spared the users who have another active subscription.
DowngradeUnlessActive ==
    /\ expiry # {}
    /\ plan' = [c \in Customer |-> IF c \in expiry /\ Current(c) = {} THEN "free" ELSE plan[c]]
    /\ expiry' = {}
    /\ UNCHANGED <<subs, overdue, events, emitted, cancel, due, crashes, spared>>

\* The second, executemany in one transaction: their owners lose the plan.
ExpiryDowngrade ==
    /\ expiry # {}
    /\ plan' = [c \in Customer |-> IF c \in expiry THEN "free" ELSE plan[c]]
    /\ expiry' = {}
    /\ UNCHANGED <<subs, overdue, events, emitted, cancel, due, crashes, spared>>

\* The job raises or the process dies between the two; the next run finds no row.
ExpiryCrash ==
    /\ expiry # {} /\ crashes < MaxCrashes
    /\ crashes' = crashes + 1
    /\ spared' = spared \cup expiry
    /\ expiry' = {}
    /\ UNCHANGED <<subs, plan, overdue, events, emitted, cancel, due>>

NextSubscription ==
    \/ \E c \in Customer, p \in PaidPlan : Checkout(c, p)
    \/ \E c \in Customer, p \in SubPlan : AdminSetPlan(c, p)
    \/ \E r \in Caller : CancelUpdate(r) \/ \E c \in Customer : CancelRead(r, c)
    \/ \E i \in SubId : Refund(i) \/ GetOverdue(i)
    \/ \E i \in SubId, status \in Status, p \in SubPlan : Emit(i, status, p)
    \/ \E e \in events : Deliver(e) \/ Forget(e)
    \/ ExpiryMark \/ ExpiryDowngrade \/ ExpiryCrash

SpecSubscription == InitSubscription /\ [][NextSubscription]_subscriptionVars

(***************************************************************************)
(* Properties.                                                             *)
(***************************************************************************)

SubRow == [id : SubId, user : Customer, plan : SubPlan, status : Status]

\* The rows, one per id, and the CHECK of subscription.status: no refund is recorded.
SubscriptionTypeOK ==
    /\ subs \subseteq SubRow /\ \A s, t \in subs : s.id = t.id => s = t
    /\ plan \in [Customer -> SubPlan] /\ overdue \subseteq SubId
    /\ events \subseteq [sub : SubId, status : Status, plan : SubPlan]
    /\ emitted \in 0 .. MaxEvents
    /\ cancel \in [Caller -> SubId \cup {0}]
    /\ expiry \subseteq Customer /\ due \subseteq Customer /\ spared \subseteq Customer
    /\ crashes \in 0 .. MaxCrashes

\* run_plan_expiry keeps the two tables together: the owner of a row it has expired
\* is on the free plan, unless an admin has set the plan since, the job is between
\* its two statements, or it once died there (the row is no longer active, so no
\* later run finds it and the owner keeps the plan).
ExpiredPlanTaken ==
    \A c \in due : plan[c] = "free" \/ c \in expiry \/ c \in spared

\* A row that is cancelled, expired or past due leaves that status only for the one
\* an event of the provider brings: a cancel request or a run of the job that read
\* it active, and comes late, does not overwrite it.
OnlyProviderReopens ==
    [][\A s \in subs, t \in subs' :
          s.id = t.id /\ s.status # "active" /\ t.status # s.status =>
              \E e \in events : e.sub = s.id /\ e.status = t.status]_subscriptionVars

=============================================================================
