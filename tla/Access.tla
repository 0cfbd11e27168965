------------------------------- MODULE Access -------------------------------
(***************************************************************************)
(* How the API admits the calls of one user: RateLimitMiddleware,          *)
(* PlanGateMiddleware and QuotaMiddleware (backend/api/middleware/) around *)
(* the routes, in the order main.py adds them, with the access token each  *)
(* of them decodes again and the plan it was issued for.                   *)
(*                                                                         *)
(* Every await lets other requests in, so each request goes through the    *)
(* chain in steps: a counter is read in one and written in a later one.    *)
(* Time is counted in hours; plans are their levels, free = 0 to           *)
(* enterprise = 3. The requests are GETs and POSTs, the only methods       *)
(* QuotaMiddleware looks at, outside /events, which has a counter of its   *)
(* own.                                                                    *)
(***************************************************************************)
EXTENDS Naturals, FiniteSets

CONSTANTS
    Request,     \* requests that may be in progress at once
    Path,        \* paths asked for, a subset of AllPaths
    Plan,        \* plan levels the user may have
    UserRate,    \* _LIMIT_AUTHENTICATED
    QuotaLimit,  \* [QuotaType -> Nat], the finite limits of _QUOTA_TABLE
    TTL,         \* ACCESS_TOKEN_EXPIRE_MINUTES, in hours
    Day,         \* days, the reset_at of api_usage
    DayOf,       \* [Time -> Day]
    MaxTime,     \* bound on the hours
    MaxFaults    \* bound on Redis errors, failed increments and cancellations

AllPaths == {"trends", "early", "scraps", "ideas", "brand", "other"}

QuotaType == {"daily_trends", "daily_scraps", "daily_content_ideas"}

ASSUME RequestAssumption == IsFiniteSet(Request)

ASSUME PlanAssumption == Plan \subseteq 0 .. 3 /\ 0 \in Plan /\ Path \subseteq AllPaths

ASSUME LimitAssumption ==
    /\ UserRate \in Nat \ {0}
    /\ QuotaLimit \in [QuotaType -> Nat \ {0}]

Time == 0 .. MaxTime

ASSUME TimeAssumption ==
    /\ TTL \in Nat \ {0} /\ MaxTime \in Nat /\ MaxFaults \in Nat
    /\ DayOf \in [Time -> Day]

(***************************************************************************)
(* The tables.                                                             *)
(***************************************************************************)

\* PLAN_GATES and the /insights suffix ("early" stands for both pro paths under
\* /trends); 0: the path is not gated.
RequiredLevel(p) ==
    IF p = "brand" THEN 2 ELSE IF p \in {"early", "ideas"} THEN 1 ELSE 0

Limited(p) == p \in {"trends", "early", "scraps", "ideas"}

\* _QUOTA_TYPE_MAP, by the longest prefix _QUOTA_TABLE knows.
TypeOf(p) ==
    IF p = "scraps" THEN "daily_scraps"
    ELSE IF p = "ideas" THEN "daily_content_ideas" ELSE "daily_trends"

\* Each quota is finite on one plan: free, but pro for content ideas.
FiniteLevel(type) == IF type = "daily_content_ideas" THEN 1 ELSE 0

\* The -1 of the table: free users and content ideas.
Blocked(p, level) == p = "ideas" /\ level = 0

\* Routes with require_auth or require_plan among their dependencies.
NeedsAuth(p) == p \in {"scraps", "ideas", "brand"}

Token == [plan : Plan, issued : Time]

NoToken == [plan |-> 0, issued |-> MaxTime + 1]

NoBooking == [type |-> "none"]

Booking == [type : QuotaType, day : Day]

NoAsk == [path |-> "none", token |-> NoToken, exact |-> FALSE]

\* exact: the header starts with "Bearer ", as the middlewares want it; HTTPBearer of
\* the routes takes the word in any case.
Ask == [path : Path, token : Token \cup {NoToken}, exact : BOOLEAN]

Stage == {"idle", "limit", "hit", "failed", "gate", "quota", "check", "handle",
          "charge"}

VARIABLES
    now,        \* the hour
    plan,       \* user_profile.plan
    wallet,     \* access tokens issued and not expired
    hits,       \* ratelimit:user:{id}, the calls of the current window (Redis)
    used,       \* api_usage.used_count, by [type, day]
    stage,      \* where each request is
    ask,        \* what it asks for, with which token
    booking,    \* the row of api_usage it will increment
    faults      \* faults so far

VARIABLES
    (* history: what the properties compare with *)
    heldUntil,  \* by level: hours up to the last one in which the plan had it
    gatedAt,    \* hour in which PlanGate let each request pass
    runs,       \* how often each request was passed on to its route
    passed,     \* calls the rate limiter let through since the last window ended
    opened,     \* of those, the ones its except clause let through
    served,     \* handlers that succeeded, by [type, day] of their booking
    uncounted   \* of those, the ones no increment will follow

clockVars == <<now, plan, wallet, heldUntil>>
windowVars == <<hits, passed, opened>>
countVars == <<windowVars, used>>
requestVars == <<stage, ask, booking, gatedAt, runs>>
ledgerVars == <<served, uncounted>>
vars == <<clockVars, countVars, requestVars, faults, ledgerVars>>

Init ==
    /\ now = 0
    /\ plan = 0
    /\ wallet = {}
    /\ hits = 0
    /\ used = [b \in Booking |-> 0]
    /\ stage = [r \in Request |-> "idle"]
    /\ ask = [r \in Request |-> NoAsk]
    /\ booking = [r \in Request |-> NoBooking]
    /\ faults = 0
    /\ heldUntil = [l \in 0 .. 3 |-> IF l = 0 THEN 1 ELSE 0]
    /\ gatedAt = [r \in Request |-> 0]
    /\ runs = [r \in Request |-> 0]
    /\ passed = 0
    /\ opened = 0
    /\ served = [b \in Booking |-> 0]
    /\ uncounted = [b \in Booking |-> 0]

Fault == faults < MaxFaults /\ faults' = faults + 1

Goto(r, s) == stage' = [stage EXCEPT ![r] = s]

\* The answer leaves: nothing of the request is kept.
Finish(r) ==
    /\ Goto(r, "idle")
    /\ ask' = [ask EXCEPT ![r] = NoAsk]
    /\ booking' = [booking EXCEPT ![r] = NoBooking]
    /\ gatedAt' = [gatedAt EXCEPT ![r] = 0]
    /\ runs' = [runs EXCEPT ![r] = 0]

\* decode_token accepts the token: it was signed here and has not expired.
Accepted(token) == token.issued <= now /\ now < token.issued + TTL

\* A middleware finds a valid token.
Authenticated(r) == ask[r].exact /\ Accepted(ask[r].token)

\* The plan a middleware sees: the claim, or "free" without a valid token.
LevelOf(r) == IF Authenticated(r) THEN ask[r].token.plan ELSE 0

(***************************************************************************)
(* The clock, the user's plan and their tokens.                            *)
(***************************************************************************)

\* The levels the plan has at hour t count as held until t + 1.
Held(level, t) ==
    heldUntil' = [l \in 0 .. 3 |-> IF l <= level THEN t + 1 ELSE heldUntil[l]]

Tick ==
    /\ now < MaxTime
    /\ now' = now + 1
    /\ wallet' = {t \in wallet : now + 1 < t.issued + TTL}
    /\ Held(plan, now + 1)
    /\ UNCHANGED <<plan, countVars, requestVars, faults, ledgerVars>>

\* admin_update_user; run_plan_expiry sets 0.
SetPlan(level) ==
    /\ plan # level
    /\ plan' = level
    /\ Held(level, now)
    /\ UNCHANGED <<now, wallet, countVars, requestVars, faults, ledgerVars>>

\* Faulty variant: a refreshed token repeats the plan of the login.
IssueFromClaim ==
    /\ \E level \in {l \in Plan : heldUntil[l] > 0} :
          wallet' = wallet \cup {[plan |-> level, issued |-> now]}
    /\ UNCHANGED <<now, plan, heldUntil, countVars, requestVars, faults, ledgerVars>>

\* Faulty variant: the token is dated an hour ahead.
IssueAhead ==
    /\ wallet' = wallet \cup {[plan |-> plan, issued |-> now + 1]}
    /\ UNCHANGED <<now, plan, heldUntil, countVars, requestVars, faults, ledgerVars>>

\* login and refresh_token put the plan of the user's row into the token (read
\* moments before, one step at the grain of hours); there is no list of revoked
\* tokens, so older ones stay good.
Issue ==
    /\ wallet' = wallet \cup {[plan |-> plan, issued |-> now]}
    /\ UNCHANGED <<now, plan, heldUntil, countVars, requestVars, faults, ledgerVars>>

(***************************************************************************)
(* RateLimitMiddleware.                                                    *)
(***************************************************************************)

\* A request arrives, with one of the tokens or none, in a header spelled exactly so
\* or not.
Arrive(r) ==
    /\ stage[r] = "idle"
    /\ \E p \in Path, t \in wallet \cup {NoToken}, e \in BOOLEAN :
          /\ e => t # NoToken
          /\ ask' = [ask EXCEPT ![r] = [path |-> p, token |-> t, exact |-> e]]
    /\ Goto(r, "limit")
    /\ UNCHANGED <<clockVars, countVars, booking, gatedAt, runs, faults,
                   ledgerVars>>

\* Faulty variant: the request after the last one still passes.
OverRateLate == hits > UserRate

\* GET of the counter: at the limit the answer is 429.
OverRate == hits >= UserRate

CheckRate(r) ==
    /\ stage[r] = "limit"
    /\ Authenticated(r)
    /\ IF OverRate
         THEN Finish(r)
         ELSE Goto(r, "hit") /\ UNCHANGED <<ask, booking, gatedAt, runs>>
    /\ UNCHANGED <<clockVars, countVars, faults, ledgerVars>>

\* Without a valid token the counter is that of the client's address, which other
\* clients share: it may be at its limit or not.
CheckIpRate(r) ==
    /\ stage[r] = "limit"
    /\ ~Authenticated(r)
    /\ \/ Finish(r)
       \/ Goto(r, "gate") /\ UNCHANGED <<ask, booking, gatedAt, runs>>
    /\ UNCHANGED <<clockVars, countVars, faults, ledgerVars>>

\* INCR and EXPIRE NX in one MULTI: the key always has a TTL.
CountHit(r) ==
    /\ stage[r] = "hit"
    /\ hits' = hits + 1
    /\ passed' = passed + 1
    /\ Goto(r, "gate")
    /\ UNCHANGED <<clockVars, opened, used, ask, booking, gatedAt, runs, faults, ledgerVars>>

\* Redis raises, before or after the pipeline was applied.
RateLimitFails(r) ==
    /\ stage[r] \in {"limit", "hit"}
    /\ Fault
    /\ Goto(r, "failed")
    /\ \/ UNCHANGED hits
       \/ /\ stage[r] = "hit"
          /\ hits' = hits + 1
    /\ UNCHANGED <<clockVars, passed, opened, used, ask, booking, gatedAt, runs,
                   ledgerVars>>

\* The except clause of dispatch: it calls the next layer, whatever raised.
FailOpen(r) ==
    /\ stage[r] = "failed"
    /\ passed' = passed + 1
    /\ opened' = opened + 1
    /\ Goto(r, "gate")
    /\ UNCHANGED <<clockVars, hits, used, ask, booking, gatedAt, runs, faults,
                   ledgerVars>>

\* The key outlives _WINDOW_SECONDS.
WindowEnds ==
    /\ hits > 0
    /\ hits' = 0
    /\ passed' = 0
    /\ opened' = 0
    /\ UNCHANGED <<clockVars, used, requestVars, faults, ledgerVars>>

(***************************************************************************)
(* PlanGateMiddleware.                                                     *)
(***************************************************************************)

\* A gated path wants a valid token (401) with the plan in its claim (403).
Gate(r) ==
    /\ stage[r] = "gate"
    /\ LET required == RequiredLevel(ask[r].path)
       IN  IF required > 0 /\ ~(Authenticated(r) /\ LevelOf(r) >= required)
             THEN Finish(r)
             ELSE /\ Goto(r, "quota")
                  /\ gatedAt' = [gatedAt EXCEPT ![r] = IF required > 0 THEN now ELSE 0]
                  /\ UNCHANGED <<ask, booking, runs>>
    /\ UNCHANGED <<clockVars, countVars, faults, ledgerVars>>

(***************************************************************************)
(* QuotaMiddleware and the routes.                                         *)
(***************************************************************************)

\* Unlimited plans and anonymous calls are not counted.
Counted(r) ==
    /\ Limited(ask[r].path)
    /\ Authenticated(r)
    /\ LevelOf(r) = FiniteLevel(TypeOf(ask[r].path))

\* call_next: the request is passed on to its route.
Pass(r) ==
    /\ Goto(r, "handle")
    /\ runs' = [runs EXCEPT ![r] = @ + 1]

\* The limit of the path and plan (a blocked plan gets 403), and the day the call
\* will be counted on.
Quota(r) ==
    /\ stage[r] = "quota"
    /\ IF Blocked(ask[r].path, LevelOf(r))
         THEN Finish(r)
         ELSE /\ IF Counted(r)
                   THEN /\ Goto(r, "check")
                        /\ booking' = [booking EXCEPT ![r] =
                               [type |-> TypeOf(ask[r].path), day |-> DayOf[now]]]
                        /\ UNCHANGED runs
                   ELSE Pass(r) /\ UNCHANGED booking
              /\ UNCHANGED <<ask, gatedAt>>
    /\ UNCHANGED <<clockVars, countVars, faults, ledgerVars>>

\* Faulty variant: the call after the last one still passes.
ExhaustedLate(b) == used[b] > QuotaLimit[b.type]

\* SELECT used_count: at the limit the answer is 429.
Exhausted(b) == used[b] >= QuotaLimit[b.type]

CheckQuota(r) ==
    /\ stage[r] = "check"
    /\ IF Exhausted(booking[r])
         THEN Finish(r)
         ELSE Pass(r) /\ UNCHANGED <<ask, booking, gatedAt>>
    /\ UNCHANGED <<clockVars, countVars, faults, ledgerVars>>

\* Faulty variant: the exception reaches the except clause of the rate limiter.
RaiseOn(r) == Goto(r, "failed") /\ UNCHANGED <<ask, booking, gatedAt, runs>>

\* QuotaMiddleware turns every exception, its own and the route's, into a 500.
Caught(r) == Finish(r)

CheckQuotaFails(r) ==
    /\ stage[r] = "check"
    /\ Caught(r)
    /\ UNCHANGED <<clockVars, countVars, faults, ledgerVars>>

\* Faulty variant: the route does not ask for a login.
RefusedNever(r) == FALSE

\* The dependencies of a route decode the token once more (401, 402 or 403).
Refused(r) ==
    /\ NeedsAuth(ask[r].path)
    /\ \/ ~Accepted(ask[r].token)
       \/ ask[r].token.plan < RequiredLevel(ask[r].path)

Refuse(r) ==
    /\ stage[r] = "handle"
    /\ Refused(r)
    /\ Finish(r)
    /\ UNCHANGED <<clockVars, countVars, faults, ledgerVars>>

\* The handler answers with a status below 400.
Succeed(r) ==
    /\ stage[r] = "handle"
    /\ ~Refused(r)
    /\ IF booking[r] = NoBooking
         THEN Finish(r) /\ UNCHANGED served
         ELSE /\ Goto(r, "charge")
              /\ served' = [served EXCEPT ![booking[r]] = @ + 1]
              /\ UNCHANGED <<ask, booking, gatedAt, runs>>
    /\ UNCHANGED <<clockVars, countVars, faults, uncounted>>

\* The handler answers with an error, or raises.
Fail(r) ==
    /\ stage[r] = "handle"
    /\ ~Refused(r)
    /\ Finish(r) \/ Caught(r)
    /\ UNCHANGED <<clockVars, countVars, faults, ledgerVars>>

\* INSERT ... ON CONFLICT DO UPDATE, on the row of the day of the check.
Charge(r) ==
    /\ stage[r] = "charge"
    /\ used' = [used EXCEPT ![booking[r]] = @ + 1]
    /\ Finish(r)
    /\ UNCHANGED <<clockVars, windowVars, faults, ledgerVars>>

\* The increment raises: 500 for a call that was served, and it is not counted
\* (unless the statement was applied all the same).
ChargeFails(r) ==
    /\ stage[r] = "charge"
    /\ Fault
    /\ Caught(r)
    /\ \/ /\ used' = [used EXCEPT ![booking[r]] = @ + 1]
          /\ UNCHANGED uncounted
       \/ /\ uncounted' = [uncounted EXCEPT ![booking[r]] = @ + 1]
          /\ UNCHANGED used
    /\ UNCHANGED <<clockVars, windowVars, served>>

\* The client goes away or the process stops: the request is cancelled at the
\* await it was in.
Cancel(r) ==
    /\ stage[r] # "idle"
    /\ Fault
    /\ Finish(r)
    /\ uncounted' = IF stage[r] = "charge"
                    THEN [uncounted EXCEPT ![booking[r]] = @ + 1] ELSE uncounted
    /\ UNCHANGED <<clockVars, countVars, served>>

(***************************************************************************)
(* Specification.                                                          *)
(***************************************************************************)

Serve(r) ==
    \/ CheckRate(r)
    \/ CheckIpRate(r)
    \/ CountHit(r)
    \/ RateLimitFails(r)
    \/ FailOpen(r)
    \/ Gate(r)
    \/ Quota(r)
    \/ CheckQuota(r)
    \/ CheckQuotaFails(r)
    \/ Refuse(r)
    \/ Succeed(r)
    \/ Fail(r)
    \/ Charge(r)
    \/ ChargeFails(r)
    \/ Cancel(r)

Next ==
    \/ Tick
    \/ \E level \in Plan : SetPlan(level)
    \/ Issue
    \/ \E r \in Request : Arrive(r) \/ Serve(r)
    \/ WindowEnds

Spec == Init /\ [][Next]_vars

(***************************************************************************)
(* Properties.                                                             *)
(***************************************************************************)

TypeOK ==
    /\ now \in Time
    /\ plan \in Plan
    /\ wallet \in SUBSET Token
    /\ hits \in Nat
    /\ used \in [Booking -> Nat]
    /\ stage \in [Request -> Stage]
    /\ ask \in [Request -> Ask \cup {NoAsk}]
    /\ booking \in [Request -> Booking \cup {NoBooking}]
    /\ faults \in 0 .. MaxFaults
    /\ heldUntil \in [0 .. 3 -> 0 .. MaxTime + 1]
    /\ gatedAt \in [Request -> Time]
    /\ runs \in [Request -> Nat]
    /\ passed \in Nat
    /\ opened \in Nat
    /\ served \in [Booking -> Nat]
    /\ uncounted \in [Booking -> Nat]

\* GET decides and INCR counts, with an await in between, and the except clause
\* lets a call through uncounted: what passes in a window is less than the limit,
\* plus the requests in progress, plus the calls for which Redis failed.
RateBound == passed < UserRate + Cardinality(Request) + opened

\* The quota is read before the handler and written after it, midnight or a lost
\* increment may come between: a day still serves no more than its limit, plus
\* the other requests in progress, plus the increments that were lost.
QuotaBound ==
    \A b \in Booking :
        served[b] < QuotaLimit[b.type] + Cardinality(Request) + uncounted[b]

\* The except clause of the rate limiter calls the next layer again whatever
\* raised: that no request reaches its route twice rests on the layers below
\* never raising.
HandledOnce == \A r \in Request : runs[r] <= 1

Entitled(r) ==
    LET level == RequiredLevel(ask[r].path)
    IN  stage[r] \in {"quota", "check", "handle", "charge"} /\ level > 0
            => heldUntil[level] > 0 /\ gatedAt[r] + 1 < heldUntil[level] + TTL

\* A gated call gets past the gate only within a token's lifetime of an hour in
\* which the user really had the plan, however often plans change and tokens are
\* refreshed in between.
EntitledRecently == \A r \in Request : Entitled(r)

BookedIfLimited(r) ==
    LET p == ask[r].path
    IN  stage[r] = "handle" /\ NeedsAuth(p) /\ ~Refused(r)
            /\ Limited(p) /\ ask[r].token.plan = FiniteLevel(TypeOf(p))
            /\ (ask[r].exact \/ RequiredLevel(p) > 0)
            => booking[r] # NoBooking

\* Quota does not count calls it takes for anonymous, and decodes a token that may
\* expire right before or after: still a call to a route that needs a login and
\* does not refuse it is counted, when its plan has a finite limit there. The one
\* exception is a path without a gate and a header the routes can read and the
\* middlewares cannot; with a gate such a call does not reach its route.
LoggedInCallsAreBooked == \A r \in Request : BookedIfLimited(r)

(***************************************************************************)
(* The inductive invariant behind them.                                    *)
(***************************************************************************)

\* The requests that have still to count a call of booking b, and those of them
\* that have been served already.
Booked(b) == {r \in Request : stage[r] \in {"handle", "charge"} /\ booking[r] = b}

Charging(b) == {r \in Request : stage[r] = "charge" /\ booking[r] = b}

\* Every served call is counted, or about to be, or lost; the ones in progress
\* passed the check when there was room.
LedgerInv ==
    \A b \in Booking :
        /\ served[b] <= used[b] + Cardinality(Charging(b)) + uncounted[b]
        /\ used[b] + Cardinality(Booked(b)) < QuotaLimit[b.type] + Cardinality(Request)

Hitting == {r \in Request : stage[r] = "hit"}

RateInv ==
    /\ hits + Cardinality(Hitting) < UserRate + Cardinality(Request)
    /\ passed <= hits + opened

\* A claim was true when the token was issued.
TokenInv(t) == t # NoToken => \A l \in 0 .. t.plan : t.issued < heldUntil[l]

ClockInv ==
    /\ \A l \in 0 .. 3 : heldUntil[l] <= now + 1
    /\ \A l \in 0 .. plan : heldUntil[l] = now + 1
    /\ \A t \in wallet : TokenInv(t)

\* Behind the gate of a gated path the token was one the middlewares can read.
ReadAtGate(r) ==
    stage[r] \in {"quota", "check", "handle", "charge"} /\ RequiredLevel(ask[r].path) > 0
        => ask[r].exact

RequestInv(r) ==
    /\ stage[r] \notin {"handle", "charge"} => runs[r] = 0
    /\ runs[r] <= 1
    /\ TokenInv(ask[r].token)
    /\ stage[r] \in {"check", "charge"} => booking[r] # NoBooking
    /\ stage[r] \notin {"check", "handle", "charge"} => booking[r] = NoBooking
    /\ Entitled(r)
    /\ ReadAtGate(r)
    /\ BookedIfLimited(r)

IInv ==
    /\ TypeOK
    /\ ClockInv
    /\ \A r \in Request : RequestInv(r)
    /\ LedgerInv
    /\ RateInv

=============================================================================
