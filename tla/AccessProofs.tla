---------------------------- MODULE AccessProofs ----------------------------
(***************************************************************************)
(* Proofs about Access, for every number of requests, every limit, token   *)
(* lifetime, calendar and number of faults: the bounds that hold though    *)
(* each counter is read before it is written, and what a token's claim is  *)
(* worth at the gate and at the quota.                                     *)
(***************************************************************************)
EXTENDS Access, FiniteSetTheorems, TLAPS

(***************************************************************************)
(* Counting requests.                                                      *)
(***************************************************************************)

LEMMA RequestsCounted ==
    ASSUME NEW S \in SUBSET Request
    PROVE  /\ IsFiniteSet(S) /\ Cardinality(S) \in Nat
           /\ Cardinality(Request) \in Nat
           /\ Cardinality(S) <= Cardinality(Request)
  BY RequestAssumption, FS_Subset, FS_CardinalityType

\* A set of requests that lacks one leaves room for it.
LEMMA RoomForOne ==
    ASSUME NEW S \in SUBSET Request, NEW r \in Request, r \notin S
    PROVE  /\ Cardinality(S \cup {r}) = Cardinality(S) + 1
           /\ Cardinality(S) < Cardinality(Request)
<1>1. Cardinality(S \cup {r}) = Cardinality(S) + 1
  BY RequestsCounted, FS_AddElement
<1>2. (S \cup {r}) \in SUBSET Request
  OBVIOUS
<1>3. Cardinality(S \cup {r}) <= Cardinality(Request)
  BY <1>2, RequestsCounted
<1> QED
  BY <1>1, <1>3, RequestsCounted

LEMMA OneLess ==
    ASSUME NEW S \in SUBSET Request, NEW r \in S
    PROVE  Cardinality(S \ {r}) = Cardinality(S) - 1
  BY RequestsCounted, FS_RemoveElement

(***************************************************************************)
(* The initial state.                                                      *)
(***************************************************************************)

LEMMA InitIInv == Init => IInv
<1> SUFFICES ASSUME Init PROVE IInv
  OBVIOUS
<1> USE DEF Init
<1>1. TypeOK
  BY PlanAssumption, TimeAssumption DEF TypeOK, Time, Stage
<1>2. ClockInv
  BY DEF ClockInv
<1>3. ASSUME NEW r \in Request PROVE RequestInv(r)
  BY DEF RequestInv, TokenInv, NoAsk, Entitled, ReadAtGate, BookedIfLimited
<1>4. LedgerInv
  <2> SUFFICES ASSUME NEW b \in Booking
               PROVE  /\ served[b] <= used[b] + Cardinality(Charging(b)) + uncounted[b]
                      /\ used[b] + Cardinality(Booked(b))
                           < QuotaLimit[b.type] + Cardinality(Request)
    BY DEF LedgerInv
  <2>1. Charging(b) = {} /\ Booked(b) = {}
    BY DEF Charging, Booked
  <2>2. QuotaLimit[b.type] \in Nat \ {0}
    BY LimitAssumption DEF Booking
  <2>3. Cardinality(Request) \in Nat /\ Cardinality({}) = 0
    BY RequestAssumption, FS_CardinalityType, FS_EmptySet
  <2> QED
    BY <2>1, <2>2, <2>3
<1>5. RateInv
  <2>1. Hitting = {}
    BY DEF Hitting
  <2>2. Cardinality(Request) \in Nat /\ Cardinality({}) = 0
    BY RequestAssumption, FS_CardinalityType, FS_EmptySet
  <2> QED
    BY <2>1, <2>2, LimitAssumption DEF RateInv
<1> QED
  BY <1>1, <1>2, <1>3, <1>4, <1>5 DEF IInv

(***************************************************************************)
(* Type correctness.                                                       *)
(***************************************************************************)

LEMMA FinishTypes ==
    ASSUME TypeOK, NEW r \in Request, Finish(r)
    PROVE  /\ stage' \in [Request -> Stage]
           /\ ask' \in [Request -> Ask \cup {NoAsk}]
           /\ booking' \in [Request -> Booking \cup {NoBooking}]
           /\ gatedAt' \in [Request -> Time]
           /\ runs' \in [Request -> Nat]
  BY TimeAssumption DEF TypeOK, Finish, Goto, Stage, Time

\* A booking that is not NoBooking is one of the table.
LEMMA BookingTypes ==
    ASSUME TypeOK, NEW r \in Request, booking[r] # NoBooking
    PROVE  booking[r] \in Booking /\ QuotaLimit[booking[r].type] \in Nat \ {0}
  BY LimitAssumption DEF TypeOK, Booking

LEMMA ServeTypes ==
    ASSUME TypeOK, NEW r \in Request, RequestInv(r), Arrive(r) \/ Serve(r)
    PROVE  TypeOK'
<1>1. UNCHANGED clockVars
  BY DEF Arrive, Serve, CheckRate, CheckIpRate, CountHit, RateLimitFails, FailOpen, Gate,
         Quota, CheckQuota, CheckQuotaFails, Refuse, Succeed, Fail, Charge, ChargeFails,
         Cancel
<1>2. /\ now' \in Time /\ plan' \in Plan /\ wallet' \in SUBSET Token
      /\ heldUntil' \in [0 .. 3 -> 0 .. MaxTime + 1]
  BY <1>1 DEF TypeOK, clockVars
<1>3. faults' \in 0 .. MaxFaults
  BY TimeAssumption
     DEF TypeOK, Fault, Arrive, Serve, CheckRate, CheckIpRate, CountHit, RateLimitFails,
         FailOpen, Gate, Quota, CheckQuota, CheckQuotaFails, Refuse, Succeed, Fail, Charge,
         ChargeFails, Cancel
<1>4. hits' \in Nat /\ passed' \in Nat /\ opened' \in Nat
  BY DEF TypeOK, countVars, windowVars, Arrive, Serve, CheckRate, CheckIpRate, CountHit,
         RateLimitFails, FailOpen, Gate, Quota, CheckQuota, CheckQuotaFails, Refuse,
         Succeed, Fail, Charge, ChargeFails, Cancel
<1>5. stage[r] = "charge" => booking[r] \in Booking
  BY BookingTypes DEF RequestInv
<1>6. used' \in [Booking -> Nat]
  BY <1>5
     DEF TypeOK, countVars, Arrive, Serve, CheckRate, CheckIpRate, CountHit,
         RateLimitFails, FailOpen, Gate, Quota, CheckQuota, CheckQuotaFails, Refuse,
         Succeed, Fail, Charge, ChargeFails, Cancel
<1>7. uncounted' \in [Booking -> Nat]
  BY <1>5
     DEF TypeOK, ledgerVars, Arrive, Serve, CheckRate, CheckIpRate, CountHit,
         RateLimitFails, FailOpen, Gate, Quota, CheckQuota, CheckQuotaFails, Refuse,
         Succeed, Fail, Charge, ChargeFails, Cancel
<1>8. served' \in [Booking -> Nat]
  <2>1. CASE Succeed(r)
    <3>1. booking[r] # NoBooking => booking[r] \in Booking
      BY BookingTypes
    <3> QED
      BY <2>1, <3>1 DEF TypeOK, Succeed
  <2>2. CASE ~Succeed(r)
    BY <2>2
       DEF TypeOK, ledgerVars, Arrive, Serve, CheckRate, CheckIpRate, CountHit,
           RateLimitFails, FailOpen, Gate, Quota, CheckQuota, CheckQuotaFails, Refuse,
           Fail, Charge, ChargeFails, Cancel
  <2> QED
    BY <2>1, <2>2
<1> DEFINE Typed == /\ stage' \in [Request -> Stage]
                    /\ ask' \in [Request -> Ask \cup {NoAsk}]
                    /\ booking' \in [Request -> Booking \cup {NoBooking}]
                    /\ gatedAt' \in [Request -> Time]
                    /\ runs' \in [Request -> Nat]
<1>9. Typed
  <2>1. CASE Finish(r)
    BY <2>1, FinishTypes
  <2>2. CASE Arrive(r)
    BY <2>2 DEF Arrive, TypeOK, Goto, Stage, Ask
  <2>3. CASE CheckRate(r) /\ ~Finish(r)
    BY <2>3 DEF CheckRate, TypeOK, Goto, Stage
  <2>4. CASE CheckIpRate(r) /\ ~Finish(r)
    BY <2>4 DEF CheckIpRate, TypeOK, Goto, Stage
  <2>5. CASE CountHit(r) \/ RateLimitFails(r) \/ FailOpen(r)
    BY <2>5 DEF CountHit, RateLimitFails, FailOpen, TypeOK, Goto, Stage
  <2>6. CASE Gate(r) /\ ~Finish(r)
    <3>1. now \in Time /\ 0 \in Time
      BY TimeAssumption DEF TypeOK, Time
    <3> QED
      BY <2>6, <3>1 DEF Gate, TypeOK, Goto, Stage
  <2>7. CASE Quota(r) /\ ~Finish(r)
    <3>1. [type |-> TypeOf(ask[r].path), day |-> DayOf[now]] \in Booking
      BY TimeAssumption DEF TypeOK, TypeOf, Booking, QuotaType
    <3> QED
      BY <2>7, <3>1 DEF Quota, Pass, TypeOK, Goto, Stage
  <2>8. CASE CheckQuota(r) /\ ~Finish(r)
    BY <2>8 DEF CheckQuota, Pass, TypeOK, Goto, Stage
  <2>9. CASE Succeed(r) /\ ~Finish(r)
    BY <2>9 DEF Succeed, TypeOK, Goto, Stage
  <2>10. CASE CheckQuotaFails(r) \/ Refuse(r) \/ Fail(r) \/ Charge(r) \/ ChargeFails(r)
              \/ Cancel(r)
    <3>1. Finish(r)
      BY <2>10 DEF CheckQuotaFails, Refuse, Fail, Charge, ChargeFails, Cancel, Caught
    <3> QED
      BY <3>1, FinishTypes
  <2> QED
    BY <2>1, <2>2, <2>3, <2>4, <2>5, <2>6, <2>7, <2>8, <2>9, <2>10 DEF Serve
<1> QED
  BY <1>2, <1>3, <1>4, <1>6, <1>7, <1>8, <1>9 DEF TypeOK

(***************************************************************************)
(* The clock: hours pass, the plan changes, tokens are issued.             *)
(***************************************************************************)

ClockStep ==
    Tick \/ (\E level \in Plan : SetPlan(level)) \/ Issue

LEMMA PlanLevels == Plan \subseteq 0 .. 3
  BY PlanAssumption

\* What was held stays held; no hour is counted before it comes.
LEMMA HeldGrows ==
    ASSUME TypeOK, ClockInv, ClockStep
    PROVE  /\ now \in Nat /\ now' \in Nat /\ now <= now'
           /\ heldUntil' \in [0 .. 3 -> 0 .. MaxTime + 1]
           /\ \A l \in 0 .. 3 : heldUntil[l] <= heldUntil'[l]
           /\ \A l \in 0 .. 3 : heldUntil'[l] <= now' + 1
           /\ \A l \in 0 .. plan' : heldUntil'[l] = now' + 1
<1>1. now \in Nat /\ plan \in 0 .. 3 /\ now <= MaxTime /\ MaxTime \in Nat
  BY PlanLevels, TimeAssumption DEF TypeOK, Time
<1>2. CASE Tick
  BY <1>1, <1>2 DEF Tick, Held, TypeOK, ClockInv
<1>3. ASSUME NEW level \in Plan, SetPlan(level)
      PROVE  /\ now \in Nat /\ now' \in Nat /\ now <= now'
             /\ heldUntil' \in [0 .. 3 -> 0 .. MaxTime + 1]
             /\ \A l \in 0 .. 3 : heldUntil[l] <= heldUntil'[l]
             /\ \A l \in 0 .. 3 : heldUntil'[l] <= now' + 1
             /\ \A l \in 0 .. plan' : heldUntil'[l] = now' + 1
  <2>1. level \in 0 .. 3
    BY PlanLevels
  <2> QED
    BY <1>1, <1>3, <2>1 DEF SetPlan, Held, TypeOK, ClockInv
<1>4. CASE Issue
  BY <1>1, <1>4 DEF Issue, TypeOK, ClockInv
<1> QED
  BY <1>2, <1>3, <1>4 DEF ClockStep

LEMMA ClockTypes ==
    ASSUME TypeOK, ClockInv, ClockStep
    PROVE  TypeOK'
<1>1. UNCHANGED <<countVars, requestVars, faults, ledgerVars>>
  BY DEF ClockStep, Tick, SetPlan, Issue
<1>2. now' \in Time
  BY TimeAssumption DEF TypeOK, ClockStep, Tick, SetPlan, Issue, Time
<1>3. plan' \in Plan
  BY DEF TypeOK, ClockStep, Tick, SetPlan, Issue
<1>4. wallet' \in SUBSET Token
  BY DEF TypeOK, ClockStep, Tick, SetPlan, Issue, Token
<1> QED
  BY <1>1, <1>2, <1>3, <1>4, HeldGrows
     DEF TypeOK, countVars, windowVars, requestVars, ledgerVars

LEMMA TokenFields ==
    ASSUME NEW t \in Token
    PROVE  t.plan \in 0 .. 3 /\ t.issued \in Nat /\ t.issued <= MaxTime
<1>1. t.plan \in Plan
  BY DEF Token
<1>2. t.issued \in Time
  BY DEF Token
<1>3. t.issued \in Nat /\ t.issued <= MaxTime
  BY <1>2, TimeAssumption DEF Time
<1> QED
  BY <1>1, <1>3, PlanLevels

\* A token's claim stays true.
LEMMA ClaimsStay ==
    ASSUME TypeOK, ClockInv, ClockStep, NEW t \in Token \cup {NoToken}, TokenInv(t)
    PROVE  TokenInv(t)'
<1> SUFFICES ASSUME t # NoToken, NEW l \in 0 .. t.plan PROVE t.issued < heldUntil'[l]
  BY DEF TokenInv
<1>1. t.plan \in 0 .. 3 /\ t.issued \in Nat
  <2>1. t \in Token
    OBVIOUS
  <2> QED
    BY <2>1, TokenFields
<1>2. t.issued < heldUntil[l] /\ l \in 0 .. 3
  BY <1>1 DEF TokenInv
<1> QED
  BY <1>1, <1>2, HeldGrows DEF TypeOK

LEMMA ClockClockInv ==
    ASSUME TypeOK, ClockInv, ClockStep
    PROVE  ClockInv'
<1>1. ASSUME NEW t \in wallet' PROVE TokenInv(t)'
  <2>1. CASE t \in wallet
    <3>1. t \in Token /\ TokenInv(t)
      BY <2>1 DEF TypeOK, ClockInv
    <3> QED
      BY <3>1, ClaimsStay
  <2>2. CASE t \notin wallet
    <3>1. Issue /\ t = [plan |-> plan, issued |-> now]
      BY <2>2 DEF ClockStep, Tick, SetPlan, Issue
    <3>2. \A l \in 0 .. plan : heldUntil'[l] = now + 1
      BY <3>1, HeldGrows DEF Issue
    <3> QED
      BY <3>1, <3>2, HeldGrows DEF TokenInv
  <2> QED
    BY <2>1, <2>2
<1> QED
  BY <1>1, HeldGrows DEF ClockInv

\* A token that is not accepted is not accepted later: it was not dated ahead.
LEMMA TokensAge ==
    ASSUME TypeOK, ClockInv, ClockStep, NEW t \in Token \cup {NoToken}, TokenInv(t),
           Accepted(t)'
    PROVE  Accepted(t)
<1>1. now \in Nat /\ now' \in Nat /\ now <= now' /\ now' <= MaxTime /\ MaxTime \in Nat
  <2>1. TypeOK'
    BY ClockTypes
  <2>2. now' \in Time
    BY <2>1 DEF TypeOK
  <2> QED
    BY <2>2, HeldGrows, TimeAssumption DEF Time
<1>2. t # NoToken
  BY <1>1 DEF Accepted, NoToken
<1>3. t.issued \in Nat /\ t.plan \in 0 .. 3
  <2>1. t \in Token
    BY <1>2
  <2> QED
    BY <2>1, TokenFields
<1>4. t.issued < heldUntil[0] /\ heldUntil[0] <= now + 1 /\ heldUntil[0] \in Nat
  BY <1>2, <1>3 DEF TokenInv, ClockInv, TypeOK
<1> QED
  BY <1>1, <1>3, <1>4, TimeAssumption DEF Accepted

LEMMA AskTypes ==
    ASSUME TypeOK, NEW r \in Request
    PROVE  /\ ask[r].token \in Token \cup {NoToken}
           /\ RequiredLevel(ask[r].path) \in 0 .. 3
  BY DEF TypeOK, Ask, NoAsk, RequiredLevel

LEMMA ClockRequestInv ==
    ASSUME TypeOK, ClockInv, ClockStep, NEW r \in Request, RequestInv(r)
    PROVE  RequestInv(r)'
<1>1. UNCHANGED requestVars
  BY DEF ClockStep, Tick, SetPlan, Issue
<1>2. TokenInv(ask[r].token)'
  BY <1>1, ClaimsStay, AskTypes DEF RequestInv, requestVars
<1>3. Entitled(r)'
  <2>1. Entitled(r)
    BY DEF RequestInv
  <2>2. gatedAt[r] \in Nat /\ TTL \in Nat
    BY TimeAssumption DEF TypeOK, Time
  <2> DEFINE level == RequiredLevel(ask[r].path)
  <2>3. heldUntil[level] \in Nat /\ heldUntil'[level] \in Nat
        /\ heldUntil[level] <= heldUntil'[level]
    BY AskTypes, HeldGrows DEF TypeOK
  <2> QED
    BY <1>1, <2>1, <2>2, <2>3 DEF Entitled, requestVars
<1>4. BookedIfLimited(r)'
  <2>1. Accepted(ask[r].token)' => Accepted(ask[r].token)
    BY <1>1, TokensAge, AskTypes DEF RequestInv, requestVars, Accepted
  <2>2. Refused(r) => Refused(r)'
    BY <1>1, <2>1 DEF Refused, requestVars
  <2> QED
    BY <1>1, <2>2 DEF RequestInv, BookedIfLimited, requestVars
<1> QED
  BY <1>1, <1>2, <1>3, <1>4 DEF RequestInv, ReadAtGate, requestVars

(***************************************************************************)
(* A request's own fields.                                                 *)
(***************************************************************************)

LEMMA ClockRests ==
    ASSUME NEW r \in Request, Arrive(r) \/ Serve(r)
    PROVE  UNCHANGED clockVars
  BY DEF Arrive, Serve, CheckRate, CheckIpRate, CountHit, RateLimitFails, FailOpen, Gate,
         Quota, CheckQuota, CheckQuotaFails, Refuse, Succeed, Fail, Charge, ChargeFails,
         Cancel

\* A request's step leaves the others where they are.
LEMMA OthersRest ==
    ASSUME TypeOK, NEW r \in Request, NEW q \in Request \ {r}, Arrive(r) \/ Serve(r)
    PROVE  /\ stage'[q] = stage[q] /\ ask'[q] = ask[q] /\ booking'[q] = booking[q]
           /\ gatedAt'[q] = gatedAt[q] /\ runs'[q] = runs[q]
<1>1. CASE Finish(r)
  BY <1>1 DEF Finish, Goto, TypeOK
<1>2. CASE Arrive(r)
  BY <1>2 DEF Arrive, Goto, TypeOK
<1>3. CASE Serve(r) /\ ~Finish(r)
  BY <1>3
     DEF Serve, CheckRate, CheckIpRate, CountHit, RateLimitFails, FailOpen, Gate, Quota,
         CheckQuota, CheckQuotaFails, Refuse, Succeed, Fail, Charge, ChargeFails, Cancel,
         Caught, Pass, Goto, TypeOK
<1> QED
  BY <1>1, <1>2, <1>3

LEMMA FinishInv ==
    ASSUME TypeOK, NEW r \in Request, Finish(r)
    PROVE  RequestInv(r)'
  BY DEF TypeOK, Finish, Goto, RequestInv, TokenInv, NoAsk, Entitled, ReadAtGate, BookedIfLimited

\* What the gate saw was true less than a token's lifetime ago.
LEMMA GateInv ==
    ASSUME TypeOK, NEW r \in Request, RequestInv(r), Gate(r), ~Finish(r)
    PROVE  Entitled(r)' /\ ReadAtGate(r)'
<1>0. ReadAtGate(r)'
  BY DEF Gate, ReadAtGate, Authenticated, Goto, TypeOK
<1> DEFINE level == RequiredLevel(ask[r].path)
           token == ask[r].token
<1> SUFFICES ASSUME level > 0
             PROVE  heldUntil[level] > 0 /\ now + 1 < heldUntil[level] + TTL
  BY <1>0, ClockRests DEF Gate, Entitled, Goto, TypeOK, clockVars
<1>1. Accepted(token) /\ token.plan >= level
  BY DEF Gate, Authenticated, LevelOf
<1>2. now \in Nat /\ now <= MaxTime /\ MaxTime \in Nat /\ TTL \in Nat
  BY TimeAssumption DEF TypeOK, Time
<1>3. token # NoToken
  BY <1>1, <1>2 DEF Accepted, NoToken
<1>4. token \in Token
  BY <1>3, AskTypes
<1>5. token.plan \in 0 .. 3 /\ token.issued \in Nat
  BY <1>4, TokenFields
<1>6. level \in 0 .. 3 /\ heldUntil[level] \in Nat
  BY AskTypes DEF TypeOK
<1>7. TokenInv(token)
  BY DEF RequestInv
<1>8. token.issued < heldUntil[level]
  BY <1>1, <1>3, <1>5, <1>6, <1>7 DEF TokenInv
<1> HIDE DEF level, token
<1> QED
  BY <1>1, <1>2, <1>5, <1>6, <1>8 DEF Accepted

LEMMA PassInv ==
    ASSUME TypeOK, NEW r \in Request, RequestInv(r), Quota(r), ~Finish(r)
    PROVE  RequestInv(r)'
<1>1. ~Blocked(ask[r].path, LevelOf(r)) /\ UNCHANGED <<ask, gatedAt, clockVars>>
      /\ stage[r] = "quota"
  BY DEF Quota
<1>2. booking[r] = NoBooking /\ runs[r] = 0
  BY <1>1 DEF RequestInv
<1>3. CASE Counted(r)
  <2> DEFINE row == [type |-> TypeOf(ask[r].path), day |-> DayOf[now]]
  <2>1. stage'[r] = "check" /\ booking'[r] = row /\ runs'[r] = 0
    BY <1>1, <1>2, <1>3 DEF Quota, Goto, TypeOK
  <2>2. row # NoBooking
    <3>1. row.type # "none"
      BY DEF TypeOf
    <3>2. NoBooking.type = "none"
      BY DEF NoBooking
    <3> QED
      BY <3>1, <3>2
  <2> HIDE DEF row
  <2> QED
    BY <1>1, <2>1, <2>2 DEF RequestInv, TokenInv, Entitled, ReadAtGate, BookedIfLimited, clockVars
<1>4. CASE ~Counted(r)
  <2>1. stage'[r] = "handle" /\ booking'[r] = NoBooking /\ runs'[r] = 1
    BY <1>1, <1>2, <1>4 DEF Quota, Pass, Goto, TypeOK
  <2>2. TokenInv(ask[r].token)' /\ Entitled(r)' /\ ReadAtGate(r)'
    BY <1>1, <2>1 DEF RequestInv, TokenInv, Entitled, ReadAtGate, clockVars
  <2>3. BookedIfLimited(r)'
    <3>1. ~Refused(r) /\ NeedsAuth(ask[r].path)
             /\ (ask[r].exact \/ RequiredLevel(ask[r].path) > 0) => Authenticated(r)
      BY <1>1 DEF Refused, Authenticated, RequestInv, ReadAtGate
    <3>2. Refused(r)' = Refused(r)
      BY <1>1 DEF Refused, Accepted, clockVars
    <3> QED
      BY <1>1, <1>4, <3>1, <3>2 DEF BookedIfLimited, Counted, LevelOf
  <2> QED
    BY <2>1, <2>2, <2>3 DEF RequestInv
<1> QED
  BY <1>3, <1>4

LEMMA RequestStep ==
    ASSUME TypeOK, ClockInv, \A q \in Request : RequestInv(q),
           NEW r \in Request, Arrive(r) \/ Serve(r), NEW q \in Request
    PROVE  RequestInv(q)'
<1>1. UNCHANGED clockVars
  BY ClockRests
<1>2. CASE q # r
  <2>1. /\ stage'[q] = stage[q] /\ ask'[q] = ask[q] /\ booking'[q] = booking[q]
        /\ gatedAt'[q] = gatedAt[q] /\ runs'[q] = runs[q]
    BY <1>2, OthersRest
  <2>2. Refused(q)' = Refused(q)
    BY <1>1, <2>1 DEF Refused, Accepted, clockVars
  <2>3. BookedIfLimited(q)'
    BY <2>1, <2>2 DEF RequestInv, BookedIfLimited
  <2> QED
    BY <1>1, <2>1, <2>3 DEF RequestInv, TokenInv, Entitled, ReadAtGate, clockVars
<1>3. ASSUME RequestInv(r) PROVE RequestInv(r)'
  <2>1. CASE Finish(r)
    BY <2>1, FinishInv
  <2>2. CASE Arrive(r)
    <3>1. PICK p \in Path, t \in wallet \cup {NoToken}, e \in BOOLEAN :
            ask' = [ask EXCEPT ![r] = [path |-> p, token |-> t, exact |-> e]]
      BY <2>2 DEF Arrive
    <3>2. stage'[r] = "limit" /\ ask'[r].token = t
      BY <2>2, <3>1 DEF Arrive, Goto, TypeOK
    <3>3. TokenInv(t)
      BY DEF ClockInv, TokenInv
    <3> QED
      BY <1>1, <1>3, <2>2, <3>2, <3>3
         DEF Arrive, RequestInv, TokenInv, Entitled, ReadAtGate, BookedIfLimited, clockVars
  <2>3. CASE ~Finish(r) /\ (CheckRate(r) \/ CheckIpRate(r) \/ CountHit(r)
                              \/ RateLimitFails(r) \/ FailOpen(r))
    <3>1. /\ stage[r] \in {"limit", "hit", "failed"}
          /\ stage'[r] \in {"hit", "gate", "failed"}
          /\ UNCHANGED <<ask, booking, gatedAt, runs>>
      BY <2>3 DEF CheckRate, CheckIpRate, CountHit, RateLimitFails, FailOpen, Goto, TypeOK
    <3> QED
      BY <1>1, <1>3, <3>1
         DEF RequestInv, TokenInv, Entitled, ReadAtGate, BookedIfLimited, clockVars
  <2>4. CASE ~Finish(r) /\ Gate(r)
    <3>1. Entitled(r)' /\ ReadAtGate(r)'
      BY <1>3, <2>4, GateInv
    <3>2. stage[r] = "gate" /\ stage'[r] = "quota" /\ UNCHANGED <<ask, booking, runs>>
      BY <2>4 DEF Gate, Goto, TypeOK
    <3> QED
      BY <1>1, <1>3, <3>1, <3>2 DEF RequestInv, TokenInv, BookedIfLimited, clockVars
  <2>5. CASE ~Finish(r) /\ Quota(r)
    BY <1>3, <2>5, PassInv
  <2>6. CASE ~Finish(r) /\ CheckQuota(r)
    <3>1. /\ stage[r] = "check" /\ stage'[r] = "handle" /\ runs'[r] = runs[r] + 1
          /\ UNCHANGED <<ask, booking, gatedAt>>
      BY <2>6 DEF CheckQuota, Pass, Goto, TypeOK
    <3> QED
      BY <1>1, <1>3, <3>1
         DEF RequestInv, TokenInv, Entitled, ReadAtGate, BookedIfLimited, clockVars
  <2>7. CASE ~Finish(r) /\ Succeed(r)
    <3>1. /\ stage[r] = "handle" /\ stage'[r] = "charge" /\ booking[r] # NoBooking
          /\ UNCHANGED <<ask, booking, gatedAt, runs>>
      BY <2>7 DEF Succeed, Goto, TypeOK
    <3> QED
      BY <1>1, <1>3, <3>1
         DEF RequestInv, TokenInv, Entitled, ReadAtGate, BookedIfLimited, clockVars
  <2>8. CASE CheckQuotaFails(r) \/ Refuse(r) \/ Fail(r) \/ Charge(r) \/ ChargeFails(r)
             \/ Cancel(r)
    <3>1. Finish(r)
      BY <2>8 DEF CheckQuotaFails, Refuse, Fail, Charge, ChargeFails, Cancel, Caught
    <3> QED
      BY <3>1, FinishInv
  <2> QED
    BY <2>1, <2>2, <2>3, <2>4, <2>5, <2>6, <2>7, <2>8 DEF Serve
<1> QED
  BY <1>2, <1>3

(***************************************************************************)
(* The ledger of the quota: what is served, counted and still to count.    *)
(***************************************************************************)

LEMMA LeaveCount ==
    ASSUME NEW S \in SUBSET Request, NEW r \in Request
    PROVE  /\ r \in S => Cardinality(S \ {r}) = Cardinality(S) - 1
           /\ r \notin S => Cardinality(S \ {r}) = Cardinality(S)
<1>1. r \notin S => S \ {r} = S
  OBVIOUS
<1> QED
  BY <1>1, OneLess

\* A request that is answered leaves the ledger; what it had served was counted or
\* is lost.
LEMMA LedgerFinish ==
    ASSUME TypeOK, LedgerInv, NEW r \in Request, RequestInv(r), Finish(r),
           UNCHANGED served,
           \/ stage[r] # "charge" /\ UNCHANGED <<used, uncounted>>
           \/ /\ stage[r] = "charge"
              /\ used' = [used EXCEPT ![booking[r]] = @ + 1] /\ UNCHANGED uncounted
           \/ /\ stage[r] = "charge"
              /\ uncounted' = [uncounted EXCEPT ![booking[r]] = @ + 1] /\ UNCHANGED used
    PROVE  LedgerInv'
<1> SUFFICES ASSUME NEW b \in Booking
             PROVE  /\ served'[b] <= used'[b] + Cardinality(Charging(b)') + uncounted'[b]
                    /\ used'[b] + Cardinality(Booked(b)')
                         < QuotaLimit[b.type] + Cardinality(Request)
  BY DEF LedgerInv
<1>1. Booked(b)' = Booked(b) \ {r} /\ Charging(b)' = Charging(b) \ {r}
  BY DEF Booked, Charging, Finish, Goto, TypeOK
<1>2. Booked(b) \in SUBSET Request /\ Charging(b) \in SUBSET Request
  BY DEF Booked, Charging
<1> DEFINE nb == Cardinality(Booked(b))  nc == Cardinality(Charging(b))
           mb == Cardinality(Booked(b)') mc == Cardinality(Charging(b)')
           limit == QuotaLimit[b.type]   n == Cardinality(Request)
<1>3. /\ nb \in Nat /\ nc \in Nat /\ n \in Nat
      /\ r \in Booked(b) => mb = nb - 1
      /\ r \notin Booked(b) => mb = nb
      /\ r \in Charging(b) => mc = nc - 1
      /\ r \notin Charging(b) => mc = nc
  BY <1>1, <1>2, LeaveCount, RequestsCounted
<1>4. limit \in Nat
  BY LimitAssumption DEF Booking
<1>5. used[b] \in Nat /\ uncounted[b] \in Nat /\ served[b] \in Nat /\ served'[b] = served[b]
  BY DEF TypeOK
<1>6. served[b] <= used[b] + nc + uncounted[b] /\ used[b] + nb < limit + n
  BY DEF LedgerInv
<1>7. CASE stage[r] = "charge" /\ booking[r] = b
  <2>1. r \in Booked(b) /\ r \in Charging(b)
    BY <1>7 DEF Booked, Charging
  <2>2. \/ used'[b] = used[b] + 1 /\ uncounted'[b] = uncounted[b]
        \/ used'[b] = used[b] /\ uncounted'[b] = uncounted[b] + 1
    BY <1>7 DEF TypeOK
  <2> HIDE DEF nb, nc, mb, mc, limit, n
  <2>3. used'[b] + mb < limit + n
    BY <1>3, <1>4, <1>5, <1>6, <2>1, <2>2
  <2>4. served'[b] <= used'[b] + mc + uncounted'[b]
    BY <1>3, <1>4, <1>5, <1>6, <2>1, <2>2
  <2> QED
    BY <2>3, <2>4 DEF mb, mc, limit, n
<1>8. CASE stage[r] # "charge" \/ booking[r] # b
  <2>1. r \notin Charging(b)
    BY <1>8 DEF Charging
  <2>2. used'[b] = used[b] /\ uncounted'[b] = uncounted[b]
    BY <1>8, BookingTypes DEF TypeOK, RequestInv
  <2> HIDE DEF nb, nc, mb, mc, limit, n
  <2>3. used'[b] + mb < limit + n
    BY <1>3, <1>4, <1>5, <1>6, <2>2
  <2>4. served'[b] <= used'[b] + mc + uncounted'[b]
    BY <1>3, <1>4, <1>5, <1>6, <2>1, <2>2
  <2> QED
    BY <2>3, <2>4 DEF mb, mc, limit, n
<1> QED
  BY <1>7, <1>8

\* A request joins the booked ones only while there is room.
LEMMA LedgerJoin ==
    ASSUME TypeOK, LedgerInv, NEW r \in Request, CheckQuota(r), ~Finish(r)
    PROVE  LedgerInv'
<1> SUFFICES ASSUME NEW b \in Booking
             PROVE  /\ served'[b] <= used'[b] + Cardinality(Charging(b)') + uncounted'[b]
                    /\ used'[b] + Cardinality(Booked(b)')
                         < QuotaLimit[b.type] + Cardinality(Request)
  BY DEF LedgerInv
<1>1. /\ stage[r] = "check" /\ stage' = [stage EXCEPT ![r] = "handle"]
      /\ ~Exhausted(booking[r]) /\ UNCHANGED <<booking, used, served, uncounted>>
  BY DEF CheckQuota, Pass, Goto, countVars, ledgerVars
<1>2. Charging(b)' = Charging(b)
  BY <1>1 DEF Charging, TypeOK
<1>3. CASE booking[r] = b
  <2>1. Booked(b)' \in SUBSET Request
    BY DEF Booked
  <2>2. Cardinality(Booked(b)') <= Cardinality(Request)
        /\ Cardinality(Booked(b)') \in Nat /\ Cardinality(Request) \in Nat
    BY <2>1, RequestsCounted
  <2>3. QuotaLimit[b.type] \in Nat /\ used[b] \in Nat
    BY LimitAssumption DEF TypeOK, Booking
  <2>4. used[b] < QuotaLimit[b.type]
    BY <1>1, <1>3, <2>3 DEF Exhausted
  <2>5. used'[b] + Cardinality(Booked(b)') < QuotaLimit[b.type] + Cardinality(Request)
    BY <1>1, <2>2, <2>3, <2>4
  <2> QED
    BY <1>1, <1>2, <2>5 DEF LedgerInv
<1>4. CASE booking[r] # b
  <2>1. Booked(b)' = Booked(b)
    BY <1>1, <1>4 DEF Booked, TypeOK
  <2> QED
    BY <1>1, <1>2, <2>1 DEF LedgerInv
<1> QED
  BY <1>3, <1>4

\* A call that is served is about to be counted.
LEMMA LedgerSucceed ==
    ASSUME TypeOK, LedgerInv, NEW r \in Request, Succeed(r), ~Finish(r)
    PROVE  LedgerInv'
<1> SUFFICES ASSUME NEW b \in Booking
             PROVE  /\ served'[b] <= used'[b] + Cardinality(Charging(b)') + uncounted'[b]
                    /\ used'[b] + Cardinality(Booked(b)')
                         < QuotaLimit[b.type] + Cardinality(Request)
  BY DEF LedgerInv
<1>1. /\ stage[r] = "handle" /\ stage' = [stage EXCEPT ![r] = "charge"]
      /\ booking[r] # NoBooking
      /\ served' = [served EXCEPT ![booking[r]] = @ + 1]
      /\ UNCHANGED <<booking, used, uncounted>>
  BY DEF Succeed, Goto, countVars
<1>2. Booked(b)' = Booked(b)
  BY <1>1 DEF Booked, TypeOK
<1>3. booking[r] \in Booking
  BY <1>1, BookingTypes
<1>4. Charging(b) \in SUBSET Request
  BY DEF Charging
<1>5. /\ Cardinality(Charging(b)) \in Nat /\ served[b] \in Nat /\ used[b] \in Nat
      /\ uncounted[b] \in Nat
  BY <1>4, RequestsCounted DEF TypeOK
<1>6. served[b] <= used[b] + Cardinality(Charging(b)) + uncounted[b]
  BY DEF LedgerInv
<1>7. CASE booking[r] = b
  <2>1. Charging(b)' = Charging(b) \cup {r} /\ r \notin Charging(b)
    BY <1>1, <1>7 DEF Charging, TypeOK
  <2>2. Cardinality(Charging(b)') = Cardinality(Charging(b)) + 1
    BY <1>4, <2>1, RoomForOne
  <2>3. served'[b] = served[b] + 1
    BY <1>1, <1>7 DEF TypeOK
  <2>4. served'[b] <= used'[b] + Cardinality(Charging(b)') + uncounted'[b]
    BY <1>1, <1>5, <1>6, <2>2, <2>3
  <2> QED
    BY <1>1, <1>2, <2>4 DEF LedgerInv
<1>8. CASE booking[r] # b
  <2>1. Charging(b)' = Charging(b)
    BY <1>1, <1>8 DEF Charging, TypeOK
  <2>2. served'[b] = served[b]
    BY <1>1, <1>3, <1>8 DEF TypeOK
  <2> QED
    BY <1>1, <1>2, <2>1, <2>2 DEF LedgerInv
<1> QED
  BY <1>7, <1>8

\* The other steps do not touch it.
LEMMA LedgerRests ==
    ASSUME TypeOK, LedgerInv, NEW r \in Request,
           UNCHANGED <<used, served, uncounted>>,
           \A q \in Request \ {r} : stage'[q] = stage[q] /\ booking'[q] = booking[q],
           stage[r] \notin {"handle", "charge"},
           stage'[r] \in {"handle", "charge"} => booking'[r] = NoBooking
    PROVE  LedgerInv'
<1>1. ASSUME NEW b \in Booking PROVE Booked(b)' = Booked(b) /\ Charging(b)' = Charging(b)
  <2>1. b # NoBooking
    <3>1. b.type # "none"
      BY DEF Booking, QuotaType
    <3> QED
      BY <3>1 DEF NoBooking
  <2> QED
    BY <2>1 DEF Booked, Charging, TypeOK
<1> QED
  BY <1>1 DEF LedgerInv

LEMMA LedgerStep ==
    ASSUME TypeOK, LedgerInv, NEW r \in Request, RequestInv(r), Arrive(r) \/ Serve(r)
    PROVE  LedgerInv'
<1>0. \A q \in Request \ {r} : stage'[q] = stage[q] /\ booking'[q] = booking[q]
  BY OthersRest
<1>1. CASE Arrive(r)
  <2>1. stage[r] = "idle" /\ stage'[r] = "limit" /\ UNCHANGED <<used, served, uncounted>>
    BY <1>1 DEF Arrive, Goto, TypeOK, countVars, ledgerVars
  <2> QED
    BY <1>0, <2>1, LedgerRests
<1>2. CASE CheckRate(r) \/ CheckIpRate(r) \/ CountHit(r) \/ RateLimitFails(r) \/ FailOpen(r)
           \/ Gate(r)
  <2>1. UNCHANGED <<used, served, uncounted>>
    BY <1>2 DEF CheckRate, CheckIpRate, CountHit, RateLimitFails, FailOpen, Gate,
                countVars, ledgerVars
  <2>2. stage[r] \in {"limit", "hit", "failed", "gate"}
    BY <1>2 DEF CheckRate, CheckIpRate, CountHit, RateLimitFails, FailOpen, Gate
  <2>3. stage'[r] \in {"idle", "hit", "failed", "gate", "quota"}
    BY <1>2 DEF CheckRate, CheckIpRate, CountHit, RateLimitFails, FailOpen, Gate, Finish,
                Goto, TypeOK
  <2> QED
    BY <1>0, <2>1, <2>2, <2>3, LedgerRests
<1>3. CASE Quota(r)
  <2>1. stage[r] = "quota" /\ UNCHANGED <<used, served, uncounted>>
    BY <1>3 DEF Quota, countVars, ledgerVars
  <2>2. booking[r] = NoBooking
    BY <2>1 DEF RequestInv
  <2>3. stage'[r] \in {"handle", "charge"} => booking'[r] = NoBooking
    BY <1>3, <2>2 DEF Quota, Pass, Finish, Goto, TypeOK
  <2> QED
    BY <1>0, <2>1, <2>3, LedgerRests
<1>4. CASE CheckQuota(r) /\ ~Finish(r)
  BY <1>4, LedgerJoin
<1>5. CASE Succeed(r) /\ ~Finish(r)
  BY <1>5, LedgerSucceed
<1>6. CASE (CheckQuota(r) \/ Succeed(r)) /\ Finish(r)
  <2>1. stage[r] # "charge" /\ UNCHANGED <<used, uncounted>>
    BY <1>6 DEF CheckQuota, Succeed, countVars, ledgerVars
  <2>2. UNCHANGED served
    BY <1>6 DEF CheckQuota, Succeed, Finish, Goto, Pass, ledgerVars, TypeOK
  <2> QED
    BY <1>6, <2>1, <2>2, LedgerFinish
<1>7. CASE CheckQuotaFails(r) \/ Refuse(r) \/ Fail(r)
  <2>1. Finish(r) /\ stage[r] # "charge" /\ UNCHANGED <<used, uncounted, served>>
    BY <1>7 DEF CheckQuotaFails, Refuse, Fail, Caught, countVars, ledgerVars
  <2> QED
    BY <2>1, LedgerFinish
<1>8. CASE Charge(r) \/ ChargeFails(r)
  <2>1. Finish(r) /\ stage[r] = "charge" /\ UNCHANGED served
    BY <1>8 DEF Charge, ChargeFails, Caught, ledgerVars
  <2>2. \/ used' = [used EXCEPT ![booking[r]] = @ + 1] /\ UNCHANGED uncounted
        \/ uncounted' = [uncounted EXCEPT ![booking[r]] = @ + 1] /\ UNCHANGED used
    BY <1>8 DEF Charge, ChargeFails, ledgerVars
  <2> QED
    BY <2>1, <2>2, LedgerFinish
<1>9. CASE Cancel(r)
  <2>1. Finish(r) /\ UNCHANGED <<used, served>>
    BY <1>9 DEF Cancel, countVars
  <2>2. uncounted' = IF stage[r] = "charge"
                     THEN [uncounted EXCEPT ![booking[r]] = @ + 1] ELSE uncounted
    BY <1>9 DEF Cancel
  <2> QED
    BY <2>1, <2>2, LedgerFinish
<1> QED
  BY <1>1, <1>2, <1>3, <1>4, <1>5, <1>6, <1>7, <1>8, <1>9 DEF Serve

(***************************************************************************)
(* The window of the rate limiter.                                         *)
(***************************************************************************)

LEMMA RateStep ==
    ASSUME TypeOK, RateInv, NEW r \in Request, RequestInv(r), Arrive(r) \/ Serve(r)
    PROVE  RateInv'
<1>1. Hitting \in SUBSET Request /\ Hitting' \in SUBSET Request
  BY DEF Hitting
<1>2. /\ Cardinality(Hitting) \in Nat /\ Cardinality(Hitting') \in Nat
      /\ Cardinality(Request) \in Nat /\ hits \in Nat /\ UserRate \in Nat
      /\ passed \in Nat /\ opened \in Nat
      /\ Cardinality(Hitting') <= Cardinality(Request)
  BY <1>1, RequestsCounted, LimitAssumption DEF TypeOK
<1>3. \A q \in Request \ {r} : stage'[q] = stage[q]
  BY OthersRest
<1>4. CASE CheckRate(r) /\ ~Finish(r)
  <2>1. hits < UserRate /\ UNCHANGED <<hits, passed, opened>>
    BY <1>2, <1>4 DEF CheckRate, OverRate, countVars, windowVars
  <2> QED
    BY <1>2, <2>1 DEF RateInv
<1>5. CASE ~(CheckRate(r) /\ ~Finish(r))
  <2>1. stage'[r] # "hit"
    BY <1>5 DEF Arrive, Serve, CheckRate, CheckIpRate, CountHit, RateLimitFails, FailOpen,
                Gate, Quota, CheckQuota, CheckQuotaFails, Refuse, Succeed, Fail, Charge,
                ChargeFails, Cancel, Caught, Pass, Finish, Goto, TypeOK
  <2>2. Hitting' = Hitting \ {r}
    BY <1>3, <2>1 DEF Hitting
  <2>3. /\ stage[r] = "hit" => Cardinality(Hitting') = Cardinality(Hitting) - 1
        /\ stage[r] # "hit" => Cardinality(Hitting') = Cardinality(Hitting)
    BY <1>1, <2>2, LeaveCount DEF Hitting
  <2>4. \/ UNCHANGED <<hits, passed, opened>>
        \/ /\ stage[r] = "hit" /\ hits' = hits + 1 /\ opened' = opened
           /\ passed' \in {passed, passed + 1}
        \/ hits' = hits /\ passed' = passed + 1 /\ opened' = opened + 1
    BY DEF Arrive, Serve, CheckRate, CheckIpRate, CountHit, RateLimitFails, FailOpen, Gate,
           Quota, CheckQuota, CheckQuotaFails, Refuse, Succeed, Fail, Charge, ChargeFails,
           Cancel, countVars, windowVars
  <2> QED
    BY <1>2, <2>3, <2>4 DEF RateInv
<1> QED
  BY <1>4, <1>5

(***************************************************************************)
(* The theorems.                                                           *)
(***************************************************************************)

LEMMA ClockIInv ==
    ASSUME IInv, ClockStep
    PROVE  IInv'
<1>1. UNCHANGED <<countVars, requestVars, ledgerVars>>
  BY DEF ClockStep, Tick, SetPlan, Issue
<1>2. TypeOK' /\ ClockInv' /\ \A r \in Request : RequestInv(r)'
  BY ClockTypes, ClockClockInv, ClockRequestInv DEF IInv
<1>3. LedgerInv' /\ RateInv'
  BY <1>1 DEF IInv, LedgerInv, RateInv, Booked, Charging, Hitting, countVars, windowVars,
              requestVars, ledgerVars
<1> QED
  BY <1>2, <1>3 DEF IInv

LEMMA WindowIInv ==
    ASSUME IInv, WindowEnds
    PROVE  IInv'
<1>1. /\ UNCHANGED <<clockVars, used, requestVars, faults, ledgerVars>>
      /\ hits' = 0 /\ passed' = 0 /\ opened' = 0
  BY DEF WindowEnds
<1>2. TypeOK'
  BY <1>1 DEF IInv, TypeOK, clockVars, requestVars, ledgerVars
<1>3. ClockInv' /\ LedgerInv'
  BY <1>1 DEF IInv, ClockInv, LedgerInv, TokenInv, Booked, Charging, clockVars,
              requestVars, ledgerVars
<1>4. ASSUME NEW r \in Request PROVE RequestInv(r)'
  <2>1. Refused(r)' = Refused(r)
    BY <1>1 DEF Refused, Accepted, clockVars, requestVars
  <2> QED
    BY <1>1, <2>1 DEF IInv, RequestInv, TokenInv, Entitled, ReadAtGate, BookedIfLimited, clockVars,
                      requestVars
<1>5. RateInv'
  <2>1. Hitting' \in SUBSET Request
    BY DEF Hitting
  <2>2. Cardinality(Hitting') \in Nat /\ Cardinality(Request) \in Nat
        /\ Cardinality(Hitting') <= Cardinality(Request)
    BY <2>1, RequestsCounted
  <2> QED
    BY <1>1, <2>2, LimitAssumption DEF RateInv
<1> QED
  BY <1>2, <1>3, <1>4, <1>5 DEF IInv

\* IInv is inductive.
THEOREM Invariance == Spec => []IInv
<1>1. Init => IInv
  BY InitIInv
<1>2. ASSUME IInv, [Next]_vars PROVE IInv'
  <2>1. CASE ClockStep
    BY <2>1, <1>2, ClockIInv
  <2>2. CASE WindowEnds
    BY <2>2, <1>2, WindowIInv
  <2>3. ASSUME NEW r \in Request, Arrive(r) \/ Serve(r) PROVE IInv'
    <3>1. TypeOK /\ ClockInv /\ RequestInv(r) /\ LedgerInv /\ RateInv
          /\ \A q \in Request : RequestInv(q)
      BY <1>2 DEF IInv
    <3>2. TypeOK' /\ LedgerInv' /\ RateInv'
      BY <2>3, <3>1, ServeTypes, LedgerStep, RateStep
    <3>3. ClockInv'
      BY <2>3, <3>1, ClockRests DEF ClockInv, TokenInv, clockVars
    <3>4. \A q \in Request : RequestInv(q)'
      BY <2>3, <3>1, RequestStep
    <3> QED
      BY <3>2, <3>3, <3>4 DEF IInv
  <2>4. CASE UNCHANGED vars
    <3>1. UNCHANGED <<now, plan, wallet, heldUntil, hits, passed, opened, used, stage,
                      ask, booking, gatedAt, runs, faults, served, uncounted>>
      BY <2>4 DEF vars, clockVars, countVars, windowVars, requestVars, ledgerVars
    <3>2. TypeOK' /\ ClockInv' /\ LedgerInv' /\ RateInv'
      BY <1>2, <3>1 DEF IInv, TypeOK, ClockInv, LedgerInv, RateInv, TokenInv, Booked,
                        Charging, Hitting
    <3>3. ASSUME NEW r \in Request PROVE RequestInv(r)'
      <4>1. Refused(r)' = Refused(r)
        BY <3>1 DEF Refused, Accepted
      <4> QED
        BY <1>2, <3>1, <4>1 DEF IInv, RequestInv, TokenInv, Entitled, ReadAtGate, BookedIfLimited
    <3> QED
      BY <3>2, <3>3 DEF IInv
  <2> QED
    BY <1>2, <2>1, <2>2, <2>3, <2>4 DEF Next, ClockStep
<1> QED
  BY <1>1, <1>2, PTL DEF Spec

\* Every variable has its type; in particular no fault is counted beyond MaxFaults and
\* no hour held beyond the next.
THEOREM TypeCorrect == Spec => []TypeOK
  BY Invariance, PTL DEF IInv

\* A window of the rate limiter lets fewer calls through than its limit plus the
\* requests in progress at once plus the calls its except clause let through.
THEOREM RateBounded == Spec => []RateBound
<1>1. IInv => RateBound
  <2> SUFFICES ASSUME IInv PROVE RateBound
    OBVIOUS
  <2>1. Hitting \in SUBSET Request
    BY DEF Hitting
  <2>2. Cardinality(Hitting) \in Nat /\ Cardinality(Request) \in Nat
    BY <2>1, RequestsCounted
  <2> QED
    BY <2>2, LimitAssumption DEF IInv, TypeOK, RateInv, RateBound
<1> QED
  BY <1>1, Invariance, PTL

\* A day serves fewer calls than the quota plus the requests in progress at once plus
\* the increments that were lost.
THEOREM QuotaBounded == Spec => []QuotaBound
<1>1. IInv => QuotaBound
  <2> SUFFICES ASSUME IInv, NEW b \in Booking
               PROVE  served[b] < QuotaLimit[b.type] + Cardinality(Request) + uncounted[b]
    BY DEF QuotaBound
  <2>1. /\ Charging(b) \in SUBSET Request /\ Booked(b) \in SUBSET Request
        /\ Charging(b) \in SUBSET Booked(b)
    BY DEF Charging, Booked
  <2>2. Cardinality(Charging(b)) <= Cardinality(Booked(b))
    BY <2>1, RequestsCounted, FS_Subset
  <2>3. /\ Cardinality(Charging(b)) \in Nat /\ Cardinality(Booked(b)) \in Nat
        /\ Cardinality(Request) \in Nat
    BY <2>1, RequestsCounted
  <2>4. /\ QuotaLimit[b.type] \in Nat /\ used[b] \in Nat /\ served[b] \in Nat
        /\ uncounted[b] \in Nat
    BY LimitAssumption DEF IInv, TypeOK, Booking
  <2>5. /\ served[b] <= used[b] + Cardinality(Charging(b)) + uncounted[b]
        /\ used[b] + Cardinality(Booked(b)) < QuotaLimit[b.type] + Cardinality(Request)
    BY DEF IInv, LedgerInv
  <2> QED
    BY <2>2, <2>3, <2>4, <2>5
<1> QED
  BY <1>1, Invariance, PTL

\* No request is passed to its route twice.
THEOREM HandledAtMostOnce == Spec => []HandledOnce
<1>1. IInv => HandledOnce
  BY DEF IInv, RequestInv, HandledOnce
<1> QED
  BY <1>1, Invariance, PTL

\* A gated call passes the gate within a token's lifetime of an hour in which the user
\* had the plan.
THEOREM GateEntitled == Spec => []EntitledRecently
<1>1. IInv => EntitledRecently
  BY DEF IInv, RequestInv, EntitledRecently
<1> QED
  BY <1>1, Invariance, PTL

\* A call that a route with a login accepts was counted, where its plan has a limit,
\* if the middlewares could read its header or its path has a gate.
THEOREM LimitedCallsBooked == Spec => []LoggedInCallsAreBooked
<1>1. IInv => LoggedInCallsAreBooked
  BY DEF IInv, RequestInv, LoggedInCallsAreBooked
<1> QED
  BY <1>1, Invariance, PTL

=============================================================================
