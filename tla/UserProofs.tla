------------------------------ MODULE UserProofs ------------------------------
(***************************************************************************)
(* Proofs about Accounts, Subscription and UserItems, which share nothing, *)
(* for every set of users, addresses, secrets, plans, items and requests,  *)
(* every limit and number of rows: what a login rests on, the plan an      *)
(* expired subscription takes, who may reopen a subscription, how far      *)
(* parallel creates can pass a limit, and what an apply of behavior leaves *)
(* of the ratio a user put.                                                *)
(***************************************************************************)
EXTENDS Accounts, Subscription, UserItems, FiniteSetTheorems, TLAPS

(***************************************************************************)
(* Accounts: what is behind an enabled second factor, an account without a *)
(* login and a token pair, however the requests interleave.                *)
(***************************************************************************)

\* What a request holds until its next step.
RequestInv(a) ==
    /\ req[a].at \in {"create", "identity"} /\ req[a].uid = None => req[a].pw \in Password
    /\ req[a] # NoRequest => ActiveIn(user) \subseteq seen[a]
    /\ req[a].at \in {"identity", "password"} /\ req[a].active => req[a].user \in seen[a]
    /\ req[a].at = "code" => req[a].good
    /\ req[a].at = "activate" => req[a].secret \in proven

\* Challenges are given to users who were active.
TokensInv == (\A c \in challenge : c.good) /\ IssuedOnlyIfActive

AccountsInv ==
    /\ AccountsTypeOK /\ (\A a \in Actor : RequestInv(a)) /\ TokensInv
    /\ EnabledSecretProven /\ LoginlessOnlyHalfway

\* What a request has depends on where it is.
LEMMA RequestFields ==
    ASSUME NEW r \in Request
    PROVE  /\ r.at = "create" =>
                r.email \in Email /\ r.pw \in Password \cup {None} /\ r.uid \in Uid \cup {None}
           /\ r.at = "identity" =>
                /\ r.user \in UserId /\ r.new \in BOOLEAN /\ r.active \in BOOLEAN
                /\ r.pw \in Password \cup {None} /\ r.uid \in Uid \cup {None}
           /\ r.at \in {"byid", "secret", "save"} => r.user \in UserId
           /\ r.at = "byemail" => r.uid \in Uid
           /\ r.at = "password" => r.user \in UserId /\ r.active \in BOOLEAN /\ r.pw \in Password
           /\ r.at = "code" => r.user \in UserId /\ r.good \in BOOLEAN
           /\ r.at = "activate" => r.user \in UserId /\ r.secret \in Secret
           /\ r.at = "apply" => r.token \in AuthToken /\ r.pw \in Password
           /\ r.at \in {"verify", "drop"} => r.token \in AuthToken
           /\ r.at = "idle" => r = NoRequest
  BY DEF Request, NoRequest

\* A request that begins holds what it has just read.
LEMMA Beginning ==
    ASSUME AccountsInv, NEW a \in Actor, NEW r \in Request, Begin(a, r),
           r.at # "identity", r.at = "create" => r.pw \in Password,
           r.at = "password" /\ r.active => r.user \in ActiveIn(user),
           r.at = "code" => r.good,
           r.at = "activate" => r.secret \in proven',
           proven \subseteq proven', proven' \subseteq Secret,
           UNCHANGED <<rows, tokens, usedSecret, failures>>
    PROVE  AccountsInv'
<1> USE DEF AccountsInv, rows, tokens, failures
<1>1. req' = [req EXCEPT ![a] = r] /\ req[a] = NoRequest
  BY DEF Begin
<1>2. seen' = [seen EXCEPT ![a] = ActiveIn(user)] /\ ActiveIn(user) \in SUBSET UserId
  BY DEF Begin, ActiveIn
<1>3. AccountsTypeOK'
  BY <1>1, <1>2 DEF AccountsTypeOK
<1>4. RequestInv(a)'
  BY <1>1, <1>2 DEF RequestInv, AccountsTypeOK, ActiveIn
<1>5. ASSUME NEW b \in Actor \ {a} PROVE RequestInv(b)'
  <2>1. req'[b] = req[b] /\ seen'[b] = seen[b] /\ RequestInv(b)
    BY <1>1, <1>2 DEF AccountsTypeOK
  <2> QED
    BY <2>1 DEF RequestInv, ActiveIn
<1>6. EnabledSecretProven' /\ TokensInv'
  BY DEF EnabledSecretProven, TokensInv, IssuedOnlyIfActive
<1>7. LoginlessOnlyHalfway'
  <2>1. ASSUME NEW b \in Actor, req[b].at = "identity" PROVE req'[b] = req[b]
    BY <1>1, <2>1 DEF AccountsTypeOK, NoRequest
  <2> QED
    BY <2>1 DEF LoginlessOnlyHalfway, Exists
<1> QED
  BY <1>3, <1>4, <1>5, <1>6, <1>7

\* A request that ends leaves the users and, of the second factor, what is proven.
LEMMA Ending ==
    ASSUME AccountsInv, NEW a \in Actor, End(a),
           req[a].at = "identity" /\ req[a].new => req[a].user \in halfway',
           emailId' \in [UserId -> EmailIdentity \cup {None}],
           \A u \in UserId : emailId[u] = None <=> emailId'[u] = None,
           EnabledSecretProven',
           issued' \subseteq [user : UserId, good : BOOLEAN],
           challenge' \subseteq [user : UserId, good : BOOLEAN], TokensInv',
           otp' \subseteq AuthToken, made' \in 0 .. MaxTokens, usedSecret' \subseteq Secret,
           halfway \subseteq halfway', halfway' \subseteq UserId,
           authFaults' \in 0 .. MaxAuthFaults,
           UNCHANGED <<user, created, linked, proven>>
    PROVE  AccountsInv'
<1> USE DEF AccountsInv
<1>1. req' = [req EXCEPT ![a] = NoRequest] /\ seen' = [seen EXCEPT ![a] = {}]
      /\ NoRequest \in Request
  BY DEF End, Request
<1>2. AccountsTypeOK'
  BY <1>1 DEF AccountsTypeOK
<1>3. RequestInv(a)'
  BY <1>1 DEF RequestInv, AccountsTypeOK, NoRequest
<1>4. ASSUME NEW b \in Actor \ {a} PROVE RequestInv(b)'
  <2>1. req'[b] = req[b] /\ seen'[b] = seen[b] /\ RequestInv(b)
    BY <1>1 DEF AccountsTypeOK
  <2> QED
    BY <2>1 DEF RequestInv, ActiveIn
<1>5. LoginlessOnlyHalfway'
  <2>1. ASSUME NEW b \in Actor \ {a} PROVE req'[b] = req[b]
    BY <1>1 DEF AccountsTypeOK
  <2> QED
    BY <2>1 DEF LoginlessOnlyHalfway, Exists
<1> QED
  BY <1>2, <1>3, <1>4, <1>5

\* A request that goes on to a point where it holds nothing to be kept.
LEMMA Continuing ==
    ASSUME AccountsInv, NEW a \in Actor, NEW r \in Request, Continue(a, r),
           req[a].at \notin {"idle", "identity"}, r.at \in {"drop", "create", "identity"},
           r.at \in {"create", "identity"} => r.uid # None,
           r.at = "identity" /\ r.active => r.user \in ActiveIn(user),
           user' \in [UserId -> UserRow \cup {None}],
           \A u \in UserId : /\ user[u] = None <=> user'[u] = None
                             /\ user[u] # None => user'[u].active = user[u].active,
           emailId' \in [UserId -> EmailIdentity \cup {None}],
           \A u \in UserId : emailId[u] = None <=> emailId'[u] = None,
           EnabledSecretProven',
           UNCHANGED <<created, linked, tokens, twofa, failures>>
    PROVE  AccountsInv'
<1> USE DEF AccountsInv, tokens, twofa, failures
<1>1. req' = [req EXCEPT ![a] = r] /\ seen' = seen
  BY DEF Continue
<1>2. ActiveIn(user)' = ActiveIn(user)
  BY DEF ActiveIn
<1>3. AccountsTypeOK'
  BY <1>1 DEF AccountsTypeOK
<1>4. RequestInv(a)'
  BY <1>1, <1>2 DEF RequestInv, AccountsTypeOK, NoRequest
<1>5. ASSUME NEW b \in Actor \ {a} PROVE RequestInv(b)'
  <2>1. req'[b] = req[b] /\ seen'[b] = seen[b] /\ RequestInv(b)
    BY <1>1 DEF AccountsTypeOK
  <2> QED
    BY <1>2, <2>1 DEF RequestInv
<1>6. TokensInv'
  BY DEF TokensInv, IssuedOnlyIfActive
<1>7. LoginlessOnlyHalfway'
  <2>1. ASSUME NEW b \in Actor \ {a} PROVE req'[b] = req[b]
    BY <1>1 DEF AccountsTypeOK
  <2> QED
    BY <2>1 DEF LoginlessOnlyHalfway, Exists
<1> QED
  BY <1>3, <1>4, <1>5, <1>6, <1>7

\* OAuth: whose account it is decides what the request reads next.
LEMMA OAuthBegins ==
    ASSUME AccountsInv, NEW a \in Actor, NEW x \in Uid, OAuthLogin(a, x)
    PROVE  AccountsInv'
<1> USE DEF twofa
<1>1. CASE ByUid(x) # {}
  <2>1. PICK u \in ByUid(x) : Begin(a, [at |-> "byid", user |-> u])
    BY <1>1 DEF OAuthLogin
  <2>2. [at |-> "byid", user |-> u] \in Request
    BY DEF Request, ByUid
  <2> QED
    BY <2>1, <2>2, Beginning DEF OAuthLogin, AccountsInv, AccountsTypeOK
<1>2. CASE ByUid(x) = {}
  <2>1. [at |-> "byemail", uid |-> x] \in Request
    BY DEF Request
  <2> QED
    BY <1>2, <2>1, Beginning DEF OAuthLogin, AccountsInv, AccountsTypeOK
<1> QED
  BY <1>1, <1>2

\* The requests that begin.
LEMMA Begins ==
    ASSUME AccountsInv, NEW a \in Actor,
           \/ Register(a) \/ Login(a) \/ SecondFactor(a) \/ Enable2FA(a) \/ Verify2FA(a)
           \/ Forgot(a) \/ VerifyEmail(a) \/ ResetPassword(a)
    PROVE  AccountsInv'
<1> USE DEF twofa
<1>0. proven \subseteq Secret
  BY DEF AccountsInv, AccountsTypeOK
<1>1. CASE Register(a)
  <2>1. PICK e \in Email, p \in Password :
            /\ Begin(a, [at |-> "create", email |-> e, pw |-> p, uid |-> None])
            /\ UNCHANGED <<rows, tokens, twofa, failures>>
    BY <1>1 DEF Register
  <2>2. [at |-> "create", email |-> e, pw |-> p, uid |-> None] \in Request
    BY DEF Request
  <2> QED
    BY <1>0, <2>1, <2>2, Beginning
<1>2. CASE Login(a)
  <2>1. PICK e \in Email, p \in Password : \E u \in ByEmail(e) :
            /\ Begin(a, [at |-> "password", user |-> u, active |-> user[u].active, pw |-> p])
            /\ UNCHANGED <<rows, tokens, twofa, failures>>
    BY <1>2 DEF Login
  <2>2. PICK u \in ByEmail(e) :
            /\ Begin(a, [at |-> "password", user |-> u, active |-> user[u].active, pw |-> p])
            /\ UNCHANGED <<rows, tokens, twofa, failures>>
    BY <2>1
  <2>3. u \in UserId /\ user[u] # None /\ user[u].active \in BOOLEAN
    BY DEF ByEmail, Exists, AccountsInv, AccountsTypeOK, UserRow
  <2>4. [at |-> "password", user |-> u, active |-> user[u].active, pw |-> p] \in Request
    BY <2>3 DEF Request
  <2>5. user[u].active => u \in ActiveIn(user)
    BY <2>3 DEF ActiveIn
  <2> QED
    BY <1>0, <2>2, <2>4, <2>5, Beginning
<1>3. CASE SecondFactor(a)
  <2>1. PICK c \in challenge : /\ Begin(a, [at |-> "code", user |-> c.user, good |-> c.good])
                               /\ UNCHANGED <<rows, tokens, twofa, failures>>
    BY <1>3 DEF SecondFactor
  <2>2. c.user \in UserId /\ c.good \in BOOLEAN /\ c.good
    BY DEF AccountsInv, AccountsTypeOK, TokensInv
  <2>3. [at |-> "code", user |-> c.user, good |-> c.good] \in Request
    BY <2>2 DEF Request
  <2> QED
    BY <1>0, <2>1, <2>2, <2>3, Beginning
<1>4. CASE Enable2FA(a)
  <2>1. PICK u \in Holder : /\ Begin(a, [at |-> "secret", user |-> u])
                            /\ UNCHANGED <<rows, tokens, twofa, failures>>
    BY <1>4 DEF Enable2FA
  <2>2. [at |-> "secret", user |-> u] \in Request
    BY DEF Holder, AccountsInv, AccountsTypeOK, Request
  <2> QED
    BY <1>0, <2>1, <2>2, Beginning
<1>5. CASE Verify2FA(a)
  <2>1. PICK u \in Holder :
            /\ emailId[u] # None /\ emailId[u].secret # None
            /\ Begin(a, [at |-> "activate", user |-> u, secret |-> emailId[u].secret])
            /\ proven' = proven \cup {emailId[u].secret}
            /\ UNCHANGED <<rows, tokens, usedSecret, failures>>
    BY <1>5 DEF Verify2FA
  <2>2. u \in UserId /\ emailId[u].secret \in Secret
    BY <2>1 DEF Holder, AccountsInv, AccountsTypeOK, EmailIdentity
  <2>3. [at |-> "activate", user |-> u, secret |-> emailId[u].secret] \in Request
    BY <2>2 DEF Request
  <2> QED
    BY <1>0, <2>1, <2>2, <2>3, Beginning
<1>6. CASE Forgot(a)
  <2>1. PICK e \in Email : \E u \in ByEmail(e) :
            /\ Begin(a, [at |-> "save", user |-> u])
            /\ UNCHANGED <<rows, tokens, twofa, failures>>
    BY <1>6 DEF Forgot
  <2>2. PICK u \in ByEmail(e) : /\ Begin(a, [at |-> "save", user |-> u])
                                /\ UNCHANGED <<rows, tokens, twofa, failures>>
    BY <2>1
  <2>3. [at |-> "save", user |-> u] \in Request
    BY DEF ByEmail, Request
  <2> QED
    BY <1>0, <2>2, <2>3, Beginning
<1>7. CASE VerifyEmail(a)
  <2>1. PICK t \in GetToken("email_verify") : /\ Begin(a, [at |-> "verify", token |-> t])
                                              /\ UNCHANGED <<rows, tokens, twofa, failures>>
    BY <1>7 DEF VerifyEmail
  <2>2. [at |-> "verify", token |-> t] \in Request
    BY DEF GetToken, AccountsInv, AccountsTypeOK, Request
  <2> QED
    BY <1>0, <2>1, <2>2, Beginning
<1>8. CASE ResetPassword(a)
  <2>1. PICK t \in GetToken("password_reset"), p \in Password :
            /\ Begin(a, [at |-> "apply", token |-> t, pw |-> p])
            /\ UNCHANGED <<rows, tokens, twofa, failures>>
    BY <1>8 DEF ResetPassword
  <2>2. [at |-> "apply", token |-> t, pw |-> p] \in Request
    BY DEF GetToken, AccountsInv, AccountsTypeOK, Request
  <2> QED
    BY <1>0, <2>1, <2>2, Beginning
<1> QED
  BY <1>1, <1>2, <1>3, <1>4, <1>5, <1>6, <1>7, <1>8

\* A token pair given to a user who was active keeps what is known of the tokens.
LEMMA IssuedGood ==
    ASSUME AccountsInv, NEW u \in UserId, NEW good, good = TRUE, Issue(u, good)
    PROVE  issued' \subseteq [user : UserId, good : BOOLEAN] /\ IssuedOnlyIfActive'
<1> DEFINE pair == [user |-> u, good |-> TRUE]
<1>1. pair \in [user : UserId, good : BOOLEAN] /\ pair.good
  OBVIOUS
<1>2. issued' = issued \cup {pair}
  BY DEF Issue
<1> HIDE DEF pair
<1> QED
  BY <1>1, <1>2 DEF AccountsInv, AccountsTypeOK, TokensInv, IssuedOnlyIfActive

\* What update_2fa writes has the type of a row, and enables a proven secret only.
LEMMA SecretWritten ==
    ASSUME AccountsInv, NEW u \in UserId, NEW s \in Secret \cup {None}, NEW on \in BOOLEAN,
           Update2FA(u, s, on), on => s \in proven, UNCHANGED proven
    PROVE  /\ emailId' \in [UserId -> EmailIdentity \cup {None}] /\ EnabledSecretProven'
           /\ \A v \in UserId : emailId[v] = None <=> emailId'[v] = None
<1>1. emailId \in [UserId -> EmailIdentity \cup {None}] /\ EnabledSecretProven
  BY DEF AccountsInv, AccountsTypeOK
<1>2. CASE emailId[u] = None
  BY <1>1, <1>2 DEF Update2FA, EnabledSecretProven
<1>3. CASE emailId[u] # None
  <2> DEFINE row == [emailId[u] EXCEPT !.secret = s, !.on = on]
  <2>1. emailId' = [emailId EXCEPT ![u] = row]
    BY <1>3 DEF Update2FA
  <2>2. row \in EmailIdentity /\ row # None /\ row.secret = s /\ row.on = on
    BY <1>1, <1>3, NoneAssumption DEF EmailIdentity
  <2> HIDE DEF row
  <2> QED
    BY <1>1, <1>3, <2>1, <2>2 DEF EnabledSecretProven
<1> QED
  BY <1>2, <1>3

\* The requests that end, all but the one that stores an identity.
LEMMA Ends ==
    ASSUME AccountsInv, NEW a \in Actor,
           \/ OAuthById(a) \/ CheckPassword(a) \/ CheckCode(a) \/ SaveSecret(a) \/ Activate2FA(a)
           \/ SaveResetToken(a) \/ DropToken(a) \/ Fail(a)
    PROVE  AccountsInv'
<1> USE DEF rows, tokens, twofa, failures
<1>1. RequestInv(a) /\ req[a] \in Request /\ AccountsTypeOK /\ TokensInv /\ EnabledSecretProven
  BY DEF AccountsInv, AccountsTypeOK
<1>2. CASE OAuthById(a)
  <2> DEFINE u == req[a].user
  <2>1. u \in UserId /\ req[a] # NoRequest
    BY <1>1, <1>2, RequestFields DEF OAuthById, NoRequest
  <2>2. Exists(u) /\ user[u].active => u \in seen[a]
    BY <1>1, <2>1 DEF RequestInv, ActiveIn, Exists
  <2>3. issued' \subseteq [user : UserId, good : BOOLEAN] /\ IssuedOnlyIfActive'
    <3>1. CASE Exists(u) /\ user[u].active
      <4>1. Issue(u, u \in seen[a]) /\ (u \in seen[a]) = TRUE
        BY <1>2, <2>2, <3>1 DEF OAuthById
      <4> QED
        BY <2>1, <4>1, IssuedGood
    <3>2. CASE ~(Exists(u) /\ user[u].active)
      BY <1>1, <1>2, <3>2 DEF OAuthById, AccountsTypeOK, TokensInv, IssuedOnlyIfActive
    <3> QED
      BY <3>1, <3>2
  <2> QED
    BY <1>1, <1>2, <2>3, Ending
       DEF OAuthById, AccountsTypeOK, TokensInv, EnabledSecretProven
<1>3. CASE CheckPassword(a)
  <2> DEFINE u == req[a].user
  <2>1. u \in UserId
    BY <1>1, <1>3, RequestFields DEF CheckPassword
  <2>2. req[a].active => u \in seen[a]
    BY <1>1, <1>3 DEF RequestInv, CheckPassword
  <2>3. /\ issued' \subseteq [user : UserId, good : BOOLEAN] /\ IssuedOnlyIfActive'
        /\ challenge' \subseteq [user : UserId, good : BOOLEAN]
        /\ \A c \in challenge' : c.good
    <3>1. CASE UNCHANGED issued /\ challenge' = challenge
      BY <1>1, <3>1 DEF AccountsTypeOK, TokensInv, IssuedOnlyIfActive
    <3>2. CASE /\ UNCHANGED issued /\ u \in seen[a]
               /\ challenge' = challenge \cup {[user |-> u, good |-> u \in seen[a]]}
      <4> DEFINE pair == [user |-> u, good |-> TRUE]
      <4>1. pair \in [user : UserId, good : BOOLEAN] /\ pair.good
        BY <2>1
      <4>2. challenge' = challenge \cup {pair}
        BY <3>2
      <4> HIDE DEF pair
      <4> QED
        BY <1>1, <3>2, <4>1, <4>2 DEF AccountsTypeOK, TokensInv, IssuedOnlyIfActive
    <3>3. CASE Issue(u, u \in seen[a]) /\ u \in seen[a] /\ UNCHANGED challenge
      <4>1. (u \in seen[a]) = TRUE
        BY <3>3
      <4> QED
        BY <1>1, <2>1, <3>3, <4>1, IssuedGood DEF AccountsTypeOK, TokensInv
    <3> QED
      BY <1>3, <2>2, <3>1, <3>2, <3>3 DEF CheckPassword
  <2> QED
    BY <1>1, <1>3, <2>3, Ending
       DEF CheckPassword, AccountsTypeOK, TokensInv, EnabledSecretProven
<1>4. CASE CheckCode(a)
  <2> DEFINE u == req[a].user
  <2>1. u \in UserId /\ req[a].good
    BY <1>1, <1>4, RequestFields DEF CheckCode, RequestInv
  <2>2. issued' \subseteq [user : UserId, good : BOOLEAN] /\ IssuedOnlyIfActive'
    <3>1. CASE Issue(u, req[a].good)
      <4>1. req[a].good = TRUE
        BY <1>1, <1>4, <2>1, RequestFields DEF CheckCode
      <4> QED
        BY <2>1, <3>1, <4>1, IssuedGood
    <3>2. CASE UNCHANGED issued
      BY <1>1, <3>2 DEF AccountsTypeOK, TokensInv, IssuedOnlyIfActive
    <3> QED
      BY <1>4, <3>1, <3>2 DEF CheckCode
  <2> QED
    BY <1>1, <1>4, <2>2, Ending
       DEF CheckCode, AccountsTypeOK, TokensInv, EnabledSecretProven
<1>5. CASE SaveSecret(a)
  <2>1. req[a].user \in UserId /\ req[a].at # "identity"
    BY <1>1, <1>5, RequestFields DEF SaveSecret
  <2>2. PICK s \in Secret \ usedSecret :
            Update2FA(req[a].user, s, FALSE) /\ usedSecret' = usedSecret \cup {s}
    BY <1>5 DEF SaveSecret
  <2>3. /\ emailId' \in [UserId -> EmailIdentity \cup {None}] /\ EnabledSecretProven'
        /\ \A v \in UserId : emailId[v] = None <=> emailId'[v] = None
    BY <1>5, <2>1, <2>2, SecretWritten DEF SaveSecret
  <2> QED
    BY <1>1, <1>5, <2>1, <2>2, <2>3, Ending
       DEF SaveSecret, AccountsTypeOK, TokensInv, IssuedOnlyIfActive
<1>6. CASE Activate2FA(a)
  <2>1. /\ req[a].user \in UserId /\ req[a].secret \in Secret /\ req[a].secret \in proven
        /\ req[a].at # "identity"
    BY <1>1, <1>6, RequestFields DEF Activate2FA, RequestInv
  <2>2. /\ emailId' \in [UserId -> EmailIdentity \cup {None}] /\ EnabledSecretProven'
        /\ \A v \in UserId : emailId[v] = None <=> emailId'[v] = None
    BY <1>6, <2>1, SecretWritten DEF Activate2FA
  <2> QED
    BY <1>1, <1>6, <2>1, <2>2, Ending
       DEF Activate2FA, AccountsTypeOK, TokensInv, IssuedOnlyIfActive
<1>7. CASE SaveResetToken(a)
  <2>1. req[a].user \in UserId /\ req[a].at # "identity"
    BY <1>1, <1>7, RequestFields DEF SaveResetToken
  <2>2. made' \in 0 .. MaxTokens /\ otp' \subseteq AuthToken
    BY <1>1, <1>7, <2>1, AccountBoundsAssumption
       DEF SaveResetToken, SaveToken, AccountsTypeOK, AuthToken
  <2> QED
    BY <1>1, <1>7, <2>1, <2>2, Ending
       DEF SaveResetToken, AccountsTypeOK, TokensInv, IssuedOnlyIfActive, EnabledSecretProven
<1>8. CASE DropToken(a)
  BY <1>1, <1>8, Ending
     DEF DropToken, AccountsTypeOK, TokensInv, IssuedOnlyIfActive, EnabledSecretProven
<1>9. CASE Fail(a)
  <2>1. authFaults' \in 0 .. MaxAuthFaults
    BY <1>1, <1>9, AccountBoundsAssumption DEF Fail, AccountsTypeOK
  <2>2. /\ halfway \subseteq halfway' /\ halfway' \subseteq UserId
        /\ req[a].at = "identity" /\ req[a].new => req[a].user \in halfway'
    BY <1>1, <1>9, RequestFields DEF Fail, AccountsTypeOK
  <2> QED
    BY <1>1, <1>9, <2>1, <2>2, Ending
       DEF Fail, AccountsTypeOK, TokensInv, IssuedOnlyIfActive, EnabledSecretProven
<1> QED
  BY <1>2, <1>3, <1>4, <1>5, <1>6, <1>7, <1>8, <1>9

\* The requests that go on.
LEMMA Continues ==
    ASSUME AccountsInv, NEW a \in Actor, OAuthByEmail(a) \/ SetVerified(a) \/ UpdatePassword(a)
    PROVE  AccountsInv'
<1> USE DEF rows, tokens
<1>1. /\ RequestInv(a) /\ req[a] \in Request /\ AccountsTypeOK /\ EnabledSecretProven
      /\ emailId \in [UserId -> EmailIdentity \cup {None}]
      /\ user \in [UserId -> UserRow \cup {None}]
  BY DEF AccountsInv, AccountsTypeOK
<1>2. CASE OAuthByEmail(a)
  <2> DEFINE x == req[a].uid
  <2>1. x \in Uid /\ x # None /\ EmailOf[x] \in Email
    BY <1>1, <1>2, RequestFields, NoneAssumption, OAuthAssumption DEF OAuthByEmail
  <2>2. PICK r :
          /\ Continue(a, r)
          /\ \/ r = [at |-> "create", email |-> EmailOf[x], pw |-> None, uid |-> x]
             \/ \E u \in ByEmail(EmailOf[x]) :
                  r = [at |-> "identity", user |-> u, new |-> FALSE,
                       active |-> user[u].active, pw |-> None, uid |-> x]
    BY <1>2 DEF OAuthByEmail
  <2>3. /\ r \in Request /\ r.at \in {"create", "identity"} /\ r.uid # None
        /\ r.at = "identity" /\ r.active => r.user \in ActiveIn(user)
    <3>1. CASE r = [at |-> "create", email |-> EmailOf[x], pw |-> None, uid |-> x]
      BY <2>1, <3>1 DEF Request
    <3>2. CASE \E u \in ByEmail(EmailOf[x]) :
                  r = [at |-> "identity", user |-> u, new |-> FALSE,
                       active |-> user[u].active, pw |-> None, uid |-> x]
      <4>1. PICK u \in ByEmail(EmailOf[x]) :
                  r = [at |-> "identity", user |-> u, new |-> FALSE,
                       active |-> user[u].active, pw |-> None, uid |-> x]
        BY <3>2
      <4>2. u \in UserId /\ user[u] # None /\ user[u].active \in BOOLEAN
        BY <1>1 DEF ByEmail, Exists, UserRow
      <4>3. r \in [at : {"identity"}, user : UserId, new : BOOLEAN, active : BOOLEAN,
                   pw : Password \cup {None}, uid : Uid \cup {None}]
        BY <2>1, <4>1, <4>2
      <4> QED
        BY <2>1, <4>1, <4>2, <4>3 DEF Request, ActiveIn
    <3> QED
      BY <2>2, <3>1, <3>2
  <2> QED
    BY <1>1, <1>2, <2>2, <2>3, Continuing DEF OAuthByEmail, EnabledSecretProven, twofa
<1>3. CASE SetVerified(a)
  <2> DEFINE t == req[a].token
             row == [user[t.user] EXCEPT !.verified = TRUE]
  <2>1. t \in AuthToken /\ t.user \in UserId
    BY <1>1, <1>3, RequestFields DEF SetVerified, AuthToken
  <2>2. [at |-> "drop", token |-> t] \in Request
    BY <2>1 DEF Request
  <2>3. /\ user' \in [UserId -> UserRow \cup {None}]
        /\ \A u \in UserId : /\ user[u] = None <=> user'[u] = None
                             /\ user[u] # None => user'[u].active = user[u].active
    <3>1. CASE user[t.user] = None
      BY <1>1, <1>3, <2>1, <3>1 DEF SetVerified
    <3>2. CASE user[t.user] # None
      <4>1. row \in UserRow /\ row # None /\ row.active = user[t.user].active
        BY <1>1, <2>1, <3>2, NoneAssumption DEF UserRow
      <4>2. user' = [user EXCEPT ![t.user] = row]
        BY <1>3, <3>2 DEF SetVerified
      <4> HIDE DEF row
      <4> QED
        BY <1>1, <2>1, <3>2, <4>1, <4>2
    <3> QED
      BY <3>1, <3>2
  <2> QED
    BY <1>1, <1>3, <2>2, <2>3, Continuing DEF SetVerified, EnabledSecretProven, twofa
<1>4. CASE UpdatePassword(a)
  <2> DEFINE t == req[a].token
             row == [emailId[t.user] EXCEPT !.pw = req[a].pw]
  <2>1. t \in AuthToken /\ t.user \in UserId /\ req[a].pw \in Password
    BY <1>1, <1>4, RequestFields DEF UpdatePassword, AuthToken
  <2>2. [at |-> "drop", token |-> t] \in Request
    BY <2>1 DEF Request
  <2>3. /\ emailId' \in [UserId -> EmailIdentity \cup {None}]
        /\ \A u \in UserId : emailId[u] = None <=> emailId'[u] = None
        /\ EnabledSecretProven'
    <3>1. CASE emailId[t.user] = None
      BY <1>1, <1>4, <2>1, <3>1 DEF UpdatePassword, EnabledSecretProven, twofa
    <3>2. CASE emailId[t.user] # None
      <4>1. /\ row \in EmailIdentity /\ row # None
            /\ row.secret = emailId[t.user].secret /\ row.on = emailId[t.user].on
        BY <1>1, <2>1, <3>2, NoneAssumption DEF EmailIdentity
      <4>2. emailId' = [emailId EXCEPT ![t.user] = row]
        BY <1>4, <3>2 DEF UpdatePassword
      <4> HIDE DEF row
      <4> QED
        BY <1>1, <1>4, <2>1, <3>2, <4>1, <4>2 DEF UpdatePassword, EnabledSecretProven, twofa
    <3> QED
      BY <3>1, <3>2
  <2> QED
    BY <1>1, <1>4, <2>2, <2>3, Continuing DEF UpdatePassword
<1> QED
  BY <1>2, <1>3, <1>4

\* create_user, and the two ways out of the insert of the identity.
LEMMA UserCreated == ASSUME AccountsInv, NEW a \in Actor, CreateUser(a) PROVE AccountsInv'
<1> DEFINE r == req[a]
           u == created + 1
<1> USE DEF tokens, twofa, failures
<1>1. /\ RequestInv(a) /\ r \in Request /\ AccountsTypeOK /\ EnabledSecretProven /\ TokensInv
      /\ LoginlessOnlyHalfway /\ r.at = "create"
  BY DEF AccountsInv, AccountsTypeOK, CreateUser
<1>2. /\ r.email \in Email /\ r.pw \in Password \cup {None} /\ r.uid \in Uid \cup {None}
      /\ r.uid = None => r.pw \in Password
  BY <1>1, RequestFields DEF RequestInv
<1>3. CASE ByEmail(r.email) = {}
  <2> DEFINE row == [email |-> r.email, active |-> TRUE, verified |-> FALSE]
             next == [at |-> "identity", user |-> u, new |-> TRUE,
                      active |-> TRUE, pw |-> r.pw, uid |-> r.uid]
  <2>1. u \in UserId /\ u \in 0 .. MaxUsers
    BY <1>1, <1>3, AccountBoundsAssumption DEF CreateUser, AccountsTypeOK, UserId
  <2>2. row \in UserRow /\ row # None /\ row.active
    <3>1. row \in UserRow
      BY <1>2 DEF UserRow
    <3>2. row.active
      OBVIOUS
    <3> QED
      BY <3>1, <3>2, NoneAssumption
  <2>3. /\ next \in Request /\ next.at = "identity" /\ next.user = u /\ next.new
        /\ next.uid = r.uid /\ next.pw = r.pw /\ next # NoRequest
    <3>1. next \in [at : {"identity"}, user : UserId, new : BOOLEAN, active : BOOLEAN,
                    pw : Password \cup {None}, uid : Uid \cup {None}]
      BY <1>2, <2>1
    <3> QED
      BY <3>1 DEF Request, NoRequest
  <2>4. /\ user' = [user EXCEPT ![u] = row] /\ created' = u /\ req' = [req EXCEPT ![a] = next]
        /\ seen' = [b \in Actor |-> IF req[b] = NoRequest THEN {}
                                    ELSE seen[b] \cup ActiveIn(user')]
        /\ UNCHANGED <<emailId, linked, tokens, twofa, failures>>
    BY <1>3 DEF CreateUser, Observe
  <2> HIDE DEF row, next
  <2>5. ActiveIn(user') \in SUBSET UserId /\ u \in ActiveIn(user')
    BY <1>1, <2>1, <2>2, <2>4 DEF ActiveIn, AccountsTypeOK
  <2>6. AccountsTypeOK'
    <3>1. seen' \in [Actor -> SUBSET UserId]
      BY <1>1, <2>4, <2>5 DEF AccountsTypeOK
    <3> QED
      BY <1>1, <2>1, <2>2, <2>3, <2>4, <3>1 DEF AccountsTypeOK
  <2>7. RequestInv(a)'
    <3>1. req'[a] = next /\ seen'[a] = seen[a] \cup ActiveIn(user')
      BY <1>1, <2>4 DEF AccountsTypeOK, NoRequest
    <3> QED
      BY <1>2, <2>3, <2>4, <2>5, <3>1 DEF RequestInv, ActiveIn
  <2>8. ASSUME NEW b \in Actor \ {a} PROVE RequestInv(b)'
    <3>1. /\ req'[b] = req[b] /\ RequestInv(b)
          /\ seen'[b] = IF req[b] = NoRequest THEN {} ELSE seen[b] \cup ActiveIn(user')
      BY <1>1, <2>4 DEF AccountsTypeOK, AccountsInv
    <3> QED
      BY <2>4, <3>1 DEF RequestInv, ActiveIn, NoRequest
  <2>9. EnabledSecretProven' /\ TokensInv'
    BY <1>1, <2>4 DEF EnabledSecretProven, TokensInv, IssuedOnlyIfActive
  <2>10. LoginlessOnlyHalfway'
    <3>1. req'[a] = next /\ \A b \in Actor \ {a} : req'[b] = req[b]
      BY <1>1, <2>4 DEF AccountsTypeOK
    <3>2. \A v \in UserId \ {u} : user'[v] = user[v]
      BY <1>1, <2>4 DEF AccountsTypeOK
    <3> QED
      BY <1>1, <2>3, <2>4, <3>1, <3>2 DEF LoginlessOnlyHalfway, Exists
  <2> QED
    BY <2>6, <2>7, <2>8, <2>9, <2>10 DEF AccountsInv
<1>4. CASE ByEmail(r.email) # {}
  <2>1. End(a) /\ UNCHANGED <<user, created, emailId, linked, tokens, twofa, failures>>
    BY <1>4 DEF CreateUser
  <2> QED
    BY <1>1, <2>1, Ending
       DEF AccountsTypeOK, TokensInv, IssuedOnlyIfActive, EnabledSecretProven
<1> QED
  BY <1>3, <1>4

\* create_identity leaves its user with a login.
LEMMA IdentityCreated == ASSUME AccountsInv, NEW a \in Actor, CreateIdentity(a) PROVE AccountsInv'
<1> DEFINE r == req[a]
           u == r.user
<1> USE DEF twofa, failures
<1>1. /\ RequestInv(a) /\ r \in Request /\ AccountsTypeOK /\ EnabledSecretProven /\ TokensInv
      /\ LoginlessOnlyHalfway /\ r.at = "identity"
  BY DEF AccountsInv, AccountsTypeOK, CreateIdentity
<1>2. /\ u \in UserId /\ r.active \in BOOLEAN /\ r.pw \in Password \cup {None}
      /\ r.uid \in Uid \cup {None}
      /\ r.uid = None => r.pw \in Password
      /\ r.active => u \in seen[a]
  BY <1>1, RequestFields DEF RequestInv
<1>3. /\ req' = [req EXCEPT ![a] = NoRequest] /\ seen' = [seen EXCEPT ![a] = {}]
      /\ NoRequest \in Request /\ UNCHANGED <<user, created, otp, made, challenge, twofa, failures>>
  BY DEF CreateIdentity, End, Request
<1>4. issued' \subseteq [user : UserId, good : BOOLEAN] /\ IssuedOnlyIfActive'
  <2>1. CASE Exists(u) /\ r.active
    <3>1. Issue(u, u \in seen[a]) /\ (u \in seen[a]) = TRUE
      BY <1>2, <2>1 DEF CreateIdentity
    <3> QED
      BY <1>2, <3>1, IssuedGood
  <2>2. CASE ~(Exists(u) /\ r.active)
    BY <1>1, <2>2 DEF CreateIdentity, AccountsTypeOK, TokensInv, IssuedOnlyIfActive
  <2> QED
    BY <2>1, <2>2
<1>5. /\ emailId' \in [UserId -> EmailIdentity \cup {None}] /\ linked' \in [UserId -> SUBSET Uid]
      /\ EnabledSecretProven'
      /\ Exists(u) => emailId'[u] # None \/ linked'[u] # {}
      /\ \A v \in UserId \ {u} : emailId'[v] = emailId[v] /\ linked'[v] = linked[v]
  <2>1. CASE Exists(u) /\ r.uid = None
    <3> DEFINE row == [pw |-> r.pw, secret |-> None, on |-> FALSE]
    <3>1. row \in EmailIdentity /\ row # None /\ ~row.on
      <4>1. row \in EmailIdentity
        BY <1>2, <2>1 DEF EmailIdentity
      <4>2. ~row.on
        OBVIOUS
      <4> QED
        BY <4>1, <4>2, NoneAssumption
    <3>2. /\ emailId' = [emailId EXCEPT ![u] = IF @ = None THEN row ELSE @]
          /\ linked' = linked
      BY <2>1 DEF CreateIdentity
    <3> HIDE DEF row
    <3>3. CASE emailId[u] = None
      <4>1. emailId' = [emailId EXCEPT ![u] = row]
        BY <3>2, <3>3
      <4> QED
        BY <1>1, <1>2, <1>3, <2>1, <3>1, <3>2, <4>1 DEF AccountsTypeOK, EnabledSecretProven
    <3>4. CASE emailId[u] # None
      <4>1. emailId' = emailId
        BY <1>1, <1>2, <3>2, <3>4 DEF AccountsTypeOK
      <4> QED
        BY <1>1, <1>2, <1>3, <2>1, <3>2, <3>4, <4>1 DEF AccountsTypeOK, EnabledSecretProven
    <3> QED
      BY <3>3, <3>4
  <2>2. CASE Exists(u) /\ r.uid # None
    <3>1. /\ linked' = [linked EXCEPT ![u] =
                          IF \E x \in @ : ProviderOf[x] = ProviderOf[r.uid]
                          THEN @ ELSE @ \cup {r.uid}]
          /\ emailId' = emailId
      BY <2>2 DEF CreateIdentity
    <3>2. linked \in [UserId -> SUBSET Uid] /\ r.uid \in Uid
      <4>1. linked \in [UserId -> SUBSET Uid]
        BY <1>1 DEF AccountsTypeOK
      <4>2. r.uid \in Uid
        BY <1>2, <2>2
      <4> QED
        BY <4>1, <4>2
    <3>3. CASE \E x \in linked[u] : ProviderOf[x] = ProviderOf[r.uid]
      <4>1. linked' = linked
        BY <1>2, <3>1, <3>2, <3>3
      <4> QED
        BY <1>1, <1>3, <3>1, <3>3, <4>1 DEF AccountsTypeOK, EnabledSecretProven
    <3>4. CASE ~\E x \in linked[u] : ProviderOf[x] = ProviderOf[r.uid]
      <4>1. linked' = [linked EXCEPT ![u] = @ \cup {r.uid}]
        BY <3>1, <3>4
      <4> QED
        BY <1>1, <1>2, <1>3, <3>1, <3>2, <4>1 DEF AccountsTypeOK, EnabledSecretProven
    <3> QED
      BY <3>3, <3>4
  <2>3. CASE ~Exists(u)
    BY <1>1, <1>3, <2>3 DEF CreateIdentity, AccountsTypeOK, EnabledSecretProven
  <2> QED
    BY <2>1, <2>2, <2>3
<1>6. AccountsTypeOK'
  BY <1>1, <1>3, <1>4, <1>5 DEF AccountsTypeOK
<1>7. TokensInv'
  BY <1>1, <1>3, <1>4 DEF TokensInv
<1>8. ASSUME NEW b \in Actor PROVE RequestInv(b)'
  <2>1. CASE b = a
    BY <1>1, <1>3, <2>1 DEF RequestInv, AccountsTypeOK, NoRequest
  <2>2. CASE b # a
    <3>1. req'[b] = req[b] /\ seen'[b] = seen[b] /\ RequestInv(b)
      BY <1>1, <1>3, <2>2 DEF AccountsTypeOK, AccountsInv
    <3> QED
      BY <1>3, <3>1 DEF RequestInv, ActiveIn
  <2> QED
    BY <2>1, <2>2
<1>9. LoginlessOnlyHalfway'
  <2>1. \A b \in Actor \ {a} : req'[b] = req[b]
    BY <1>1, <1>3 DEF AccountsTypeOK
  <2>2. \A v \in UserId \ {u} : (emailId[v] = None <=> emailId'[v] = None) /\ linked'[v] = linked[v]
    BY <1>5
  <2> QED
    BY <1>1, <1>3, <1>5, <2>1, <2>2 DEF LoginlessOnlyHalfway, Exists
<1> QED
  BY <1>5, <1>6, <1>7, <1>8, <1>9 DEF AccountsInv

\* The steps that belong to no request in progress.
LEMMA Outside ==
    ASSUME AccountsInv, NEW u \in UserId,
           \/ Refresh(u) \/ VerifySend(u) \/ Disable2FA(u) \/ ExpireChallenge \/ ExpireToken
    PROVE  AccountsInv'
<1> USE DEF rows, twofa, failures
<1>1. /\ AccountsTypeOK /\ EnabledSecretProven /\ TokensInv /\ LoginlessOnlyHalfway
      /\ \A a \in Actor : RequestInv(a)
  BY DEF AccountsInv
<1>2. /\ UNCHANGED <<user, created, linked, req, seen, twofa, failures>>
      /\ emailId' \in [UserId -> EmailIdentity \cup {None}] /\ EnabledSecretProven'
      /\ \A v \in UserId : emailId[v] = None <=> emailId'[v] = None
  <2>1. CASE Disable2FA(u)
    BY <2>1, SecretWritten DEF Disable2FA
  <2>2. CASE Refresh(u) \/ VerifySend(u) \/ ExpireChallenge \/ ExpireToken
    BY <1>1, <2>2 DEF Refresh, VerifySend, ExpireChallenge, ExpireToken, AccountsTypeOK,
                      EnabledSecretProven
  <2> QED
    BY <2>1, <2>2
<1>3. /\ issued' \subseteq [user : UserId, good : BOOLEAN] /\ TokensInv'
      /\ challenge' \subseteq [user : UserId, good : BOOLEAN]
  <2>1. CASE Refresh(u)
    BY <1>1, <2>1, IssuedGood DEF Refresh, AccountsTypeOK, TokensInv
  <2>2. CASE VerifySend(u) \/ Disable2FA(u) \/ ExpireChallenge \/ ExpireToken
    BY <1>1, <2>2 DEF VerifySend, Disable2FA, ExpireChallenge, ExpireToken, AccountsTypeOK,
                      TokensInv, IssuedOnlyIfActive, tokens
  <2> QED
    BY <2>1, <2>2
<1>4. otp' \subseteq AuthToken /\ made' \in 0 .. MaxTokens
  <2>1. otp \subseteq AuthToken /\ made \in 0 .. MaxTokens
    BY <1>1 DEF AccountsTypeOK
  <2>2. CASE VerifySend(u)
    <3>1. SaveToken("email_verify", u)
      BY <2>2 DEF VerifySend
    <3> QED
      BY <2>1, <3>1, AccountBoundsAssumption DEF SaveToken, AuthToken
  <2>3. CASE Refresh(u) \/ Disable2FA(u) \/ ExpireChallenge \/ ExpireToken
    BY <2>1, <2>3 DEF Refresh, Disable2FA, ExpireChallenge, ExpireToken, tokens
  <2> QED
    BY <2>2, <2>3
<1>5. AccountsTypeOK'
  BY <1>1, <1>2, <1>3, <1>4 DEF AccountsTypeOK
<1>6. \A a \in Actor : RequestInv(a)'
  BY <1>1, <1>2 DEF RequestInv, ActiveIn
<1>7. LoginlessOnlyHalfway'
  BY <1>1, <1>2 DEF LoginlessOnlyHalfway, Exists
<1> QED
  BY <1>2, <1>3, <1>5, <1>6, <1>7 DEF AccountsInv

\* The administrator's: every request in progress sees who is active now.
LEMMA Administrator ==
    ASSUME AccountsInv, NEW u \in UserId, SetActive(u, TRUE) \/ SetActive(u, FALSE) \/ DeleteUser(u)
    PROVE  AccountsInv'
<1> USE DEF tokens, twofa, failures
<1>1. /\ AccountsTypeOK /\ EnabledSecretProven /\ TokensInv /\ LoginlessOnlyHalfway
      /\ \A a \in Actor : RequestInv(a)
  BY DEF AccountsInv
<1>2. CASE SetActive(u, TRUE) \/ SetActive(u, FALSE)
  <2>1. PICK on \in BOOLEAN : SetActive(u, on)
    BY <1>2
  <2> DEFINE row == [user[u] EXCEPT !.active = on]
  <2>2. row \in UserRow /\ row # None /\ user[u] # None
    BY <1>1, <2>1, NoneAssumption DEF SetActive, Exists, AccountsTypeOK, UserRow
  <2>3. /\ user' = [user EXCEPT ![u] = row]
        /\ seen' = [b \in Actor |-> IF req[b] = NoRequest THEN {}
                                    ELSE seen[b] \cup ActiveIn(user')]
        /\ UNCHANGED <<created, emailId, linked, tokens, req, twofa, failures>>
    BY <2>1 DEF SetActive, Observe
  <2> HIDE DEF row
  <2>4. ActiveIn(user') \in SUBSET UserId
    BY DEF ActiveIn
  <2>5. AccountsTypeOK'
    <3>1. seen' \in [Actor -> SUBSET UserId]
      BY <1>1, <2>3, <2>4 DEF AccountsTypeOK
    <3> QED
      BY <1>1, <2>2, <2>3, <3>1 DEF AccountsTypeOK
  <2>6. ASSUME NEW b \in Actor PROVE RequestInv(b)'
    <3>1. /\ RequestInv(b)
          /\ seen'[b] = IF req[b] = NoRequest THEN {} ELSE seen[b] \cup ActiveIn(user')
      BY <1>1, <2>3
    <3> QED
      BY <2>3, <3>1 DEF RequestInv, ActiveIn, NoRequest
  <2>7. EnabledSecretProven' /\ TokensInv'
    BY <1>1, <2>3 DEF EnabledSecretProven, TokensInv, IssuedOnlyIfActive
  <2>8. LoginlessOnlyHalfway'
    <3>1. \A v \in UserId : user'[v] # None <=> user[v] # None
      BY <1>1, <2>2, <2>3 DEF AccountsTypeOK
    <3> QED
      BY <1>1, <2>3, <3>1 DEF LoginlessOnlyHalfway, Exists
  <2> QED
    BY <2>5, <2>6, <2>7, <2>8 DEF AccountsInv
<1>3. CASE DeleteUser(u)
  <2>1. /\ user' = [user EXCEPT ![u] = None] /\ emailId' = [emailId EXCEPT ![u] = None]
        /\ linked' = [linked EXCEPT ![u] = {}]
        /\ UNCHANGED <<created, tokens, req, seen, twofa, failures>>
    BY <1>3 DEF DeleteUser
  <2>2. AccountsTypeOK'
    BY <1>1, <2>1 DEF AccountsTypeOK
  <2>3. ActiveIn(user') \subseteq ActiveIn(user)
    BY <1>1, <2>1 DEF ActiveIn, AccountsTypeOK
  <2>4. ASSUME NEW b \in Actor PROVE RequestInv(b)'
    <3>1. RequestInv(b)
      BY <1>1
    <3> QED
      BY <2>1, <2>3, <3>1 DEF RequestInv, ActiveIn
  <2>5. EnabledSecretProven' /\ TokensInv'
    BY <1>1, <2>1 DEF EnabledSecretProven, TokensInv, IssuedOnlyIfActive, AccountsTypeOK
  <2>6. LoginlessOnlyHalfway'
    <3>1. user'[u] = None /\ \A v \in UserId \ {u} :
            user'[v] = user[v] /\ emailId'[v] = emailId[v] /\ linked'[v] = linked[v]
      BY <1>1, <2>1 DEF AccountsTypeOK
    <3> QED
      BY <1>1, <2>1, <3>1 DEF LoginlessOnlyHalfway, Exists
  <2> QED
    BY <2>2, <2>4, <2>5, <2>6 DEF AccountsInv
<1> QED
  BY <1>2, <1>3

LEMMA InitAccountsInv == InitAccounts => AccountsInv
<1> SUFFICES ASSUME InitAccounts PROVE AccountsInv
  OBVIOUS
<1>1. AccountsTypeOK
  BY AccountBoundsAssumption DEF InitAccounts, AccountsTypeOK, Request
<1>2. \A a \in Actor : RequestInv(a)
  BY DEF InitAccounts, RequestInv, NoRequest
<1>3. TokensInv /\ EnabledSecretProven /\ LoginlessOnlyHalfway
  BY DEF InitAccounts, TokensInv, IssuedOnlyIfActive, EnabledSecretProven,
         LoginlessOnlyHalfway, Exists
<1> QED
  BY <1>1, <1>2, <1>3 DEF AccountsInv

LEMMA AccountsInvariance == AccountsInv /\ [NextAccounts]_accountVars => AccountsInv'
<1> SUFFICES ASSUME AccountsInv, [NextAccounts]_accountVars PROVE AccountsInv'
  OBVIOUS
<1>1. ASSUME NEW a \in Actor,
             \/ OAuthGoogleCallback(a) \/ OAuthGoogle(a) \/ OAuthKakaoCallback(a) \/ OAuthKakao(a)
      PROVE  AccountsInv'
  BY <1>1, OAuthBegins
     DEF OAuthGoogleCallback, OAuthGoogle, OAuthKakaoCallback, OAuthKakao, GoogleAccount, KakaoAccount
<1>2. ASSUME NEW a \in Actor, Register(a) \/ Login(a) \/ SecondFactor(a) \/ Enable2FA(a)
                              \/ Verify2FA(a) \/ Forgot(a) \/ VerifyEmail(a) \/ ResetPassword(a)
      PROVE  AccountsInv'
  BY <1>2, Begins
<1>3. ASSUME NEW a \in Actor, OAuthById(a) \/ CheckPassword(a) \/ CheckCode(a) \/ SaveSecret(a)
                              \/ Activate2FA(a) \/ SaveResetToken(a) \/ DropToken(a) \/ Fail(a)
      PROVE  AccountsInv'
  BY <1>3, Ends
<1>4. ASSUME NEW a \in Actor, OAuthByEmail(a) \/ SetVerified(a) \/ UpdatePassword(a)
      PROVE  AccountsInv'
  BY <1>4, Continues
<1>5. ASSUME NEW a \in Actor, CreateUser(a) \/ CreateIdentity(a) PROVE AccountsInv'
  BY <1>5, UserCreated, IdentityCreated
<1>6. ASSUME NEW u \in UserId, Refresh(u) \/ VerifySend(u) \/ Disable2FA(u) PROVE AccountsInv'
  BY <1>6, Outside
<1>7. ASSUME NEW u \in UserId, SetActive(u, TRUE) \/ SetActive(u, FALSE) \/ DeleteUser(u)
      PROVE  AccountsInv'
  BY <1>7, Administrator
<1>8. CASE ExpireChallenge \/ ExpireToken
  <2>1. \E u \in UserId : TRUE
    BY <1>8 DEF ExpireChallenge, ExpireToken, AccountsInv, AccountsTypeOK, AuthToken
  <2> QED
    BY <1>8, <2>1, Outside
<1>9. CASE UNCHANGED accountVars
  BY <1>9 DEF AccountsInv, AccountsTypeOK, RequestInv, ActiveIn, TokensInv, IssuedOnlyIfActive,
              EnabledSecretProven, LoginlessOnlyHalfway, Exists, accountVars
<1> QED
  BY <1>1, <1>2, <1>3, <1>4, <1>5, <1>6, <1>7, <1>8, <1>9 DEF NextAccounts

\* The tables, the tokens and the requests have their types (db/queries/users.py).
THEOREM AccountsTypes == SpecAccounts => []AccountsTypeOK
<1>1. AccountsInv => AccountsTypeOK
  BY DEF AccountsInv
<1> QED
  BY <1>1, InitAccountsInv, AccountsInvariance, PTL DEF SpecAccounts

\* However many requests enable, verify and disable a second factor at once, the secret
\* that is enabled is one the user gave a right code for (twofa.py).
THEOREM SecretProven == SpecAccounts => []EnabledSecretProven
<1>1. AccountsInv => EnabledSecretProven
  BY DEF AccountsInv
<1> QED
  BY <1>1, InitAccountsInv, AccountsInvariance, PTL DEF SpecAccounts

\* An account without a login is one being created, or one whose creation failed between
\* the two inserts (basic.py: register, oauth.py).
THEOREM LoginlessHalfway == SpecAccounts => []LoginlessOnlyHalfway
<1>1. AccountsInv => LoginlessOnlyHalfway
  BY DEF AccountsInv
<1> QED
  BY <1>1, InitAccountsInv, AccountsInvariance, PTL DEF SpecAccounts

\* No token pair is given for an account that was inactive throughout the request, or
\* throughout the login that made its challenge (basic.py: login, oauth.py, twofa.py).
THEOREM IssuedToActive == SpecAccounts => []IssuedOnlyIfActive
<1>1. AccountsInv => IssuedOnlyIfActive
  BY DEF AccountsInv, TokensInv
<1> QED
  BY <1>1, InitAccountsInv, AccountsInvariance, PTL DEF SpecAccounts

(***************************************************************************)
(* Subscriptions.                                                          *)
(***************************************************************************)

\* Ids are given out in order.
IdsInOrder == \A s \in subs : s.id <= Cardinality(subs)

SubscriptionInv == SubscriptionTypeOK /\ IdsInOrder /\ ExpiredPlanTaken

LEMMA SubsFinite == SubscriptionTypeOK => IsFiniteSet(subs) /\ Cardinality(subs) \in Nat
<1> SUFFICES ASSUME SubscriptionTypeOK PROVE IsFiniteSet(subs)
  BY FS_CardinalityType
<1> DEFINE f == [s \in subs |-> s.id]
<1>1. \A s \in subs : s.id \in 1 .. MaxSubs
  BY DEF SubscriptionTypeOK, SubRow, SubId
<1>2. f \in Injection(subs, 1 .. MaxSubs)
  BY <1>1 DEF SubscriptionTypeOK, Injection, IsInjective
<1>3. IsFiniteSet(1 .. MaxSubs)
  BY SubscriptionAssumption, FS_Interval
<1> QED
  BY <1>2, <1>3, FS_Injection

\* An UPDATE that leaves the ids alone leaves as many rows, one for each id.
LEMMA RowsUpdated ==
    ASSUME SubscriptionTypeOK, IdsInOrder, NEW f \in [subs -> SubRow],
           \A s \in subs : f[s].id = s.id, subs' = {f[s] : s \in subs}
    PROVE  /\ subs' \subseteq SubRow /\ (\A s, t \in subs' : s.id = t.id => s = t)
           /\ IdsInOrder'
<1>1. subs' \subseteq SubRow
  OBVIOUS
<1>2. \A s, t \in subs' : s.id = t.id => s = t
  BY DEF SubscriptionTypeOK
<1>3. f \in Bijection(subs, subs')
  <2>1. f \in [subs -> subs']
    OBVIOUS
  <2>2. \A s, t \in subs : f[s] = f[t] => s = t
    BY DEF SubscriptionTypeOK
  <2> QED
    BY <2>1, <2>2 DEF Bijection, Injection, Surjection, IsInjective
<1>4. Cardinality(subs') = Cardinality(subs)
  BY <1>3, SubsFinite, FS_Bijection DEF ExistsBijection
<1>5. IdsInOrder'
  BY <1>4 DEF IdsInOrder
<1> QED
  BY <1>1, <1>2, <1>5

\* SetStatus is such an UPDATE, and changes the status of W only.
LEMMA StatusSet ==
    ASSUME SubscriptionTypeOK, IdsInOrder, NEW W \in SUBSET subs, NEW status \in Status,
           SetStatus(W, status)
    PROVE  /\ subs' \subseteq SubRow /\ (\A s, t \in subs' : s.id = t.id => s = t)
           /\ IdsInOrder'
           /\ \A s \in subs, t \in subs' : s.id = t.id /\ s \notin W => t.status = s.status
<1> DEFINE f == [s \in subs |-> IF s \in W THEN [s EXCEPT !.status = status] ELSE s]
<1>1. \A s \in subs : s \in SubRow
  BY DEF SubscriptionTypeOK
<1>2. \A s \in SubRow : [s EXCEPT !.status = status] \in SubRow /\ [s EXCEPT !.status = status].id = s.id
  BY DEF SubRow
<1>3. f \in [subs -> SubRow] /\ \A s \in subs : f[s].id = s.id
  BY <1>1, <1>2
<1>4. subs' = {f[s] : s \in subs}
  BY DEF SetStatus
<1>5. \A s \in subs : s \notin W => f[s] = s
  OBVIOUS
<1> HIDE DEF f
<1>6. /\ subs' \subseteq SubRow /\ (\A s, t \in subs' : s.id = t.id => s = t)
      /\ IdsInOrder'
  BY <1>3, <1>4, RowsUpdated
<1>7. \A s \in subs, t \in subs' : s.id = t.id /\ s \notin W => t.status = s.status
  BY <1>3, <1>4, <1>5 DEF SubscriptionTypeOK
<1> QED
  BY <1>6, <1>7

\* What a step must keep of the rows.
RowsKept ==
    /\ subs' \subseteq SubRow /\ (\A s, t \in subs' : s.id = t.id => s = t) /\ IdsInOrder'
    /\ \A s \in subs, t \in subs' : s.id = t.id /\ s.status # "active" /\ t.status # s.status =>
          \E e \in events : e.sub = s.id /\ e.status = t.status

LEMMA UntouchedRows ==
    ASSUME SubscriptionTypeOK, IdsInOrder, UNCHANGED subs
    PROVE  RowsKept
  BY DEF RowsKept, SubscriptionTypeOK, IdsInOrder

LEMMA CheckoutRows ==
    ASSUME SubscriptionInv, NEW c \in Customer, NEW p \in PaidPlan, Checkout(c, p)
    PROVE  RowsKept
<1> DEFINE n == Cardinality(subs)
           new == NewSub(c, p)
<1>1. n < MaxSubs /\ subs' = subs \cup {new}
  BY DEF Checkout
<1>2. IsFiniteSet(subs) /\ n \in Nat
  BY SubsFinite DEF SubscriptionInv
<1>3. new \in SubRow /\ new.id = n + 1
  <2>1. n + 1 \in SubId
    BY <1>1, <1>2, SubscriptionAssumption DEF SubId
  <2>2. new = [id |-> n + 1, user |-> c, plan |-> p, status |-> "active"]
    BY DEF NewSub
  <2>3. p \in SubPlan /\ "active" \in Status
    BY DEF SubPlan, Status
  <2> HIDE DEF n, new
  <2> QED
    BY <2>1, <2>2, <2>3 DEF SubRow
<1>4. \A s \in subs : s.id \in Nat /\ s.id <= n /\ s \in SubRow
  BY DEF SubscriptionInv, IdsInOrder, SubscriptionTypeOK, SubRow, SubId
<1>5. new \notin subs
  <2> HIDE DEF n, new
  <2> QED
    BY <1>2, <1>3, <1>4
<1>6. Cardinality(subs') = n + 1
  BY <1>1, <1>2, <1>5, FS_AddElement
<1> HIDE DEF n, new
<1>7. \A s, t \in subs' : s.id = t.id => s = t
  BY <1>1, <1>2, <1>3, <1>4 DEF SubscriptionInv, SubscriptionTypeOK
<1>8. IdsInOrder'
  BY <1>1, <1>2, <1>3, <1>4, <1>6 DEF IdsInOrder
<1>9. \A s \in subs, t \in subs' : s.id = t.id => s = t
  BY <1>1, <1>7
<1> QED
  BY <1>1, <1>3, <1>4, <1>7, <1>8, <1>9 DEF RowsKept

LEMMA CancelRows ==
    ASSUME SubscriptionInv, NEW r \in Caller, CancelUpdate(r)
    PROVE  RowsKept
<1> DEFINE W == {s \in subs : s.id = cancel[r] /\ s.status = "active"}
<1>1. SetStatus(W, "cancelled") /\ W \in SUBSET subs /\ "cancelled" \in Status
  BY DEF CancelUpdate, Status
<1>2. \A s \in W : s.status = "active"
  OBVIOUS
<1> HIDE DEF W
<1> QED
  BY <1>1, <1>2, StatusSet DEF RowsKept, SubscriptionInv

LEMMA MarkRows ==
    ASSUME SubscriptionInv, ExpiryMark
    PROVE  RowsKept
<1> DEFINE W == {s \in subs : s.status = "active" /\ s.id \in overdue}
<1>1. SetStatus(W, "expired") /\ W \in SUBSET subs /\ "expired" \in Status
  BY DEF ExpiryMark, Status
<1>2. \A s \in W : s.status = "active"
  OBVIOUS
<1> HIDE DEF W
<1> QED
  BY <1>1, <1>2, StatusSet DEF RowsKept, SubscriptionInv

LEMMA DeliverRows ==
    ASSUME SubscriptionInv, NEW e \in events, Deliver(e)
    PROVE  RowsKept
<1> DEFINE f == [s \in subs |-> Reported(s, e)]
<1>1. e.status \in Status /\ subs' = {Reported(s, e) : s \in subs}
  BY DEF Deliver
<1>2. e \in [sub : SubId, status : Status, plan : SubPlan]
  BY DEF SubscriptionInv, SubscriptionTypeOK
<1>3. \A s \in SubRow : /\ Reported(s, e) \in SubRow /\ Reported(s, e).id = s.id
                        /\ s.id # e.sub => Reported(s, e) = s
                        /\ s.id = e.sub => Reported(s, e).status = e.status
  BY <1>2 DEF Reported, SubRow
<1>4. subs \subseteq SubRow
  BY DEF SubscriptionInv, SubscriptionTypeOK
<1>5. f \in [subs -> SubRow] /\ (\A s \in subs : f[s].id = s.id) /\ subs' = {f[s] : s \in subs}
  BY <1>1, <1>3, <1>4
<1>6. \A s \in subs : (s.id # e.sub => f[s] = s) /\ (s.id = e.sub => f[s].status = e.status)
  BY <1>3, <1>4
<1> HIDE DEF f
<1>7. /\ subs' \subseteq SubRow /\ (\A s, t \in subs' : s.id = t.id => s = t)
      /\ IdsInOrder'
  BY <1>5, RowsUpdated DEF SubscriptionInv
<1>8. \A s \in subs, t \in subs' : s.id = t.id => t = f[s]
  BY <1>5 DEF SubscriptionInv, SubscriptionTypeOK
<1> QED
  BY <1>6, <1>7, <1>8 DEF RowsKept

\* The rows under every step.
LEMMA SubscriptionRows ==
    ASSUME SubscriptionInv, NextSubscription
    PROVE  RowsKept
<1>1. CASE UNCHANGED subs
  BY <1>1, UntouchedRows DEF SubscriptionInv
<1>2. "refunded" \notin Status
  BY DEF Status
<1>3. CASE \E i \in SubId : Refund(i)
  BY <1>1, <1>2, <1>3 DEF Refund
<1>4. CASE \E e \in events : Deliver(e)
  BY <1>4, DeliverRows
<1>5. CASE \E r \in Caller : CancelUpdate(r)
  BY <1>5, CancelRows
<1>6. CASE \E c \in Customer, p \in PaidPlan : Checkout(c, p)
  BY <1>6, CheckoutRows
<1>7. CASE ExpiryMark
  BY <1>7, MarkRows
<1> QED
  BY <1>1, <1>3, <1>4, <1>5, <1>6, <1>7 DEF NextSubscription, AdminSetPlan, CancelRead, GetOverdue,
     Emit, Forget, ExpiryDowngrade, ExpiryCrash

LEMMA InitSubscriptionInv == InitSubscription => SubscriptionInv
<1> SUFFICES ASSUME InitSubscription PROVE SubscriptionInv
  OBVIOUS
<1> USE DEF InitSubscription
<1>1. emitted \in 0 .. MaxEvents /\ crashes \in 0 .. MaxCrashes
  BY SubscriptionAssumption
<1>2. plan \in [Customer -> SubPlan] /\ cancel \in [Caller -> SubId \cup {0}]
  BY DEF SubPlan
<1>3. SubscriptionTypeOK
  BY <1>1, <1>2 DEF SubscriptionTypeOK
<1> QED
  BY <1>3 DEF SubscriptionInv, IdsInOrder, ExpiredPlanTaken

\* The other variables keep their types.
LEMMA SubscriptionTypeStep ==
    ASSUME SubscriptionInv, NextSubscription
    PROVE  SubscriptionTypeOK'
<1> DEFINE Others ==
             /\ plan' \in [Customer -> SubPlan] /\ overdue' \subseteq SubId
             /\ events' \subseteq [sub : SubId, status : Status, plan : SubPlan]
             /\ emitted' \in 0 .. MaxEvents
             /\ cancel' \in [Caller -> SubId \cup {0}]
             /\ expiry' \subseteq Customer /\ due' \subseteq Customer /\ spared' \subseteq Customer
             /\ crashes' \in 0 .. MaxCrashes
<1> SUFFICES Others
  BY SubscriptionRows DEF RowsKept, SubscriptionTypeOK
<1> USE DEF SubscriptionInv, SubscriptionTypeOK
<1>1. ASSUME NEW c \in Customer, NEW p \in PaidPlan, Checkout(c, p) PROVE Others
  BY <1>1 DEF Checkout
<1>2. ASSUME NEW c \in Customer, NEW p \in SubPlan, AdminSetPlan(c, p) PROVE Others
  BY <1>2 DEF AdminSetPlan
<1>3. ASSUME NEW r \in Caller, CancelUpdate(r) PROVE Others
  BY <1>3 DEF CancelUpdate
<1>4. ASSUME NEW r \in Caller, NEW c \in Customer, CancelRead(r, c) PROVE Others
  <2>1. PICK s \in Current(c) : cancel' = [cancel EXCEPT ![r] = s.id]
    BY <1>4 DEF CancelRead
  <2>2. s.id \in SubId
    BY <2>1 DEF Current, ActiveSubs, SubRow
  <2> QED
    BY <1>4, <2>1, <2>2 DEF CancelRead
<1>5. ASSUME NEW i \in SubId, Refund(i) \/ GetOverdue(i) PROVE Others
  BY <1>5 DEF Refund, GetOverdue
<1>6. ASSUME NEW i \in SubId, NEW status \in Status, NEW p \in SubPlan, Emit(i, status, p) PROVE Others
  BY <1>6, SubscriptionAssumption DEF Emit
<1>7. ASSUME NEW e \in events, Deliver(e) \/ Forget(e) PROVE Others
  BY <1>7 DEF Deliver, Forget
<1>8. ASSUME ExpiryMark PROVE Others
  <2> DEFINE owners == {s.user : s \in {t \in subs : t.status = "active" /\ t.id \in overdue}}
  <2>1. owners \subseteq Customer
    BY DEF SubRow
  <2>2. expiry' = owners /\ due' = due \cup owners
        /\ UNCHANGED <<plan, overdue, events, emitted, cancel, crashes, spared>>
    BY <1>8 DEF ExpiryMark
  <2> QED
    BY <2>1, <2>2
<1>9. ASSUME ExpiryDowngrade PROVE Others
  <2>1. "free" \in SubPlan
    BY DEF SubPlan
  <2> QED
    BY <1>9, <2>1 DEF ExpiryDowngrade
<1>10. ASSUME ExpiryCrash PROVE Others
  BY <1>10, SubscriptionAssumption DEF ExpiryCrash
<1> QED
  BY <1>1, <1>2, <1>3, <1>4, <1>5, <1>6, <1>7, <1>8, <1>9, <1>10 DEF NextSubscription

LEMMA PlanTakenStep ==
    ASSUME SubscriptionInv, NextSubscription
    PROVE  ExpiredPlanTaken'
<1> USE DEF SubscriptionInv, SubscriptionTypeOK, ExpiredPlanTaken
<1>1. CASE UNCHANGED <<plan, expiry, due, spared>>
  BY <1>1
<1>2. ASSUME NEW c \in Customer, NEW p \in SubPlan, AdminSetPlan(c, p) PROVE ExpiredPlanTaken'
  BY <1>2 DEF AdminSetPlan
<1>3. ASSUME ExpiryMark PROVE ExpiredPlanTaken'
  BY <1>3 DEF ExpiryMark
<1>4. ASSUME ExpiryDowngrade PROVE ExpiredPlanTaken'
  BY <1>4 DEF ExpiryDowngrade
<1>5. ASSUME ExpiryCrash PROVE ExpiredPlanTaken'
  BY <1>5 DEF ExpiryCrash
<1> QED
  BY <1>1, <1>2, <1>3, <1>4, <1>5 DEF NextSubscription, Checkout, CancelUpdate, CancelRead, Refund,
     GetOverdue, Emit, Deliver, Forget

LEMMA SubscriptionInvariance ==
    SubscriptionInv /\ [NextSubscription]_subscriptionVars => SubscriptionInv'
<1> SUFFICES ASSUME SubscriptionInv, [NextSubscription]_subscriptionVars PROVE SubscriptionInv'
  OBVIOUS
<1>1. CASE UNCHANGED subscriptionVars
  BY <1>1 DEF subscriptionVars, SubscriptionInv, SubscriptionTypeOK, IdsInOrder, ExpiredPlanTaken
<1>2. CASE NextSubscription
  <2>1. IdsInOrder'
    BY <1>2, SubscriptionRows DEF RowsKept
  <2> QED
    BY <1>2, <2>1, SubscriptionTypeStep, PlanTakenStep DEF SubscriptionInv
<1> QED
  BY <1>1, <1>2

\* Subscriptions, plans, events and the job's rows have their types
\* (db/queries/subscriptions.py).
THEOREM SubscriptionTypes == SpecSubscription => []SubscriptionTypeOK
<1>1. SubscriptionInv => SubscriptionTypeOK
  BY DEF SubscriptionInv
<1> QED
  BY <1>1, InitSubscriptionInv, SubscriptionInvariance, PTL DEF SpecSubscription

\* However requests, events, administrators and the job interleave, and however often the
\* job dies between its two statements, the owner of a row it expired is on the free plan
\* but for the cases the property names (plan_expiry.py: run_plan_expiry).
THEOREM PlanTaken == SpecSubscription => []ExpiredPlanTaken
<1>1. SubscriptionInv => ExpiredPlanTaken
  BY DEF SubscriptionInv
<1> QED
  BY <1>1, InitSubscriptionInv, SubscriptionInvariance, PTL DEF SpecSubscription

\* No late cancel and no run of the job changes the status of a row that is not active:
\* only an event of the provider does (subscriptions.py, payment.py, plan_expiry.py).
THEOREM ProviderReopens == SpecSubscription => OnlyProviderReopens
<1> DEFINE Kept == \A s \in subs, t \in subs' :
                     s.id = t.id /\ s.status # "active" /\ t.status # s.status =>
                         \E e \in events : e.sub = s.id /\ e.status = t.status
<1>1. SubscriptionInv /\ [NextSubscription]_subscriptionVars => [Kept]_subscriptionVars
  BY SubscriptionRows DEF RowsKept
<1>2. SpecSubscription => []SubscriptionInv
  BY InitSubscriptionInv, SubscriptionInvariance, PTL DEF SpecSubscription
<1> QED
  BY <1>1, <1>2, PTL DEF SpecSubscription, OnlyProviderReopens

(***************************************************************************)
(* What users keep: items under a limit, and the ratio of behavior.        *)
(***************************************************************************)

CreateType == {NoCreate} \cup [pc : {"check", "insert"}, owner : Member, kind : Kind, name : Item]

\* Only brand monitors are ever deactivated; who has no limits had none at some time.
RowsInv ==
    /\ \A i \in items : i.kind # "brand" => i.live
    /\ \A m \in Member \ everFree : m \in limited

\* What an apply has read of the ratio is what was put last, or a PUT has overtaken it.
ApplyInv ==
    \A a \in Applier : applying[a] # <<>> =>
        LET m == applying[a][1]
        IN applying[a][2] = lastPut[m].ratio \/ lastPut[m].raced

ItemsPart == UserItemsTypeOK /\ RowsInv /\ LimitOvershootBounded

PrefPart == UserItemsTypeOK /\ ApplyInv /\ PutRatioKept

UserItemsInv == ItemsPart /\ PrefPart

\* Rows are as many as their ids at most.
LEMMA ItemsFinite == UserItemsTypeOK => IsFiniteSet(items)
<1> SUFFICES ASSUME UserItemsTypeOK PROVE IsFiniteSet(items)
  OBVIOUS
<1> DEFINE f == [i \in items |-> i.id]
<1>1. \A i \in items : i.id \in 1 .. MaxItems
  BY DEF UserItemsTypeOK, ItemRow, ItemId
<1>2. f \in Injection(items, 1 .. MaxItems)
  BY <1>1 DEF UserItemsTypeOK, Injection, IsInjective
<1>3. IsFiniteSet(1 .. MaxItems)
  BY UserItemsAssumption, FS_Interval
<1> QED
  BY <1>2, <1>3, FS_Injection

\* Rows and requests can be counted.
LEMMA ItemsCounted ==
    ASSUME UserItemsTypeOK, NEW m, NEW k
    PROVE  /\ IsFiniteSet(Owned(m, k)) /\ Cardinality(Owned(m, k)) \in Nat
           /\ IsFiniteSet(Pending(m, k)) /\ Cardinality(Pending(m, k)) \in Nat
           /\ Cardinality(Pending(m, k)) <= Cardinality(Create) /\ Cardinality(Create) \in Nat
<1>1. /\ Owned(m, k) \in SUBSET items /\ Pending(m, k) \in SUBSET Create /\ IsFiniteSet(Create)
      /\ IsFiniteSet(items)
  BY UserItemsAssumption, ItemsFinite DEF Owned, Pending
<1>2. IsFiniteSet(Owned(m, k)) /\ IsFiniteSet(Pending(m, k))
  BY <1>1, FS_Subset
<1>3. Cardinality(Pending(m, k)) <= Cardinality(Create)
  BY <1>1, FS_Subset
<1> QED
  BY <1>1, <1>2, <1>3, FS_CardinalityType

\* With no more rows and no more requests the bound stays.
LEMMA BoundShrinks ==
    ASSUME UserItemsTypeOK, LimitOvershootBounded, everFree \subseteq everFree',
           \A m \in Member, k \in Kind : /\ Owned(m, k)' \subseteq Owned(m, k)
                                         /\ Pending(m, k)' \subseteq Pending(m, k)
    PROVE  LimitOvershootBounded'
<1> SUFFICES ASSUME NEW m \in Member \ everFree', NEW k \in Kind
             PROVE  Cardinality(Owned(m, k)') + Cardinality(Pending(m, k)') < LimitOf[k] + Cardinality(Create)
  BY DEF LimitOvershootBounded
<1>1. /\ IsFiniteSet(Owned(m, k)) /\ Cardinality(Owned(m, k)) \in Nat
      /\ IsFiniteSet(Pending(m, k)) /\ Cardinality(Pending(m, k)) \in Nat
      /\ Cardinality(Create) \in Nat
  BY ItemsCounted
<1>2. Owned(m, k)' \in SUBSET Owned(m, k) /\ Pending(m, k)' \in SUBSET Pending(m, k)
  OBVIOUS
<1>3. /\ Cardinality(Owned(m, k)') <= Cardinality(Owned(m, k)) /\ Cardinality(Owned(m, k)') \in Nat
      /\ Cardinality(Pending(m, k)') <= Cardinality(Pending(m, k))
      /\ Cardinality(Pending(m, k)') \in Nat
  BY <1>1, <1>2, FS_Subset, FS_CardinalityType
<1>4. Cardinality(Owned(m, k)) + Cardinality(Pending(m, k)) < LimitOf[k] + Cardinality(Create)
  BY DEF LimitOvershootBounded
<1>5. LimitOf[k] \in Nat
  BY UserItemsAssumption
<1> QED
  BY <1>1, <1>3, <1>4, <1>5

LEMMA InitUserItemsInv == InitUserItems => UserItemsInv
<1> SUFFICES ASSUME InitUserItems PROVE UserItemsInv
  OBVIOUS
<1>1. /\ items = {} /\ lastItem = 0 /\ create = [c \in Create |-> NoCreate]
      /\ limited = Member /\ everFree = {} /\ changes = 0
      /\ pref = [m \in Member |-> [by |-> "none", ratio |-> 0]]
      /\ applying = [a \in Applier |-> <<>>]
      /\ lastPut = [m \in Member |-> [ratio |-> 0, raced |-> FALSE]]
  BY DEF InitUserItems
<1>2. UserItemsTypeOK
  <2>1. lastItem \in 0 .. MaxItems /\ changes \in 0 .. MaxChanges
    BY <1>1, UserItemsAssumption
  <2>2. pref \in [Member -> [by : {"none", "put", "behavior"}, ratio : Ratio]]
    BY <1>1, UserItemsAssumption
  <2>3. lastPut \in [Member -> [ratio : Ratio, raced : BOOLEAN]]
    BY <1>1, UserItemsAssumption
  <2>4. create \in [Create -> {NoCreate}] /\ applying \in [Applier -> {<<>>}]
    BY <1>1
  <2> QED
    BY <1>1, <2>1, <2>2, <2>3, <2>4 DEF UserItemsTypeOK
<1>3. RowsInv
  BY <1>1 DEF RowsInv
<1>4. LimitOvershootBounded
  <2> SUFFICES ASSUME NEW m \in Member, NEW k \in Kind
               PROVE  Cardinality(Owned(m, k)) + Cardinality(Pending(m, k)) < LimitOf[k] + Cardinality(Create)
    BY DEF LimitOvershootBounded
  <2>1. Owned(m, k) = {} /\ Pending(m, k) = {}
    BY <1>1 DEF Owned, Pending
  <2>2. Cardinality(Owned(m, k)) = 0 /\ Cardinality(Pending(m, k)) = 0
    BY <2>1, FS_EmptySet
  <2>3. Cardinality(Create) \in Nat /\ Cardinality(Create) # 0 /\ LimitOf[k] \in Nat
    BY UserItemsAssumption, FS_EmptySet, FS_CardinalityType
  <2> QED
    BY <2>2, <2>3
<1>5. ApplyInv /\ PutRatioKept
  BY <1>1 DEF ApplyInv, PutRatioKept
<1> QED
  BY <1>2, <1>3, <1>4, <1>5 DEF UserItemsInv, ItemsPart, PrefPart

(***************************************************************************)
(* Creating and deleting items.                                            *)
(***************************************************************************)

\* Where a request is, is enough to know its fields.
LEMMA CreateFields ==
    ASSUME UserItemsTypeOK, NEW c \in Create, create[c] # NoCreate
    PROVE  /\ create[c] \in [pc : {"check", "insert"}, owner : Member, kind : Kind, name : Item]
           /\ create[c].owner \in Member /\ create[c].kind \in Kind /\ create[c].name \in Item
<1>1. create[c] \in [pc : {"check", "insert"}, owner : Member, kind : Kind, name : Item]
  BY DEF UserItemsTypeOK
<1> QED
  BY <1>1

\* A request counts less than the limit: adding it to the requests keeps the bound.
LEMMA CountStep ==
    ASSUME ItemsPart, NEW c \in Create, NEW m \in Member, NEW k \in Kind, NEW x \in Item,
           NEW next \in {"check", "insert"}, CountItems(c, m, k, x, next)
    PROVE  ItemsPart'
<1> DEFINE new == [pc |-> next, owner |-> m, kind |-> k, name |-> x]
<1>1. /\ create[c] = NoCreate /\ (m \in limited => Cardinality(Owned(m, k)) < LimitOf[k])
      /\ create' = [create EXCEPT ![c] = new]
      /\ UNCHANGED <<items, lastItem, limited, everFree, changes, pref, applying, lastPut>>
  BY DEF CountItems, prefVars
<1>2. new \in [pc : {"check", "insert"}, owner : Member, kind : Kind, name : Item]
  OBVIOUS
<1> HIDE DEF new
<1>3. UserItemsTypeOK'
  BY <1>1, <1>2 DEF ItemsPart, UserItemsTypeOK
<1>4. RowsInv'
  BY <1>1 DEF ItemsPart, RowsInv
<1>5. \A d \in Create : create'[d] = IF d = c THEN new ELSE create[d]
  BY <1>1 DEF ItemsPart, UserItemsTypeOK
<1>6. LimitOvershootBounded'
  <2> SUFFICES ASSUME NEW n \in Member \ everFree', NEW j \in Kind
               PROVE  Cardinality(Owned(n, j)') + Cardinality(Pending(n, j)') < LimitOf[j] + Cardinality(Create)
    BY DEF LimitOvershootBounded
  <2>1. Owned(n, j)' = Owned(n, j) /\ n \in Member \ everFree /\ n \in limited
    BY <1>1 DEF Owned, ItemsPart, RowsInv
  <2>2. /\ Cardinality(Owned(n, j)) \in Nat /\ Cardinality(Create) \in Nat
        /\ Cardinality(Pending(n, j)') \in Nat
        /\ Cardinality(Pending(n, j)') <= Cardinality(Create)
    <3>1. Pending(n, j)' \in SUBSET Create /\ IsFiniteSet(Create)
      BY UserItemsAssumption DEF Pending
    <3> QED
      BY <3>1, FS_Subset, FS_CardinalityType, ItemsCounted DEF ItemsPart
  <2>3. CASE n = m /\ j = k
    <3>1. Cardinality(Owned(n, j)) < LimitOf[j] /\ LimitOf[j] \in Nat
      BY <1>1, <2>1, <2>3, UserItemsAssumption
    <3> QED
      BY <2>1, <2>2, <3>1
  <2>4. CASE ~(n = m /\ j = k)
    <3>1. new # NoCreate /\ new.owner = m /\ new.kind = k
      BY DEF new, NoCreate
    <3>2. Pending(n, j)' = Pending(n, j)
      BY <1>1, <1>5, <2>4, <3>1 DEF Pending
    <3> QED
      BY <2>1, <3>2 DEF ItemsPart, LimitOvershootBounded
  <2> QED
    BY <2>3, <2>4
<1> QED
  BY <1>3, <1>4, <1>6 DEF ItemsPart

\* A request that goes on or ends without a row.
LEMMA CheckStep ==
    ASSUME ItemsPart, NEW c \in Create, CheckDuplicate(c) \/ CreateFails(c)
    PROVE  ItemsPart'
<1> DEFINE on == [create[c] EXCEPT !.pc = "insert"]
<1>1. /\ create[c] # NoCreate
      /\ create' = [create EXCEPT ![c] = NoCreate] \/ create' = [create EXCEPT ![c] = on]
      /\ UNCHANGED <<items, lastItem, limited, everFree, changes, pref, applying, lastPut>>
  <2>1. CASE CheckDuplicate(c)
    <3>1. create[c] # NoCreate
      BY <2>1 DEF CheckDuplicate, NoCreate
    <3>2. CASE Named(create[c].owner, create[c].kind, create[c].name) = {}
      BY <2>1, <3>1, <3>2 DEF CheckDuplicate, prefVars
    <3>3. CASE Named(create[c].owner, create[c].kind, create[c].name) # {}
      BY <2>1, <3>1, <3>3 DEF CheckDuplicate, prefVars
    <3> QED
      BY <3>2, <3>3
  <2>2. CASE CreateFails(c)
    BY <2>2 DEF CreateFails, prefVars
  <2> QED
    BY <2>1, <2>2
<1>2. /\ on \in [pc : {"check", "insert"}, owner : Member, kind : Kind, name : Item]
      /\ on.owner = create[c].owner /\ on.kind = create[c].kind
  BY <1>1, CreateFields DEF ItemsPart
<1> HIDE DEF on
<1>3. UserItemsTypeOK'
  BY <1>1, <1>2 DEF ItemsPart, UserItemsTypeOK
<1>4. RowsInv'
  BY <1>1 DEF ItemsPart, RowsInv
<1>5. \A d \in Create : create'[d] = create[d] \/ (d = c /\ (create'[d] = NoCreate \/ create'[d] = on))
  BY <1>1 DEF ItemsPart, UserItemsTypeOK
<1>6. \A m \in Member, k \in Kind : Owned(m, k)' = Owned(m, k) /\ Pending(m, k)' \subseteq Pending(m, k)
  BY <1>1, <1>2, <1>5 DEF Owned, Pending
<1>7. LimitOvershootBounded'
  BY <1>1, <1>6, BoundShrinks DEF ItemsPart
<1> QED
  BY <1>3, <1>4, <1>7 DEF ItemsPart

\* The row takes the place of its request.
LEMMA InsertRowStep ==
    ASSUME ItemsPart, NEW c \in Create, NEW k \in Kind, InsertItem(c, k),
           k = "keyword" => Named(create[c].owner, "keyword", create[c].name) = {}
    PROVE  ItemsPart'
<1> DEFINE q == create[c]
           row == NewItem(q)
<1>1. /\ q.pc = "insert" /\ q.kind = k /\ lastItem < MaxItems /\ lastItem' = lastItem + 1
      /\ items' = items \cup {row} /\ create' = [create EXCEPT ![c] = NoCreate]
      /\ UNCHANGED <<limited, everFree, changes, pref, applying, lastPut>>
  BY DEF InsertItem, prefVars
<1>2. q # NoCreate /\ q.owner \in Member /\ q.kind \in Kind /\ q.name \in Item
  <2>1. q # NoCreate
    BY <1>1 DEF NoCreate
  <2> QED
    BY <2>1, CreateFields DEF ItemsPart
<1>3. lastItem \in 0 .. MaxItems /\ lastItem' \in 1 .. MaxItems /\ lastItem' = lastItem + 1
  BY <1>1, UserItemsAssumption DEF ItemsPart, UserItemsTypeOK
<1>4. /\ row \in ItemRow /\ row.id = lastItem' /\ row.owner = q.owner /\ row.kind = q.kind
      /\ row.name = q.name /\ row.live = TRUE
  BY <1>2, <1>3 DEF NewItem, ItemRow, ItemId
<1>5. \A i \in items : i.id \in Nat /\ i.id <= lastItem /\ i \in ItemRow
  BY DEF ItemsPart, UserItemsTypeOK, ItemRow, ItemId
<1>6. row \notin items
  BY <1>3, <1>4, <1>5
<1> HIDE DEF row
<1>7. UserItemsTypeOK'
  <2>1. items' \subseteq ItemRow /\ (\A i, j \in items' : i.id = j.id => i = j)
    BY <1>1, <1>3, <1>4, <1>5 DEF ItemsPart, UserItemsTypeOK
  <2>2. lastItem' \in 0 .. MaxItems /\ (\A i \in items' : i.id <= lastItem')
    BY <1>1, <1>3, <1>4, <1>5
  <2>3. \A i \in items : i.kind = "keyword" /\ row.kind = "keyword" /\ i.owner = row.owner =>
                         i.name # row.name
    BY <1>1, <1>4 DEF Named, Owned, ItemsPart, RowsInv
  <2>4. \A i, j \in items' :
           (i.kind = "keyword" /\ j.kind = "keyword" /\ i.owner = j.owner /\ i.name = j.name) => i = j
    BY <1>1, <2>3 DEF ItemsPart, UserItemsTypeOK
  <2> QED
    BY <1>1, <2>1, <2>2, <2>4 DEF ItemsPart, UserItemsTypeOK
<1>8. RowsInv'
  BY <1>1, <1>4 DEF ItemsPart, RowsInv
<1>9. \A d \in Create : create'[d] = IF d = c THEN NoCreate ELSE create[d]
  BY <1>1 DEF ItemsPart, UserItemsTypeOK
<1>10. LimitOvershootBounded'
  <2> SUFFICES ASSUME NEW m \in Member \ everFree', NEW j \in Kind
               PROVE  Cardinality(Owned(m, j)') + Cardinality(Pending(m, j)') < LimitOf[j] + Cardinality(Create)
    BY DEF LimitOvershootBounded
  <2>0. Cardinality(Owned(m, j)) + Cardinality(Pending(m, j)) < LimitOf[j] + Cardinality(Create)
    BY <1>1 DEF ItemsPart, LimitOvershootBounded
  <2>1. /\ IsFiniteSet(Owned(m, j)) /\ Cardinality(Owned(m, j)) \in Nat
        /\ IsFiniteSet(Pending(m, j)) /\ Cardinality(Pending(m, j)) \in Nat
    BY ItemsCounted DEF ItemsPart
  <2>2. CASE m = q.owner /\ j = q.kind
    <3>1. Owned(m, j)' = Owned(m, j) \cup {row} /\ row \notin Owned(m, j)
      BY <1>1, <1>4, <1>6, <2>2 DEF Owned
    <3>2. Pending(m, j)' = Pending(m, j) \ {c} /\ c \in Pending(m, j)
      BY <1>2, <1>9, <2>2 DEF Pending
    <3>3. Cardinality(Owned(m, j)') = Cardinality(Owned(m, j)) + 1
      BY <2>1, <3>1, FS_AddElement
    <3>4. Cardinality(Pending(m, j)') = Cardinality(Pending(m, j)) - 1
      BY <2>1, <3>2, FS_RemoveElement
    <3> QED
      BY <2>0, <2>1, <3>3, <3>4
  <2>3. CASE ~(m = q.owner /\ j = q.kind)
    <3>1. Owned(m, j)' = Owned(m, j)
      BY <1>1, <1>4, <2>3 DEF Owned
    <3>2. Pending(m, j)' = Pending(m, j)
      BY <1>9, <2>3 DEF Pending
    <3> QED
      BY <2>0, <3>1, <3>2
  <2> QED
    BY <2>2, <2>3
<1> QED
  BY <1>7, <1>8, <1>10 DEF ItemsPart

LEMMA DeleteStep ==
    ASSUME ItemsPart, NEW m \in Member, NEW k, NEW i, DeleteItem(m, k, i)
    PROVE  ItemsPart'
<1>1. /\ items' = items \ {i}
      /\ UNCHANGED <<lastItem, create, limited, everFree, changes, pref, applying, lastPut>>
  BY DEF DeleteItem, prefVars
<1>2. UserItemsTypeOK'
  BY <1>1 DEF ItemsPart, UserItemsTypeOK
<1>3. RowsInv'
  BY <1>1 DEF ItemsPart, RowsInv
<1>4. \A n \in Member, j \in Kind : Owned(n, j)' \subseteq Owned(n, j) /\ Pending(n, j)' = Pending(n, j)
  BY <1>1 DEF Owned, Pending
<1>5. LimitOvershootBounded'
  BY <1>1, <1>4, BoundShrinks DEF ItemsPart
<1> QED
  BY <1>2, <1>3, <1>5 DEF ItemsPart

\* Deactivated rows keep everything else.
LEMMA DeleteBrandStep ==
    ASSUME ItemsPart, NEW m \in Member, NEW x \in Item, DeleteBrand(m, x)
    PROVE  ItemsPart'
<1> DEFINE found == Named(m, "brand", x)
           off(i) == [i EXCEPT !.live = FALSE]
<1>1. /\ items' = (items \ found) \cup {off(i) : i \in found}
      /\ UNCHANGED <<lastItem, create, limited, everFree, changes, pref, applying, lastPut>>
  BY DEF DeleteBrand, prefVars
<1>2. \A i \in found : i \in items /\ i.kind = "brand" /\ i \in ItemRow
  BY DEF Named, Owned, ItemsPart, UserItemsTypeOK
<1>3. \A i \in ItemRow : /\ off(i) \in ItemRow /\ off(i).id = i.id /\ off(i).owner = i.owner
                         /\ off(i).kind = i.kind /\ off(i).name = i.name /\ off(i).live = FALSE
  BY DEF ItemRow
<1> HIDE DEF found, off
<1>4. \A i \in items' : \/ i \in items /\ i \notin found
                        \/ \E o \in found : /\ i = off(o) /\ i \in ItemRow /\ i.id = o.id /\ i.kind = "brand"
                                            /\ i.live = FALSE
  BY <1>1, <1>2, <1>3
<1>5. UserItemsTypeOK'
  <2>1. items' \subseteq ItemRow
    BY <1>4 DEF ItemsPart, UserItemsTypeOK
  <2>2. \A i, j \in items' : i.id = j.id => i = j
    BY <1>2, <1>4 DEF ItemsPart, UserItemsTypeOK
  <2>3. \A i \in items' : i.id <= lastItem
    BY <1>2, <1>4 DEF ItemsPart, UserItemsTypeOK
  <2>4. \A i, j \in items' :
           (i.kind = "keyword" /\ j.kind = "keyword" /\ i.owner = j.owner /\ i.name = j.name) => i = j
    BY <1>4 DEF ItemsPart, UserItemsTypeOK
  <2> QED
    BY <1>1, <2>1, <2>2, <2>3, <2>4 DEF ItemsPart, UserItemsTypeOK
<1>6. RowsInv'
  BY <1>1, <1>4 DEF ItemsPart, RowsInv
<1>7. \A n \in Member, j \in Kind : Owned(n, j)' \subseteq Owned(n, j) /\ Pending(n, j)' = Pending(n, j)
  BY <1>1, <1>4 DEF Owned, Pending
<1>8. LimitOvershootBounded'
  BY <1>1, <1>7, BoundShrinks DEF ItemsPart
<1> QED
  BY <1>5, <1>6, <1>8 DEF ItemsPart

LEMMA PlanStep ==
    ASSUME ItemsPart, NEW m \in Member, ChangePlan(m)
    PROVE  ItemsPart'
<1>1. /\ changes < MaxChanges /\ changes' = changes + 1
      /\ limited' = IF m \in limited THEN limited \ {m} ELSE limited \cup {m}
      /\ everFree' = everFree \cup {m}
      /\ UNCHANGED <<items, lastItem, create, pref, applying, lastPut>>
  BY DEF ChangePlan, prefVars
<1>2. changes' \in 0 .. MaxChanges
  BY <1>1, UserItemsAssumption DEF ItemsPart, UserItemsTypeOK
<1>3. UserItemsTypeOK'
  BY <1>1, <1>2 DEF ItemsPart, UserItemsTypeOK
<1>4. RowsInv'
  BY <1>1 DEF ItemsPart, RowsInv
<1>5. \A n \in Member, j \in Kind : Owned(n, j)' = Owned(n, j) /\ Pending(n, j)' = Pending(n, j)
  BY <1>1 DEF Owned, Pending
<1>6. LimitOvershootBounded'
  BY <1>1, <1>5, BoundShrinks DEF ItemsPart
<1> QED
  BY <1>3, <1>4, <1>6 DEF ItemsPart

(***************************************************************************)
(* Personalization.                                                        *)
(***************************************************************************)

LEMMA ApplyFields ==
    ASSUME UserItemsTypeOK, NEW a \in Applier, applying[a] # <<>>
    PROVE  applying[a][1] \in Member /\ applying[a][2] \in Ratio
<1>1. applying[a] \in Member \X Ratio
  BY DEF UserItemsTypeOK
<1> QED
  BY <1>1

LEMMA PutStep ==
    ASSUME PrefPart, NEW m \in Member, NEW q \in Ratio, PutPersonalization(m, q)
    PROVE  PrefPart'
<1> DEFINE race == \E a \in Applier : applying[a] # <<>> /\ applying[a][1] = m
<1>1. /\ pref' = [pref EXCEPT ![m] = [by |-> "put", ratio |-> q]]
      /\ lastPut' = [lastPut EXCEPT ![m] = [ratio |-> q, raced |-> race]]
      /\ UNCHANGED <<items, lastItem, create, limited, everFree, changes, applying>>
  BY DEF PutPersonalization, itemVars
<1>2. UserItemsTypeOK'
  <2>1. lastPut' \in [Member -> [ratio : Ratio, raced : BOOLEAN]]
    <3>1. [ratio |-> q, raced |-> race] \in [ratio : Ratio, raced : BOOLEAN]
      OBVIOUS
    <3> QED
      BY <1>1, <3>1 DEF PrefPart, UserItemsTypeOK
  <2>2. pref' \in [Member -> [by : {"none", "put", "behavior"}, ratio : Ratio]]
    BY <1>1 DEF PrefPart, UserItemsTypeOK
  <2> QED
    BY <1>1, <2>1, <2>2 DEF PrefPart, UserItemsTypeOK
<1>3. /\ \A n \in Member : n # m => pref'[n] = pref[n] /\ lastPut'[n] = lastPut[n]
      /\ pref'[m].ratio = q /\ lastPut'[m].ratio = q /\ (race => lastPut'[m].raced)
  BY <1>1 DEF PrefPart, UserItemsTypeOK
<1>4. PutRatioKept'
  BY <1>3 DEF PrefPart, PutRatioKept
<1>5. ApplyInv'
  <2> SUFFICES ASSUME NEW a \in Applier, applying[a] # <<>>
               PROVE  \/ applying[a][2] = lastPut'[applying[a][1]].ratio
                      \/ lastPut'[applying[a][1]].raced
    BY <1>1 DEF ApplyInv
  <2>1. applying[a][1] \in Member
    BY ApplyFields DEF PrefPart
  <2>2. CASE applying[a][1] = m
    BY <1>3, <2>2
  <2>3. CASE applying[a][1] # m
    BY <1>3, <2>1, <2>3 DEF PrefPart, ApplyInv
  <2> QED
    BY <2>2, <2>3
<1> QED
  BY <1>2, <1>4, <1>5 DEF PrefPart

LEMMA ApplyReadStep ==
    ASSUME PrefPart, NEW a \in Applier, NEW m \in Member, ApplyRead(a, m)
    PROVE  PrefPart'
<1>1. /\ applying' = [applying EXCEPT ![a] = <<m, pref[m].ratio>>]
      /\ UNCHANGED <<items, lastItem, create, limited, everFree, changes, pref, lastPut>>
  BY DEF ApplyRead, itemVars
<1>2. pref[m].ratio \in Ratio
  BY DEF PrefPart, UserItemsTypeOK
<1>3. UserItemsTypeOK'
  BY <1>1, <1>2 DEF PrefPart, UserItemsTypeOK
<1>4. \A b \in Applier : applying'[b] = IF b = a THEN <<m, pref[m].ratio>> ELSE applying[b]
  BY <1>1 DEF PrefPart, UserItemsTypeOK
<1>5. ApplyInv' /\ PutRatioKept'
  BY <1>1, <1>4 DEF PrefPart, ApplyInv, PutRatioKept
<1> QED
  BY <1>3, <1>5 DEF PrefPart

LEMMA ApplyWriteStep ==
    ASSUME PrefPart, NEW a \in Applier, NEW done \in BOOLEAN, ApplyWrite(a, done)
    PROVE  PrefPart'
<1> DEFINE m == applying[a][1]
           q == applying[a][2]
<1>1. /\ applying[a] # <<>> /\ applying' = [applying EXCEPT ![a] = <<>>]
      /\ pref' = IF done THEN [pref EXCEPT ![m] = [by |-> "behavior", ratio |-> q]] ELSE pref
      /\ UNCHANGED <<items, lastItem, create, limited, everFree, changes, lastPut>>
  BY DEF ApplyWrite, itemVars
<1>2. m \in Member /\ q \in Ratio
  BY <1>1, ApplyFields DEF PrefPart
<1>3. q = lastPut[m].ratio \/ lastPut[m].raced
  BY <1>1 DEF PrefPart, ApplyInv
<1> HIDE DEF m, q
<1>4. UserItemsTypeOK'
  BY <1>1, <1>2 DEF PrefPart, UserItemsTypeOK
<1>5. /\ \A b \in Applier : applying'[b] = IF b = a THEN <<>> ELSE applying[b]
      /\ \A n \in Member : pref'[n] = pref[n] \/ (n = m /\ pref'[n].ratio = q)
  BY <1>1, <1>2 DEF PrefPart, UserItemsTypeOK
<1>6. ApplyInv'
  BY <1>1, <1>5 DEF PrefPart, ApplyInv
<1>7. PutRatioKept'
  BY <1>1, <1>3, <1>5 DEF PrefPart, PutRatioKept
<1> QED
  BY <1>4, <1>6, <1>7 DEF PrefPart

(***************************************************************************)
(* The theorems.                                                           *)
(***************************************************************************)

\* Each half of the state leaves the other alone.
LEMMA HalvesApart ==
    /\ ItemsPart' /\ ApplyInv /\ PutRatioKept /\ UNCHANGED prefVars => PrefPart'
    /\ PrefPart' /\ RowsInv /\ LimitOvershootBounded /\ UNCHANGED itemVars => ItemsPart'
<1>1. UNCHANGED prefVars /\ ApplyInv /\ PutRatioKept => ApplyInv' /\ PutRatioKept'
  BY DEF prefVars, ApplyInv, PutRatioKept
<1>2. UNCHANGED itemVars /\ RowsInv => RowsInv'
  BY DEF itemVars, RowsInv
<1>3. UNCHANGED itemVars /\ LimitOvershootBounded => LimitOvershootBounded'
  BY DEF itemVars, LimitOvershootBounded, Owned, Pending
<1> QED
  BY <1>1, <1>2, <1>3 DEF ItemsPart, PrefPart

LEMMA UserItemsInvariance == UserItemsInv /\ [NextUserItems]_userItemsVars => UserItemsInv'
<1> SUFFICES ASSUME UserItemsInv, [NextUserItems]_userItemsVars PROVE UserItemsInv'
  OBVIOUS
<1>1. ASSUME UNCHANGED userItemsVars PROVE UserItemsInv'
  <2>1. UNCHANGED itemVars /\ UNCHANGED prefVars
    BY <1>1 DEF userItemsVars, itemVars, prefVars
  <2>2. UserItemsTypeOK'
    BY <1>1 DEF userItemsVars, UserItemsInv, ItemsPart, UserItemsTypeOK
  <2>3. RowsInv' /\ ApplyInv' /\ PutRatioKept'
    BY <1>1 DEF userItemsVars, UserItemsInv, ItemsPart, PrefPart, RowsInv, ApplyInv, PutRatioKept
  <2>4. LimitOvershootBounded'
    BY <1>1 DEF userItemsVars, UserItemsInv, ItemsPart, LimitOvershootBounded, Owned, Pending
  <2> QED
    BY <2>2, <2>3, <2>4 DEF UserItemsInv, ItemsPart, PrefPart
<1>2. ASSUME ItemsPart', UNCHANGED prefVars PROVE UserItemsInv'
  BY <1>2, HalvesApart DEF UserItemsInv, PrefPart
<1>3. ASSUME PrefPart', UNCHANGED itemVars PROVE UserItemsInv'
  BY <1>3, HalvesApart DEF UserItemsInv, ItemsPart
<1>4. ASSUME NEW c \in Create, CheckDuplicate(c) \/ CreateFails(c) PROVE UserItemsInv'
  BY <1>2, <1>4, CheckStep DEF UserItemsInv, CheckDuplicate, CreateFails
<1>5. ASSUME NEW c \in Create, InsertScrap(c) \/ InsertKeyword(c) \/ InsertBrand(c) PROVE UserItemsInv'
  <2>1. PICK k \in {"scrap", "keyword", "brand"} :
            InsertItem(c, k) /\ (k = "keyword" => Named(create[c].owner, "keyword", create[c].name) = {})
    BY <1>5 DEF InsertScrap, InsertKeyword, InsertBrand
  <2>2. k \in Kind /\ UNCHANGED prefVars
    <3>1. create[c].pc = "insert" /\ create[c].kind = k /\ UNCHANGED prefVars
      BY <2>1 DEF InsertItem
    <3>2. create[c] # NoCreate
      BY <3>1 DEF NoCreate
    <3> QED
      BY <3>1, <3>2, CreateFields DEF UserItemsInv, ItemsPart
  <2>3. ItemsPart'
    BY <2>1, <2>2, InsertRowStep DEF UserItemsInv
  <2> QED
    BY <1>2, <2>2, <2>3
<1>6. ASSUME NEW c \in Create, NEW m \in Member, NEW x \in Item,
             CreateScrap(c, m, x) \/ AddKeyword(c, m, x) \/ CreateBrand(c, m, x)
      PROVE  UserItemsInv'
  <2>1. PICK k \in {"scrap", "keyword", "brand"}, next \in {"check", "insert"} :
            CountItems(c, m, k, x, next)
    BY <1>6 DEF CreateScrap, AddKeyword, CreateBrand
  <2>2. k \in Kind /\ UNCHANGED prefVars
    BY <2>1 DEF CountItems
  <2> QED
    BY <1>2, <2>1, <2>2, CountStep DEF UserItemsInv
<1>7. ASSUME NEW m \in Member, NEW i \in items, DeleteScrap(m, i) \/ RemoveKeyword(m, i)
      PROVE  UserItemsInv'
  BY <1>2, <1>7, DeleteStep DEF UserItemsInv, DeleteScrap, RemoveKeyword, DeleteItem
<1>8. ASSUME NEW m \in Member, NEW x \in Item, DeleteBrand(m, x) PROVE UserItemsInv'
  BY <1>2, <1>8, DeleteBrandStep DEF UserItemsInv, DeleteBrand
<1>9. ASSUME NEW m \in Member, ChangePlan(m) PROVE UserItemsInv'
  BY <1>2, <1>9, PlanStep DEF UserItemsInv, ChangePlan
<1>10. ASSUME NEW m \in Member, NEW q \in Ratio, PutPersonalization(m, q) PROVE UserItemsInv'
  BY <1>3, <1>10, PutStep DEF UserItemsInv, PutPersonalization
<1>11. ASSUME NEW a \in Applier, NEW m \in Member, ApplyRead(a, m) PROVE UserItemsInv'
  BY <1>3, <1>11, ApplyReadStep DEF UserItemsInv, ApplyRead
<1>12. ASSUME NEW a \in Applier, NEW done \in BOOLEAN, ApplyWrite(a, done) PROVE UserItemsInv'
  BY <1>3, <1>12, ApplyWriteStep DEF UserItemsInv, ApplyWrite
<1> QED
  BY <1>1, <1>4, <1>5, <1>6, <1>7, <1>8, <1>9, <1>10, <1>11, <1>12 DEF NextUserItems

\* Parallel creates pass a limit by less than there are of them, for any number of users,
\* requests and items (scraps.py: create_scrap_endpoint, notifications.py: add_keyword,
\* brand.py: create_brand).
THEOREM OvershootBounded == SpecUserItems => []LimitOvershootBounded
<1>1. UserItemsInv => LimitOvershootBounded
  BY DEF UserItemsInv, ItemsPart
<1> QED
  BY <1>1, InitUserItemsInv, UserItemsInvariance, PTL DEF SpecUserItems

\* The ratio a user put stays, unless an apply had read the row before
\* (personalization.py: put_personalization, apply_behavior).
THEOREM RatioKept == SpecUserItems => []PutRatioKept
<1>1. UserItemsInv => PutRatioKept
  BY DEF UserItemsInv, PrefPart
<1> QED
  BY <1>1, InitUserItemsInv, UserItemsInvariance, PTL DEF SpecUserItems

\* The rows of scraps, keywords and brand monitors, what the requests hold between their
\* statements, and the ratios have their types (scraps.py, notifications.py, brand.py,
\* personalization.py).
THEOREM UserItemsTypes == SpecUserItems => []UserItemsTypeOK
<1>1. UserItemsInv => UserItemsTypeOK
  BY DEF UserItemsInv, ItemsPart
<1> QED
  BY <1>1, InitUserItemsInv, UserItemsInvariance, PTL DEF SpecUserItems

===============================================================================
