------------------------------ MODULE Accounts ------------------------------
(***************************************************************************)
(* Accounts and how a visitor comes to hold a token pair for one of them:  *)
(* the /auth routes (backend/api/routers/auth), their tables user_profile  *)
(* and user_identity (backend/db/queries/users.py) and the one-time tokens *)
(* in Redis (backend/auth/token_store.py).                                 *)
(*                                                                         *)
(* No route holds a transaction: every query is a step, and other requests *)
(* run between two of them. A request is one of Actor with the point it    *)
(* has reached and the rows it has read so far. A refused request leaves   *)
(* nothing behind and is not represented, except where it had read a row.  *)
(***************************************************************************)
EXTENDS Naturals, FiniteSets

CONSTANTS
    Actor,         \* requests in progress at once
    Email,         \* e-mail addresses
    Uid,           \* accounts at the OAuth providers
    ProviderOf,    \* [Uid -> {"google", "kakao"}]
    EmailOf,       \* [Uid -> Email], the verified address of each
    Password,      \* passwords
    Secret,        \* TOTP secrets pyotp.random_base32 may return, each once
    None,          \* SQL's NULL, and the row that is not there
    MaxUsers,      \* bound on the rows user_profile ever holds
    MaxTokens,     \* bound on the one-time tokens ever made
    MaxAuthFaults  \* bound on failed queries, cancelled requests and crashes

ASSUME ActorAssumption == IsFiniteSet(Actor)

ASSUME OAuthAssumption ==
    ProviderOf \in [Uid -> {"google", "kakao"}] /\ EmailOf \in [Uid -> Email]

ASSUME AccountBoundsAssumption ==
    MaxUsers \in Nat /\ MaxTokens \in Nat /\ MaxAuthFaults \in Nat

UserId == 1 .. MaxUsers

\* A one-time token in Redis: its prefix, and the value it is stored with.
AuthToken == [id : 1 .. MaxTokens, prefix : {"email_verify", "password_reset"}, user : UserId]

\* A row of user_profile, and that of user_identity with provider = 'email'.
UserRow == [email : Email, active : BOOLEAN, verified : BOOLEAN]

EmailIdentity == [pw : Password, secret : Secret \cup {None}, on : BOOLEAN]

ASSUME NoneAssumption ==
    /\ None \notin Uid \cup Secret
    /\ None \notin UserRow /\ None \notin EmailIdentity

NoRequest == [at |-> "idle"]

VARIABLES
    user,       \* user_profile: [UserId -> row], None where there is none
    created,    \* number of ids given out
    emailId,    \* the e-mail identity of each user, or None
    linked,     \* the OAuth identities of each user, one per provider
    otp,        \* one-time tokens in Redis
    made,       \* number of one-time tokens made
    challenge,  \* 2FA challenge tokens that have not expired
    issued,     \* users given a token pair, and whether they had been active
    req,        \* the requests in progress
    seen,       \* the users active at some moment of each request
    usedSecret, \* secrets generated so far
    proven,     \* secrets for which a right code was given
    halfway,    \* users whose creation failed before their identity was stored
    authFaults  \* number of failures

accountVars == <<user, created, emailId, linked, otp, made, challenge, issued,
                 req, seen, usedSecret, proven, halfway, authFaults>>

rows == <<user, created, emailId, linked>>
tokens == <<otp, made, challenge, issued>>
twofa == <<usedSecret, proven>>
failures == <<halfway, authFaults>>

InitAccounts ==
    /\ user = [u \in UserId |-> None] /\ created = 0
    /\ emailId = [u \in UserId |-> None]
    /\ linked = [u \in UserId |-> {}]
    /\ otp = {} /\ made = 0 /\ challenge = {} /\ issued = {}
    /\ req = [a \in Actor |-> NoRequest] /\ seen = [a \in Actor |-> {}]
    /\ usedSecret = {} /\ proven = {} /\ halfway = {} /\ authFaults = 0

(***************************************************************************)
(* Reading the tables.                                                     *)
(***************************************************************************)

Exists(u) == user[u] # None

ByEmail(e) == {u \in UserId : Exists(u) /\ user[u].email = e}

ByUid(x) == {u \in UserId : x \in linked[u]}

ActiveIn(table) == {u \in UserId : table[u] # None /\ table[u].active}

(***************************************************************************)
(* A request begins, goes on or ends; seen collects who was active.        *)
(***************************************************************************)

Begin(a, r) ==
    /\ req[a] = NoRequest
    /\ req' = [req EXCEPT ![a] = r]
    /\ seen' = [seen EXCEPT ![a] = ActiveIn(user)]

Continue(a, r) == req' = [req EXCEPT ![a] = r] /\ UNCHANGED seen

End(a) ==
    /\ req' = [req EXCEPT ![a] = NoRequest]
    /\ seen' = [seen EXCEPT ![a] = {}]

\* Somebody's is_active changed: the requests in progress have now seen it.
Observe(table) ==
    seen' = [a \in Actor |-> IF req[a] = NoRequest THEN {} ELSE seen[a] \cup ActiveIn(table)]

\* create_access_token and create_refresh_token for u, good if u was active.
Issue(u, good) == issued' = issued \cup {[user |-> u, good |-> good]}

\* Whoever holds an access token, whatever became of the account since.
Holder == {i.user : i \in issued}

(***************************************************************************)
(* POST /register, and the two inserts it shares with the OAuth callbacks. *)
(***************************************************************************)

Register(a) ==
    \E e \in Email, p \in Password :
        /\ ByEmail(e) = {}
        /\ Begin(a, [at |-> "create", email |-> e, pw |-> p, uid |-> None])
        /\ UNCHANGED <<rows, tokens, twofa, failures>>

\* create_user: email is UNIQUE, a second insert of the address raises.
CreateUser(a) ==
    /\ req[a].at = "create"
    /\ LET r == req[a]
           u == created + 1
       IN IF ByEmail(r.email) = {}
          THEN /\ created < MaxUsers
               /\ user' = [user EXCEPT ![u] = [email |-> r.email, active |-> TRUE, verified |-> FALSE]]
               /\ created' = u
               /\ req' = [req EXCEPT ![a] = [at |-> "identity", user |-> u, new |-> TRUE,
                                             active |-> TRUE, pw |-> r.pw, uid |-> r.uid]]
               /\ Observe(user')
          ELSE End(a) /\ UNCHANGED <<user, created>>
    /\ UNCHANGED <<emailId, linked, tokens, twofa, failures>>

\* Had it looked again whether the account is active before it gives it a login.
CreateActiveIdentity(a) ==
    /\ req[a].at = "identity"
    /\ LET r == req[a]
           u == r.user
       IN IF Exists(u) /\ user[u].active
          THEN /\ IF r.uid = None
                  THEN /\ emailId' = [emailId EXCEPT ![u] =
                                        IF @ = None THEN [pw |-> r.pw, secret |-> None, on |-> FALSE] ELSE @]
                       /\ UNCHANGED linked
                  ELSE linked' = [linked EXCEPT ![u] = @ \cup {r.uid}] /\ UNCHANGED emailId
               /\ Issue(u, u \in seen[a])
          ELSE UNCHANGED <<emailId, linked, issued>>
    /\ End(a)
    /\ UNCHANGED <<user, created, otp, made, challenge, twofa, failures>>

\* create_identity: ON CONFLICT (user_id, provider) DO NOTHING, and the foreign key
\* refuses a user deleted meanwhile. Then the answer, for an active account.
CreateIdentity(a) ==
    /\ req[a].at = "identity"
    /\ LET r == req[a]
           u == r.user
       IN IF Exists(u)
          THEN /\ IF r.uid = None
                  THEN /\ emailId' = [emailId EXCEPT ![u] =
                                        IF @ = None
                                        THEN [pw |-> r.pw, secret |-> None, on |-> FALSE]
                                        ELSE @]
                       /\ UNCHANGED linked
                  ELSE /\ linked' = [linked EXCEPT ![u] =
                                       IF \E x \in @ : ProviderOf[x] = ProviderOf[r.uid]
                                       THEN @ ELSE @ \cup {r.uid}]
                       /\ UNCHANGED emailId
               /\ IF r.active THEN Issue(u, u \in seen[a]) ELSE UNCHANGED issued
          ELSE UNCHANGED <<emailId, linked, issued>>
    /\ End(a)
    /\ UNCHANGED <<user, created, otp, made, challenge, twofa, failures>>

(***************************************************************************)
(* The OAuth routes of both providers, by redirect and by POST, which      *)
(* differ in how they answer. The provider has confirmed who signs in.     *)
(***************************************************************************)

\* exchange_code and fetch_userinfo.
GoogleAccount == {x \in Uid : ProviderOf[x] = "google"}

\* exchange_kakao_code and fetch_kakao_userinfo.
KakaoAccount == {x \in Uid : ProviderOf[x] = "kakao"}

OAuthLogin(a, x) ==
    /\ IF ByUid(x) # {}
       THEN \E u \in ByUid(x) : Begin(a, [at |-> "byid", user |-> u])
       ELSE Begin(a, [at |-> "byemail", uid |-> x])
    /\ UNCHANGED <<rows, tokens, twofa, failures>>

OAuthGoogleCallback(a) == \E x \in GoogleAccount : OAuthLogin(a, x)

OAuthGoogle(a) == \E x \in GoogleAccount : OAuthLogin(a, x)

OAuthKakaoCallback(a) == \E x \in KakaoAccount : OAuthLogin(a, x)

OAuthKakao(a) == \E x \in KakaoAccount : OAuthLogin(a, x)

\* Without the check of is_active.
OAuthAnyById(a) ==
    /\ req[a].at = "byid"
    /\ LET u == req[a].user
       IN IF Exists(u) THEN Issue(u, u \in seen[a]) ELSE UNCHANGED issued
    /\ End(a)
    /\ UNCHANGED <<rows, otp, made, challenge, twofa, failures>>

\* A deleted account is None, whose ["is_active"] raises: the login fails.
OAuthById(a) ==
    /\ req[a].at = "byid"
    /\ LET u == req[a].user
       IN IF Exists(u) /\ user[u].active
          THEN Issue(u, u \in seen[a]) ELSE UNCHANGED issued
    /\ End(a)
    /\ UNCHANGED <<rows, otp, made, challenge, twofa, failures>>

OAuthByEmail(a) ==
    /\ req[a].at = "byemail"
    /\ LET x == req[a].uid
           found == ByEmail(EmailOf[x])
       IN IF found = {}
          THEN Continue(a, [at |-> "create", email |-> EmailOf[x], pw |-> None, uid |-> x])
          ELSE \E u \in found :
                 Continue(a, [at |-> "identity", user |-> u, new |-> FALSE,
                              active |-> user[u].active, pw |-> None, uid |-> x])
    /\ UNCHANGED <<rows, tokens, twofa, failures>>

(***************************************************************************)
(* POST /login, /2fa/login and /refresh.                                   *)
(***************************************************************************)

Login(a) ==
    \E e \in Email, p \in Password :
        \E u \in ByEmail(e) :
            /\ Begin(a, [at |-> "password", user |-> u, active |-> user[u].active, pw |-> p])
            /\ UNCHANGED <<rows, tokens, twofa, failures>>

CheckPassword(a) ==
    /\ req[a].at = "password"
    /\ LET r == req[a]
           u == r.user
           right == emailId[u] # None /\ emailId[u].pw = r.pw /\ r.active
       IN \/ /\ right /\ emailId[u].on
             /\ challenge' = challenge \cup {[user |-> u, good |-> u \in seen[a]]}
             /\ UNCHANGED issued
          \/ /\ right /\ ~emailId[u].on
             /\ Issue(u, u \in seen[a])
             /\ UNCHANGED challenge
          \/ ~right /\ UNCHANGED <<challenge, issued>>
    /\ End(a)
    /\ UNCHANGED <<rows, otp, made, twofa, failures>>

SecondFactor(a) ==
    \E c \in challenge :
        /\ Exists(c.user)
        /\ Begin(a, [at |-> "code", user |-> c.user, good |-> c.good])
        /\ UNCHANGED <<rows, tokens, twofa, failures>>

\* The stored secret counts, enabled or not; the code the user sends is right.
CheckCode(a) ==
    /\ req[a].at = "code"
    /\ LET u == req[a].user
       IN IF emailId[u] # None /\ emailId[u].secret # None
          THEN Issue(u, req[a].good) ELSE UNCHANGED issued
    /\ End(a)
    /\ UNCHANGED <<rows, otp, made, challenge, twofa, failures>>

\* _2FA_CHALLENGE_TTL_MINUTES have gone by.
ExpireChallenge ==
    \E c \in challenge :
        /\ challenge' = challenge \ {c}
        /\ UNCHANGED <<rows, otp, made, issued, req, seen, twofa, failures>>

\* One query, then the answer: a single step.
Refresh(u) ==
    /\ u \in Holder /\ Exists(u) /\ user[u].active
    /\ Issue(u, TRUE)
    /\ UNCHANGED <<rows, otp, made, challenge, req, seen, twofa, failures>>

(***************************************************************************)
(* /2fa/enable, /2fa/verify and /2fa/disable.                              *)
(***************************************************************************)

Enable2FA(a) ==
    \E u \in Holder :
        /\ Exists(u)
        /\ Begin(a, [at |-> "secret", user |-> u])
        /\ UNCHANGED <<rows, tokens, twofa, failures>>

\* update_2fa: a user without an e-mail identity has no row to update.
Update2FA(u, s, on) ==
    emailId' = [emailId EXCEPT ![u] = IF @ = None THEN @ ELSE [@ EXCEPT !.secret = s, !.on = on]]

SaveSecret(a) ==
    /\ req[a].at = "secret"
    /\ \E s \in Secret \ usedSecret :
         /\ Update2FA(req[a].user, s, FALSE)
         /\ usedSecret' = usedSecret \cup {s}
    /\ End(a)
    /\ UNCHANGED <<user, created, linked, tokens, proven, failures>>

\* The identity is read and the code checked against the secret in it.
Verify2FA(a) ==
    \E u \in Holder :
        /\ emailId[u] # None /\ emailId[u].secret # None
        /\ Begin(a, [at |-> "activate", user |-> u, secret |-> emailId[u].secret])
        /\ proven' = proven \cup {emailId[u].secret}
        /\ UNCHANGED <<rows, tokens, usedSecret, failures>>

\* Had it set the flag alone, over whichever secret is stored by then.
ActivateStored(a) ==
    /\ req[a].at = "activate"
    /\ emailId' = [emailId EXCEPT ![req[a].user] = IF @ = None THEN @ ELSE [@ EXCEPT !.on = TRUE]]
    /\ End(a)
    /\ UNCHANGED <<user, created, linked, tokens, twofa, failures>>

Activate2FA(a) ==
    /\ req[a].at = "activate"
    /\ Update2FA(req[a].user, req[a].secret, TRUE)
    /\ End(a)
    /\ UNCHANGED <<user, created, linked, tokens, twofa, failures>>

Disable2FA(u) ==
    /\ u \in Holder
    /\ Update2FA(u, None, FALSE)
    /\ UNCHANGED <<user, created, linked, tokens, req, seen, twofa, failures>>

(***************************************************************************)
(* One-time tokens: /verify/send and /verify, /password/forgot and /reset. *)
(***************************************************************************)

\* save_auth_token: SETEX of a key nobody can guess.
SaveToken(prefix, u) ==
    /\ made < MaxTokens
    /\ made' = made + 1
    /\ otp' = otp \cup {[id |-> made + 1, prefix |-> prefix, user |-> u]}

VerifySend(u) ==
    /\ u \in Holder
    /\ SaveToken("email_verify", u)
    /\ UNCHANGED <<rows, challenge, issued, req, seen, twofa, failures>>

Forgot(a) ==
    \E e \in Email :
        \E u \in ByEmail(e) :
            /\ Begin(a, [at |-> "save", user |-> u])
            /\ UNCHANGED <<rows, tokens, twofa, failures>>

SaveResetToken(a) ==
    /\ req[a].at = "save"
    /\ SaveToken("password_reset", req[a].user)
    /\ End(a)
    /\ UNCHANGED <<rows, challenge, issued, twofa, failures>>

\* get_auth_token finds the token.
GetToken(prefix) == {t \in otp : t.prefix = prefix}

\* verify_email and reset_password, with the new password, up to their first write.
VerifyEmail(a) ==
    \E t \in GetToken("email_verify") :
        /\ Begin(a, [at |-> "verify", token |-> t])
        /\ UNCHANGED <<rows, tokens, twofa, failures>>

ResetPassword(a) ==
    \E t \in GetToken("password_reset"), p \in Password :
        /\ Begin(a, [at |-> "apply", token |-> t, pw |-> p])
        /\ UNCHANGED <<rows, tokens, twofa, failures>>

\* update_user: there may be no such user any more.
SetVerified(a) ==
    /\ req[a].at = "verify"
    /\ LET t == req[a].token
       IN user' = [user EXCEPT ![t.user] = IF @ = None THEN @ ELSE [@ EXCEPT !.verified = TRUE]]
    /\ Continue(a, [at |-> "drop", token |-> req[a].token])
    /\ UNCHANGED <<created, emailId, linked, tokens, twofa, failures>>

\* update_password_hash: a user without an e-mail identity has no row to update.
UpdatePassword(a) ==
    /\ req[a].at = "apply"
    /\ LET t == req[a].token
       IN emailId' = [emailId EXCEPT ![t.user] =
                        IF @ = None THEN @ ELSE [@ EXCEPT !.pw = req[a].pw]]
    /\ Continue(a, [at |-> "drop", token |-> req[a].token])
    /\ UNCHANGED <<user, created, linked, tokens, twofa, failures>>

\* delete_auth_token, the audit record and the answer.
DropToken(a) ==
    /\ req[a].at = "drop"
    /\ otp' = otp \ {req[a].token}
    /\ End(a)
    /\ UNCHANGED <<rows, made, challenge, issued, twofa, failures>>

\* The TTL of the Redis key has gone by.
ExpireToken ==
    \E t \in otp :
        /\ otp' = otp \ {t}
        /\ UNCHANGED <<rows, made, challenge, issued, req, seen, twofa, failures>>

(***************************************************************************)
(* The admin's PATCH and DELETE of a user; the foreign keys cascade.       *)
(***************************************************************************)

SetActive(u, on) ==
    /\ Exists(u) /\ user[u].active # on
    /\ user' = [user EXCEPT ![u].active = on]
    /\ Observe(user')
    /\ UNCHANGED <<created, emailId, linked, tokens, req, twofa, failures>>

DeleteUser(u) ==
    /\ Exists(u)
    /\ user' = [user EXCEPT ![u] = None]
    /\ emailId' = [emailId EXCEPT ![u] = None]
    /\ linked' = [linked EXCEPT ![u] = {}]
    /\ UNCHANGED <<created, tokens, req, seen, twofa, failures>>

\* A query raises, the client is gone or the process dies: the request ends where
\* it is, and what it has written stays.
Fail(a) ==
    /\ req[a] # NoRequest
    /\ authFaults < MaxAuthFaults
    /\ authFaults' = authFaults + 1
    /\ halfway' = IF req[a].at = "identity" /\ req[a].new
                  THEN halfway \cup {req[a].user} ELSE halfway
    /\ End(a)
    /\ UNCHANGED <<rows, tokens, twofa>>

NextAccounts ==
    \/ \E a \in Actor :
          \/ Register(a) \/ CreateUser(a) \/ CreateIdentity(a)
          \/ OAuthGoogleCallback(a) \/ OAuthGoogle(a) \/ OAuthKakaoCallback(a) \/ OAuthKakao(a)
          \/ OAuthById(a) \/ OAuthByEmail(a)
          \/ Login(a) \/ CheckPassword(a) \/ SecondFactor(a) \/ CheckCode(a)
          \/ Enable2FA(a) \/ SaveSecret(a) \/ Verify2FA(a) \/ Activate2FA(a)
          \/ Forgot(a) \/ SaveResetToken(a) \/ VerifyEmail(a) \/ ResetPassword(a)
          \/ SetVerified(a) \/ UpdatePassword(a) \/ DropToken(a)
          \/ Fail(a)
    \/ \E u \in UserId :
          \/ Refresh(u) \/ VerifySend(u) \/ Disable2FA(u) \/ DeleteUser(u)
          \/ SetActive(u, TRUE) \/ SetActive(u, FALSE)
    \/ ExpireChallenge \/ ExpireToken

SpecAccounts == InitAccounts /\ [][NextAccounts]_accountVars

(***************************************************************************)
(* Properties.                                                             *)
(***************************************************************************)

Request ==
    {NoRequest}
    \cup [at : {"create"}, email : Email, pw : Password \cup {None}, uid : Uid \cup {None}]
    \cup [at : {"identity"}, user : UserId, new : BOOLEAN, active : BOOLEAN,
          pw : Password \cup {None}, uid : Uid \cup {None}]
    \cup [at : {"byid", "secret", "save"}, user : UserId]
    \cup [at : {"byemail"}, uid : Uid]
    \cup [at : {"password"}, user : UserId, active : BOOLEAN, pw : Password]
    \cup [at : {"code"}, user : UserId, good : BOOLEAN]
    \cup [at : {"activate"}, user : UserId, secret : Secret]
    \cup [at : {"apply"}, token : AuthToken, pw : Password]
    \cup [at : {"verify", "drop"}, token : AuthToken]

\* The tables, the tokens and the points a request can be at.
AccountsTypeOK ==
    /\ user \in [UserId -> UserRow \cup {None}] /\ created \in 0 .. MaxUsers
    /\ emailId \in [UserId -> EmailIdentity \cup {None}]
    /\ linked \in [UserId -> SUBSET Uid]
    /\ otp \subseteq AuthToken /\ made \in 0 .. MaxTokens
    /\ challenge \subseteq [user : UserId, good : BOOLEAN]
    /\ issued \subseteq [user : UserId, good : BOOLEAN]
    /\ req \in [Actor -> Request] /\ seen \in [Actor -> SUBSET UserId]
    /\ usedSecret \subseteq Secret /\ proven \subseteq Secret
    /\ halfway \subseteq UserId /\ authFaults \in 0 .. MaxAuthFaults

\* Second factor: when two_fa_enabled is set, the secret in the row is one for which
\* a right code was given, however /2fa/enable, /verify and /disable interleave: it
\* holds because verify_2fa writes back the secret it checked, not the flag alone.
EnabledSecretProven ==
    \A u \in UserId : emailId[u] # None => (emailId[u].on => emailId[u].secret \in proven)

\* An account nobody can log in to, with neither a password nor an OAuth identity,
\* is one that a request is still creating or that a failure between the two
\* inserts left behind (register answers 409 for its address from then on).
LoginlessOnlyHalfway ==
    \A u \in UserId :
        Exists(u) /\ emailId[u] = None /\ linked[u] = {} =>
            \/ u \in halfway
            \/ \E a \in Actor : req[a].at = "identity" /\ req[a].new /\ req[a].user = u

\* A token pair is given only for an account that was active at some moment of the
\* request, or, for /2fa/login, of the login that made the challenge: a request that
\* began after the deactivation gets none.
IssuedOnlyIfActive == \A i \in issued : i.good

=============================================================================
