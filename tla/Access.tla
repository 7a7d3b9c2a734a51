------------------------------- MODULE Access -------------------------------
(***************************************************************************)
(* Who gets in: sign-in with its throttle and second factor (auth/), the   *)
(* life of a session (auth/session_timeout.rs), API tokens and their rate  *)
(* limit (api/mod.rs), the administrators (handlers/admin.rs) and the      *)
(* members of a ledger (handlers/sharing.rs).                              *)
(***************************************************************************)
EXTENDS Requests, FiniteSetsExt

CONSTANTS
    User,           \* the users an administrator sees
    FirstAdmins,    \* the administrators at the start
    Account,        \* the users who sign in
    Invitee,        \* the users whom the owner of a ledger invites
    Limit,          \* ACCOUNT_FAILURE_THRESHOLD; calls per window of a token
    Window,         \* its window, in ticks
    PerSecond,      \* ticks per second
    Idle,           \* idle window of a session
    Absolute,       \* absolute window of a session
    MaxTime,        \* bound: the last tick
    RecoveryCode,   \* the codes of one batch
    MaxPassword,    \* bound: password changes
    ApiToken,
    MaxTracked      \* MAX_TRACKED_TOKENS

ASSUME AccessAssumption ==
    /\ IsFiniteSet(Req) /\ FirstAdmins \subseteq User /\ FirstAdmins # {}
    /\ {Limit, Window, PerSecond} \subseteq Nat \ {0}
    /\ {Idle, Absolute, MaxTime} \subseteq Nat

Time == 0..MaxTime

VARIABLES
    now,
    fails,          \* login_attempts: the rows of failures, per user
    totp,           \* user_totp: last_used_counter, -1 for not enrolled
    codes,          \* recovery_codes that are not consumed
    usedSteps,      \* history: TOTP steps that signed the user in
    stepTwice,      \* history: users whom a TOTP step let in twice
    codeTwice,      \* history: users whom a recovery code let in twice
    spent,          \* history: recovery codes of the batch that let someone in
    password,       \* version of the password hash
    session,        \* one session of each user: [hash, created, seen]
    visited,        \* history: time of the last request served
    begun,          \* history: time of the last sign-in
    token,          \* api_tokens: "active", "revoked"
    hits,           \* the limiter's STATE: times of accepted calls
    accepted,       \* history: accepted calls since the table was last dropped
    role, active,   \* users.role, users.is_active
    ghosted,        \* history: a suspended admin acted
    member,         \* ledger_members: role or "none"
    invitation,     \* ledger_invitations: [status, role]
    removed,        \* history: users removed since their last invitation
    unfinished      \* history: users whose acceptance was cut off

loginVars == <<fails, totp, codes, usedSteps, stepTwice, codeTwice, spent>>
sessionVars == <<password, session, visited, begun>>
tokenVars == <<token, hits, accepted>>
adminVars == <<role, active, ghosted>>
shareVars == <<member, invitation, removed, unfinished>>
accessVars == <<now, loginVars, sessionVars, tokenVars, adminVars, shareVars>>

InitAccess ==
    /\ now = 0
    /\ fails = [u \in Account |-> {}]
    /\ totp = [u \in Account |-> -1]
    /\ codes = [u \in Account |-> {}]
    /\ usedSteps = [u \in Account |-> {}]
    /\ stepTwice = {}
    /\ codeTwice = {}
    /\ spent = [u \in Account |-> {}]
    /\ password = [u \in Account |-> 0]
    /\ session = [u \in Account |-> [hash |-> -1]]
    /\ visited = [u \in Account |-> 0]
    /\ begun = [u \in Account |-> 0]
    /\ token = [k \in ApiToken |-> "active"]
    /\ hits = [k \in {} |-> {}]
    /\ accepted = [k \in ApiToken |-> {}]
    /\ role = [u \in User |-> IF u \in FirstAdmins THEN "admin" ELSE "user"]
    /\ active = [u \in User |-> TRUE]
    /\ ghosted = FALSE
    /\ member = [u \in Invitee |-> "none"]
    /\ invitation = [u \in Invitee |-> [status |-> "none", role |-> "none"]]
    /\ removed = {}
    /\ unfinished = {}

Tick ==
    /\ now < MaxTime
    /\ now' = now + 1
    /\ UNCHANGED <<reqVars, loginVars, sessionVars, tokenVars, adminVars, shareVars>>

-----------------------------------------------------------------------------
(* Sign-in. *)
(* A row with a time stamp; ids tell rows of the same time apart. *)
Stamped(rows, at) == [at |-> at, id |-> Cardinality({x \in rows : x.at = at}) + 1]

FailuresIn(u, at) == Cardinality({x \in fails[u] : x.at > at - Window})

(* Fault: the threshold itself is still allowed. *)
ThrottledLate(u, at) == FailuresIn(u, at) > Limit

(* check_account *)
Throttled(u, at) == FailuresIn(u, at) >= Limit

(* retry_after_account, in whole seconds; the header says at least 1. *)
RetryAfter(u) ==
    LET inWindow == {x.at : x \in {y \in fails[u] : y.at > now - Window}}
    IN  IF inWindow = {} THEN 0
        ELSE Max({0, (Min(inWindow) + Window - now) \div PerSecond})

LoginSubmit(r, u) ==
    /\ IF Throttled(u, now) THEN Serve(r, u)
       ELSE Begin(r, "login_verify", [on |-> u, at |-> now])
    /\ UNCHANGED accessVars

(* authenticate says no: record_attempt, with the time the request began. *)
LoginFail(r) ==
    /\ pc[r] = "login_verify"
    /\ fails' = [fails EXCEPT ![loc[r].on] = @ \cup {Stamped(@, loc[r].at)}]
    /\ End(r)
    /\ UNCHANGED <<now, totp, codes, usedSteps, stepTwice, codeTwice, spent,
                   sessionVars, tokenVars, adminVars, shareVars>>

(* The password is right: record_success forgets the failures, unless the  *)
(* second factor comes first.                                              *)
LoginPass(r) ==
    /\ pc[r] = "login_verify"
    /\ LET u == loc[r].on
       IN  IF totp[u] # -1
           THEN Goto(r, "login_2fa", [on |-> u]) /\ UNCHANGED fails
           ELSE /\ fails' = [fails EXCEPT ![u] = {x \in @ : x.at <= loc[r].at - Window}]
                /\ End(r)
    /\ UNCHANGED <<now, totp, codes, usedSteps, stepTwice, codeTwice, spent,
                   sessionVars, tokenVars, adminVars, shareVars>>

(* verify_code: within one step of now, and later than the last one. *)
CodeMatches(counter, step) == step \in (now - 1)..(now + 1) /\ step > counter

(* login_2fa_submit with a TOTP code: fetch_state and verify_code ... *)
TotpVerify(r, step) ==
    /\ pc[r] = "login_2fa"
    /\ LET u == loc[r].on
       IN  IF totp[u] # -1 /\ CodeMatches(totp[u], step)
           THEN Goto(r, "totp_advance", [on |-> u, counter |-> totp[u], step |-> step])
           ELSE End(r)
    /\ UNCHANGED accessVars

(* ... then advance_counter, whose answer is not looked at, and the        *)
(* session.                                                                *)
TotpAdvance(r) ==
    /\ pc[r] = "totp_advance"
    /\ LET u == loc[r].on
           step == loc[r].step
       IN  /\ totp' = IF totp[u] = loc[r].counter THEN [totp EXCEPT ![u] = step] ELSE totp
           /\ usedSteps' = [usedSteps EXCEPT ![u] = @ \cup {step}]
           /\ stepTwice' = IF step \in usedSteps[u] THEN stepTwice \cup {u} ELSE stepTwice
    /\ End(r)
    /\ UNCHANGED <<now, fails, codes, codeTwice, spent, sessionVars, tokenVars, adminVars,
                   shareVars>>

CodesLocked(u) ==
    UNION {loc[r].held : r \in {q \in Req : pc[q] = "recovery" /\ loc[q].on = u}}

(* consume_recovery_code: SELECT ... FOR UPDATE SKIP LOCKED of every       *)
(* unused code ...                                                         *)
RecoveryLock(r, c) ==
    /\ pc[r] = "login_2fa"
    /\ Goto(r, "recovery", [on |-> loc[r].on, code |-> c,
                            held |-> codes[loc[r].on] \ CodesLocked(loc[r].on)])
    /\ UNCHANGED accessVars

(* ... and the UPDATE of the one that matches, at the commit. *)
RecoveryConsume(r) ==
    /\ pc[r] = "recovery"
    /\ LET u == loc[r].on
           c == loc[r].code
       IN  IF c \in loc[r].held
           THEN /\ codes' = [codes EXCEPT ![u] = @ \ {c}]
                /\ spent' = [spent EXCEPT ![u] = @ \cup {c}]
                /\ codeTwice' = IF c \in spent[u] THEN codeTwice \cup {u} ELSE codeTwice
           ELSE UNCHANGED <<codes, spent, codeTwice>>
    /\ End(r)
    /\ UNCHANGED <<now, fails, totp, usedSteps, stepTwice, sessionVars, tokenVars, adminVars,
                   shareVars>>

(* enroll_submit: the secret, then a fresh batch of codes, two statements. *)
Enroll(r, u) ==
    /\ totp' = [totp EXCEPT ![u] = 0]
    /\ usedSteps' = [usedSteps EXCEPT ![u] = {}]
    /\ Begin(r, "enroll_codes", [on |-> u])
    /\ UNCHANGED <<now, fails, codes, stepTwice, codeTwice, spent, sessionVars, tokenVars,
                   adminVars, shareVars>>

(* regenerate_recovery_codes: its DELETE waits for locked rows. *)
RegenerateRecoveryCodes(u) ==
    /\ CodesLocked(u) = {}
    /\ codes' = [codes EXCEPT ![u] = RecoveryCode]
    /\ spent' = [spent EXCEPT ![u] = {}]
    /\ UNCHANGED <<now, fails, totp, usedSteps, stepTwice, codeTwice, sessionVars, tokenVars,
                   adminVars, shareVars>>

EnrollCodes(r) == pc[r] = "enroll_codes" /\ RegenerateRecoveryCodes(loc[r].on) /\ End(r)

(* regen_codes_submit, with a valid code. *)
RegenCodes(r, u) ==
    totp[u] # -1 /\ RegenerateRecoveryCodes(u) /\ Serve(r, u)

(* disable *)
TotpDisable(r, u) ==
    /\ totp[u] # -1 /\ CodesLocked(u) = {}
    /\ totp' = [totp EXCEPT ![u] = -1]
    /\ codes' = [codes EXCEPT ![u] = {}]
    /\ Serve(r, u)
    /\ UNCHANGED <<now, fails, usedSteps, stepTwice, codeTwice, spent, sessionVars, tokenVars,
                   adminVars, shareVars>>

(* prune_login_attempts: rows far older than the window. *)
PruneAttempts ==
    /\ fails' = [u \in Account |-> {x \in fails[u] : x.at > now - Window}]
    /\ UNCHANGED <<now, reqVars, totp, codes, usedSteps, stepTwice, codeTwice, spent,
                   sessionVars, tokenVars, adminVars, shareVars>>

(* A request is cut off; an acceptance perhaps after the membership and    *)
(* before the invitation is marked.                                        *)
AccessCutOff(r) ==
    /\ CutOff(r)
    /\ unfinished' = IF pc[r] = "accept_status" THEN unfinished \cup {loc[r].on} ELSE unfinished
    /\ UNCHANGED <<now, loginVars, sessionVars, tokenVars, adminVars, member, invitation,
                   removed>>

LoginNext ==
    \/ Tick \/ PruneAttempts
    \/ \E r \in Req :
          \/ LoginFail(r) \/ LoginPass(r) \/ AccessCutOff(r)
          \/ \E u \in Account : LoginSubmit(r, u)

SecondFactorNext ==
    \/ Tick
    \/ \E r \in Req :
          \/ LoginPass(r) \/ TotpAdvance(r) \/ RecoveryConsume(r) \/ EnrollCodes(r)
          \/ AccessCutOff(r)
          \/ \E step \in Time : TotpVerify(r, step)
          \/ \E c \in RecoveryCode : RecoveryLock(r, c)
          \/ \E u \in Account : \/ LoginSubmit(r, u) \/ Enroll(r, u)
                             \/ RegenCodes(r, u) \/ TotpDisable(r, u)

-----------------------------------------------------------------------------
(* Sessions. *)
NoSession == [hash |-> -1]

(* mark_authenticated and auth.login; the session keeps the password hash. *)
SignIn(u) ==
    /\ session[u] = NoSession
    /\ session' = [session EXCEPT ![u] =
                     [hash |-> password[u], created |-> now, seen |-> now]]
    /\ visited' = [visited EXCEPT ![u] = now]
    /\ begun' = [begun EXCEPT ![u] = now]
    /\ UNCHANGED <<now, reqVars, password, loginVars, tokenVars, adminVars, shareVars>>

Expired(s) == now - s.seen > Idle \/ now - s.created > Absolute

(* Refresh when half the idle window has gone by; integer division. *)
Stale(s) == now - s.seen >= Idle \div 2

(* enforce_timeout, then axum-login compares session_auth_hash. *)
SessionValid(u) ==
    /\ session[u] # NoSession /\ ~Expired(session[u])
    /\ session[u].hash = password[u]

(* Fault: a refresh stamps the session as mark_authenticated does. *)
VisitRenews(u) ==
    /\ session[u] # NoSession
    /\ IF SessionValid(u)
       THEN /\ session' = IF Stale(session[u])
                          THEN [session EXCEPT ![u].seen = now, ![u].created = now] ELSE session
            /\ visited' = [visited EXCEPT ![u] = now]
       ELSE session' = [session EXCEPT ![u] = NoSession] /\ UNCHANGED visited
    /\ UNCHANGED <<now, reqVars, password, begun, loginVars, tokenVars, adminVars, shareVars>>

(* A request with the cookie of u: served, or the session is flushed. *)
Visit(u) ==
    /\ session[u] # NoSession
    /\ IF SessionValid(u)
       THEN /\ session' = IF Stale(session[u]) THEN [session EXCEPT ![u].seen = now] ELSE session
            /\ visited' = [visited EXCEPT ![u] = now]
       ELSE session' = [session EXCEPT ![u] = NoSession] /\ UNCHANGED visited
    /\ UNCHANGED <<now, reqVars, password, begun, loginVars, tokenVars, adminVars, shareVars>>

Logout(u) ==
    /\ session' = [session EXCEPT ![u] = NoSession]
    /\ UNCHANGED <<now, reqVars, password, visited, begun, loginVars, tokenVars, adminVars,
                   shareVars>>

(* change_password, by a request with a valid session. *)
ChangePassword(u) ==
    /\ SessionValid(u) /\ password[u] < MaxPassword
    /\ password' = [password EXCEPT ![u] = @ + 1]
    /\ UNCHANGED <<now, reqVars, session, visited, begun, loginVars, tokenVars, adminVars,
                   shareVars>>

SessionNext ==
    \/ Tick
    \/ \E u \in Account : SignIn(u) \/ Visit(u) \/ Logout(u) \/ ChangePassword(u)

-----------------------------------------------------------------------------
(* API tokens. *)
Recent(rows) == {x \in rows : now - x.at < Window}
Hit(k) == IF k \in DOMAIN hits THEN hits[k] ELSE {}

WithinRate(k) == Cardinality(Recent(Hit(k))) < Limit

(* require_bearer: verify_token, then rate_limit::check.  A token the full *)
(* table does not know drops the table.                                    *)
ApiRequest(k) ==
    /\ token[k] = "active"
    /\ LET full == k \notin DOMAIN hits /\ Cardinality(DOMAIN hits) >= MaxTracked
           known == IF full THEN {k} ELSE DOMAIN hits \cup {k}
           kept(j) == IF full THEN {} ELSE Hit(j)
           past(j) == IF full THEN {} ELSE accepted[j]
           call == Stamped(kept(k), now)
       IN  /\ WithinRate(k)
           /\ hits' = [j \in known |-> IF j = k THEN Recent(kept(k)) \cup {call} ELSE kept(j)]
           /\ accepted' = [j \in ApiToken |-> IF j = k THEN past(k) \cup {call} ELSE past(j)]
    /\ UNCHANGED <<now, reqVars, token, loginVars, sessionVars, adminVars, shareVars>>

(* The server restarts: the limiter's table is in memory. *)
Restart ==
    /\ hits' = [k \in {} |-> {}]
    /\ accepted' = [k \in ApiToken |-> {}]
    /\ UNCHANGED <<now, reqVars, token, loginVars, sessionVars, adminVars, shareVars>>

RevokeToken(k) ==
    /\ token' = [token EXCEPT ![k] = "revoked"]
    /\ UNCHANGED <<now, reqVars, hits, accepted, loginVars, sessionVars, adminVars, shareVars>>

TokenNext ==
    \/ Tick \/ Restart
    \/ \E k \in ApiToken : ApiRequest(k) \/ RevokeToken(k)

-----------------------------------------------------------------------------
(* Administrators.  require_admin looks at the role only: the session of a *)
(* suspended user goes on.                                                 *)
Admins == {u \in User : role[u] = "admin"}
ActiveAdmins == {u \in Admins : active[u]}

SetStatus(r, by, u, on) ==
    /\ by \in Admins /\ ~(u = by /\ ~on)
    /\ Begin(r, "set_status", [on |-> "users", by |-> by, user |-> u, active |-> on])
    /\ ghosted' = (ghosted \/ ~active[by])
    /\ UNCHANGED <<now, role, active, loginVars, sessionVars, tokenVars, shareVars>>

SetStatusWrite(r) ==
    /\ pc[r] = "set_status"
    /\ active' = [active EXCEPT ![loc[r].user] = loc[r].active]
    /\ End(r)
    /\ UNCHANGED <<now, role, ghosted, loginVars, sessionVars, tokenVars, shareVars>>

(* set_user_role: not one's own; of a demotion, active admins are counted  *)
(* first.                                                                  *)
SetRole(r, by, u, to) ==
    /\ by \in Admins /\ u # by /\ role[u] # to
    /\ Begin(r, "set_role", [on |-> "users", by |-> by, user |-> u, role |-> to])
    /\ ghosted' = (ghosted \/ ~active[by])
    /\ UNCHANGED <<now, role, active, loginVars, sessionVars, tokenVars, shareVars>>

SetRoleCount(r) ==
    /\ pc[r] = "set_role"
    /\ IF loc[r].role = "user" /\ Cardinality(ActiveAdmins) <= 1
       THEN End(r) ELSE Goto(r, "set_role_write", loc[r])
    /\ UNCHANGED accessVars

SetRoleWrite(r) ==
    /\ pc[r] = "set_role_write"
    /\ role' = [role EXCEPT ![loc[r].user] = loc[r].role]
    /\ End(r)
    /\ UNCHANGED <<now, active, ghosted, loginVars, sessionVars, tokenVars, shareVars>>

AdminNext ==
    \E r \in Req :
       \/ SetStatusWrite(r) \/ SetRoleCount(r) \/ SetRoleWrite(r) \/ AccessCutOff(r)
       \/ \E by, u \in User :
             \/ \E on \in BOOLEAN : SetStatus(r, by, u, on)
             \/ \E to \in {"admin", "user"} : SetRole(r, by, u, to)

-----------------------------------------------------------------------------
(* Members of a ledger; the owner invites and removes. *)
MemberRole == {"editor", "viewer"}

(* invite: the check that the user is no member, then the upsert. *)
Invite(r, u, as) ==
    /\ member[u] = "none"
    /\ invitation' = [invitation EXCEPT ![u] = [status |-> "pending", role |-> as]]
    /\ removed' = removed \ {u}
    /\ Serve(r, u)
    /\ UNCHANGED <<now, member, unfinished, loginVars, sessionVars, tokenVars, adminVars>>

AcceptRead(r, u) ==
    /\ IF invitation[u].status = "pending"
       THEN Begin(r, "accept_member", [on |-> u, role |-> invitation[u].role])
       ELSE Serve(r, u)
    /\ UNCHANGED accessVars

AcceptMember(r) ==
    /\ pc[r] = "accept_member"
    /\ member' = [member EXCEPT ![loc[r].on] = loc[r].role]
    /\ Goto(r, "accept_status", loc[r])
    /\ UNCHANGED <<now, invitation, removed, unfinished, loginVars, sessionVars,
                   tokenVars, adminVars>>

AcceptStatus(r) ==
    /\ pc[r] = "accept_status"
    /\ invitation' = [invitation EXCEPT ![loc[r].on].status = "accepted"]
    /\ End(r)
    /\ UNCHANGED <<now, member, removed, unfinished, loginVars, sessionVars,
                   tokenVars, adminVars>>

(* decline: whatever the status was. *)
Decline(r, u) ==
    /\ invitation[u].status # "none"
    /\ invitation' = [invitation EXCEPT ![u].status = "declined"]
    /\ Serve(r, u)
    /\ UNCHANGED <<now, member, removed, unfinished, loginVars, sessionVars,
                   tokenVars, adminVars>>

RemoveMember(r, u) ==
    /\ member[u] # "none"
    /\ member' = [member EXCEPT ![u] = "none"]
    /\ removed' = removed \cup {u}
    /\ Serve(r, u)
    /\ UNCHANGED <<now, invitation, unfinished, loginVars, sessionVars, tokenVars, adminVars>>

SharingNext ==
    \E r \in Req :
       \/ AcceptMember(r) \/ AcceptStatus(r) \/ AccessCutOff(r)
       \/ \E u \in Invitee : \/ AcceptRead(r, u) \/ Decline(r, u) \/ RemoveMember(r, u)
                          \/ \E as \in MemberRole : Invite(r, u, as)

AccessNext ==
    LoginNext \/ SecondFactorNext \/ SessionNext \/ TokenNext \/ AdminNext \/ SharingNext

AccessSpec == InitRequests /\ InitAccess /\ [][AccessNext]_<<reqVars, accessVars>>

-----------------------------------------------------------------------------
AccessTypeOK ==
    /\ \A u \in Account : /\ totp[u] \in {-1} \cup Time
                           /\ codes[u] \subseteq RecoveryCode
    /\ \A u \in Invitee : member[u] \in {"none"} \cup MemberRole
    /\ DOMAIN hits \subseteq ApiToken

(* "5 failed attempts in the last 10 minutes -> next attempt is rejected"  *)
(* (auth/rate_limit.rs): every request checks before it tries, so failures *)
(* in a window exceed the threshold by no more than the requests in flight *)
(* together, less one.                                                     *)
FailuresBounded ==
    \A u \in Account : FailuresIn(u, now) <= Limit - 1 + Cardinality(Req)

(* "throttling never locks the account, it only delays the next attempt"   *)
(* (auth/handlers.rs): an account at the threshold is open again a second  *)
(* after the Retry-After it was told, whatever fraction was cut off.       *)
RetryAfterSuffices ==
    \A u \in Account : FailuresIn(u, now) = Limit =>
        ~Throttled(u, now + (RetryAfter(u) + 1) * PerSecond)

(* A TOTP step signs a user in once per enrolment if the submissions do    *)
(* not overlap (auth/totp.rs, replay protection by last_used_counter).     *)
StepUsedOnce == stepTwice \subseteq raced

(* A recovery code lets someone in once, also when two submissions of it   *)
(* overlap (auth/totp.rs::consume_recovery_code).                          *)
RecoveryCodeOnce == codeTwice = {}

(* last_seen_at lags behind the last request by less than half the idle    *)
(* window, so whoever comes back within half the window is not signed out  *)
(* for idleness (auth/session_timeout.rs::enforce_timeout).                *)
IdleClockFollows ==
    \A u \in Account : session[u] # NoSession =>
        /\ session[u].seen <= visited[u]
        /\ visited[u] - session[u].seen < Max({1, Idle \div 2})

(* A request is served only within both windows, counted from the last     *)
(* request served although last_seen_at is not written for each, and from  *)
(* the sign-in however often the session was refreshed since; and never    *)
(* with a session from before a password change                            *)
(* (auth/session_timeout.rs::enforce_timeout, auth/mod.rs).                *)
ServedWithinWindows ==
    [][\A u \in Account : visited'[u] # visited[u] /\ session[u] # NoSession =>
          /\ now - visited[u] <= Idle
          /\ now - begun[u] <= Absolute
          /\ session[u].hash = password[u]]_<<now, sessionVars>>

(* "sliding window" (api/mod.rs::rate_limit): no window of any position    *)
(* holds more accepted calls of a token than its limit, as long as the     *)
(* table is not dropped.                                                   *)
RateBounded ==
    \A k \in ApiToken, t \in Time :
        Cardinality({x \in accepted[k] : x.at \in (t - Window + 1)..t}) <= Limit

(* "never leave the system without an active admin" (handlers/admin.rs),   *)
(* if requests of administrators do not overlap and none is made with the  *)
(* session of a suspended one.                                             *)
AnAdminRemains == "users" \in raced \/ ghosted \/ ActiveAdmins # {}

(* A removed member stays out until the next invitation, unless requests   *)
(* on the membership overlap or an acceptance is cut off before the        *)
(* invitation is marked (handlers/sharing.rs::accept).                     *)
RemovedStaysOut ==
    \A u \in removed \ (raced \cup unfinished) : member[u] = "none"

(* Attempts are throttled but never locked out, one-time codes are used    *)
(* once, a removed member is out and an administrator remains.             *)
AccessSound ==
    /\ AccessTypeOK
    /\ FailuresBounded
    /\ RetryAfterSuffices
    /\ StepUsedOnce
    /\ RecoveryCodeOnce
    /\ IdleClockFollows
    /\ RateBounded
    /\ AnAdminRemains
    /\ RemovedStaysOut
=============================================================================
