--------------------------- MODULE ControlsProofs ---------------------------
(***************************************************************************)
(* Proofs about who gets in (Access) and what was recorded (AuditChain).   *)
(*                                                                         *)
(* The invariant of Access has one part for each of sign-in, second        *)
(* factor, sessions, tokens, administrators and members: the parts share   *)
(* the clock and the requests, so a step of one is a frame to the others.  *)
(*                                                                         *)
(* That of AuditChain says how each hash continues the one before it.      *)
(***************************************************************************)
EXTENDS Access, AuditChain, RequestsProofs, FiniteSetTheorems, SequenceTheorems

(* The sign-ins of u that are past the throttle. *)
Trying(u) == {r \in Req : pc[r] = "login_verify" /\ loc[r].on = u}

(* Failures and sign-ins under way together stay below the threshold and   *)
(* the requests: a sign-in is let through when there are Limit - 1 at most.*)
LoginHeld(r) == pc[r] = "login_verify" => loc[r].on \in Account /\ loc[r].at \in Int

LoginOK ==
    /\ DOMAIN fails = Account
    /\ \A u \in Account :
          /\ IsFiniteSet(fails[u]) /\ \A x \in fails[u] : x.at \in Int
          /\ FailuresIn(u, now) + Cardinality(Trying(u)) <= Limit - 1 + Cardinality(Req)
    /\ \A r \in Req : LoginHeld(r)

(* A step that verify_code took is later than the counter, which is later  *)
(* than every used step; the codes a recovery holds are unused and in no   *)
(* other's hands.                                                          *)
FactorLabel == {"login_2fa", "totp_advance", "recovery", "enroll_codes"}

FactorHeld(r) ==
    /\ pc[r] \in FactorLabel => loc[r].on \in Account
    /\ pc[r] = "totp_advance" =>
          /\ loc[r].step \in Time
          /\ loc[r].on \in raced \/ loc[r].counter = totp[loc[r].on]
          /\ loc[r].counter \in Time /\ loc[r].step > loc[r].counter
    /\ pc[r] = "recovery" =>
          /\ loc[r].held \subseteq codes[loc[r].on]
          /\ \A q \in Req \ {r} : pc[q] = "recovery" /\ loc[q].on = loc[r].on =>
                loc[q].held \cap loc[r].held = {}

FactorOK ==
    /\ DOMAIN totp = Account /\ DOMAIN codes = Account
    /\ DOMAIN spent = Account /\ DOMAIN usedSteps = Account
    /\ \A u \in Account :
          /\ totp[u] \in {-1} \cup Time /\ codes[u] \subseteq RecoveryCode
          /\ usedSteps[u] \subseteq Time
          /\ codes[u] \cap spent[u] = {}
          /\ u \in raced \/ totp[u] = -1 \/ \A s \in usedSteps[u] : s <= totp[u]
    /\ StepUsedOnce /\ RecoveryCodeOnce
    /\ \A r \in Req : FactorHeld(r)

(* last_seen_at lags behind the last request. *)
SessionsOK ==
    /\ DOMAIN session = Account /\ DOMAIN visited = Account /\ DOMAIN begun = Account
    /\ \A u \in Account :
          /\ visited[u] \in 0..now
          /\ session[u] # NoSession =>
                /\ "seen" \in DOMAIN session[u]
                /\ session[u].seen \in Int /\ session[u].created = begun[u] /\ begun[u] \in Int
    /\ IdleClockFollows

(* The limiter knows every call of the window that was accepted. *)
TokensOK ==
    /\ DOMAIN hits \subseteq ApiToken
    /\ \A k \in ApiToken :
          /\ IsFiniteSet(accepted[k]) /\ \A x \in accepted[k] : x.at \in 0..now
          /\ \A x \in Hit(k) : x.at \in 0..now
          /\ Recent(Hit(k)) = Recent(accepted[k])
    /\ RateBounded

(* Whoever changes an administrator is one, and another or stays active. *)
AdminLabel == {"set_status", "set_role", "set_role_write"}

AdminsExcused == "users" \in raced \/ ghosted
AdminHeld(r) ==
    pc[r] \in AdminLabel =>
        /\ loc[r].on = "users"
        /\ AdminsExcused \/ loc[r].by \in ActiveAdmins
        /\ loc[r].user # loc[r].by \/ (pc[r] = "set_status" /\ loc[r].active)

AdminsOK ==
    /\ DOMAIN role = User /\ DOMAIN active = User
    /\ AnAdminRemains
    /\ \A r \in Req : AdminHeld(r)

(* Someone who was removed has no pending invitation, nor has a member,    *)
(* but while the acceptance is being marked.                               *)
ShareLabel == {"accept_member", "accept_status"}

Pending(u) == invitation[u].status = "pending"
Marking(u) == \E r \in Req : pc[r] = "accept_status" /\ loc[r].on = u
ShareExcused(u) == u \in raced \cup unfinished

MemberOK(u) ==
    /\ member[u] \in {"none"} \cup MemberRole
    /\ Pending(u) => invitation[u].role \in MemberRole
    /\ ShareExcused(u) \/ member[u] = "none" \/ ~Pending(u) \/ Marking(u)
    /\ ShareExcused(u) \/ (u \in removed => member[u] = "none" /\ ~Pending(u))

SharingHeld(r) ==
    pc[r] \in ShareLabel =>
        /\ loc[r].on \in Invitee /\ loc[r].role \in MemberRole
        /\ loc[r].on \in removed => loc[r].on \in raced \cup unfinished

SharingOK ==
    /\ DOMAIN member = Invitee /\ DOMAIN invitation = Invitee
    /\ \A u \in Invitee : MemberOK(u)
    /\ removed \subseteq Invitee
    /\ \A r \in Req : SharingHeld(r)

AccessInv ==
    RequestsOK /\ now \in Time /\ LoginOK /\ FactorOK /\ SessionsOK /\ TokensOK /\ AdminsOK
    /\ SharingOK

-----------------------------------------------------------------------------
(* A step that leaves the requests at labels in L alone. *)
Aside(L) ==
    /\ RequestsOK' /\ raced \subseteq raced'
    /\ \A q \in Req : pc[q] \in L \/ pc'[q] \in L => pc'[q] = pc[q] /\ loc'[q] = loc[q]

LEMMA AsideStep ==
    ASSUME NEW r \in Req, Keeps(r), NEW L,
           (pc[r] \notin L /\ pc'[r] \notin L) \/ (pc'[r] = pc[r] /\ loc'[r] = loc[r])
    PROVE  Aside(L)
    BY DEF Keeps, Aside

LEMMA AsideStill ==
    ASSUME RequestsOK, UNCHANGED reqVars, NEW L PROVE Aside(L) /\ RequestsOK'
    BY DEF Aside, RequestsOK, reqVars, Busy

(* Counting. *)
LEMMA FewerRows ==
    ASSUME NEW T, IsFiniteSet(T), NEW S, S \subseteq T
    PROVE  /\ IsFiniteSet(S) /\ Cardinality(S) \in Nat /\ Cardinality(T) \in Nat
           /\ Cardinality(S) <= Cardinality(T)
    BY FS_Subset, FS_CardinalityType

LEMMA OneMoreRow ==
    ASSUME NEW T, IsFiniteSet(T), NEW x, NEW S, S \subseteq T \cup {x}
    PROVE  /\ IsFiniteSet(S) /\ Cardinality(S) \in Nat /\ Cardinality(T) \in Nat
           /\ Cardinality(S) <= Cardinality(T) + 1
<1>1. IsFiniteSet(T \cup {x}) /\ Cardinality(T \cup {x}) <= Cardinality(T) + 1
      /\ Cardinality(T) \in Nat
    BY FS_AddElement, FS_CardinalityType
<1> QED BY <1>1, FewerRows

LEMMA TryingFinite ==
    ASSUME NEW u
    PROVE  /\ IsFiniteSet(Trying(u)) /\ Cardinality(Trying(u)) \in Nat
           /\ Cardinality(Req) \in Nat /\ Cardinality(Trying(u)) <= Cardinality(Req)
           /\ Limit \in Nat /\ Limit > 0 /\ Window \in Nat /\ Window > 0
<1>1. Trying(u) \subseteq Req BY DEF Trying
<1> QED BY <1>1, FewerRows, AccessAssumption

LEMMA FailuresFinite ==
    ASSUME LoginOK, NEW u \in Account, NEW at
    PROVE  /\ IsFiniteSet({x \in fails[u] : x.at > at - Window})
           /\ FailuresIn(u, at) \in Nat
<1>1. {x \in fails[u] : x.at > at - Window} \subseteq fails[u] /\ IsFiniteSet(fails[u])
    BY DEF LoginOK
<1> QED BY <1>1, FewerRows DEF FailuresIn

-----------------------------------------------------------------------------
(* Sign-in. *)
LEMMA LoginFrame ==
    ASSUME LoginOK, Aside({"login_verify"}), UNCHANGED <<now, fails>>
    PROVE  LoginOK'
<1>1. \A u : Trying(u)' = Trying(u) BY DEF Trying, Aside
<1>2. \A u : FailuresIn(u, now)' = FailuresIn(u, now) BY DEF FailuresIn
<1>3. \A r \in Req : LoginHeld(r)' BY DEF LoginOK, LoginHeld, Aside
<1> HIDE DEF FailuresIn, Trying
<1> QED BY <1>1, <1>2, <1>3 DEF LoginOK

(* Fewer failures, and fewer or as many requests. *)
LEMMA LoginLess ==
    ASSUME LoginOK, now \in Int, now' \in Int, now <= now', DOMAIN fails' = Account,
           \A u \in Account : fails'[u] \subseteq fails[u],
           \A r \in Req : pc'[r] = "login_verify" => pc'[r] = pc[r] /\ loc'[r] = loc[r]
    PROVE  LoginOK'
<1>1. ASSUME NEW u \in Account
      PROVE  /\ IsFiniteSet(fails'[u]) /\ \A x \in fails'[u] : x.at \in Int
             /\ FailuresIn(u, now)' + Cardinality(Trying(u)') <= Limit - 1 + Cardinality(Req)
  <2> DEFINE F == {x \in fails[u] : x.at > now - Window}
             G == {x \in fails'[u] : x.at > now' - Window}
  <2>1. IsFiniteSet(fails[u]) /\ IsFiniteSet(fails'[u]) /\ \A x \in fails[u] : x.at \in Int
      BY FewerRows DEF LoginOK
  <2>2. G \subseteq F BY <2>1, TryingFinite
  <2>3. IsFiniteSet(F) BY FailuresFinite
  <2>4. Cardinality(G) <= Cardinality(F) /\ Cardinality(G) \in Nat /\ Cardinality(F) \in Nat
      <3> HIDE DEF F, G
      <3> QED BY <2>2, <2>3, FewerRows
  <2>5. Trying(u)' \subseteq Trying(u) BY DEF Trying
  <2>6. /\ Cardinality(Trying(u)') <= Cardinality(Trying(u))
        /\ Cardinality(Trying(u)') \in Nat /\ Cardinality(Trying(u)) \in Nat
      BY <2>5, TryingFinite, FewerRows
  <2>7. Cardinality(F) + Cardinality(Trying(u)) <= Limit - 1 + Cardinality(Req)
      BY DEF LoginOK, FailuresIn
  <2>8. FailuresIn(u, now)' = Cardinality(G) BY DEF FailuresIn
  <2> HIDE DEF F, G
  <2> QED BY <2>1, <2>4, <2>6, <2>7, <2>8, TryingFinite
<1>2. \A r \in Req : LoginHeld(r)' BY DEF LoginOK, LoginHeld
<1> HIDE DEF FailuresIn, Trying
<1> QED BY <1>1, <1>2 DEF LoginOK

LEMMA LoginSubmitOK ==
    ASSUME AccessInv, NEW r \in Req, NEW u \in Account, LoginSubmit(r, u),
           Begin(r, "login_verify", [on |-> u, at |-> now]), ~Throttled(u, now)
    PROVE  LoginOK'
<1>1. /\ Keeps(r) /\ pc[r] = "idle" /\ pc'[r] = "login_verify"
      /\ loc'[r] = [on |-> u, at |-> now] /\ UNCHANGED <<now, fails>>
    BY BeginKeeps DEF AccessInv, LoginSubmit, accessVars, loginVars
<1>2. FailuresIn(u, now) < Limit /\ FailuresIn(u, now) \in Nat
  <2>1. FailuresIn(u, now) \in Nat BY FailuresFinite DEF AccessInv
  <2>2. Limit \in Nat BY TryingFinite
  <2> QED BY <2>1, <2>2 DEF Throttled
<1>3. Trying(u)' \subseteq Req BY DEF Trying
<1>4. Cardinality(Trying(u)') <= Cardinality(Req) /\ Cardinality(Trying(u)') \in Nat
    BY <1>3, FewerRows, AccessAssumption
<1>5. \A v : v # u => Trying(v)' = Trying(v)
    BY <1>1 DEF Trying, Keeps
<1>6. \A v : FailuresIn(v, now)' = FailuresIn(v, now) BY <1>1 DEF FailuresIn
<1>7. \A q \in Req : LoginHeld(q)'
    BY <1>1 DEF LoginHeld, AccessInv, LoginOK, Keeps, Time
<1> HIDE DEF FailuresIn, Trying
<1>8. \A v \in Account : FailuresIn(v, now)' + Cardinality(Trying(v)') <= Limit - 1 + Cardinality(Req)
    BY <1>2, <1>4, <1>5, <1>6, TryingFinite DEF AccessInv, LoginOK
<1> QED BY <1>1, <1>7, <1>8 DEF AccessInv, LoginOK

LEMMA LoginFailOK ==
    ASSUME AccessInv, NEW r \in Req, LoginFail(r) PROVE LoginOK'
<1>0. PICK u : u = loc[r].on OBVIOUS
<1>1. PICK row : row = Stamped(fails[u], loc[r].at) OBVIOUS
<1>2. /\ Keeps(r) /\ pc[r] = "login_verify" /\ pc'[r] = "idle" /\ now' = now
      /\ u \in Account /\ row.at \in Int
      /\ fails' = [fails EXCEPT ![u] = @ \cup {row}]
    BY <1>0, <1>1, EndKeeps DEF LoginFail, AccessInv, LoginOK, LoginHeld, Stamped, StaysOrEnds
<1>3. /\ fails'[u] = fails[u] \cup {row} /\ DOMAIN fails' = Account
      /\ \A v \in Account \ {u} : fails'[v] = fails[v]
    BY <1>2 DEF AccessInv, LoginOK
<1>4. Trying(u)' = Trying(u) \ {r} /\ r \in Trying(u)
    BY <1>0, <1>2 DEF Trying, Keeps
<1>5. Cardinality(Trying(u)') = Cardinality(Trying(u)) - 1
    BY <1>4, TryingFinite, FS_RemoveElement
<1>6. \A v : v # u => Trying(v)' = Trying(v)
    BY <1>0, <1>2 DEF Trying, Keeps
<1>7. FailuresIn(u, now)' <= FailuresIn(u, now) + 1 /\ FailuresIn(u, now)' \in Nat
      /\ FailuresIn(u, now) \in Nat
  <2> DEFINE F == {x \in fails[u] : x.at > now - Window}
             G == {x \in fails'[u] : x.at > now' - Window}
  <2>1. IsFiniteSet(F) BY <1>2, FailuresFinite DEF AccessInv
  <2>2. G \subseteq F \cup {row} BY <1>2, <1>3
  <2>3. F = {x \in fails[u] : x.at > now - Window} /\ G = {x \in fails'[u] : x.at > now' - Window}
      OBVIOUS
  <2> HIDE DEF F, G
  <2>4. Cardinality(G) <= Cardinality(F) + 1 /\ Cardinality(G) \in Nat /\ Cardinality(F) \in Nat
      BY <2>1, <2>2, OneMoreRow
  <2> QED BY <2>3, <2>4 DEF FailuresIn
<1>8. \A v \in Account \ {u} : FailuresIn(v, now)' = FailuresIn(v, now)
    BY <1>2, <1>3 DEF FailuresIn
<1>9. \A q \in Req : LoginHeld(q)'
    BY <1>2 DEF LoginHeld, AccessInv, LoginOK, Keeps
<1>10. IsFiniteSet(fails'[u]) /\ \A x \in fails'[u] : x.at \in Int
  <2>1. IsFiniteSet(fails[u]) /\ \A x \in fails[u] : x.at \in Int
      BY <1>2 DEF AccessInv, LoginOK
  <2> QED BY <1>2, <1>3, <2>1, OneMoreRow
<1> HIDE DEF FailuresIn, Trying
<1>11. \A v \in Account : FailuresIn(v, now)' + Cardinality(Trying(v)') <= Limit - 1 + Cardinality(Req)
    BY <1>2, <1>5, <1>6, <1>7, <1>8, TryingFinite DEF AccessInv, LoginOK
<1> QED BY <1>3, <1>9, <1>10, <1>11 DEF AccessInv, LoginOK

-----------------------------------------------------------------------------
(* Second factor. *)
LEMMA FactorFrame ==
    ASSUME FactorOK, Aside(FactorLabel),
           UNCHANGED <<totp, codes, usedSteps, stepTwice, codeTwice, spent>>
    PROVE  FactorOK'
<1>1. \A r \in Req : FactorHeld(r)'
    BY DEF FactorOK, FactorHeld, FactorLabel, Aside
<1> QED BY <1>1 DEF FactorOK, StepUsedOnce, RecoveryCodeOnce, Aside

(* One request of the second factor ends, or its step changes nothing but  *)
(* where it is: what the others hold stays.                                *)
LEMMA FactorEnds ==
    ASSUME FactorOK, NEW r \in Req, Keeps(r),
           pc'[r] \notin FactorLabel \/ (pc'[r] = "login_2fa" /\ loc'[r].on \in Account)
               \/ (pc'[r] = "enroll_codes" /\ loc'[r].on \in Account),
           UNCHANGED <<totp, codes, usedSteps, stepTwice, codeTwice, spent>>
    PROVE  FactorOK'
<1>1. \A q \in Req : FactorHeld(q)'
    BY DEF FactorOK, FactorHeld, FactorLabel, Keeps
<1> QED BY <1>1 DEF FactorOK, StepUsedOnce, RecoveryCodeOnce, Keeps

LEMMA TotpVerifyOK ==
    ASSUME AccessInv, NEW r \in Req, NEW step \in Time, TotpVerify(r, step)
    PROVE  FactorOK' /\ Keeps(r) /\ pc[r] \in FactorLabel /\ pc'[r] \in FactorLabel \cup {"idle"}
<1>0. PICK u : u = loc[r].on OBVIOUS
<1>1. /\ UNCHANGED <<totp, codes, usedSteps, stepTwice, codeTwice, spent>>
      /\ pc[r] = "login_2fa" /\ u \in Account /\ FactorOK /\ RequestsOK
    BY <1>0 DEF TotpVerify, accessVars, loginVars, AccessInv, FactorOK, FactorHeld, FactorLabel
<1>2. CASE totp[u] # -1 /\ CodeMatches(totp[u], step)
  <2>1. Goto(r, "totp_advance", [on |-> u, counter |-> totp[u], step |-> step])
      BY <1>0, <1>2 DEF TotpVerify
  <2>2. /\ Keeps(r) /\ pc'[r] = "totp_advance" /\ raced' = raced
        /\ loc'[r] = [on |-> u, counter |-> totp[u], step |-> step]
      BY <1>0, <1>1, <2>1, GotoKeeps
  <2>3. totp[u] \in Time /\ step > totp[u]
      BY <1>1, <1>2 DEF FactorOK, CodeMatches
  <2>4. \A q \in Req : FactorHeld(q)'
      BY <1>1, <2>2, <2>3 DEF FactorOK, FactorHeld, FactorLabel, Keeps
  <2>5. FactorOK'
      BY <1>1, <2>2, <2>4 DEF FactorOK, StepUsedOnce, RecoveryCodeOnce
  <2> QED BY <1>1, <2>2, <2>5 DEF FactorLabel
<1>3. CASE ~(totp[u] # -1 /\ CodeMatches(totp[u], step))
  <2>1. Keeps(r) /\ pc'[r] = "idle"
      BY <1>0, <1>1, <1>3, EndKeeps DEF TotpVerify, StaysOrEnds
  <2> QED BY <1>1, <2>1, FactorEnds DEF FactorLabel
<1> QED BY <1>2, <1>3

LEMMA TotpAdvanceOK ==
    ASSUME AccessInv, NEW r \in Req, TotpAdvance(r)
    PROVE  FactorOK' /\ Keeps(r) /\ pc[r] \in FactorLabel /\ pc'[r] = "idle"
<1>0. PICK u, step : u = loc[r].on /\ step = loc[r].step OBVIOUS
<1>1. /\ UNCHANGED <<codes, codeTwice, spent>>
      /\ Keeps(r) /\ pc[r] = "totp_advance" /\ pc'[r] = "idle" /\ raced' = raced
      /\ totp' = IF totp[u] = loc[r].counter THEN [totp EXCEPT ![u] = step] ELSE totp
      /\ usedSteps' = [usedSteps EXCEPT ![u] = @ \cup {step}]
      /\ stepTwice' = IF step \in usedSteps[u] THEN stepTwice \cup {u} ELSE stepTwice
    BY <1>0, EndKeeps DEF TotpAdvance, AccessInv, StaysOrEnds
<1>2. /\ u \in Account /\ step \in Time /\ loc[r].counter \in Time /\ step > loc[r].counter
      /\ u \in raced \/ loc[r].counter = totp[u]
    BY <1>0, <1>1 DEF AccessInv, FactorOK, FactorHeld, FactorLabel
<1>3. /\ DOMAIN totp = Account /\ DOMAIN usedSteps = Account
      /\ totp'[u] \in {-1} \cup Time /\ usedSteps'[u] = usedSteps[u] \cup {step}
      /\ \A v \in Account \ {u} : totp'[v] = totp[v] /\ usedSteps'[v] = usedSteps[v]
      /\ DOMAIN totp' = Account /\ DOMAIN usedSteps' = Account
      /\ u \in raced \/ totp'[u] = step
    BY <1>1, <1>2 DEF AccessInv, FactorOK
<1>4. u \in raced \/ \A s \in usedSteps[u] : s \in Time /\ s < step
  <2> SUFFICES ASSUME u \notin raced, NEW s \in usedSteps[u] PROVE s \in Time /\ s < step
      OBVIOUS
  <2>1. s \in Time /\ totp[u] \in Time /\ step > totp[u] BY <1>2 DEF AccessInv, FactorOK
  <2>2. s <= totp[u] BY <1>2, <2>1 DEF AccessInv, FactorOK, Time
  <2> QED BY <1>2, <2>1, <2>2 DEF Time
<1>5. stepTwice' \subseteq raced'
  <2>1. stepTwice \subseteq raced BY DEF AccessInv, FactorOK, StepUsedOnce
  <2>2. u \in raced \/ step \notin usedSteps[u] BY <1>2, <1>4 DEF Time
  <2> QED BY <1>1, <2>1, <2>2
<1>6. \A q \in Req : FactorHeld(q)'
  <2> SUFFICES ASSUME NEW q \in Req, q # r, pc[q] \in FactorLabel PROVE FactorHeld(q)'
      BY <1>1 DEF FactorHeld, FactorLabel, Keeps
  <2>1. loc[q].on = u => u \in raced
      BY <1>0, <1>1 DEF AccessInv, RequestsOK, Busy, FactorLabel
  <2> QED BY <1>1, <1>3, <2>1 DEF AccessInv, FactorOK, FactorHeld, FactorLabel, Keeps
<1>7. \A v \in Account :
         /\ totp'[v] \in {-1} \cup Time /\ usedSteps'[v] \subseteq Time
         /\ v \in raced' \/ totp'[v] = -1 \/ \A s \in usedSteps'[v] : s <= totp'[v]
  <2> SUFFICES ASSUME NEW v \in Account
               PROVE  /\ totp'[v] \in {-1} \cup Time /\ usedSteps'[v] \subseteq Time
                      /\ v \in raced' \/ totp'[v] = -1 \/ \A s \in usedSteps'[v] : s <= totp'[v]
      OBVIOUS
  <2>1. CASE v # u BY <1>1, <1>3, <2>1 DEF AccessInv, FactorOK
  <2>2. CASE v = u
    <3>1. usedSteps'[u] \subseteq Time BY <1>2, <1>3 DEF AccessInv, FactorOK
    <3>2. u \in raced' \/ \A s \in usedSteps'[u] : s <= totp'[u]
        BY <1>1, <1>2, <1>3, <1>4 DEF Time
    <3> QED BY <1>3, <2>2, <3>1, <3>2
  <2> QED BY <2>1, <2>2
<1>8. FactorOK'
    BY <1>1, <1>3, <1>5, <1>6, <1>7 DEF AccessInv, FactorOK, StepUsedOnce, RecoveryCodeOnce
<1> QED BY <1>1, <1>8 DEF FactorLabel

LEMMA RecoveryLockOK ==
    ASSUME AccessInv, NEW r \in Req, NEW c, RecoveryLock(r, c)
    PROVE  FactorOK' /\ Keeps(r) /\ pc[r] \in FactorLabel /\ pc'[r] \in FactorLabel
<1>0. PICK u, held : u = loc[r].on /\ held = codes[u] \ CodesLocked(u) OBVIOUS
<1>1. /\ UNCHANGED <<totp, codes, usedSteps, stepTwice, codeTwice, spent>>
      /\ pc[r] = "login_2fa" /\ u \in Account /\ FactorOK /\ RequestsOK
      /\ Goto(r, "recovery", [on |-> u, code |-> c, held |-> held])
    BY <1>0 DEF RecoveryLock, accessVars, loginVars, AccessInv, FactorOK, FactorHeld, FactorLabel
<1>2. /\ Keeps(r) /\ pc'[r] = "recovery" /\ raced' = raced
      /\ loc'[r] = [on |-> u, code |-> c, held |-> held]
    BY <1>0, <1>1, GotoKeeps
<1>3. held \subseteq codes[u] BY <1>0
<1>4. \A q \in Req : pc[q] = "recovery" /\ loc[q].on = u => loc[q].held \cap held = {}
  <2> SUFFICES ASSUME NEW q \in Req, pc[q] = "recovery", loc[q].on = u
               PROVE  loc[q].held \cap held = {}
      OBVIOUS
  <2>1. loc[q].held \subseteq CodesLocked(u) BY DEF CodesLocked
  <2> QED BY <1>0, <2>1
<1>5. \A q \in Req : FactorHeld(q)'
  <2>1. FactorHeld(r)' BY <1>1, <1>2, <1>3, <1>4 DEF FactorHeld, FactorLabel, Keeps
  <2>2. ASSUME NEW q \in Req \ {r} PROVE FactorHeld(q)'
    <3>1. FactorHeld(q) /\ pc'[q] = pc[q] /\ loc'[q] = loc[q] BY <1>1, <1>2 DEF FactorOK, Keeps
    <3>2. pc[q] = "recovery" /\ loc[q].on = u => held \cap loc[q].held = {} BY <1>4
    <3>3. \A p \in Req \ {q} : pc[q] = "recovery" /\ pc'[p] = "recovery" /\ loc'[p].on = loc[q].on =>
              loc'[p].held \cap loc[q].held = {}
        BY <1>2, <3>1, <3>2 DEF FactorHeld, Keeps
    <3> QED BY <1>1, <1>2, <3>1, <3>3 DEF FactorHeld
  <2> QED BY <2>1, <2>2
<1>6. FactorOK' BY <1>1, <1>2, <1>5 DEF FactorOK, StepUsedOnce, RecoveryCodeOnce
<1> QED BY <1>1, <1>2, <1>6 DEF FactorLabel

LEMMA RecoveryConsumeOK ==
    ASSUME AccessInv, NEW r \in Req, RecoveryConsume(r)
    PROVE  FactorOK' /\ Keeps(r) /\ pc[r] \in FactorLabel /\ pc'[r] = "idle"
<1>0. PICK u, c : u = loc[r].on /\ c = loc[r].code OBVIOUS
<1>1. /\ UNCHANGED <<totp, usedSteps, stepTwice>> /\ FactorOK
      /\ Keeps(r) /\ pc[r] = "recovery" /\ pc'[r] = "idle" /\ raced' = raced
      /\ u \in Account /\ loc[r].held \subseteq codes[u]
    BY <1>0, EndKeeps
    DEF RecoveryConsume, AccessInv, StaysOrEnds, FactorOK, FactorHeld, FactorLabel
<1>2. CASE c \in loc[r].held
  <2>1. /\ codes' = [codes EXCEPT ![u] = @ \ {c}] /\ spent' = [spent EXCEPT ![u] = @ \cup {c}]
        /\ codeTwice' = IF c \in spent[u] THEN codeTwice \cup {u} ELSE codeTwice
      BY <1>0, <1>2 DEF RecoveryConsume
  <2>2. c \in codes[u] /\ c \notin spent[u] BY <1>1, <1>2 DEF FactorOK
  <2>3. /\ DOMAIN codes' = Account /\ DOMAIN spent' = Account
        /\ codes'[u] = codes[u] \ {c} /\ spent'[u] = spent[u] \cup {c}
        /\ \A v \in Account \ {u} : codes'[v] = codes[v] /\ spent'[v] = spent[v]
      BY <1>1, <2>1 DEF FactorOK
  <2>4. ASSUME NEW q \in Req PROVE FactorHeld(q)'
    <3>1. CASE q = r BY <1>1, <3>1 DEF FactorHeld, FactorLabel
    <3>2. CASE q # r
      <4>1. FactorHeld(q) /\ pc'[q] = pc[q] /\ loc'[q] = loc[q]
          BY <1>1, <3>2 DEF FactorOK, Keeps
      <4>2. pc[q] = "recovery" => loc[q].held \subseteq codes'[loc[q].on]
        <5>1. CASE loc[q].on = u
            BY <1>0, <1>1, <1>2, <2>3, <3>2, <4>1, <5>1 DEF FactorHeld
        <5>2. CASE loc[q].on # u
            BY <2>3, <4>1, <5>2 DEF FactorHeld, FactorLabel
        <5> QED BY <5>1, <5>2
      <4>3. \A p \in Req \ {q} : pc[q] = "recovery" /\ pc'[p] = "recovery" /\ loc'[p].on = loc[q].on =>
                loc'[p].held \cap loc[q].held = {}
          BY <1>1, <4>1 DEF FactorHeld, Keeps
      <4> QED BY <1>1, <4>1, <4>2, <4>3 DEF FactorHeld
    <3> QED BY <3>1, <3>2
  <2>5. \A v \in Account : codes'[v] \subseteq RecoveryCode /\ codes'[v] \cap spent'[v] = {}
      BY <1>1, <2>3 DEF FactorOK
  <2>6. FactorOK'
      BY <1>1, <2>1, <2>2, <2>3, <2>4, <2>5 DEF FactorOK, StepUsedOnce, RecoveryCodeOnce
  <2> QED BY <1>1, <2>6 DEF FactorLabel
<1>3. CASE c \notin loc[r].held
  <2>1. UNCHANGED <<codes, spent, codeTwice>> BY <1>0, <1>3 DEF RecoveryConsume
  <2> QED BY <1>1, <2>1, FactorEnds DEF FactorLabel
<1> QED BY <1>2, <1>3

(* A fresh batch, or none: nobody holds a code of the old one. *)
LEMMA NewCodes ==
    ASSUME FactorOK, NEW r \in Req, Keeps(r), NEW u \in Account, NEW batch \in SUBSET RecoveryCode,
           CodesLocked(u) = {}, codes' = [codes EXCEPT ![u] = batch],
           UNCHANGED <<stepTwice, codeTwice, usedSteps>>, DOMAIN totp' = Account,
           \A v \in Account \ {u} : totp'[v] = totp[v],
           totp'[u] = totp[u] \/ (totp'[u] = -1 /\ (u \in raced' \/ \A q \in Req : loc[q].on = u => pc[q] = "idle")),
           DOMAIN spent' = Account, spent'[u] \cap batch = {},
           \A v \in Account \ {u} : spent'[v] = spent[v],
           pc'[r] = "idle" \/ (pc'[r] = pc[r] /\ loc'[r] = loc[r])
    PROVE  FactorOK'
<1>1. /\ DOMAIN codes' = Account /\ codes'[u] = batch
      /\ \A v \in Account \ {u} : codes'[v] = codes[v]
    BY DEF FactorOK
<1>2. ASSUME NEW q \in Req PROVE FactorHeld(q)'
  <2>1. FactorHeld(q) /\ (pc'[q] = "idle" \/ (pc'[q] = pc[q] /\ loc'[q] = loc[q]))
      BY DEF FactorOK, Keeps
  <2>2. pc[q] = "recovery" /\ loc[q].on = u => loc[q].held = {}
      BY DEF CodesLocked
  <2>3. pc[q] = "recovery" => loc[q].held \subseteq codes'[loc[q].on]
      BY <1>1, <2>1, <2>2 DEF FactorHeld, FactorLabel
  <2>4. \A p \in Req \ {q} : pc[q] = "recovery" /\ pc'[p] = "recovery" /\ loc'[p].on = loc[q].on =>
            loc'[p].held \cap loc[q].held = {}
      BY <2>1 DEF FactorHeld, Keeps
  <2>5. pc[q] = "totp_advance" => loc[q].on \in raced' \/ loc[q].counter = totp'[loc[q].on]
      BY <2>1 DEF FactorHeld, FactorLabel, Keeps
  <2> QED BY <2>1, <2>3, <2>4, <2>5 DEF FactorHeld, FactorLabel
<1>3. \A v \in Account : /\ codes'[v] \subseteq RecoveryCode /\ codes'[v] \cap spent'[v] = {}
                         /\ totp'[v] \in {-1} \cup Time
                         /\ v \in raced' \/ totp'[v] = -1 \/ \A s \in usedSteps'[v] : s <= totp'[v]
    BY <1>1 DEF FactorOK, Keeps
<1> QED BY <1>1, <1>2, <1>3 DEF FactorOK, StepUsedOnce, RecoveryCodeOnce, Keeps

LEMMA RegenerateOK ==
    ASSUME FactorOK, NEW r \in Req, Keeps(r), NEW u \in Account, RegenerateRecoveryCodes(u),
           pc'[r] = "idle" \/ (pc'[r] = pc[r] /\ loc'[r] = loc[r])
    PROVE  FactorOK'
<1>1. /\ CodesLocked(u) = {} /\ codes' = [codes EXCEPT ![u] = RecoveryCode]
      /\ spent' = [spent EXCEPT ![u] = {}]
      /\ UNCHANGED <<totp, usedSteps, stepTwice, codeTwice>>
    BY DEF RegenerateRecoveryCodes
<1>2. /\ DOMAIN spent' = Account /\ spent'[u] = {} /\ DOMAIN totp' = Account
      /\ \A v \in Account \ {u} : spent'[v] = spent[v]
    BY <1>1 DEF FactorOK
<1> QED BY <1>1, <1>2, NewCodes

LEMMA TotpDisableOK ==
    ASSUME AccessInv, NEW r \in Req, NEW u \in Account, TotpDisable(r, u)
    PROVE  FactorOK' /\ StaysOrEnds(r)
<1>1. /\ CodesLocked(u) = {} /\ codes' = [codes EXCEPT ![u] = {}]
      /\ totp' = [totp EXCEPT ![u] = -1]
      /\ UNCHANGED <<usedSteps, stepTwice, codeTwice, spent>>
      /\ FactorOK /\ StaysOrEnds(r) /\ Keeps(r) /\ UNCHANGED <<pc, loc>>
      /\ WorkingOn(u) # {} => u \in raced'
    BY ServeKeeps DEF TotpDisable, AccessInv, StaysOrEnds
<1>2. u \in raced' \/ \A q \in Req : loc[q].on = u => pc[q] = "idle"
    BY <1>1 DEF WorkingOn, Busy
<1>3. /\ DOMAIN totp' = Account /\ totp'[u] = -1 /\ DOMAIN spent' = Account
      /\ \A v \in Account \ {u} : totp'[v] = totp[v]
    BY <1>1 DEF FactorOK
<1> QED BY <1>1, <1>2, <1>3, NewCodes

LEMMA EnrollOK ==
    ASSUME AccessInv, NEW r \in Req, NEW u \in Account, Enroll(r, u)
    PROVE  FactorOK' /\ Keeps(r) /\ pc[r] = "idle" /\ pc'[r] \in FactorLabel
<1>1. /\ totp' = [totp EXCEPT ![u] = 0] /\ usedSteps' = [usedSteps EXCEPT ![u] = {}]
      /\ UNCHANGED <<codes, stepTwice, codeTwice, spent>> /\ FactorOK
      /\ Keeps(r) /\ pc[r] = "idle" /\ pc'[r] = "enroll_codes" /\ loc'[r] = [on |-> u]
      /\ WorkingOn(u) # {} => u \in raced'
    BY BeginKeeps DEF Enroll, AccessInv
<1>2. /\ DOMAIN totp' = Account /\ DOMAIN usedSteps' = Account
      /\ totp'[u] = 0 /\ usedSteps'[u] = {} /\ 0 \in Time
      /\ \A v \in Account \ {u} : totp'[v] = totp[v] /\ usedSteps'[v] = usedSteps[v]
    BY <1>1, AccessAssumption DEF FactorOK, Time
<1>3. ASSUME NEW q \in Req PROVE FactorHeld(q)'
  <2>1. CASE q = r BY <1>1, <2>1 DEF FactorHeld, FactorLabel
  <2>2. CASE q # r
    <3>1. FactorHeld(q) /\ pc'[q] = pc[q] /\ loc'[q] = loc[q] BY <1>1, <2>2 DEF FactorOK, Keeps
    <3>2. pc[q] # "idle" /\ loc[q].on = u => u \in raced' BY <1>1 DEF WorkingOn, Busy
    <3>3. pc[q] = "totp_advance" => loc[q].on \in raced' \/ loc[q].counter = totp'[loc[q].on]
        BY <1>1, <1>2, <3>1, <3>2 DEF FactorHeld, FactorLabel, Keeps
    <3>4. \A p \in Req \ {q} : pc[q] = "recovery" /\ pc'[p] = "recovery" /\ loc'[p].on = loc[q].on =>
              loc'[p].held \cap loc[q].held = {}
        BY <1>1, <3>1 DEF FactorHeld, Keeps
    <3> QED BY <1>1, <3>1, <3>3, <3>4 DEF FactorHeld
  <2> QED BY <2>1, <2>2
<1>4. \A v \in Account : /\ totp'[v] \in {-1} \cup Time /\ usedSteps'[v] \subseteq Time
                         /\ v \in raced' \/ totp'[v] = -1 \/ \A s \in usedSteps'[v] : s <= totp'[v]
    BY <1>1, <1>2 DEF FactorOK, Keeps
<1>5. FactorOK'
    BY <1>1, <1>2, <1>3, <1>4 DEF FactorOK, StepUsedOnce, RecoveryCodeOnce, Keeps
<1> QED BY <1>1, <1>5 DEF FactorLabel

-----------------------------------------------------------------------------
(* Sessions. *)
LEMMA HalfIdle ==
    /\ Max({1, Idle \div 2}) \in Int
    /\ Max({1, Idle \div 2}) >= 1 /\ Max({1, Idle \div 2}) >= Idle \div 2
    /\ Idle \div 2 \in Int
<1>1. Idle \in Nat BY AccessAssumption
<1>2. Idle \div 2 \in Int BY <1>1
<1>3. PICK h : h = Idle \div 2 OBVIOUS
<1>4. \E x \in {1, h} : \A y \in {1, h} : x >= y
    BY <1>2, <1>3
<1>5. Max({1, h}) \in {1, h} /\ \A y \in {1, h} : Max({1, h}) >= y
    BY <1>4 DEF Max
<1> QED BY <1>2, <1>3, <1>5

(* The clock goes on, or the sessions of some users change as they may. *)
LEMMA SessionsStep ==
    ASSUME SessionsOK, now \in Time, now' \in Time, now <= now',
           DOMAIN session' = Account, DOMAIN visited' = Account, DOMAIN begun' = Account,
           \A u \in Account :
              \/ session'[u] = session[u] /\ visited'[u] = visited[u] /\ begun'[u] = begun[u]
              \/ session'[u] = NoSession /\ visited'[u] = visited[u]
              \/ /\ visited'[u] = now /\ session'[u].seen = now /\ "seen" \in DOMAIN session'[u]
                 /\ session'[u].created = begun'[u] /\ begun'[u] \in Int
              \/ session[u] # NoSession /\ session'[u] = session[u] /\ visited'[u] = now
                    /\ ~Stale(session[u]) /\ begun'[u] = begun[u]
    PROVE  SessionsOK'
<1>0. now \in Int /\ now' \in Int /\ now >= 0 BY DEF Time
<1>1. ASSUME NEW u \in Account
      PROVE  /\ visited'[u] \in 0..now'
             /\ session'[u] # NoSession =>
                   /\ "seen" \in DOMAIN session'[u]
                   /\ session'[u].created = begun'[u] /\ begun'[u] \in Int
                   /\ session'[u].seen \in Int /\ session'[u].seen <= visited'[u]
                   /\ visited'[u] - session'[u].seen < Max({1, Idle \div 2})
  <2>0. /\ visited[u] \in 0..now
        /\ session[u] # NoSession =>
              /\ "seen" \in DOMAIN session[u]
              /\ session[u].created = begun[u] /\ begun[u] \in Int
              /\ session[u].seen \in Int /\ session[u].seen <= visited[u]
              /\ visited[u] - session[u].seen < Max({1, Idle \div 2})
      BY DEF SessionsOK, IdleClockFollows
  <2>1. CASE session'[u] = session[u] /\ visited'[u] = visited[u] /\ begun'[u] = begun[u]
      BY <1>0, <2>0, <2>1
  <2>2. CASE session'[u] = NoSession /\ visited'[u] = visited[u]
      BY <1>0, <2>0, <2>2
  <2>3. CASE /\ visited'[u] = now /\ session'[u].seen = now /\ "seen" \in DOMAIN session'[u]
             /\ session'[u].created = begun'[u] /\ begun'[u] \in Int
      BY <1>0, <2>3, HalfIdle
  <2>4. CASE /\ session[u] # NoSession /\ session'[u] = session[u] /\ visited'[u] = now
             /\ ~Stale(session[u]) /\ begun'[u] = begun[u]
    <3>1. now - session[u].seen < Idle \div 2 BY <1>0, <2>0, <2>4, HalfIdle DEF Stale
    <3> QED BY <1>0, <2>0, <2>4, <3>1, HalfIdle
  <2> QED BY <2>1, <2>2, <2>3, <2>4
<1> QED BY <1>1 DEF SessionsOK, IdleClockFollows, NoSession

LEMMA SessionsFrame ==
    ASSUME SessionsOK, UNCHANGED <<now, sessionVars>> PROVE SessionsOK'
    BY DEF SessionsOK, IdleClockFollows, sessionVars

LEMMA SessionNextOK ==
    ASSUME AccessInv, NEW u \in Account, SignIn(u) \/ Visit(u) \/ Logout(u) \/ ChangePassword(u)
    PROVE  SessionsOK'
<1>0. /\ SessionsOK /\ now \in Time /\ now \in Int
      /\ DOMAIN session = Account /\ DOMAIN visited = Account /\ DOMAIN begun = Account
    BY DEF AccessInv, SessionsOK, Time
<1>1. CASE SignIn(u)
  <2>1. /\ session' = [session EXCEPT ![u] = [hash |-> password[u], created |-> now, seen |-> now]]
        /\ visited' = [visited EXCEPT ![u] = now] /\ now' = now
        /\ begun' = [begun EXCEPT ![u] = now]
      BY <1>1 DEF SignIn
  <2> QED BY <1>0, <2>1, SessionsStep
<1>2. CASE Visit(u)
  <2>1. /\ session[u] # NoSession /\ now' = now /\ begun' = begun
        /\ \/ /\ session' = IF Stale(session[u]) THEN [session EXCEPT ![u].seen = now] ELSE session
              /\ visited' = [visited EXCEPT ![u] = now]
           \/ session' = [session EXCEPT ![u] = NoSession] /\ UNCHANGED visited
      BY <1>2 DEF Visit
  <2>2. CASE /\ session' = IF Stale(session[u]) THEN [session EXCEPT ![u].seen = now] ELSE session
             /\ visited' = [visited EXCEPT ![u] = now]
    <3>1. CASE Stale(session[u])
      <4>1. "seen" \in DOMAIN session[u] /\ session[u].created = begun[u] /\ begun[u] \in Int
          BY <2>1 DEF AccessInv, SessionsOK
      <4>2. session'[u] = [session[u] EXCEPT !.seen = now] BY <1>0, <2>2, <3>1
      <4>3. /\ session'[u].seen = now /\ "seen" \in DOMAIN session'[u]
            /\ session'[u].created = begun[u]
          BY <4>1, <4>2
      <4>4. /\ DOMAIN session' = Account /\ DOMAIN visited' = Account /\ visited'[u] = now
            /\ \A v \in Account \ {u} : session'[v] = session[v] /\ visited'[v] = visited[v]
          BY <1>0, <2>2, <3>1
      <4> QED BY <1>0, <2>1, <4>1, <4>3, <4>4, SessionsStep
    <3>2. CASE ~Stale(session[u]) BY <1>0, <2>1, <2>2, <3>2, SessionsStep
    <3> QED BY <3>1, <3>2
  <2>3. CASE session' = [session EXCEPT ![u] = NoSession] /\ UNCHANGED visited
      BY <1>0, <2>1, <2>3, SessionsStep
  <2> QED BY <2>1, <2>2, <2>3
<1>3. CASE Logout(u) BY <1>0, <1>3, SessionsStep DEF Logout
<1>4. CASE ChangePassword(u) BY <1>0, <1>4, SessionsStep DEF ChangePassword
<1> QED BY <1>1, <1>2, <1>3, <1>4

-----------------------------------------------------------------------------
(* API tokens. *)
InWindow(rows, t) == {x \in rows : x.at \in (t - Window + 1)..t}

LEMMA RateUnfold == RateBounded <=> \A k \in ApiToken, t \in Time :
                                       Cardinality(InWindow(accepted[k], t)) <= Limit
    BY DEF RateBounded, InWindow

LEMMA TokensFrame ==
    ASSUME TokensOK, UNCHANGED <<now, tokenVars>> PROVE TokensOK'
    BY DEF TokensOK, RateBounded, Recent, Hit, tokenVars

LEMMA TokensTick ==
    ASSUME TokensOK, now \in Time, now' = now + 1, UNCHANGED tokenVars PROVE TokensOK'
<1>1. UNCHANGED <<hits, accepted>> /\ now \in Int /\ now >= 0 BY DEF tokenVars, Time
<1>2. ASSUME NEW k \in ApiToken
      PROVE  /\ \A x \in accepted[k] : x.at \in 0..now'
             /\ \A x \in Hit(k)' : x.at \in 0..now'
             /\ Recent(Hit(k))' = Recent(accepted[k])'
  <2>1. /\ \A x \in accepted[k] : x.at \in 0..now
        /\ \A x \in Hit(k) : x.at \in 0..now
        /\ Recent(Hit(k)) = Recent(accepted[k])
      BY DEF TokensOK
  <2>2. Hit(k)' = Hit(k) BY <1>1 DEF Hit
  <2>3. \A x \in Hit(k) : now' - x.at < Window => x \in accepted[k]
      BY <1>1, <2>1, TryingFinite DEF Recent
  <2>4. \A x \in accepted[k] : now' - x.at < Window => x \in Hit(k)
      BY <1>1, <2>1, TryingFinite DEF Recent
  <2>5. Recent(Hit(k))' = Recent(accepted[k])'
      BY <1>1, <2>2, <2>3, <2>4 DEF Recent
  <2> QED BY <1>1, <2>1, <2>2, <2>5
<1> QED BY <1>1, <1>2 DEF TokensOK, RateBounded

LEMMA RestartOK ==
    ASSUME AccessInv, Restart PROVE TokensOK'
<1>1. hits' = [k \in {} |-> {}] /\ accepted' = [k \in ApiToken |-> {}] /\ now' = now
    BY DEF Restart
<1>2. \A k \in ApiToken : accepted'[k] = {} /\ Hit(k)' = {} BY <1>1 DEF Hit
<1>3. DOMAIN hits' = {} BY <1>1
<1>4. IsFiniteSet({}) /\ Cardinality({}) = 0 BY FS_EmptySet
<1>5. \A k \in ApiToken, t \in Time : InWindow(accepted[k], t)' = {}
    BY <1>2 DEF InWindow
<1>6. RateBounded' BY <1>4, <1>5, RateUnfold, TryingFinite DEF RateBounded, InWindow
<1> QED BY <1>2, <1>3, <1>4, <1>6 DEF TokensOK, Recent

LEMMA ApiRequestOK ==
    ASSUME AccessInv, NEW k \in ApiToken, ApiRequest(k) PROVE TokensOK'
<1> DEFINE full == k \notin DOMAIN hits /\ Cardinality(DOMAIN hits) >= MaxTracked
           known == IF full THEN {k} ELSE DOMAIN hits \cup {k}
           kept(j) == IF full THEN {} ELSE Hit(j)
           past(j) == IF full THEN {} ELSE accepted[j]
<1>0. PICK call : call = Stamped(kept(k), now) OBVIOUS
<1>1. /\ WithinRate(k) /\ now' = now /\ now \in Int /\ now >= 0 /\ call.at = now
      /\ hits' = [j \in known |-> IF j = k THEN Recent(kept(k)) \cup {call} ELSE kept(j)]
      /\ accepted' = [j \in ApiToken |-> IF j = k THEN past(k) \cup {call} ELSE past(j)]
    BY <1>0 DEF ApiRequest, AccessInv, Time, Stamped
<1>2. \A j \in ApiToken :
         /\ kept(j) \subseteq Hit(j) /\ past(j) \subseteq accepted[j]
         /\ Recent(kept(j)) = Recent(past(j))
    BY DEF AccessInv, TokensOK, Recent
<1>3. DOMAIN hits' \subseteq ApiToken BY <1>1 DEF AccessInv, TokensOK
<1>4. /\ Hit(k)' = Recent(kept(k)) \cup {call} /\ accepted'[k] = past(k) \cup {call}
      /\ \A j \in ApiToken \ {k} : Hit(j)' = kept(j) /\ accepted'[j] = past(j)
    BY <1>1 DEF Hit
<1> HIDE DEF full, known, kept, past
<1>5. \A j \in ApiToken : /\ IsFiniteSet(past(j)) /\ \A x \in past(j) : x.at \in 0..now
                          /\ \A x \in kept(j) : x.at \in 0..now
    BY <1>2, FewerRows DEF AccessInv, TokensOK
<1>6. ASSUME NEW j \in ApiToken
      PROVE  /\ IsFiniteSet(accepted'[j]) /\ \A x \in accepted'[j] : x.at \in 0..now'
             /\ \A x \in Hit(j)' : x.at \in 0..now'
             /\ Recent(Hit(j))' = Recent(accepted[j])'
  <2>1. CASE j = k
    <3>1. IsFiniteSet(past(k) \cup {call}) BY <1>5, OneMoreRow
    <3>2. now - call.at < Window BY <1>1, TryingFinite
    <3>3. Recent(Hit(k))' = Recent(kept(k)) \cup {call} BY <1>1, <1>4, <3>2 DEF Recent
    <3>4. Recent(accepted[k])' = Recent(past(k)) \cup {call} BY <1>1, <1>4, <3>2 DEF Recent
    <3>5. Recent(Hit(k))' = Recent(accepted[k])' BY <1>2, <3>3, <3>4
    <3>6. \A x \in accepted'[k] : x.at \in 0..now' BY <1>1, <1>4, <1>5
    <3>7. \A x \in Hit(k)' : x.at \in 0..now' BY <1>1, <1>4, <1>5 DEF Recent
    <3> QED BY <1>4, <2>1, <3>1, <3>5, <3>6, <3>7
  <2>2. CASE j # k
    <3>1. Recent(Hit(j))' = Recent(accepted[j])' BY <1>1, <1>2, <1>4, <2>2 DEF Recent
    <3> QED BY <1>1, <1>4, <1>5, <2>2, <3>1
  <2> QED BY <2>1, <2>2
<1>7. ASSUME NEW j \in ApiToken, NEW t \in Time
      PROVE  Cardinality(InWindow(accepted'[j], t)) <= Limit
  <2>1. t \in Int BY DEF Time
  <2>2. Cardinality(InWindow(accepted[j], t)) <= Limit
      BY RateUnfold DEF AccessInv, TokensOK
  <2>3. InWindow(past(j), t) \subseteq InWindow(accepted[j], t) BY <1>2 DEF InWindow
  <2>4. IsFiniteSet(InWindow(accepted[j], t))
    <3>1. InWindow(accepted[j], t) \subseteq accepted[j] BY DEF InWindow
    <3> QED BY <3>1, FewerRows DEF AccessInv, TokensOK
  <2>5. Cardinality(InWindow(past(j), t)) <= Limit
      BY <2>2, <2>3, <2>4, FewerRows, TryingFinite
  <2>6. CASE j # k BY <1>4, <2>5, <2>6
  <2>7. CASE j = k /\ t < now
    <3>1. InWindow(accepted'[k], t) = InWindow(past(k), t)
        BY <1>1, <1>4, <2>1, <2>7 DEF InWindow
    <3> QED BY <2>5, <2>7, <3>1
  <2>8. CASE j = k /\ t >= now
    <3>1. InWindow(accepted'[k], t) \subseteq Recent(past(k)) \cup {call}
        BY <1>1, <1>4, <1>5, <2>1, <2>8, TryingFinite DEF InWindow, Recent
    <3>2. Recent(past(k)) \subseteq Recent(Hit(k))
        BY <1>2 DEF Recent
    <3>3. IsFiniteSet(Recent(Hit(k)))
      <4>1. Recent(Hit(k)) = Recent(accepted[k]) /\ Recent(accepted[k]) \subseteq accepted[k]
          BY DEF Recent, AccessInv, TokensOK
      <4> QED BY <4>1, FewerRows DEF AccessInv, TokensOK
    <3>4. Cardinality(Recent(Hit(k))) < Limit BY <1>1 DEF WithinRate
    <3>5. InWindow(accepted'[k], t) \subseteq Recent(Hit(k)) \cup {call} BY <3>1, <3>2
    <3>6. /\ Cardinality(InWindow(accepted'[k], t)) <= Cardinality(Recent(Hit(k))) + 1
          /\ Cardinality(InWindow(accepted'[k], t)) \in Nat /\ Cardinality(Recent(Hit(k))) \in Nat
        BY <3>3, <3>5, OneMoreRow
    <3>7. Limit \in Nat BY TryingFinite
    <3> QED BY <2>8, <3>4, <3>6, <3>7
  <2> QED BY <1>1, <2>1, <2>6, <2>7, <2>8
<1>8. RateBounded' BY <1>7 DEF RateBounded, InWindow
<1> QED BY <1>3, <1>6, <1>8 DEF TokensOK

-----------------------------------------------------------------------------
(* Administrators. *)
LEMMA AdminFrame ==
    ASSUME AdminsOK, Aside(AdminLabel), UNCHANGED adminVars
    PROVE  AdminsOK'
<1>1. \A r \in Req : AdminHeld(r)'
    BY DEF AdminsOK, AdminHeld, AdminLabel, AdminsExcused, ActiveAdmins, Admins, Aside, adminVars
<1>2. AnAdminRemains'
    BY DEF AdminsOK, AnAdminRemains, ActiveAdmins, Admins, Aside, adminVars
<1> QED BY <1>1, <1>2 DEF AdminsOK, adminVars

(* One request of an administrator ends or goes on to its write. *)
LEMMA AdminEnds ==
    ASSUME AdminsOK, NEW r \in Req, Keeps(r), UNCHANGED adminVars,
           pc'[r] \notin AdminLabel
               \/ (pc[r] = "set_role" /\ pc'[r] = "set_role_write" /\ loc'[r] = loc[r])
    PROVE  AdminsOK'
<1>0. UNCHANGED <<role, active, ghosted>> BY DEF adminVars
<1>1. ActiveAdmins' = ActiveAdmins BY <1>0 DEF ActiveAdmins, Admins
<1>2. AdminsExcused => AdminsExcused' BY <1>0 DEF AdminsExcused, Keeps
<1>3. ASSUME NEW q \in Req PROVE AdminHeld(q)'
  <2>1. AdminHeld(q) BY DEF AdminsOK
  <2>2. CASE q # r BY <1>1, <1>2, <2>1, <2>2 DEF AdminHeld, Keeps
  <2>3. CASE q = r BY <1>1, <1>2, <2>1, <2>3 DEF AdminHeld, AdminLabel
  <2> QED BY <2>2, <2>3
<1>4. AnAdminRemains' BY <1>0, <1>1 DEF AdminsOK, AnAdminRemains, Keeps
<1> QED BY <1>0, <1>3, <1>4 DEF AdminsOK

(* A request of an administrator begins. *)
LEMMA AdminBegins ==
    ASSUME AdminsOK, NEW r \in Req, Keeps(r), UNCHANGED <<role, active>>, NEW by \in Admins,
           ghosted' = (ghosted \/ ~active[by]),
           loc'[r].on = "users", loc'[r].by = by,
           loc'[r].user # by \/ (pc'[r] = "set_status" /\ loc'[r].active)
    PROVE  AdminsOK'
<1>1. ActiveAdmins' = ActiveAdmins BY DEF ActiveAdmins, Admins
<1>2. AdminsExcused => AdminsExcused' BY DEF AdminsExcused, Keeps
<1>3. AdminsExcused' \/ by \in ActiveAdmins BY DEF AdminsExcused, ActiveAdmins
<1>4. ASSUME NEW q \in Req PROVE AdminHeld(q)'
  <2>1. AdminHeld(q) BY DEF AdminsOK
  <2>2. CASE q # r BY <1>1, <1>2, <2>1, <2>2 DEF AdminHeld, Keeps
  <2>3. CASE q = r BY <1>1, <1>3, <2>3 DEF AdminHeld
  <2> QED BY <2>2, <2>3
<1>5. AnAdminRemains' BY <1>1 DEF AdminsOK, AnAdminRemains, Keeps
<1> QED BY <1>4, <1>5 DEF AdminsOK

(* The write, when no other is under way and nobody is excused: the        *)
(* administrator who asked for it is one after it.                         *)
LEMMA AdminWrites ==
    ASSUME AdminsOK, RequestsOK, NEW r \in Req, Keeps(r), pc[r] \in AdminLabel, pc'[r] = "idle",
           UNCHANGED ghosted, DOMAIN role' = User, DOMAIN active' = User,
           AdminsExcused \/ ActiveAdmins' # {}
    PROVE  AdminsOK'
<1>1. AdminsExcused => AdminsExcused' BY DEF AdminsExcused, Keeps
<1>2. ASSUME NEW q \in Req PROVE AdminHeld(q)'
  <2>1. AdminHeld(q) /\ AdminHeld(r) BY DEF AdminsOK
  <2>2. CASE q = r BY <2>2 DEF AdminHeld, AdminLabel
  <2>3. CASE q # r /\ pc[q] \in AdminLabel
    <3>1. AdminsExcused
        BY <2>1, <2>3 DEF RequestsOK, Busy, AdminHeld, AdminLabel, AdminsExcused
    <3> QED BY <1>1, <2>1, <2>3, <3>1 DEF AdminHeld, Keeps
  <2>4. CASE q # r /\ pc[q] \notin AdminLabel BY <2>4 DEF AdminHeld, Keeps
  <2> QED BY <2>2, <2>3, <2>4
<1>3. AnAdminRemains' BY <1>1 DEF AnAdminRemains, AdminsExcused
<1> QED BY <1>2, <1>3 DEF AdminsOK

LEMMA AdminStepOK ==
    ASSUME AccessInv, NEW r \in Req,
           \/ SetStatusWrite(r) \/ SetRoleCount(r) \/ SetRoleWrite(r)
           \/ \E by, u \in User : \/ \E on \in BOOLEAN : SetStatus(r, by, u, on)
                                  \/ \E to \in {"admin", "user"} : SetRole(r, by, u, to)
    PROVE  /\ AdminsOK' /\ Keeps(r)
           /\ pc[r] \in AdminLabel \cup {"idle"} /\ pc'[r] \in AdminLabel \cup {"idle"}
<1>0. AdminsOK /\ RequestsOK /\ AdminHeld(r) BY DEF AccessInv, AdminsOK
<1>1. CASE SetStatusWrite(r)
  <2>1. /\ Keeps(r) /\ pc[r] = "set_status" /\ pc'[r] = "idle" /\ UNCHANGED <<role, ghosted>>
        /\ active' = [active EXCEPT ![loc[r].user] = loc[r].active]
      BY <1>0, <1>1, EndKeeps DEF SetStatusWrite, StaysOrEnds
  <2>2. AdminsExcused \/ loc[r].by \in ActiveAdmins'
    <3> SUFFICES ASSUME ~AdminsExcused PROVE loc[r].by \in ActiveAdmins'
        OBVIOUS
    <3>1. loc[r].by \in ActiveAdmins /\ (loc[r].user # loc[r].by \/ loc[r].active)
        BY <1>0, <2>1 DEF AdminHeld, AdminLabel
    <3>2. loc[r].by \in User /\ role[loc[r].by] = "admin" /\ active[loc[r].by]
        BY <3>1 DEF ActiveAdmins, Admins
    <3>3. active'[loc[r].by] BY <1>0, <2>1, <3>1, <3>2 DEF AdminsOK
    <3> QED BY <2>1, <3>2, <3>3 DEF ActiveAdmins, Admins
  <2>3. DOMAIN role' = User /\ DOMAIN active' = User BY <1>0, <2>1 DEF AdminsOK
  <2>4. AdminsOK' BY <1>0, <2>1, <2>2, <2>3, AdminWrites DEF AdminLabel
  <2> QED BY <2>1, <2>4 DEF AdminLabel
<1>2. CASE SetRoleCount(r)
  <2>1. pc[r] = "set_role" /\ UNCHANGED adminVars BY <1>2 DEF SetRoleCount, accessVars
  <2>2. CASE End(r)
    <3>1. Keeps(r) /\ pc'[r] = "idle" BY <1>0, <2>2, EndKeeps DEF StaysOrEnds
    <3> QED BY <1>0, <2>1, <3>1, AdminEnds DEF AdminLabel
  <2>3. CASE Goto(r, "set_role_write", loc[r])
    <3>1. Keeps(r) /\ pc'[r] = "set_role_write" /\ loc'[r] = loc[r]
        BY <1>0, <2>1, <2>3, GotoKeeps
    <3> QED BY <1>0, <2>1, <3>1, AdminEnds DEF AdminLabel
  <2> QED BY <1>2, <2>2, <2>3 DEF SetRoleCount
<1>3. CASE SetRoleWrite(r)
  <2>1. /\ Keeps(r) /\ pc[r] = "set_role_write" /\ pc'[r] = "idle" /\ UNCHANGED <<active, ghosted>>
        /\ role' = [role EXCEPT ![loc[r].user] = loc[r].role]
      BY <1>0, <1>3, EndKeeps DEF SetRoleWrite, StaysOrEnds
  <2>2. AdminsExcused \/ loc[r].by \in ActiveAdmins'
    <3> SUFFICES ASSUME ~AdminsExcused PROVE loc[r].by \in ActiveAdmins'
        OBVIOUS
    <3>1. loc[r].by \in ActiveAdmins /\ loc[r].user # loc[r].by
        BY <1>0, <2>1 DEF AdminHeld, AdminLabel
    <3>2. loc[r].by \in User /\ role[loc[r].by] = "admin" /\ active[loc[r].by]
        BY <3>1 DEF ActiveAdmins, Admins
    <3>3. role'[loc[r].by] = "admin" BY <1>0, <2>1, <3>1, <3>2 DEF AdminsOK
    <3> QED BY <2>1, <3>2, <3>3 DEF ActiveAdmins, Admins
  <2>3. DOMAIN role' = User /\ DOMAIN active' = User BY <1>0, <2>1 DEF AdminsOK
  <2>4. AdminsOK' BY <1>0, <2>1, <2>2, <2>3, AdminWrites DEF AdminLabel
  <2> QED BY <2>1, <2>4 DEF AdminLabel
<1>4. ASSUME NEW by \in User, NEW u \in User, NEW on \in BOOLEAN, SetStatus(r, by, u, on)
      PROVE  AdminsOK' /\ Keeps(r) /\ pc[r] = "idle" /\ pc'[r] \in AdminLabel
  <2>1. PICK d : d = [on |-> "users", by |-> by, user |-> u, active |-> on] OBVIOUS
  <2>2. /\ Keeps(r) /\ pc[r] = "idle" /\ pc'[r] = "set_status" /\ loc'[r] = d
        /\ UNCHANGED <<role, active>> /\ by \in Admins /\ ghosted' = (ghosted \/ ~active[by])
        /\ u # by \/ on
      BY <1>0, <1>4, <2>1, BeginKeeps DEF SetStatus
  <2>3. AdminsOK' BY <1>0, <2>1, <2>2, AdminBegins
  <2> QED BY <2>2, <2>3 DEF AdminLabel
<1>5. ASSUME NEW by \in User, NEW u \in User, NEW to, SetRole(r, by, u, to)
      PROVE  AdminsOK' /\ Keeps(r) /\ pc[r] = "idle" /\ pc'[r] \in AdminLabel
  <2>1. PICK d : d = [on |-> "users", by |-> by, user |-> u, role |-> to] OBVIOUS
  <2>2. /\ Keeps(r) /\ pc[r] = "idle" /\ pc'[r] = "set_role" /\ loc'[r] = d
        /\ UNCHANGED <<role, active>> /\ by \in Admins /\ ghosted' = (ghosted \/ ~active[by])
        /\ u # by
      BY <1>0, <1>5, <2>1, BeginKeeps DEF SetRole
  <2>3. AdminsOK' BY <1>0, <2>1, <2>2, AdminBegins
  <2> QED BY <2>2, <2>3 DEF AdminLabel
<1> QED BY <1>1, <1>2, <1>3, <1>4, <1>5

-----------------------------------------------------------------------------
(* Members of a ledger. *)
LEMMA ShareFrame ==
    ASSUME SharingOK, Aside(ShareLabel), UNCHANGED shareVars
    PROVE  SharingOK'
<1>0. UNCHANGED <<member, invitation, removed, unfinished>> BY DEF shareVars
<1>1. \A r \in Req : SharingHeld(r)'
    BY <1>0 DEF SharingOK, SharingHeld, ShareLabel, Aside
<1>2. ASSUME NEW u \in Invitee PROVE MemberOK(u)'
  <2>1. MemberOK(u) BY DEF SharingOK
  <2>2. Marking(u) => Marking(u)' BY DEF Marking, Aside, ShareLabel
  <2>3. ShareExcused(u) => ShareExcused(u)' BY <1>0 DEF ShareExcused, Aside
  <2> QED BY <1>0, <2>1, <2>2, <2>3 DEF MemberOK, Pending
<1> QED BY <1>0, <1>1, <1>2 DEF SharingOK

(* A step of r about the membership of u. *)
LEMMA ShareStep ==
    ASSUME SharingOK, NEW r \in Req, Keeps(r), NEW u \in Invitee,
           unfinished \subseteq unfinished', removed' \subseteq removed \cup {u},
           DOMAIN member' = Invitee, DOMAIN invitation' = Invitee,
           \A v \in Invitee \ {u} : member'[v] = member[v] /\ invitation'[v] = invitation[v],
           pc[r] = "accept_status" => loc[r].on = u,
           \/ u \notin removed' \ removed \/ ShareExcused(u)'
              \/ \A q \in Req \ {r} : pc[q] \in ShareLabel => loc[q].on # u,
           SharingHeld(r)', MemberOK(u)'
    PROVE  SharingOK'
<1>1. ASSUME NEW v \in Invitee PROVE MemberOK(v)'
  <2>1. CASE v = u BY <2>1
  <2>2. CASE v # u
    <3>1. MemberOK(v) BY DEF SharingOK
    <3>2. Marking(v) => Marking(v)' BY <2>2 DEF Marking, Keeps
    <3>3. ShareExcused(v) => ShareExcused(v)' BY DEF ShareExcused, Keeps
    <3> QED BY <2>2, <3>1, <3>2, <3>3 DEF MemberOK, Pending
  <2> QED BY <2>1, <2>2
<1>2. ASSUME NEW q \in Req PROVE SharingHeld(q)'
  <2>1. CASE q = r BY <2>1
  <2>2. CASE q # r BY <2>2 DEF SharingOK, SharingHeld, Keeps, ShareExcused
  <2> QED BY <2>1, <2>2
<1> QED BY <1>1, <1>2 DEF SharingOK

LEMMA ShareServeOK ==
    ASSUME AccessInv, NEW r \in Req, NEW u \in Invitee,
           Decline(r, u) \/ RemoveMember(r, u) \/ \E as \in MemberRole : Invite(r, u, as)
    PROVE  SharingOK' /\ Keeps(r) /\ UNCHANGED <<pc, loc>>
<1>0. SharingOK /\ RequestsOK /\ MemberOK(u) /\ SharingHeld(r) /\ Serve(r, u) /\ unfinished' = unfinished
    BY DEF SharingOK, AccessInv, Decline, RemoveMember, Invite
<1>1. /\ Keeps(r) /\ UNCHANGED <<pc, loc>> /\ pc[r] = "idle"
      /\ WorkingOn(u) # {} => u \in raced'
    BY <1>0, ServeKeeps DEF StaysOrEnds, Serve, Busy
<1>2. SharingHeld(r)' BY <1>1 DEF SharingHeld, ShareLabel
<1>3. ShareExcused(u) => ShareExcused(u)' BY <1>0, <1>1 DEF ShareExcused, Keeps
<1>4. \A q \in Req : pc[q] \in ShareLabel /\ loc[q].on = u => u \in raced'
    BY <1>1 DEF WorkingOn, Busy, ShareLabel
<1>5. Marking(u) => u \in raced' BY <1>4 DEF Marking, ShareLabel
<1>6. CASE Decline(r, u)
  <2>1. /\ UNCHANGED <<member, removed>> /\ invitation' = [invitation EXCEPT ![u].status = "declined"]
      BY <1>6 DEF Decline
  <2>2. /\ DOMAIN member' = Invitee /\ DOMAIN invitation' = Invitee
        /\ \A v \in Invitee \ {u} : invitation'[v] = invitation[v]
      BY <1>0, <2>1 DEF SharingOK
  <2>4. ~Pending(u)' BY <1>0, <2>1 DEF SharingOK, Pending
  <2>5. MemberOK(u)' BY <1>0, <1>3, <2>1, <2>4 DEF MemberOK
  <2>6. SharingOK' BY <1>0, <1>1, <1>2, <2>1, <2>2, <2>5, ShareStep DEF ShareLabel
  <2> QED BY <1>1, <2>6
<1>7. CASE RemoveMember(r, u)
  <2>1. /\ member[u] # "none" /\ member' = [member EXCEPT ![u] = "none"]
        /\ removed' = removed \cup {u} /\ UNCHANGED invitation
      BY <1>7 DEF RemoveMember
  <2>2. /\ DOMAIN member' = Invitee /\ DOMAIN invitation' = Invitee /\ member'[u] = "none"
        /\ \A v \in Invitee \ {u} : member'[v] = member[v]
      BY <1>0, <2>1 DEF SharingOK
  <2>3. Pending(u)' <=> Pending(u) BY <2>1 DEF Pending
  <2>4. ShareExcused(u)' \/ ~Pending(u)
      BY <1>0, <1>3, <1>5, <2>1 DEF MemberOK, ShareExcused
  <2>5. MemberOK(u)' BY <1>0, <2>1, <2>2, <2>3, <2>4 DEF MemberOK
  <2>6. SharingOK'
    <3>1. ShareExcused(u)' \/ \A q \in Req \ {r} : pc[q] \in ShareLabel => loc[q].on # u
        BY <1>4 DEF ShareExcused
    <3>2. unfinished \subseteq unfinished' /\ removed' \subseteq removed \cup {u}
          /\ pc[r] # "accept_status"
        BY <1>0, <1>1, <2>1
    <3> QED BY <1>0, <1>1, <1>2, <2>1, <2>2, <2>5, <3>1, <3>2, ShareStep
  <2> QED BY <1>1, <2>6
<1>8. ASSUME NEW as \in MemberRole, Invite(r, u, as) PROVE SharingOK'
  <2>1. /\ member[u] = "none" /\ UNCHANGED member /\ removed' = removed \ {u}
        /\ invitation' = [invitation EXCEPT ![u] = [status |-> "pending", role |-> as]]
      BY <1>8 DEF Invite
  <2>2. /\ DOMAIN member' = Invitee /\ DOMAIN invitation' = Invitee
        /\ invitation'[u] = [status |-> "pending", role |-> as]
        /\ \A v \in Invitee \ {u} : invitation'[v] = invitation[v]
      BY <1>0, <2>1 DEF SharingOK
  <2>3. MemberOK(u)' BY <1>0, <2>1, <2>2 DEF MemberOK
  <2> QED BY <1>0, <1>1, <1>2, <2>1, <2>2, <2>3, ShareStep DEF ShareLabel
<1> QED BY <1>1, <1>6, <1>7, <1>8

LEMMA AcceptOK ==
    ASSUME AccessInv, NEW r \in Req,
           AcceptMember(r) \/ AcceptStatus(r) \/ \E u \in Invitee : AcceptRead(r, u)
    PROVE  /\ SharingOK' /\ Keeps(r)
           /\ pc[r] \in ShareLabel \cup {"idle"} /\ pc'[r] \in ShareLabel \cup {"idle"}
<1>0. SharingOK /\ RequestsOK /\ SharingHeld(r) BY DEF SharingOK, AccessInv
<1>1. CASE AcceptMember(r)
  <2>0. PICK u : u = loc[r].on OBVIOUS
  <2>1. /\ pc[r] = "accept_member" /\ member' = [member EXCEPT ![u] = loc[r].role]
        /\ UNCHANGED <<invitation, removed, unfinished>> /\ Goto(r, "accept_status", loc[r])
      BY <1>1, <2>0 DEF AcceptMember
  <2>2. Keeps(r) /\ pc'[r] = "accept_status" /\ loc'[r] = loc[r] /\ raced' = raced
      BY <1>0, <2>1, GotoKeeps
  <2>3. u \in Invitee /\ loc[r].role \in MemberRole /\ (u \in removed => ShareExcused(u)) /\ MemberOK(u)
      BY <1>0, <2>0, <2>1 DEF SharingOK, SharingHeld, ShareLabel, ShareExcused
  <2>4. /\ DOMAIN member' = Invitee /\ DOMAIN invitation' = Invitee /\ member'[u] = loc[r].role
        /\ \A v \in Invitee \ {u} : member'[v] = member[v]
      BY <1>0, <2>1, <2>3 DEF SharingOK
  <2>5. Marking(u)' BY <2>0, <2>2 DEF Marking
  <2>6. ShareExcused(u)' <=> ShareExcused(u) BY <2>1, <2>2 DEF ShareExcused
  <2>7. Pending(u)' <=> Pending(u) BY <2>1 DEF Pending
  <2>8. MemberOK(u)' BY <2>1, <2>3, <2>4, <2>5, <2>6, <2>7 DEF MemberOK
  <2>9. SharingHeld(r)' BY <1>0, <2>1, <2>2 DEF SharingHeld, ShareLabel
  <2>10. SharingOK'
      BY <1>0, <2>0, <2>1, <2>2, <2>3, <2>4, <2>8, <2>9, ShareStep DEF ShareExcused
  <2> QED BY <2>1, <2>2, <2>10 DEF ShareLabel
<1>2. CASE AcceptStatus(r)
  <2>0. PICK u : u = loc[r].on OBVIOUS
  <2>1. /\ pc[r] = "accept_status" /\ invitation' = [invitation EXCEPT ![u].status = "accepted"]
        /\ UNCHANGED <<member, removed, unfinished>> /\ End(r)
      BY <1>2, <2>0 DEF AcceptStatus
  <2>2. Keeps(r) /\ pc'[r] = "idle" /\ raced' = raced
      BY <1>0, <2>1, EndKeeps DEF StaysOrEnds
  <2>3. u \in Invitee /\ (u \in removed => ShareExcused(u)) /\ MemberOK(u)
      BY <1>0, <2>0, <2>1 DEF SharingOK, SharingHeld, ShareLabel, ShareExcused
  <2>4. /\ DOMAIN member' = Invitee /\ DOMAIN invitation' = Invitee
        /\ \A v \in Invitee \ {u} : invitation'[v] = invitation[v]
      BY <1>0, <2>1, <2>3 DEF SharingOK
  <2>5. ~Pending(u)' BY <1>0, <2>1, <2>3 DEF Pending, SharingOK
  <2>6. ShareExcused(u)' <=> ShareExcused(u) BY <2>1, <2>2 DEF ShareExcused
  <2>7. MemberOK(u)' BY <2>1, <2>3, <2>5, <2>6 DEF MemberOK
  <2>8. SharingHeld(r)' BY <2>2 DEF SharingHeld, ShareLabel
  <2>9. SharingOK'
      BY <1>0, <2>0, <2>1, <2>2, <2>3, <2>4, <2>7, <2>8, ShareStep DEF ShareExcused
  <2> QED BY <2>1, <2>2, <2>9 DEF ShareLabel
<1>3. ASSUME NEW u \in Invitee, AcceptRead(r, u)
      PROVE  /\ SharingOK' /\ Keeps(r)
             /\ pc[r] \in ShareLabel \cup {"idle"} /\ pc'[r] \in ShareLabel \cup {"idle"}
  <2>1. UNCHANGED shareVars /\ UNCHANGED <<member, invitation, removed, unfinished>>
      BY <1>3 DEF AcceptRead, accessVars, shareVars
  <2>2. CASE Serve(r, u)
    <3>1. Keeps(r) /\ UNCHANGED <<pc, loc>> /\ pc[r] = "idle"
        BY <1>0, <2>2, ServeKeeps DEF StaysOrEnds, Serve, Busy
    <3> QED BY <1>0, <2>1, <3>1, AsideStep, ShareFrame
  <2>3. CASE /\ invitation[u].status = "pending"
             /\ Begin(r, "accept_member", [on |-> u, role |-> invitation[u].role])
    <3>1. /\ Keeps(r) /\ pc[r] = "idle" /\ pc'[r] = "accept_member"
          /\ loc'[r] = [on |-> u, role |-> invitation[u].role]
        BY <1>0, <2>3, BeginKeeps
    <3>2. MemberOK(u) BY <1>0 DEF SharingOK
    <3>3. ShareExcused(u) => ShareExcused(u)' BY <2>1, <3>1 DEF ShareExcused, Keeps
    <3>4. u \in removed => ShareExcused(u)' BY <2>3, <3>2, <3>3 DEF MemberOK, Pending
    <3>5. SharingHeld(r)' BY <2>1, <2>3, <3>1, <3>2, <3>4 DEF SharingHeld, ShareExcused, MemberOK, Pending
    <3>6. Marking(u) => Marking(u)' BY <3>1 DEF Marking, Keeps
    <3>7. MemberOK(u)' BY <2>1, <3>2, <3>3, <3>6 DEF MemberOK, Pending
    <3>8. SharingOK'
        BY <1>0, <2>1, <3>1, <3>4, <3>5, <3>7, ShareStep DEF SharingOK, ShareExcused, ShareLabel
    <3> QED BY <3>1, <3>8 DEF ShareLabel
  <2> QED BY <1>3, <2>2, <2>3 DEF AcceptRead
<1> QED BY <1>1, <1>2, <1>3

-----------------------------------------------------------------------------
(* The parts together: a step of one leaves the others their requests.     *)
LEMMA LoginElsewhere ==
    ASSUME AccessInv, NEW r \in Req, Keeps(r), UNCHANGED <<now, loginVars>>,
           pc[r] \notin FactorLabel \cup {"login_verify"},
           pc'[r] \notin FactorLabel \cup {"login_verify"}
    PROVE  LoginOK' /\ FactorOK'
<1>1. Aside({"login_verify"}) /\ Aside(FactorLabel) BY AsideStep
<1> QED BY <1>1, LoginFrame, FactorFrame DEF AccessInv, loginVars

LEMMA OthersElsewhere ==
    ASSUME AccessInv, NEW r \in Req, Keeps(r), UNCHANGED <<now, sessionVars, tokenVars>>
    PROVE  /\ RequestsOK' /\ now' \in Time /\ SessionsOK' /\ TokensOK'
           /\ pc[r] \notin AdminLabel /\ pc'[r] \notin AdminLabel /\ UNCHANGED adminVars => AdminsOK'
           /\ pc[r] \notin ShareLabel /\ pc'[r] \notin ShareLabel /\ UNCHANGED shareVars => SharingOK'
<1>1. RequestsOK' /\ now' \in Time /\ SessionsOK' /\ TokensOK'
    BY SessionsFrame, TokensFrame DEF AccessInv, Keeps
<1>2. ASSUME pc[r] \notin AdminLabel /\ pc'[r] \notin AdminLabel, UNCHANGED adminVars PROVE AdminsOK'
    BY <1>2, AsideStep, AdminFrame DEF AccessInv
<1>3. ASSUME pc[r] \notin ShareLabel /\ pc'[r] \notin ShareLabel, UNCHANGED shareVars PROVE SharingOK'
    BY <1>3, AsideStep, ShareFrame DEF AccessInv
<1> QED BY <1>1, <1>2, <1>3

(* No request moves. *)
LEMMA StillElsewhere ==
    ASSUME AccessInv, UNCHANGED <<reqVars, adminVars, shareVars>>
    PROVE  /\ RequestsOK' /\ AdminsOK' /\ SharingOK'
           /\ UNCHANGED <<now, fails>> => LoginOK'
           /\ UNCHANGED <<totp, codes, usedSteps, stepTwice, codeTwice, spent>> => FactorOK'
<1>1. /\ Aside({"login_verify"}) /\ Aside(FactorLabel) /\ Aside(AdminLabel) /\ Aside(ShareLabel)
      /\ RequestsOK'
    BY AsideStill DEF AccessInv
<1>2. AdminsOK' /\ SharingOK' BY <1>1, AdminFrame, ShareFrame DEF AccessInv
<1>3. ASSUME UNCHANGED <<now, fails>> PROVE LoginOK' BY <1>1, <1>3, LoginFrame DEF AccessInv
<1>4. ASSUME UNCHANGED <<totp, codes, usedSteps, stepTwice, codeTwice, spent>> PROVE FactorOK'
    BY <1>1, <1>4, FactorFrame DEF AccessInv
<1> QED BY <1>1, <1>2, <1>3, <1>4

LEMMA ClockOK ==
    ASSUME AccessInv, Tick \/ PruneAttempts PROVE AccessInv'
<1>1. now \in Int BY DEF AccessInv, Time
<1>2. CASE Tick
  <2>1. /\ now' = now + 1 /\ now' \in Time /\ now' \in Int /\ now <= now'
        /\ UNCHANGED <<reqVars, loginVars, sessionVars, tokenVars, adminVars, shareVars>>
        /\ UNCHANGED <<pc, loc, fails, session, visited, begun>>
        /\ UNCHANGED <<totp, codes, usedSteps, stepTwice, codeTwice, spent>>
      BY <1>1, <1>2, AccessAssumption DEF Tick, AccessInv, Time, reqVars, loginVars, sessionVars
  <2>2. LoginOK'
    <3>1. DOMAIN fails' = Account BY <2>1 DEF AccessInv, LoginOK
    <3> QED BY <1>1, <2>1, <3>1, LoginLess DEF AccessInv
  <2>3. SessionsOK'
    <3>1. /\ DOMAIN session' = Account /\ DOMAIN visited' = Account /\ DOMAIN begun' = Account
          /\ SessionsOK /\ now \in Time
        BY <2>1 DEF AccessInv, SessionsOK
    <3> QED BY <2>1, <3>1, SessionsStep
  <2>4. TokensOK' BY <2>1, TokensTick DEF AccessInv
  <2> QED BY <2>1, <2>2, <2>3, <2>4, StillElsewhere DEF AccessInv
<1>3. CASE PruneAttempts
  <2>1. /\ UNCHANGED <<now, reqVars, sessionVars, tokenVars, adminVars, shareVars>>
        /\ UNCHANGED <<pc, loc>> /\ UNCHANGED <<totp, codes, usedSteps, stepTwice, codeTwice, spent>>
        /\ fails' = [u \in Account |-> {x \in fails[u] : x.at > now - Window}]
      BY <1>3 DEF PruneAttempts, reqVars
  <2>2. LoginOK'
    <3>1. DOMAIN fails' = Account /\ \A u \in Account : fails'[u] \subseteq fails[u] BY <2>1
    <3> QED BY <1>1, <2>1, <3>1, LoginLess DEF AccessInv
  <2> QED BY <2>1, <2>2, StillElsewhere, SessionsFrame, TokensFrame DEF AccessInv
<1> QED BY <1>2, <1>3

LEMMA LoginStepOK ==
    ASSUME AccessInv, NEW r \in Req,
           LoginFail(r) \/ LoginPass(r) \/ \E u \in Account : LoginSubmit(r, u)
    PROVE  AccessInv'
<1>0. /\ UNCHANGED <<now, sessionVars, tokenVars, adminVars, shareVars>>
      /\ UNCHANGED <<totp, codes, usedSteps, stepTwice, codeTwice, spent>>
      /\ RequestsOK /\ LoginOK /\ FactorOK /\ LoginHeld(r) /\ now \in Int
  <2>1. CASE LoginFail(r) \/ LoginPass(r) BY <2>1 DEF LoginFail, LoginPass, AccessInv, LoginOK, Time
  <2>2. CASE \E u \in Account : LoginSubmit(r, u)
      BY <2>2 DEF LoginSubmit, accessVars, loginVars, AccessInv, LoginOK, Time
  <2> QED BY <2>1, <2>2
<1>1. SUFFICES /\ LoginOK' /\ FactorOK' /\ Keeps(r)
               /\ pc[r] \notin AdminLabel \cup ShareLabel /\ pc'[r] \notin AdminLabel \cup ShareLabel
    BY <1>0, OthersElsewhere DEF AccessInv
<1>2. CASE LoginFail(r)
  <2>1. Keeps(r) /\ pc[r] = "login_verify" /\ pc'[r] = "idle"
      BY <1>0, <1>2, EndKeeps DEF LoginFail, StaysOrEnds
  <2> QED BY <1>0, <1>2, <2>1, LoginFailOK, FactorEnds DEF FactorLabel, AdminLabel, ShareLabel
<1>3. CASE LoginPass(r)
  <2>0. PICK u : u = loc[r].on OBVIOUS
  <2>1. pc[r] = "login_verify" /\ u \in Account
      BY <1>0, <1>3, <2>0 DEF LoginPass, LoginHeld
  <2>2. /\ Keeps(r)
        /\ \/ pc'[r] = "login_2fa" /\ loc'[r] = [on |-> u] /\ UNCHANGED fails
           \/ /\ pc'[r] = "idle"
              /\ fails' = [fails EXCEPT ![u] = {x \in @ : x.at <= loc[r].at - Window}]
    <3>1. CASE Goto(r, "login_2fa", [on |-> u]) /\ UNCHANGED fails
        BY <1>0, <2>0, <2>1, <3>1, GotoKeeps
    <3>2. CASE End(r) /\ fails' = [fails EXCEPT ![u] = {x \in @ : x.at <= loc[r].at - Window}]
        BY <1>0, <3>2, EndKeeps DEF StaysOrEnds
    <3> QED BY <1>3, <2>0, <3>1, <3>2 DEF LoginPass
  <2>3. DOMAIN fails' = Account /\ \A v \in Account : fails'[v] \subseteq fails[v]
      BY <1>0, <2>2 DEF LoginOK
  <2>4. LoginOK' BY <1>0, <2>1, <2>2, <2>3, LoginLess DEF Keeps
  <2>5. FactorOK' BY <1>0, <2>1, <2>2, FactorEnds DEF FactorLabel
  <2> QED BY <2>1, <2>2, <2>4, <2>5 DEF AdminLabel, ShareLabel
<1>4. ASSUME NEW u \in Account, LoginSubmit(r, u)
      PROVE  /\ LoginOK' /\ FactorOK' /\ Keeps(r)
             /\ pc[r] \notin AdminLabel \cup ShareLabel /\ pc'[r] \notin AdminLabel \cup ShareLabel
  <2>1. CASE Throttled(u, now)
    <3>1. Keeps(r) /\ UNCHANGED <<pc, loc>> /\ pc[r] = "idle" /\ UNCHANGED loginVars
        BY <1>0, <1>4, <2>1, ServeKeeps DEF LoginSubmit, StaysOrEnds, Serve, Busy, accessVars
    <3>2. pc'[r] = "idle" BY <3>1
    <3> QED BY <1>0, <3>1, <3>2, LoginElsewhere DEF FactorLabel, AdminLabel, ShareLabel
  <2>2. CASE ~Throttled(u, now)
    <3>1. Begin(r, "login_verify", [on |-> u, at |-> now]) BY <1>4, <2>2 DEF LoginSubmit
    <3>2. Keeps(r) /\ pc[r] = "idle" /\ pc'[r] = "login_verify" BY <1>0, <3>1, BeginKeeps
    <3> QED BY <1>0, <1>4, <2>2, <3>1, <3>2, LoginSubmitOK, FactorEnds
            DEF FactorLabel, AdminLabel, ShareLabel
  <2> QED BY <2>1, <2>2
<1> QED BY <1>2, <1>3, <1>4

LEMMA FactorStepOK ==
    ASSUME AccessInv, NEW r \in Req,
           \/ TotpAdvance(r) \/ RecoveryConsume(r) \/ EnrollCodes(r)
           \/ \E step \in Time : TotpVerify(r, step)
           \/ \E c \in RecoveryCode : RecoveryLock(r, c)
           \/ \E u \in Account : Enroll(r, u) \/ RegenCodes(r, u) \/ TotpDisable(r, u)
    PROVE  AccessInv'
<1>0. /\ UNCHANGED <<now, fails, sessionVars, tokenVars, adminVars, shareVars>>
      /\ RequestsOK /\ FactorOK /\ FactorHeld(r)
    BY DEF TotpAdvance, RecoveryConsume, EnrollCodes, TotpVerify, RecoveryLock, Enroll, RegenCodes,
           TotpDisable, RegenerateRecoveryCodes, accessVars, loginVars, AccessInv, FactorOK
<1> DEFINE Own == FactorLabel \cup {"idle"}
<1>1. SUFFICES /\ FactorOK' /\ Keeps(r)
               /\ \/ UNCHANGED pc /\ UNCHANGED loc
                  \/ pc[r] \in Own /\ pc'[r] \in Own
  <2>1. CASE pc[r] \in Own /\ pc'[r] \in Own
    <3>1. /\ pc[r] \notin {"login_verify"} /\ pc[r] \notin AdminLabel /\ pc[r] \notin ShareLabel
          /\ pc'[r] \notin {"login_verify"} /\ pc'[r] \notin AdminLabel /\ pc'[r] \notin ShareLabel
        BY <2>1 DEF FactorLabel, AdminLabel, ShareLabel
    <3>2. LoginOK' BY <1>0, <1>1, <3>1, AsideStep, LoginFrame DEF AccessInv
    <3> QED BY <1>0, <1>1, <3>1, <3>2, OthersElsewhere DEF AccessInv
  <2>2. CASE UNCHANGED pc /\ UNCHANGED loc
    <3>1. Aside({"login_verify"}) /\ Aside(AdminLabel) /\ Aside(ShareLabel)
        BY <1>1, <2>2, AsideStep
    <3>2. LoginOK' /\ AdminsOK' /\ SharingOK'
        BY <1>0, <3>1, LoginFrame, AdminFrame, ShareFrame DEF AccessInv
    <3> QED BY <1>0, <1>1, <3>2, OthersElsewhere DEF AccessInv
  <2> QED BY <1>1, <2>1, <2>2
<1>2. CASE TotpAdvance(r) BY <1>2, TotpAdvanceOK
<1>3. CASE RecoveryConsume(r) BY <1>3, RecoveryConsumeOK
<1>4. CASE EnrollCodes(r)
  <2>1. pc[r] = "enroll_codes" /\ Keeps(r) /\ pc'[r] = "idle" /\ loc[r].on \in Account
      BY <1>0, <1>4, EndKeeps DEF EnrollCodes, StaysOrEnds, FactorHeld, FactorLabel
  <2> QED BY <1>0, <1>4, <2>1, RegenerateOK DEF EnrollCodes, FactorLabel
<1>5. ASSUME NEW step \in Time, TotpVerify(r, step)
      PROVE  FactorOK' /\ Keeps(r) /\ pc[r] \in Own /\ pc'[r] \in Own
    BY <1>5, TotpVerifyOK
<1>6. ASSUME NEW c \in RecoveryCode, RecoveryLock(r, c)
      PROVE  FactorOK' /\ Keeps(r) /\ pc[r] \in Own /\ pc'[r] \in Own
    BY <1>6, RecoveryLockOK
<1>7. ASSUME NEW u \in Account, Enroll(r, u)
      PROVE  FactorOK' /\ Keeps(r) /\ pc[r] \in Own /\ pc'[r] \in Own
    BY <1>7, EnrollOK
<1>8. ASSUME NEW u \in Account, RegenCodes(r, u)
      PROVE  FactorOK' /\ Keeps(r) /\ UNCHANGED pc /\ UNCHANGED loc
  <2>1. Keeps(r) /\ UNCHANGED pc /\ UNCHANGED loc
      BY <1>0, <1>8, ServeKeeps DEF RegenCodes, StaysOrEnds
  <2> QED BY <1>0, <1>8, <2>1, RegenerateOK DEF RegenCodes
<1>9. ASSUME NEW u \in Account, TotpDisable(r, u)
      PROVE  FactorOK' /\ Keeps(r) /\ UNCHANGED pc /\ UNCHANGED loc
    BY <1>9, TotpDisableOK DEF StaysOrEnds, TotpDisable, Serve
<1> QED BY <1>2, <1>3, <1>4, <1>5, <1>6, <1>7, <1>8, <1>9

LEMMA UserStepOK ==
    ASSUME AccessInv,
           \/ \E u \in Account : SignIn(u) \/ Visit(u) \/ Logout(u) \/ ChangePassword(u)
           \/ Restart \/ \E k \in ApiToken : ApiRequest(k) \/ RevokeToken(k)
    PROVE  AccessInv'
<1>1. /\ UNCHANGED <<now, reqVars, loginVars, adminVars, shareVars>>
      /\ UNCHANGED sessionVars \/ UNCHANGED tokenVars
    BY DEF SignIn, Visit, Logout, ChangePassword, Restart, ApiRequest, RevokeToken
<1>2. UNCHANGED <<now, fails>> /\ UNCHANGED <<totp, codes, usedSteps, stepTwice, codeTwice, spent>>
    BY <1>1 DEF loginVars
<1>3. SUFFICES SessionsOK' /\ TokensOK' BY <1>1, <1>2, StillElsewhere DEF AccessInv
<1>4. ASSUME NEW u \in Account, SignIn(u) \/ Visit(u) \/ Logout(u) \/ ChangePassword(u)
      PROVE  SessionsOK' /\ TokensOK'
  <2>1. UNCHANGED <<now, tokenVars>> BY <1>4 DEF SignIn, Visit, Logout, ChangePassword
  <2> QED BY <1>4, <2>1, SessionNextOK, TokensFrame DEF AccessInv
<1>5. CASE Restart
    BY <1>1, <1>5, RestartOK, SessionsFrame DEF AccessInv, Restart
<1>6. ASSUME NEW k \in ApiToken, ApiRequest(k) PROVE SessionsOK' /\ TokensOK'
    BY <1>1, <1>6, ApiRequestOK, SessionsFrame DEF AccessInv, ApiRequest
<1>7. ASSUME NEW k \in ApiToken, RevokeToken(k) PROVE SessionsOK' /\ TokensOK'
  <2>1. UNCHANGED <<now, hits, accepted, sessionVars>> BY <1>7 DEF RevokeToken
  <2>2. TokensOK' BY <2>1 DEF AccessInv, TokensOK, RateBounded, Recent, Hit
  <2> QED BY <2>1, <2>2, SessionsFrame DEF AccessInv
<1> QED BY <1>4, <1>5, <1>6, <1>7

LEMMA StaffStepOK ==
    ASSUME AccessInv, NEW r \in Req,
           \/ SetStatusWrite(r) \/ SetRoleCount(r) \/ SetRoleWrite(r)
           \/ \E by, u \in User : \/ \E on \in BOOLEAN : SetStatus(r, by, u, on)
                                  \/ \E to \in {"admin", "user"} : SetRole(r, by, u, to)
    PROVE  AccessInv'
<1>1. UNCHANGED <<now, loginVars, sessionVars, tokenVars, shareVars>>
    BY DEF SetStatusWrite, SetRoleCount, SetRoleWrite, SetStatus, SetRole, accessVars
<1>2. /\ AdminsOK' /\ Keeps(r)
      /\ pc[r] \in AdminLabel \cup {"idle"} /\ pc'[r] \in AdminLabel \cup {"idle"}
    BY AdminStepOK
<1>3. /\ pc[r] \notin FactorLabel \cup {"login_verify"} /\ pc[r] \notin ShareLabel
      /\ pc'[r] \notin FactorLabel \cup {"login_verify"} /\ pc'[r] \notin ShareLabel
    BY <1>2 DEF FactorLabel, AdminLabel, ShareLabel
<1> QED BY <1>1, <1>2, <1>3, LoginElsewhere, OthersElsewhere DEF AccessInv

LEMMA SharingStepOK ==
    ASSUME AccessInv, NEW r \in Req,
           \/ AcceptMember(r) \/ AcceptStatus(r)
           \/ \E u \in Invitee : \/ AcceptRead(r, u) \/ Decline(r, u) \/ RemoveMember(r, u)
                                 \/ \E as \in MemberRole : Invite(r, u, as)
    PROVE  AccessInv'
<1>1. UNCHANGED <<now, loginVars, sessionVars, tokenVars, adminVars>>
    BY DEF AcceptMember, AcceptStatus, AcceptRead, Decline, RemoveMember, Invite, accessVars
<1>2. /\ SharingOK' /\ Keeps(r)
      /\ pc[r] \in ShareLabel \cup {"idle"} /\ pc'[r] \in ShareLabel \cup {"idle"}
  <2>1. CASE AcceptMember(r) \/ AcceptStatus(r) \/ \E u \in Invitee : AcceptRead(r, u)
      BY <2>1, AcceptOK
  <2>2. ASSUME NEW u \in Invitee,
               Decline(r, u) \/ RemoveMember(r, u) \/ \E as \in MemberRole : Invite(r, u, as)
        PROVE  SharingOK' /\ Keeps(r) /\ pc[r] = "idle" /\ pc'[r] = "idle"
    <3>1. pc[r] = "idle" BY <2>2 DEF Decline, RemoveMember, Invite, Serve, Busy
    <3> QED BY <2>2, <3>1, ShareServeOK
  <2> QED BY <2>1, <2>2
<1>3. /\ pc[r] \notin FactorLabel \cup {"login_verify"} /\ pc[r] \notin AdminLabel
      /\ pc'[r] \notin FactorLabel \cup {"login_verify"} /\ pc'[r] \notin AdminLabel
    BY <1>2 DEF FactorLabel, AdminLabel, ShareLabel
<1> QED BY <1>1, <1>2, <1>3, LoginElsewhere, OthersElsewhere DEF AccessInv

LEMMA AccessCutOffOK ==
    ASSUME AccessInv, NEW r \in Req, AccessCutOff(r) PROVE AccessInv'
<1>1. /\ UNCHANGED <<now, loginVars, sessionVars, tokenVars, adminVars>>
      /\ UNCHANGED <<fails, member, invitation, removed>>
      /\ UNCHANGED <<totp, codes, usedSteps, stepTwice, codeTwice, spent>>
      /\ unfinished' = IF pc[r] = "accept_status" THEN unfinished \cup {loc[r].on} ELSE unfinished
      /\ Keeps(r) /\ pc'[r] = "idle" /\ RequestsOK /\ now \in Int
    BY EndKeeps DEF AccessCutOff, CutOff, StaysOrEnds, AccessInv, loginVars, Time
<1>2. LoginOK'
  <2>1. DOMAIN fails' = Account BY <1>1 DEF AccessInv, LoginOK
  <2> QED BY <1>1, <2>1, LoginLess DEF AccessInv, Keeps
<1>3. FactorOK' BY <1>1, FactorEnds DEF AccessInv, FactorLabel
<1>4. AdminsOK' BY <1>1, AdminEnds DEF AccessInv, AdminLabel
<1>5. SharingOK'
  <2>1. ASSUME NEW u \in Invitee PROVE MemberOK(u)'
    <3>1. MemberOK(u) BY DEF SharingOK, AccessInv
    <3>2. ShareExcused(u) => ShareExcused(u)' BY <1>1 DEF ShareExcused, Keeps
    <3>3. Marking(u) => Marking(u)' \/ ShareExcused(u)'
        BY <1>1 DEF Marking, ShareExcused, Keeps
    <3>4. Pending(u)' <=> Pending(u) BY <1>1 DEF Pending
    <3> QED BY <1>1, <3>1, <3>2, <3>3, <3>4 DEF MemberOK
  <2>2. ASSUME NEW q \in Req PROVE SharingHeld(q)'
      BY <1>1 DEF AccessInv, SharingOK, SharingHeld, ShareLabel, Keeps
  <2> QED BY <1>1, <2>1, <2>2 DEF AccessInv, SharingOK
<1> QED BY <1>1, <1>2, <1>3, <1>4, <1>5, OthersElsewhere DEF AccessInv

LEMMA AccessInitOK ==
    ASSUME InitRequests, InitAccess PROVE AccessInv
<1>1. RequestsOK /\ \A r \in Req : pc[r] = "idle"
    BY InitRequestsOK DEF InitRequests
<1>2. now \in Time /\ now = 0 /\ now \in Int BY AccessAssumption DEF InitAccess, Time
<1>3. IsFiniteSet({}) /\ Cardinality({}) = 0 BY FS_EmptySet
<1>4. LoginOK
  <2>1. \A u \in Account : fails[u] = {} BY DEF InitAccess
  <2>2. \A u \in Account : {x \in fails[u] : x.at > now - Window} = {} /\ Trying(u) = {}
      BY <1>1, <2>1 DEF Trying
  <2>3. \A u \in Account : FailuresIn(u, now) = 0 /\ Cardinality(Trying(u)) = 0
      BY <1>3, <2>2 DEF FailuresIn
  <2>4. \A u \in Account : FailuresIn(u, now) + Cardinality(Trying(u)) <= Limit - 1 + Cardinality(Req)
      BY <2>3, TryingFinite
  <2>5. DOMAIN fails = Account /\ \A r \in Req : LoginHeld(r)
      BY <1>1 DEF InitAccess, LoginHeld
  <2> QED BY <1>3, <2>1, <2>4, <2>5 DEF LoginOK
<1>5. FactorOK
    BY <1>1 DEF InitAccess, FactorOK, FactorHeld, FactorLabel, StepUsedOnce, RecoveryCodeOnce
<1>6. SessionsOK
  <2>1. \A u \in Account : session[u] = NoSession /\ visited[u] = 0 BY DEF InitAccess, NoSession
  <2> QED BY <1>2, <2>1 DEF InitAccess, SessionsOK, IdleClockFollows
<1>7. TokensOK
  <2>1. DOMAIN hits = {} /\ \A k \in ApiToken : accepted[k] = {} /\ Hit(k) = {}
      BY DEF InitAccess, Hit
  <2>2. \A k \in ApiToken, t \in Time : InWindow(accepted[k], t) = {} BY <2>1 DEF InWindow
  <2>3. RateBounded BY <1>3, <2>2, RateUnfold, TryingFinite
  <2> QED BY <1>3, <2>1, <2>3 DEF TokensOK, Recent
<1>8. AdminsOK
  <2>1. FirstAdmins \subseteq ActiveAdmins BY AccessAssumption DEF InitAccess, ActiveAdmins, Admins
  <2> QED BY <1>1, <2>1, AccessAssumption
          DEF InitAccess, AdminsOK, AnAdminRemains, AdminHeld, AdminLabel
<1>9. SharingOK
    BY <1>1 DEF InitAccess, SharingOK, MemberOK, SharingHeld, ShareLabel, Pending
<1> QED BY <1>1, <1>2, <1>4, <1>5, <1>6, <1>7, <1>8, <1>9 DEF AccessInv

LEMMA AccessStepOK ==
    ASSUME AccessInv, [AccessNext]_<<reqVars, accessVars>> PROVE AccessInv'
<1>1. CASE UNCHANGED <<reqVars, accessVars>>
    BY <1>1, StillElsewhere, SessionsFrame, TokensFrame DEF AccessInv, accessVars, loginVars
<1>2. CASE LoginNext BY <1>2, ClockOK, LoginStepOK, AccessCutOffOK DEF LoginNext
<1>3. CASE SecondFactorNext
    BY <1>3, ClockOK, LoginStepOK, FactorStepOK, AccessCutOffOK DEF SecondFactorNext
<1>4. CASE SessionNext \/ TokenNext BY <1>4, ClockOK, UserStepOK DEF SessionNext, TokenNext
<1>5. CASE AdminNext BY <1>5, StaffStepOK, AccessCutOffOK DEF AdminNext
<1>6. CASE SharingNext BY <1>6, SharingStepOK, AccessCutOffOK DEF SharingNext
<1> QED BY <1>1, <1>2, <1>3, <1>4, <1>5, <1>6 DEF AccessNext

(* The invariant of sign-in, second factor, sessions, tokens, admins and   *)
(* members holds of every behaviour in which all of them interleave.       *)
THEOREM AccessInvariant == AccessSpec => []AccessInv
<1>1. InitRequests /\ InitAccess => AccessInv BY AccessInitOK
<1>2. AccessInv /\ [AccessNext]_<<reqVars, accessVars>> => AccessInv' BY AccessStepOK
<1> QED BY <1>1, <1>2, PTL DEF AccessSpec

-----------------------------------------------------------------------------
(* The least of a set of times of the window; and a second more than the   *)
(* whole seconds to its end is past it.                                    *)
LEMMA LeastOfWindow ==
    ASSUME NEW S \in SUBSET Int, S # {}, NEW b \in Int, \A x \in S : x > b
    PROVE  Min(S) \in S /\ \A x \in S : Min(S) <= x
<1> DEFINE T == {-x : x \in S}
<1>1. PICK a \in S : TRUE OBVIOUS
<1>2. T \in SUBSET Int /\ -a \in T /\ -b \in Int /\ \A x \in T : x <= -b OBVIOUS
<1>3. \E m \in T : \A x \in T : x <= m
  <2> HIDE DEF T
  <2> QED BY <1>2, LargestOfBounded
<1>4. PICK m \in S : \A x \in S : -x <= -m BY <1>3
<1>5. \A x \in S : m <= x BY <1>4
<1> QED BY <1>5 DEF Min

LEMMA WholeSeconds ==
    ASSUME NEW left \in Int, left >= 0
    PROVE  /\ Max({0, left \div PerSecond}) = left \div PerSecond
           /\ (left \div PerSecond + 1) * PerSecond > left
           /\ (left \div PerSecond + 1) * PerSecond \in Int
<1>1. PerSecond \in Nat /\ PerSecond > 0 BY AccessAssumption
<1>2. PICK d \in Int : d = left \div PerSecond BY <1>1
<1>3. d >= 0 /\ left = PerSecond * d + (left % PerSecond) /\ left % PerSecond < PerSecond
      /\ left % PerSecond \in Int
    BY <1>1, <1>2
<1>4. (d + 1) * PerSecond > left /\ (d + 1) * PerSecond \in Int BY <1>1, <1>3
<1>5. \E x \in {0, d} : \A y \in {0, d} : x >= y BY <1>3
<1>6. Max({0, d}) \in {0, d} /\ \A y \in {0, d} : Max({0, d}) >= y BY <1>5 DEF Max
<1>7. Max({0, d}) = d BY <1>3, <1>6
<1> QED BY <1>2, <1>4, <1>7

(* At the threshold the oldest failure of the window has left it then.     *)
LEMMA RetryAfterOK ==
    ASSUME AccessInv PROVE RetryAfterSuffices
<1> SUFFICES ASSUME NEW u \in Account, FailuresIn(u, now) = Limit
             PROVE  ~Throttled(u, now + (RetryAfter(u) + 1) * PerSecond)
    BY DEF RetryAfterSuffices
<1> DEFINE F == {y \in fails[u] : y.at > now - Window}
           times == {x.at : x \in F}
<1>0. /\ Limit \in Nat /\ Limit > 0 /\ Window \in Nat /\ now \in Int
      /\ \A x \in fails[u] : x.at \in Int
    BY TryingFinite DEF AccessInv, Time, LoginOK
<1>1. IsFiniteSet(F) /\ Cardinality(F) = Limit /\ F # {}
  <2>1. IsFiniteSet(F) /\ Cardinality(F) = Limit BY FailuresFinite DEF AccessInv, FailuresIn
  <2>2. F # {} BY <1>0, <2>1, FS_EmptySet
  <2> QED BY <2>1, <2>2
<1>2. times \in SUBSET Int /\ times # {} /\ \A t \in times : t > now - Window BY <1>0, <1>1
<1>3. Min(times) \in times /\ \A t \in times : Min(times) <= t
  <2> HIDE DEF times
  <2>1. now - Window \in Int BY <1>0
  <2> QED BY <1>2, <2>1, LeastOfWindow
<1>4. PICK least \in F : least.at = Min(times) BY <1>3
<1>5. PICK left \in Int : left = least.at + Window - now BY <1>0
<1>6. left >= 0 BY <1>0, <1>5
<1>7. RetryAfter(u) = left \div PerSecond
  <2>1. RetryAfter(u) = Max({0, left \div PerSecond})
      BY <1>2, <1>4, <1>5 DEF RetryAfter
  <2> QED BY <1>6, <2>1, WholeSeconds
<1>8. PICK wait \in Int : wait = (RetryAfter(u) + 1) * PerSecond /\ wait > left
    BY <1>6, <1>7, WholeSeconds
<1>9. PICK later \in Int : later = now + wait BY <1>0, <1>8
<1> DEFINE G == {x \in fails[u] : x.at > later - Window}
<1>10. G \subseteq F \ {least}
    BY <1>0, <1>5, <1>6, <1>8, <1>9
<1>11. FailuresIn(u, later) = Cardinality(G) BY DEF FailuresIn
<1> HIDE DEF F, G
<1>12. IsFiniteSet(F \ {least}) /\ Cardinality(F \ {least}) = Cardinality(F) - 1
    BY <1>1, <1>4, FS_RemoveElement
<1>13. Cardinality(G) <= Limit - 1 /\ Cardinality(G) \in Nat
    BY <1>1, <1>10, <1>12, FewerRows
<1> QED BY <1>0, <1>8, <1>9, <1>11, <1>13 DEF Throttled

(* Attempts are throttled and never locked out, one-time codes are used    *)
(* once, sessions and tokens keep their windows, an administrator remains  *)
(* and a removed member is out: for any number of requests, users and      *)
(* tokens, and any windows and limits.                                     *)
THEOREM AccessIsSound == AccessSpec => []AccessSound
<1>1. AccessInv => AccessSound
  <2> SUFFICES ASSUME AccessInv PROVE AccessSound
      OBVIOUS
  <2>1. AccessTypeOK BY DEF AccessInv, AccessTypeOK, FactorOK, TokensOK, SharingOK, MemberOK
  <2>2. FailuresBounded
    <3> SUFFICES ASSUME NEW u \in Account
                 PROVE  FailuresIn(u, now) <= Limit - 1 + Cardinality(Req)
        BY DEF FailuresBounded
    <3>1. FailuresIn(u, now) + Cardinality(Trying(u)) <= Limit - 1 + Cardinality(Req)
        BY DEF AccessInv, LoginOK
    <3>2. FailuresIn(u, now) \in Nat BY FailuresFinite DEF AccessInv
    <3> QED BY <3>1, <3>2, TryingFinite
  <2>3. RetryAfterSuffices BY RetryAfterOK
  <2>4. RemovedStaysOut BY DEF AccessInv, SharingOK, MemberOK, ShareExcused, RemovedStaysOut
  <2> QED BY <2>1, <2>2, <2>3, <2>4
          DEF AccessSound, AccessInv, FactorOK, SessionsOK, TokensOK, AdminsOK
<1> QED BY <1>1, AccessInvariant, PTL

(* A request is served only within both windows, counted from the last     *)
(* request and from the sign-in, and with the password the session began   *)
(* with: created_at is never refreshed and last_seen_at never ahead.       *)
THEOREM ServedWithinWindowsAlways == AccessSpec => ServedWithinWindows
<1> DEFINE Served == \A u \in Account : visited'[u] # visited[u] /\ session[u] # NoSession =>
                        /\ now - visited[u] <= Idle
                        /\ now - begun[u] <= Absolute
                        /\ session[u].hash = password[u]
<1>1. AccessInv /\ [AccessNext]_<<reqVars, accessVars>> => [Served]_<<now, sessionVars>>
  <2> SUFFICES ASSUME AccessInv, [AccessNext]_<<reqVars, accessVars>>, NEW u \in Account,
                      visited'[u] # visited[u], session[u] # NoSession
               PROVE  /\ now - visited[u] <= Idle
                      /\ now - begun[u] <= Absolute
                      /\ session[u].hash = password[u]
      OBVIOUS
  <2>1. PICK v \in Account : SignIn(v) \/ Visit(v)
    <3>1. ~UNCHANGED sessionVars BY DEF sessionVars
    <3>2. SessionNext
        BY <3>1 DEF AccessNext, accessVars, LoginNext, SecondFactorNext, TokenNext, AdminNext,
             SharingNext, Tick, PruneAttempts, LoginFail, LoginPass, LoginSubmit, AccessCutOff,
             TotpAdvance, RecoveryConsume, EnrollCodes, TotpVerify, RecoveryLock, Enroll, RegenCodes,
             TotpDisable, RegenerateRecoveryCodes, Restart, ApiRequest, RevokeToken, SetStatusWrite,
             SetRoleCount, SetRoleWrite, SetStatus, SetRole, AcceptMember, AcceptStatus, AcceptRead,
             Decline, RemoveMember, Invite
    <3> QED BY <3>1, <3>2 DEF SessionNext, Tick, Logout, ChangePassword
  <2>2. v = u /\ Visit(u)
      BY <2>1 DEF SignIn, Visit, AccessInv, SessionsOK
  <2>3. SessionValid(u) BY <2>2 DEF Visit
  <2>4. /\ session[u].hash = password[u] /\ ~(now - session[u].seen > Idle)
        /\ ~(now - session[u].created > Absolute)
      BY <2>3 DEF SessionValid, Expired
  <2>5. session[u].seen \in Int /\ session[u].seen <= visited[u] /\ visited[u] \in Int /\ now \in Int
        /\ Idle \in Int /\ Absolute \in Int /\ session[u].created = begun[u] /\ begun[u] \in Int
      BY AccessAssumption DEF AccessInv, SessionsOK, IdleClockFollows, Time
  <2> QED BY <2>4, <2>5
<1>2. ServedWithinWindows <=> [][Served]_<<now, sessionVars>> BY DEF ServedWithinWindows
<1> QED BY <1>1, <1>2, AccessInvariant, PTL DEF AccessSpec

-----------------------------------------------------------------------------
(* The audit log.  p comes right before e among S; every hashed entry      *)
(* names the hash of the one before it.                                    *)
IsPred(S, p, e) == Before(p, e) /\ \A x \in S : Before(x, e) => x = p \/ Before(x, p)

Linked ==
    \A e \in Hashed :
        /\ \A p \in Hashed : IsPred(Hashed, p, e) => entry[e].prev = entry[p].hash
        /\ (\A x \in Hashed : ~Before(x, e)) => entry[e].prev = NULL

Sequence(s) == \E S : s \in Seq(S)

AuditHeld(r) ==
    /\ pc[r] = "append" =>
          /\ loc[r].on \in Entry \ Entries /\ loc[r].at \in 0..clock
          /\ \A q \in Req \ {r} : pc[q] = "append" => loc[q].on # loc[r].on
    /\ pc[r] = "backfill" => loc[r].rows \subseteq Entries

ChainOK ==
    /\ DOMAIN entry = Entry /\ Sequence(anchors)
    /\ \A e \in Entries : Sequence(entry[e].prev) /\ Sequence(entry[e].hash)
    /\ \A e \in Hashed : entry[e].hash = ComputeHash(entry[e].prev, e, entry[e].at)
    /\ crossed \/ rehashed \/ Linked
    /\ AnchorsStayInLog

AuditInv == RequestsOK /\ AuditTypeOK /\ ChainOK /\ \A r \in Req : AuditHeld(r)

(* Entries are in a total order, and have a latest one. *)
LEMMA BeforeOrder ==
    ASSUME AuditTypeOK, NEW a \in Entries, NEW b \in Entries
    PROVE  /\ a = b \/ Before(a, b) \/ Before(b, a)
           /\ Before(a, b) => a # b /\ ~Before(b, a)
<1>1. a \in Entry /\ b \in Entry BY DEF Entries
<1>2. entry[a].at \in Int /\ entry[b].at \in Int BY DEF AuditTypeOK
<1>3. Uuid[a] \in Int /\ Uuid[b] \in Int /\ (Uuid[a] = Uuid[b] => a = b) BY <1>1, AuditAssumption
<1> QED BY <1>2, <1>3 DEF Before

LEMMA BeforeChain ==
    ASSUME AuditTypeOK, NEW a \in Entries, NEW b \in Entries, NEW c \in Entries,
           Before(a, b), Before(b, c)
    PROVE  Before(a, c)
<1>1. a \in Entry /\ b \in Entry /\ c \in Entry BY DEF Entries
<1>2. entry[a].at \in Int /\ entry[b].at \in Int /\ entry[c].at \in Int BY DEF AuditTypeOK
<1>3. Uuid[a] \in Int /\ Uuid[b] \in Int /\ Uuid[c] \in Int BY <1>1, AuditAssumption
<1> QED BY <1>2, <1>3 DEF Before

LEMMA LatestExists ==
    ASSUME AuditTypeOK, NEW S, S \subseteq Entries, S # {}
    PROVE  Latest(S) \in S /\ \A x \in S \ {Latest(S)} : Before(x, Latest(S))
<1>0. clock \in Int /\ \A e \in S : e \in Entry /\ entry[e].at \in Int /\ entry[e].at <= clock
    BY DEF AuditTypeOK, Entries
<1> DEFINE T == {entry[e].at : e \in S}
<1>1. PICK a \in S : TRUE OBVIOUS
<1>2. PICK m \in T : \A t \in T : t <= m
  <2>1. T \in SUBSET Int /\ entry[a].at \in T /\ \A t \in T : t <= clock BY <1>0
  <2> HIDE DEF T
  <2> QED BY <1>0, <2>1, LargestOfBounded
<1> DEFINE U == {Uuid[e] : e \in {x \in S : entry[x].at = m}}
<1>3. PICK k \in U : \A u \in U : u <= k
  <2>1. PICK b \in S : entry[b].at = m OBVIOUS
  <2>2. U \in SUBSET Int /\ Uuid[b] \in U /\ \A u \in U : u <= LastUuid
      BY <1>0, <2>1, AuditAssumption
  <2>3. LastUuid \in Int BY AuditAssumption
  <2> HIDE DEF U
  <2> QED BY <2>2, <2>3, LargestOfBounded
<1>4. PICK e \in S : entry[e].at = m /\ Uuid[e] = k OBVIOUS
<1>5. ASSUME NEW x \in S \ {e} PROVE Before(x, e)
  <2>1. entry[x].at \in T /\ entry[x].at <= m BY <1>2
  <2>2. entry[x].at = m => Uuid[x] <= k BY <1>3
  <2>3. Uuid[x] # Uuid[e] /\ Uuid[x] \in Int /\ Uuid[e] \in Int BY <1>0, AuditAssumption
  <2> QED BY <1>0, <1>4, <2>1, <2>2, <2>3 DEF Before
<1> HIDE DEF T, U
<1> QED BY <1>5 DEF Latest

(* The tail is the latest hashed entry. *)
LEMMA TailOf ==
    ASSUME AuditTypeOK, ChainOK
    PROVE  /\ Sequence(TailHash)
           /\ Hashed = {} => TailHash = NULL
           /\ Hashed # {} => \E p \in Hashed : /\ TailHash = entry[p].hash
                                               /\ \A x \in Hashed \ {p} : Before(x, p)
<1>1. CASE Hashed = {}
  <2>1. NULL \in Seq({}) BY DEF NULL
  <2> QED BY <1>1, <2>1 DEF TailHash, Sequence
<1>2. CASE Hashed # {}
  <2>1. Hashed \subseteq Entries BY DEF Hashed
  <2>2. Latest(Hashed) \in Hashed /\ \A x \in Hashed \ {Latest(Hashed)} : Before(x, Latest(Hashed))
      BY <1>2, <2>1, LatestExists
  <2> QED BY <1>2, <2>1, <2>2 DEF TailHash, ChainOK
<1> QED BY <1>1, <1>2

LEMMA AppendNotEmpty ==
    ASSUME NEW s, Sequence(s), NEW e, NEW at
    PROVE  Sequence(ComputeHash(s, e, at)) /\ ComputeHash(s, e, at) # NULL
<1>1. PICK S : s \in Seq(S) BY DEF Sequence
<1>2. PICK T : T = S \cup {<<e, at>>} OBVIOUS
<1>3. s \in Seq(T) /\ <<e, at>> \in T BY <1>1, <1>2
<1>4. Append(s, <<e, at>>) \in Seq(T) /\ Append(s, <<e, at>>) # <<>> BY <1>3
<1> QED BY <1>4 DEF Sequence, ComputeHash, NULL

(* Places among rows. *)
LEMMA PlaceOrder ==
    ASSUME AuditTypeOK, NEW rows, rows \subseteq Entries, NEW a \in rows
    PROVE  /\ Place(rows, a) \in Nat /\ Place(rows, a) > 0
           /\ \A b \in rows : Before(a, b) => Place(rows, a) < Place(rows, b)
           /\ \A b \in rows : Place(rows, a) = Place(rows, b) => a = b
           /\ \A b \in rows : IsPred(rows, a, b) => Place(rows, b) = Place(rows, a) + 1
           /\ (\A x \in rows : ~Before(x, a)) => Place(rows, a) = 1
<1> DEFINE Upto(e) == {x \in rows : x = e \/ Before(x, e)}
<1>1. \A e \in rows : Place(rows, e) = Cardinality(Upto(e)) BY DEF Place
<1>2. IsFiniteSet(rows)
  <2>1. rows \subseteq Entry BY DEF Entries
  <2> QED BY <2>1, AuditAssumption, FS_Subset
<1>3. \A e \in rows : IsFiniteSet(Upto(e)) /\ Cardinality(Upto(e)) \in Nat /\ e \in Upto(e)
  <2> SUFFICES ASSUME NEW e \in rows
               PROVE  IsFiniteSet(Upto(e)) /\ Cardinality(Upto(e)) \in Nat /\ e \in Upto(e)
      OBVIOUS
  <2>1. Upto(e) \subseteq rows /\ e \in Upto(e) OBVIOUS
  <2> HIDE DEF Upto
  <2> QED BY <1>2, <2>1, FewerRows
<1>4. \A e \in rows : Cardinality(Upto(e)) > 0
  <2> HIDE DEF Upto
  <2> QED BY <1>3, FS_EmptySet
<1>5. ASSUME NEW b \in rows, NEW c \in rows, Before(b, c)
      PROVE  Cardinality(Upto(b)) < Cardinality(Upto(c))
  <2>1. Upto(b) \subseteq Upto(c) \ {c}
    <3> SUFFICES ASSUME NEW x \in Upto(b) PROVE x \in Upto(c) /\ x # c
        OBVIOUS
    <3>1. x \in rows /\ x \in Entries /\ b \in Entries /\ c \in Entries OBVIOUS
    <3>2. CASE x = b BY <1>5, <3>1, <3>2, BeforeOrder
    <3>3. CASE Before(x, b)
      <4>1. Before(x, c) BY <1>5, <3>1, <3>3, BeforeChain
      <4> QED BY <3>1, <4>1, BeforeOrder
    <3> QED BY <3>2, <3>3
  <2> HIDE DEF Upto
  <2>2. IsFiniteSet(Upto(c) \ {c}) /\ Cardinality(Upto(c) \ {c}) = Cardinality(Upto(c)) - 1
      BY <1>3, FS_RemoveElement
  <2>3. Cardinality(Upto(b)) <= Cardinality(Upto(c) \ {c}) BY <2>1, <2>2, FewerRows
  <2> QED BY <1>3, <2>2, <2>3
<1>6. ASSUME NEW b \in rows, IsPred(rows, a, b)
      PROVE  Cardinality(Upto(b)) = Cardinality(Upto(a)) + 1
  <2>0. a \in Entries /\ b \in Entries /\ Before(a, b) BY <1>6 DEF IsPred
  <2>1. b \notin Upto(a) BY <2>0, BeforeOrder
  <2>2. Upto(b) = Upto(a) \cup {b}
    <3>1. ASSUME NEW x \in rows, Before(x, a) PROVE Before(x, b)
        BY <2>0, <3>1, BeforeChain
    <3> QED BY <1>6, <2>0, <3>1 DEF IsPred
  <2> HIDE DEF Upto
  <2> QED BY <1>3, <2>1, <2>2, FS_AddElement
<1>7. ASSUME \A x \in rows : ~Before(x, a) PROVE Cardinality(Upto(a)) = 1
  <2>1. Upto(a) = {a} BY <1>7
  <2> QED BY <2>1, FS_Singleton
<1> HIDE DEF Upto
<1>8. \A b \in rows : Before(a, b) => Place(rows, a) < Place(rows, b) BY <1>1, <1>5
<1>9. ASSUME NEW b \in rows, Place(rows, a) = Place(rows, b) PROVE a = b
  <2>1. ~Before(a, b) /\ ~Before(b, a) BY <1>1, <1>3, <1>5, <1>9
  <2> QED BY <2>1, BeforeOrder
<1> QED BY <1>1, <1>3, <1>4, <1>6, <1>7, <1>8, <1>9

LEMMA FunctionIsSeq ==
    ASSUME NEW n \in Nat, NEW T, NEW F \in [1..n -> T]
    PROVE  F \in Seq(T) /\ Len(F) = n
OBVIOUS

(* One more of F behind t is appended. *)
LEMMA ConcatGrows ==
    ASSUME NEW t, Sequence(t), NEW n \in Nat \ {0}, NEW I, NEW F \in [1..n -> I]
    PROVE  t \o F = Append(t \o [k \in 1..(n - 1) |-> F[k]], F[n])
<1>1. PICK S : t \in Seq(S) BY DEF Sequence
<1>2. PICK T : T = S \cup I OBVIOUS
<1>3. PICK G : G = [k \in 1..(n - 1) |-> F[k]] OBVIOUS
<1>4. t \in Seq(T) BY <1>1, <1>2, SeqMonotonic
<1>5. F \in Seq(T) /\ Len(F) = n
  <2>1. F \in [1..n -> T] BY <1>2
  <2> QED BY <2>1, FunctionIsSeq
<1>6. G \in Seq(T) /\ Len(G) = n - 1 /\ \A k \in 1..(n - 1) : G[k] = F[k]
  <2>1. G \in [1..(n - 1) -> T] BY <1>2, <1>3
  <2> QED BY <1>3, <2>1
<1>7. F[n] \in T BY <1>2
<1>8. PICK A : A = t \o G OBVIOUS
<1>9. /\ A \in Seq(T) /\ Len(A) = Len(t) + Len(G)
      /\ \A i \in 1..(Len(t) + Len(G)) : A[i] = IF i <= Len(t) THEN t[i] ELSE G[i - Len(t)]
    BY <1>4, <1>6, <1>8, ConcatProperties
<1>10. /\ t \o F \in Seq(T) /\ Len(t \o F) = Len(t) + Len(F)
       /\ \A i \in 1..(Len(t) + Len(F)) : (t \o F)[i] = IF i <= Len(t) THEN t[i] ELSE F[i - Len(t)]
    BY <1>4, <1>5, ConcatProperties
<1>11. /\ Append(A, F[n]) \in Seq(T) /\ Len(Append(A, F[n])) = Len(A) + 1
       /\ \A i \in 1..Len(A) : Append(A, F[n])[i] = A[i]
       /\ Append(A, F[n])[Len(A) + 1] = F[n]
    BY <1>7, <1>9, AppendProperties
<1>12. Len(t) \in Nat BY <1>4
<1>13. PICK B : B = Append(A, F[n]) OBVIOUS
<1>14. PICK C : C = t \o F OBVIOUS
<1>15. Len(C) = Len(B) BY <1>5, <1>6, <1>9, <1>10, <1>11, <1>12, <1>13, <1>14
<1>16. ASSUME NEW i \in 1..Len(C) PROVE C[i] = B[i]
  <2>1. Len(C) = Len(t) + n /\ Len(A) = Len(t) + (n - 1) BY <1>5, <1>6, <1>9, <1>10, <1>14
  <2>2. CASE i <= Len(t)
    <3>1. i \in 1..Len(A) /\ i \in 1..(Len(t) + Len(F)) /\ i \in 1..(Len(t) + Len(G))
        BY <1>5, <1>6, <1>12, <2>1, <2>2
    <3>2. C[i] = t[i] BY <1>10, <1>14, <2>2, <3>1
    <3>3. A[i] = t[i] BY <1>9, <2>2, <3>1
    <3> QED BY <1>11, <1>13, <3>1, <3>2, <3>3
  <2>3. CASE i > Len(t) /\ i < Len(t) + n
    <3>1. /\ i \in 1..Len(A) /\ i \in 1..(Len(t) + Len(F)) /\ i \in 1..(Len(t) + Len(G))
          /\ i - Len(t) \in 1..(n - 1) /\ ~(i <= Len(t))
        BY <1>5, <1>6, <1>12, <2>1, <2>3
    <3>2. C[i] = F[i - Len(t)] BY <1>10, <1>14, <3>1
    <3>3. A[i] = G[i - Len(t)] BY <1>9, <3>1
    <3>4. G[i - Len(t)] = F[i - Len(t)] BY <1>6, <3>1
    <3> QED BY <1>11, <1>13, <3>1, <3>2, <3>3, <3>4
  <2>4. CASE i = Len(t) + n
    <3>1. i = Len(A) + 1 /\ i \in 1..(Len(t) + Len(F)) /\ i - Len(t) = n /\ ~(i <= Len(t))
        BY <1>5, <1>12, <2>1, <2>4
    <3>2. C[i] = F[n] BY <1>10, <1>14, <3>1
    <3> QED BY <1>11, <1>13, <3>1, <3>2
  <2> QED BY <1>12, <2>1, <2>2, <2>3, <2>4
<1>17. C \in Seq(T) /\ B \in Seq(T) BY <1>10, <1>11, <1>13, <1>14
<1>18. C = B BY <1>15, <1>16, <1>17, SeqEqual
<1> QED BY <1>3, <1>8, <1>13, <1>14, <1>18

(* The hashes of a backfill: the first row's is behind the tail, each      *)
(* other's behind the one of the row before it.                            *)
LEMMA ChainedRows ==
    ASSUME AuditTypeOK, NEW rows, rows \subseteq Entries, NEW t, Sequence(t)
    PROVE  /\ Chained(t, rows, 0) = t
           /\ \A n \in Nat : Sequence(Chained(t, rows, n))
           /\ \A e \in rows : Chained(t, rows, Place(rows, e)) =
                 ComputeHash(Chained(t, rows, Place(rows, e) - 1), e, entry[e].at)
<1> DEFINE row(k) == CHOOSE e \in rows : Place(rows, e) = k
           item(k) == <<row(k), entry[row(k)].at>>
<1>1. \A n : Chained(t, rows, n) = t \o [k \in 1..n |-> item(k)] BY DEF Chained
<1>2. ASSUME NEW e \in rows PROVE row(Place(rows, e)) = e
    BY PlaceOrder
<1>3. ASSUME NEW n \in Nat PROVE Sequence(Chained(t, rows, n))
  <2>1. PICK S : t \in Seq(S) BY DEF Sequence
  <2>2. PICK F : F = [k \in 1..n |-> item(k)] OBVIOUS
  <2> HIDE DEF item
  <2>3. PICK T : T = S \cup {item(k) : k \in 1..n} OBVIOUS
  <2>4. t \in Seq(T) /\ F \in Seq(T) BY <2>1, <2>2, <2>3
  <2>5. t \o F \in Seq(T) BY <2>4
  <2> QED BY <1>1, <2>2, <2>5 DEF Sequence
<1>4. Chained(t, rows, 0) = t
  <2>1. PICK F : F = [k \in 1..0 |-> item(k)] OBVIOUS
  <2>2. F = <<>> BY <2>1
  <2>3. PICK S : t \in Seq(S) BY DEF Sequence
  <2>4. t \o <<>> = t BY <2>3
  <2> QED BY <1>1, <2>1, <2>2, <2>4
<1>5. ASSUME NEW e \in rows
      PROVE  Chained(t, rows, Place(rows, e)) =
                ComputeHash(Chained(t, rows, Place(rows, e) - 1), e, entry[e].at)
  <2>1. PICK n \in Nat \ {0} : n = Place(rows, e) BY PlaceOrder
  <2>2. PICK F : F = [k \in 1..n |-> item(k)] OBVIOUS
  <2>3. item(n) = <<e, entry[e].at>> BY <1>2, <2>1
  <2> HIDE DEF item
  <2>4. PICK I : I = {item(k) : k \in 1..n} OBVIOUS
  <2>7. F \in [1..n -> I] /\ F[n] = item(n) BY <2>2, <2>4
  <2>5. [k \in 1..(n - 1) |-> F[k]] = [k \in 1..(n - 1) |-> item(k)] BY <2>2
  <2>6. t \o F = Append(t \o [k \in 1..(n - 1) |-> item(k)], item(n))
      BY <2>5, <2>7, ConcatGrows
  <2> QED BY <1>1, <2>1, <2>2, <2>3, <2>6 DEF ComputeHash
<1> QED BY <1>3, <1>4, <1>5

(* Nothing of the log is touched. *)
LEMMA LogStays ==
    ASSUME AuditInv, entry' = entry, clock' = clock, anchors' = anchors,
           crossed' = crossed, rehashed' = rehashed
    PROVE  AuditTypeOK' /\ ChainOK' /\ Entries' = Entries /\ Hashed' = Hashed
<1>1. Entries' = Entries /\ Hashed' = Hashed BY DEF Entries, Hashed
<1>2. Linked' <=> Linked BY <1>1 DEF Linked, IsPred, Before
<1>3. AuditTypeOK' BY <1>1 DEF AuditInv, AuditTypeOK
<1>4. ChainOK' BY <1>1, <1>2 DEF AuditInv, ChainOK, AnchorsStayInLog, ComputeHash
<1> QED BY <1>1, <1>3, <1>4

(* No request moves, and no entry goes. *)
LEMMA HeldStays ==
    ASSUME AuditInv, reqVars' = reqVars, entry' = entry, clock' \in Int, clock <= clock'
    PROVE  RequestsOK' /\ \A r \in Req : AuditHeld(r)'
<1>1. Entries' = Entries BY DEF Entries
<1>2. clock \in Int BY DEF AuditInv, AuditTypeOK
<1>3. RequestsOK' BY DEF AuditInv, RequestsOK, reqVars, Busy
<1>4. \A r \in Req : AuditHeld(r)' BY <1>1, <1>2 DEF AuditInv, AuditHeld, reqVars
<1> QED BY <1>3, <1>4

(* The time goes on. *)
LEMMA ClockTickHolds ==
    ASSUME AuditInv, ClockTick
    PROVE  AuditInv'
<1>1. clock \in Int /\ 0 <= clock /\ MaxClock \in Int /\ clock' = clock + 1 /\ clock < MaxClock
    BY AuditAssumption DEF ClockTick, AuditInv, AuditTypeOK
<1>2. Entries' = Entries /\ Hashed' = Hashed /\ entry' = entry /\ anchors' = anchors
      /\ crossed' = crossed /\ rehashed' = rehashed
    BY DEF ClockTick, Entries, Hashed
<1>3. AuditTypeOK' BY <1>1, <1>2 DEF AuditInv, AuditTypeOK
<1>4. Linked' <=> Linked BY <1>2 DEF Linked, IsPred, Before
<1>5. ChainOK' BY <1>2, <1>4 DEF AuditInv, ChainOK, AnchorsStayInLog, ComputeHash
<1>6. RequestsOK' /\ \A r \in Req : AuditHeld(r)' BY <1>1, <1>2, HeldStays DEF ClockTick
<1> QED BY <1>3, <1>5, <1>6 DEF AuditInv

(* The anchor is the hash of the tail. *)
LEMMA AnchorHolds ==
    ASSUME AuditInv, Anchor
    PROVE  AuditInv'
<1>1. PICK p \in Hashed : TailHash = entry[p].hash
    BY TailOf DEF Anchor, AuditInv
<1>2. PICK S : anchors \in Seq(S) BY DEF AuditInv, ChainOK, Sequence
<1>3. PICK T : T = S \cup {TailHash} OBVIOUS
<1>4. anchors \in Seq(T) /\ TailHash \in T BY <1>2, <1>3, SeqMonotonic
<1>5. /\ anchors' \in Seq(T) /\ Len(anchors') = Len(anchors) + 1
      /\ \A i \in 1..Len(anchors) : anchors'[i] = anchors[i]
      /\ anchors'[Len(anchors) + 1] = TailHash
    BY <1>4, AppendProperties DEF Anchor
<1>6. \A i \in DOMAIN anchors' : anchors'[i] = TailHash \/ \E j \in DOMAIN anchors : anchors'[i] = anchors[j]
  <2>1. DOMAIN anchors' = 1..(Len(anchors) + 1) /\ DOMAIN anchors = 1..Len(anchors) /\ Len(anchors) \in Nat
      BY <1>4, <1>5
  <2> QED BY <1>5, <2>1
<1>7. Entries' = Entries /\ Hashed' = Hashed /\ entry' = entry /\ clock' = clock
      /\ crossed' = crossed /\ rehashed' = rehashed
    BY DEF Anchor, Entries, Hashed
<1>8. AuditTypeOK' BY <1>1, <1>6, <1>7 DEF AuditInv, AuditTypeOK, Hashed
<1>9. Linked' <=> Linked BY <1>7 DEF Linked, IsPred, Before
<1>10. AnchorsStayInLog' BY <1>1, <1>6, <1>7 DEF AuditInv, ChainOK, AnchorsStayInLog
<1>11. ChainOK' BY <1>5, <1>7, <1>9, <1>10 DEF AuditInv, ChainOK, ComputeHash, Sequence
<1>12. RequestsOK' /\ \A r \in Req : AuditHeld(r)'
    BY <1>7, HeldStays DEF Anchor, AuditInv, AuditTypeOK
<1> QED BY <1>8, <1>11, <1>12 DEF AuditInv

(* A request takes an entry nobody else holds, or the rows without a hash, *)
(* or ends.                                                                *)
LEMMA AuditLogHolds ==
    ASSUME AuditInv, NEW r \in Req, NEW e \in Entry, AuditLog(r, e)
    PROVE  AuditInv'
<1>1. AuditTypeOK' /\ ChainOK' /\ Entries' = Entries /\ Hashed' = Hashed
    BY LogStays DEF AuditLog, auditVars
<1>2. /\ RequestsOK' /\ pc'[r] = "append" /\ loc'[r] = [on |-> e, at |-> clock] /\ Others(r)
    BY BeginOK DEF AuditLog, AuditInv
<1>3. \A q \in Req : pc[q] = "append" => loc[q].on # e
    BY DEF AuditLog, WorkingOn, Busy
<1>4. e \notin Entries /\ clock \in 0..clock /\ clock' = clock
    BY DEF AuditLog, auditVars, AuditInv, AuditTypeOK
<1>5. ASSUME NEW q \in Req PROVE AuditHeld(q)'
  <2>1. CASE q = r BY <1>1, <1>2, <1>3, <1>4, <2>1 DEF AuditHeld, Others
  <2>2. CASE q # r
    <3>1. pc'[q] = pc[q] /\ loc'[q] = loc[q] BY <1>2, <2>2 DEF Others
    <3>2. pc[q] = "append" =>
             /\ loc[q].on \in Entry \ Entries /\ loc[q].at \in 0..clock
             /\ \A x \in Req \ {q} : pc'[x] = "append" => loc'[x].on # loc[q].on
        BY <1>2, <1>3 DEF AuditInv, AuditHeld, Others
    <3> QED BY <1>1, <1>4, <3>1, <3>2 DEF AuditInv, AuditHeld
  <2> QED BY <2>1, <2>2
<1> QED BY <1>1, <1>2, <1>5 DEF AuditInv

LEMMA BackfillReadHolds ==
    ASSUME AuditInv, NEW r \in Req, BackfillRead(r)
    PROVE  AuditInv'
<1>1. AuditTypeOK' /\ ChainOK' /\ Entries' = Entries /\ Hashed' = Hashed
    BY LogStays DEF BackfillRead, auditVars
<1>2. /\ RequestsOK' /\ pc'[r] = "backfill" /\ Others(r)
      /\ loc'[r] = [on |-> "backfill", rows |-> Entries \ Hashed]
    BY BeginOK DEF BackfillRead, AuditInv
<1>3. clock' = clock BY DEF BackfillRead, auditVars
<1>4. ASSUME NEW q \in Req PROVE AuditHeld(q)'
    BY <1>1, <1>2, <1>3 DEF AuditInv, AuditHeld, Others
<1> QED BY <1>1, <1>2, <1>4 DEF AuditInv

LEMMA AuditCutOffHolds ==
    ASSUME AuditInv, NEW r \in Req, End(r), UNCHANGED auditVars
    PROVE  AuditInv'
<1>1. AuditTypeOK' /\ ChainOK' /\ Entries' = Entries /\ Hashed' = Hashed
    BY LogStays DEF auditVars
<1>2. RequestsOK' /\ pc'[r] = "idle" /\ Others(r) BY EndOK DEF AuditInv
<1>3. clock' = clock BY DEF auditVars
<1>4. ASSUME NEW q \in Req PROVE AuditHeld(q)'
    BY <1>1, <1>2, <1>3 DEF AuditInv, AuditHeld, Others
<1> QED BY <1>1, <1>2, <1>4 DEF AuditInv

(* An entry is appended: the log verifies up to it, and its predecessor is *)
(* the tail.                                                               *)
LEMMA LogHashedHolds ==
    ASSUME AuditInv, NEW r \in Req, LogHashed(r)
    PROVE  AuditInv'
<1>1. PICK e \in Entry \ Entries : e = loc[r].on
    BY DEF LogHashed, AuditInv, AuditHeld
<1>2. PICK at \in 0..clock : at = loc[r].at
    BY DEF LogHashed, AuditInv, AuditHeld
<1>3. PICK prev : prev = TailHash OBVIOUS
<1>4. PICK hash : hash = ComputeHash(prev, e, at) OBVIOUS
<1>5. Sequence(prev) /\ Sequence(hash) /\ hash # NULL
    BY <1>3, <1>4, TailOf, AppendNotEmpty DEF AuditInv
<1>6. /\ DOMAIN entry' = Entry /\ entry'[e] = [at |-> at, prev |-> prev, hash |-> hash]
      /\ \A x \in Entry \ {e} : entry'[x] = entry[x]
    BY <1>1, <1>2, <1>3, <1>4 DEF LogHashed, AuditInv, ChainOK
<1>7. Entries' = Entries \cup {e} /\ Hashed' = Hashed \cup {e}
  <2>1. entry'[e] # NoEntry BY <1>2, <1>6 DEF NoEntry
  <2>2. Entries' = Entries \cup {e} BY <1>1, <1>6, <2>1 DEF Entries
  <2> QED BY <1>1, <1>5, <1>6, <2>2 DEF Hashed, Entries
<1>8. clock' = clock /\ anchors' = anchors BY DEF LogHashed
<1>9. AuditTypeOK'
  <2>1. \A x \in Entries : x # e BY <1>1
  <2> QED BY <1>2, <1>6, <1>7, <1>8, <2>1 DEF AuditInv, AuditTypeOK, Entries
<1>10. Hashed \subseteq Entries /\ e \notin Hashed /\ Entries \subseteq Entry
    BY <1>1 DEF Hashed, Entries
<1>11. ASSUME ~crossed', ~rehashed' PROVE Linked'
  <2>1. Entries = Hashed /\ Linked /\ \A x \in Entries : entry[x].at < at
    <3>1. ~crossed /\ ~rehashed /\ Entries = Hashed /\ \A x \in Entries : ~(entry[x].at >= at)
        BY <1>2, <1>11 DEF LogHashed
    <3>2. \A x \in Entries : entry[x].at \in Int BY DEF AuditInv, AuditTypeOK
    <3> QED BY <1>2, <3>1, <3>2 DEF AuditInv, ChainOK
  <2>2. \A x \in Hashed : entry[x].at \in Int /\ entry[x].at < at
      BY <1>10, <2>1 DEF AuditInv, AuditTypeOK
  <2>3. \A x, y \in Hashed : Before(x, y)' <=> Before(x, y)
      BY <1>6, <1>10 DEF Before
  <2>4. \A x \in Hashed : Before(x, e)' /\ ~Before(e, x)'
      BY <1>2, <1>6, <1>10, <2>2 DEF Before
  <2>5. ~Before(e, e)'
    <3>1. Uuid[e] \in Int BY AuditAssumption
    <3> QED BY <1>2, <1>6, <3>1 DEF Before
  <2>6. ASSUME NEW p \in Hashed', IsPred(Hashed, p, e)' PROVE entry'[e].prev = entry'[p].hash
    <3>1. p \in Hashed /\ \A x \in Hashed : x = p \/ Before(x, p)
        BY <1>7, <2>3, <2>4, <2>5, <2>6 DEF IsPred
    <3>2. PICK t \in Hashed : TailHash = entry[t].hash /\ \A x \in Hashed \ {t} : Before(x, t)
        BY <3>1, TailOf DEF AuditInv
    <3>3. p = t BY <1>10, <3>1, <3>2, BeforeOrder DEF AuditInv
    <3> QED BY <1>3, <1>6, <1>10, <3>1, <3>2, <3>3
  <2>7. ASSUME \A x \in Hashed' : ~Before(x, e)' PROVE entry'[e].prev = NULL
    <3>1. Hashed = {} BY <1>7, <2>4, <2>7
    <3> QED BY <1>3, <1>6, <3>1, TailOf DEF AuditInv
  <2>8. ASSUME NEW f \in Hashed, NEW p \in Hashed', IsPred(Hashed, p, f)'
        PROVE  entry'[f].prev = entry'[p].hash
    <3>1. p \in Hashed BY <1>7, <2>4, <2>8 DEF IsPred
    <3>2. IsPred(Hashed, p, f) BY <1>7, <2>3, <2>8, <3>1 DEF IsPred
    <3>3. entry[f].prev = entry[p].hash BY <2>1, <3>1, <3>2 DEF Linked
    <3> QED BY <1>6, <1>10, <3>1, <3>3
  <2>9. ASSUME NEW f \in Hashed, \A x \in Hashed' : ~Before(x, f)' PROVE entry'[f].prev = NULL
    <3>1. entry[f].prev = NULL BY <1>7, <2>1, <2>3, <2>9 DEF Linked
    <3> QED BY <1>6, <1>10, <3>1
  <2> QED BY <1>7, <2>6, <2>7, <2>8, <2>9 DEF Linked
<1>12. AnchorsStayInLog'
  <2>1. ~rehashed' => ~rehashed BY DEF LogHashed
  <2>2. \A x \in Hashed : x \in Hashed' /\ entry'[x].hash = entry[x].hash BY <1>6, <1>7, <1>10
  <2> QED BY <1>8, <2>1, <2>2 DEF AuditInv, ChainOK, AnchorsStayInLog
<1>13. ChainOK'
  <2>1. \A x \in Entries' : Sequence(entry'[x].prev) /\ Sequence(entry'[x].hash)
      BY <1>5, <1>6, <1>7, <1>10 DEF AuditInv, ChainOK
  <2>2. \A x \in Hashed' : entry'[x].hash = ComputeHash(entry'[x].prev, x, entry'[x].at)
      BY <1>4, <1>6, <1>7, <1>10 DEF AuditInv, ChainOK
  <2>3. Sequence(anchors)' BY <1>8 DEF AuditInv, ChainOK, Sequence
  <2> QED BY <1>6, <1>11, <1>12, <2>1, <2>2, <2>3 DEF ChainOK, Sequence, ComputeHash
<1>14. RequestsOK' /\ pc'[r] = "idle" /\ Others(r) BY EndOK DEF LogHashed, AuditInv
<1>15. ASSUME NEW q \in Req PROVE AuditHeld(q)'
  <2>1. CASE q = r BY <1>14, <2>1 DEF AuditHeld
  <2>2. CASE q # r
    <3>1. pc'[q] = pc[q] /\ loc'[q] = loc[q] BY <1>14, <2>2 DEF Others
    <3>2. pc[q] = "append" => loc[q].on # e
        BY <1>1, <2>2 DEF AuditInv, AuditHeld, LogHashed
    <3>3. AuditHeld(q) BY DEF AuditInv
    <3> QED BY <1>7, <1>8, <1>14, <3>1, <3>2, <3>3 DEF AuditHeld, Others
  <2> QED BY <2>1, <2>2
<1> QED BY <1>9, <1>13, <1>14, <1>15 DEF AuditInv

(* The old entries get their hashes: the first of them has no predecessor, *)
(* each other follows the one in the place before its own.                 *)
LEMMA BackfillCommitHolds ==
    ASSUME AuditInv, NEW r \in Req, BackfillCommit(r)
    PROVE  AuditInv'
<1>1. PICK rows \in SUBSET Entries : rows = loc[r].rows
    BY DEF BackfillCommit, AuditInv, AuditHeld
<1>2. PICK tail : tail = TailHash OBVIOUS
<1>3. Sequence(tail) BY <1>2, TailOf DEF AuditInv
<1>4. \A x \in rows : Place(rows, x) \in Nat /\ Place(rows, x) > 0
    BY PlaceOrder DEF AuditInv
<1>5. PICK prev : prev = [x \in rows |-> Chained(tail, rows, Place(rows, x) - 1)] OBVIOUS
<1>6. PICK hash : hash = [x \in rows |-> ComputeHash(prev[x], x, entry[x].at)] OBVIOUS
<1>7. \A x \in rows : Sequence(prev[x]) /\ Sequence(hash[x]) /\ hash[x] # NULL
  <2>1. \A x \in rows : Place(rows, x) - 1 \in Nat BY <1>4
  <2>2. \A x \in rows : Sequence(prev[x]) BY <1>3, <1>5, <2>1, ChainedRows DEF AuditInv
  <2> QED BY <1>6, <2>2, AppendNotEmpty
<1>8. \A x \in rows : hash[x] = Chained(tail, rows, Place(rows, x))
    BY <1>3, <1>5, <1>6, ChainedRows DEF AuditInv
<1>9. /\ DOMAIN entry' = Entry
      /\ \A x \in Entry \ rows : entry'[x] = entry[x]
      /\ \A x \in rows : entry'[x].at = entry[x].at /\ entry'[x].prev = prev[x] /\ entry'[x].hash = hash[x]
  <2>1. rows \subseteq Entry BY DEF Entries
  <2>2. /\ DOMAIN entry' = Entry /\ \A x \in Entry \ rows : entry'[x] = entry[x]
        /\ \A x \in rows : entry'[x] = [at |-> entry[x].at, prev |-> prev[x], hash |-> hash[x]]
      BY <1>1, <1>2, <1>5, <1>6, <2>1 DEF BackfillCommit
  <2>3. ASSUME NEW x \in rows
        PROVE  entry'[x].at = entry[x].at /\ entry'[x].prev = prev[x] /\ entry'[x].hash = hash[x]
    <3>1. entry'[x] = [at |-> entry[x].at, prev |-> prev[x], hash |-> hash[x]] BY <2>2
    <3> QED BY <3>1
  <2> QED BY <2>2, <2>3
<1>10. \A x \in Entries : entry'[x].at = entry[x].at BY <1>9 DEF Entries
<1>11. Entries' = Entries /\ Hashed' = Hashed \cup rows
  <2>1. \A x \in rows : entry[x].at # -1 BY DEF AuditInv, AuditTypeOK
  <2>2. \A x \in rows : entry'[x] # NoEntry BY <1>9, <2>1 DEF NoEntry
  <2>3. Entries' = Entries BY <1>9, <2>2 DEF Entries
  <2> QED BY <1>7, <1>9, <2>3 DEF Hashed, Entries
<1>12. clock' = clock /\ anchors' = anchors /\ crossed' = crossed BY DEF BackfillCommit
<1>13. AuditTypeOK' BY <1>10, <1>11, <1>12 DEF AuditInv, AuditTypeOK
<1>14. ASSUME ~rehashed' PROVE Hashed = {} /\ ~rehashed BY <1>14 DEF BackfillCommit
<1>15. \A x, y \in Entries : Before(x, y)' <=> Before(x, y) BY <1>10 DEF Before
<1>16. ASSUME ~rehashed' PROVE Linked'
  <2>1. Hashed' = rows BY <1>11, <1>14, <1>16
  <2>2. tail = NULL BY <1>2, <1>14, <1>16, TailOf DEF AuditInv
  <2>3. ASSUME NEW f \in rows, NEW p \in rows, IsPred(Hashed, p, f)'
        PROVE  entry'[f].prev = entry'[p].hash
    <3>1. IsPred(rows, p, f) BY <1>15, <2>1, <2>3 DEF IsPred
    <3>2. Place(rows, f) = Place(rows, p) + 1 BY <3>1, PlaceOrder DEF AuditInv
    <3>3. Place(rows, f) - 1 = Place(rows, p) BY <1>4, <3>2
    <3> QED BY <1>5, <1>8, <1>9, <3>3
  <2>4. ASSUME NEW f \in rows, \A x \in rows : ~Before(x, f)' PROVE entry'[f].prev = NULL
    <3>1. \A x \in rows : ~Before(x, f) BY <1>15, <2>4
    <3>2. Place(rows, f) = 1 BY <3>1, PlaceOrder DEF AuditInv
    <3>3. Place(rows, f) - 1 = 0 BY <3>2
    <3>4. Chained(tail, rows, 0) = tail BY <1>3, ChainedRows DEF AuditInv
    <3> QED BY <1>5, <1>9, <2>2, <3>3, <3>4
  <2> QED BY <2>1, <2>3, <2>4 DEF Linked
<1>17. AnchorsStayInLog'
  <2>1. ~rehashed' => DOMAIN anchors = {} BY <1>14 DEF AuditInv, ChainOK, AnchorsStayInLog
  <2> QED BY <1>12, <2>1 DEF AnchorsStayInLog
<1>18. ChainOK'
  <2>1. \A x \in Entries' : Sequence(entry'[x].prev) /\ Sequence(entry'[x].hash)
    <3>1. ASSUME NEW x \in Entries \ rows PROVE entry'[x] = entry[x] BY <1>9 DEF Entries
    <3> QED BY <1>7, <1>9, <1>11, <3>1 DEF AuditInv, ChainOK
  <2>2. \A x \in Hashed' : entry'[x].hash = ComputeHash(entry'[x].prev, x, entry'[x].at)
    <3>1. ASSUME NEW x \in Hashed \ rows PROVE entry'[x] = entry[x] BY <1>9 DEF Hashed, Entries
    <3> QED BY <1>6, <1>9, <1>11, <3>1 DEF AuditInv, ChainOK
  <2>3. Sequence(anchors)' BY <1>12 DEF AuditInv, ChainOK, Sequence
  <2> QED BY <1>9, <1>16, <1>17, <2>1, <2>2, <2>3 DEF ChainOK, Sequence, ComputeHash
<1>19. RequestsOK' /\ pc'[r] = "idle" /\ Others(r) BY EndOK DEF BackfillCommit, AuditInv
<1>20. ASSUME NEW q \in Req PROVE AuditHeld(q)'
    BY <1>11, <1>12, <1>19 DEF AuditInv, AuditHeld, Others
<1> QED BY <1>13, <1>18, <1>19, <1>20 DEF AuditInv

(* The hash chain of the audit log, through every step of appends,         *)
(* backfills and anchors (audit/chain.rs).                                 *)
THEOREM AuditInvariant == AuditSpec => []AuditInv
<1>1. InitRequests /\ InitAudit => AuditInv
  <2> SUFFICES ASSUME InitRequests, InitAudit PROVE AuditInv
      OBVIOUS
  <2>1. RequestsOK /\ \A r \in Req : AuditHeld(r)
      BY InitRequestsOK DEF InitRequests, AuditHeld
  <2>2. \A e \in Entries : entry[e] = [at |-> 0, prev |-> NULL, hash |-> NULL]
      BY DEF InitAudit, Entries, NoEntry
  <2>3. Hashed = {} BY <2>2 DEF Hashed
  <2>4. AuditTypeOK BY <2>2, AuditAssumption DEF InitAudit, AuditTypeOK
  <2>5. NULL \in Seq({}) BY DEF NULL
  <2>6. Sequence(NULL) BY <2>5 DEF Sequence
  <2>7. Sequence(anchors) BY <2>6 DEF InitAudit, NULL
  <2>8. AnchorsStayInLog BY DEF InitAudit, AnchorsStayInLog
  <2>9. ChainOK BY <2>2, <2>3, <2>6, <2>7, <2>8 DEF InitAudit, ChainOK, Linked
  <2> QED BY <2>1, <2>4, <2>9 DEF AuditInv
<1>2. AuditInv /\ [AuditNext]_<<reqVars, auditVars>> => AuditInv'
  <2> SUFFICES ASSUME AuditInv, [AuditNext]_<<reqVars, auditVars>> PROVE AuditInv'
      OBVIOUS
  <2>1. CASE UNCHANGED <<reqVars, auditVars>>
    <3>1. clock \in Int /\ clock' = clock BY <2>1 DEF auditVars, AuditInv, AuditTypeOK
    <3>2. RequestsOK' /\ \A r \in Req : AuditHeld(r)'
        BY <2>1, <3>1, HeldStays DEF auditVars
    <3> QED BY <2>1, <3>2, LogStays DEF auditVars, AuditInv
  <2>2. CASE ClockTick BY <2>2, ClockTickHolds
  <2>3. CASE Anchor BY <2>3, AnchorHolds
  <2>4. ASSUME NEW r \in Req, LogHashed(r) PROVE AuditInv' BY <2>4, LogHashedHolds
  <2>5. ASSUME NEW r \in Req, BackfillRead(r) PROVE AuditInv' BY <2>5, BackfillReadHolds
  <2>6. ASSUME NEW r \in Req, BackfillCommit(r) PROVE AuditInv' BY <2>6, BackfillCommitHolds
  <2>7. ASSUME NEW r \in Req, CutOff(r), UNCHANGED auditVars PROVE AuditInv'
      BY <2>7, AuditCutOffHolds DEF CutOff
  <2>8. ASSUME NEW r \in Req, NEW e \in Entry, AuditLog(r, e) PROVE AuditInv'
      BY <2>8, AuditLogHolds
  <2> QED BY <2>1, <2>2, <2>3, <2>4, <2>5, <2>6, <2>7, <2>8 DEF AuditNext
<1> QED BY <1>1, <1>2, PTL DEF AuditSpec

(* The audit log verifies as long as entries arrive in the order of their  *)
(* times and nothing is appended or backfilled next to a backfill, and     *)
(* every anchor stays the hash of an entry (audit/chain.rs::verify,        *)
(* workers/audit_anchor.rs), whatever the requests and their number.       *)
THEOREM LogProvesItselfAlways == AuditSpec => []LogProvesItself
<1>1. AuditInv => LogProvesItself
  <2> SUFFICES ASSUME AuditInv PROVE LogProvesItself
      OBVIOUS
  <2>1. ASSUME ~crossed, ~rehashed, Entries = Hashed, NEW e \in Entries
        PROVE  /\ entry[e].prev = HashBefore(e)
               /\ entry[e].hash = ComputeHash(entry[e].prev, e, entry[e].at)
    <3>1. Linked /\ e \in Hashed BY <2>1 DEF AuditInv, ChainOK
    <3>2. entry[e].hash = ComputeHash(entry[e].prev, e, entry[e].at)
        BY <3>1 DEF AuditInv, ChainOK
    <3>3. PICK earlier : earlier = {x \in Entries : Before(x, e)} OBVIOUS
    <3>4. HashBefore(e) = IF earlier = {} THEN NULL ELSE entry[Latest(earlier)].hash
        BY <3>3 DEF HashBefore
    <3>5. CASE earlier = {} BY <2>1, <3>1, <3>2, <3>3, <3>4, <3>5 DEF Linked
    <3>6. CASE earlier # {}
      <4>1. Latest(earlier) \in earlier
            /\ \A x \in earlier \ {Latest(earlier)} : Before(x, Latest(earlier))
          BY <3>3, <3>6, LatestExists DEF AuditInv
      <4>2. IsPred(Hashed, Latest(earlier), e) /\ Latest(earlier) \in Hashed
          BY <2>1, <3>3, <4>1 DEF IsPred
      <4>3. entry[e].prev = entry[Latest(earlier)].hash BY <3>1, <4>2 DEF Linked
      <4> QED BY <3>2, <3>4, <3>6, <4>3
    <3> QED BY <3>5, <3>6
  <2>2. UntouchedLogVerifies BY <2>1 DEF UntouchedLogVerifies, Verify
  <2> QED BY <2>2 DEF LogProvesItself, AuditInv, ChainOK
<1> QED BY <1>1, AuditInvariant, PTL
=============================================================================
