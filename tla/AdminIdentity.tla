--------------------------- MODULE AdminIdentity ----------------------------
(***************************************************************************)
(* Accounts of the control plane: signing in, stepping up, locking and     *)
(* unlocking, security keys, passwords, invitations, resets, recovery, the *)
(* acts on other people, and the account command line (api/modules/admin   *)
(* service.ts, people.ts, routes.ts; database/scripts/admin-account.mjs).  *)
(*                                                                         *)
(* A request has two parts that others can come between: what it is        *)
(* admitted on (its session, a password, a ceremony it consumes), and the  *)
(* transaction that changes rows.  An admitted request is a record in      *)
(* pending until its transaction.  There is no clock: idle windows, hard   *)
(* limits, freshness and codes lapse at any step.  A request reads the     *)
(* clock once, on admission, so a lapse after it goes unnoticed by it; a   *)
(* revocation does not, and that difference is what is modelled.           *)
(***************************************************************************)
EXTENDS AdminPolicy, FiniteSets, TLC

CONSTANTS
  Founder,       \* the account that is active at the start
  Newcomer,      \* an account that does not exist yet
  Appointments,  \* the pairs of their roles to consider
  Sessions,      \* browsers: places a live session can be kept
  Keys,          \* security keys, each enrolled at most once
  CountingKeys,  \* the keys that keep a signature counter
  MaxPending,    \* bound on ceremonies and requests under way
  MaxGrants      \* bound on codes issued

Users == {Founder, Newcomer}

ASSUME IdentityAssumption ==
  /\ Founder # Newcomer
  /\ Appointments \subseteq PRIVILEGED_ADMIN_ROLES \X Roles
  /\ IsFiniteSet(Sessions) /\ IsFiniteSet(Keys)
  /\ CountingKeys \subseteq Keys
  /\ MaxPending \in Nat /\ MaxGrants \in Nat

VARIABLES
  role,      \* per account: its role, which nothing changes
  status,    \* per account: admin_users.status, or "ABSENT"
  password,  \* accounts with an admin_passwords row
  keys,      \* per account: its usable keys
  spent,     \* keys that have ever been enrolled
  grant,     \* per account and kind: is a code live
  grants,    \* codes issued so far
  session,   \* per browser: the live session, or NoSession
  pending    \* ceremonies under way and requests that were admitted

identityVars ==
  <<role, status, password, keys, spent, grant, grants, session, pending>>

NoSession == [user |-> "nobody"]
NoKey == "no key"
Nowhere == "no browser"
GrantKinds == {"invitation", "reset", "breakGlass"}
Ceremonies ==
  {"AUTHENTICATION", "STEP_UP", "UNLOCK", "REGISTRATION",
   "INVITATION_REGISTRATION", "BREAK_GLASS_REGISTRATION"}
SelfService == {"stepUp", "reopen", "enrol", "retire", "changePassword"}
Enrolments ==
  {"REGISTRATION", "INVITATION_REGISTRATION", "BREAK_GLASS_REGISTRATION"}

\* op: a ceremony purpose or the transaction that is left; user: whose it is;
\* on: the account acted on; browser and key: what it was admitted with;
\* how: method, purpose or requested status; counter: is the signature counter
\* it verified against still the stored one.
Request(op, u, on, s, k, how) ==
  [op |-> op, user |-> u, on |-> on, browser |-> s, key |-> k,
   how |-> how, counter |-> TRUE]
Ceremony(purpose, u) == Request(purpose, u, u, Nowhere, NoKey, "-")

IdentityTypeOK ==
  /\ role \in [Users -> Roles]
  /\ status \in [Users -> Statuses \cup {"ABSENT"}]
  /\ password \subseteq Users
  /\ keys \in [Users -> SUBSET Keys] /\ spent \subseteq Keys
  /\ grant \in [Users -> SUBSET GrantKinds] /\ grants \in 0..MaxGrants
  /\ session \in [Sessions ->
       {NoSession} \cup [user : Users, state : {"ACTIVE", "LOCKED"},
                         stepUp : {"none", "PASSWORD", "WEBAUTHN"}]]
  /\ \A r \in pending :
       /\ r.user \in Users /\ r.on \in Users
       /\ r.browser \in Sessions \cup {Nowhere} /\ r.key \in Keys \cup {NoKey}
  /\ Cardinality(pending) <= MaxPending

IdentityInit ==
  /\ \E a \in Appointments :
       role = [u \in Users |-> IF u = Founder THEN a[1] ELSE a[2]]
  /\ status = [u \in Users |-> IF u = Founder THEN "ACTIVE" ELSE "ABSENT"]
  /\ password = {Founder}
  /\ \E k \in CountingKeys :
       keys = [u \in Users |-> IF u = Founder THEN {k} ELSE {}] /\ spent \in {{k}, Keys}
  /\ grant = [u \in Users |-> {}] /\ grants = 0
  /\ session = [s \in Sessions |-> NoSession]
  /\ pending = {}

-----------------------------------------------------------------------------
(* Admission *)

Live(s) == s \in Sessions /\ session[s] # NoSession

\* evaluateSession and resolveSession: a revoked or expired session is none.
resolveSession(s) ==
  IF Live(s) /\ status[session[s].user] = "ACTIVE"
  THEN session[s].state ELSE "INVALID"

\* What each route asks of the caller before it calls the service.
AccountRoutes ==
  [revokeOwnSession |-> "account.sessions.revoke",
   revokeOtherSessions |-> "account.sessions.revoke",
   changeOwnPassword |-> "account.password.change"]
AuthenticatorRoutes ==
  [register |-> "authenticator.manage.self",
   revokeAuthenticator |-> "authenticator.manage.self"]
GrantRoutes ==
  [createInvitation |-> "invitation.manage",
   revokeInvitation |-> "invitation.manage",
   reissueInvitation |-> "invitation.manage",
   issuePasswordReset |-> "recovery.manage",
   revokePasswordReset |-> "recovery.manage"]
PeopleRoutes ==
  [changeStatus |-> "operator.manage", revokeSessions |-> "operator.manage",
   retireKey |-> "authenticator.manage.operator"]

authorizeAdmin(s, capability) ==
  /\ resolveSession(s) = "ACTIVE"
  /\ capability \in capabilitiesForRole(role[session[s].user])
  /\ requiresStepUp(riskOfCapability(capability))
       => session[s].stepUp # "none"

requireAdminPresence(s) == resolveSession(s) # "INVALID"

Admit(r) ==
  /\ Cardinality(pending \cup {r}) <= MaxPending
  /\ pending' = pending \cup {r}

\* consumeChallenge: claimed once, whatever the rest of the request does.
Exchange(c, rs) == c \in pending /\ pending' = (pending \ {c}) \cup rs

OnlyPending ==
  UNCHANGED <<role, status, password, keys, spent, grant, grants, session>>

-----------------------------------------------------------------------------
(* Signing in *)

loginWithPassword(u) ==
  /\ u \in password /\ status[u] = "ACTIVE"
  /\ Admit(IF requiresWebAuthn(role[u]) THEN Ceremony("AUTHENTICATION", u)
           ELSE Request("issue", u, u, Nowhere, NoKey, "PASSWORD"))
  /\ OnlyPending

completeLoginWebAuthn(c, k) ==
  /\ c.op = "AUTHENTICATION"
  /\ Exchange(c, IF k \in keys[c.user] /\ status[c.user] = "ACTIVE"
                 THEN {Request("issue", c.user, c.user, Nowhere, k, "WEBAUTHN")}
                 ELSE {})
  /\ OnlyPending

\* The compare-and-set on the key's counter: every other request that verified
\* against the old value has lost.
KeyStillGood(r) == r.key # NoKey => r.key \in keys[r.user] /\ r.counter
Advance(r) ==
  pending' = {IF /\ q.op \in {"issue", "stepUp", "reopen"}
                 /\ q.key = r.key /\ r.key \in CountingKeys
              THEN [q EXCEPT !.counter = FALSE] ELSE q : q \in pending \ {r}}
Withdraw(r) == pending' = pending \ {r}

\* Mutant: the account is not read again before the session is opened.
issueSessionUnlocked(r) ==
  /\ r.op = "issue"
  /\ \E s \in Sessions :
       /\ ~Live(s) /\ \A q \in pending : q.browser # s
       /\ session' = [session EXCEPT ![s] =
            [user |-> r.user, state |-> "ACTIVE", stepUp |-> r.how]]
  /\ Advance(r)
  /\ UNCHANGED <<role, status, password, keys, spent, grant, grants>>

issueSession(r) ==
  /\ r.op = "issue"
  /\ IF status[r.user] = "ACTIVE" /\ KeyStillGood(r)
     THEN /\ \E s \in Sessions :
               /\ ~Live(s) /\ \A q \in pending : q.browser # s
               /\ session' = [session EXCEPT ![s] =
                    [user |-> r.user, state |-> "ACTIVE", stepUp |-> r.how]]
          /\ Advance(r)
     ELSE Withdraw(r) /\ UNCHANGED session
  /\ UNCHANGED <<role, status, password, keys, spent, grant, grants>>

revokeSession(s) ==
  /\ Live(s) /\ requireAdminPresence(s)
  /\ session' = [session EXCEPT ![s] = NoSession]
  /\ UNCHANGED <<role, status, password, keys, spent, grant, grants, pending>>

revokeOwnSession(s, t) ==
  /\ authorizeAdmin(s, AccountRoutes.revokeOwnSession)
  /\ Live(t) /\ session[t].user = session[s].user
  /\ session' = [session EXCEPT ![t] = NoSession]
  /\ UNCHANGED <<role, status, password, keys, spent, grant, grants, pending>>

Without(u, others) ==
  [s \in Sessions |-> IF Live(s) /\ session[s].user = u /\ s \in others
                      THEN NoSession ELSE session[s]]

revokeOtherSessions(s) ==
  /\ authorizeAdmin(s, AccountRoutes.revokeOtherSessions)
  /\ session' = Without(session[s].user, Sessions \ {s})
  /\ UNCHANGED <<role, status, password, keys, spent, grant, grants, pending>>

\* Time: the idle window, the absolute limit and the step-up window pass.  A
\* session is not reopened and idle again within one request.
IdlePasses(s) ==
  /\ Live(s) /\ session[s].state = "ACTIVE"
  /\ \A r \in pending : r.op = "reopen" => r.browser # s
  /\ session' = [session EXCEPT ![s].state = "LOCKED"]
  /\ UNCHANGED <<role, status, password, keys, spent, grant, grants, pending>>

HardLimitPasses(s) ==
  /\ Live(s)
  /\ session' = [session EXCEPT ![s] = NoSession]
  /\ UNCHANGED <<role, status, password, keys, spent, grant, grants, pending>>

StepUpAges(s) ==
  /\ Live(s) /\ session[s].stepUp # "none"
  /\ session' = [session EXCEPT ![s].stepUp = "none"]
  /\ UNCHANGED <<role, status, password, keys, spent, grant, grants, pending>>

CeremonyExpires(c) ==
  c.op \in Ceremonies /\ Exchange(c, {}) /\ OnlyPending

-----------------------------------------------------------------------------
(* Step-up and unlock *)

beginStepUp(s) ==
  /\ resolveSession(s) = "ACTIVE"
  /\ Admit(Ceremony("STEP_UP", session[s].user)) /\ OnlyPending

completeStepUp(c, s, k) ==
  /\ c.op = "STEP_UP"
  /\ resolveSession(s) = "ACTIVE" /\ session[s].user = c.user
  /\ Exchange(c, IF k \in keys[c.user]
                 THEN {Request("stepUp", c.user, c.user, s, k, "WEBAUTHN")}
                 ELSE {})
  /\ OnlyPending

stepUpWithPassword(s) ==
  /\ resolveSession(s) = "ACTIVE"
  /\ LET u == session[s].user IN
       /\ strongAuthMethodForRole(role[u]) = "PASSWORD" /\ u \in password
       /\ Admit(Request("stepUp", u, u, s, NoKey, "PASSWORD"))
  /\ OnlyPending

SteppedUp(r) ==
  /\ r.op = "stepUp"
  /\ IF status[r.user] = "ACTIVE" /\ KeyStillGood(r) /\ Live(r.browser)
     THEN /\ session' = [session EXCEPT ![r.browser].stepUp = r.how]
          /\ Advance(r)
     ELSE Withdraw(r) /\ UNCHANGED session
  /\ UNCHANGED <<role, status, password, keys, spent, grant, grants>>

beginUnlock(s) ==
  /\ resolveSession(s) = "LOCKED"
  /\ Admit(Ceremony("UNLOCK", session[s].user)) /\ OnlyPending

completeUnlock(c, s, k) ==
  /\ c.op = "UNLOCK"
  /\ resolveSession(s) = "LOCKED" /\ session[s].user = c.user
  /\ Exchange(c, IF k \in keys[c.user]
                 THEN {Request("reopen", c.user, c.user, s, k, "WEBAUTHN")}
                 ELSE {})
  /\ OnlyPending

unlockWithPassword(s) ==
  /\ resolveSession(s) = "LOCKED" /\ session[s].user \in password
  /\ Admit(Request("reopen", session[s].user, session[s].user, s, NoKey,
                   "PASSWORD"))
  /\ OnlyPending

refreshesStepUp(r) == strongAuthMethodForRole(role[r.user]) = r.how

reopenSession(r) ==
  /\ r.op = "reopen"
  /\ IF /\ status[r.user] = "ACTIVE" /\ KeyStillGood(r)
        /\ Live(r.browser) /\ session[r.browser].state = "LOCKED"
     THEN /\ session' = [session EXCEPT
               ![r.browser].state = "ACTIVE",
               ![r.browser].stepUp = IF refreshesStepUp(r) THEN r.how ELSE @]
          /\ Advance(r)
     ELSE Withdraw(r) /\ UNCHANGED session
  /\ UNCHANGED <<role, status, password, keys, spent, grant, grants>>
-----------------------------------------------------------------------------
(* Security keys *)

beginRegistration(s) ==
  /\ authorizeAdmin(s, AuthenticatorRoutes.register)
  /\ Admit(Ceremony("REGISTRATION", session[s].user)) /\ OnlyPending

beginInvitationRegistration(u) ==
  /\ "invitation" \in grant[u] /\ status[u] = "PROVISIONING"
  /\ Admit(Ceremony("INVITATION_REGISTRATION", u)) /\ OnlyPending

beginBreakGlassRegistration(u) ==
  /\ "breakGlass" \in grant[u] /\ status[u] \in {"PROVISIONING", "ACTIVE"}
  /\ Admit(Ceremony("BREAK_GLASS_REGISTRATION", u))
  /\ grant' = [grant EXCEPT ![u] = @ \ {"breakGlass"}]
  /\ UNCHANGED <<role, status, password, keys, spent, grants, session>>

\* The states an account may be in for each of the three ceremonies.
EligibleFor(purpose) ==
  CASE purpose = "REGISTRATION" -> {"ACTIVE"}
    [] purpose = "INVITATION_REGISTRATION" -> {"PROVISIONING"}
    [] purpose = "BREAK_GLASS_REGISTRATION" -> {"PROVISIONING", "ACTIVE"}

\* resolveInvitationCeremonyTarget asks for the live code again.
completeRegistration(c, s, k) ==
  /\ c.op \in Enrolments
  /\ IF c.op = "REGISTRATION"
     THEN /\ authorizeAdmin(s, AuthenticatorRoutes.register)
          /\ session[s].user = c.user
     ELSE s = Nowhere
  /\ c.op = "INVITATION_REGISTRATION" => "invitation" \in grant[c.user]
  /\ k \notin spent /\ \A q \in pending : q.key # k
  /\ Exchange(c, IF status[c.user] \in EligibleFor(c.op)
                 THEN {Request("enrol", c.user, c.user, s, k, c.op)} ELSE {})
  /\ OnlyPending

\* Mutant: the session of the request is not read again.
EnrolmentHoldsUnlocked(r) ==
  /\ status[r.user] \in EligibleFor(r.how)
  /\ r.how = "INVITATION_REGISTRATION" => "invitation" \in grant[r.user]

EnrolmentHolds(r) ==
  /\ status[r.user] \in EligibleFor(r.how)
  /\ r.how = "REGISTRATION" => Live(r.browser)
  /\ r.how = "INVITATION_REGISTRATION" => "invitation" \in grant[r.user]

enrolAuthenticator(r) ==
  /\ r.op = "enrol" /\ Withdraw(r)
  /\ IF EnrolmentHolds(r)
     THEN LET u == r.user
              held == keys[u] \cup {r.key}
              activated == evaluateActivation(role[u], status[u],
                             Cardinality(held), u \in password)
          IN /\ keys' = [keys EXCEPT ![u] = held]
             /\ spent' = spent \cup {r.key}
             /\ status' = [status EXCEPT ![u] = IF activated THEN "ACTIVE" ELSE @]
             /\ grant' = [grant EXCEPT ![u] =
                  IF activated /\ r.how = "INVITATION_REGISTRATION"
                  THEN @ \ {"invitation"} ELSE @]
     ELSE UNCHANGED <<keys, spent, status, grant>>
  /\ UNCHANGED <<role, password, grants, session>>

revokeAuthenticator(s, k) ==
  /\ authorizeAdmin(s, AuthenticatorRoutes.revokeAuthenticator)
  /\ k \in keys[session[s].user]
  /\ Admit(Request("retire", session[s].user, session[s].user, s, k, "-"))
  /\ OnlyPending

Retire(r, allowed) ==
  /\ Withdraw(r)
  /\ keys' = IF /\ allowed /\ r.key \in keys[r.on]
                /\ canRevokeAuthenticator(role[r.on], status[r.on],
                                          Cardinality(keys[r.on]))
             THEN [keys EXCEPT ![r.on] = @ \ {r.key}] ELSE keys
  /\ UNCHANGED <<role, status, password, spent, grant, grants, session>>

retireAuthenticator(r) ==
  r.op = "retire" /\ Retire(r, status[r.user] = "ACTIVE" /\ Live(r.browser))

-----------------------------------------------------------------------------
(* Passwords and one-time codes *)

changeOwnPassword(s) ==
  /\ authorizeAdmin(s, AccountRoutes.changeOwnPassword)
  /\ session[s].user \in password
  /\ Admit(Request("changePassword", session[s].user, session[s].user, s,
                   NoKey, "-"))
  /\ OnlyPending

passwordChanged(r) ==
  /\ r.op = "changePassword" /\ Withdraw(r)
  /\ session' = IF status[r.user] = "ACTIVE" /\ Live(r.browser)
                THEN Without(r.user, Sessions \ {r.browser}) ELSE session
  /\ UNCHANGED <<role, status, password, keys, spent, grant, grants>>

\* An act on somebody else: admitted on the actor, carried out on the target;
\* the transaction does not look at the actor again.
AdmitAct(s, capability, op, t, k, how) ==
  /\ authorizeAdmin(s, capability)
  /\ op \in {"invite", "reissue", "reset"} =>
       grants + Cardinality({q \in pending : q.op \in {"invite", "reissue", "reset"}})
         < MaxGrants
  /\ Admit(Request(op, t, t, Nowhere, k, how)) /\ OnlyPending

Issue(u, kind) ==
  /\ grants < MaxGrants /\ grants' = grants + 1
  /\ grant' = [grant EXCEPT ![u] = @ \cup {kind}]

createInvitation(s, t) ==
  /\ Live(s) /\ mayInviteRole(role[session[s].user], role[t])
  /\ status[t] = "ABSENT"
  /\ AdmitAct(s, GrantRoutes.createInvitation, "invite", t, NoKey, "-")

invitationCreated(r) ==
  /\ r.op = "invite" /\ Withdraw(r)
  /\ IF status[r.on] = "ABSENT"
     THEN /\ status' = [status EXCEPT ![r.on] = "PROVISIONING"]
          /\ Issue(r.on, "invitation")
     ELSE UNCHANGED <<status, grant, grants>>
  /\ UNCHANGED <<role, password, keys, spent, session>>

reissueInvitation(s, t) ==
  /\ Live(s) /\ mayInviteRole(role[session[s].user], role[t])
  /\ status[t] = "PROVISIONING"
  /\ AdmitAct(s, GrantRoutes.reissueInvitation, "reissue", t, NoKey, "-")

invitationReissued(r) ==
  /\ r.op = "reissue" /\ Withdraw(r)
  /\ IF status[r.on] = "PROVISIONING" THEN Issue(r.on, "invitation")
     ELSE UNCHANGED <<grant, grants>>
  /\ UNCHANGED <<role, status, password, keys, spent, session>>

issuePasswordReset(s, t) ==
  /\ Live(s) /\ mayResetPassword(role[session[s].user], role[t])
  /\ status[t] = "ACTIVE"
  /\ AdmitAct(s, GrantRoutes.issuePasswordReset, "reset", t, NoKey, "-")

passwordResetIssued(r) ==
  /\ r.op = "reset" /\ Withdraw(r) /\ Issue(r.on, "reset")
  /\ UNCHANGED <<role, status, password, keys, spent, session>>

\* Taking a code back, in one conditional update.
Recall(s, t, kind, capability) ==
  /\ authorizeAdmin(s, capability) /\ kind \in grant[t]
  /\ grant' = [grant EXCEPT ![t] = @ \ {kind}]
  /\ UNCHANGED <<role, status, password, keys, spent, grants, session, pending>>

revokeInvitation(s, t) ==
  /\ Live(s) /\ mayInviteRole(role[session[s].user], role[t])
  /\ Recall(s, t, "invitation", GrantRoutes.revokeInvitation)

revokePasswordReset(s, t) ==
  /\ Live(s) /\ mayResetPassword(role[session[s].user], role[t])
  /\ Recall(s, t, "reset", GrantRoutes.revokePasswordReset)

GrantLapses(u, kind) ==
  /\ kind \in grant[u] /\ grant' = [grant EXCEPT ![u] = @ \ {kind}]
  /\ UNCHANGED <<role, status, password, keys, spent, grants, session, pending>>

\* Redeemed by whoever holds the code; the transaction checks again all that
\* the look-up before it checked, so the two are one step.
setInvitationPassword(u) ==
  /\ "invitation" \in grant[u] /\ status[u] = "PROVISIONING"
  /\ password' = password \cup {u}
  /\ LET activated == evaluateActivation(role[u], "PROVISIONING",
                        Cardinality(keys[u]), TRUE)
     IN /\ status' = [status EXCEPT ![u] = IF activated THEN "ACTIVE" ELSE @]
        /\ grant' = [grant EXCEPT ![u] =
                       IF activated THEN @ \ {"invitation"} ELSE @]
  /\ UNCHANGED <<role, keys, spent, grants, session, pending>>

completePasswordReset(u) ==
  /\ "reset" \in grant[u] /\ status[u] = "ACTIVE"
  /\ grant' = [grant EXCEPT ![u] = @ \ {"reset"}]
  /\ password' = password \cup {u}
  /\ session' = Without(u, Sessions)
  /\ UNCHANGED <<role, status, keys, spent, grants, pending>>

-----------------------------------------------------------------------------
(* Other people: suspended, resumed, disabled, signed out, a key retired *)

changeStatus(s, t, requested) ==
  /\ role[t] = "OPERATOR"
  /\ AdmitAct(s, PeopleRoutes.changeStatus, "status", t, NoKey, requested)

\* With admin_users_assert_activation_ready, the trigger on entering ACTIVE.
activationReady(u, requested) ==
  requested = "ACTIVE" =>
    u \in password /\ Cardinality(keys[u]) >= minimumAuthenticators(role[u])

SetStatus(u, requested) ==
  IF evaluateStatusTransition(status[u], requested) /\ activationReady(u, requested)
  THEN /\ status' = [status EXCEPT ![u] = requested]
       /\ session' = IF revokesSessions(requested) THEN Without(u, Sessions)
                     ELSE session
  ELSE UNCHANGED <<status, session>>

statusChanged(r) ==
  /\ r.op = "status" /\ Withdraw(r) /\ SetStatus(r.on, r.how)
  /\ UNCHANGED <<role, password, keys, spent, grant, grants>>

revokeSessions(s, t) ==
  /\ role[t] = "OPERATOR"
  /\ AdmitAct(s, PeopleRoutes.revokeSessions, "signOut", t, NoKey, "-")

sessionsRevoked(r) ==
  /\ r.op = "signOut" /\ Withdraw(r) /\ session' = Without(r.on, Sessions)
  /\ UNCHANGED <<role, status, password, keys, spent, grant, grants>>

revokeOperatorAuthenticator(s, t, k) ==
  /\ role[t] = "OPERATOR" /\ k \in keys[t]
  /\ AdmitAct(s, PeopleRoutes.retireKey, "retireKey", t, k, "-")

operatorAuthenticatorRevoked(r) == r.op = "retireKey" /\ Retire(r, TRUE)

-----------------------------------------------------------------------------
(* The account command line *)

bootstrapTechnicalAdmin(u) ==
  /\ role[u] = "TECHNICAL_ADMIN" /\ status[u] = "ABSENT"
  /\ \A v \in Users : role[v] = "TECHNICAL_ADMIN"
       => status[v] \notin {"PROVISIONING", "ACTIVE"}
  /\ status' = [status EXCEPT ![u] = "PROVISIONING"]
  /\ Issue(u, "invitation")
  /\ UNCHANGED <<role, password, keys, spent, session, pending>>

createProvisioningAccount(u) ==
  /\ status[u] = "ABSENT"
  /\ status' = [status EXCEPT ![u] = "PROVISIONING"]
  /\ UNCHANGED <<role, password, keys, spent, grant, grants, session, pending>>

issueInvitationFor(u) ==
  /\ status[u] = "PROVISIONING" /\ Issue(u, "invitation")
  /\ UNCHANGED <<role, status, password, keys, spent, session, pending>>

resetPassword(u) ==
  /\ status[u] = "ACTIVE" /\ Issue(u, "reset")
  /\ UNCHANGED <<role, status, password, keys, spent, session, pending>>

issueBreakGlass(u) ==
  /\ status[u] \in {"PROVISIONING", "ACTIVE"} /\ Issue(u, "breakGlass")
  /\ UNCHANGED <<role, status, password, keys, spent, session, pending>>

revokeBreakGlass(u) ==
  /\ "breakGlass" \in grant[u]
  /\ grant' = [grant EXCEPT ![u] = @ \ {"breakGlass"}]
  /\ UNCHANGED <<role, status, password, keys, spent, grants, session, pending>>

setStatus(u, requested) ==
  /\ status[u] \in Statuses /\ SetStatus(u, requested)
  /\ UNCHANGED <<role, password, keys, spent, grant, grants, pending>>

-----------------------------------------------------------------------------
(* The specification *)

Transaction(r) ==
  \/ issueSession(r) \/ SteppedUp(r) \/ reopenSession(r)
  \/ enrolAuthenticator(r) \/ retireAuthenticator(r) \/ passwordChanged(r)
  \/ invitationCreated(r) \/ invitationReissued(r) \/ passwordResetIssued(r)
  \/ statusChanged(r) \/ sessionsRevoked(r) \/ operatorAuthenticatorRevoked(r)

OwnRequest(s) ==
  \/ revokeSession(s) \/ revokeOtherSessions(s)
  \/ \E t \in Sessions : revokeOwnSession(s, t)
  \/ beginStepUp(s) \/ stepUpWithPassword(s)
  \/ beginUnlock(s) \/ unlockWithPassword(s)
  \/ beginRegistration(s) \/ changeOwnPassword(s)
  \/ \E k \in Keys : revokeAuthenticator(s, k)

CeremonyAnswer(c, k) ==
  \/ completeLoginWebAuthn(c, k)
  \/ \E s \in Sessions : completeStepUp(c, s, k) \/ completeUnlock(c, s, k)
  \/ \E s \in Sessions \cup {Nowhere} : completeRegistration(c, s, k)

ActOnOther(s, t) ==
  \/ createInvitation(s, t) \/ reissueInvitation(s, t) \/ revokeInvitation(s, t)
  \/ issuePasswordReset(s, t) \/ revokePasswordReset(s, t)
  \/ \E to \in Statuses \ {"PROVISIONING"} : changeStatus(s, t, to)
  \/ revokeSessions(s, t)
  \/ \E k \in Keys : revokeOperatorAuthenticator(s, t, k)

CommandLine(u) ==
  \/ bootstrapTechnicalAdmin(u) \/ createProvisioningAccount(u)
  \/ issueInvitationFor(u) \/ resetPassword(u)
  \/ issueBreakGlass(u) \/ revokeBreakGlass(u)
  \/ \E to \in Statuses \ {"PROVISIONING"} : setStatus(u, to)

Anonymous(u) ==
  \/ loginWithPassword(u)
  \/ setInvitationPassword(u) \/ completePasswordReset(u)
  \/ beginInvitationRegistration(u) \/ beginBreakGlassRegistration(u)

IdentityNext ==
  \/ \E r \in pending : Transaction(r) \/ CeremonyExpires(r)
                        \/ \E k \in Keys : CeremonyAnswer(r, k)
  \/ \E s \in Sessions :
       \/ OwnRequest(s) \/ \E t \in Users : ActOnOther(s, t)
       \/ IdlePasses(s) \/ HardLimitPasses(s) \/ StepUpAges(s)
  \/ \E u \in Users :
       \/ Anonymous(u) \/ CommandLine(u)
       \/ \E kind \in GrantKinds : GrantLapses(u, kind)

IdentitySpec == IdentityInit /\ [][IdentityNext]_identityVars

-----------------------------------------------------------------------------
(* Properties *)

\* Only an active account has a live session: a suspension or a disablement
\* ends them, and no sign-in that was verified before it opens one after it
\* (issueSession, changeStatus, admin-account setStatus), so resuming an
\* account never brings an old session back.
SessionsBelongToActive ==
  \A s \in Sessions : Live(s) => status[session[s].user] = "ACTIVE"

\* An active account holds every factor its role signs in with, whatever
\* enrolments, retirements, redemptions and resumptions race
\* (evaluateActivation, canRevokeAuthenticator).
ActiveHoldsFactors ==
  \A u \in Users : status[u] = "ACTIVE" =>
    /\ u \in password
    /\ Cardinality(keys[u]) >= minimumAuthenticators(role[u])

\* The accounts are sound, whoever invites, enrols, retires and suspends whom.
AccountsAreSound == IdentityTypeOK /\ SessionsBelongToActive /\ ActiveHoldsFactors

\* A request of one's own that was admitted and then overtaken by a logout, a
\* revocation or a suspension changes nothing any more.
OvertakenRequestsChangeNothing ==
  [][\A r \in pending :
       /\ {r, [r EXCEPT !.counter = FALSE]} \cap pending' = {}
       /\ r.op \in SelfService
       /\ r.how # "INVITATION_REGISTRATION" /\ r.how # "BREAK_GLASS_REGISTRATION"
       /\ ~Live(r.browser)
       => UNCHANGED <<status, password, keys, session>>]_identityVars
=============================================================================
