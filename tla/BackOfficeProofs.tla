--------------------------- MODULE BackOfficeProofs ---------------------------
(***************************************************************************)
(* The administration.  The accounts, for any number of browsers, security *)
(* keys, ceremonies and codes: only an active account has a live session,  *)
(* an active account holds every factor of its role, and a request that    *)
(* was overtaken changes nothing.  The desks, for any number of clerks,    *)
(* tariffs, records, payouts and paper changes: what they keep is what was *)
(* decided at them, once each.  The reads, for any table, page size, scope *)
(* and clock: what a person is shown is what was asked for.                *)
(***************************************************************************)
EXTENDS AdminIdentity, AdminDesk, AdminReads, SequenceTheorems,
        NaturalsInduction, FiniteSetTheorems, TLAPS

-----------------------------------------------------------------------------
(* The accounts: the inductive invariant *)

Operations ==
  Ceremonies \cup SelfService \cup
  {"issue", "invite", "reissue", "reset", "status", "signOut", "retireKey"}
Hows == {"-", "PASSWORD", "WEBAUTHN"} \cup Statuses \cup Enrolments

\* What is under way: every request acts on an account, and carries what its
\* transaction will write.
Requests ==
  {r \in [op : Operations, user : Users, on : Users, browser : Sessions \cup {Nowhere},
          key : Keys \cup {NoKey}, how : Hows, counter : BOOLEAN] :
     /\ r.op = "enrol" => r.key \in Keys /\ r.how \in Enrolments
     /\ r.op = "status" => r.how \in Statuses
     /\ r.op \in {"issue", "stepUp", "reopen"} => r.how \in {"PASSWORD", "WEBAUTHN"}}

PendingOK ==
  /\ IsFiniteSet(pending) /\ pending \subseteq Requests
  /\ Cardinality(pending) <= MaxPending

SessionRows ==
  {NoSession} \cup [user : Users, state : {"ACTIVE", "LOCKED"},
                    stepUp : {"none", "PASSWORD", "WEBAUTHN"}]

RowsOK ==
  /\ role \in [Users -> Roles]
  /\ status \in [Users -> Statuses \cup {"ABSENT"}]
  /\ password \subseteq Users
  /\ keys \in [Users -> SUBSET Keys] /\ spent \subseteq Keys
  /\ grant \in [Users -> SUBSET GrantKinds] /\ grants \in 0..MaxGrants
  /\ session \in [Sessions -> SessionRows]

IdentityInv == RowsOK /\ PendingOK /\ SessionsBelongToActive /\ ActiveHoldsFactors

-----------------------------------------------------------------------------
(* What is under way *)

\* A request is admitted while there is room.
LEMMA AdmitKeeps ==
  ASSUME PendingOK, NEW r \in Requests, Admit(r) PROVE PendingOK' /\ pending \subseteq pending'
<1>1. pending' = pending \cup {r} /\ Cardinality(pending \cup {r}) <= MaxPending BY DEF Admit
<1>2. IsFiniteSet(pending \cup {r}) BY FS_AddElement DEF PendingOK
<1> QED BY <1>1, <1>2 DEF PendingOK

\* A ceremony is consumed, and at most one request comes of it.
LEMMA ExchangeKeeps ==
  ASSUME PendingOK, NEW c, NEW rs, NEW r,
         rs = {} \/ (rs = {r} /\ r \in Requests), Exchange(c, rs)
  PROVE  PendingOK' /\ pending \ {c} \subseteq pending'
<1>1. c \in pending /\ pending' = (pending \ {c}) \cup rs BY DEF Exchange
<1>2. IsFiniteSet(pending \ {c}) /\ Cardinality(pending \ {c}) = Cardinality(pending) - 1
      /\ Cardinality(pending) \in Nat
  BY <1>1, FS_RemoveElement, FS_CardinalityType DEF PendingOK
<1>3. CASE rs = {}
  <2>1. pending' = pending \ {c} BY <1>1, <1>3
  <2>2. MaxPending \in Nat BY IdentityAssumption
  <2> QED BY <1>2, <2>1, <2>2 DEF PendingOK
<1>4. CASE rs = {r} /\ r \in Requests
  <2>1. IsFiniteSet(pending') /\ Cardinality(pending') <= Cardinality(pending)
    <3>1. pending' = (pending \ {c}) \cup {r} BY <1>1, <1>4
    <3>2. IsFiniteSet((pending \ {c}) \cup {r})
          /\ Cardinality((pending \ {c}) \cup {r}) =
               IF r \in pending \ {c} THEN Cardinality(pending \ {c})
               ELSE Cardinality(pending \ {c}) + 1
      BY <1>2, FS_AddElement
    <3> QED BY <1>2, <3>1, <3>2
  <2>2. MaxPending \in Nat BY IdentityAssumption
  <2>3. Cardinality(pending') \in Nat BY <2>1, FS_CardinalityType
  <2>4. pending' \subseteq Requests BY <1>1, <1>4 DEF PendingOK
  <2>5. Cardinality(pending') <= MaxPending BY <1>2, <2>1, <2>2, <2>3 DEF PendingOK
  <2> QED BY <1>1, <2>1, <2>4, <2>5 DEF PendingOK
<1> QED BY <1>3, <1>4

LEMMA WithdrawKeeps ==
  ASSUME PendingOK, NEW r \in pending, Withdraw(r) PROVE PendingOK' /\ pending \ {r} \subseteq pending'
<1>1. pending' = pending \ {r} BY DEF Withdraw
<1>2. IsFiniteSet(pending \ {r}) /\ Cardinality(pending \ {r}) = Cardinality(pending) - 1
      /\ Cardinality(pending) \in Nat
  BY FS_RemoveElement, FS_CardinalityType DEF PendingOK
<1>3. MaxPending \in Nat BY IdentityAssumption
<1> QED BY <1>1, <1>2, <1>3 DEF PendingOK

\* The requests that verified against the old counter stay, marked.
LEMMA AdvanceKeeps ==
  ASSUME PendingOK, NEW r \in pending, Advance(r)
  PROVE  /\ PendingOK'
         /\ \A q \in pending \ {r} : q \in pending' \/ [q EXCEPT !.counter = FALSE] \in pending'
<1> DEFINE S == pending \ {r}
           f == [q \in S |-> IF /\ q.op \in {"issue", "stepUp", "reopen"}
                                /\ q.key = r.key /\ r.key \in CountingKeys
                             THEN [q EXCEPT !.counter = FALSE] ELSE q]
           T == {f[q] : q \in S}
<1>1. pending' = T BY DEF Advance
<1>2. IsFiniteSet(S) /\ Cardinality(S) = Cardinality(pending) - 1 /\ Cardinality(pending) \in Nat
  BY FS_RemoveElement, FS_CardinalityType DEF PendingOK
<1>3. \A q \in S : f[q] = q \/ f[q] = [q EXCEPT !.counter = FALSE] OBVIOUS
<1>4. \A q \in Requests : [q EXCEPT !.counter = FALSE] \in Requests BY DEF Requests
<1>5. S \subseteq Requests BY DEF PendingOK
<1> HIDE DEF S
<1>6. f \in [S -> T] OBVIOUS
<1> HIDE DEF f
<1>7. T \subseteq Requests BY <1>3, <1>4, <1>5
<1>8. f \in Surjection(S, T) BY <1>6 DEF Surjection
<1>9. IsFiniteSet(T) /\ Cardinality(T) <= Cardinality(S)
  <2> HIDE DEF T
  <2> QED BY <1>2, <1>8, FS_Surjection
<1>10. Cardinality(T) \in Nat
  <2> HIDE DEF T
  <2> QED BY <1>9, FS_CardinalityType
<1>11. MaxPending \in Nat BY IdentityAssumption
<1>12. PendingOK'
  <2> HIDE DEF T
  <2> QED BY <1>1, <1>2, <1>7, <1>9, <1>10, <1>11 DEF PendingOK
<1>13. \A q \in S : q \in pending' \/ [q EXCEPT !.counter = FALSE] \in pending'
  BY <1>1, <1>3
<1> QED BY <1>12, <1>13 DEF S

LEMMA RequestIsGood ==
  ASSUME NEW op \in Operations, NEW u \in Users, NEW s \in Sessions \cup {Nowhere},
         NEW k \in Keys \cup {NoKey}, NEW how \in Hows,
         op = "enrol" => k \in Keys /\ how \in Enrolments,
         op = "status" => how \in Statuses,
         op \in {"issue", "stepUp", "reopen"} => how \in {"PASSWORD", "WEBAUTHN"}
  PROVE  Request(op, u, u, s, k, how) \in Requests
<1> QED BY DEF Request, Requests

LEMMA CeremonyIsGood ==
  ASSUME NEW purpose \in Ceremonies, NEW u \in Users PROVE Ceremony(purpose, u) \in Requests
<1>1. purpose \in Operations /\ purpose \notin {"enrol", "status", "issue", "stepUp", "reopen"}
  BY DEF Ceremonies, Operations
<1>2. "-" \in Hows BY DEF Hows
<1> QED BY <1>1, <1>2, RequestIsGood DEF Ceremony

\* A caller that resolves to anything has a live session of an account.
LEMMA CallerIsKnown ==
  ASSUME RowsOK, NEW s
  PROVE  /\ Live(s) => s \in Sessions /\ session[s] \in SessionRows \ {NoSession}
                       /\ session[s].user \in Users
         /\ resolveSession(s) # "INVALID" => Live(s)
         /\ \A c : authorizeAdmin(s, c) => resolveSession(s) = "ACTIVE"
<1>1. ASSUME Live(s) PROVE s \in Sessions /\ session[s] \in SessionRows \ {NoSession}
                           /\ session[s].user \in Users
  BY <1>1 DEF Live, RowsOK, SessionRows
<1>2. resolveSession(s) # "INVALID" => Live(s) BY DEF resolveSession
<1>3. \A c : authorizeAdmin(s, c) => resolveSession(s) = "ACTIVE" BY DEF authorizeAdmin
<1> QED BY <1>1, <1>2, <1>3

\* The steps that only ask: a request is admitted, or a ceremony answered.
Asking ==
  \/ \E r \in Requests : Admit(r)
  \/ \E c \in pending : c.op \in Ceremonies /\ Exchange(c, {})
  \/ \E c \in pending, r \in Requests : c.op \in Ceremonies /\ Exchange(c, {r})

LEMMA AskingKeeps ==
  ASSUME PendingOK, Asking
  PROVE  PendingOK' /\ \A r \in pending : r.op \notin Ceremonies => r \in pending'
<1>1. CASE \E r \in Requests : Admit(r) BY <1>1, AdmitKeeps
<1>2. CASE \E c \in pending : c.op \in Ceremonies /\ Exchange(c, {})
  <2>1. PICK c \in pending : c.op \in Ceremonies /\ Exchange(c, {}) BY <1>2
  <2>2. PendingOK' /\ pending \ {c} \subseteq pending' BY <2>1, ExchangeKeeps
  <2> QED BY <2>1, <2>2
<1>3. CASE \E c \in pending, r \in Requests : c.op \in Ceremonies /\ Exchange(c, {r})
  <2>1. PICK c \in pending, r \in Requests : c.op \in Ceremonies /\ Exchange(c, {r}) BY <1>3
  <2>2. PendingOK' /\ pending \ {c} \subseteq pending' BY <2>1, ExchangeKeeps
  <2> QED BY <2>1, <2>2
<1> QED BY <1>1, <1>2, <1>3 DEF Asking

\* A browser's own requests and what it asks about others.
OwnAsk(s) ==
  \/ beginStepUp(s) \/ stepUpWithPassword(s) \/ beginUnlock(s) \/ unlockWithPassword(s)
  \/ beginRegistration(s) \/ changeOwnPassword(s) \/ \E k \in Keys : revokeAuthenticator(s, k)

LEMMA OwnAsksAsk ==
  ASSUME RowsOK, NEW s \in Sessions, OwnAsk(s) PROVE Asking /\ OnlyPending
<1>1. Live(s) /\ session[s].user \in Users
  <2>1. resolveSession(s) \in {"ACTIVE", "LOCKED"}
    BY CallerIsKnown DEF OwnAsk, beginStepUp, stepUpWithPassword, beginUnlock, unlockWithPassword,
         beginRegistration, changeOwnPassword, revokeAuthenticator, authorizeAdmin
  <2> QED BY <2>1, CallerIsKnown
<1> DEFINE u == session[s].user
<1>2. CASE beginStepUp(s) \/ beginUnlock(s) \/ beginRegistration(s)
  <2>1. Ceremony("STEP_UP", u) \in Requests /\ Ceremony("UNLOCK", u) \in Requests
        /\ Ceremony("REGISTRATION", u) \in Requests
    BY <1>1, CeremonyIsGood DEF Ceremonies
  <2> QED BY <1>2, <2>1 DEF beginStepUp, beginUnlock, beginRegistration, Asking
<1>3. CASE stepUpWithPassword(s) \/ unlockWithPassword(s) \/ changeOwnPassword(s)
  <2>1. Request("stepUp", u, u, s, NoKey, "PASSWORD") \in Requests
        /\ Request("reopen", u, u, s, NoKey, "PASSWORD") \in Requests
        /\ Request("changePassword", u, u, s, NoKey, "-") \in Requests
    BY <1>1, RequestIsGood DEF Operations, Hows, SelfService
  <2>2. Admit(Request("stepUp", u, u, s, NoKey, "PASSWORD"))
        \/ Admit(Request("reopen", u, u, s, NoKey, "PASSWORD"))
        \/ Admit(Request("changePassword", u, u, s, NoKey, "-"))
    BY <1>3 DEF stepUpWithPassword, unlockWithPassword, changeOwnPassword
  <2>3. OnlyPending BY <1>3 DEF stepUpWithPassword, unlockWithPassword, changeOwnPassword
  <2> QED BY <2>1, <2>2, <2>3 DEF Asking
<1>4. CASE \E k \in Keys : revokeAuthenticator(s, k)
  <2>1. PICK k \in Keys : revokeAuthenticator(s, k) BY <1>4
  <2>2. Request("retire", u, u, s, k, "-") \in Requests
    BY <1>1, RequestIsGood DEF Operations, Hows, SelfService
  <2> QED BY <2>1, <2>2 DEF revokeAuthenticator, Asking
<1> QED BY <1>2, <1>3, <1>4 DEF OwnAsk

AskOther(s, t) ==
  \/ createInvitation(s, t) \/ reissueInvitation(s, t) \/ issuePasswordReset(s, t)
  \/ \E to \in Statuses \ {"PROVISIONING"} : changeStatus(s, t, to)
  \/ revokeSessions(s, t) \/ \E k \in Keys : revokeOperatorAuthenticator(s, t, k)

LEMMA AsksOnOthersAsk ==
  ASSUME NEW s \in Sessions, NEW t \in Users, AskOther(s, t) PROVE Asking /\ OnlyPending
<1> DEFINE Acts(op, k, how) == OnlyPending /\ Admit(Request(op, t, t, Nowhere, k, how))
<1>1. \/ \E op \in {"invite", "reissue", "reset", "signOut"} : Acts(op, NoKey, "-")
      \/ \E to \in Statuses : Acts("status", NoKey, to)
      \/ \E k \in Keys : Acts("retireKey", k, "-")
  BY DEF AskOther, createInvitation, reissueInvitation, issuePasswordReset, changeStatus, revokeSessions,
         revokeOperatorAuthenticator, AdmitAct
<1>2. PICK op \in {"invite", "reissue", "reset", "status", "signOut", "retireKey"},
         k \in Keys \cup {NoKey}, how \in Statuses \cup {"-"} :
        Acts(op, k, how) /\ (op = "status" => how \in Statuses)
  <2> HIDE DEF Acts
  <2> QED BY <1>1
<1>3. Request(op, t, t, Nowhere, k, how) \in Requests
  <2>1. op \in Operations /\ how \in Hows BY DEF Operations, Hows
  <2> QED BY <1>2, <2>1, RequestIsGood
<1> QED BY <1>2, <1>3 DEF Asking

\* Somebody at the sign-in page, or with a code in hand.
LEMMA StrangersAsk ==
  ASSUME NEW u \in Users,
         loginWithPassword(u) \/ beginInvitationRegistration(u) \/ beginBreakGlassRegistration(u)
  PROVE  Asking
<1>1. /\ Ceremony("AUTHENTICATION", u) \in Requests
      /\ Ceremony("INVITATION_REGISTRATION", u) \in Requests
      /\ Ceremony("BREAK_GLASS_REGISTRATION", u) \in Requests
  BY CeremonyIsGood DEF Ceremonies
<1>2. Request("issue", u, u, Nowhere, NoKey, "PASSWORD") \in Requests
  BY RequestIsGood DEF Operations, Hows
<1>3. \/ Admit(Ceremony("AUTHENTICATION", u))
      \/ Admit(Ceremony("INVITATION_REGISTRATION", u))
      \/ Admit(Ceremony("BREAK_GLASS_REGISTRATION", u))
      \/ Admit(Request("issue", u, u, Nowhere, NoKey, "PASSWORD"))
  BY DEF loginWithPassword, beginInvitationRegistration, beginBreakGlassRegistration
<1> QED BY <1>1, <1>2, <1>3 DEF Asking

LEMMA AnswersAsk ==
  ASSUME PendingOK, NEW c \in pending, CeremonyExpires(c) \/ \E k \in Keys : CeremonyAnswer(c, k)
  PROVE  Asking /\ OnlyPending
<1>1. c.user \in Users BY DEF PendingOK, Requests
<1>2. CASE CeremonyExpires(c) BY <1>2 DEF CeremonyExpires, Asking
<1>3. CASE \E k \in Keys : CeremonyAnswer(c, k)
  <2>1. PICK k \in Keys : CeremonyAnswer(c, k) BY <1>3
  <2>2. CASE completeLoginWebAuthn(c, k)
    <3>1. Request("issue", c.user, c.user, Nowhere, k, "WEBAUTHN") \in Requests
      BY <1>1, RequestIsGood DEF Operations, Hows
    <3> QED BY <2>2, <3>1 DEF completeLoginWebAuthn, Asking, Ceremonies
  <2>3. CASE \E s \in Sessions : completeStepUp(c, s, k) \/ completeUnlock(c, s, k)
    <3>1. PICK s \in Sessions : completeStepUp(c, s, k) \/ completeUnlock(c, s, k) BY <2>3
    <3>2. Request("stepUp", c.user, c.user, s, k, "WEBAUTHN") \in Requests
          /\ Request("reopen", c.user, c.user, s, k, "WEBAUTHN") \in Requests
      BY <1>1, RequestIsGood DEF Operations, Hows, SelfService
    <3> QED BY <3>1, <3>2 DEF completeStepUp, completeUnlock, Asking, Ceremonies
  <2>4. CASE \E s \in Sessions \cup {Nowhere} : completeRegistration(c, s, k)
    <3>1. PICK s \in Sessions \cup {Nowhere} : completeRegistration(c, s, k) BY <2>4
    <3>2. c.op \in Enrolments /\ OnlyPending BY <3>1 DEF completeRegistration
    <3>3. Request("enrol", c.user, c.user, s, k, c.op) \in Requests
      BY <1>1, <3>2, RequestIsGood DEF Operations, Hows, SelfService
    <3>4. c.op \in Ceremonies BY <3>2 DEF Enrolments, Ceremonies
    <3>5. Exchange(c, {Request("enrol", c.user, c.user, s, k, c.op)}) \/ Exchange(c, {})
      BY <3>1 DEF completeRegistration
    <3> QED BY <3>2, <3>3, <3>4, <3>5 DEF Asking
  <2> QED BY <2>1, <2>2, <2>3, <2>4 DEF CeremonyAnswer
<1> QED BY <1>2, <1>3

-----------------------------------------------------------------------------
(* What the transactions write *)

\* Sessions move under one account's status: they end, or an active account's
\* session opens or changes.
SessionMove ==
  /\ UNCHANGED <<role, status, password, keys, spent, grant, grants>>
  /\ session' \in [Sessions -> SessionRows]
  /\ \A s \in Sessions : session'[s] = NoSession \/ status[session'[s].user] = "ACTIVE"

LEMMA SessionMoveKeeps ==
  ASSUME IdentityInv, SessionMove, PendingOK' PROVE IdentityInv'
<1>1. RowsOK' BY DEF IdentityInv, RowsOK, SessionMove
<1>2. SessionsBelongToActive' BY DEF SessionsBelongToActive, Live, SessionMove
<1>3. ActiveHoldsFactors' BY DEF IdentityInv, ActiveHoldsFactors, SessionMove
<1> QED BY <1>1, <1>2, <1>3 DEF IdentityInv

\* Codes come and go.
GrantMove ==
  /\ UNCHANGED <<role, status, password, keys, spent, session>>
  /\ grant' \in [Users -> SUBSET GrantKinds] /\ grants' \in 0..MaxGrants

LEMMA GrantMoveKeeps ==
  ASSUME IdentityInv, GrantMove, PendingOK' PROVE IdentityInv'
<1>1. RowsOK' BY DEF IdentityInv, RowsOK, GrantMove
<1>2. SessionsBelongToActive' BY DEF IdentityInv, SessionsBelongToActive, Live, GrantMove
<1>3. ActiveHoldsFactors' BY DEF IdentityInv, ActiveHoldsFactors, GrantMove
<1> QED BY <1>1, <1>2, <1>3 DEF IdentityInv

\* One account changes: it is active only with its factors, and a live session of it
\* only where it is.
AccountMove(u) ==
  /\ UNCHANGED role
  /\ status' \in [Users -> Statuses \cup {"ABSENT"}] /\ password' \subseteq Users
  /\ keys' \in [Users -> SUBSET Keys] /\ spent' \subseteq Keys
  /\ grant' \in [Users -> SUBSET GrantKinds] /\ grants' \in 0..MaxGrants
  /\ session' \in [Sessions -> SessionRows]
  /\ \A v \in Users \ {u} : /\ status'[v] = status[v] /\ keys'[v] = keys[v]
                            /\ v \in password => v \in password'
  /\ \A s \in Sessions : session'[s] = NoSession \/ session'[s] = session[s]
  /\ status'[u] = "ACTIVE" =>
       u \in password' /\ Cardinality(keys'[u]) >= minimumAuthenticators(role[u])
  /\ status'[u] # "ACTIVE" =>
       \A s \in Sessions : session'[s] # NoSession => session'[s].user # u

LEMMA AccountMoveKeeps ==
  ASSUME IdentityInv, NEW u \in Users, AccountMove(u), PendingOK' PROVE IdentityInv'
<1>1. RowsOK' BY DEF IdentityInv, RowsOK, AccountMove
<1>2. SessionsBelongToActive'
  <2> SUFFICES ASSUME NEW s \in Sessions, session'[s] # NoSession
               PROVE  status'[session'[s].user] = "ACTIVE"
    BY DEF SessionsBelongToActive, Live
  <2>1. session'[s] = session[s] BY DEF AccountMove
  <2>2. session[s].user \in Users /\ status[session[s].user] = "ACTIVE"
    <3>1. Live(s) BY <2>1 DEF Live
    <3> QED BY <3>1, CallerIsKnown DEF IdentityInv, SessionsBelongToActive
  <2> QED BY <2>1, <2>2 DEF AccountMove
<1>3. ActiveHoldsFactors'
  <2> SUFFICES ASSUME NEW v \in Users, status'[v] = "ACTIVE"
               PROVE  v \in password' /\ Cardinality(keys'[v]) >= minimumAuthenticators(role'[v])
    BY DEF ActiveHoldsFactors
  <2>1. role' = role BY DEF AccountMove
  <2>2. CASE v = u BY <2>1, <2>2 DEF AccountMove
  <2>3. CASE v # u
    <3>1. status'[v] = status[v] /\ keys'[v] = keys[v] /\ (v \in password => v \in password')
      BY <2>3 DEF AccountMove
    <3> QED BY <2>1, <3>1 DEF IdentityInv, ActiveHoldsFactors
  <2> QED BY <2>2, <2>3
<1> QED BY <1>1, <1>2, <1>3 DEF IdentityInv

\* Signing an account out of some browsers.
LEMMA WithoutIsLess ==
  ASSUME RowsOK, NEW u, NEW others
  PROVE  /\ Without(u, others) \in [Sessions -> SessionRows]
         /\ \A s \in Sessions : Without(u, others)[s] = NoSession \/ Without(u, others)[s] = session[s]
         /\ others = Sessions => \A s \in Sessions : Without(u, others)[s] # NoSession
                                                       => Without(u, others)[s].user # u
<1> QED BY DEF Without, RowsOK, SessionRows, Live

-----------------------------------------------------------------------------
(* The transactions *)

\* A transaction that reads again that the account is active and the browser still
\* signed in.
LEMMA SessionTransactions ==
  ASSUME IdentityInv, NEW r \in pending,
         issueSession(r) \/ SteppedUp(r) \/ reopenSession(r) \/ passwordChanged(r)
           \/ sessionsRevoked(r)
  PROVE  SessionMove /\ (Advance(r) \/ Withdraw(r))
<1>1. UNCHANGED <<role, status, password, keys, spent, grant, grants>>
      /\ (Advance(r) \/ Withdraw(r))
  BY DEF issueSession, SteppedUp, reopenSession, passwordChanged, sessionsRevoked
<1>2. RowsOK /\ r \in Requests /\ r.user \in Users BY DEF IdentityInv, PendingOK, Requests
<1>3. session \in [Sessions -> SessionRows]
      /\ \A s \in Sessions : session[s] = NoSession \/ status[session[s].user] = "ACTIVE"
  BY DEF IdentityInv, RowsOK, SessionsBelongToActive, Live
<1>4. CASE session' = session BY <1>1, <1>3, <1>4 DEF SessionMove
<1>5. CASE \E u, others : session' = Without(u, others)
  BY <1>1, <1>2, <1>3, <1>5, WithoutIsLess DEF SessionMove
<1>6. CASE issueSession(r) /\ session' # session
  <2> DEFINE w == [user |-> r.user, state |-> "ACTIVE", stepUp |-> r.how]
  <2>1. r.op = "issue" /\ status[r.user] = "ACTIVE"
        /\ \E s \in Sessions : session' = [session EXCEPT ![s] = w]
    BY <1>6 DEF issueSession
  <2>2. w \in SessionRows /\ w.user = r.user BY <1>2, <2>1 DEF SessionRows, Requests
  <2> HIDE DEF w
  <2> QED BY <1>1, <1>3, <2>1, <2>2 DEF SessionMove
<1>7. CASE (SteppedUp(r) \/ reopenSession(r)) /\ session' # session
  <2> DEFINE b == r.browser
             was == session[b]
             now1 == [was EXCEPT !.stepUp = r.how]
             now2 == [was EXCEPT !.state = "ACTIVE", !.stepUp = r.how]
             now3 == [was EXCEPT !.state = "ACTIVE", !.stepUp = was.stepUp]
  <2>1. Live(b) /\ r.op \in {"stepUp", "reopen"}
    BY <1>7 DEF SteppedUp, reopenSession
  <2>2. b \in Sessions /\ was \in SessionRows \ {NoSession} /\ was \in SessionRows
        /\ status[was.user] = "ACTIVE"
    BY <1>2, <1>3, <2>1, CallerIsKnown DEF Live
  <2>3. \E w \in {now1, now2, now3} : session' = [session EXCEPT ![b] = w]
    BY <1>3, <1>7, <2>2 DEF SteppedUp, reopenSession
  <2>4. r.how \in {"PASSWORD", "WEBAUTHN"} BY <1>2, <2>1 DEF Requests
  <2>5. \A w \in {now1, now2, now3} : w \in SessionRows /\ w.user = was.user
    <3> HIDE DEF was
    <3> QED BY <2>2, <2>4 DEF SessionRows
  <2> HIDE DEF was, now1, now2, now3, b
  <2>6. PICK w \in {now1, now2, now3} : session' = [session EXCEPT ![b] = w] BY <2>3
  <2> QED BY <1>1, <1>3, <2>2, <2>5, <2>6 DEF SessionMove
<1>8. CASE passwordChanged(r) \/ sessionsRevoked(r)
  BY <1>4, <1>5, <1>8 DEF passwordChanged, sessionsRevoked
<1> QED BY <1>4, <1>6, <1>7, <1>8

\* Signing out, and time.
LEMMA SessionsEnd ==
  ASSUME IdentityInv, NEW s \in Sessions,
         revokeSession(s) \/ revokeOtherSessions(s) \/ (\E t \in Sessions : revokeOwnSession(s, t))
           \/ IdlePasses(s) \/ HardLimitPasses(s) \/ StepUpAges(s)
  PROVE  SessionMove /\ UNCHANGED pending
<1>1. UNCHANGED <<role, status, password, keys, spent, grant, grants, pending>>
  BY DEF revokeSession, revokeOtherSessions, revokeOwnSession, IdlePasses, HardLimitPasses, StepUpAges
<1>2. RowsOK /\ session \in [Sessions -> SessionRows]
      /\ \A t \in Sessions : session[t] = NoSession \/ status[session[t].user] = "ACTIVE"
  BY DEF IdentityInv, RowsOK, SessionsBelongToActive, Live
<1>3. CASE \E u, others : session' = Without(u, others)
  BY <1>1, <1>2, <1>3, WithoutIsLess DEF SessionMove
<1>4. CASE \E t \in Sessions : session' = [session EXCEPT ![t] = NoSession]
  BY <1>1, <1>2, <1>4 DEF SessionMove, SessionRows
<1>5. CASE IdlePasses(s) \/ StepUpAges(s)
  <2> DEFINE was == session[s]
             locked == [was EXCEPT !.state = "LOCKED"]
             aged == [was EXCEPT !.stepUp = "none"]
  <2>1. Live(s) BY <1>5 DEF IdlePasses, StepUpAges
  <2>2. was \in SessionRows \ {NoSession} /\ was \in SessionRows /\ status[was.user] = "ACTIVE"
    BY <1>2, <2>1, CallerIsKnown DEF Live
  <2>3. \E w \in {locked, aged} : session' = [session EXCEPT ![s] = w]
    BY <1>2, <1>5 DEF IdlePasses, StepUpAges
  <2>4. \A w \in {locked, aged} : w \in SessionRows /\ w.user = was.user
    <3> HIDE DEF was
    <3> QED BY <2>2 DEF SessionRows
  <2> HIDE DEF was, locked, aged
  <2>5. PICK w \in {locked, aged} : session' = [session EXCEPT ![s] = w] BY <2>3
  <2> QED BY <1>1, <1>2, <2>2, <2>4, <2>5 DEF SessionMove
<1>6. CASE revokeSession(s) \/ HardLimitPasses(s) \/ \E t \in Sessions : revokeOwnSession(s, t)
  BY <1>4, <1>6 DEF revokeSession, HardLimitPasses, revokeOwnSession
<1>7. CASE revokeOtherSessions(s) BY <1>3, <1>7 DEF revokeOtherSessions
<1> QED BY <1>5, <1>6, <1>7

\* Codes issued, taken back, lapsed and spent on a ceremony.
LEMMA CodesMove ==
  ASSUME IdentityInv, NEW u \in Users,
         \/ \E r \in pending : (invitationReissued(r) \/ passwordResetIssued(r)) /\ r.on = u
         \/ \E s : revokeInvitation(s, u) \/ revokePasswordReset(s, u)
         \/ \E kind \in GrantKinds : GrantLapses(u, kind)
         \/ issueInvitationFor(u) \/ resetPassword(u) \/ issueBreakGlass(u) \/ revokeBreakGlass(u)
         \/ beginBreakGlassRegistration(u)
  PROVE  GrantMove
<1>1. UNCHANGED <<role, status, password, keys, spent, session>>
  BY DEF invitationReissued, passwordResetIssued, revokeInvitation, revokePasswordReset, Recall,
         GrantLapses, issueInvitationFor, resetPassword, issueBreakGlass, revokeBreakGlass,
         beginBreakGlassRegistration
<1>2. \/ UNCHANGED <<grant, grants>>
      \/ \E kind \in GrantKinds : Issue(u, kind)
      \/ grants' = grants /\ \E kind \in GrantKinds : grant' = [grant EXCEPT ![u] = @ \ {kind}]
  BY DEF invitationReissued, passwordResetIssued, revokeInvitation, revokePasswordReset, Recall,
         GrantLapses, issueInvitationFor, resetPassword, issueBreakGlass, revokeBreakGlass,
         beginBreakGlassRegistration, GrantKinds
<1>3. grant \in [Users -> SUBSET GrantKinds] /\ grants \in 0..MaxGrants /\ MaxGrants \in Nat
  BY IdentityAssumption DEF IdentityInv, RowsOK
<1>4. CASE \E kind \in GrantKinds : Issue(u, kind)
  BY <1>1, <1>3, <1>4 DEF Issue, GrantMove
<1> QED BY <1>1, <1>2, <1>3, <1>4 DEF GrantMove

LEMMA FactorsAreFew == \A u \in Roles : minimumAuthenticators(u) \in {0, 1}
                                        /\ (~requiresWebAuthn(u) => minimumAuthenticators(u) = 0)
<1> QED BY DEF minimumAuthenticators, requiresWebAuthn

\* A key is enrolled: the account may become active by it, and never loses by it.
LEMMA EnrolmentMoves ==
  ASSUME IdentityInv, NEW r \in pending, enrolAuthenticator(r)
  PROVE  AccountMove(r.user) /\ Withdraw(r)
<1> DEFINE u == r.user
           held == keys[u] \cup {r.key}
           activated == evaluateActivation(role[u], status[u], Cardinality(held), u \in password)
<1>1. RowsOK /\ ActiveHoldsFactors /\ SessionsBelongToActive /\ u \in Users /\ r.key \in Keys
      /\ Withdraw(r) /\ UNCHANGED <<role, password, grants, session>>
  BY DEF IdentityInv, PendingOK, Requests, enrolAuthenticator
<1>2. CASE UNCHANGED <<keys, spent, status, grant>>
  BY <1>1, <1>2 DEF RowsOK, AccountMove, ActiveHoldsFactors, SessionsBelongToActive, Live
<1>3. CASE /\ keys' = [keys EXCEPT ![u] = held] /\ spent' = spent \cup {r.key}
           /\ status' = [status EXCEPT ![u] = IF activated THEN "ACTIVE" ELSE @]
           /\ \E kept \in {grant[u], grant[u] \ {"invitation"}} : grant' = [grant EXCEPT ![u] = kept]
  <2>1. held \subseteq Keys /\ keys[u] \subseteq held /\ keys[u] \subseteq Keys
    BY <1>1 DEF RowsOK
  <2>2. IsFiniteSet(held) /\ Cardinality(keys[u]) <= Cardinality(held)
        /\ Cardinality(keys[u]) \in Nat /\ Cardinality(held) \in Nat
    <3>1. IsFiniteSet(held) BY <2>1, IdentityAssumption, FS_Subset
    <3>2. IsFiniteSet(keys[u]) /\ Cardinality(keys[u]) <= Cardinality(held)
      <4> HIDE DEF held
      <4> QED BY <3>1, <2>1, FS_Subset
    <3> QED BY <3>1, <3>2, FS_CardinalityType
  <2>3. activated => u \in password /\ Cardinality(held) >= minimumAuthenticators(role[u])
                     /\ status[u] = "PROVISIONING"
    BY <1>1, <2>2, FactorsAreFew DEF evaluateActivation, RowsOK
  <2>4. activated \in BOOLEAN BY DEF evaluateActivation
  <2> DEFINE st == IF activated THEN "ACTIVE" ELSE status[u]
  <2>5. st \in Statuses \cup {"ABSENT"} BY <1>1 DEF RowsOK, Statuses
  <2>6. st = "ACTIVE" => u \in password /\ Cardinality(held) >= minimumAuthenticators(role[u])
    <3>1. minimumAuthenticators(role[u]) \in {0, 1} BY <1>1, FactorsAreFew DEF RowsOK
    <3>2. status[u] = "ACTIVE" =>
            u \in password /\ Cardinality(keys[u]) >= minimumAuthenticators(role[u])
      BY <1>1 DEF ActiveHoldsFactors
    <3> HIDE DEF activated, held
    <3> QED BY <2>2, <2>3, <3>1, <3>2
  <2>7. st # "ACTIVE" => st = status[u] OBVIOUS
  <2>8. status' = [status EXCEPT ![u] = st] BY <1>3
  <2> HIDE DEF st, activated, held
  <2>9. status' \in [Users -> Statuses \cup {"ABSENT"}] /\ status'[u] = st
        /\ \A v \in Users \ {u} : status'[v] = status[v]
    BY <1>1, <2>5, <2>8 DEF RowsOK
  <2>10. keys' \in [Users -> SUBSET Keys] /\ keys'[u] = held
         /\ \A v \in Users \ {u} : keys'[v] = keys[v]
    BY <1>1, <1>3, <2>1 DEF RowsOK
  <2>11. spent' \subseteq Keys /\ grant' \in [Users -> SUBSET GrantKinds]
    BY <1>1, <1>3 DEF RowsOK
  <2>12. status'[u] # "ACTIVE" => \A s \in Sessions : session'[s] # NoSession => session'[s].user # u
    BY <1>1, <2>7, <2>9 DEF SessionsBelongToActive, Live
  <2> HIDE DEF u
  <2>13. /\ UNCHANGED <<role, password, grants, session>> /\ password \subseteq Users
         /\ grants \in 0..MaxGrants /\ session \in [Sessions -> SessionRows]
    BY <1>1 DEF RowsOK
  <2>14. AccountMove(u) BY <2>6, <2>9, <2>10, <2>11, <2>12, <2>13 DEF AccountMove
  <2> QED BY <1>1, <2>14 DEF u
<1> QED BY <1>1, <1>2, <1>3 DEF enrolAuthenticator

\* A key is retired only where enough are left.
LEMMA RetirementMoves ==
  ASSUME IdentityInv, NEW r \in pending,
         retireAuthenticator(r) \/ operatorAuthenticatorRevoked(r)
  PROVE  AccountMove(r.on) /\ Withdraw(r) /\ UNCHANGED <<status, password, session>>
<1> DEFINE u == r.on
<1>1. RowsOK /\ ActiveHoldsFactors /\ SessionsBelongToActive /\ u \in Users
  BY DEF IdentityInv, PendingOK, Requests
<1>2. Withdraw(r) /\ UNCHANGED <<role, status, password, spent, grant, grants, session>>
  BY DEF retireAuthenticator, operatorAuthenticatorRevoked, Retire
<1>3. \/ keys' = keys
      \/ /\ canRevokeAuthenticator(role[u], status[u], Cardinality(keys[u])) /\ r.key \in keys[u]
         /\ keys' = [keys EXCEPT ![u] = @ \ {r.key}]
  BY DEF retireAuthenticator, operatorAuthenticatorRevoked, Retire
<1>4. IsFiniteSet(keys[u]) /\ Cardinality(keys[u]) \in Nat
  BY <1>1, IdentityAssumption, FS_Subset, FS_CardinalityType DEF RowsOK
<1>5. r.key \in keys[u] => Cardinality(keys[u] \ {r.key}) = Cardinality(keys[u]) - 1
  BY <1>4, FS_RemoveElement
<1>6. keys' \in [Users -> SUBSET Keys] /\ \A v \in Users \ {u} : keys'[v] = keys[v]
  BY <1>1, <1>3 DEF RowsOK
<1>7. status[u] = "ACTIVE" => Cardinality(keys'[u]) >= minimumAuthenticators(role[u])
  <2>1. keys'[u] = keys[u] \/ (/\ canRevokeAuthenticator(role[u], status[u], Cardinality(keys[u]))
                               /\ r.key \in keys[u] /\ keys'[u] = keys[u] \ {r.key})
    BY <1>1, <1>3 DEF RowsOK
  <2> QED BY <1>1, <1>4, <1>5, <2>1 DEF canRevokeAuthenticator, ActiveHoldsFactors
<1>8. AccountMove(u)
  BY <1>1, <1>2, <1>6, <1>7 DEF RowsOK, AccountMove, ActiveHoldsFactors, SessionsBelongToActive, Live
<1> QED BY <1>2, <1>8

\* Suspended, resumed or disabled: an account that is not active has no session left,
\* and one that is resumed has its factors.
LEMMA StatusMoves ==
  ASSUME IdentityInv, NEW u \in Users, NEW requested \in Statuses, SetStatus(u, requested),
         UNCHANGED <<role, password, keys, spent, grant, grants>>
  PROVE  AccountMove(u)
<1>1. RowsOK /\ ActiveHoldsFactors /\ SessionsBelongToActive BY DEF IdentityInv
<1>2. CASE UNCHANGED <<status, session>>
  BY <1>1, <1>2 DEF RowsOK, AccountMove, ActiveHoldsFactors, SessionsBelongToActive, Live
<1>3. CASE /\ activationReady(u, requested)
           /\ status' = [status EXCEPT ![u] = requested]
           /\ session' = IF revokesSessions(requested) THEN Without(u, Sessions) ELSE session
  <2>1. status' \in [Users -> Statuses \cup {"ABSENT"}] /\ status'[u] = requested
        /\ \A v \in Users \ {u} : status'[v] = status[v]
    BY <1>1, <1>3 DEF RowsOK
  <2>2. session' \in [Sessions -> SessionRows]
        /\ \A s \in Sessions : session'[s] = NoSession \/ session'[s] = session[s]
    BY <1>1, <1>3, WithoutIsLess DEF RowsOK
  <2>3. requested # "ACTIVE" => \A s \in Sessions : session'[s] # NoSession => session'[s].user # u
    BY <1>1, <1>3, WithoutIsLess DEF revokesSessions
  <2> QED BY <1>1, <1>3, <2>1, <2>2, <2>3 DEF RowsOK, AccountMove, activationReady
<1> QED BY <1>2, <1>3 DEF SetStatus

\* Codes redeemed: a password set for an invitation or a reset.
LEMMA RedemptionMoves ==
  ASSUME IdentityInv, NEW u \in Users, setInvitationPassword(u) \/ completePasswordReset(u)
  PROVE  AccountMove(u) /\ UNCHANGED pending
<1>1. RowsOK /\ ActiveHoldsFactors /\ SessionsBelongToActive BY DEF IdentityInv
<1>2. CASE setInvitationPassword(u)
  <2> DEFINE activated == evaluateActivation(role[u], "PROVISIONING", Cardinality(keys[u]), TRUE)
             st == IF activated THEN "ACTIVE" ELSE status[u]
  <2>1. status[u] = "PROVISIONING" /\ password' = password \cup {u}
        /\ status' = [status EXCEPT ![u] = st]
        /\ UNCHANGED <<role, keys, spent, grants, session, pending>>
        /\ \E kept \in {grant[u], grant[u] \ {"invitation"}} : grant' = [grant EXCEPT ![u] = kept]
    BY <1>2 DEF setInvitationPassword
  <2>2. activated => Cardinality(keys[u]) >= minimumAuthenticators(role[u])
    <3>1. CASE requiresWebAuthn(role[u]) BY <3>1 DEF evaluateActivation
    <3>2. CASE ~requiresWebAuthn(role[u])
      <4>1. minimumAuthenticators(role[u]) = 0 BY <1>1, <3>2, FactorsAreFew DEF RowsOK
      <4>2. Cardinality(keys[u]) \in Nat
        <5>1. keys[u] \subseteq Keys BY <1>1 DEF RowsOK
        <5> QED BY <5>1, IdentityAssumption, FS_Subset, FS_CardinalityType
      <4> QED BY <4>1, <4>2
    <3> QED BY <3>1, <3>2
  <2>3. st \in Statuses \cup {"ABSENT"} /\ (st = "ACTIVE" => activated)
    BY <1>1, <2>1 DEF RowsOK, Statuses
  <2> HIDE DEF activated, st
  <2>4. status' \in [Users -> Statuses \cup {"ABSENT"}] /\ status'[u] = st
        /\ \A v \in Users \ {u} : status'[v] = status[v]
    BY <1>1, <2>1, <2>3 DEF RowsOK
  <2>5. grant' \in [Users -> SUBSET GrantKinds] BY <1>1, <2>1 DEF RowsOK
  <2>6. \A s \in Sessions : session[s] # NoSession => session[s].user # u
    BY <1>1, <2>1 DEF SessionsBelongToActive, Live
  <2> QED BY <1>1, <2>1, <2>2, <2>3, <2>4, <2>5, <2>6 DEF RowsOK, AccountMove
<1>3. CASE completePasswordReset(u)
  <2>1. status[u] = "ACTIVE" /\ password' = password \cup {u} /\ session' = Without(u, Sessions)
        /\ UNCHANGED <<role, status, keys, spent, grants, pending>>
        /\ grant' = [grant EXCEPT ![u] = @ \ {"reset"}]
    BY <1>3 DEF completePasswordReset
  <2>2. session' \in [Sessions -> SessionRows]
        /\ \A s \in Sessions : session'[s] = NoSession \/ session'[s] = session[s]
    BY <1>1, <2>1, WithoutIsLess
  <2>3. grant' \in [Users -> SUBSET GrantKinds] BY <1>1, <2>1 DEF RowsOK
  <2> QED BY <1>1, <2>1, <2>2, <2>3 DEF RowsOK, AccountMove, ActiveHoldsFactors
<1> QED BY <1>2, <1>3

\* An account is made, by invitation or on the command line.
LEMMA CreationMoves ==
  ASSUME IdentityInv, NEW u \in Users,
         \/ \E r \in pending : invitationCreated(r) /\ r.on = u
         \/ bootstrapTechnicalAdmin(u) \/ createProvisioningAccount(u)
  PROVE  AccountMove(u)
<1>1. RowsOK /\ ActiveHoldsFactors /\ SessionsBelongToActive BY DEF IdentityInv
<1>2. UNCHANGED <<role, password, keys, spent, session>>
      /\ (\/ UNCHANGED <<status, grant, grants>>
          \/ /\ status[u] = "ABSENT" /\ status' = [status EXCEPT ![u] = "PROVISIONING"]
             /\ UNCHANGED <<grant, grants>> \/ Issue(u, "invitation"))
  BY DEF invitationCreated, bootstrapTechnicalAdmin, createProvisioningAccount
<1>3. CASE UNCHANGED <<status, grant, grants>>
  BY <1>1, <1>2, <1>3 DEF RowsOK, AccountMove, ActiveHoldsFactors, SessionsBelongToActive, Live
<1>4. CASE /\ status[u] = "ABSENT" /\ status' = [status EXCEPT ![u] = "PROVISIONING"]
           /\ UNCHANGED <<grant, grants>> \/ Issue(u, "invitation")
  <2>1. grant' \in [Users -> SUBSET GrantKinds] /\ grants' \in 0..MaxGrants
    <3>1. grant \in [Users -> SUBSET GrantKinds] /\ grants \in 0..MaxGrants /\ MaxGrants \in Nat
          /\ "invitation" \in GrantKinds
      BY <1>1, IdentityAssumption DEF RowsOK, GrantKinds
    <3> QED BY <1>4, <3>1 DEF Issue
  <2>2. status' \in [Users -> Statuses \cup {"ABSENT"}] /\ status'[u] = "PROVISIONING"
        /\ \A v \in Users \ {u} : status'[v] = status[v]
    BY <1>1, <1>4 DEF RowsOK, Statuses
  <2>3. \A s \in Sessions : session[s] # NoSession => session[s].user # u
    BY <1>1, <1>4 DEF SessionsBelongToActive, Live
  <2> QED BY <1>1, <1>2, <2>1, <2>2, <2>3 DEF RowsOK, AccountMove
<1> QED BY <1>2, <1>3, <1>4

-----------------------------------------------------------------------------
(* Every step *)

\* A transaction takes its request off the list and makes one of the three moves.
LEMMA TransactionsMove ==
  ASSUME IdentityInv, NEW r \in pending, Transaction(r)
  PROVE  /\ Advance(r) \/ Withdraw(r)
         /\ SessionMove \/ GrantMove \/ \E u \in Users : AccountMove(u)
<1>1. r \in Requests /\ r.user \in Users /\ r.on \in Users BY DEF IdentityInv, PendingOK, Requests
<1>2. CASE issueSession(r) \/ SteppedUp(r) \/ reopenSession(r) \/ passwordChanged(r)
           \/ sessionsRevoked(r)
  BY <1>2, SessionTransactions
<1>3. CASE enrolAuthenticator(r) BY <1>1, <1>3, EnrolmentMoves
<1>4. CASE retireAuthenticator(r) \/ operatorAuthenticatorRevoked(r) BY <1>1, <1>4, RetirementMoves
<1>5. CASE invitationCreated(r)
  <2>1. Withdraw(r) BY <1>5 DEF invitationCreated
  <2> QED BY <1>1, <1>5, <2>1, CreationMoves
<1>6. CASE invitationReissued(r) \/ passwordResetIssued(r)
  <2>1. Withdraw(r) BY <1>6 DEF invitationReissued, passwordResetIssued
  <2> QED BY <1>1, <1>6, <2>1, CodesMove
<1>7. CASE statusChanged(r)
  <2>1. r.op = "status" /\ Withdraw(r) /\ SetStatus(r.on, r.how)
        /\ UNCHANGED <<role, password, keys, spent, grant, grants>>
    BY <1>7 DEF statusChanged
  <2>2. r.how \in Statuses BY <1>1, <2>1 DEF Requests
  <2> QED BY <1>1, <2>1, <2>2, StatusMoves
<1> QED BY <1>2, <1>3, <1>4, <1>5, <1>6, <1>7 DEF Transaction

\* A step is a transaction, or asks for one, or changes rows at once.
LEMMA StepKinds ==
  ASSUME IdentityInv, IdentityNext
  PROVE  \/ OnlyPending /\ Asking
         \/ GrantMove /\ Asking
         \/ \E r \in pending : Transaction(r)
         \/ UNCHANGED pending /\ (SessionMove \/ GrantMove \/ \E u \in Users : AccountMove(u))
<1>1. RowsOK /\ PendingOK BY DEF IdentityInv
<1>2. ASSUME NEW r \in pending, CeremonyExpires(r) \/ \E k \in Keys : CeremonyAnswer(r, k)
      PROVE  OnlyPending /\ Asking
  BY <1>1, <1>2, AnswersAsk
<1>3. ASSUME NEW s \in Sessions, OwnRequest(s)
      PROVE  (OnlyPending /\ Asking) \/ (UNCHANGED pending /\ SessionMove)
  <2>1. CASE OwnAsk(s) BY <1>1, <2>1, OwnAsksAsk
  <2>2. CASE revokeSession(s) \/ revokeOtherSessions(s) \/ (\E t \in Sessions : revokeOwnSession(s, t))
    BY <2>2, SessionsEnd
  <2> QED BY <1>3, <2>1, <2>2, Zenon DEF OwnRequest, OwnAsk
<1>4. ASSUME NEW s \in Sessions, NEW t \in Users, ActOnOther(s, t)
      PROVE  (OnlyPending /\ Asking) \/ (UNCHANGED pending /\ GrantMove)
  <2>1. CASE AskOther(s, t) BY <2>1, AsksOnOthersAsk
  <2>2. CASE revokeInvitation(s, t) \/ revokePasswordReset(s, t)
    <3>1. UNCHANGED pending BY <2>2 DEF revokeInvitation, revokePasswordReset, Recall
    <3> QED BY <2>2, <3>1, CodesMove
  <2> QED BY <1>4, <2>1, <2>2, Zenon DEF ActOnOther, AskOther
<1>5. ASSUME NEW s \in Sessions, IdlePasses(s) \/ HardLimitPasses(s) \/ StepUpAges(s)
      PROVE  UNCHANGED pending /\ SessionMove
  BY <1>5, SessionsEnd
<1>6. ASSUME NEW u \in Users, Anonymous(u)
      PROVE  \/ OnlyPending /\ Asking
             \/ GrantMove /\ Asking
             \/ UNCHANGED pending /\ AccountMove(u)
  <2>1. CASE loginWithPassword(u) \/ beginInvitationRegistration(u)
    <3>1. OnlyPending BY <2>1 DEF loginWithPassword, beginInvitationRegistration
    <3> QED BY <2>1, <3>1, StrangersAsk
  <2>2. CASE beginBreakGlassRegistration(u) BY <2>2, StrangersAsk, CodesMove
  <2>3. CASE setInvitationPassword(u) \/ completePasswordReset(u) BY <2>3, RedemptionMoves
  <2> QED BY <1>6, <2>1, <2>2, <2>3 DEF Anonymous
<1>7. ASSUME NEW u \in Users, CommandLine(u)
      PROVE  UNCHANGED pending /\ (GrantMove \/ AccountMove(u))
  <2>1. CASE bootstrapTechnicalAdmin(u) \/ createProvisioningAccount(u)
    <3>1. UNCHANGED pending BY <2>1 DEF bootstrapTechnicalAdmin, createProvisioningAccount
    <3> QED BY <2>1, <3>1, CreationMoves
  <2>2. CASE issueInvitationFor(u) \/ resetPassword(u) \/ issueBreakGlass(u) \/ revokeBreakGlass(u)
    <3>1. UNCHANGED pending
      BY <2>2 DEF issueInvitationFor, resetPassword, issueBreakGlass, revokeBreakGlass
    <3> QED BY <2>2, <3>1, CodesMove
  <2>3. CASE \E to \in Statuses \ {"PROVISIONING"} : setStatus(u, to)
    <3>1. PICK to \in Statuses : setStatus(u, to) BY <2>3
    <3>2. SetStatus(u, to) /\ UNCHANGED <<role, password, keys, spent, grant, grants, pending>>
      BY <3>1 DEF setStatus
    <3> QED BY <3>2, StatusMoves
  <2> QED BY <1>7, <2>1, <2>2, <2>3 DEF CommandLine
<1>8. ASSUME NEW u \in Users, NEW kind \in GrantKinds, GrantLapses(u, kind)
      PROVE  UNCHANGED pending /\ GrantMove
  <2>1. UNCHANGED pending BY <1>8 DEF GrantLapses
  <2> QED BY <1>8, <2>1, CodesMove
<1>9. CASE \E r \in pending : Transaction(r) \/ CeremonyExpires(r) \/ \E k \in Keys : CeremonyAnswer(r, k)
  BY <1>2, <1>9
<1>10. CASE \E s \in Sessions : \/ OwnRequest(s) \/ \E t \in Users : ActOnOther(s, t)
                                \/ IdlePasses(s) \/ HardLimitPasses(s) \/ StepUpAges(s)
  BY <1>3, <1>4, <1>5, <1>10
<1>11. CASE \E u \in Users : \/ Anonymous(u) \/ CommandLine(u)
                             \/ \E kind \in GrantKinds : GrantLapses(u, kind)
  BY <1>6, <1>7, <1>8, <1>11
<1> QED BY <1>9, <1>10, <1>11 DEF IdentityNext

LEMMA IdentityStep == ASSUME IdentityInv, [IdentityNext]_identityVars PROVE IdentityInv'
<1>1. PendingOK BY DEF IdentityInv
<1>2. CASE OnlyPending /\ Asking
  <2>1. PendingOK' BY <1>1, <1>2, AskingKeeps
  <2> QED BY <1>2, <2>1 DEF OnlyPending, IdentityInv, RowsOK, SessionsBelongToActive,
             ActiveHoldsFactors, Live
<1>3. CASE GrantMove /\ Asking
  <2>1. PendingOK' BY <1>1, <1>3, AskingKeeps
  <2> QED BY <1>3, <2>1, GrantMoveKeeps
<1>4. CASE \E r \in pending : Transaction(r)
  <2>1. PICK r \in pending : Transaction(r) BY <1>4
  <2>2. PendingOK' BY <1>1, <2>1, TransactionsMove, AdvanceKeeps, WithdrawKeeps
  <2> QED BY <2>1, <2>2, TransactionsMove, SessionMoveKeeps, GrantMoveKeeps, AccountMoveKeeps
<1>5. CASE UNCHANGED pending /\ (SessionMove \/ GrantMove \/ \E u \in Users : AccountMove(u))
  <2>1. PendingOK' BY <1>1, <1>5 DEF PendingOK
  <2> QED BY <1>5, <2>1, SessionMoveKeeps, GrantMoveKeeps, AccountMoveKeeps
<1>6. CASE UNCHANGED identityVars
  BY <1>6 DEF identityVars, IdentityInv, RowsOK, PendingOK, SessionsBelongToActive, ActiveHoldsFactors,
         Live
<1> QED BY <1>2, <1>3, <1>4, <1>5, <1>6, StepKinds

LEMMA IdentityStart == IdentityInit => IdentityInv
<1> SUFFICES ASSUME IdentityInit PROVE IdentityInv OBVIOUS
<1>1. PICK k \in CountingKeys :
        keys = [u \in Users |-> IF u = Founder THEN {k} ELSE {}] /\ spent \in {{k}, Keys}
  BY DEF IdentityInit
<1>2. k \in Keys /\ MaxGrants \in Nat /\ MaxPending \in Nat /\ Founder # Newcomer
      /\ Appointments \subseteq PRIVILEGED_ADMIN_ROLES \X Roles
  BY <1>1, IdentityAssumption
<1>3. PICK a \in Appointments : role = [u \in Users |-> IF u = Founder THEN a[1] ELSE a[2]]
  BY DEF IdentityInit
<1>4. a[1] \in PRIVILEGED_ADMIN_ROLES /\ a[2] \in Roles /\ a[1] \in Roles
  BY <1>2, <1>3 DEF PRIVILEGED_ADMIN_ROLES, Roles
<1>5. RowsOK
  <2>1. role \in [Users -> Roles] BY <1>3, <1>4
  <2>2. keys \in [Users -> SUBSET Keys] /\ spent \subseteq Keys BY <1>1, <1>2
  <2>3. 0 \in 0..MaxGrants BY <1>2
  <2>4. status \in [Users -> Statuses \cup {"ABSENT"}] BY DEF IdentityInit, Statuses
  <2> QED BY <2>1, <2>2, <2>3, <2>4 DEF RowsOK, IdentityInit, SessionRows, Users
<1>6. PendingOK BY <1>2, FS_EmptySet DEF PendingOK, IdentityInit
<1>7. SessionsBelongToActive BY DEF SessionsBelongToActive, IdentityInit, Live
<1>8. ActiveHoldsFactors
  <2> SUFFICES ASSUME NEW u \in Users, status[u] = "ACTIVE"
               PROVE  u \in password /\ Cardinality(keys[u]) >= minimumAuthenticators(role[u])
    BY DEF ActiveHoldsFactors
  <2>1. u = Founder /\ u \in password BY DEF IdentityInit
  <2>2. keys[u] = {k} /\ role[u] = a[1] BY <1>1, <1>3, <2>1
  <2>3. Cardinality({k}) = 1 BY FS_Singleton
  <2>4. minimumAuthenticators(a[1]) = 1 BY <1>4 DEF minimumAuthenticators
  <2> QED BY <2>1, <2>2, <2>3, <2>4
<1> QED BY <1>5, <1>6, <1>7, <1>8 DEF IdentityInv

-----------------------------------------------------------------------------
(* The theorems *)

\* The accounts are sound, whoever invites, enrols, retires, suspends and signs in whom,
\* for any number of browsers, keys and requests under way (issueSession, changeStatus,
\* evaluateActivation, canRevokeAuthenticator): only an active account has a live session,
\* and an active account holds every factor of its role.
THEOREM AccountsStaySound == IdentitySpec => []AccountsAreSound
<1>1. IdentityInv => AccountsAreSound
  BY DEF IdentityInv, RowsOK, PendingOK, Requests, SessionRows, AccountsAreSound, IdentityTypeOK
<1> QED BY <1>1, IdentityStart, IdentityStep, PTL DEF IdentitySpec

\* One step: a request of one's own that lost its session in the meantime is dropped.
LEMMA OvertakenStep ==
  ASSUME IdentityInv, [IdentityNext]_identityVars, NEW r \in pending,
         {r, [r EXCEPT !.counter = FALSE]} \cap pending' = {}, r.op \in SelfService,
         r.how # "INVITATION_REGISTRATION", r.how # "BREAK_GLASS_REGISTRATION", ~Live(r.browser)
  PROVE  UNCHANGED <<status, password, keys, session>>
<1>1. PendingOK /\ r \in Requests BY DEF IdentityInv, PendingOK
<1>2. r \notin pending' /\ [r EXCEPT !.counter = FALSE] \notin pending' OBVIOUS
<1>3. r.op \notin Ceremonies BY DEF SelfService, Ceremonies
<1>4. ~Asking BY <1>1, <1>2, <1>3, AskingKeeps
<1>5. pending' # pending BY <1>2
<1>6. PICK q \in pending : Transaction(q)
  BY <1>4, <1>5, StepKinds DEF identityVars
<1>7. q = r
  <2>1. q # r => r \in pending' \/ [r EXCEPT !.counter = FALSE] \in pending'
    BY <1>1, <1>6, TransactionsMove, AdvanceKeeps, WithdrawKeeps
  <2> QED BY <1>2, <2>1
<1>8. CASE SteppedUp(r) \/ reopenSession(r)
  BY <1>8 DEF SteppedUp, reopenSession
<1>9. CASE enrolAuthenticator(r)
  <2>1. r.how \in Enrolments BY <1>1, <1>9 DEF Requests, enrolAuthenticator
  <2>2. ~EnrolmentHolds(r) BY <2>1 DEF Enrolments, EnrolmentHolds
  <2> QED BY <1>9, <2>2 DEF enrolAuthenticator
<1>10. CASE retireAuthenticator(r) BY <1>10 DEF retireAuthenticator, Retire
<1>11. CASE passwordChanged(r) BY <1>11 DEF passwordChanged
<1>12. SteppedUp(r) \/ reopenSession(r) \/ enrolAuthenticator(r) \/ retireAuthenticator(r)
       \/ passwordChanged(r)
  BY <1>6, <1>7 DEF Transaction, SelfService, issueSession, invitationCreated, invitationReissued,
         passwordResetIssued, statusChanged, sessionsRevoked, operatorAuthenticatorRevoked
<1> QED BY <1>8, <1>9, <1>10, <1>11, <1>12

\* A request of one's own that was admitted and then overtaken by a logout, a revocation
\* or a suspension changes nothing any more (the FOR UPDATE re-reads of service.ts).
THEOREM OvertakenIsHarmless == IdentitySpec => OvertakenRequestsChangeNothing
<1>1. IdentityInv /\ [IdentityNext]_identityVars
      => [\A r \in pending :
            /\ {r, [r EXCEPT !.counter = FALSE]} \cap pending' = {}
            /\ r.op \in SelfService
            /\ r.how # "INVITATION_REGISTRATION" /\ r.how # "BREAK_GLASS_REGISTRATION"
            /\ ~Live(r.browser)
            => UNCHANGED <<status, password, keys, session>>]_identityVars
  BY OvertakenStep
<1>2. IdentitySpec => []IdentityInv
  BY IdentityStart, IdentityStep, PTL DEF IdentitySpec
<1> QED BY <1>1, <1>2, PTL DEF IdentitySpec, OvertakenRequestsChangeNothing

-----------------------------------------------------------------------------
(* Recursion on the naturals, by the least counterexample *)

LEMMA Smallest ==
  ASSUME NEW S \in SUBSET Nat, S # {} PROVE \E x \in S : \A y \in S : x <= y
<1>1. \E x \in S : \A y \in S : ~(<<y, x>> \in OpToRel(<, Nat))
  BY NatLessThanWellFounded, WFMin, Zenon
<1>2. \A x, y \in S : ~(<<y, x>> \in OpToRel(<, Nat)) => x <= y
  BY SMT DEF OpToRel
<1> QED BY <1>1, <1>2

-----------------------------------------------------------------------------
(* The desks keep apart *)

\* The transactions that one step at a desk may open or close.
Opens(acts) == tx' = tx \/ \E c \in Clerks : \E t : t.act \in acts /\ tx' = [tx EXCEPT ![c] = t]

LEMMA OpenedOne ==
  ASSUME NEW acts, NEW c \in Clerks, NEW t, t.act \in acts, tx' = [tx EXCEPT ![c] = t]
  PROVE  Opens(acts)
BY DEF Opens

\* A desk opens transactions of its own acts only, and touches no other desk's rows.
LEMMA DesksKeepApart ==
  ASSUME DOMAIN tx = Clerks
  PROVE  /\ TariffNext => /\ UNCHANGED <<recoveryVars, paperVars>> /\ DOMAIN tx' = Clerks
                          /\ \A c \in Clerks : tx'[c] = tx[c] \/ tx'[c].act \in {"none", "publish"}
         /\ RecoveryNext => /\ UNCHANGED <<tariffVars, paperVars>> /\ DOMAIN tx' = Clerks
                            /\ \A c \in Clerks : tx'[c] = tx[c]
                                 \/ tx'[c].act \in {"none", "resolve", "correct", "refund"}
         /\ PaperNext => /\ UNCHANGED <<tariffVars, recoveryVars>> /\ DOMAIN tx' = Clerks
                         /\ \A c \in Clerks : tx'[c] = tx[c] \/ tx'[c].act \in {"none", "paper"}
<1> DEFINE tariffActs == {"none", "publish"}
           recoveryActs == {"none", "resolve", "correct", "refund"}
           paperActs == {"none", "paper"}
<1> /\ "none" \in tariffActs /\ "publish" \in tariffActs
    /\ \A a \in {"none", "resolve", "correct", "refund"} : a \in recoveryActs
    /\ "none" \in paperActs /\ "paper" \in paperActs
  OBVIOUS
<1> HIDE DEF tariffActs, recoveryActs, paperActs
<1> NoTx.act = "none" BY DEF NoTx
<1>1. ASSUME TariffNext PROVE UNCHANGED <<recoveryVars, paperVars>> /\ Opens(tariffActs)
  <2>1. UNCHANGED <<recoveryVars, paperVars>> BY <1>1 DEF TariffNext
  <2>2. PICK c \in Clerks :
          \/ \E p \in [version : 1..MaxVersions, price : Prices] : preview(c, p) \/ EditForm(c, p)
          \/ publish(c) \/ published(c)
    BY <1>1, Zenon DEF TariffNext
  <2>3. CASE \E p \in [version : 1..MaxVersions, price : Prices] : preview(c, p) \/ EditForm(c, p)
    BY <2>1, <2>3 DEF preview, EditForm, Opens
  <2>4. CASE publish(c)
    <3> DEFINE t == [act |-> "publish", payload |-> form[c].payload, replaces |-> tariff,
                     baseline |-> form[c].baseline]
    <3>1. tx' = [tx EXCEPT ![c] = t] /\ t.act = "publish" BY <2>4 DEF publish, Begin
    <3> HIDE DEF t
    <3> QED BY <2>1, <3>1, OpenedOne
  <2>5. CASE published(c)
    <3>1. tx' = [tx EXCEPT ![c] = NoTx] BY <2>5 DEF published, End
    <3> QED BY <2>1, <3>1, OpenedOne
  <2> QED BY <2>2, <2>3, <2>4, <2>5
<1>2. ASSUME RecoveryNext
      PROVE  UNCHANGED <<tariffVars, paperVars>> /\ Opens(recoveryActs)
  <2>1. UNCHANGED <<tariffVars, paperVars>> BY <1>2 DEF RecoveryNext
  <2>2. CASE JobSettles \/ \E c \in Clerks, o \in Operators, g \in BOOLEAN : assignKiosk(c, o, g)
    BY <2>1, <2>2 DEF JobSettles, assignKiosk, Opens
  <2>3. ASSUME NEW c \in Clerks, NEW o, resolvePrintRecovery(c, o)
        PROVE  Opens(recoveryActs)
    <3> DEFINE t == [act |-> "resolve", outcome |-> o]
    <3>1. tx' = [tx EXCEPT ![c] = t] /\ t.act = "resolve" BY <2>3 DEF resolvePrintRecovery, Begin
    <3> HIDE DEF t
    <3> QED BY <3>1, OpenedOne
  <2>4. ASSUME NEW c \in Clerks, NEW i, NEW o, correctPrintRecovery(c, i, o)
        PROVE  Opens(recoveryActs)
    <3> DEFINE t == [act |-> "correct", outcome |-> o, supersedes |-> i]
    <3>1. tx' = [tx EXCEPT ![c] = t] /\ t.act = "correct" BY <2>4 DEF correctPrintRecovery, Begin
    <3> HIDE DEF t
    <3> QED BY <3>1, OpenedOne
  <2>5. ASSUME NEW c \in Clerks, NEW a, authorizeRefund(c, a)
        PROVE  Opens(recoveryActs)
    <3> DEFINE t == [act |-> "refund", amount |-> a, cites |-> effectiveObservation]
    <3>1. tx' = [tx EXCEPT ![c] = t] /\ t.act = "refund" BY <2>5 DEF authorizeRefund, Begin
    <3> HIDE DEF t
    <3> QED BY <3>1, OpenedOne
  <2>6. ASSUME NEW c \in Clerks, End(c) PROVE Opens(recoveryActs)
    BY <2>6, OpenedOne DEF End
  <2>7. ASSUME NEW c \in Clerks,
               printRecoveryResolved(c) \/ printRecoveryCorrected(c) \/ refundAuthorized(c)
        PROVE  End(c)
    BY <2>7 DEF printRecoveryResolved, printRecoveryCorrected, refundAuthorized
  <2> QED BY <1>2, <2>1, <2>2, <2>3, <2>4, <2>5, <2>6, <2>7, Zenon DEF RecoveryNext
<1>3. ASSUME PaperNext PROVE UNCHANGED <<tariffVars, recoveryVars>> /\ Opens(paperActs)
  <2>1. UNCHANGED <<tariffVars, recoveryVars>> BY <1>3 DEF PaperNext
  <2>2. ASSUME NEW c \in Clerks, NEW k, NEW kind, NEW n, recordKioskPaperChange(c, k, kind, n)
        PROVE  Opens(paperActs)
    <3> DEFINE t == [act |-> "paper", request |-> PaperRequest(k, kind, n, c)]
    <3>1. tx' = [tx EXCEPT ![c] = t] /\ t.act = "paper" BY <2>2 DEF recordKioskPaperChange, Begin
    <3> HIDE DEF t
    <3> QED BY <3>1, OpenedOne
  <2>3. ASSUME NEW c \in Clerks, kioskPaperChanged(c) PROVE Opens(paperActs)
    <3>1. tx' = [tx EXCEPT ![c] = NoTx] BY <2>3 DEF kioskPaperChanged, End
    <3> QED BY <3>1, OpenedOne
  <2>4. ASSUME NEW n, applyKioskPaperDeduction(n) PROVE Opens(paperActs)
    <3>1. tx' = tx BY <2>4 DEF applyKioskPaperDeduction
    <3> QED BY <3>1 DEF Opens
  <2> QED BY <1>3, <2>1, <2>2, <2>3, <2>4, Zenon DEF PaperNext
<1>4. ASSUME NEW acts, Opens(acts)
      PROVE  DOMAIN tx' = Clerks /\ \A c \in Clerks : tx'[c] = tx[c] \/ tx'[c].act \in acts
  BY <1>4 DEF Opens
<1> QED BY <1>1, <1>2, <1>3, <1>4 DEF tariffActs, recoveryActs, paperActs

-----------------------------------------------------------------------------
(* Prints in recovery *)

AccountRecords == [outcome : Outcomes, supersedes : 0..MaxAccounts]
Payouts == [amount : 1..Captured, cites : 1..MaxAccounts, by : Clerks]
Citable(i) == i \in DOMAIN account /\ account[i].outcome # "DELIVERED"

\* What an open transaction will write was true when it was opened, and still is.
RecoveryTxOK(t) ==
  /\ t.act = "resolve" => t.outcome \in Reported
  /\ t.act = "correct" => /\ t.outcome \in Reported
                          /\ t.supersedes \in DOMAIN account /\ t.supersedes < MaxAccounts
  /\ t.act = "refund" => t.amount \in 1..Captured /\ Citable(t.cites)

\* Each record of a print supersedes the one before it.
RecoveryInv ==
  /\ job \in JobStatuses /\ scope \subseteq Operators /\ DOMAIN tx = Clerks
  /\ account \in Seq(AccountRecords) /\ Len(account) <= MaxAccounts
  /\ \A i \in DOMAIN account : account[i].supersedes = i - 1
  /\ payouts \subseteq Payouts /\ (payouts = {} \/ \E p : payouts = {p})
  /\ \A p \in payouts : Citable(p.cites)
  /\ \A c \in Clerks : RecoveryTxOK(tx[c])

\* The walk over the corrections ends at the last record (effectiveObservation).
LEMMA LastIsInForce ==
  ASSUME NEW L \in Nat \ {0}, DOMAIN account = 1..L, Len(account) = L,
         \A i \in 1..L : account[i].supersedes = i - 1
  PROVE  effectiveObservation = L
<1> DEFINE next(i) == {j \in DOMAIN account : account[j].supersedes = i}
           latest(i) == CHOOSE j \in next(i) : \A k \in next(i) : k <= j
           Step(f, n) == IF n = 0 THEN 1
                         ELSE IF next(f[n - 1]) = {} THEN f[n - 1] ELSE latest(f[n - 1])
           walk == CHOOSE f : f = [n \in 0..Len(account) |-> Step(f, n)]
           w == [n \in 0..L |-> IF n < L THEN n + 1 ELSE n]
<1>1. effectiveObservation = walk[L - 1] BY DEF effectiveObservation
<1>2. next(L) = {} /\ \A i \in 1..(L - 1) : next(i) = {i + 1}
  <2>1. \A i \in 1..L, j \in 1..L : account[j].supersedes = i <=> j = i + 1 OBVIOUS
  <2>2. \A i \in 1..(L - 1) : i \in 1..L /\ i + 1 \in 1..L OBVIOUS
  <2>3. L \in 1..L /\ L + 1 \notin 1..L OBVIOUS
  <2>4. ASSUME NEW i \in 1..L PROVE next(i) = {j \in 1..L : j = i + 1}
    <3>1. next(i) = {j \in 1..L : account[j].supersedes = i} OBVIOUS
    <3> QED BY <2>1, <3>1
  <2> HIDE DEF next
  <2>5. next(L) = {} BY <2>3, <2>4
  <2>6. ASSUME NEW i \in 1..(L - 1) PROVE next(i) = {i + 1} BY <2>2, <2>4
  <2> QED BY <2>5, <2>6
<1> HIDE DEF next
<1>3. \A i \in 1..(L - 1) : latest(i) = i + 1
  <2> TAKE i \in 1..(L - 1)
  <2>1. next(i) = {i + 1} /\ i + 1 <= i + 1 BY <1>2
  <2>2. i + 1 \in next(i) /\ \A k \in next(i) : k <= i + 1 BY <2>1
  <2>3. latest(i) \in next(i) BY <2>2
  <2> HIDE DEF latest
  <2> QED BY <2>1, <2>3
<1>4. \A f, n : Step(f, n) = IF n = 0 THEN 1
                             ELSE IF next(f[n - 1]) = {} THEN f[n - 1] ELSE latest(f[n - 1])
  OBVIOUS
<1> HIDE DEF Step, latest
<1>5. \A n \in 0..L : Step(w, n) = w[n]
  <2> TAKE n \in 0..L
  <2>1. CASE n = 0 BY <1>4, <2>1
  <2>2. CASE n \in 1..(L - 1)
    <3>1. w[n - 1] = n /\ w[n] = n + 1 /\ n # 0 BY <2>2
    <3> HIDE DEF w
    <3> QED BY <1>2, <1>3, <1>4, <2>2, <3>1
  <2>3. CASE n = L
    <3>1. w[n - 1] = L /\ w[n] = L /\ n # 0 BY <2>3
    <3> HIDE DEF w
    <3> QED BY <1>2, <1>4, <2>3, <3>1
  <2> QED BY <2>1, <2>2, <2>3
<1>6. w = [n \in 0..L |-> w[n]] /\ w[L - 1] = L OBVIOUS
<1> HIDE DEF w
<1>7. w = [n \in 0..L |-> Step(w, n)] BY <1>5, <1>6, Zenon
<1>8. walk = [n \in 0..L |-> Step(walk, n)] BY <1>7
<1> HIDE DEF walk
<1>9. ASSUME NEW m \in 0..L, walk[m] # w[m] PROVE FALSE
  <2> DEFINE T == {n \in 0..L : walk[n] # w[n]}
  <2>1. T \in SUBSET Nat /\ T # {} BY <1>9
  <2>2. PICK x \in T : \A y \in T : x <= y BY <2>1, Smallest
  <2>3. CASE x = 0 BY <1>4, <1>5, <1>8, <2>3
  <2>4. CASE x # 0
    <3>1. x - 1 \in 0..L /\ x - 1 \notin T BY <2>2, <2>4
    <3>2. Step(walk, x) = Step(w, x) BY <1>4, <3>1
    <3> QED BY <1>5, <1>8, <3>2
  <2> QED BY <2>3, <2>4
<1> QED BY <1>1, <1>6, <1>9

\* What is owed for a print is what its one payout takes.
LEMMA OwedIsTheAmount ==
  ASSUME NEW p, payouts = {p}, p.amount \in Nat PROVE Owed = p.amount
<1> DEFINE Sum(f, s) == IF s = {} THEN 0
                        ELSE LET x == CHOOSE y \in s : TRUE IN x.amount + f[s \ {x}]
           g == CHOOSE f : f = [s \in SUBSET payouts |-> Sum(f, s)]
           w == [s \in SUBSET {p} |-> IF s = {} THEN 0 ELSE p.amount]
<1>1. Owed = g[payouts] BY DEF Owed, FoldSet, MapThenFoldSet
<1>2. SUBSET {p} = {{}, {p}} /\ {p} \ {p} = {} /\ (CHOOSE y \in {p} : TRUE) = p OBVIOUS
<1>3. \A f : Sum(f, {}) = 0 OBVIOUS
<1>4. \A f : Sum(f, {p}) = p.amount + f[{}] BY <1>2
<1> HIDE DEF Sum
<1>5. w[{}] = 0 /\ w[{p}] = p.amount BY <1>2
<1>6. w = [s \in SUBSET {p} |-> w[s]] OBVIOUS
<1> HIDE DEF w
<1>7. \A s \in SUBSET {p} : Sum(w, s) = w[s] BY <1>2, <1>3, <1>4, <1>5
<1>8. w = [s \in SUBSET {p} |-> Sum(w, s)] BY <1>6, <1>7, Zenon
<1>9. g = [s \in SUBSET {p} |-> Sum(g, s)] BY <1>8
<1> HIDE DEF g
<1>10. {} \in SUBSET {p} /\ {p} \in SUBSET {p} OBVIOUS
<1>11. g[{}] = Sum(g, {}) /\ g[{p}] = Sum(g, {p}) BY <1>9, <1>10, Zenon
<1>12. g[{p}] = p.amount + 0 BY <1>3, <1>4, <1>11
<1> QED BY <1>1, <1>12

LEMMA NothingOwed == ASSUME payouts = {} PROVE Owed = 0
BY Zenon DEF Owed

LEMMA AccountLength ==
  ASSUME RecoveryInv
  PROVE  /\ Len(account) \in 0..MaxAccounts /\ DOMAIN account = 1..Len(account)
         /\ account = << >> <=> Len(account) = 0
         /\ \A i \in 1..Len(account) : account[i].outcome \in Outcomes
         /\ account # << >> => effectiveObservation = Len(account)
<1>1. Len(account) \in Nat /\ DOMAIN account = 1..Len(account)
      /\ \A i \in 1..Len(account) : account[i] \in AccountRecords
  BY LenProperties, ElementOfSeq DEF RecoveryInv
<1>2. account = << >> <=> Len(account) = 0 BY EmptySeq DEF RecoveryInv
<1>3. account # << >> => effectiveObservation = Len(account)
  BY <1>1, <1>2, LastIsInForce DEF RecoveryInv
<1> QED BY <1>1, <1>2, <1>3, DeskAssumption DEF RecoveryInv, AccountRecords

\* One account is in force, one payout at most rests on it, and the worklist says so.
LEMMA RecoveryIsSound == RecoveryInv => RecoveryIsAccounted
<1> SUFFICES ASSUME RecoveryInv PROVE RecoveryIsAccounted OBVIOUS
<1> DEFINE L == Len(account)
<1>1. /\ L \in 0..MaxAccounts /\ DOMAIN account = 1..L /\ (account = << >> <=> L = 0)
      /\ \A i \in 1..L : account[i].outcome \in Outcomes
      /\ account # << >> => effectiveObservation = L
  BY AccountLength
<1>2. \A i \in 1..L : account[i].supersedes = i - 1 BY <1>1 DEF RecoveryInv
<1> HIDE DEF L
<1>3. OneAccountInForce BY <1>1, <1>2 DEF OneAccountInForce, L
<1>4. PayoutRestsOnEvidence
  <2>1. \A p \in payouts : p.cites \in DOMAIN account /\ account[p.cites].outcome # "DELIVERED"
    BY DEF RecoveryInv, Citable
  <2>2. CASE payouts = {} BY <2>1, <2>2, FS_EmptySet, NothingOwed, DeskAssumption DEF PayoutRestsOnEvidence
  <2>3. CASE \E p : payouts = {p}
    <3>1. PICK p : payouts = {p} BY <2>3
    <3>2. p.amount \in 1..Captured BY <3>1 DEF RecoveryInv, Payouts
    <3>3. p.amount \in Nat /\ p.amount <= Captured BY <3>2, DeskAssumption
    <3>4. Owed = p.amount BY <3>1, <3>3, OwedIsTheAmount
    <3>5. Cardinality(payouts) = 1 BY <3>1, FS_Singleton
    <3> QED BY <2>1, <3>3, <3>4, <3>5 DEF PayoutRestsOnEvidence
  <2> QED BY <2>2, <2>3 DEF RecoveryInv
<1>5. QueueIsTheWorklist
  <2> DEFINE o == account[L].outcome
  <2>1. CASE ~Undecided
    <3>1. refundQueueEntry = "none" BY <2>1, Zenon DEF refundQueueEntry
    <3>2. refundQueueTotals = {} BY <2>1 DEF refundQueueTotals
    <3> HIDE DEF L
    <3> QED BY <2>1, <3>1, <3>2 DEF QueueIsTheWorklist
  <2>2. CASE Undecided
    <3>1. L \in 1..MaxAccounts /\ effectiveObservation = L /\ o \in Outcomes
      BY <1>1, <2>2, DeskAssumption DEF Undecided
    <3> HIDE DEF o
    <3>2. toRefundQueueCandidate = IF o = "UNRESOLVABLE" THEN "unresolvable"
                                   ELSE IF o # "DELIVERED" THEN "suggested" ELSE "none"
      BY <3>1 DEF toRefundQueueCandidate, suggestsRefund, o, Outcomes
    <3>3. refundQueueEntry = toRefundQueueCandidate BY <2>2 DEF refundQueueEntry
    <3>4. refundQueueEntry # "none" <=> o # "DELIVERED" BY <3>2, <3>3
    <3>5. CASE L = 1
      <4>1. refundQueueTotals =
              {r \in {"suggested", "unresolvable"} :
                 IF r = "suggested" THEN suggestsRefund(o) ELSE o = "UNRESOLVABLE"}
        BY <2>2, <3>5 DEF refundQueueTotals, L, o
      <4>2. o \in {"DELIVERED", "PARTIALLY_DELIVERED", "NOT_DELIVERED", "UNRESOLVABLE"}
        BY <3>1 DEF Outcomes
      <4>3. refundQueueTotals = {refundQueueEntry} \ {"none"}
        BY <3>2, <3>3, <4>1, <4>2 DEF suggestsRefund
      <4> QED BY <2>2, <3>1, <3>4, <4>3 DEF QueueIsTheWorklist, o
    <3>6. CASE L # 1
      <4>1. refundQueueTotals = {refundQueueEntry} \ {"none"}
        BY <2>2, <3>3, <3>6 DEF refundQueueTotals, L
      <4> QED BY <2>2, <3>1, <3>4, <4>1 DEF QueueIsTheWorklist, o
    <3> QED BY <3>5, <3>6
  <2> QED BY <2>1, <2>2
<1> QED BY <1>3, <1>4, <1>5 DEF RecoveryIsAccounted

LEMMA RecoveryStart == DeskInit => RecoveryInv
<1> SUFFICES ASSUME DeskInit PROVE RecoveryInv OBVIOUS
<1>1. account \in Seq(AccountRecords) /\ Len(account) = 0 /\ account = << >> /\ payouts = {}
      /\ job \in JobStatuses /\ scope = Operators /\ tx = [c \in Clerks |-> NoTx]
  BY EmptySeq DEF DeskInit, JobStatuses
<1>2. \A c \in Clerks : RecoveryTxOK(tx[c]) BY <1>1 DEF RecoveryTxOK, NoTx
<1> QED BY <1>1, <1>2, DeskAssumption DEF RecoveryInv

\* A step that writes no record and no payout, and opens nothing unsound.
LEMMA RecoveryUntouched ==
  ASSUME RecoveryInv, UNCHANGED <<account, payouts>>, job' \in JobStatuses,
         scope' \subseteq Operators, DOMAIN tx' = Clerks,
         \A c \in Clerks : tx'[c] = tx[c] \/ tx'[c].act \notin {"resolve", "correct", "refund"}
                           \/ RecoveryTxOK(tx'[c])
  PROVE  RecoveryInv'
<1>1. \A c \in Clerks : RecoveryTxOK(tx'[c]) BY DEF RecoveryInv, RecoveryTxOK
<1>2. \A c \in Clerks : RecoveryTxOK(tx[c])' BY <1>1 DEF RecoveryTxOK, Citable
<1> QED BY <1>2 DEF RecoveryInv, Citable

\* A record is appended only to the last one, and nothing that was cited goes.
LEMMA RecordAppended ==
  ASSUME RecoveryInv, UNCHANGED <<job, payouts, scope>>, NEW r \in AccountRecords,
         account' = Append(account, r), r.supersedes = Len(account),
         Len(account) < MaxAccounts, DOMAIN tx' = Clerks,
         \A c \in Clerks : tx'[c] = tx[c] \/ tx'[c] = NoTx
  PROVE  RecoveryInv'
<1> DEFINE L == Len(account)
<1>1. L \in 0..MaxAccounts /\ DOMAIN account = 1..L /\ account \in Seq(AccountRecords)
  BY AccountLength DEF RecoveryInv
<1>2. /\ account' \in Seq(AccountRecords) /\ Len(account') = L + 1
      /\ \A i \in 1..L : account'[i] = account[i]
      /\ account'[L + 1] = r
  BY <1>1, AppendProperties
<1>3. DOMAIN account' = 1..(L + 1) BY <1>2, LenProperties
<1> HIDE DEF L
<1>4. \A i \in 1..(L + 1) : account'[i].supersedes = i - 1
  <2> TAKE i \in 1..(L + 1)
  <2>1. CASE i \in 1..L BY <1>1, <1>2, <2>1 DEF RecoveryInv
  <2>2. CASE i = L + 1 BY <1>1, <1>2, <2>2, DeskAssumption DEF L
  <2> QED BY <1>1, <2>1, <2>2, DeskAssumption
<1>5. \A i \in DOMAIN account : i \in DOMAIN account' /\ account'[i] = account[i]
  BY <1>1, <1>2, <1>3, DeskAssumption
<1>6. \A c \in Clerks : RecoveryTxOK(tx[c])'
  <2> TAKE c \in Clerks
  <2>1. RecoveryTxOK(tx[c]) BY DEF RecoveryInv
  <2>2. CASE tx'[c] = NoTx BY <2>2 DEF RecoveryTxOK, NoTx
  <2>3. CASE tx'[c] = tx[c] BY <1>5, <2>1, <2>3 DEF RecoveryTxOK, Citable
  <2> QED BY <2>2, <2>3
<1>7. \A p \in payouts' : Citable(p.cites)' BY <1>5 DEF RecoveryInv, Citable
<1>8. Len(account') <= MaxAccounts BY <1>1, <1>2, DeskAssumption DEF L
<1>9. job' \in JobStatuses /\ scope' \subseteq Operators /\ payouts' \subseteq Payouts
      /\ (payouts' = {} \/ \E p : payouts' = {p})
  BY DEF RecoveryInv
<1> QED BY <1>2, <1>3, <1>4, <1>6, <1>7, <1>8, <1>9 DEF RecoveryInv

LEMMA RecoveryDesk == ASSUME RecoveryInv, RecoveryNext PROVE RecoveryInv'
<1> DEFINE L == Len(account)
<1>1. /\ L \in 0..MaxAccounts /\ DOMAIN account = 1..L /\ (account = << >> <=> L = 0)
      /\ \A i \in 1..L : account[i].outcome \in Outcomes
      /\ account # << >> => effectiveObservation = L
  BY AccountLength
<1>2. DOMAIN tx = Clerks /\ job \in JobStatuses /\ scope \subseteq Operators
      /\ \A c \in Clerks : RecoveryTxOK(tx[c])
  BY DEF RecoveryInv
<1>3. CASE JobSettles
  BY <1>2, <1>3, RecoveryUntouched DEF JobSettles, JobStatuses
<1>4. CASE \E c \in Clerks, o \in Operators, g \in BOOLEAN : assignKiosk(c, o, g)
  BY <1>2, <1>4, RecoveryUntouched DEF assignKiosk
<1>5. ASSUME NEW c \in Clerks, NEW t, tx' = [tx EXCEPT ![c] = t], UNCHANGED recoveryVars,
             RecoveryTxOK(t)
      PROVE  RecoveryInv'
  BY <1>2, <1>5, RecoveryUntouched DEF recoveryVars
<1>6. ASSUME NEW c \in Clerks, NEW o \in Reported, resolvePrintRecovery(c, o) PROVE RecoveryInv'
  <2> DEFINE t == [act |-> "resolve", outcome |-> o]
  <2>1. RecoveryTxOK(t) BY DEF RecoveryTxOK
  <2>2. tx' = [tx EXCEPT ![c] = t] /\ UNCHANGED recoveryVars
    BY <1>6 DEF resolvePrintRecovery, Begin
  <2> HIDE DEF t
  <2> QED BY <1>5, <2>1, <2>2
<1>7. ASSUME NEW c \in Clerks, NEW o \in Reported, NEW i \in 1..MaxAccounts,
             correctPrintRecovery(c, i, o)
      PROVE  RecoveryInv'
  <2> DEFINE t == [act |-> "correct", outcome |-> o, supersedes |-> i]
  <2>1. i \in DOMAIN account /\ L < MaxAccounts /\ tx' = [tx EXCEPT ![c] = t] /\ UNCHANGED recoveryVars
    BY <1>7 DEF correctPrintRecovery, Begin
  <2>2. RecoveryTxOK(t) BY <1>1, <2>1, DeskAssumption DEF RecoveryTxOK
  <2> HIDE DEF t
  <2> QED BY <1>5, <2>1, <2>2
<1>8. ASSUME NEW c \in Clerks, NEW a \in 1..(Captured + 1), authorizeRefund(c, a) PROVE RecoveryInv'
  <2> DEFINE t == [act |-> "refund", amount |-> a, cites |-> effectiveObservation]
  <2>1. /\ account # << >> /\ account[effectiveObservation].outcome # "DELIVERED"
        /\ payouts = {} /\ a <= Captured - Owed
        /\ tx' = [tx EXCEPT ![c] = t] /\ UNCHANGED recoveryVars
    BY <1>8 DEF authorizeRefund, Begin
  <2>2. a \in 1..Captured BY <2>1, NothingOwed, DeskAssumption
  <2>3. Citable(effectiveObservation) BY <1>1, <2>1 DEF Citable
  <2>4. RecoveryTxOK(t) BY <2>2, <2>3 DEF RecoveryTxOK
  <2> HIDE DEF t
  <2> QED BY <1>5, <2>1, <2>4
<1>9. ASSUME NEW c \in Clerks, End(c)
      PROVE  DOMAIN tx' = Clerks /\ \A d \in Clerks : tx'[d] = tx[d] \/ tx'[d] = NoTx
  BY <1>2, <1>9 DEF End
<1>10. ASSUME NEW c \in Clerks, End(c), UNCHANGED recoveryVars PROVE RecoveryInv'
  BY <1>2, <1>9, <1>10, RecoveryUntouched DEF NoTx, recoveryVars
<1>11. ASSUME NEW c \in Clerks, printRecoveryResolved(c) PROVE RecoveryInv'
  <2> DEFINE r == [outcome |-> tx[c].outcome, supersedes |-> 0]
  <2>1. tx[c].act = "resolve" /\ End(c) /\ UNCHANGED <<job, payouts, scope>>
        /\ account' = IF account = << >> THEN << r >> ELSE account
    BY <1>11 DEF printRecoveryResolved
  <2>2. CASE account # << >> BY <1>10, <2>1, <2>2 DEF recoveryVars
  <2>3. CASE account = << >>
    <3>1. tx[c].outcome \in Outcomes BY <1>2, <2>1, DeskAssumption DEF RecoveryTxOK
    <3>2. r \in AccountRecords /\ r.supersedes = 0 BY <3>1, DeskAssumption DEF AccountRecords
    <3>3. account' = Append(account, r) BY <2>1, <2>3
    <3> HIDE DEF r
    <3>4. L = 0 /\ L < MaxAccounts BY <1>1, <2>3, DeskAssumption
    <3> QED BY <1>9, <2>1, <3>2, <3>3, <3>4, RecordAppended
  <2> QED BY <2>2, <2>3
<1>12. ASSUME NEW c \in Clerks, printRecoveryCorrected(c) PROVE RecoveryInv'
  <2> DEFINE s == tx[c].supersedes
             r == [outcome |-> tx[c].outcome, supersedes |-> s]
  <2>1. tx[c].act = "correct" /\ End(c) /\ UNCHANGED <<job, payouts, scope>>
        /\ account' = IF \A i \in DOMAIN account : account[i].supersedes # s
                      THEN Append(account, r) ELSE account
    BY <1>12 DEF printRecoveryCorrected
  <2>2. s \in 1..L /\ s < MaxAccounts /\ tx[c].outcome \in Outcomes
    BY <1>1, <1>2, <2>1, DeskAssumption DEF RecoveryTxOK
  <2>3. r \in AccountRecords /\ r.supersedes = s BY <1>1, <2>2, DeskAssumption DEF AccountRecords
  <2> HIDE DEF r, s
  <2>4. CASE \E i \in DOMAIN account : account[i].supersedes = s
    BY <1>10, <2>1, <2>4 DEF recoveryVars
  <2>5. CASE \A i \in DOMAIN account : account[i].supersedes # s
    <3>1. s = L
      <4>1. CASE s < L
        <5>1. s + 1 \in DOMAIN account /\ (s + 1) - 1 = s BY <1>1, <2>2, <4>1, DeskAssumption
        <5>2. account[s + 1].supersedes = s BY <5>1 DEF RecoveryInv
        <5> QED BY <2>5, <5>1, <5>2
      <4>2. L \in Nat BY <1>1, DeskAssumption
      <4> HIDE DEF L
      <4> QED BY <2>2, <4>1, <4>2
    <3>2. account' = Append(account, r) BY <2>1, <2>5
    <3> QED BY <1>9, <2>1, <2>2, <2>3, <3>1, <3>2, RecordAppended
  <2> QED BY <2>4, <2>5
<1>13. ASSUME NEW c \in Clerks, refundAuthorized(c) PROVE RecoveryInv'
  <2> DEFINE p == [amount |-> tx[c].amount, cites |-> tx[c].cites, by |-> c]
  <2>1. tx[c].act = "refund" /\ End(c) /\ UNCHANGED <<job, account, scope>>
        /\ (payouts' = {p} \/ payouts' = payouts)
    BY <1>13 DEF refundAuthorized
  <2>2. CASE payouts' = payouts BY <1>10, <2>1, <2>2 DEF recoveryVars
  <2>3. CASE payouts' = {p}
    <3>1. tx[c].amount \in 1..Captured /\ Citable(tx[c].cites) BY <1>2, <2>1 DEF RecoveryTxOK
    <3>2. tx[c].cites \in 1..MaxAccounts BY <1>1, <3>1, DeskAssumption DEF Citable
    <3>3. p \in Payouts /\ p.cites = tx[c].cites BY <3>1, <3>2 DEF Payouts
    <3> HIDE DEF p
    <3>4. payouts' \subseteq Payouts /\ \A q \in payouts' : Citable(q.cites)'
      BY <2>1, <2>3, <3>1, <3>3 DEF Citable
    <3>5. \A d \in Clerks : RecoveryTxOK(tx[d])'
      <4> TAKE d \in Clerks
      <4>1. RecoveryTxOK(tx[d]) BY <1>2
      <4>2. tx'[d] = tx[d] \/ tx'[d] = NoTx BY <1>9, <2>1
      <4> QED BY <2>1, <4>1, <4>2 DEF RecoveryTxOK, Citable, NoTx
    <3> QED BY <1>9, <2>1, <2>3, <3>4, <3>5 DEF RecoveryInv
  <2> QED BY <2>1, <2>2, <2>3
<1>14. CASE \E c \in Clerks :
              printRecoveryResolved(c) \/ printRecoveryCorrected(c) \/ refundAuthorized(c)
  BY <1>11, <1>12, <1>13, <1>14
<1>15. CASE \E c \in Clerks, o \in Reported :
              resolvePrintRecovery(c, o) \/ \E i \in 1..MaxAccounts : correctPrintRecovery(c, i, o)
  BY <1>6, <1>7, <1>15
<1>16. CASE \E c \in Clerks, a \in 1..(Captured + 1) : authorizeRefund(c, a)
  BY <1>8, <1>16
<1> QED BY <1>3, <1>4, <1>14, <1>15, <1>16, Zenon DEF RecoveryNext

-----------------------------------------------------------------------------
(* Paper *)

PaperRequests == [key : PaperKeys, kind : {"REFILL", "CORRECTION"}, sheets : 0..PaperMax, by : Clerks]
Deductions == [key : {"print"}, kind : {"DEDUCTION"}, sheets : 1..2]
PaperRecords == PaperRequests \cup Deductions

\* f says what the estimate was after each of the recorded changes.
Recounts(f) ==
  f = [n \in 0..Len(applied) |-> IF n = 0 THEN Untracked ELSE Counted(f[n - 1], applied[n])]

\* No key is recorded twice.
KeysAreSpent ==
  \A i, j \in DOMAIN applied :
    applied[i].kind # "DEDUCTION" /\ applied[j].kind # "DEDUCTION"
    /\ applied[i].key = applied[j].key => i = j

PaperInv ==
  /\ paper \in Untracked..PaperMax /\ applied \in Seq(PaperRecords) /\ DOMAIN tx = Clerks
  /\ \A c \in Clerks : tx[c].act = "paper" => tx[c].request \in PaperRequests
  /\ \E f : Recounts(f) /\ f[Len(applied)] = paper
  /\ KeysAreSpent

\* Any two recounts end alike.
LEMMA RecountsAgree ==
  ASSUME NEW L \in Nat, Len(applied) = L, NEW f, NEW g, Recounts(f), Recounts(g)
  PROVE  f[L] = g[L]
<1> DEFINE T == {n \in 0..L : f[n] # g[n]}
<1>1. /\ f[0] = Untracked /\ g[0] = Untracked
      /\ \A n \in 1..L : f[n] = Counted(f[n - 1], applied[n]) /\ g[n] = Counted(g[n - 1], applied[n])
  BY DEF Recounts
<1>2. ASSUME f[L] # g[L] PROVE FALSE
  <2>1. T \in SUBSET Nat /\ T # {} BY <1>2
  <2>2. PICK x \in T : \A y \in T : x <= y BY <2>1, Smallest
  <2>3. x \in 1..L /\ f[x] # g[x] BY <1>1
  <2>4. x - 1 \in 0..L /\ x - 1 \notin T BY <2>2, <2>3
  <2>5. f[x - 1] = g[x - 1] BY <2>4
  <2> QED BY <1>1, <2>3, <2>5
<1> QED BY <1>2

\* What a change makes of an estimate within its bounds (addKioskPaper and the others).
LEMMA CountedInBounds ==
  ASSUME NEW b \in Untracked..PaperMax, NEW r \in PaperRecords
  PROVE  Counted(b, r) \in Int /\ Counted(b, r) >= Untracked
         /\ (r.kind = "DEDUCTION" => Counted(b, r) <= PaperMax)
<1>1. PaperMax \in Nat BY DeskAssumption
<1>2. CASE r \in PaperRequests
  <2>1. r.kind \in {"REFILL", "CORRECTION"} /\ r.sheets \in Nat BY <1>1, <1>2 DEF PaperRequests
  <2>2. CASE r.kind = "REFILL"
    <3>1. Counted(b, r) = (IF b = Untracked THEN 0 ELSE b) + r.sheets BY <2>2 DEF Counted
    <3> QED BY <1>1, <2>1, <2>2, <3>1 DEF Untracked
  <2>3. CASE r.kind = "CORRECTION"
    <3>1. Counted(b, r) = r.sheets BY <2>3 DEF Counted
    <3> QED BY <1>1, <2>1, <2>3, <3>1 DEF Untracked
  <2> QED BY <2>1, <2>2, <2>3
<1>3. CASE r \in Deductions
  <2>1. r.kind = "DEDUCTION" /\ r.sheets \in 1..2 BY <1>3 DEF Deductions
  <2>2. Counted(b, r) = IF b = Untracked \/ b < r.sheets
                        THEN (IF b = Untracked THEN Untracked ELSE 0) ELSE b - r.sheets
    BY <2>1 DEF Counted
  <2> QED BY <1>1, <2>1, <2>2 DEF Untracked
<1> QED BY <1>2, <1>3 DEF PaperRecords

\* The record of a change and its effect on the estimate are one write.
LEMMA ChangeRecorded ==
  ASSUME PaperInv, NEW r \in PaperRecords, paper' = Counted(paper, r), paper' <= PaperMax,
         applied' = Append(applied, r), DOMAIN tx' = Clerks,
         \A c \in Clerks : tx'[c] = tx[c] \/ tx'[c] = NoTx,
         r.kind # "DEDUCTION" => ~AlreadyApplied(r.key)
  PROVE  PaperInv'
<1> DEFINE L == Len(applied)
<1>1. /\ L \in Nat /\ DOMAIN applied = 1..L
      /\ applied' \in Seq(PaperRecords) /\ Len(applied') = L + 1
      /\ \A i \in 1..L : applied'[i] = applied[i]
      /\ applied'[L + 1] = r
  BY LenProperties, AppendProperties DEF PaperInv
<1>2. DOMAIN applied' = 1..(L + 1) BY <1>1, LenProperties
<1>3. PICK f : Recounts(f) /\ f[L] = paper BY DEF PaperInv
<1>4. f[0] = Untracked /\ \A n \in 1..L : f[n] = Counted(f[n - 1], applied[n])
  BY <1>1, <1>3 DEF Recounts
<1> HIDE DEF L
<1> DEFINE g == [n \in 0..(L + 1) |-> IF n = L + 1 THEN Counted(f[L], r) ELSE f[n]]
           Next(n) == IF n = 0 THEN Untracked ELSE Counted(g[n - 1], applied'[n])
<1>5. \A n \in 0..(L + 1) : g[n] = Next(n)
  <2> TAKE n \in 0..(L + 1)
  <2>1. CASE n = L + 1
    <3>1. g[n] = Counted(f[L], r) /\ g[n - 1] = f[L] /\ n # 0 BY <1>1, <2>1
    <3> QED BY <1>1, <2>1, <3>1
  <2>2. CASE n = 0
    <3>1. g[n] = f[0] BY <1>1, <2>2
    <3> QED BY <1>4, <2>2, <3>1
  <2>3. CASE n \in 1..L
    <3>1. g[n] = f[n] /\ g[n - 1] = f[n - 1] /\ n # 0 BY <1>1, <2>3
    <3> QED BY <1>1, <1>4, <2>3, <3>1
  <2> QED BY <1>1, <2>1, <2>2, <2>3
<1>6. g = [n \in 0..(L + 1) |-> g[n]] /\ g[L + 1] = Counted(f[L], r) BY <1>1
<1> HIDE DEF g
<1>7. g = [n \in 0..(L + 1) |-> Next(n)] BY <1>5, <1>6, Zenon
<1>8. PICK h : h = g OBVIOUS
<1>9. Recounts(h)' /\ h[Len(applied')] = paper' BY <1>1, <1>3, <1>6, <1>7, <1>8 DEF Recounts
<1>10. paper' \in Untracked..PaperMax
  <2>1. paper \in Untracked..PaperMax BY DEF PaperInv
  <2> QED BY <2>1, CountedInBounds, DeskAssumption DEF Untracked
<1>11. KeysAreSpent'
  <2>1. ASSUME NEW i \in 1..L, r.kind # "DEDUCTION" PROVE applied[i].key # r.key
    BY <1>1, <2>1 DEF AlreadyApplied
  <2>2. ASSUME NEW i \in 1..(L + 1), NEW j \in 1..(L + 1),
               applied'[i].kind # "DEDUCTION", applied'[j].kind # "DEDUCTION",
               applied'[i].key = applied'[j].key
        PROVE  i = j
    <3>1. CASE i \in 1..L /\ j \in 1..L BY <1>1, <2>2, <3>1 DEF PaperInv, KeysAreSpent
    <3>2. CASE i = L + 1 /\ j \in 1..L BY <1>1, <2>1, <2>2, <3>2
    <3>3. CASE j = L + 1 /\ i \in 1..L BY <1>1, <2>1, <2>2, <3>3
    <3> QED BY <1>1, <3>1, <3>2, <3>3
  <2> QED BY <1>2, <2>2 DEF KeysAreSpent
<1>12. \A c \in Clerks : tx'[c].act = "paper" => tx'[c].request \in PaperRequests
  BY DEF PaperInv, NoTx
<1> QED BY <1>1, <1>9, <1>10, <1>11, <1>12 DEF PaperInv

LEMMA PaperUntouched ==
  ASSUME PaperInv, UNCHANGED paperVars, DOMAIN tx' = Clerks,
         \A c \in Clerks : tx'[c] = tx[c] \/ tx'[c].act # "paper" \/ tx'[c].request \in PaperRequests
  PROVE  PaperInv'
<1>1. \A f : Recounts(f)' <=> Recounts(f) BY DEF Recounts, paperVars
<1>2. KeysAreSpent' BY DEF PaperInv, KeysAreSpent, paperVars
<1>3. \A c \in Clerks : tx'[c].act = "paper" => tx'[c].request \in PaperRequests BY DEF PaperInv
<1> QED BY <1>1, <1>2, <1>3 DEF PaperInv, paperVars

LEMMA PaperStart == DeskInit => PaperInv
<1> SUFFICES ASSUME DeskInit PROVE PaperInv OBVIOUS
<1>1. paper = Untracked /\ applied = << >> /\ tx = [c \in Clerks |-> NoTx] BY DEF DeskInit
<1>2. applied \in Seq(PaperRecords) /\ Len(applied) = 0 /\ DOMAIN applied = {}
  BY <1>1, EmptySeq
<1> DEFINE f == [n \in 0..0 |-> Untracked]
<1>3. f[0] = Untracked /\ \A n \in 0..0 : n = 0 OBVIOUS
<1>4. Recounts(f) /\ f[Len(applied)] = paper BY <1>1, <1>2, <1>3 DEF Recounts
<1> HIDE DEF f
<1>5. paper \in Untracked..PaperMax BY <1>1, DeskAssumption DEF Untracked
<1> QED BY <1>1, <1>2, <1>4, <1>5 DEF PaperInv, KeysAreSpent, NoTx

LEMMA PaperDesk == ASSUME PaperInv, PaperNext PROVE PaperInv'
<1>1. DOMAIN tx = Clerks /\ paper \in Untracked..PaperMax BY DEF PaperInv
<1>2. ASSUME NEW c \in Clerks, NEW k \in PaperKeys, NEW b \in PaperBodies,
             recordKioskPaperChange(c, k, b[1], b[2])
      PROVE  PaperInv'
  <2> DEFINE t == [act |-> "paper", request |-> PaperRequest(k, b[1], b[2], c)]
  <2>1. tx' = [tx EXCEPT ![c] = t] /\ UNCHANGED paperVars
    BY <1>2 DEF recordKioskPaperChange, Begin
  <2>2. t.request \in PaperRequests BY DeskAssumption DEF PaperRequest, PaperRequests
  <2> HIDE DEF t
  <2> QED BY <1>1, <2>1, <2>2, PaperUntouched
<1>3. ASSUME NEW c \in Clerks, kioskPaperChanged(c) PROVE PaperInv'
  <2> DEFINE r == tx[c].request
  <2>1. tx[c].act = "paper" /\ tx' = [tx EXCEPT ![c] = NoTx]
        /\ \/ UNCHANGED paperVars
           \/ /\ ~AlreadyApplied(r.key) /\ Counted(paper, r) <= PaperMax
              /\ paper' = Counted(paper, r) /\ applied' = Append(applied, r)
    BY <1>3 DEF kioskPaperChanged, End
  <2>2. r \in PaperRecords BY <2>1 DEF PaperInv, PaperRecords
  <2>3. DOMAIN tx' = Clerks /\ \A d \in Clerks : tx'[d] = tx[d] \/ tx'[d] = NoTx BY <1>1, <2>1
  <2>4. NoTx.act # "paper" BY DEF NoTx
  <2> HIDE DEF r
  <2> QED BY <2>1, <2>2, <2>3, <2>4, PaperUntouched, ChangeRecorded
<1>4. ASSUME NEW n \in 1..2, applyKioskPaperDeduction(n) PROVE PaperInv'
  <2> DEFINE r == [key |-> "print", kind |-> "DEDUCTION", sheets |-> n]
  <2>1. paper' = Counted(paper, r) /\ applied' = Append(applied, r) /\ UNCHANGED tx
    BY <1>4 DEF applyKioskPaperDeduction
  <2>2. r \in PaperRecords /\ r.kind = "DEDUCTION" BY DEF PaperRecords, Deductions
  <2> HIDE DEF r
  <2>3. paper' <= PaperMax BY <1>1, <2>1, <2>2, CountedInBounds
  <2> QED BY <1>1, <2>1, <2>2, <2>3, ChangeRecorded
<1>5. CASE \E c \in Clerks, k \in PaperKeys, b \in PaperBodies : recordKioskPaperChange(c, k, b[1], b[2])
  BY <1>2, <1>5
<1>6. CASE \E c \in Clerks : kioskPaperChanged(c) BY <1>3, <1>6
<1>7. CASE \E n \in 1..2 : applyKioskPaperDeduction(n) BY <1>4, <1>7
<1> QED BY <1>5, <1>6, <1>7, Zenon DEF PaperNext

LEMMA PaperIsCounted == PaperInv => PaperCountsEachRequestOnce
<1> SUFFICES ASSUME PaperInv PROVE PaperCountsEachRequestOnce OBVIOUS
<1> DEFINE g == CHOOSE f : Recounts(f)
<1>1. PICK f : Recounts(f) /\ f[Len(applied)] = paper BY DEF PaperInv
<1>2. Recounts(g) BY <1>1
<1>3. Len(applied) \in Nat BY LenProperties DEF PaperInv
<1>4. g[Len(applied)] = paper
  <2> HIDE DEF g
  <2> QED BY <1>1, <1>2, <1>3, RecountsAgree
<1>5. KeysAreSpent BY DEF PaperInv
<1> QED BY <1>4, <1>5 DEF PaperCountsEachRequestOnce, Recounts, KeysAreSpent

-----------------------------------------------------------------------------
(* The tariff *)

Executions == [by : Clerks, result : Tariffs, baseline : Tariffs]
Shown == [payload : Tariffs, shown : Tariffs, baseline : Tariffs]
Publications == [act : {"publish"}, payload : Tariffs, replaces : Tariffs, baseline : Tariffs]

\* What the desk of the tariff keeps, and what an open publication was shown.
TariffRows ==
  /\ tariff \in Tariffs /\ archive \subseteq Tariffs /\ IsFiniteSet(archive)
  /\ executions \in Seq(Executions) /\ DOMAIN form = Clerks /\ DOMAIN tx = Clerks
  /\ \A c \in Clerks : form[c] = NoForm \/ form[c] \in Shown
  /\ \A c \in Clerks : tx[c].act = "publish" =>
       tx[c] \in Publications /\ tx[c].replaces = tx[c].baseline

\* A version names one tariff, so the published one is not among the archived.
TariffInv ==
  /\ TariffRows /\ TariffChainUnbroken
  /\ \A t \in archive : t.version # tariff.version

LEMMA TariffStart == DeskInit => TariffInv
<1> SUFFICES ASSUME DeskInit PROVE TariffInv OBVIOUS
<1>1. (CHOOSE p \in Prices : TRUE) \in Prices BY DeskAssumption
<1>2. 0 \in 0..MaxVersions BY DeskAssumption
<1>3. tariff \in Tariffs BY <1>1, <1>2 DEF DeskInit, Tariffs
<1>4. executions = << >> /\ archive = {} /\ form = [c \in Clerks |-> NoForm]
      /\ tx = [c \in Clerks |-> NoTx]
  BY DEF DeskInit
<1>5. executions \in Seq(Executions) /\ Len(executions) = 0 BY <1>4, EmptySeq
<1>6. IsFiniteSet(archive) /\ Cardinality(archive) = 0 BY <1>4, FS_EmptySet
<1>7. TariffRows BY <1>3, <1>4, <1>5, <1>6 DEF TariffRows, NoTx
<1>8. TariffChainUnbroken BY <1>4, <1>5, <1>6 DEF TariffChainUnbroken
<1> QED BY <1>4, <1>7, <1>8 DEF TariffInv

\* A step that leaves the tariff alone and opens no publication.
LEMMA TariffUntouched ==
  ASSUME TariffInv, UNCHANGED <<tariff, archive, executions>>, DOMAIN form' = Clerks,
         DOMAIN tx' = Clerks, \A c \in Clerks : form'[c] = NoForm \/ form'[c] \in Shown,
         \A c \in Clerks : tx'[c] = tx[c] \/ tx'[c].act # "publish"
                           \/ (tx'[c] \in Publications /\ tx'[c].replaces = tx'[c].baseline)
  PROVE  TariffInv'
<1>1. TariffRows' BY DEF TariffInv, TariffRows
<1>2. TariffChainUnbroken' BY DEF TariffInv, TariffChainUnbroken
<1> QED BY <1>1, <1>2 DEF TariffInv

\* The writes take effect only on the tariff the publication replaces.
LEMMA PublishedKeeps ==
  ASSUME TariffInv, NEW c \in Clerks, published(c) PROVE TariffInv'
<1> DEFINE t == tx[c]
           e == [by |-> c, result |-> t.payload, baseline |-> t.baseline]
           n == Len(executions)
<1>1. t.act = "publish" /\ t \in Publications /\ t.replaces = t.baseline /\ UNCHANGED form
      /\ tx' = [tx EXCEPT ![c] = NoTx]
  BY DEF published, End, TariffInv, TariffRows
<1>2. DOMAIN tx' = Clerks /\ \A d \in Clerks : tx'[d] = tx[d] \/ tx'[d].act # "publish"
  BY <1>1 DEF TariffInv, TariffRows, NoTx
<1>3. CASE UNCHANGED <<tariff, archive, executions>>
  BY <1>1, <1>2, <1>3, TariffUntouched DEF TariffInv, TariffRows
<1>4. CASE /\ t.payload.version \notin VersionsInUse /\ t.replaces = tariff
           /\ archive' = archive \cup {tariff} /\ tariff' = t.payload
           /\ executions' = Append(executions, e)
  <2>1. e \in Executions /\ t.payload \in Tariffs BY <1>1 DEF Executions, Publications
  <2>2. executions \in Seq(Executions) /\ n \in Nat /\ IsFiniteSet(archive) /\ tariff \in Tariffs
        /\ archive \subseteq Tariffs /\ Cardinality(archive) = n
    BY LenProperties DEF TariffInv, TariffRows, TariffChainUnbroken
  <2> HIDE DEF e
  <2>3. /\ executions' \in Seq(Executions) /\ Len(executions') = n + 1
        /\ \A i \in 1..n : executions'[i] = executions[i]
        /\ executions'[n + 1] = e
    BY <1>4, <2>1, <2>2, AppendProperties
  <2>4. tariff \notin archive /\ \A s \in archive' : s.version # tariff'.version
    BY <1>4 DEF TariffInv, VersionsInUse
  <2>5. IsFiniteSet(archive') /\ Cardinality(archive') = n + 1
    BY <1>4, <2>2, <2>4, FS_AddElement
  <2>6. TariffRows' BY <1>1, <1>2, <1>4, <2>1, <2>2, <2>3, <2>5 DEF TariffInv, TariffRows
  <2>7. \A i \in 2..Len(executions') : executions'[i].baseline = executions'[i - 1].result
    <3> SUFFICES ASSUME NEW i \in 2..(n + 1)
                 PROVE  executions'[i].baseline = executions'[i - 1].result
      BY <2>3
    <3>1. CASE i \in 2..n BY <2>2, <2>3, <3>1 DEF TariffInv, TariffChainUnbroken
    <3>2. CASE i = n + 1
      <4>1. executions # << >> /\ n \in 1..n BY <2>2, <3>2, EmptySeq
      <4>2. executions[n].result = tariff BY <4>1 DEF TariffInv, TariffChainUnbroken
      <4>3. executions'[i].baseline = tariff BY <1>1, <1>4, <2>3, <3>2 DEF e
      <4>4. executions'[i - 1] = executions[n] BY <2>2, <2>3, <3>2, <4>1
      <4> QED BY <4>2, <4>3, <4>4
    <3> QED BY <2>2, <3>1, <3>2
  <2>8. executions'[Len(executions')].result = tariff' BY <1>4, <2>3 DEF e
  <2>9. TariffChainUnbroken' BY <2>3, <2>5, <2>7, <2>8 DEF TariffChainUnbroken
  <2> QED BY <2>4, <2>6, <2>9 DEF TariffInv
<1> QED BY <1>3, <1>4 DEF published

LEMMA TariffDesk == ASSUME TariffInv, TariffNext PROVE TariffInv'
<1>1. PICK c \in Clerks \ Operators :
        \/ \E p \in [version : 1..MaxVersions, price : Prices] : preview(c, p) \/ EditForm(c, p)
        \/ publish(c) \/ published(c)
  BY DEF TariffNext
<1>2. c \in Clerks /\ DOMAIN form = Clerks /\ DOMAIN tx = Clerks /\ tariff \in Tariffs
      /\ \A d \in Clerks : form[d] = NoForm \/ form[d] \in Shown
  BY <1>1 DEF TariffInv, TariffRows
<1>3. CASE \E p \in [version : 1..MaxVersions, price : Prices] : preview(c, p) \/ EditForm(c, p)
  <2>1. PICK p \in [version : 1..MaxVersions, price : Prices] : preview(c, p) \/ EditForm(c, p)
    BY <1>3
  <2>2. p \in Tariffs BY DeskAssumption DEF Tariffs
  <2>3. UNCHANGED <<tariff, archive, executions, tx>> BY <2>1 DEF preview, EditForm
  <2>4. \E w \in Shown : form' = [form EXCEPT ![c] = w]
    <3>1. CASE preview(c, p)
      <4>1. [payload |-> p, shown |-> p, baseline |-> tariff] \in Shown BY <1>2, <2>2 DEF Shown
      <4> QED BY <3>1, <4>1 DEF preview
    <3>2. CASE EditForm(c, p)
      <4>1. form[c] \in Shown BY <1>2, <3>2 DEF EditForm
      <4>2. [form[c] EXCEPT !.payload = p] \in Shown BY <2>2, <4>1 DEF Shown
      <4>3. form' = [form EXCEPT ![c] = [form[c] EXCEPT !.payload = p]] BY <1>2, <3>2 DEF EditForm
      <4> QED BY <4>2, <4>3
    <3> QED BY <2>1, <3>1, <3>2
  <2> QED BY <1>2, <2>3, <2>4, TariffUntouched
<1>4. CASE publish(c)
  <2> DEFINE w == [act |-> "publish", payload |-> form[c].payload, replaces |-> tariff,
                   baseline |-> form[c].baseline]
  <2>1. form[c] # NoForm /\ form[c].baseline = tariff /\ UNCHANGED tariffVars
        /\ tx' = [tx EXCEPT ![c] = w]
    BY <1>4 DEF publish, Begin
  <2>2. w \in Publications /\ w.replaces = w.baseline BY <1>2, <2>1 DEF Publications, Shown
  <2> HIDE DEF w
  <2> QED BY <1>2, <2>1, <2>2, TariffUntouched DEF tariffVars
<1>5. CASE published(c) BY <1>2, <1>5, PublishedKeeps
<1> QED BY <1>1, <1>3, <1>4, <1>5

-----------------------------------------------------------------------------
(* The desks at once *)

DeskInv == TariffInv /\ RecoveryInv /\ PaperInv

LEMMA DesksStart == DeskInit => DeskInv
BY TariffStart, RecoveryStart, PaperStart DEF DeskInv

LEMMA DesksStep == DeskInv /\ [DeskNext]_deskVars => DeskInv'
<1> SUFFICES ASSUME DeskInv, [DeskNext]_deskVars PROVE DeskInv' OBVIOUS
<1>1. /\ TariffInv /\ RecoveryInv /\ PaperInv /\ DOMAIN tx = Clerks
      /\ DOMAIN form = Clerks /\ \A c \in Clerks : form[c] = NoForm \/ form[c] \in Shown
      /\ job \in JobStatuses /\ scope \subseteq Operators
  BY DEF DeskInv, TariffInv, TariffRows, RecoveryInv
<1>2. CASE UNCHANGED deskVars
  <2>1. UNCHANGED <<tariffVars, recoveryVars, paperVars, tx>>
    BY <1>2 DEF deskVars, tariffVars, recoveryVars, paperVars
  <2>2. TariffInv' BY <1>1, <2>1, TariffUntouched DEF tariffVars
  <2>3. RecoveryInv' BY <1>1, <2>1, RecoveryUntouched DEF recoveryVars
  <2>4. PaperInv' BY <1>1, <2>1, PaperUntouched
  <2> QED BY <2>2, <2>3, <2>4 DEF DeskInv
<1>3. ASSUME UNCHANGED tariffVars, DOMAIN tx' = Clerks,
             \A c \in Clerks : tx'[c] = tx[c] \/ tx'[c].act # "publish"
      PROVE  TariffInv'
  BY <1>1, <1>3, TariffUntouched DEF tariffVars
<1>4. ASSUME UNCHANGED recoveryVars, DOMAIN tx' = Clerks,
             \A c \in Clerks : tx'[c] = tx[c] \/ tx'[c].act \notin {"resolve", "correct", "refund"}
      PROVE  RecoveryInv'
  BY <1>1, <1>4, RecoveryUntouched DEF recoveryVars
<1>5. ASSUME UNCHANGED paperVars, DOMAIN tx' = Clerks,
             \A c \in Clerks : tx'[c] = tx[c] \/ tx'[c].act # "paper"
      PROVE  PaperInv'
  BY <1>1, <1>5, PaperUntouched
<1>6. CASE TariffNext
  <2>1. /\ UNCHANGED <<recoveryVars, paperVars>> /\ DOMAIN tx' = Clerks
        /\ \A c \in Clerks : tx'[c] = tx[c] \/ tx'[c].act \in {"none", "publish"}
    BY <1>1, <1>6, DesksKeepApart
  <2> QED BY <1>1, <1>4, <1>5, <1>6, <2>1, TariffDesk DEF DeskInv
<1>7. CASE RecoveryNext
  <2>1. /\ UNCHANGED <<tariffVars, paperVars>> /\ DOMAIN tx' = Clerks
        /\ \A c \in Clerks : tx'[c] = tx[c] \/ tx'[c].act \in {"none", "resolve", "correct", "refund"}
    BY <1>1, <1>7, DesksKeepApart
  <2> QED BY <1>1, <1>3, <1>5, <1>7, <2>1, RecoveryDesk DEF DeskInv
<1>8. CASE PaperNext
  <2>1. /\ UNCHANGED <<tariffVars, recoveryVars>> /\ DOMAIN tx' = Clerks
        /\ \A c \in Clerks : tx'[c] = tx[c] \/ tx'[c].act \in {"none", "paper"}
    BY <1>1, <1>8, DesksKeepApart
  <2> QED BY <1>1, <1>3, <1>4, <1>8, <2>1, PaperDesk DEF DeskInv
<1> QED BY <1>2, <1>6, <1>7, <1>8 DEF DeskNext

\* What the desks keep is what was decided at them, once each, however many people work
\* at them at once: each tariff replaced the one its publisher was shown, one account of a
\* print is in force and one payout at most rests on it, and the paper estimate counts
\* each request once (changes.ts, refunds.ts, operations.ts).
THEOREM DesksAreAccounted == DeskSpec => []DeskIsAccounted
<1>1. DeskInv => DeskIsAccounted
  <2> SUFFICES ASSUME DeskInv PROVE DeskIsAccounted OBVIOUS
  <2>1. DeskTypeOK
    BY DEF DeskInv, TariffInv, TariffRows, RecoveryInv, PaperInv, DeskTypeOK,
           Executions, Shown, AccountRecords, Payouts
  <2> QED BY <2>1, RecoveryIsSound, PaperIsCounted DEF DeskInv, TariffInv, DeskIsAccounted
<1> QED BY <1>1, DesksStart, DesksStep, PTL DEF DeskSpec

-----------------------------------------------------------------------------
(* The order of a list *)

RowRecords == [id : RowIds, at : 0..MaxReadTime, kiosk : Unrestricted, status : RowStates]

\* Rows of which no two share an identifier.
Table(S) == S \subseteq RowRecords /\ IsFiniteSet(S) /\ \A r, q \in S : r.id = q.id => r = q

\* s is S in the order of the list l.
Enumerates(l, s, n, S) ==
  /\ n \in Nat /\ s \in [1..n -> S] /\ \A r \in S : \E i \in 1..n : s[i] = r
  /\ \A i, j \in 1..n : i < j => Before(l, s[i], s[j])

LEMMA NumbersOfRows == ASSUME NEW r \in RowRecords PROVE r.id \in Nat /\ r.at \in Nat
<1>1. r.id \in RowIds /\ r.at \in 0..MaxReadTime BY DEF RowRecords
<1>2. RowIds \subseteq Nat /\ MaxReadTime \in Nat BY ReadsAssumption
<1>3. r.id \in Nat BY <1>1, <1>2
<1>4. r.at \in Nat BY <1>1, <1>2
<1> QED BY <1>3, <1>4

LEMMA BeforeIsAnOrder ==
  ASSUME NEW l, NEW r \in RowRecords, NEW q \in RowRecords, NEW p \in RowRecords
  PROVE  /\ ~Before(l, r, r)
         /\ Before(l, r, q) => ~Before(l, q, r)
         /\ Before(l, r, q) /\ Before(l, q, p) => Before(l, r, p)
         /\ r.id # q.id => Before(l, r, q) \/ Before(l, q, r)
<1>1. \A s \in RowRecords : s.id \in Int /\ s.at \in Int BY NumbersOfRows
<1> QED BY <1>1 DEF Before

\* A set of rows has one order.
LEMMA OneOrder ==
  ASSUME NEW l, NEW S, Table(S), NEW s, NEW n, Enumerates(l, s, n, S),
         NEW t, NEW k, Enumerates(l, t, k, S)
  PROVE  n = k /\ s = t
<1>1. n \in Nat /\ k \in Nat /\ s \in [1..n -> S] /\ t \in [1..k -> S] BY DEF Enumerates
<1>2. \A r, q \in S : Before(l, r, q) => r # q /\ ~Before(l, q, r)
  BY BeforeIsAnOrder DEF Table
<1>3. \A i \in 1..n : i \in 1..k => s[i] = t[i]
  <2> DEFINE T == {i \in 1..n : i \in 1..k /\ s[i] # t[i]}
  <2>1. SUFFICES ASSUME T # {} PROVE FALSE OBVIOUS
  <2>2. T \in SUBSET Nat OBVIOUS
  <2>3. PICK x \in T : \A y \in T : x <= y BY <2>1, <2>2, Smallest
  <2>4. x \in 1..n /\ x \in 1..k /\ s[x] # t[x] /\ s[x] \in S /\ t[x] \in S BY <1>1, <2>3
  <2>5. \A i \in 1..(x - 1) : i \in 1..n /\ i \in 1..k /\ s[i] = t[i]
    <3> TAKE i \in 1..(x - 1)
    <3>1. i \in 1..n /\ i \in 1..k /\ ~(x <= i) BY <1>1, <2>4
    <3> QED BY <2>3, <3>1
  <2>6. Before(l, t[x], s[x])
    <3>1. PICK j \in 1..k : t[j] = s[x] BY <2>4 DEF Enumerates
    <3>2. j # x BY <2>4, <3>1
    <3>3. CASE j < x
      <4>1. j \in 1..(x - 1) BY <1>1, <2>4, <3>3
      <4>2. s[j] = s[x] /\ j \in 1..n BY <2>5, <3>1, <4>1
      <4>3. Before(l, s[j], s[x]) BY <2>4, <3>3, <4>2 DEF Enumerates
      <4> QED BY <1>2, <2>4, <4>2, <4>3
    <3>4. CASE x < j
      BY <2>4, <3>1, <3>4 DEF Enumerates
    <3> QED BY <1>1, <2>4, <3>2, <3>3, <3>4
  <2>7. Before(l, s[x], t[x])
    <3>1. PICK j \in 1..n : s[j] = t[x] BY <2>4 DEF Enumerates
    <3>2. j # x BY <2>4, <3>1
    <3>3. CASE j < x
      <4>1. j \in 1..(x - 1) BY <1>1, <2>4, <3>3
      <4>2. t[j] = t[x] /\ j \in 1..k BY <2>5, <3>1, <4>1
      <4>3. Before(l, t[j], t[x]) BY <2>4, <3>3, <4>2 DEF Enumerates
      <4> QED BY <1>2, <2>4, <4>2, <4>3
    <3>4. CASE x < j
      BY <2>4, <3>1, <3>4 DEF Enumerates
    <3> QED BY <1>1, <2>4, <3>2, <3>3, <3>4
  <2> QED BY <1>2, <2>4, <2>6, <2>7
<1>4. n <= k
  <2> SUFFICES ASSUME k < n PROVE FALSE BY <1>1
  <2>1. k + 1 \in 1..n /\ s[k + 1] \in S BY <1>1
  <2>2. PICK j \in 1..k : t[j] = s[k + 1] BY <2>1 DEF Enumerates
  <2>3. j \in 1..n /\ s[j] = t[j] /\ j < k + 1 BY <1>1, <1>3, <2>2
  <2>4. Before(l, s[j], s[k + 1]) BY <2>1, <2>3 DEF Enumerates
  <2> QED BY <1>1, <1>2, <2>1, <2>2, <2>3, <2>4
<1>5. k <= n
  <2> SUFFICES ASSUME n < k PROVE FALSE BY <1>1
  <2>1. n + 1 \in 1..k /\ t[n + 1] \in S BY <1>1
  <2>2. PICK j \in 1..n : s[j] = t[n + 1] BY <2>1 DEF Enumerates
  <2>3. j \in 1..k /\ s[j] = t[j] /\ j < n + 1 BY <1>1, <1>3, <2>2
  <2>4. Before(l, t[j], t[n + 1]) BY <2>1, <2>3 DEF Enumerates
  <2> QED BY <1>1, <1>2, <2>1, <2>2, <2>3, <2>4
<1>6. n = k BY <1>1, <1>4, <1>5
<1> QED BY <1>1, <1>3, <1>6

\* The table without one row, and its size.
LEMMA OneLess ==
  ASSUME NEW S, Table(S), NEW r \in S
  PROVE  /\ Table(S \ {r}) /\ Cardinality(S) \in Nat \ {0}
         /\ Cardinality(S \ {r}) = Cardinality(S) - 1
<1>1. IsFiniteSet(S) BY DEF Table
<1>2. Cardinality(S) \in Nat /\ (Cardinality(S) = 0 <=> S = {})
  BY <1>1, FS_CardinalityType, FS_EmptySet
<1>3. IsFiniteSet(S \ {r}) /\ Cardinality(S \ {r}) = Cardinality(S) - 1 BY <1>1, FS_RemoveElement
<1> QED BY <1>2, <1>3 DEF Table

\* Some row of a table is listed last.
LEMMA SomeRowIsLast ==
  ASSUME NEW l, NEW S, Table(S), S # {}
  PROVE  \E z \in S : \A r \in S \ {z} : Before(l, r, z)
<1> DEFINE HasLast(Q) == \E z \in Q : \A r \in Q \ {z} : Before(l, r, z)
           T == {n \in Nat : \E Q \in SUBSET S : Q # {} /\ Table(Q) /\ Cardinality(Q) = n /\ ~HasLast(Q)}
<1>1. SUFFICES ASSUME ~HasLast(S) PROVE FALSE OBVIOUS
<1>2. Cardinality(S) \in Nat BY FS_CardinalityType DEF Table
<1>3. T \in SUBSET Nat /\ T # {} BY <1>1, <1>2
<1>4. PICK n \in T : \A y \in T : n <= y BY <1>3, Smallest
<1>5. PICK Q \in SUBSET S : Q # {} /\ Table(Q) /\ Cardinality(Q) = n /\ ~HasLast(Q) BY <1>4
<1>6. PICK x \in Q : TRUE BY <1>5
<1>7. Table(Q \ {x}) /\ n \in Nat \ {0} /\ Cardinality(Q \ {x}) = n - 1 BY <1>5, <1>6, OneLess
<1>8. CASE Q \ {x} = {}
  <2>1. \A r \in Q \ {x} : Before(l, r, x) BY <1>8
  <2> QED BY <1>5, <1>6, <2>1
<1>9. CASE Q \ {x} # {}
  <2>1. n - 1 \notin T BY <1>4, <1>7
  <2>2. HasLast(Q \ {x})
    <3>1. Q \ {x} \in SUBSET S BY <1>5
    <3> HIDE DEF HasLast
    <3> QED BY <1>7, <1>9, <2>1, <3>1
  <2>3. PICK z \in Q \ {x} : \A r \in (Q \ {x}) \ {z} : Before(l, r, z) BY <2>2
  <2>4. Q \subseteq RowRecords /\ x.id # z.id BY <1>5, <1>6, <2>3 DEF Table
  <2>5. CASE Before(l, x, z)
    <3>1. \A r \in Q \ {z} : Before(l, r, z) BY <2>3, <2>5
    <3> QED BY <1>5, <2>3, <3>1
  <2>6. CASE Before(l, z, x)
    <3>1. \A r \in Q \ {x} : r = z \/ Before(l, r, z) BY <2>3
    <3>2. \A r \in Q \ {x} : Before(l, r, x) BY <1>6, <2>3, <2>4, <2>6, <3>1, BeforeIsAnOrder
    <3> QED BY <1>5, <1>6, <3>2
  <2> QED BY <1>6, <2>3, <2>4, <2>5, <2>6, BeforeIsAnOrder
<1> QED BY <1>8, <1>9

\* Every table has an order.
LEMMA SomeOrder ==
  ASSUME NEW l, NEW S, Table(S)
  PROVE  \E s : Enumerates(l, s, Cardinality(S), S)
<1> DEFINE HasOrder(Q) == \E s : Enumerates(l, s, Cardinality(Q), Q)
           T == {n \in Nat : \E Q \in SUBSET S : Table(Q) /\ Cardinality(Q) = n /\ ~HasOrder(Q)}
<1>1. SUFFICES ASSUME ~HasOrder(S) PROVE FALSE OBVIOUS
<1>2. Cardinality(S) \in Nat BY FS_CardinalityType DEF Table
<1>3. T \in SUBSET Nat /\ T # {} BY <1>1, <1>2
<1>4. PICK n \in T : \A y \in T : n <= y BY <1>3, Smallest
<1>5. PICK Q \in SUBSET S : Table(Q) /\ Cardinality(Q) = n /\ ~HasOrder(Q) BY <1>4
<1>6. CASE Q = {}
  <2>1. Cardinality(Q) = 0 BY <1>6, FS_EmptySet
  <2>2. Enumerates(l, << >>, 0, Q) BY <1>6 DEF Enumerates
  <2> QED BY <1>5, <2>1, <2>2
<1>7. CASE Q # {}
  <2>1. PICK z \in Q : \A r \in Q \ {z} : Before(l, r, z) BY <1>5, <1>7, SomeRowIsLast
  <2>2. Table(Q \ {z}) /\ n \in Nat \ {0} /\ Cardinality(Q \ {z}) = n - 1 BY <1>5, <2>1, OneLess
  <2>3. n - 1 \notin T BY <1>4, <2>2
  <2>4. HasOrder(Q \ {z}) BY <2>2, <2>3
  <2>5. PICK s : Enumerates(l, s, n - 1, Q \ {z}) BY <2>2, <2>4
  <2> DEFINE t == [i \in 1..n |-> IF i = n THEN z ELSE s[i]]
  <2>6. s \in [1..(n - 1) -> Q \ {z}] BY <2>5 DEF Enumerates
  <2>7. t[n] = z /\ \A i \in 1..(n - 1) : t[i] = s[i] /\ s[i] \in Q \ {z} BY <2>2, <2>6
  <2>8. \A i \in 1..n : i = n \/ i \in 1..(n - 1) BY <2>2
  <2>9. t \in [1..n -> Q] BY <2>1, <2>7, <2>8
  <2> HIDE DEF t
  <2>10. \A r \in Q : \E i \in 1..n : t[i] = r
    <3> TAKE r \in Q
    <3>1. CASE r = z BY <2>2, <2>7, <3>1
    <3>2. CASE r # z
      <4>1. PICK i \in 1..(n - 1) : s[i] = r BY <2>5, <3>2 DEF Enumerates
      <4> QED BY <2>2, <2>7, <4>1
    <3> QED BY <3>1, <3>2
  <2>11. ASSUME NEW i \in 1..n, NEW j \in 1..n, i < j PROVE Before(l, t[i], t[j])
    <3>1. i \in 1..(n - 1) BY <2>2, <2>11
    <3>2. CASE j = n BY <2>1, <2>7, <3>1, <3>2
    <3>3. CASE j \in 1..(n - 1)
      <4>1. Before(l, s[i], s[j]) BY <2>5, <2>11, <3>1, <3>3 DEF Enumerates
      <4> QED BY <2>7, <3>1, <3>3, <4>1
    <3> QED BY <2>8, <3>2, <3>3
  <2>12. Enumerates(l, t, n, Q) BY <2>2, <2>9, <2>10, <2>11 DEF Enumerates
  <2> QED BY <1>5, <2>12
<1> QED BY <1>6, <1>7

\* Sorting a table lists it in its order (findMany's orderBy).
LEMMA SortedIsTheOrder ==
  ASSUME NEW l, NEW S, Table(S) PROVE Enumerates(l, orderBy(l, S), Cardinality(S), S)
<1> DEFINE n == Cardinality(S)
           b == orderBy(l, S)
           Sorted(s) == \A i, j \in DOMAIN s : i < j => Before(l, s[i], s[j])
<1>1. n \in Nat BY FS_CardinalityType DEF Table
<1>2. PICK e : Enumerates(l, e, n, S) BY SomeOrder
<1>3. e \in [1..n -> S] /\ Sorted(e) BY <1>2 DEF Enumerates
<1>4. b \in [1..n -> S] /\ Sorted(b)
  <2>1. b = CHOOSE s \in [1..n -> S] : Sorted(s) BY DEF orderBy
  <2> HIDE DEF b, n, Sorted
  <2> QED BY <1>3, <2>1
<1> HIDE DEF b
<1>5. \A i, j \in 1..n : i < j => Before(l, b[i], b[j]) BY <1>4
<1>6. \A i, j \in 1..n : b[i] = b[j] => i = j
  <2> SUFFICES ASSUME NEW i \in 1..n, NEW j \in 1..n, i < j PROVE b[i] # b[j] BY <1>1
  <2>1. Before(l, b[i], b[j]) /\ b[i] \in S BY <1>4, <1>5
  <2>2. b[i] \in RowRecords BY <2>1 DEF Table
  <2> QED BY <2>1, <2>2, BeforeIsAnOrder
<1>7. IsFiniteSet(1..n) /\ Cardinality(1..n) = n BY <1>1, FS_Interval, 0 \in Int, 1 \in Int
<1>8. b \in Injection(1..n, S) BY <1>4, <1>6 DEF Injection, IsInjective
<1>9. b \in Surjection(1..n, S) BY <1>7, <1>8, FS_Injection DEF Table
<1>10. \A r \in S : \E i \in 1..n : b[i] = r BY <1>9 DEF Surjection
<1>11. Enumerates(l, b, n, S)
  <2> HIDE DEF n
  <2> QED BY <1>1, <1>4, <1>5, <1>10 DEF Enumerates
<1> QED BY <1>11 DEF b

-----------------------------------------------------------------------------
(* Pages *)

Cursors == [at : Int, id : Int]
Pages == [kind : {"page"}, items : Seq(RowRecords), next : Cursors]

\* The kiosks whose rows a list may show a caller.
Visible(l, kiosks) == kiosks \cup (IF l = "audit" THEN {NoKiosk} ELSE {})

\* Whatever a list is asked for, it answers with rows of the table that the caller may see.
LEMMA MatchingIsVisible ==
  ASSUME Table(rows), NEW l \in Lists, NEW kiosks, NEW f
  PROVE  /\ Table(Matching(l, kiosks, f)) /\ Matching(l, kiosks, f) \subseteq rows
         /\ \A r \in Matching(l, kiosks, f) : r.kiosk \in Visible(l, kiosks)
<1>1. \A k : scopedKioskIdFilter(kiosks, k) \subseteq kiosks BY DEF scopedKioskIdFilter
<1>2. Matching(l, kiosks, f) \in
        {sessions(kiosks, f), printJobs(kiosks, f), payments(kiosks, f), refunds(kiosks, f),
         retention(kiosks, f), refundQueue(kiosks, f)}
      \/ (l = "audit" /\ Matching(l, kiosks, f) = audit(kiosks, f))
  BY DEF Matching, Lists
<1>3. ASSUME NEW S \in {sessions(kiosks, f), printJobs(kiosks, f), payments(kiosks, f),
                        refunds(kiosks, f), retention(kiosks, f), refundQueue(kiosks, f)}
      PROVE  S \subseteq rows /\ \A r \in S : r.kiosk \in kiosks
  <2>1. \A k : scopedViaSessionFilter(kiosks, k) \subseteq kiosks BY <1>1 DEF scopedViaSessionFilter
  <2>2. CASE S = sessions(kiosks, f) BY <1>1, <2>2 DEF sessions
  <2>3. CASE S = printJobs(kiosks, f) BY <1>1, <2>3 DEF printJobs
  <2>4. CASE S = payments(kiosks, f) BY <2>1, <2>4 DEF payments
  <2>5. CASE S = refunds(kiosks, f) BY <2>1, <2>5 DEF refunds
  <2>6. CASE S = retention(kiosks, f) BY <2>1, <2>6 DEF retention
  <2>7. CASE S = refundQueue(kiosks, f) BY <1>1, <2>7 DEF refundQueue
  <2> QED BY <1>3, <2>2, <2>3, <2>4, <2>5, <2>6, <2>7
<1>4. audit(kiosks, f) \subseteq rows /\ \A r \in audit(kiosks, f) : r.kiosk \in kiosks \cup {NoKiosk}
  BY <1>1 DEF audit
<1>5. Matching(l, kiosks, f) \subseteq rows
      /\ \A r \in Matching(l, kiosks, f) : r.kiosk \in Visible(l, kiosks)
  BY <1>2, <1>3, <1>4 DEF Visible
<1>6. \A S \in SUBSET rows : Table(S) BY FS_Subset DEF Table
<1> QED BY <1>5, <1>6

\* The rows of a list that lie beyond a cursor.
Beyond(l, kiosks, f, cursor) == {r \in Matching(l, kiosks, f) : keysetWhere(l, cursor, r)}

\* What findMany fetches is the beginning of what lies beyond the cursor.
LEMMA FetchedIsTheBeginning ==
  ASSUME Table(rows), NEW l \in Lists, NEW kiosks, NEW f, NEW cursor, NEW t, NEW n,
         Enumerates(l, t, n, Beyond(l, kiosks, f, cursor))
  PROVE  LET all == n <= PageSize
             x == Fetched(l, kiosks, f, cursor)
             items == PageOf(x)
             shown == IF all THEN n ELSE PageSize
         IN  /\ n \in Nat /\ shown \in 0..n
             /\ items \in Seq(RowRecords) /\ Len(items) = shown
             /\ \A i \in 1..shown : items[i] = t[i]
             /\ nextCursorFrom(x) = IF all THEN FirstPage ELSE encodeAdminCursor(t[PageSize])
<1> DEFINE wanted == Beyond(l, kiosks, f, cursor)
           m == IF n <= PageSize THEN n ELSE PageSize + 1
           x == Fetched(l, kiosks, f, cursor)
           k == IF Len(x) <= PageSize THEN Len(x) ELSE PageSize
<1>1. Table(wanted) BY MatchingIsVisible, FS_Subset DEF Table, Beyond
<1>2. orderBy(l, wanted) = t
  <2> DEFINE s == orderBy(l, wanted)
  <2>1. Enumerates(l, s, Cardinality(wanted), wanted) BY <1>1, SortedIsTheOrder
  <2> HIDE DEF s
  <2>2. s = t BY <1>1, <2>1, OneOrder
  <2> QED BY <2>2 DEF s
<1>3. n \in Nat /\ t \in [1..n -> wanted] /\ PageSize \in Nat \ {0}
  BY ReadsAssumption DEF Enumerates
<1>4. \A i \in 1..n : t[i] \in RowRecords BY <1>1, <1>3 DEF Table
<1>5. Len(t) = n BY <1>3
<1>6. x = SubSeq(t, 1, m) BY <1>2, <1>5 DEF Fetched, Beyond
<1> HIDE DEF x
<1>7. m \in 0..n BY <1>3
<1> HIDE DEF m
<1>8. x \in Seq(RowRecords) /\ Len(x) = m /\ \A i \in 1..m : x[i] = t[i]
  <2>1. \A i \in 1..m : t[i] \in RowRecords BY <1>3, <1>4, <1>7
  <2>2. m \in Int BY <1>3, <1>7
  <2> QED BY <1>3, <1>6, <1>7, <2>1, <2>2, SubSeqProperties, 1 \in Int
<1>9. k \in 0..m /\ k = IF n <= PageSize THEN n ELSE PageSize BY <1>3, <1>8 DEF m
<1>10. PageOf(x) = SubSeq(x, 1, k) BY DEF PageOf
<1> HIDE DEF k
<1>11. PageOf(x) \in Seq(RowRecords) /\ Len(PageOf(x)) = k /\ \A i \in 1..k : PageOf(x)[i] = t[i]
  <2>1. k \in Int /\ 1 \in Int BY <1>3, <1>7, <1>9
  <2>2. \A i \in 1..k : x[i] \in RowRecords /\ x[i] = t[i] BY <1>3, <1>4, <1>7, <1>8, <1>9
  <2> QED BY <1>3, <1>7, <1>9, <1>10, <2>1, <2>2, SubSeqProperties
<1>12. nextCursorFrom(x) = IF n <= PageSize THEN FirstPage ELSE encodeAdminCursor(t[PageSize])
  <2>1. CASE n <= PageSize BY <1>3, <1>8, <2>1 DEF nextCursorFrom, m
  <2>2. CASE ~(n <= PageSize)
    <3>1. m = PageSize + 1 /\ PageSize \in 1..m BY <1>3, <2>2 DEF m
    <3>2. ~(Len(x) <= PageSize) /\ x[PageSize] = t[PageSize] BY <1>3, <1>8, <3>1
    <3> QED BY <2>2, <3>2 DEF nextCursorFrom
  <2> QED BY <2>1, <2>2
<1>13. k \in 0..n BY <1>3, <1>9
<1> QED BY <1>3, <1>9, <1>11, <1>12, <1>13 DEF x

\* An answer is a page of rows that the caller may see.
LEMMA AnswerIsVisible ==
  ASSUME Table(rows), NEW l \in Lists, NEW kiosks, NEW query
  PROVE  /\ Answer(l, kiosks, query) \in Pages
         /\ \A i \in DOMAIN Answer(l, kiosks, query).items :
              Answer(l, kiosks, query).items[i].kiosk \in Visible(l, kiosks)
<1> PICK f : f = query.filter OBVIOUS
<1> PICK cursor : cursor = query.cursor OBVIOUS
<1> DEFINE M == Matching(l, kiosks, f)
           wanted == Beyond(l, kiosks, f, cursor)
           x == Fetched(l, kiosks, f, cursor)
           items == PageOf(x)
           n == Cardinality(wanted)
           shown == IF n <= PageSize THEN n ELSE PageSize
<1>1. Table(wanted) BY MatchingIsVisible, FS_Subset DEF Table, Beyond
<1>2. PICK t : Enumerates(l, t, n, wanted) BY <1>1, SomeOrder
<1>3. /\ n \in Nat /\ shown \in 0..n
      /\ items \in Seq(RowRecords) /\ Len(items) = shown
      /\ \A i \in 1..shown : items[i] = t[i]
      /\ nextCursorFrom(x) = IF n <= PageSize THEN FirstPage ELSE encodeAdminCursor(t[PageSize])
  <2>1. Enumerates(l, t, n, Beyond(l, kiosks, f, cursor)) BY <1>2
  <2> HIDE DEF n, M, wanted
  <2> QED BY <2>1, FetchedIsTheBeginning
<1>4. \A i \in 1..n : t[i] \in wanted BY <1>2 DEF Enumerates
<1>5. \A r \in wanted : r.kiosk \in Visible(l, kiosks) /\ r \in RowRecords
  BY <1>1, MatchingIsVisible DEF Table, Beyond
<1> HIDE DEF wanted, n
<1>6. nextCursorFrom(x) \in Cursors
  <2>1. FirstPage \in Cursors BY DEF FirstPage, Cursors
  <2>2. ASSUME ~(n <= PageSize) PROVE encodeAdminCursor(t[PageSize]) \in Cursors
    <3>1. PageSize \in 1..n BY <1>3, <2>2, ReadsAssumption
    <3>2. t[PageSize] \in RowRecords BY <1>4, <1>5, <3>1
    <3>3. t[PageSize].at \in Int /\ t[PageSize].id \in Int BY <3>2, NumbersOfRows
    <3> QED BY <3>3 DEF encodeAdminCursor, Cursors
  <2> QED BY <1>3, <2>1, <2>2
<1>7. Answer(l, kiosks, query) = [kind |-> "page", items |-> items, next |-> nextCursorFrom(x)]
  BY DEF Answer
<1>8. DOMAIN items = 1..shown BY <1>3, LenProperties
<1> HIDE DEF items, shown, x
<1>9. \A i \in DOMAIN items : items[i].kiosk \in Visible(l, kiosks) BY <1>3, <1>4, <1>5, <1>8
<1> QED BY <1>3, <1>6, <1>7, <1>9 DEF Pages

\* The page after the first k rows of a list continues with the next ones.
LEMMA PageContinues ==
  ASSUME Table(rows), NEW l \in Lists, NEW kiosks, NEW f, NEW m, NEW n,
         Enumerates(l, m, n, Matching(l, kiosks, f)), NEW k \in 0..n,
         NEW cursor, cursor = IF k = 0 THEN FirstPage ELSE encodeAdminCursor(m[k])
  PROVE  LET all == n - k <= PageSize
             last == IF all THEN n ELSE k + PageSize
             a == Answer(l, kiosks, [filter |-> f, cursor |-> cursor])
         IN  /\ n \in Nat /\ last \in k..n /\ (all \/ k < last)
             /\ a.items \in Seq(RowRecords) /\ Len(a.items) = last - k
             /\ \A i \in 1..(last - k) : a.items[i] = m[k + i]
             /\ a.next = IF all THEN FirstPage ELSE encodeAdminCursor(m[last])
<1> DEFINE M == Matching(l, kiosks, f)
           wanted == {r \in M : keysetWhere(l, cursor, r)}
           t == [i \in 1..(n - k) |-> m[k + i]]
           x == Fetched(l, kiosks, f, cursor)
<1>1. /\ n \in Nat /\ k \in Nat /\ m \in [1..n -> M] /\ \A r \in M : \E i \in 1..n : m[i] = r
      /\ \A i, j \in 1..n : i < j => Before(l, m[i], m[j])
      /\ PageSize \in Nat \ {0}
  BY ReadsAssumption DEF Enumerates
<1>2. M \subseteq RowRecords BY MatchingIsVisible DEF Table
<1>3. \A i \in 1..(n - k) : k + i \in 1..n BY <1>1
<1> HIDE DEF M
<1>4. k # 0 => cursor # FirstPage /\ \A r : keysetWhere(l, cursor, r) <=> Before(l, m[k], r)
  <2> SUFFICES ASSUME k # 0
               PROVE  cursor # FirstPage /\ \A r : keysetWhere(l, cursor, r) <=> Before(l, m[k], r)
    OBVIOUS
  <2>1. m[k] \in RowRecords BY <1>1, <1>2
  <2>2. m[k].at \in 0..MaxReadTime /\ cursor.at = m[k].at /\ cursor.id = m[k].id
    BY <2>1 DEF RowRecords, encodeAdminCursor
  <2>3. cursor # FirstPage BY <2>2, ReadsAssumption DEF FirstPage
  <2> QED BY <2>2, <2>3 DEF keysetWhere, Before
<1>5. Enumerates(l, t, n - k, wanted)
  <2>1. \A i \in 1..(n - k) : m[k + i] \in wanted
    <3> TAKE i \in 1..(n - k)
    <3>1. k + i \in 1..n /\ m[k + i] \in M BY <1>1, <1>3
    <3>2. CASE k = 0 BY <3>1, <3>2 DEF keysetWhere
    <3>3. CASE k # 0
      <4>1. k \in 1..n /\ k < k + i BY <1>1, <3>3
      <4>2. Before(l, m[k], m[k + i]) BY <1>1, <3>1, <4>1
      <4> QED BY <1>4, <3>1, <3>3, <4>2
    <3> QED BY <3>2, <3>3
  <2>2. t \in [1..(n - k) -> wanted]
    <3> HIDE DEF wanted
    <3> QED BY <2>1
  <2>3. ASSUME NEW r \in wanted PROVE \E i \in 1..(n - k) : t[i] = r
    <3>1. PICK j \in 1..n : m[j] = r BY <1>1
    <3>2. j > k
      <4>1. CASE k = 0 BY <4>1
      <4>2. CASE k # 0
        <5>1. Before(l, m[k], m[j]) /\ k \in 1..n BY <1>1, <1>4, <3>1, <4>2
        <5>2. m[k] \in RowRecords /\ m[j] \in RowRecords BY <1>1, <1>2, <5>1
        <5>3. j # k /\ ~(j < k) BY <1>1, <5>1, <5>2, BeforeIsAnOrder
        <5> QED BY <1>1, <5>3
      <4> QED BY <4>1, <4>2
    <3>3. j - k \in 1..(n - k) /\ k + (j - k) = j BY <1>1, <3>2
    <3> QED BY <3>1, <3>3
  <2>4. ASSUME NEW i \in 1..(n - k), NEW j \in 1..(n - k), i < j PROVE Before(l, t[i], t[j])
    <3>1. k + i < k + j BY <1>1, <2>4
    <3> QED BY <1>1, <1>3, <3>1
  <2>5. n - k \in Nat BY <1>1
  <2> HIDE DEF t, wanted
  <2> QED BY <2>2, <2>3, <2>4, <2>5 DEF Enumerates
<1> DEFINE c == n - k
           all == c <= PageSize
           shown == IF all THEN c ELSE PageSize
<1>6. /\ c \in Nat /\ shown \in 0..c
      /\ PageOf(x) \in Seq(RowRecords) /\ Len(PageOf(x)) = shown
      /\ \A i \in 1..shown : PageOf(x)[i] = t[i]
      /\ nextCursorFrom(x) = IF all THEN FirstPage ELSE encodeAdminCursor(t[PageSize])
  <2>1. Enumerates(l, t, c, Beyond(l, kiosks, f, cursor)) BY <1>5 DEF M, Beyond
  <2> HIDE DEF c, t, M, wanted
  <2> QED BY <2>1, FetchedIsTheBeginning DEF x
<1> DEFINE a == Answer(l, kiosks, [filter |-> f, cursor |-> cursor])
<1>7. a.items = PageOf(x) /\ a.next = nextCursorFrom(x) BY DEF Answer
<1> HIDE DEF a, x
<1> DEFINE last == IF all THEN n ELSE k + PageSize
<1>8. last \in k..n /\ last - k = shown /\ (all \/ k < last) BY <1>1
<1>9. \A i \in 1..(last - k) : a.items[i] = m[k + i]
  <2> TAKE i \in 1..(last - k)
  <2>1. i \in 1..shown /\ i \in 1..(n - k) BY <1>1, <1>6, <1>8
  <2>2. t[i] = m[k + i] BY <2>1
  <2> HIDE DEF shown, t, last
  <2> QED BY <1>6, <1>7, <2>1, <2>2
<1>10. a.next = IF all THEN FirstPage ELSE encodeAdminCursor(m[last])
  <2>1. CASE all BY <1>6, <1>7, <2>1
  <2>2. CASE ~all
    <3>1. PageSize \in 1..(n - k) /\ last = k + PageSize BY <1>1, <2>2
    <3>2. t[PageSize] = m[last] BY <3>1
    <3> QED BY <1>6, <1>7, <2>2, <3>2
  <2> QED BY <2>1, <2>2
<1>11. a.items \in Seq(RowRecords) /\ Len(a.items) = last - k
  <2> HIDE DEF shown, last
  <2> QED BY <1>6, <1>7, <1>8
<1> HIDE DEF last
<1> QED BY <1>1, <1>8, <1>9, <1>10, <1>11 DEF a, last

\* Following the cursors from the first page on shows every row once, in order.
LEMMA WalkShowsAll == ASSUME Table(rows), panel.list \in Lists PROVE EveryRowOnce
<1> DEFINE l == panel.list
           kiosks == panel.scope
           f == panel.filter
           M == Matching(l, kiosks, f)
           n == Cardinality(M)
           N == Cardinality(rows)
           page(c) == Answer(l, kiosks, [filter |-> f, cursor |-> c])
           Step(g, i) == IF i = 0 THEN <<page(FirstPage).items, page(FirstPage).next>>
                         ELSE IF g[i - 1][2] = FirstPage THEN g[i - 1]
                         ELSE <<g[i - 1][1] \o page(g[i - 1][2]).items, page(g[i - 1][2]).next>>
           step == CHOOSE g : g = [i \in 0..N |-> Step(g, i)]
<1>1. Table(M) /\ M \subseteq rows /\ \A r \in M : r.kiosk \in Visible(l, kiosks)
  BY MatchingIsVisible
<1>2. n \in Nat /\ N \in Nat /\ n <= N
  BY <1>1, FS_CardinalityType, FS_Subset DEF Table
<1>3. PICK m : Enumerates(l, m, n, M) BY <1>1, SomeOrder
<1>4. /\ m \in [1..n -> M] /\ \A r \in M : \E i \in 1..n : m[i] = r
      /\ \A i, j \in 1..n : i < j => Before(l, m[i], m[j])
  BY <1>3 DEF Enumerates
<1> DEFINE beyond(k) == IF k = 0 THEN FirstPage ELSE encodeAdminCursor(m[k])
           \* w is the first k rows, with the cursor that goes on from there.
           Shows(w, k) == /\ w[1] \in Seq(RowRecords) /\ Len(w[1]) = k
                          /\ \A i \in 1..k : w[1][i] = m[i]
                          /\ w[2] = IF k = n THEN FirstPage ELSE beyond(k)
<1>5. \A k \in 1..n : beyond(k) # FirstPage
  <2> TAKE k \in 1..n
  <2>1. m[k] \in RowRecords BY <1>1, <1>4 DEF Table
  <2>2. m[k].at \in 0..MaxReadTime BY <2>1 DEF RowRecords
  <2>3. beyond(k).at = m[k].at BY <1>2 DEF encodeAdminCursor
  <2> HIDE DEF beyond
  <2> QED BY <2>2, <2>3, ReadsAssumption DEF FirstPage
<1>6. ASSUME NEW k \in 0..n, k < n \/ k = 0
      PROVE  \E j \in k..n :  /\ j = n \/ k < j
                              /\ page(beyond(k)).items \in Seq(RowRecords)
                              /\ Len(page(beyond(k)).items) = j - k
                              /\ \A i \in 1..(j - k) : page(beyond(k)).items[i] = m[k + i]
                              /\ page(beyond(k)).next = IF j = n THEN FirstPage ELSE beyond(j)
  <2> DEFINE all == n - k <= PageSize
             j == IF all THEN n ELSE k + PageSize
             a == page(beyond(k))
  <2>1. /\ j \in k..n /\ (all \/ k < j)
        /\ a.items \in Seq(RowRecords) /\ Len(a.items) = j - k
        /\ \A i \in 1..(j - k) : a.items[i] = m[k + i]
        /\ a.next = IF all THEN FirstPage ELSE encodeAdminCursor(m[j])
    BY <1>3, PageContinues
  <2>2. all <=> j = n BY <1>2, ReadsAssumption
  <2>3. ~all => j # 0 BY <1>2, <2>1
  <2> HIDE DEF j, all, a
  <2> QED BY <2>1, <2>2, <2>3 DEF a
<1> HIDE DEF M, N, n, l, kiosks, f, page
<1>7. \E g : g = [i \in 0..N |-> Step(g, i)]
  <2> DEFINE Walks(k) == \E g : g = [i \in 0..k |-> Step(g, i)]
             T == {k \in Nat : ~Walks(k)}
  <2>1. SUFFICES ASSUME ~Walks(N) PROVE FALSE OBVIOUS
  <2>2. T \in SUBSET Nat /\ T # {} BY <1>2, <2>1
  <2>3. PICK x \in T : \A y \in T : x <= y BY <2>2, Smallest
  <2>4. \A g : Step(g, 0) = <<page(FirstPage).items, page(FirstPage).next>> OBVIOUS
  <2>5. \A g, h, i : i # 0 /\ g[i - 1] = h[i - 1] => Step(g, i) = Step(h, i) OBVIOUS
  <2> HIDE DEF Step
  <2>6. CASE x = 0
    <3> DEFINE g == [i \in 0..0 |-> <<page(FirstPage).items, page(FirstPage).next>>]
    <3>1. \A i \in 0..0 : Step(g, i) = <<page(FirstPage).items, page(FirstPage).next>> BY <2>4
    <3>2. g = [i \in 0..0 |-> Step(g, i)] BY <3>1
    <3> QED BY <2>3, <2>6, <3>2
  <2>7. CASE x # 0
    <3>1. x \in Nat /\ x - 1 \in Nat /\ x - 1 \notin T BY <2>3, <2>7
    <3>2. PICK g : g = [i \in 0..(x - 1) |-> Step(g, i)] BY <3>1
    <3> DEFINE h == [i \in 0..x |-> IF i = x THEN Step(g, x) ELSE g[i]]
    <3>3. h[x] = Step(g, x) /\ \A i \in 0..(x - 1) : i \in 0..x /\ h[i] = g[i] BY <3>1
    <3>4. h = [i \in 0..x |-> h[i]] OBVIOUS
    <3> HIDE DEF h
    <3>5. \A i \in 0..x : h[i] = Step(h, i)
      <4> TAKE i \in 0..x
      <4>1. CASE i = x
        <5>1. h[x - 1] = g[x - 1] BY <3>1, <3>3
        <5> QED BY <2>5, <2>7, <3>3, <4>1, <5>1
      <4>2. CASE i # x /\ i # 0
        <5>1. i \in 0..(x - 1) /\ i - 1 \in 0..(x - 1) BY <3>1, <4>2
        <5>2. h[i - 1] = g[i - 1] /\ h[i] = g[i] /\ g[i] = Step(g, i) BY <3>2, <3>3, <5>1
        <5> QED BY <2>5, <4>2, <5>2
      <4>3. CASE i # x /\ i = 0
        <5>1. i \in 0..(x - 1) BY <3>1, <4>3
        <5>2. h[i] = g[i] /\ g[i] = Step(g, i) BY <3>2, <3>3, <5>1
        <5> QED BY <2>4, <4>3, <5>2
      <4> QED BY <4>1, <4>2, <4>3
    <3>6. h = [i \in 0..x |-> Step(h, i)] BY <3>4, <3>5, Zenon
    <3> QED BY <2>3, <3>6
  <2> QED BY <2>6, <2>7
<1>8. step = [i \in 0..N |-> Step(step, i)] BY <1>7
<1> HIDE DEF step
<1>9. \A i \in 0..N : step[i] = Step(step, i) BY <1>8
\* After i + 1 answers that many rows at least were shown, or all.
<1>10. ASSUME NEW i \in 0..N PROVE \E k \in 0..n : Shows(step[i], k) /\ (k = n \/ i < k)
  <2> DEFINE Good(y) == \E k \in 0..n : Shows(step[y], k) /\ (k = n \/ y < k)
             T == {y \in 0..N : ~Good(y)}
  <2>1. SUFFICES ASSUME ~Good(i) PROVE FALSE OBVIOUS
  <2>2. T \in SUBSET Nat /\ T # {} BY <1>2, <2>1
  <2>3. PICK x \in T : \A y \in T : x <= y BY <2>2, Smallest
  <2>4. x \in 0..N /\ ~Good(x) BY <2>3
  <2> HIDE DEF T
  <2>5. CASE x = 0
    <3>0. 0 \in 0..n /\ (0 < n \/ 0 = 0) BY <1>2
    <3>1. PICK j \in 0..n :
             /\ j = n \/ 0 < j
             /\ page(beyond(0)).items \in Seq(RowRecords)
             /\ Len(page(beyond(0)).items) = j - 0
             /\ \A y \in 1..(j - 0) : page(beyond(0)).items[y] = m[0 + y]
             /\ page(beyond(0)).next = IF j = n THEN FirstPage ELSE beyond(j)
      BY <1>6, <3>0, Zenon
    <3>2. beyond(0) = FirstPage OBVIOUS
    <3>3. step[0] = <<page(FirstPage).items, page(FirstPage).next>> BY <1>9, <2>4, <2>5
    <3>4. step[0][1] = page(beyond(0)).items /\ step[0][2] = page(beyond(0)).next BY <3>2, <3>3
    <3> HIDE DEF beyond
    <3>5. Shows(step[0], j) BY <1>2, <3>1, <3>4
    <3> QED BY <2>4, <2>5, <3>1, <3>5
  <2>6. CASE x # 0
    <3>1. x - 1 \in 0..N /\ Good(x - 1) BY <1>2, <2>3, <2>4, <2>6 DEF T
    <3> DEFINE w == step[x - 1]
    <3>2. PICK k \in 0..n : Shows(w, k) /\ (k = n \/ x - 1 < k) BY <3>1
    <3>3. step[x] = IF w[2] = FirstPage THEN w ELSE <<w[1] \o page(w[2]).items, page(w[2]).next>>
      BY <1>9, <2>4, <2>6
    <3> HIDE DEF w
    <3>4. CASE k = n
      <4>1. step[x] = w BY <3>2, <3>3, <3>4
      <4>2. Shows(step[x], n) BY <3>2, <3>4, <4>1
      <4> QED BY <1>2, <2>4, <4>2
    <3>5. CASE k # n
      <4>1. k \in 1..n /\ k < n /\ x - 1 < k BY <1>2, <2>4, <2>6, <3>1, <3>2, <3>5
      <4>2. w[2] = beyond(k) /\ w[2] # FirstPage /\ w[1] \in Seq(RowRecords) /\ Len(w[1]) = k
            /\ \A y \in 1..k : w[1][y] = m[y]
        BY <1>5, <3>2, <3>5, <4>1
      <4>3. PICK j \in k..n :
              /\ j = n \/ k < j
              /\ page(beyond(k)).items \in Seq(RowRecords)
              /\ Len(page(beyond(k)).items) = j - k
              /\ \A y \in 1..(j - k) : page(beyond(k)).items[y] = m[k + y]
              /\ page(beyond(k)).next = IF j = n THEN FirstPage ELSE beyond(j)
        BY <1>2, <1>6, <4>1
      <4> HIDE DEF beyond
      <4> DEFINE items == page(beyond(k)).items
                 x1 == w[1] \o items
      <4>0. step[x] = <<x1, page(beyond(k)).next>> BY <3>3, <4>2
      <4>4. step[x][1] = x1 /\ step[x][2] = page(beyond(k)).next
        <5> HIDE DEF x1
        <5> QED BY <4>0
      <4> HIDE DEF items
      <4>5. x1 \in Seq(RowRecords) /\ Len(x1) = k + (j - k)
            /\ \A y \in 1..(k + (j - k)) : x1[y] = IF y <= k THEN w[1][y] ELSE items[y - k]
        <5> DEFINE v == w[1]
        <5>1. items \in Seq(RowRecords) /\ Len(items) = j - k BY <4>3 DEF items
        <5>2. v \in Seq(RowRecords) /\ Len(v) = k BY <4>2
        <5> HIDE DEF v
        <5>3. /\ v \o items \in Seq(RowRecords) /\ Len(v \o items) = Len(v) + Len(items)
              /\ \A y \in 1..(Len(v) + Len(items)) :
                   (v \o items)[y] = IF y <= Len(v) THEN v[y] ELSE items[y - Len(v)]
          BY <5>1, <5>2, ConcatProperties
        <5> QED BY <5>1, <5>2, <5>3 DEF v
      <4>6. k + (j - k) = j /\ j \in 0..n BY <1>2, <4>1
      <4> HIDE DEF x1
      <4>7. \A y \in 1..j : x1[y] = m[y]
        <5> TAKE y \in 1..j
        <5>1. CASE y <= k
          <6>1. y \in 1..k BY <4>1, <5>1
          <6> QED BY <4>2, <4>5, <4>6, <5>1, <6>1
        <5>2. CASE ~(y <= k)
          <6>1. y - k \in 1..(j - k) /\ k + (y - k) = y BY <4>1, <4>6, <5>2
          <6>2. items[y - k] = m[y] BY <4>3, <6>1 DEF items
          <6> QED BY <4>5, <4>6, <5>2, <6>2
        <5> QED BY <5>1, <5>2
      <4>8. Shows(step[x], j) BY <4>3, <4>4, <4>5, <4>6, <4>7
      <4>9. j = n \/ x < j BY <1>2, <2>4, <4>1, <4>3
      <4> QED BY <2>4, <4>6, <4>8, <4>9
    <3> QED BY <3>4, <3>5
  <2> QED BY <2>5, <2>6
<1> DEFINE walk == step[N]
<1>11. Shows(walk, n)
  <2>1. PICK k \in 0..n : Shows(step[N], k) /\ (k = n \/ N < k) BY <1>2, <1>10
  <2> QED BY <1>2, <2>1
<1> HIDE DEF walk
<1>12. walk[2] = FirstPage /\ DOMAIN walk[1] = 1..n /\ \A i \in 1..n : walk[1][i] = m[i]
  BY <1>11, LenProperties
<1>13. ToSet(walk[1]) = M BY <1>4, <1>12 DEF ToSet
<1>14. \A i, j \in DOMAIN walk[1] : i < j => Before(l, walk[1][i], walk[1][j]) BY <1>4, <1>12
<1>15. \A i \in DOMAIN walk[1] : l = "audit" \/ findFirst(kiosks, walk[1][i].id) # {}
  <2> SUFFICES ASSUME NEW i \in 1..n, l # "audit" PROVE findFirst(kiosks, m[i].id) # {}
    BY <1>12
  <2>1. m[i] \in rows /\ m[i].kiosk \in kiosks BY <1>1, <1>4 DEF Visible
  <2>2. m[i] \in findFirst(kiosks, m[i].id) BY <2>1 DEF findFirst, scopedKioskIdFilter
  <2> QED BY <2>2
<1>16. EveryRowOnce <=>
         /\ walk[2] = FirstPage /\ ToSet(walk[1]) = M
         /\ \A i, j \in DOMAIN walk[1] : i < j => Before(l, walk[1][i], walk[1][j])
         /\ \A i \in DOMAIN walk[1] : l = "audit" \/ findFirst(kiosks, walk[1][i].id) # {}
  BY DEF EveryRowOnce, walk, step, Step, page, l, kiosks, f, N, M
<1> QED BY <1>12, <1>13, <1>14, <1>15, <1>16

-----------------------------------------------------------------------------
(* The steps *)

LEMMA ReadsSteps ==
  ASSUME ReadsNext
  PROVE  \/ \E i \in RowIds, t \in Nat, k \in Unrestricted, s \in RowStates : InsertRow(i, t, k, s)
         \/ \E r \in rows : FinishRow(r)
         \/ ReadClock
         \/ \E f \in Filters : ChooseFilter(f)
         \/ \E n \in Nat : Paginate(n)
         \/ Refresh \/ Reload
         \/ \E q \in loads : Serve(q) \/ Arrive(q)
         \/ \E c \in Callers :
              (\E s \in SUBSET Unrestricted : overview(c, s)) \/ computeOverview(c) \/ overviewComputed(c)
<1>1. \A i, t, k, s : InsertRow(i, t, k, s) => t \in Nat BY DEF InsertRow
<1>2. CASE ListsNext BY <1>1, <1>2, Zenon DEF ListsNext
<1>3. CASE PanelNext
  <2>1. \A s \in {Anything, "problem"} : [NoFilter EXCEPT !.status = s] \in Filters
    BY DEF NoFilter, Filters, RowStates
  <2>2. \A n \in 1..(Cardinality(RowIds) + 1) : n \in Nat OBVIOUS
  <2> QED BY <1>1, <1>3, <2>1, <2>2, Zenon DEF PanelNext
<1>4. CASE OverviewNext
  <2>1. Min(RowIds) \in RowIds
    <3>1. RowIds \in SUBSET Nat /\ RowIds # {} BY ReadsAssumption
    <3>2. \E x \in RowIds : \A y \in RowIds : x <= y BY <3>1, Smallest
    <3> QED BY <3>2 DEF Min
  <2>2. \A s \in {Unrestricted} \cup {{k} : k \in ReadKiosks} : s \in SUBSET Unrestricted
    BY DEF Unrestricted
  <2> QED BY <1>1, <1>4, <2>1, <2>2, Zenon DEF OverviewNext
<1> QED BY <1>2, <1>3, <1>4 DEF ReadsNext

-----------------------------------------------------------------------------
(* The table *)

RowsInv == Table(rows) /\ readTime \in 0..MaxReadTime

LEMMA RowsKept == ASSUME RowsInv, ReadsNext PROVE RowsInv'
<1>1. MaxReadTime \in Nat BY ReadsAssumption
<1>2. ASSUME NEW i \in RowIds, NEW t \in Nat, NEW k \in Unrestricted, NEW s \in RowStates,
             InsertRow(i, t, k, s)
      PROVE  RowsInv'
  <2> DEFINE r == Row(i, t, k, s)
  <2>1. /\ \A q \in rows : q.id # i
        /\ t \in {readTime - 1, readTime} /\ rows' = rows \cup {r} /\ readTime' = readTime
    BY <1>2 DEF InsertRow
  <2>2. t \in 0..MaxReadTime BY <1>1, <2>1 DEF RowsInv
  <2>3. r \in RowRecords /\ r.id = i BY <2>2 DEF Row, RowRecords
  <2> HIDE DEF r
  <2>4. IsFiniteSet(rows \cup {r}) BY FS_AddElement DEF RowsInv, Table
  <2> QED BY <2>1, <2>3, <2>4 DEF RowsInv, Table
<1>3. ASSUME NEW r \in rows, FinishRow(r) PROVE RowsInv'
  <2> DEFINE d == [r EXCEPT !.status = "done"]
  <2>1. rows' = (rows \ {r}) \cup {d} /\ readTime' = readTime BY <1>3 DEF FinishRow
  <2>2. r \in RowRecords BY DEF RowsInv, Table
  <2>3. d \in RowRecords /\ d.id = r.id BY <2>2 DEF RowRecords, RowStates
  <2> HIDE DEF d
  <2>4. IsFiniteSet((rows \ {r}) \cup {d}) BY FS_AddElement, FS_RemoveElement DEF RowsInv, Table
  <2> QED BY <2>1, <2>3, <2>4 DEF RowsInv, Table
<1>4. CASE ReadClock BY <1>1, <1>4 DEF ReadClock, RowsInv, Table
<1>5. CASE UNCHANGED <<rows, readTime>> BY <1>5 DEF RowsInv, Table
<1>6. \A f : ChooseFilter(f) \/ Paginate(f) \/ Refresh \/ Reload \/ Serve(f) \/ Arrive(f)
             => UNCHANGED <<rows, readTime>>
  BY Zenon DEF ChooseFilter, Paginate, Refresh, Reload, Serve, Arrive
<1>7. \A c, s : overview(c, s) \/ computeOverview(c) \/ overviewComputed(c)
                => UNCHANGED <<rows, readTime>>
  BY Zenon DEF overview, computeOverview, overviewComputed
<1> QED BY <1>2, <1>3, <1>4, <1>5, <1>6, <1>7, ReadsSteps, Zenon

-----------------------------------------------------------------------------
(* The panel *)

Queries == [filter : Filters, cursor : Cursors]
Failed == [kind |-> "error"]
Answers == Pages \cup {NoAnswer, Failed}
LoadRecords == [query : Queries, cancelled : BOOLEAN, answer : Answers]
Panels == [list : Lists, scope : SUBSET Unrestricted, filter : Filters, trail : Seq(Cursors),
           page : Nat, data : Pages \cup {NoAnswer}, of : Queries \cup {NoAnswer},
           error : BOOLEAN, loading : BOOLEAN]

\* The rows of an answer are rows its caller may see.
Seen(p, a) == a # NoAnswer /\ a # Failed =>
  \A i \in DOMAIN a.items : a.items[i].kiosk \in Visible(p.list, p.scope)

OnPage(p) == p \in Panels /\ p.page \in 1..Len(p.trail)

\* A load that was not cancelled asks for what the controls show.
PanelInv ==
  /\ OnPage(panel) /\ Seen(panel, panel.data)
  /\ ~panel.loading /\ ~panel.error => panel.of = Query(panel)
  /\ loads \subseteq LoadRecords /\ IsFiniteSet(loads) /\ Cardinality(loads) <= MaxLoadsOut
  /\ \A q \in loads : Seen(panel, q.answer) /\ (~q.cancelled => q.query = Query(panel))

LEMMA QueryIsTyped ==
  ASSUME NEW p, OnPage(p)
  PROVE  Query(p) \in Queries
<1>1. p.filter \in Filters /\ p.trail \in Seq(Cursors) /\ p.page \in 1..Len(p.trail)
  BY DEF OnPage, Panels
<1>2. p.trail[p.page] \in Cursors BY <1>1
<1> QED BY <1>1, <1>2 DEF Query, Queries

\* One more load among at most as many as there were.
LEMMA OneMoreLoad ==
  ASSUME NEW S, NEW T, NEW f \in Surjection(S, T), IsFiniteSet(S), Cardinality(S) < MaxLoadsOut, NEW x
  PROVE  IsFiniteSet(T \cup {x}) /\ Cardinality(T \cup {x}) <= MaxLoadsOut
<1>1. IsFiniteSet(T) /\ Cardinality(T) <= Cardinality(S) BY FS_Surjection
<1>2. Cardinality(S) \in Nat /\ Cardinality(T) \in Nat /\ MaxLoadsOut \in Nat
  BY <1>1, FS_CardinalityType, ReadsAssumption
<1>3. IsFiniteSet(T \cup {x}) /\ Cardinality(T \cup {x}) \in {Cardinality(T), Cardinality(T) + 1}
  BY <1>1, FS_AddElement
<1> QED BY <1>1, <1>2, <1>3

\* useAdminData's effect cancels what was asked before.
LEMMA EffectKeeps ==
  ASSUME PanelInv, Room, NEW p, OnPage(p), p.list = panel.list, p.scope = panel.scope,
         p.data = panel.data, Effect(p)
  PROVE  PanelInv'
<1> DEFINE Cancelled(q) == [q EXCEPT !.cancelled = TRUE]
           T == {Cancelled(q) : q \in loads}
           new == [query |-> Query(p), cancelled |-> FALSE, answer |-> NoAnswer]
<1>1. panel' = [p EXCEPT !.loading = TRUE] /\ loads' = T \cup {new} BY DEF Effect
<1>2. /\ panel' \in Panels /\ panel'.list = p.list /\ panel'.scope = p.scope /\ panel'.filter = p.filter
      /\ panel'.trail = p.trail /\ panel'.page = p.page /\ panel'.data = p.data /\ panel'.loading
  BY <1>1 DEF OnPage, Panels
<1>3. OnPage(panel') BY <1>2 DEF OnPage
<1>4. Query(panel') = Query(p) BY <1>2 DEF Query
<1>5. \A a : Seen(panel', a) <=> Seen(panel, a) BY <1>2 DEF Seen
<1>6. new \in LoadRecords /\ new.query = Query(p) /\ new.answer = NoAnswer
  BY QueryIsTyped DEF LoadRecords, Answers
<1> HIDE DEF new
<1>7. ASSUME NEW q \in loads
      PROVE  Cancelled(q) \in LoadRecords /\ Cancelled(q).cancelled /\ Cancelled(q).answer = q.answer
  <2>1. q \in LoadRecords BY DEF PanelInv
  <2> QED BY <2>1 DEF LoadRecords
<1> DEFINE f == [q \in loads |-> Cancelled(q)]
<1>8. f \in Surjection(loads, T)
  <2> HIDE DEF Cancelled
  <2> QED BY DEF Surjection
<1>9. IsFiniteSet(loads') /\ Cardinality(loads') <= MaxLoadsOut
  <2> HIDE DEF T, f
  <2> QED BY <1>1, <1>8, OneMoreLoad DEF PanelInv, Room
<1> HIDE DEF Cancelled, f
<1>10. ASSUME NEW q \in loads'
       PROVE  q \in LoadRecords /\ Seen(panel', q.answer) /\ (~q.cancelled => q.query = Query(panel'))
  <2>1. CASE q = new
    <3>1. Seen(panel', NoAnswer) BY DEF Seen
    <3> QED BY <1>4, <1>6, <2>1, <3>1
  <2>2. ASSUME NEW o \in loads, q = Cancelled(o)
        PROVE  q \in LoadRecords /\ Seen(panel', q.answer) /\ (~q.cancelled => q.query = Query(panel'))
    <3>1. Seen(panel, o.answer) BY DEF PanelInv
    <3> QED BY <1>5, <1>7, <2>2, <3>1
  <2> QED BY <1>1, <2>1, <2>2
<1>11. Seen(panel', panel'.data) BY <1>2, <1>5 DEF PanelInv
<1> QED BY <1>2, <1>3, <1>9, <1>10, <1>11 DEF PanelInv

\* The effect runs when the query changes.
LEMMA RenderedKeeps ==
  ASSUME PanelInv, Room, NEW p, OnPage(p), p.list = panel.list, p.scope = panel.scope,
         p.data = panel.data, p.of = panel.of, p.error = panel.error, p.loading = panel.loading,
         Rendered(p)
  PROVE  PanelInv'
<1>1. CASE Query(p) # Query(panel)
  <2>1. Effect(p) BY <1>1 DEF Rendered
  <2> QED BY <2>1, EffectKeeps
<1>2. CASE Query(p) = Query(panel)
  <2>1. panel' = p /\ loads' = loads BY <1>2 DEF Rendered
  <2>2. \A a : Seen(p, a) <=> Seen(panel, a) BY DEF Seen
  <2> QED BY <1>2, <2>1, <2>2 DEF PanelInv
<1> QED BY <1>1, <1>2

LEMMA ChooseFilterKeeps ==
  ASSUME PanelInv, NEW f \in Filters, ChooseFilter(f) PROVE PanelInv'
<1> DEFINE p == [resetTrail(panel) EXCEPT !.filter = f]
<1>1. Room /\ Rendered(p) BY DEF ChooseFilter
<1>2. panel \in Panels BY DEF PanelInv, OnPage
<1>3. <<FirstPage>> \in Seq(Cursors) /\ Len(<<FirstPage>>) = 1
  <2>1. FirstPage \in Cursors BY DEF FirstPage, Cursors
  <2> HIDE DEF FirstPage
  <2> QED BY <2>1
<1>4. /\ p \in Panels /\ p.trail = <<FirstPage>> /\ p.page = 1 /\ p.list = panel.list
      /\ p.scope = panel.scope /\ p.data = panel.data /\ p.of = panel.of /\ p.error = panel.error
      /\ p.loading = panel.loading
  BY <1>2, <1>3 DEF resetTrail, Panels
<1> HIDE DEF p
<1>5. OnPage(p) BY <1>3, <1>4 DEF OnPage
<1> QED BY <1>1, <1>4, <1>5, RenderedKeeps

LEMMA PaginateKeeps ==
  ASSUME PanelInv, NEW n \in Nat, Paginate(n) PROVE PanelInv'
<1> DEFINE p == go(n)
           t == panel.trail
<1>1. Room /\ Rendered(p) /\ (n \in 1..Len(t) \/ n = panel.page + 1)
  BY DEF Paginate
<1>2. panel \in Panels /\ panel.page \in 1..Len(t) /\ t \in Seq(Cursors) BY DEF PanelInv, OnPage, Panels
<1>3. n # 0 BY <1>1, <1>2
<1>4. InHand \in Cursors
  <2>1. FirstPage \in Cursors BY DEF FirstPage, Cursors
  <2>2. panel.data # NoAnswer => panel.data.next \in Cursors BY <1>2 DEF Panels, Pages
  <2> QED BY <2>1, <2>2 DEF InHand
<1>5. \/ p = panel
      \/ n <= Len(t) /\ p = [panel EXCEPT !.page = n]
      \/ n = Len(t) + 1 /\ p = [panel EXCEPT !.page = n, !.trail = Append(t, InHand)]
  BY DEF go
<1>6. Append(t, InHand) \in Seq(Cursors) /\ Len(Append(t, InHand)) = Len(t) + 1
  BY <1>2, <1>4, AppendProperties
<1> HIDE DEF p, InHand
<1>7. OnPage(p)
  <2>1. CASE p = panel BY <2>1 DEF PanelInv
  <2>2. CASE n <= Len(t) /\ p = [panel EXCEPT !.page = n]
    <3>1. p \in Panels /\ p.page = n /\ p.trail = t BY <1>2, <2>2 DEF Panels
    <3> QED BY <1>2, <1>3, <2>2, <3>1 DEF OnPage
  <2>3. CASE n = Len(t) + 1 /\ p = [panel EXCEPT !.page = n, !.trail = Append(t, InHand)]
    <3>1. p \in Panels /\ p.page = n /\ p.trail = Append(t, InHand) BY <1>2, <1>6, <2>3 DEF Panels
    <3> QED BY <1>2, <1>3, <1>6, <2>3, <3>1 DEF OnPage
  <2> QED BY <1>5, <2>1, <2>2, <2>3
<1>8. /\ p.list = panel.list /\ p.scope = panel.scope /\ p.data = panel.data /\ p.of = panel.of
      /\ p.error = panel.error /\ p.loading = panel.loading
  BY <1>2, <1>5 DEF Panels
<1> QED BY <1>1, <1>7, <1>8, RenderedKeeps

LEMMA RefreshKeeps == ASSUME PanelInv, Refresh PROVE PanelInv'
<1> DEFINE new == [query |-> Query(panel), cancelled |-> FALSE, answer |-> NoAnswer]
<1>1. Room /\ loads' = loads \cup {new} /\ panel' = panel BY DEF Refresh
<1>2. new \in LoadRecords /\ new.query = Query(panel) /\ new.answer = NoAnswer
  BY QueryIsTyped DEF LoadRecords, Answers, PanelInv
<1> HIDE DEF new
<1> DEFINE f == [q \in loads |-> q]
<1>3. f \in Surjection(loads, loads) BY DEF Surjection
<1> HIDE DEF f
<1>4. IsFiniteSet(loads') /\ Cardinality(loads') <= MaxLoadsOut
  BY <1>1, <1>3, OneMoreLoad DEF PanelInv, Room
<1>5. Seen(panel, NoAnswer) BY DEF Seen
<1> QED BY <1>1, <1>2, <1>4, <1>5 DEF PanelInv

LEMMA ServeKeeps == ASSUME RowsInv, PanelInv, NEW q \in loads, Serve(q) PROVE PanelInv'
<1>1. PICK a \in {Answer(panel.list, panel.scope, q.query), Failed} :
        loads' = (loads \ {q}) \cup {[q EXCEPT !.answer = a]}
  BY DEF Serve, Failed
<1>2. panel' = panel BY DEF Serve
<1> DEFINE new == [q EXCEPT !.answer = a]
<1>3. a \in Answers /\ Seen(panel, a)
  <2>1. panel.list \in Lists BY DEF PanelInv, OnPage, Panels
  <2>2. CASE a = Failed BY <2>2 DEF Answers, Seen
  <2>3. CASE a = Answer(panel.list, panel.scope, q.query)
    BY <2>1, <2>3, AnswerIsVisible DEF RowsInv, Answers, Seen
  <2> QED BY <2>2, <2>3
<1>4. q \in LoadRecords BY DEF PanelInv
<1>5. /\ new \in LoadRecords /\ new.answer = a /\ new.query = q.query
      /\ new.cancelled = q.cancelled
  BY <1>3, <1>4 DEF LoadRecords
<1> HIDE DEF new
<1>6. loads' = (loads \ {q}) \cup {new} BY <1>1 DEF new
<1>7. IsFiniteSet(loads') /\ Cardinality(loads') <= MaxLoadsOut
  <2>1. IsFiniteSet(loads) /\ Cardinality(loads) <= MaxLoadsOut /\ MaxLoadsOut \in Nat
    BY ReadsAssumption DEF PanelInv
  <2>2. IsFiniteSet(loads \ {q}) /\ Cardinality(loads \ {q}) = Cardinality(loads) - 1
    BY <2>1, FS_RemoveElement
  <2>3. /\ IsFiniteSet((loads \ {q}) \cup {new})
        /\ Cardinality((loads \ {q}) \cup {new}) \in {Cardinality(loads \ {q}), Cardinality(loads \ {q}) + 1}
    BY <2>2, FS_AddElement
  <2>4. Cardinality(loads) \in Nat BY <2>1, FS_CardinalityType
  <2> QED BY <1>6, <2>1, <2>2, <2>3, <2>4
<1> QED BY <1>2, <1>3, <1>5, <1>6, <1>7 DEF PanelInv

LEMMA ArriveKeeps == ASSUME PanelInv, NEW q \in loads, Arrive(q) PROVE PanelInv'
<1>1. q.answer # NoAnswer /\ panel' = Arrived(q) /\ loads' = loads \ {q} BY DEF Arrive
<1>2. q \in LoadRecords /\ panel \in Panels BY DEF PanelInv, OnPage
<1>3. q.answer = Failed \/ q.answer \in Pages BY <1>1, <1>2 DEF LoadRecords, Answers
<1>4. IsFiniteSet(loads') /\ Cardinality(loads') <= MaxLoadsOut
  <2>1. IsFiniteSet(loads) /\ Cardinality(loads) <= MaxLoadsOut /\ MaxLoadsOut \in Nat
    BY ReadsAssumption DEF PanelInv
  <2>2. IsFiniteSet(loads \ {q}) /\ Cardinality(loads \ {q}) = Cardinality(loads) - 1
    BY <2>1, FS_RemoveElement
  <2>3. Cardinality(loads) \in Nat BY <2>1, FS_CardinalityType
  <2> QED BY <1>1, <2>1, <2>2, <2>3
<1>5. CASE q.cancelled
  <2>1. panel' = panel BY <1>1, <1>5 DEF Arrived
  <2> QED BY <1>1, <1>4, <2>1 DEF PanelInv
<1>6. CASE ~q.cancelled /\ q.answer = Failed
  <2>1. panel' = [panel EXCEPT !.error = TRUE, !.loading = FALSE]
    BY <1>1, <1>6 DEF Arrived, Failed
  <2>2. /\ panel' \in Panels /\ panel'.list = panel.list /\ panel'.scope = panel.scope
        /\ panel'.filter = panel.filter /\ panel'.trail = panel.trail /\ panel'.page = panel.page
        /\ panel'.data = panel.data /\ panel'.error
    BY <1>2, <2>1 DEF Panels
  <2>3. OnPage(panel') BY <2>2 DEF PanelInv, OnPage
  <2>4. Query(panel') = Query(panel) /\ \A a : Seen(panel', a) <=> Seen(panel, a)
    BY <2>2 DEF Query, Seen
  <2> QED BY <1>1, <1>4, <2>2, <2>3, <2>4 DEF PanelInv
<1>7. CASE ~q.cancelled /\ q.answer \in Pages
  <2>1. q.answer.kind # "error" BY <1>7 DEF Pages
  <2>2. panel' = [panel EXCEPT !.data = q.answer, !.of = q.query, !.error = FALSE, !.loading = FALSE]
    BY <1>1, <1>7, <2>1 DEF Arrived
  <2>3. q.query \in Queries BY <1>2 DEF LoadRecords
  <2>4. /\ panel' \in Panels /\ panel'.list = panel.list /\ panel'.scope = panel.scope
        /\ panel'.filter = panel.filter /\ panel'.trail = panel.trail /\ panel'.page = panel.page
        /\ panel'.data = q.answer /\ panel'.of = q.query
    BY <1>2, <1>7, <2>2, <2>3 DEF Panels
  <2>5. OnPage(panel') BY <2>4 DEF PanelInv, OnPage
  <2>6. Query(panel') = Query(panel) /\ \A a : Seen(panel', a) <=> Seen(panel, a)
    BY <2>4 DEF Query, Seen
  <2>7. q.query = Query(panel) /\ Seen(panel, q.answer) BY <1>7 DEF PanelInv
  <2> QED BY <1>1, <1>4, <2>4, <2>5, <2>6, <2>7 DEF PanelInv
<1> QED BY <1>3, <1>5, <1>6, <1>7

LEMMA PanelKept == ASSUME RowsInv, PanelInv, ReadsNext PROVE PanelInv'
<1>1. CASE Reload
  <2>1. Room /\ Effect(panel) BY <1>1 DEF Reload
  <2> QED BY <2>1, EffectKeeps DEF PanelInv
<1>2. CASE UNCHANGED <<panel, loads>> BY <1>2 DEF PanelInv
<1>3. \A i, t, k, s : InsertRow(i, t, k, s) \/ FinishRow(i) \/ ReadClock => UNCHANGED <<panel, loads>>
  BY Zenon DEF InsertRow, FinishRow, ReadClock
<1>4. \A c, s : overview(c, s) \/ computeOverview(c) \/ overviewComputed(c)
                => UNCHANGED <<panel, loads>>
  BY Zenon DEF overview, computeOverview, overviewComputed
<1> QED BY <1>1, <1>2, <1>3, <1>4, ReadsSteps, ChooseFilterKeeps, PaginateKeeps, RefreshKeeps,
           ServeKeeps, ArriveKeeps, Zenon

-----------------------------------------------------------------------------
(* The overview *)

\* Readings of a scope that were taken at an instant or after it.
ReadingsSince(kiosks, at) ==
  {x \in [taken : Nat, counted : SUBSET RowRecords] :
     x.taken >= at /\ \A r \in x.counted : r.kiosk \in kiosks}

OverviewEntries ==
  {e \in [key : SUBSET Unrestricted, at : Nat, readings : Seq([taken : Nat, counted : SUBSET RowRecords])] :
     e.readings \in Seq(ReadingsSince(e.key, e.at))}

CallInv(a) ==
  /\ a.phase \in {"idle", "reading", "answered"}
  /\ a.phase # "idle" => /\ a.scope \in SUBSET Unrestricted /\ a.at \in Nat
                         /\ a.readings \in Seq(ReadingsSince(a.scope, a.at))
  /\ a.phase = "reading" => a.at <= readTime
  /\ a.phase = "answered" => a.given - a.at < OverviewTtl \/ a.given = a.at

OverviewInv ==
  /\ cache \in Seq(OverviewEntries) /\ Len(cache) <= MaxCachedOverviews
  /\ DOMAIN calls = Callers /\ calls = [c \in Callers |-> calls[c]]
  /\ \A c \in Callers : CallInv(calls[c])

LEMMA SeqMonotone == ASSUME NEW S, NEW T, S \subseteq T, NEW s \in Seq(S) PROVE s \in Seq(T)
<1>1. s \in [1..Len(s) -> S] /\ Len(s) \in Nat OBVIOUS
<1>2. s \in [1..Len(s) -> T] BY <1>1
<1> QED BY <1>1, <1>2

LEMMA OverviewKeeps ==
  ASSUME RowsInv, OverviewInv, NEW c \in Callers, NEW s \in SUBSET Unrestricted, overview(c, s)
  PROVE  OverviewInv'
<1> DEFINE fresh == {e \in Cached(scopeKey(s)) : readTime - e.at < OverviewTtl}
<1>1. cache' = cache /\ readTime' = readTime BY DEF overview
<1>2. \/ \E e \in fresh : calls' = [calls EXCEPT ![c] = Overview(s, e.at, e.readings, readTime)]
      \/ calls' = [calls EXCEPT ![c] =
           [phase |-> "reading", scope |-> s, at |-> readTime, readings |-> <<>>]]
  BY DEF overview
<1>3. readTime \in Nat BY ReadsAssumption DEF RowsInv
<1>4. ASSUME NEW a, CallInv(a), calls' = [calls EXCEPT ![c] = a] PROVE OverviewInv'
  <2>1. \A d : CallInv(d)' <=> CallInv(d) BY <1>1 DEF CallInv
  <2>2. \A d \in Callers : CallInv(calls'[d]) BY <1>4 DEF OverviewInv
  <2>3. DOMAIN calls' = Callers /\ calls' = [d \in Callers |-> calls'[d]] BY <1>4 DEF OverviewInv
  <2>4. \A d \in Callers : CallInv(calls[d])' BY <2>1, <2>2
  <2> QED BY <1>1, <2>3, <2>4 DEF OverviewInv
<1>5. ASSUME NEW e \in fresh, calls' = [calls EXCEPT ![c] = Overview(s, e.at, e.readings, readTime)]
      PROVE  OverviewInv'
  <2>1. e \in ToSet(cache) /\ e.key = s /\ readTime - e.at < OverviewTtl BY DEF Cached, scopeKey
  <2>2. e \in OverviewEntries BY <2>1 DEF OverviewInv, ToSet
  <2>3. e.at \in Nat /\ e.readings \in Seq(ReadingsSince(s, e.at)) BY <2>1, <2>2 DEF OverviewEntries
  <2> DEFINE a == Overview(s, e.at, e.readings, readTime)
  <2>4. CallInv(a) BY <2>1, <2>3 DEF Overview, CallInv
  <2> HIDE DEF a
  <2> QED BY <1>4, <1>5, <2>4 DEF a
<1>6. CASE calls' = [calls EXCEPT ![c] =
             [phase |-> "reading", scope |-> s, at |-> readTime, readings |-> <<>>]]
  <2> DEFINE a == [phase |-> "reading", scope |-> s, at |-> readTime, readings |-> <<>>]
  <2>1. << >> \in Seq(ReadingsSince(s, readTime)) OBVIOUS
  <2>2. CallInv(a) BY <1>3, <2>1 DEF CallInv
  <2> HIDE DEF a
  <2> QED BY <1>4, <1>6, <2>2 DEF a
<1> QED BY <1>2, <1>5, <1>6

LEMMA ComputeKeeps ==
  ASSUME RowsInv, OverviewInv, NEW c \in Callers, computeOverview(c)
  PROVE  OverviewInv'
<1> DEFINE was == calls[c]
<1>1. /\ was.phase = "reading" /\ cache' = cache /\ readTime' = readTime
      /\ \E S : calls' = [calls EXCEPT ![c].readings = Append(was.readings, Reading(was.scope, S))]
  BY DEF computeOverview
<1>2. PICK S : calls' = [calls EXCEPT ![c].readings = Append(was.readings, Reading(was.scope, S))]
  BY <1>1
<1> DEFINE new == Reading(was.scope, S)
           readings == Append(was.readings, new)
           a == [was EXCEPT !.readings = readings]
<1>3. readTime \in Nat /\ rows \subseteq RowRecords BY ReadsAssumption DEF RowsInv, Table
<1>4. /\ was.scope \in SUBSET Unrestricted /\ was.at \in Nat /\ was.at <= readTime
      /\ was.readings \in Seq(ReadingsSince(was.scope, was.at))
  BY <1>1 DEF OverviewInv, CallInv
<1>5. new \in ReadingsSince(was.scope, was.at) BY <1>3, <1>4 DEF Reading, ReadingsSince
<1> HIDE DEF new
<1>6. readings \in Seq(ReadingsSince(was.scope, was.at)) BY <1>4, <1>5, AppendProperties
<1> HIDE DEF readings
<1>7. calls' = [calls EXCEPT ![c] = a] BY <1>2 DEF readings, new
<1>8. /\ a.phase = "reading" /\ a.scope = was.scope /\ a.at = was.at
      /\ a.readings = readings
  BY <1>1
<1> HIDE DEF a
<1>9. CallInv(a) BY <1>4, <1>6, <1>8 DEF CallInv
<1>10. \A d : CallInv(d)' <=> CallInv(d) BY <1>1 DEF CallInv
<1>11. \A d \in Callers : CallInv(calls'[d]) BY <1>7, <1>9 DEF OverviewInv
<1>12. DOMAIN calls' = Callers /\ calls' = [d \in Callers |-> calls'[d]] BY <1>7 DEF OverviewInv
<1>13. \A d \in Callers : CallInv(calls[d])' BY <1>10, <1>11
<1> QED BY <1>1, <1>12, <1>13 DEF OverviewInv

\* Map.set and the bound on the map.
LEMMA Remembered ==
  ASSUME OverviewInv, NEW entry \in OverviewEntries
  PROVE  /\ rememberOverview(entry) \in Seq(OverviewEntries)
         /\ Len(rememberOverview(entry)) <= MaxCachedOverviews
<1> DEFINE room == IF Len(cache) >= MaxCachedOverviews THEN Tail(cache) ELSE cache
           there == {i \in DOMAIN room : room[i].key = entry.key}
           i0 == CHOOSE i \in there : TRUE
           E == OverviewEntries
<1>1. cache \in Seq(E) /\ Len(cache) <= MaxCachedOverviews /\ Len(cache) \in Nat
      /\ MaxCachedOverviews \in Nat \ {0}
  BY ReadsAssumption DEF OverviewInv
<1>2. room \in Seq(E) /\ Len(room) < MaxCachedOverviews
  <2>1. CASE Len(cache) >= MaxCachedOverviews
    <3>1. cache # << >> BY <1>1, <2>1
    <3>2. Tail(cache) \in Seq(E) /\ Len(Tail(cache)) = Len(cache) - 1
      BY <1>1, <3>1, HeadTailProperties
    <3> QED BY <1>1, <2>1, <3>2
  <2>2. CASE ~(Len(cache) >= MaxCachedOverviews) BY <1>1, <2>2
  <2> QED BY <2>1, <2>2
<1>3. rememberOverview(entry) = IF there = {} THEN Append(room, entry) ELSE [room EXCEPT ![i0] = entry]
  BY DEF rememberOverview
<1> HIDE DEF room, E
<1>4. CASE there = {}
  <2>1. Append(room, entry) \in Seq(E) /\ Len(Append(room, entry)) = Len(room) + 1
    BY <1>2, AppendProperties DEF E
  <2>2. Len(room) \in Nat BY <1>2
  <2> QED BY <1>1, <1>2, <1>3, <1>4, <2>1, <2>2 DEF E
<1>5. CASE there # {}
  <2>1. i0 \in DOMAIN room BY <1>5
  <2> HIDE DEF i0, there
  <2>2. Len(room) \in Nat /\ room \in [1..Len(room) -> E] BY <1>2
  <2>3. [room EXCEPT ![i0] = entry] \in [1..Len(room) -> E] BY <2>1, <2>2 DEF E
  <2>4. [room EXCEPT ![i0] = entry] \in Seq(E) /\ Len([room EXCEPT ![i0] = entry]) = Len(room)
    BY <2>2, <2>3
  <2> QED BY <1>1, <1>2, <1>3, <1>5, <2>2, <2>4 DEF E
<1> QED BY <1>4, <1>5

LEMMA ComputedKeeps ==
  ASSUME RowsInv, OverviewInv, NEW c \in Callers, overviewComputed(c)
  PROVE  OverviewInv'
<1> DEFINE was == calls[c]
           entry == [key |-> was.scope, at |-> was.at, readings |-> was.readings]
           a == Overview(was.scope, was.at, was.readings, was.at)
<1>1. /\ was.phase = "reading" /\ cache' = rememberOverview(entry) /\ readTime' = readTime
      /\ calls' = [calls EXCEPT ![c] = a]
  BY DEF overviewComputed, scopeKey, ComputedAt
<1>2. /\ was.scope \in SUBSET Unrestricted /\ was.at \in Nat
      /\ was.readings \in Seq(ReadingsSince(was.scope, was.at))
  BY <1>1 DEF OverviewInv, CallInv
<1>3. entry \in OverviewEntries
  <2>1. was.readings \in Seq([taken : Nat, counted : SUBSET RowRecords])
    <3> DEFINE S == ReadingsSince(was.scope, was.at)
               T == [taken : Nat, counted : SUBSET RowRecords]
    <3>1. S \subseteq T BY DEF ReadingsSince
    <3>2. was.readings \in Seq(S) BY <1>2
    <3> HIDE DEF S, T
    <3>3. was.readings \in Seq(T) BY <3>1, <3>2, SeqMonotone
    <3> QED BY <3>3 DEF T
  <2> QED BY <1>2, <2>1 DEF OverviewEntries
<1> HIDE DEF entry
<1>4. cache' \in Seq(OverviewEntries) /\ Len(cache') <= MaxCachedOverviews BY <1>1, <1>3, Remembered
<1>5. CallInv(a) BY <1>2 DEF CallInv, Overview
<1> HIDE DEF a
<1>6. \A d : CallInv(d)' <=> CallInv(d) BY <1>1 DEF CallInv
<1>7. \A d \in Callers : CallInv(calls'[d]) BY <1>1, <1>5 DEF OverviewInv
<1>8. DOMAIN calls' = Callers /\ calls' = [d \in Callers |-> calls'[d]] BY <1>1 DEF OverviewInv
<1>9. \A d \in Callers : CallInv(calls[d])' BY <1>6, <1>7
<1> QED BY <1>4, <1>8, <1>9 DEF OverviewInv

LEMMA OverviewKept == ASSUME RowsInv, OverviewInv, ReadsNext PROVE OverviewInv'
<1>1. CASE UNCHANGED <<cache, calls, readTime>> BY <1>1 DEF OverviewInv, CallInv
<1>2. CASE ReadClock
  <2>1. cache' = cache /\ calls' = calls /\ readTime' = readTime + 1 BY <1>2 DEF ReadClock
  <2>2. readTime \in Nat BY ReadsAssumption DEF RowsInv
  <2>3. \A c \in Callers : CallInv(calls[c])' BY <2>1, <2>2 DEF OverviewInv, CallInv
  <2> QED BY <2>1, <2>3 DEF OverviewInv
<1>3. \A i, t, k, s : InsertRow(i, t, k, s) \/ FinishRow(i) => UNCHANGED <<cache, calls, readTime>>
  BY Zenon DEF InsertRow, FinishRow
<1>4. \A f : ChooseFilter(f) \/ Paginate(f) \/ Refresh \/ Reload \/ Serve(f) \/ Arrive(f)
             => UNCHANGED <<cache, calls, readTime>>
  BY Zenon DEF ChooseFilter, Paginate, Refresh, Reload, Serve, Arrive
<1> QED BY <1>1, <1>2, <1>3, <1>4, ReadsSteps, OverviewKeeps, ComputeKeeps, ComputedKeeps, Zenon

-----------------------------------------------------------------------------
(* The money summary *)

LEMMA Divided ==
  ASSUME NEW a \in Int, NEW n \in Nat \ {0}
  PROVE  (a \div n) \in Int /\ (a \div n) * n <= a /\ a < (a \div n) * n + n
OBVIOUS

LEMMA Products ==
  ASSUME NEW n \in Nat \ {0}
  PROVE  /\ \A a, b \in Int : (a + b) * n = a * n + b * n /\ (a - b) * n = a * n - b * n
         /\ \A a, b \in Int : a <= b => a * n <= b * n
         /\ \A a \in Int : a * n \in Int
         /\ 0 * n = 0 /\ 1 * n = n
OBVIOUS

LEMMA LesserOf == ASSUME NEW a \in Int, NEW b \in Int PROVE Min({a, b}) = IF a <= b THEN a ELSE b
<1>1. \E x \in {a, b} : \A y \in {a, b} : x <= y OBVIOUS
<1>2. Min({a, b}) \in {a, b} /\ \A y \in {a, b} : Min({a, b}) <= y BY <1>1 DEF Min
<1> QED BY <1>2

LEMMA Summed == ASSUME RowsInv PROVE BarsAddUp
<1> SUFFICES ASSUME NEW o \in Offsets
             PROVE  LET bars == barsOf(o) IN
                      /\ bars[0].opens = currentFrom(o) /\ bars[Bars - 1].closes = readTime
                      /\ \A b \in 1..(Bars - 1) : bars[b].opens = bars[b - 1].closes
                      /\ UNION {bars[b].started : b \in DOMAIN bars} = inWindow(currentFrom(o), readTime)
                      /\ \A b \in DOMAIN bars : \A r \in bars[b].started :
                           r.at >= bars[b].opens /\ r.at < bars[b].closes
                      /\ readTime - currentFrom(o) = currentFrom(o) - previousFrom(o)
                      /\ readTime - currentFrom(o) < Bars * BarLength
  BY DEF BarsAddUp
<1> DEFINE from == currentFrom(o)
           bars == barsOf(o)
           now == readTime
           w == Bars * BarLength
           OpensAt(b) == from + b * BarLength
           ClosesAt(b) == Min({from + (b + 1) * BarLength, now})
           In(r) == Clamp((r.at - from) \div BarLength, 0, Bars - 1)
           Started(b) == {r \in inWindow(from, now) : In(r) = b}
<1>1. /\ o \in Int /\ now \in Int /\ Bars \in Nat \ {0} /\ BarLength \in Nat \ {0}
      /\ rows \subseteq RowRecords
  BY ReadsAssumption DEF RowsInv, Table
<1>2. from \in Int /\ from + (Bars - 1) * BarLength <= now /\ now < from + w
  <2> DEFINE q == (now + o) \div BarLength
  <2>1. q \in Int /\ q * BarLength <= now + o /\ now + o < q * BarLength + BarLength BY <1>1, Divided
  <2>2. from = q * BarLength - o - (Bars - 1) * BarLength BY DEF currentFrom, truncateToInterval
  <2> HIDE DEF q, from
  <2>3. /\ (Bars - 1) * BarLength = Bars * BarLength - 1 * BarLength /\ 1 * BarLength = BarLength
        /\ q * BarLength \in Int /\ (Bars - 1) * BarLength \in Int /\ Bars * BarLength \in Int
    BY <1>1, <2>1, Products
  <2> QED BY <1>1, <2>1, <2>2, <2>3
<1>3. bars = [b \in 0..(Bars - 1) |-> [opens |-> OpensAt(b), closes |-> ClosesAt(b), started |-> Started(b)]]
  BY DEF barsOf
<1>4. previousFrom(o) = from - (now - from) BY DEF previousFrom
<1> HIDE DEF bars, from, Started, w
<1>5. ASSUME NEW b \in 0..(Bars - 1)
      PROVE  /\ bars[b].opens = OpensAt(b) /\ bars[b].closes = ClosesAt(b) /\ bars[b].started = Started(b)
             /\ b \in Int /\ OpensAt(b) \in Int /\ from + (b + 1) * BarLength \in Int
             /\ OpensAt(b) <= now
             /\ ClosesAt(b) = IF b = Bars - 1 THEN now ELSE OpensAt(b + 1)
  <2>1. bars[b] = [opens |-> OpensAt(b), closes |-> ClosesAt(b), started |-> Started(b)] BY <1>3
  <2>2. /\ b \in Int /\ b + 1 \in Int /\ Bars - 1 \in Int /\ b <= Bars - 1
        /\ b # Bars - 1 => b + 1 <= Bars - 1
        /\ b = Bars - 1 => b + 1 = Bars
    BY <1>1
  <2>3. b * BarLength \in Int /\ (b + 1) * BarLength \in Int /\ b * BarLength <= (Bars - 1) * BarLength
        /\ (Bars - 1) * BarLength \in Int
        /\ (b # Bars - 1 => (b + 1) * BarLength <= (Bars - 1) * BarLength)
    BY <1>1, <2>2, Products
  <2>4. ClosesAt(b) = IF from + (b + 1) * BarLength <= now THEN from + (b + 1) * BarLength ELSE now
    BY <1>1, <1>2, <2>3, LesserOf
  <2>5. CASE b = Bars - 1
    <3>1. ~(from + (b + 1) * BarLength <= now) BY <1>1, <1>2, <2>2, <2>3, <2>5 DEF w
    <3> HIDE DEF ClosesAt
    <3> QED BY <1>1, <1>2, <2>1, <2>2, <2>3, <2>4, <2>5, <3>1
  <2>6. CASE b # Bars - 1
    <3>1. from + (b + 1) * BarLength <= now BY <1>1, <1>2, <2>3, <2>6
    <3> HIDE DEF ClosesAt
    <3> QED BY <1>1, <1>2, <2>1, <2>2, <2>3, <2>4, <2>6, <3>1
  <2> QED BY <2>5, <2>6
<1> HIDE DEF ClosesAt
<1>6. DOMAIN bars = 0..(Bars - 1) BY <1>3
<1>7. 0 \in 0..(Bars - 1) /\ Bars - 1 \in 0..(Bars - 1) BY <1>1
<1>8. bars[0].opens = from /\ bars[Bars - 1].closes = now
  <2>1. OpensAt(0) = from BY <1>1, <1>2, Products
  <2> HIDE DEF OpensAt
  <2> QED BY <1>5, <1>7, <2>1
<1>9. ASSUME NEW b \in 1..(Bars - 1) PROVE bars[b].opens = bars[b - 1].closes
  <2>1. b \in 0..(Bars - 1) /\ b - 1 \in 0..(Bars - 1) /\ b - 1 # Bars - 1 /\ (b - 1) + 1 = b BY <1>1
  <2> HIDE DEF OpensAt
  <2> QED BY <1>5, <2>1
\* A row of the window falls in the bar it is laid into.
<1>10. ASSUME NEW r \in inWindow(from, now)
       PROVE  /\ r.at \in Int /\ In(r) \in 0..(Bars - 1)
              /\ r.at >= OpensAt(In(r)) /\ r.at < OpensAt(In(r) + 1) /\ r.at < now
  <2> DEFINE d == r.at - from
             q == d \div BarLength
  <2>1. r \in RowRecords /\ r.at >= from /\ r.at < now BY <1>1 DEF inWindow
  <2>2. r.at \in Int BY <2>1, NumbersOfRows
  <2>3. d \in Int /\ 0 <= d /\ d < w BY <1>1, <1>2, <2>1, <2>2, Products DEF w
  <2>4. q \in Int /\ q * BarLength <= d /\ d < q * BarLength + BarLength BY <1>1, <2>3, Divided
  <2>5. In(r) = Clamp(q, 0, Bars - 1) OBVIOUS
  <2>6. r.at = from + d BY <1>2, <2>2
  <2> HIDE DEF d, q, In
  <2>7. /\ q * BarLength \in Int /\ (q + 1) * BarLength = q * BarLength + 1 * BarLength
        /\ 1 * BarLength = BarLength /\ 0 * BarLength = 0
        /\ (q + 1 <= 0 => (q + 1) * BarLength <= 0 * BarLength)
        /\ (Bars <= q => Bars * BarLength <= q * BarLength)
        /\ Bars * BarLength \in Int
    BY <1>1, <2>4, Products
  <2>8. 0 <= q BY <1>1, <2>3, <2>4, <2>7
  <2>9. q <= Bars - 1 BY <1>1, <2>3, <2>4, <2>7 DEF w
  <2>10. In(r) = q BY <1>1, <2>4, <2>5, <2>8, <2>9 DEF Clamp
  <2> QED BY <1>1, <1>2, <2>1, <2>2, <2>3, <2>4, <2>6, <2>7, <2>8, <2>9, <2>10
<1>11. UNION {bars[b].started : b \in DOMAIN bars} = inWindow(from, now)
  <2>1. ASSUME NEW r \in inWindow(from, now) PROVE \E b \in DOMAIN bars : r \in bars[b].started
    <3>1. r \in Started(In(r)) /\ In(r) \in 0..(Bars - 1) BY <1>10 DEF Started
    <3> HIDE DEF In, OpensAt
    <3> QED BY <1>5, <1>6, <3>1
  <2>2. ASSUME NEW b \in DOMAIN bars PROVE bars[b].started \subseteq inWindow(from, now)
    <3>1. bars[b].started = Started(b) BY <1>5, <1>6
    <3> QED BY <3>1 DEF Started
  <2> QED BY <2>1, <2>2
<1>12. ASSUME NEW b \in DOMAIN bars, NEW r \in bars[b].started
       PROVE  r.at >= bars[b].opens /\ r.at < bars[b].closes
  <2>1. b \in 0..(Bars - 1) /\ r \in Started(b) BY <1>5, <1>6
  <2>2. r \in inWindow(from, now) /\ In(r) = b BY <2>1 DEF Started
  <2> HIDE DEF In, OpensAt
  <2>3. r.at >= OpensAt(b) /\ r.at < OpensAt(b + 1) /\ r.at < now BY <1>10, <2>2
  <2> QED BY <1>5, <2>1, <2>3
<1>13. now - from = from - previousFrom(o) BY <1>1, <1>2, <1>4
<1>14. now - from < w BY <1>1, <1>2, Products DEF w
<1> QED BY <1>8, <1>9, <1>11, <1>12, <1>13, <1>14 DEF bars, from, w

-----------------------------------------------------------------------------
(* The invariant *)

ReadsInv == RowsInv /\ PanelInv /\ OverviewInv

LEMMA InitiallyReadable == ReadsInit => ReadsInv
<1> SUFFICES ASSUME ReadsInit PROVE ReadsInv OBVIOUS
<1>1. RowsInv
  <2>1. IsFiniteSet({}) BY FS_EmptySet
  <2> QED BY <2>1, ReadsAssumption DEF ReadsInit, RowsInv, Table
<1>2. PanelInv
  <2>1. PICK l \in Lists, caller \in {"OPERATOR", "ADMIN"}, s \in {Anything, "problem"} :
          panel = [list |-> l, scope |-> scopeForAdmin(caller, ReadKiosks),
                   filter |-> [NoFilter EXCEPT !.status = s], trail |-> <<FirstPage>>, page |-> 1,
                   data |-> NoAnswer, of |-> NoAnswer, error |-> FALSE, loading |-> TRUE]
    BY DEF ReadsInit
  <2> DEFINE new == [query |-> Query(panel), cancelled |-> FALSE, answer |-> NoAnswer]
  <2>2. loads = {new} BY DEF ReadsInit
  <2>3. FirstPage \in Cursors BY DEF FirstPage, Cursors
  <2>4. [NoFilter EXCEPT !.status = s] \in Filters BY DEF NoFilter, Filters, RowStates
  <2>5. scopeForAdmin(caller, ReadKiosks) \in SUBSET Unrestricted BY DEF scopeForAdmin, Unrestricted
  <2>6. /\ panel \in Panels /\ panel.page = 1 /\ panel.trail = <<FirstPage>>
        /\ panel.loading /\ panel.data = NoAnswer
    <3> DEFINE sc == scopeForAdmin(caller, ReadKiosks)
               fi == [NoFilter EXCEPT !.status = s]
    <3> HIDE DEF sc, fi
    <3> QED BY <2>1, <2>3, <2>4, <2>5 DEF Panels, sc, fi
  <2>7. OnPage(panel) BY <2>6 DEF OnPage
  <2>8. new \in LoadRecords /\ new.query = Query(panel) /\ new.answer = NoAnswer
    BY <2>7, QueryIsTyped DEF LoadRecords, Answers
  <2> HIDE DEF new
  <2>9. IsFiniteSet({new}) /\ Cardinality({new}) <= MaxLoadsOut
    <3>1. IsFiniteSet({new}) /\ Cardinality({new}) = 1 BY FS_Singleton
    <3>2. MaxLoadsOut \in Nat \ {0} BY ReadsAssumption
    <3> QED BY <3>1, <3>2
  <2>10. Seen(panel, NoAnswer) BY DEF Seen
  <2> QED BY <2>2, <2>6, <2>7, <2>8, <2>9, <2>10 DEF PanelInv
<1>3. OverviewInv
  <2>1. cache = << >> /\ calls = [c \in Callers |-> NoCall] BY DEF ReadsInit
  <2>2. << >> \in Seq(OverviewEntries) /\ Len(<< >>) = 0 OBVIOUS
  <2>3. CallInv(NoCall) BY DEF CallInv, NoCall
  <2> QED BY <2>1, <2>2, <2>3, ReadsAssumption DEF OverviewInv
<1> QED BY <1>1, <1>2, <1>3 DEF ReadsInv

LEMMA ReadableKept == ReadsInv /\ [ReadsNext]_readVars => ReadsInv'
<1> SUFFICES ASSUME ReadsInv, [ReadsNext]_readVars PROVE ReadsInv' OBVIOUS
<1>1. CASE ReadsNext BY <1>1, RowsKept, PanelKept, OverviewKept DEF ReadsInv
<1>2. CASE UNCHANGED readVars
  <2>1. UNCHANGED <<rows, readTime, panel, loads, cache, calls>> BY <1>2 DEF readVars
  <2>2. RowsInv' BY <2>1 DEF ReadsInv, RowsInv, Table
  <2>3. PanelInv' BY <2>1 DEF ReadsInv, PanelInv
  <2>4. OverviewInv' BY <2>1 DEF ReadsInv, OverviewInv, CallInv
  <2> QED BY <2>2, <2>3, <2>4 DEF ReadsInv
<1> QED BY <1>1, <1>2

LEMMA ReadableIsHonest == ReadsInv => ReadsAreHonest
<1> SUFFICES ASSUME ReadsInv PROVE ReadsAreHonest OBVIOUS
<1>1. RowsInv /\ PanelInv /\ OverviewInv /\ panel \in Panels BY DEF ReadsInv, PanelInv, OnPage
<1>2. ReadsTypeOK
  BY <1>1 DEF RowsInv, Table, RowRecords, PanelInv, OnPage, Panels, OverviewInv, ReadsTypeOK
<1>3. EveryRowOnce
  <2>1. panel.list \in Lists BY <1>1 DEF Panels
  <2> QED BY <1>1, <2>1, WalkShowsAll DEF RowsInv
<1>4. ShownIsTheAnswer
  <2>1. panel.data # NoAnswer => panel.data # Failed
    <3>1. panel.data \in Pages \cup {NoAnswer} BY <1>1 DEF Panels
    <3> QED BY <3>1 DEF Pages, Failed
  <2> QED BY <1>1, <2>1 DEF ShownIsTheAnswer, PanelInv, Seen, Visible
<1>5. OverviewIsHonest
  <2> SUFFICES ASSUME NEW c \in Callers, calls[c].phase = "answered"
               PROVE  /\ calls[c].given - calls[c].at < OverviewTtl \/ calls[c].given = calls[c].at
                      /\ \A i \in DOMAIN calls[c].readings :
                           /\ calls[c].readings[i].taken >= calls[c].at
                           /\ \A r \in calls[c].readings[i].counted : r.kiosk \in calls[c].scope
    BY DEF OverviewIsHonest
  <2>1. CallInv(calls[c]) BY <1>1 DEF OverviewInv
  <2> DEFINE a == calls[c]
  <2>2. /\ a.readings \in Seq(ReadingsSince(a.scope, a.at))
        /\ a.given - a.at < OverviewTtl \/ a.given = a.at
    BY <2>1 DEF CallInv
  <2>3. \A i \in DOMAIN a.readings : a.readings[i] \in ReadingsSince(a.scope, a.at) BY <2>2
  <2> QED BY <2>2, <2>3 DEF ReadingsSince
<1>6. BarsAddUp BY <1>1, Summed
<1> QED BY <1>2, <1>3, <1>4, <1>5, <1>6 DEF ReadsAreHonest

\* Whatever rows come and change, requests cross and clocks run, a list walked by its cursors
\* shows every row once, the rows on screen answer the controls over them, an overview is no
\* newer than it says, and the bars of the money summary add up (observability.ts,
\* useAdminData.ts, usePageTrail.ts).
THEOREM ReadsStayHonest == ReadsSpec => []ReadsAreHonest
<1>1. ReadsInit => ReadsInv BY InitiallyReadable
<1>2. ReadsInv /\ [ReadsNext]_readVars => ReadsInv' BY ReadableKept
<1>3. ReadsInv => ReadsAreHonest BY ReadableIsHonest
<1> QED BY <1>1, <1>2, <1>3, PTL DEF ReadsSpec

===============================================================================
