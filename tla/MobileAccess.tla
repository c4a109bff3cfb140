---------------------------- MODULE MobileAccess -----------------------------
(***************************************************************************)
(* How a visit begins: the kiosk asks for a session and shows its QR code  *)
(* (sessions/service.ts, the kiosk's sessionService.ts), a phone exchanges *)
(* the code for a cookie (mobile-access/service.ts, bootstrap.ts) and      *)
(* uploads (mobile App.tsx); and how the kiosk closes or discards one.     *)
(*                                                                         *)
(* One kiosk.  Each API transaction locks what it reads, so it is one      *)
(* step; what a client does with an answer touches nothing but the client, *)
(* so the answer is read in the same step, or lost (heard = FALSE).  A     *)
(* tab stands for a phone: it has its own session storage and cookies.  A  *)
(* digest is the value it is taken of, and a request's idempotency record  *)
(* outlives the visit.                                                     *)
(***************************************************************************)
EXTENDS Integers, Sequences, FiniteSets, Functions

CONSTANTS
  Tabs,         \* phones
  PrivateTabs,  \* those whose browser denies session storage
  MaxVisits,    \* bound on sessions
  MaxKeys,      \* bound on the kiosk's create keys
  MaxLoads,     \* bound on page loads
  MaxVersion    \* bound on a session's version

ASSUME MobileAssumption ==
  /\ IsFiniteSet(Tabs) /\ PrivateTabs \subseteq Tabs
  /\ MaxVisits \in Nat /\ MaxKeys \in Nat /\ MaxLoads \in Nat /\ MaxVersion \in Nat \ {0}

VARIABLES
  visits,   \* print_sessions with their grant and mobile client, in order
  door,     \* the kiosk's browser: its flow and its stored create key
  tab       \* the phones' pages

mobileVars == <<visits, door, tab>>

NoNonce == <<>>
NoKey == 0

UPLOADABLE == {"WAITING_FOR_UPLOAD", "FILES_UPLOADED"}
TERMINAL == {"COMPLETED", "CANCELED", "EXPIRED", "FAILED", "RECOVERY_REQUIRED"}
EXPIRABLE == UPLOADABLE \cup {"AWAITING_PAYMENT"}
VisitStates == TERMINAL \cup EXPIRABLE \cup {"PAID"}

\* The rows of the domain's table that the steps below use.
canTransitionSession(from, to) ==
  to \in CASE from = "WAITING_FOR_UPLOAD" -> {"FILES_UPLOADED", "CANCELED", "EXPIRED"}
           [] from = "FILES_UPLOADED" -> {"WAITING_FOR_UPLOAD", "AWAITING_PAYMENT",
                                          "CANCELED", "EXPIRED"}
           [] from = "AWAITING_PAYMENT" -> {"FILES_UPLOADED", "PAID", "CANCELED", "EXPIRED"}
           [] from = "PAID" -> {"COMPLETED", "FAILED", "RECOVERY_REQUIRED"}
           [] OTHER -> {}

VisitIds == 1..Len(visits)
Live(v) == v.state \notin TERMINAL
IsExpired(v) == v.state = "EXPIRED" \/ (v.state \in EXPIRABLE /\ v.late)
Nonces == {NoNonce} \cup (Tabs \X Nat)

MobileTypeOK ==
  /\ visits \in Seq([state : VisitStates, version : 1..(MaxVersion + 1), late : BOOLEAN,
                     grant : {"ACTIVE", "CLAIMED", "REVOKED", "EXPIRED"},
                     by : Nonces, key : 1..MaxKeys])
  /\ Len(visits) <= MaxVisits
  /\ door \in [stage : {"idle", "posting", "reading", "canceling", "showing"},
               pending : 0..MaxKeys, made : 0..MaxKeys, again : BOOLEAN,
               target : 0..MaxVisits, version : 0..(MaxVersion + 1), tries : 0..2,
               shown : 0..MaxVisits]
  /\ tab \in [Tabs -> [page : {"away", "opened", "joined", "sending", "closed", "failed"},
                       at : 0..MaxVisits, token : BOOLEAN, nonce : Nonces,
                       stored : [1..MaxVisits -> Nonces],
                       cookies : SUBSET (1..MaxVisits), loads : Nat]]

MobileInit ==
  /\ visits = <<>>
  /\ door = [stage |-> "idle", pending |-> NoKey, made |-> 0, again |-> FALSE,
             target |-> 0, version |-> 0, tries |-> 0, shown |-> 0]
  /\ tab = [t \in Tabs |->
       [page |-> "away", at |-> 0, token |-> FALSE, nonce |-> NoNonce,
        stored |-> [s \in 1..MaxVisits |-> NoNonce], cookies |-> {}, loads |-> 0]]

-----------------------------------------------------------------------------
(* The API's transactions, as functions of the sessions *)

\* Ending a session ends its grant and its mobile client with it.
Ended(v, state, grant) ==
  [v EXCEPT !.state = state, !.version = @ + 1,
            !.grant = IF @ \in {"ACTIVE", "CLAIMED"} THEN grant ELSE @]
expireSession(v) == Ended(v, "EXPIRED", "EXPIRED")

\* The answer to a create whose key already made session v.
restoreCreateResponse(v) ==
  IF v.late \/ v.grant # "ACTIVE" THEN "410"
  ELSE IF v.state # "WAITING_FOR_UPLOAD" \/ v.version # 1 THEN "blocked"
  ELSE "created"

NewVisit(key) ==
  [state |-> "WAITING_FOR_UPLOAD", version |-> 1, late |-> FALSE,
   grant |-> "ACTIVE", by |-> NoNonce, key |-> key]

\* What the API makes of a create: its answer, the session it is about, and
\* the sessions afterwards.  A kiosk that is not ready is refused new work only.
create(key, ready) ==
  LET mine == {s \in VisitIds : visits[s].key = key}
      open == {s \in VisitIds : Live(visits[s])}
      in == IF open = {} THEN 0 ELSE CHOOSE s \in open : TRUE
      answer(a, s, after) == [answer |-> a, session |-> s, after |-> after]
      opened(before) == answer("created", Len(before) + 1, Append(before, NewVisit(key)))
  IN IF mine # {}
     THEN LET s == CHOOSE s \in mine : TRUE
          IN  answer(restoreCreateResponse(visits[s]), s, visits)
     ELSE IF ~ready THEN answer("refused", 0, visits)
     ELSE IF in = 0 THEN opened(visits)
     ELSE IF IsExpired(visits[in])
     THEN opened([visits EXCEPT ![in] = expireSession(@)])
     ELSE answer("blocked", in, visits)

get(s) == IF IsExpired(visits[s]) THEN "410" ELSE visits[s].state

\* A captured payment, a moved version and a state with no way to CANCELED are
\* the refusals; a key that canceled before gets its answer again.
cancel(s, version) ==
  LET v == visits[s] IN
  IF v.state = "CANCELED" /\ v.version = version + 1 THEN "canceled"
  ELSE IF IsExpired(v) THEN "410"
  ELSE IF v.state = "PAID" THEN "refused"
  ELSE IF v.version # version THEN "412"
  ELSE IF ~canTransitionSession(v.state, "CANCELED") THEN "refused"
  ELSE "canceled"

CancelApplied(s, version) ==
  IF cancel(s, version) = "canceled" /\ visits[s].state # "CANCELED"
  THEN [visits EXCEPT ![s] = Ended(@, "CANCELED", "REVOKED")]
  ELSE visits

\* Mutant: a claimed grant is handed to whoever holds its code.
exchangeAnyNonce(s, n) ==
  LET v == visits[s] IN
  IF v.late \/ v.state = "EXPIRED" THEN "closed"
  ELSE IF v.grant \notin {"ACTIVE", "CLAIMED"} THEN "refused"
  ELSE IF v.state \notin UPLOADABLE THEN "closed"
  ELSE "joined"

\* A claimed grant is restored to the nonce that claimed it, and to no other.
restoreClaimedExchange(v, n) == IF v.by = n THEN "joined" ELSE "refused"

\* What the API answers a phone that presents session s's code with nonce n.
exchange(s, n) ==
  LET v == visits[s] IN
  IF v.late \/ v.state = "EXPIRED" THEN "closed"
  ELSE IF v.grant \notin {"ACTIVE", "CLAIMED"} THEN "refused"
  ELSE IF v.state \notin UPLOADABLE THEN "closed"
  ELSE IF v.grant = "CLAIMED" THEN restoreClaimedExchange(v, n)
  ELSE "joined"

\* The cookie's client is active for as long as its grant is claimed.
authenticate(t, s) ==
  LET v == visits[s] IN
  IF s \notin tab[t].cookies \/ v.grant # "CLAIMED" THEN "closed"
  ELSE IF v.late \/ v.state \notin UPLOADABLE THEN "closed"
  ELSE "joined"

-----------------------------------------------------------------------------
(* The kiosk's browser *)

Over(stage) == [door EXCEPT !.stage = stage, !.again = FALSE,
                            !.target = 0, !.version = 0, !.tries = 0]
Failed == Over("idle")
FreshKey == [Failed EXCEPT !.stage = "posting", !.again = TRUE,
                         !.pending = door.made + 1, !.made = door.made + 1]
OPERATOR_RECOVERY == {"PAID", "PRINTING", "FAILED", "RECOVERY_REQUIRED"}

\* A stored request is replayed with its own key; otherwise a new one is stored.
createKioskSession ==
  /\ door.stage = "idle" /\ door.shown = 0
  /\ IF door.pending # NoKey
     THEN door' = [door EXCEPT !.stage = "posting", !.again = FALSE]
     ELSE door.made < MaxKeys /\ door' = [FreshKey EXCEPT !.again = FALSE]
  /\ UNCHANGED <<visits, tab>>

\* The create is applied and answered.  A 410 is followed by a new key, a
\* session in the way by its removal, each once.
postCreateSession(ready, heard) ==
  /\ door.stage = "posting"
  /\ LET r == create(door.pending, ready) IN
     /\ Len(r.after) <= MaxVisits
     /\ visits' = r.after
     /\ \/ ~heard /\ door' = Failed
        \/ /\ heard /\ r.answer = "created"
           /\ door' = [Over("showing") EXCEPT !.shown = r.session]
        \/ /\ heard /\ r.answer = "410" /\ ~door.again
           /\ door.made < MaxKeys /\ door' = FreshKey
        \/ /\ heard /\ r.answer = "blocked" /\ ~door.again
           /\ door' = IF visits[r.session].state \in OPERATOR_RECOVERY THEN Failed
                      ELSE [door EXCEPT !.stage = "reading", !.target = r.session, !.tries = 1]
        \/ /\ heard /\ (r.answer = "refused" \/ (r.answer # "created" /\ door.again))
           /\ door' = Failed
  /\ UNCHANGED tab

\* Customer, timer or fulfilled print: the screen closes its session.
closeKioskSession ==
  /\ door.stage = "showing"
  /\ door' = [door EXCEPT !.stage = "reading", !.target = door.shown, !.tries = 2]
  /\ UNCHANGED <<visits, tab>>

\* Where a finished removal leads: a discard goes on to a new session, a close
\* to the idle screen.
Removed == IF door.shown = 0 THEN FreshKey
           ELSE [Failed EXCEPT !.pending = NoKey, !.shown = 0]
NotRemoved == IF door.shown = 0 THEN Failed ELSE Over("showing")

\* Both flows read the session's version just before they cancel.
ReadBeforeCancel(heard) ==
  /\ door.stage = "reading"
  /\ LET state == get(door.target) IN
     door' = IF ~heard THEN NotRemoved
             ELSE IF state = "410" \/ (door.shown # 0 /\ state \in {"COMPLETED", "CANCELED"})
             THEN Removed
             ELSE IF state \in OPERATOR_RECOVERY THEN NotRemoved
             ELSE [door EXCEPT !.stage = "canceling", !.version = visits[door.target].version]
  /\ door'.made <= MaxKeys
  /\ UNCHANGED <<visits, tab>>

\* A close whose version moved reads once more; a discard gives up.
discardBlockingSession(heard) ==
  /\ door.stage = "canceling"
  /\ visits' = CancelApplied(door.target, door.version)
  /\ LET answer == cancel(door.target, door.version) IN
     door' = IF ~heard THEN NotRemoved
             ELSE IF answer \in {"canceled", "410"} THEN Removed
             ELSE IF answer = "412" /\ door.tries = 2
             THEN [door EXCEPT !.stage = "reading", !.tries = 1]
             ELSE NotRemoved
  /\ door'.made <= MaxKeys
  /\ UNCHANGED tab

\* A reload loses everything but the stored key.
KioskReloads ==
  /\ door.stage # "idle" \/ door.shown # 0
  /\ door' = [Failed EXCEPT !.shown = 0]
  /\ UNCHANGED <<visits, tab>>

-----------------------------------------------------------------------------
(* The phone *)

MayLoad == FoldFunction(LAMBDA page, n : page.loads + n, 0, tab) < MaxLoads

\* The code on the screen is photographed; the page takes the token out of
\* the address before anything else runs.
captureQrGrant(t) ==
  /\ door.stage = "showing" /\ tab[t].page \in {"away", "failed", "closed"}
  /\ MayLoad
  /\ tab' = [tab EXCEPT ![t].page = "opened", ![t].at = door.shown, ![t].token = TRUE,
                        ![t].nonce = NoNonce, ![t].loads = @ + 1]
  /\ UNCHANGED <<visits, door>>

PhoneReloads(t) ==
  /\ tab[t].page # "away" /\ MayLoad
  /\ tab' = [tab EXCEPT ![t].page = "opened", ![t].token = FALSE,
                        ![t].nonce = NoNonce, ![t].loads = @ + 1]
  /\ UNCHANGED <<visits, door>>

\* Kept in memory, then in storage, and only then made.
getOrCreateNonce(t) ==
  IF tab[t].nonce # NoNonce THEN tab[t].nonce
  ELSE IF tab[t].stored[tab[t].at] # NoNonce THEN tab[t].stored[tab[t].at]
  ELSE <<t, tab[t].loads>>

\* The exchange: the code stays in memory, with its nonce, until it succeeds.
createMobileBootstrap(t, heard) ==
  /\ tab[t].page = "opened" /\ tab[t].token
  /\ LET s == tab[t].at
         n == getOrCreateNonce(t)
         answer == exchange(s, n) IN
     /\ visits' = IF answer = "joined"
                  THEN [visits EXCEPT ![s].grant = "CLAIMED", ![s].by = n] ELSE visits
     /\ IF heard /\ answer = "joined"
        THEN tab' = [tab EXCEPT ![t].page = "joined", ![t].token = FALSE, ![t].nonce = NoNonce,
                                ![t].stored[s] = NoNonce, ![t].cookies = @ \cup {s}]
        ELSE tab' = [tab EXCEPT ![t].page = IF heard THEN "failed" ELSE "opened",
                                ![t].nonce = n,
                                ![t].stored[s] = IF t \in PrivateTabs THEN @ ELSE n]
  /\ UNCHANGED door

\* A page without a code asks who its cookie is.
PhoneContext(t) ==
  /\ tab[t].page = "opened" /\ ~tab[t].token
  /\ tab' = [tab EXCEPT ![t].page =
       IF authenticate(t, tab[t].at) = "joined" THEN "joined" ELSE "failed"]
  /\ UNCHANGED <<visits, door>>

\* Thirty seconds, a reconnection or a file event: the page asks whether its
\* session is still open, and closes for good when it is not.
verifyAuthoritativeState(t) ==
  /\ tab[t].page \in {"joined", "sending"}
  /\ authenticate(t, tab[t].at) = "closed"
  /\ tab' = [tab EXCEPT ![t].page = "closed"]
  /\ UNCHANGED <<visits, door>>

\* A batch is sent one document at a time, each after a look at the session.
uploadSelection(t) ==
  /\ tab[t].page = "joined"
  /\ tab' = [tab EXCEPT ![t].page =
       IF authenticate(t, tab[t].at) = "joined" THEN "sending" ELSE "closed"]
  /\ UNCHANGED <<visits, door>>

Moved(s, state) ==
  /\ canTransitionSession(visits[s].state, state)
  /\ visits[s].version < MaxVersion \/ state \in TERMINAL
  /\ visits' = [visits EXCEPT ![s].state = state, ![s].version = @ + 1]

\* The document arrives; validated, it moves the session on.
uploadFile(t) ==
  /\ tab[t].page = "sending"
  /\ LET s == tab[t].at IN
     IF authenticate(t, s) = "joined"
     THEN /\ tab' = [tab EXCEPT ![t].page = "joined"]
          /\ Moved(s, "FILES_UPLOADED") \/ UNCHANGED visits
     ELSE tab' = [tab EXCEPT ![t].page = "closed"] /\ UNCHANGED visits
  /\ UNCHANGED door

removeFile(t) ==
  /\ tab[t].page = "joined" /\ authenticate(t, tab[t].at) = "joined"
  /\ Moved(tab[t].at, "WAITING_FOR_UPLOAD")
  /\ UNCHANGED <<door, tab>>

-----------------------------------------------------------------------------
(* What the rest of the system does to a session *)

TimePasses(s) ==
  /\ visits[s].state \in EXPIRABLE /\ ~visits[s].late
  /\ visits' = [visits EXCEPT ![s].late = TRUE]
  /\ UNCHANGED <<door, tab>>

\* Checkout and printing: paid for at the screen, then printed or not.
SessionMoves(s) ==
  /\ \/ door.shown = s /\ ~visits[s].late /\ Moved(s, "AWAITING_PAYMENT")
     \/ visits[s].state = "AWAITING_PAYMENT" /\ Moved(s, "PAID")
     \/ \E state \in {"COMPLETED", "RECOVERY_REQUIRED"} : Moved(s, state)
  /\ UNCHANGED <<door, tab>>

MobileNext ==
  \/ createKioskSession \/ closeKioskSession \/ KioskReloads
  \/ \E ready, heard \in BOOLEAN : postCreateSession(ready, heard)
  \/ \E heard \in BOOLEAN : ReadBeforeCancel(heard) \/ discardBlockingSession(heard)
  \/ \E t \in Tabs :
       \/ captureQrGrant(t) \/ PhoneReloads(t) \/ PhoneContext(t)
       \/ \E heard \in BOOLEAN : createMobileBootstrap(t, heard)
       \/ verifyAuthoritativeState(t) \/ uploadSelection(t) \/ uploadFile(t) \/ removeFile(t)
  \/ \E s \in VisitIds : TimePasses(s) \/ SessionMoves(s)

MobileSpec == MobileInit /\ [][MobileNext]_mobileVars

-----------------------------------------------------------------------------

\* The customer's documents stay the customer's (sessions/service.ts
\* restoreCreateResponse): whatever was lost or reloaded, a session that comes
\* onto the screen is one that no phone has entered.
FreshScreenIsUnclaimed ==
  [][ door'.shown \notin {0, door.shown} =>
        /\ visits'[door'.shown].grant = "ACTIVE"
        /\ \A t \in Tabs : door'.shown \notin tab'[t].cookies ]_mobileVars

\* One phone per code (mobile-access/service.ts exchange), and the phone whose
\* answer was lost can still come back (bootstrap.ts getOrCreateNonce): the
\* nonce that claimed a session is in the memory or the storage of the tab that
\* made it until that tab has its cookie, reloads included, unless the browser
\* keeps no storage.
ClaimStaysWithItsPhone ==
  \A s \in VisitIds :
    /\ Cardinality({t \in Tabs : s \in tab[t].cookies}) <= 1
    /\ visits[s].grant = "CLAIMED" =>
         LET t == visits[s].by[1] IN
         \/ s \in tab[t].cookies \/ t \in PrivateTabs
         \/ visits[s].by \in {tab[t].nonce, tab[t].stored[s]}

\* A code is one phone's, on the screen and in the ledger.
CodesAreKept == [](MobileTypeOK /\ ClaimStaysWithItsPhone) /\ FreshScreenIsUnclaimed
=============================================================================
