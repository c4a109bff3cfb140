---------------------------- MODULE AdminConsole ----------------------------
(***************************************************************************)
(* The console's sign-in state in the browser: SessionProvider.tsx and     *)
(* useAdminAction.ts, over the sessions the server keeps.  The tabs of one *)
(* browser profile share its cookies; each tab shows whom it believes is   *)
(* signed in.  A request is served with the cookie of the moment it is     *)
(* sent; its answer arrives in a later step, or the request fails, having  *)
(* been served or not.  Cookies an answer sets are stored on arrival.      *)
(*                                                                         *)
(* generation.current and requestGeneration are compared for equality      *)
(* only: what is in flight is fresh until the tab's generation moves on.   *)
(***************************************************************************)
EXTENDS Naturals, Sequences, FiniteSets

CONSTANTS
  Accounts,     \* people who use this browser profile
  Privileged,   \* those who prove presence with a key, not a password
  ConsoleTabs          \* tabs followed; the others are OtherTab

ASSUME ConsoleAssumption ==
  /\ IsFiniteSet(Accounts) /\ Privileged \subseteq Accounts
  /\ IsFiniteSet(ConsoleTabs)

VARIABLES
  jar,        \* the session whose token the shared cookie holds
  shown,      \* per tab: status and account on screen
  refreshes,  \* per tab: the refresh in flight, or Idle
  op,         \* per tab: the operation in flight, or Idle
  deed,       \* what the server did in this step: whose, and whom the tab showed
  left        \* tabs whose sign-out was sent, with no sign-in since

consoleVars == <<jar, shown, refreshes, op, deed, left>>

Nobody == "nobody"
Idle == [kind |-> "idle"]
Out == [is |-> "out", account |-> Nobody]
Loading == [is |-> "loading", account |-> Nobody]
In(a) == [is |-> "in", account |-> a]
Locked(a) == [is |-> "locked", account |-> a]

Lost == [is |-> "lost", account |-> Nobody]
SignInFirst == [is |-> "signin", account |-> Nobody]
Refused == [is |-> "refused", account |-> Nobody]

-----------------------------------------------------------------------------
(* The server's side of a request *)

NoSession == [account |-> Nobody, state |-> "gone", proved |-> FALSE]
NewSession(a) == [account |-> a, state |-> "active", proved |-> TRUE]
LiveSession == jar.state # "gone"

\* GET /me answers for a locked session too.
me ==
  IF ~LiveSession THEN SignInFirst
  ELSE [is |-> jar.state, account |-> jar.account]

\* authorizeAdmin for a capability that asks for fresh proof.
Authorized ==
  IF me.is # "active" THEN me
  ELSE IF ~jar.proved THEN [is |-> "stepup", account |-> jar.account]
  ELSE me

-----------------------------------------------------------------------------
(* Requests of a tab *)

\* generation += 1: nothing that is in flight in the tab is fresh any more.
Bump(t) ==
  refreshes' = [refreshes EXCEPT ![t] =
    IF @ = Idle THEN Idle ELSE [@ EXCEPT !.fresh = FALSE]]

Ask(t, o, step, reply) ==
  \E got \in {reply, Lost} :
    op' = [op EXCEPT ![t] = [o EXCEPT !.step = step, !.got = got,
             !.next = IF step = "confirm" THEN @ ELSE "none"]]

Quit(t) == op' = [op EXCEPT ![t] = Idle]

Operation(kind, a) ==
  [kind |-> kind, step |-> "new", next |-> "none", back |-> "none",
   expected |-> a, owner |-> Nobody, again |-> FALSE, fresh |-> TRUE, got |-> Lost]

Confirm(t, o, next) == Ask(t, [o EXCEPT !.next = next], "confirm", me)

\* applyMe
Applied(t, reply) ==
  shown' = [shown EXCEPT ![t] =
    IF reply.is = "locked" THEN Locked(reply.account) ELSE In(reply.account)]

SignedOut(t) == shown' = [shown EXCEPT ![t] = Out]

-----------------------------------------------------------------------------
(* refresh *)

\* Joins the refresh in flight, whichever generation that belongs to.
refresh(t, flights) ==
  refreshes' =
    IF flights[t] # Idle THEN flights
    ELSE [flights EXCEPT ![t] = [kind |-> "refresh", fresh |-> TRUE, got |-> me]]

\* The retry button under an error, and the first render.
Retry(t) ==
  /\ refreshes[t] = Idle /\ refresh(t, refreshes)
  /\ shown' = [shown EXCEPT ![t] = IF @ = Out THEN Loading ELSE @]
  /\ UNCHANGED <<jar, op, left>>

\* What an answer changes on screen, if it is still fresh.
refreshed(t, r) ==
  \/ ~r.fresh /\ UNCHANGED shown
  \/ r.fresh /\ r.got.is \in {"active", "locked"} /\ Applied(t, r.got)
  \/ r.fresh /\ r.got.is = "signin" /\ SignedOut(t)

RefreshArrives(t) ==
  /\ refreshes[t] # Idle
  /\ refreshes' = [refreshes EXCEPT ![t] = Idle]
  /\ \/ refreshed(t, refreshes[t])
     \/ shown' = [shown EXCEPT ![t] = IF @ = Loading THEN Out ELSE @]  \* it failed
  /\ UNCHANGED <<jar, op, left>>

\* Everything in flight in the tab goes stale, and maybe a refresh is sent.
Stale(t) == IF op[t] = Idle THEN Idle ELSE [op[t] EXCEPT !.fresh = FALSE]
StaleRefreshes(t) ==
  [refreshes EXCEPT ![t] = IF @ = Idle THEN Idle ELSE [@ EXCEPT !.fresh = FALSE]]

\* A panel's read finds the session gone or locked.
handleAuthenticationError(t, reply) ==
  \/ reply.is = "signin" /\ SignedOut(t) /\ Bump(t)
  \/ reply.is = "locked" /\ refresh(t, StaleRefreshes(t)) /\ UNCHANGED shown

Poll(t) ==
  /\ shown[t].is = "in" /\ me.is \in {"signin", "locked"}
  /\ handleAuthenticationError(t, me)
  /\ op' = [op EXCEPT ![t] = Stale(t)]
  /\ UNCHANGED <<jar, left>>

-----------------------------------------------------------------------------
(* Signing in and out *)

signIn(t, a) ==
  /\ shown[t] = Out /\ op[t] = Idle
  /\ Bump(t) /\ left' = {}
  /\ Ask(t, Operation("signIn", a), "login",
         [is |-> IF a \in Privileged THEN "key" ELSE "opened", account |-> a])
  /\ UNCHANGED <<jar, shown>>

\* The key is touched, or the prompt dismissed.
completeLoginWebAuthn(t) ==
  /\ op[t] # Idle /\ op[t].step = "login" /\ op[t].got.is = "key"
  /\ \/ /\ Ask(t, op[t], "login", [is |-> "opened", account |-> op[t].expected])
        /\ UNCHANGED shown
     \/ /\ Quit(t)
        /\ IF op[t].fresh THEN SignedOut(t) ELSE UNCHANGED shown
  /\ UNCHANGED <<jar, refreshes, left>>

signedIn(t) ==
  /\ op[t] # Idle /\ op[t].step = "login" /\ op[t].got.is \in {"opened", "lost"}
  /\ Quit(t)
  /\ IF op[t].got.is = "opened"
     THEN /\ jar' = NewSession(op[t].got.account) /\ left' = {}
          /\ IF op[t].fresh THEN Applied(t, op[t].got) ELSE UNCHANGED shown
     ELSE /\ IF op[t].fresh THEN SignedOut(t) ELSE UNCHANGED shown
          /\ UNCHANGED <<jar, left>>
  /\ UNCHANGED refreshes

\* A locked session's key touch or password; its answer reopens the session.
unlock(t) ==
  /\ shown[t].is = "locked" /\ op[t] = Idle
  /\ IF me.is = "locked" /\ jar.account = shown[t].account
     THEN /\ jar' = NewSession(jar.account)
          /\ Ask(t, Operation("unlock", jar.account), "unlock",
                 [is |-> "active", account |-> jar.account])
     ELSE /\ Ask(t, Operation("unlock", shown[t].account), "unlock",
                 IF me = SignInFirst THEN SignInFirst ELSE Refused)
          /\ UNCHANGED jar
  /\ UNCHANGED <<shown, refreshes, left>>

unlocked(t) ==
  /\ op[t] # Idle /\ op[t].step = "unlock" /\ Quit(t)
  /\ \/ op[t].fresh /\ op[t].got.is = "active" /\ Applied(t, op[t].got)
     \/ op[t].fresh /\ op[t].got.is = "signin" /\ SignedOut(t)
     \/ (~op[t].fresh \/ op[t].got.is \in {"lost", "refused"}) /\ UNCHANGED shown
  /\ UNCHANGED <<jar, refreshes, left>>

Logout(t, o) ==
  /\ Bump(t) /\ left' = left \cup {t}
  /\ \/ /\ LiveSession
        /\ jar' = [jar EXCEPT !.state = "gone"]
        /\ Ask(t, [o EXCEPT !.fresh = TRUE], "logout", [is |-> "out", account |-> Nobody])
     \/ /\ ~LiveSession /\ UNCHANGED jar
        /\ Ask(t, [o EXCEPT !.fresh = TRUE], "logout", SignInFirst)

Confirmed(t, next) ==
  /\ op[t] # Idle /\ op[t].step = "confirm" /\ op[t].next = next /\ op[t].fresh
  /\ op[t].got = [is |-> "active", account |-> op[t].expected]

\* A locked session signs out directly; an active one is confirmed first.
signOut(t) ==
  /\ op[t] = Idle
  /\ \/ /\ shown[t].is = "in"
        /\ Confirm(t, Operation("signOut", shown[t].account), "logout")
        /\ UNCHANGED <<jar, refreshes, left>>
     \/ shown[t].is = "locked" /\ Logout(t, Operation("signOut", shown[t].account))
  /\ UNCHANGED shown

signOutConfirmed(t) ==
  /\ Confirmed(t, "logout") /\ Logout(t, op[t])
  /\ Applied(t, op[t].got)

\* The answer empties the jar, whoever's session is in it by now.
signedOut(t) ==
  /\ op[t] # Idle /\ op[t].step = "logout" /\ Quit(t)
  /\ jar' = IF op[t].got = Out THEN NoSession ELSE jar
  /\ IF op[t].fresh /\ op[t].got \in {Out, SignInFirst}
     THEN SignedOut(t) /\ UNCHANGED left
     ELSE UNCHANGED shown /\ left' = left \ {t}
  /\ UNCHANGED refreshes

-----------------------------------------------------------------------------
(* Actions, each after the account was confirmed *)

\* confirmCurrentIdentity, where it says no.
notConfirmed(t) ==
  /\ op[t] # Idle /\ op[t].step = "confirm" /\ Quit(t)
  /\ LET o == op[t] IN
     \/ (~o.fresh \/ o.got.is = "lost") /\ UNCHANGED <<shown, refreshes>>
     \/ o.fresh /\ o.got.is = "locked" /\ Applied(t, o.got) /\ UNCHANGED refreshes
     \/ o.fresh /\ o.got.is = "active" /\ o.got.account # o.expected
        /\ Applied(t, o.got) /\ Bump(t)
     \/ o.fresh /\ o.got.is = "signin" /\ SignedOut(t) /\ Bump(t)
     \/ o.next = "none" /\ o.fresh /\ o.got.is = "active"
        /\ Applied(t, o.got) /\ UNCHANGED refreshes
  /\ UNCHANGED <<jar, left>>

\* run and enrolAuthenticator: whom the tab shows is confirmed first.
run(t, kind) ==
  /\ shown[t].is = "in" /\ op[t] = Idle
  /\ Confirm(t, Operation(kind, shown[t].account),
             IF kind = "act" THEN "perform" ELSE "begin")
  /\ UNCHANGED <<jar, shown, refreshes, left>>

\* Presence was proved: the request that asked for it is made again.
Proved(t, back) ==
  /\ op[t] # Idle /\ op[t].step = "proof" /\ op[t].back = back
  /\ op[t].got.is = "active"

Reached(t, step) == Confirmed(t, step) \/ Proved(t, step)

\* applyMe of the answer that led here.
Redraw(t) == IF op[t].fresh THEN Applied(t, op[t].got) ELSE UNCHANGED shown

Deed(kind, o) == [kind |-> kind, by |-> jar.account, as |-> o.expected]
NoDeed == [kind |-> "none", by |-> Nobody, as |-> Nobody]

\* What the request does on the server, whether or not its answer arrives.
perform(t) ==
  /\ Reached(t, "perform")
  /\ LET o == [op[t] EXCEPT !.again = op[t].step = "proof"] IN
       Ask(t, o, "perform", Authorized)
  /\ deed' = IF Authorized.is = "active" THEN Deed("act", op[t]) ELSE NoDeed
  /\ Redraw(t)
  /\ UNCHANGED <<jar, refreshes, left>>

beginEnrolment(t) ==
  /\ Reached(t, "begin")
  /\ LET o == [op[t] EXCEPT !.again = op[t].step = "proof"] IN
       Ask(t, o, "begin", Authorized)
  /\ Redraw(t)
  /\ UNCHANGED <<jar, refreshes, left>>

\* Mutant: the options are handed to the browser whosever they are.
OwnCeremonyUnchecked(o) == o.got.is = "active"

\* The ceremony belongs to the account the tab showed when it began.
OwnCeremony(o) == o.got.is = "active" /\ o.got.account = o.expected

\* The server binds the registration to the account that began it.
Enrol(t, owner, again) ==
  LET reply == IF Authorized.is = "active" /\ jar.account # owner THEN Refused
               ELSE Authorized
  IN /\ Ask(t, [op[t] EXCEPT !.owner = owner, !.again = again], "complete", reply)
     /\ deed' = IF reply.is = "active" THEN Deed("enrol", op[t]) ELSE NoDeed

completeEnrolment(t) ==
  /\ \/ /\ op[t] # Idle /\ op[t].step = "begin" /\ OwnCeremony(op[t])
        /\ Enrol(t, op[t].got.account, FALSE) /\ UNCHANGED shown
     \/ Proved(t, "complete") /\ Enrol(t, op[t].owner, TRUE) /\ Redraw(t)
  /\ UNCHANGED <<jar, refreshes, left>>

\* A request came back: step up and make it again, once, or be done.
returned(t) ==
  /\ op[t] # Idle /\ op[t].step \in {"perform", "begin", "complete"}
  /\ LET o == op[t] IN
     \/ /\ o.got.is = "stepup" /\ ~o.again
        /\ Confirm(t, [o EXCEPT !.back = o.step], "stepUp")
        /\ UNCHANGED <<shown, refreshes>>
     \/ /\ o.step = "begin" /\ o.got.is = "active" /\ o.got.account # o.expected
        /\ Confirm(t, o, "none")
        /\ UNCHANGED <<shown, refreshes>>
     \/ /\ o.got.is \in {"lost", "refused"} \/ (o.got.is = "stepup" /\ o.again)
           \/ (o.got.is = "active" /\ o.step # "begin")
        /\ Quit(t) /\ UNCHANGED <<shown, refreshes>>
     \/ o.got.is \in {"signin", "locked"} /\ Quit(t)
        /\ handleAuthenticationError(t, o.got)
  /\ UNCHANGED <<jar, left>>

\* stepUp once the account is confirmed: a ceremony for a key, a dialog for a
\* password.
stepUp(t) ==
  /\ Confirmed(t, "stepUp") /\ Bump(t) /\ Applied(t, op[t].got)
  /\ IF op[t].expected \in Privileged THEN Ask(t, op[t], "ceremony", me)
     ELSE op' = [op EXCEPT ![t].step = "ceremony", ![t].got = op[t].got]
  /\ UNCHANGED <<jar, left>>

\* The key is touched or the password typed: either proves the expected
\* account only, and refreshes the session in the jar.
proveIt(t) ==
  /\ op[t] # Idle /\ op[t].step = "ceremony" /\ OwnCeremony(op[t])
  /\ IF me = [is |-> "active", account |-> op[t].expected]
     THEN /\ jar' = [jar EXCEPT !.proved = TRUE]
          /\ Ask(t, op[t], "proof", me)
     ELSE /\ Ask(t, op[t], "proof", IF me.is = "active" THEN Refused ELSE me)
          /\ UNCHANGED jar
  /\ UNCHANGED <<shown, refreshes, left>>

\* The prompt is dismissed, the ceremony is another account's, or the proof
\* was refused.
notProved(t) ==
  /\ op[t] # Idle
  /\ LET o == op[t] IN
     \/ /\ o.step = "ceremony" /\ o.got.is = "active"
        /\ \/ o.got.account # o.expected /\ Confirm(t, o, "none")
           \/ o.got.account = o.expected /\ Quit(t)
        /\ UNCHANGED <<shown, refreshes>>
     \/ /\ o.step \in {"ceremony", "proof"} /\ o.got.is # "active" /\ Quit(t)
        /\ IF o.fresh /\ o.got.is = "signin" THEN SignedOut(t) /\ UNCHANGED refreshes
           ELSE IF o.fresh /\ o.got.is = "locked"
           THEN refresh(t, refreshes) /\ UNCHANGED shown
           ELSE UNCHANGED <<shown, refreshes>>
  /\ UNCHANGED <<jar, left>>

\* The next request never reaches the server: the operation ends in an error.
Unserved(t) ==
  /\ op[t] # Idle /\ op[t].step \in {"confirm", "begin", "ceremony", "proof"}
  /\ Quit(t)
  /\ UNCHANGED <<jar, shown, refreshes, left>>

-----------------------------------------------------------------------------
(* Time, and what happens to a session elsewhere *)

\* Idle too long, revoked or expired, and proof that has aged.
HolderMoves ==
  /\ LiveSession
  /\ \/ jar.state = "active" /\ jar' = [jar EXCEPT !.state = "locked"]
     \/ jar' = [jar EXCEPT !.state = "gone"]
     \/ jar.proved /\ jar' = [jar EXCEPT !.proved = FALSE]
  /\ UNCHANGED <<shown, refreshes, op, left>>

\* Another tab's sign-in, sign-out or proof reaches this one through the jar
\* and the session in it only.
OtherTab ==
  /\ \/ left' = {} /\ \E a \in Accounts : jar' = NewSession(a)
     \/ LiveSession /\ jar' = NoSession /\ UNCHANGED left
     \/ LiveSession /\ jar' = NewSession(jar.account) /\ UNCHANGED left
  /\ UNCHANGED <<shown, refreshes, op>>

\* The timer on hardExpiresAt.
Expire(t) ==
  /\ shown[t].is = "in" /\ SignedOut(t) /\ Bump(t)
  /\ op' = [op EXCEPT ![t] = Stale(t)]
  /\ UNCHANGED <<jar, left>>

ConsoleInit ==
  /\ jar = NoSession /\ deed = NoDeed /\ left = {}
  /\ shown = [t \in ConsoleTabs |-> Out]
  /\ refreshes = [t \in ConsoleTabs |-> Idle] /\ op = [t \in ConsoleTabs |-> Idle]

ConsoleNext ==
  \/ \E t \in ConsoleTabs : perform(t) \/ completeEnrolment(t)
  \/ /\ deed' = NoDeed
     /\ \/ \E t \in ConsoleTabs :
             \/ Retry(t) \/ RefreshArrives(t) \/ Poll(t) \/ Expire(t)
             \/ \E a \in Accounts : signIn(t, a)
             \/ completeLoginWebAuthn(t) \/ signedIn(t) \/ unlock(t) \/ unlocked(t)
             \/ signOut(t) \/ signOutConfirmed(t) \/ signedOut(t) \/ notConfirmed(t)
             \/ \E k \in {"act", "enrol"} : run(t, k)
             \/ beginEnrolment(t) \/ returned(t)
             \/ stepUp(t) \/ proveIt(t) \/ notProved(t) \/ Unserved(t)
        \/ HolderMoves \/ OtherTab

ConsoleSpec == ConsoleInit /\ [][ConsoleNext]_consoleVars

ConsoleTypeOK ==
  /\ jar \in [account : Accounts \cup {Nobody},
             state : {"active", "locked", "gone"}, proved : BOOLEAN]
  /\ \A t \in ConsoleTabs : shown[t].account \in Accounts \cup {Nobody}
  /\ left \subseteq ConsoleTabs

-----------------------------------------------------------------------------
(* Properties *)

\* A key is enrolled on the account its tab was showing when the person asked
\* for it, whichever tab signs in as somebody else while the ceremony is under
\* way (enrolAuthenticator's comparison, the owner the server binds it to).
EnrolsForShown == deed.kind = "enrol" => deed.by = deed.as

\* A tab that signed out does not show anybody again until somebody signs in:
\* answers asked for before are stale when they arrive (generation).
SignedOutStaysOut ==
  \A t \in left : op[t] = Idle \/ op[t].step # "logout" => shown[t] \in {Out, Loading}

\* What a tab does and shows is the account's it was signed in as.
ConsoleIsItsPersons == ConsoleTypeOK /\ EnrolsForShown /\ SignedOutStaysOut
=============================================================================
