---------------------------- MODULE SessionEvents ----------------------------
(***************************************************************************)
(* How what happens to a session reaches the kiosk's screen: the outbox    *)
(* row written with the change, the worker's publisher                     *)
(* (publish-outbox.ts), the API's delivery worker and socket (gateway.ts), *)
(* the agent's relay (events.ts) and its local stream (app.ts), and the    *)
(* screen's reader (sessionEvents.ts).                                     *)
(*                                                                         *)
(* One session, one screen.  The socket only prompts: the relay always     *)
(* replays from the database.  An event is its sequence number, and Story  *)
(* gives its type.  A claim's random token is the number of claims the row *)
(* has seen.                                                               *)
(***************************************************************************)
EXTENDS Integers, Sequences, FiniteSets, TLC

LOCAL INSTANCE FiniteSetsExt

CONSTANTS
  Publishers,   \* worker processes
  Story,        \* the types of the session's events, in order
  MaxClaims,    \* bound on the claims of outbox rows
  MaxAttempts,  \* MAX_PUBLISH_ATTEMPTS
  PageSize,     \* REPLAY_PAGE_SIZE
  MaxDrops      \* bound on lost connections

\* What a payload keeps of what the services wrote, by the event's type: no
\* device string, no provider reference, no document identity.
SafePayload ==
  LET of(types, fields) == [t \in types |-> {"sessionId"} \cup fields]
      moved == {"state", "version"}
      money == moved \cup {"paymentId", "quoteId", "currency", "currencyExponent", "amountMinor"}
  IN  of({"session.created", "session.completed", "session.canceled", "session.expired"}, moved)
   @@ of({"mobile.connected"}, {})
   @@ of({"upload.started", "file.uploaded", "file.ready", "file.rejected"}, {"file"})
   @@ of({"file.deleted"}, {"fileId"})
   @@ of({"settings.updated"}, moved \cup {"settingsRevision", "selectedPages",
                                          "printedSides", "physicalSheets"})
   @@ of({"quote.created"}, {"quoteId", "settingsRevision", "pricingVersion", "currency",
                             "currencyExponent", "totalMinor", "expiresAt"})
   @@ of({"quote.invalidated"}, {"quoteId", "reason"})
   @@ of({"payment.pending"}, money \cup {"expiresAt"})
   @@ of({"payment.succeeded"}, money \cup {"capturedAt"})
   @@ of({"payment.failed"}, moved \cup {"paymentId", "status", "failureCode"})
   @@ of({"print.started"}, moved \cup {"printJobId"})
   @@ of({"print.failed", "print.recovery_required"},
         moved \cup {"printJobId", "failureCode", "resultConfidence"})
   @@ of({"cleanup.completed"}, {"filesDeletedAt"})

ASSUME EventsAssumption ==
  /\ IsFiniteSet(Publishers) /\ Story \in Seq(DOMAIN SafePayload) /\ MaxClaims \in Nat
  /\ MaxAttempts \in Nat \ {0} /\ PageSize \in Nat \ {0} /\ MaxDrops \in Nat

VARIABLES
  sequence,   \* print_sessions.event_sequence
  row,        \* outbox_events
  stored,     \* session_events
  jobs,       \* the delivery queue, its finished jobs kept
  publisher,  \* per process: what it is publishing, or Resting
  socket,     \* the agent's connection is up
  wire,       \* events emitted on it and not yet heard
  sub,        \* the relay's subscription for the screen
  stream,     \* events written to the screen's stream and not yet read
  screen,     \* the last event the screen has read
  drops       \* connections lost so far

outboxVars == <<row, publisher>>
relayVars == <<sub, stream>>
eventsVars == <<sequence, row, stored, jobs, publisher, socket, wire, sub,
                stream, screen, drops>>

MaxEvents == Len(Story)
EventIds == 1..MaxEvents
NoRow == [status |-> "none", claims |-> 0]
Resting == [stage |-> "resting"]
NoSubscription == [stage |-> "closed"]

Work == [stage : {"looked", "claimed", "stored", "queued"},
         event : EventIds, attempts : Nat, token : Nat]

Subscription == [stage : {"idle", "asked", "counted", "answered"},
                 cursor : 0..MaxEvents, latest : 0..MaxEvents,
                 page : SUBSET EventIds, hasMore : BOOLEAN,
                 resyncRequested : BOOLEAN, retryTimer : BOOLEAN]

EventsTypeOK ==
  /\ sequence \in 0..MaxEvents /\ screen \in 0..MaxEvents
  /\ row \in [EventIds -> [status : {"none", "PENDING", "PROCESSING", "PUBLISHED", "FAILED"},
                           claims : Nat]]
  /\ stored \subseteq EventIds /\ wire \subseteq EventIds
  /\ jobs \in [EventIds -> {"none", "waiting", "done"}]
  /\ \A p \in Publishers : publisher[p] = Resting \/ publisher[p] \in Work
  /\ socket \in BOOLEAN /\ drops \in 0..MaxDrops
  /\ sub = NoSubscription \/ sub \in Subscription
  /\ stream \in Seq(EventIds)

EventsInit ==
  /\ sequence = 0 /\ row = [e \in EventIds |-> NoRow] /\ stored = {}
  /\ jobs = [e \in EventIds |-> "none"]
  /\ publisher = [p \in Publishers |-> Resting]
  /\ socket = FALSE /\ wire = {} /\ sub = NoSubscription /\ stream = <<>>
  /\ screen = 0 /\ drops = 0

\* A transaction on the session: the counter and the outbox row together.
SessionChanges ==
  /\ sequence < MaxEvents
  /\ sequence' = sequence + 1
  /\ row' = [row EXCEPT ![sequence + 1].status = "PENDING"]
  /\ UNCHANGED <<stored, jobs, publisher, socket, wire, relayVars, screen, drops>>

-----------------------------------------------------------------------------
(* The publisher *)

ClaimsMade == MapThenSumSet(LAMBDA e : row[e].claims, EventIds)

\* PENDING and due, or PROCESSING and stale: how long a row has waited is not
\* modelled, so a row that was claimed before may or may not be due.
Claimable(e) == row[e].status \in {"PENDING", "PROCESSING"}

\* tick: the oldest claimable row is read.
claimNext(p) ==
  /\ publisher[p] = Resting
  /\ \E e \in EventIds :
       /\ Claimable(e) /\ ClaimsMade < MaxClaims
       /\ \A f \in 1..(e - 1) : Claimable(f) => row[f].claims > 0
       /\ publisher' = [publisher EXCEPT ![p] =
            [stage |-> "looked", event |-> e, attempts |-> row[e].claims + 1, token |-> 0]]
  /\ UNCHANGED <<sequence, row, stored, jobs, socket, wire, relayVars, screen, drops>>

\* The conditional update: a row published or failed meanwhile is left alone.
claimed(p) ==
  /\ publisher[p].stage = "looked"
  /\ LET e == publisher[p].event IN
     IF Claimable(e)
     THEN /\ ClaimsMade < MaxClaims
          /\ row' = [row EXCEPT ![e] = [status |-> "PROCESSING", claims |-> @.claims + 1]]
          /\ publisher' = [publisher EXCEPT ![p].stage = "claimed",
                                            ![p].token = row[e].claims + 1]
     ELSE publisher' = [publisher EXCEPT ![p] = Resting] /\ UNCHANGED row
  /\ UNCHANGED <<sequence, stored, jobs, socket, wire, relayVars, screen, drops>>

\* A type outside the table throws OUTBOX_EVENT_TYPE_UNSUPPORTED; every type
\* the services write is in it.
toSafeSessionEvent(e) == Story[e] \in DOMAIN SafePayload

materialize(p) ==
  /\ publisher[p].stage = "claimed" /\ toSafeSessionEvent(publisher[p].event)
  /\ stored' = stored \cup {publisher[p].event}
  /\ publisher' = [publisher EXCEPT ![p].stage = "stored"]
  /\ UNCHANGED <<sequence, row, jobs, socket, wire, relayVars, screen, drops>>

\* The event's id is the job's: a job that was ever added is not added again.
queueAdd(p) ==
  /\ publisher[p].stage = "stored"
  /\ jobs' = [jobs EXCEPT ![publisher[p].event] = IF @ = "none" THEN "waiting" ELSE @]
  /\ publisher' = [publisher EXCEPT ![p].stage = "queued"]
  /\ UNCHANGED <<sequence, row, stored, socket, wire, relayVars, screen, drops>>

HoldsRow(p) ==
  LET w == publisher[p] IN row[w.event] = [status |-> "PROCESSING", claims |-> w.token]

publishNext(p) ==
  /\ publisher[p].stage = "queued"
  /\ IF HoldsRow(p)
     THEN row' = [row EXCEPT ![publisher[p].event].status = "PUBLISHED"]
     ELSE UNCHANGED row
  /\ publisher' = [publisher EXCEPT ![p] = Resting]
  /\ UNCHANGED <<sequence, stored, jobs, socket, wire, relayVars, screen, drops>>

\* The database or the queue refused one of the three steps.
releaseFailure(p) ==
  /\ publisher[p].stage \in {"claimed", "stored", "queued"}
  /\ IF HoldsRow(p)
     THEN row' = [row EXCEPT ![publisher[p].event].status =
            IF publisher[p].attempts >= MaxAttempts THEN "FAILED" ELSE "PENDING"]
     ELSE UNCHANGED row
  /\ publisher' = [publisher EXCEPT ![p] = Resting]
  /\ UNCHANGED <<sequence, stored, jobs, socket, wire, relayVars, screen, drops>>

PublisherCrashes(p) ==
  /\ publisher[p] # Resting
  /\ publisher' = [publisher EXCEPT ![p] = Resting]
  /\ UNCHANGED <<sequence, row, stored, jobs, socket, wire, relayVars, screen, drops>>

-----------------------------------------------------------------------------
(* The gateway and the socket *)

\* Delivered to whoever is in the kiosk's room at this moment, which may be
\* nobody; the job is finished all the same.
deliveryWorker(e) ==
  /\ jobs[e] = "waiting"
  /\ jobs' = [jobs EXCEPT ![e] = "done"]
  /\ wire' = IF socket THEN wire \cup {e} ELSE wire
  /\ UNCHANGED <<sequence, outboxVars, stored, socket, relayVars, screen, drops>>

SocketDrops ==
  /\ socket /\ drops < MaxDrops
  /\ socket' = FALSE /\ wire' = {} /\ drops' = drops + 1
  /\ UNCHANGED <<sequence, outboxVars, stored, jobs, relayVars, screen>>

-----------------------------------------------------------------------------
(* The relay *)

Asked(cursor) ==
  [stage |-> "asked", cursor |-> cursor, latest |-> 0, page |-> {}, hasMore |-> FALSE,
   resyncRequested |-> FALSE, retryTimer |-> FALSE]

\* Mutant: a prompt that finds a replay under way is thought answered by it.
synchronizeOnce(s) == IF s.stage = "idle" THEN Asked(s.cursor) ELSE s

\* One replay at a time; a prompt that finds one under way asks for another.
synchronize(s) ==
  IF s = NoSubscription THEN s
  ELSE IF s.stage = "idle" THEN Asked(s.cursor)
  ELSE [s EXCEPT !.resyncRequested = TRUE]

\* The finally block, after a replay that did or did not leave a timer.
Settle(s, retry) ==
  IF s.resyncRequested THEN Asked(s.cursor)
  ELSE [Asked(s.cursor) EXCEPT !.stage = "idle", !.retryTimer = s.retryTimer \/ retry]

synchronizeAll(s) == synchronize(s)

\* The connection is made: the API has the socket in its room before the
\* agent is told, and then everything is replayed.
CloudRealtimeConnection ==
  /\ ~socket /\ socket' = TRUE
  /\ sub' = synchronizeAll(sub)
  /\ UNCHANGED <<sequence, outboxVars, stored, jobs, wire, stream, screen, drops>>

accept(e) ==
  /\ e \in wire /\ wire' = wire \ {e}
  /\ sub' = IF sub # NoSubscription /\ e > sub.cursor THEN synchronize(sub) ELSE sub
  /\ UNCHANGED <<sequence, outboxVars, stored, jobs, socket, stream, screen, drops>>

\* The replay route reads the counter, and the events after it.
ReplayCounts ==
  /\ sub.stage = "asked"
  /\ sub' = [sub EXCEPT !.stage = "counted", !.latest = sequence]
  /\ UNCHANGED <<sequence, outboxVars, stored, jobs, socket, wire, stream, screen, drops>>

FirstOf(S, n) == {e \in S : Cardinality({f \in S : f < e}) < n}

ReplayReads ==
  /\ sub.stage = "counted"
  /\ LET later == {e \in stored : e > sub.cursor} IN
     sub' = [sub EXCEPT !.stage = "answered", !.page = FirstOf(later, PageSize),
                        !.hasMore = Cardinality(later) > PageSize]
  /\ UNCHANGED <<sequence, outboxVars, stored, jobs, socket, wire, stream, screen, drops>>

fetchReplayFails ==
  /\ sub.stage \in {"asked", "counted", "answered"} /\ drops < MaxDrops
  /\ sub' = Settle(sub, TRUE) /\ drops' = drops + 1
  /\ UNCHANGED <<sequence, outboxVars, stored, jobs, socket, wire, stream, screen>>

\* Where the cursor stands after a page: at the first gap, or past its end.
CursorAfter(s) ==
  Max({s.cursor} \cup {e \in s.page : \A f \in (s.cursor + 1)..e : f \in s.page})

\* The page is written to the stream up to the first gap.  Then the next page,
\* a retry (a gap, or a counter ahead of the stored events), or rest.
ReplayApplied ==
  /\ sub.stage = "answered"
  /\ LET c == CursorAfter(sub)
         gap == \E e \in sub.page : e > c
         read == [sub EXCEPT !.cursor = c] IN
     /\ stream' = stream \o [i \in 1..(c - sub.cursor) |-> sub.cursor + i]
     /\ sub' = IF ~gap /\ sub.hasMore
               THEN [Asked(c) EXCEPT !.resyncRequested = sub.resyncRequested]
               ELSE Settle(read, gap \/ c < sub.latest)
  /\ UNCHANGED <<sequence, outboxVars, stored, jobs, socket, wire, screen, drops>>

scheduleRetry ==
  /\ sub # NoSubscription /\ sub.retryTimer
  /\ sub' = synchronize([sub EXCEPT !.retryTimer = FALSE])
  /\ UNCHANGED <<sequence, outboxVars, stored, jobs, socket, wire, stream, screen, drops>>

-----------------------------------------------------------------------------
(* The screen *)

\* The browser opens its stream with the last event it read.
subscribe ==
  /\ sub = NoSubscription
  /\ sub' = Asked(screen)
  /\ UNCHANGED <<sequence, outboxVars, stored, jobs, socket, wire, stream, screen, drops>>

unsubscribe ==
  /\ sub # NoSubscription /\ drops < MaxDrops
  /\ sub' = NoSubscription /\ stream' = <<>> /\ drops' = drops + 1
  /\ UNCHANGED <<sequence, outboxVars, stored, jobs, socket, wire, screen>>

\* An event at or before the cursor is skipped; one past the next is a
\* desynchronization and is not applied.
onmessage ==
  /\ stream # <<>> /\ stream' = Tail(stream)
  /\ screen' = IF Head(stream) = screen + 1 THEN screen + 1 ELSE screen
  /\ UNCHANGED <<sequence, outboxVars, stored, jobs, socket, wire, sub, drops>>

EventsNext ==
  \/ SessionChanges \/ SocketDrops \/ CloudRealtimeConnection
  \/ \E p \in Publishers :
       \/ claimNext(p) \/ claimed(p) \/ materialize(p) \/ queueAdd(p)
       \/ publishNext(p) \/ releaseFailure(p) \/ PublisherCrashes(p)
  \/ \E e \in EventIds : deliveryWorker(e) \/ accept(e)
  \/ ReplayCounts \/ ReplayReads \/ fetchReplayFails \/ ReplayApplied \/ scheduleRetry
  \/ subscribe \/ unsubscribe \/ onmessage

EventsSpec == EventsInit /\ [][EventsNext]_eventsVars

-----------------------------------------------------------------------------

\* Nothing is under way anywhere: every row is published, every job delivered,
\* both connections are up, and no replay or timer is pending.
Quiet ==
  /\ \A e \in 1..sequence : row[e].status = "PUBLISHED" /\ jobs[e] = "done"
  /\ socket /\ wire = {} /\ stream = <<>>
  /\ sub.stage = "idle" /\ ~sub.retryTimer

\* No wake-up is lost (events.ts synchronize, publish-outbox.ts publishNext):
\* whatever order the claims, the crashes, the dropped connections and the
\* prompts came in, when everything is quiet the screen has read every event
\* the session counted.
QuietMeansCaughtUp == EventsTypeOK /\ (Quiet => screen = sequence)
=============================================================================
