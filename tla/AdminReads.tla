----------------------------- MODULE AdminReads -----------------------------
(***************************************************************************)
(* What the control plane shows: the keyset-paged lists, the overview and  *)
(* the money summary of observability.ts, and the panel that pages through *)
(* a list in the browser (useAdminData.ts, usePageTrail.ts, Pagination).   *)
(*                                                                         *)
(* One table of rows stands for the table a list reads (sessions, print    *)
(* jobs, payments, refunds, cleanup runs, audit events, observations); a   *)
(* row is inserted by a transaction that stamped it up to one tick before  *)
(* it committed.  Row identifiers are numbers because the page order       *)
(* compares them.  A scope is the set of kiosks a caller may see; the      *)
(* unrestricted scope also holds NoKiosk, which no operator's does.        *)
(***************************************************************************)
EXTENDS Integers, Sequences, FiniteSets, FiniteSetsExt, SequencesExt

CONSTANTS
  RowIds,           \* identifiers a row may get
  ReadKiosks,       \* kiosks rows belong to
  PageSize,         \* ADMIN_PAGE_SIZE
  MaxReadTime,      \* bound on the clock
  MaxLoadsOut,      \* bound on requests of one panel in flight
  OverviewTtl,      \* overviewCacheMilliseconds
  MaxCachedOverviews,
  Callers,          \* requests for the overview
  Bars, BarLength, Offsets   \* MONEY_WINDOW_SHAPE, and the callers' clocks

Lists == {"sessions", "printJobs", "payments", "refunds", "retention",
          "audit", "refundQueue"}

ASSUME ReadsAssumption ==
  /\ RowIds \subseteq Nat /\ IsFiniteSet(RowIds) /\ RowIds # {} /\ IsFiniteSet(ReadKiosks)
  /\ PageSize \in Nat \ {0} /\ MaxReadTime \in Nat /\ MaxLoadsOut \in Nat \ {0}
  /\ OverviewTtl \in Nat
  /\ MaxCachedOverviews \in Nat \ {0}
  /\ Bars \in Nat \ {0} /\ BarLength \in Nat \ {0} /\ Offsets \subseteq Int

NoKiosk == "no kiosk"
Anything == "any"
Unrestricted == ReadKiosks \cup {NoKiosk}
RowStates == {"open", "problem", "done"}
Filters == [kiosk : ReadKiosks \cup {Anything},
            status : RowStates \cup {Anything}]
NoFilter == [kiosk |-> Anything, status |-> Anything]

FirstPage == [at |-> -1, id |-> -1]   \* no cursor
NoAnswer == [kind |-> "none"]

VARIABLES
  rows,       \* the table
  readTime,   \* the clock
  panel,      \* the list on screen: filter, trail, page, data, error, loading
  loads,      \* its requests in flight
  cache,      \* overviewCache, oldest insertion first
  calls       \* per caller: its overview request

readVars == <<rows, readTime, panel, loads, cache, calls>>

Row(i, t, k, s) == [id |-> i, at |-> t, kiosk |-> k, status |-> s]

-----------------------------------------------------------------------------
(* Scope and keyset *)

scopeForAdmin(role, kioskScopes) ==
  IF role = "OPERATOR" THEN kioskScopes ELSE Unrestricted

\* A named kiosk outside the scope selects nothing.
scopedKioskIdFilter(scope, requested) ==
  IF requested = Anything THEN scope ELSE scope \cap {requested}

\* The same, through the session a row belongs to.
scopedViaSessionFilter(scope, requested) == scopedKioskIdFilter(scope, requested)

HasStatus(r, status) == status = Anything \/ r.status = status

sessions(scope, f) ==
  {r \in rows : r.kiosk \in scopedKioskIdFilter(scope, f.kiosk)
                /\ HasStatus(r, f.status)}

\* "problem" is RECOVERY_REQUIRED without a recorded observation.
printJobs(scope, f) ==
  {r \in rows : r.kiosk \in scopedKioskIdFilter(scope, f.kiosk)
                /\ HasStatus(r, f.status)}

payments(scope, f) ==
  {r \in rows : r.kiosk \in scopedViaSessionFilter(scope, f.kiosk)
                /\ HasStatus(r, f.status)}

\* unsettledOnly: completedAt is null.
refunds(scope, f) ==
  {r \in rows : r.kiosk \in scopedViaSessionFilter(scope, Anything)
                /\ (f.status # Anything => r.status # "done")}

\* problemsOnly: dead-lettered or overdue.
retention(scope, f) ==
  {r \in rows : r.kiosk \in scopedViaSessionFilter(scope, Anything)
                /\ (f.status # Anything => r.status = "problem")}

\* Events of no kiosk stay visible unless a kiosk is asked for.
audit(scope, f) ==
  {r \in rows :
     \/ r.kiosk \in scopedKioskIdFilter(scope, f.kiosk)
     \/ f.kiosk = Anything /\ r.kiosk = NoKiosk}

\* Observations of prints in recovery whose money is still with the operator.
refundQueue(scope, f) ==
  {r \in rows : r.kiosk \in scopedKioskIdFilter(scope, Anything)
                /\ r.status = "problem"}

Matching(l, scope, f) ==
  CASE l = "sessions" -> sessions(scope, f)
    [] l = "printJobs" -> printJobs(scope, f)
    [] l = "payments" -> payments(scope, f)
    [] l = "refunds" -> refunds(scope, f)
    [] l = "retention" -> retention(scope, f)
    [] l = "audit" -> audit(scope, f)
    [] l = "refundQueue" -> refundQueue(scope, f)

\* The worklist is read oldest first, everything else newest first.
Ascending(l) == l = "refundQueue"

\* Mutant: the instant alone decides, without the tie-break on the identifier.
keysetWhereWithoutTieBreak(l, cursor, r) ==
  \/ cursor = FirstPage
  \/ IF Ascending(l) THEN r.at > cursor.at ELSE r.at < cursor.at

\* Strictly beyond the cursor, ties broken by identifier.
keysetWhere(l, cursor, r) ==
  \/ cursor = FirstPage
  \/ IF Ascending(l)
     THEN r.at > cursor.at \/ (r.at = cursor.at /\ r.id > cursor.id)
     ELSE r.at < cursor.at \/ (r.at = cursor.at /\ r.id < cursor.id)

\* Whether row r is listed before row q.
Before(l, r, q) ==
  IF Ascending(l) THEN r.at < q.at \/ (r.at = q.at /\ r.id < q.id)
  ELSE r.at > q.at \/ (r.at = q.at /\ r.id > q.id)

encodeAdminCursor(r) == [at |-> r.at, id |-> r.id]

\* orderBy: the rows of S in the order of the list.
orderBy(l, S) ==
  CHOOSE s \in [1..Cardinality(S) -> S] :
    \A i, j \in DOMAIN s : i < j => Before(l, s[i], s[j])

\* findMany: at most one row more than a page, in order.
Fetched(l, scope, f, cursor) ==
  LET wanted == {r \in Matching(l, scope, f) : keysetWhere(l, cursor, r)}
      sorted == orderBy(l, wanted)
  IN SubSeq(sorted, 1, IF Len(sorted) <= PageSize THEN Len(sorted)
                       ELSE PageSize + 1)

PageOf(fetched) ==
  SubSeq(fetched, 1, IF Len(fetched) <= PageSize THEN Len(fetched) ELSE PageSize)

\* FirstPage doubles as "there is no next page".
nextCursorFrom(fetched) ==
  IF Len(fetched) <= PageSize THEN FirstPage
  ELSE encodeAdminCursor(fetched[PageSize])

Answer(l, scope, query) ==
  LET fetched == Fetched(l, scope, query.filter, query.cursor)
  IN [kind |-> "page", items |-> PageOf(fetched), next |-> nextCursorFrom(fetched)]

\* session, printJob, documents and kioskPaper: one row, if it is in scope.
findFirst(scope, i) ==
  {r \in rows : r.id = i /\ r.kiosk \in scopedKioskIdFilter(scope, Anything)}

-----------------------------------------------------------------------------
(* The panel *)

Query(p) == [filter |-> p.filter, cursor |-> p.trail[p.page]]

\* useAdminData's effect: the loads before it are cancelled.
Effect(p) ==
  /\ panel' = [p EXCEPT !.loading = TRUE]
  /\ loads' = {[q EXCEPT !.cancelled = TRUE] : q \in loads}
              \cup {[query |-> Query(p), cancelled |-> FALSE, answer |-> NoAnswer]}

\* The loader's identity is the query: the effect runs when it changes.
Rendered(p) ==
  IF Query(p) # Query(panel) THEN Effect(p) ELSE panel' = p /\ UNCHANGED loads

Room == Cardinality(loads) < MaxLoadsOut

\* usePageTrail's reset.
resetTrail(p) == [p EXCEPT !.trail = <<FirstPage>>, !.page = 1]

\* chooseCard and clearFilter: the rows in hand stay until others arrive.
ChooseFilter(f) ==
  /\ Room /\ f # panel.filter
  /\ Rendered([resetTrail(panel) EXCEPT !.filter = f])
  /\ UNCHANGED <<rows, readTime, cache, calls>>

InHand == IF panel.data = NoAnswer THEN FirstPage ELSE panel.data.next

hasNext == panel.page < Len(panel.trail) \/ InHand # FirstPage

\* usePageTrail's go, with the next cursor of the rows in hand.
go(target) ==
  LET t == panel.trail IN
  IF target <= Len(t) THEN [panel EXCEPT !.page = target]
  ELSE IF target = Len(t) + 1 /\ InHand # FirstPage /\ InHand # Last(t)
  THEN [panel EXCEPT !.page = target, !.trail = Append(t, InHand)]
  ELSE panel

\* Pagination: any page reached, and one further while there is one.
Paginate(target) ==
  /\ Room
  /\ target \in 1..Len(panel.trail) \/ (target = panel.page + 1 /\ hasNext)
  /\ Rendered(go(target))
  /\ UNCHANGED <<rows, readTime, cache, calls>>

\* A poll, which never overlaps the run before it and shows no spinner.
Refresh ==
  /\ Room /\ ~panel.loading
  /\ \A q \in loads : q.cancelled
  /\ loads' = loads \cup
       {[query |-> Query(panel), cancelled |-> FALSE, answer |-> NoAnswer]}
  /\ UNCHANGED <<rows, readTime, panel, cache, calls>>

\* reload: the button, or what an action calls when it succeeded.
Reload == /\ Room /\ Effect(panel) /\ UNCHANGED <<rows, readTime, cache, calls>>

\* The server answers a load, or the answer is an error.
Serve(q) ==
  /\ q \in loads /\ q.answer = NoAnswer
  /\ \E a \in {Answer(panel.list, panel.scope, q.query), [kind |-> "error"]} :
       loads' = (loads \ {q}) \cup {[q EXCEPT !.answer = a]}
  /\ UNCHANGED <<rows, readTime, panel, cache, calls>>

\* The end of run: a cancelled load changes nothing, a failed one keeps the
\* rows in hand and says so.
Arrived(q) ==
  IF q.cancelled THEN panel
  ELSE IF q.answer.kind = "error"
  THEN [panel EXCEPT !.error = TRUE, !.loading = FALSE]
  ELSE [panel EXCEPT !.data = q.answer, !.of = q.query, !.error = FALSE,
                     !.loading = FALSE]

Arrive(q) ==
  /\ q \in loads /\ q.answer # NoAnswer
  /\ panel' = Arrived(q)
  /\ loads' = loads \ {q}
  /\ UNCHANGED <<rows, readTime, cache, calls>>

-----------------------------------------------------------------------------
(* The overview *)

scopeKey(scope) == scope
NoCall == [phase |-> "idle"]

Cached(key) == {e \in ToSet(cache) : e.key = key}

Overview(scope, at, readings, given) ==
  [phase |-> "answered", scope |-> scope, at |-> at, readings |-> readings,
   given |-> given]

\* A reading and when it was taken.
Reading(scope, statuses) ==
  [taken |-> readTime,
   counted |-> {r \in rows : r.kiosk \in scope /\ r.status \in statuses}]

\* Answered from the cache while that is younger than the TTL.
overview(c, scope) ==
  /\ calls[c].phase \in {"idle", "answered"}
  /\ LET fresh == {e \in Cached(scopeKey(scope)) : readTime - e.at < OverviewTtl} IN
       \/ \E e \in fresh :
            calls' = [calls EXCEPT ![c] = Overview(scope, e.at, e.readings, readTime)]
       \/ /\ fresh = {}
          /\ calls' = [calls EXCEPT ![c] =
               [phase |-> "reading", scope |-> scope, at |-> readTime, readings |-> <<>>]]
  /\ UNCHANGED <<rows, readTime, panel, loads, cache>>

\* computeOverview: its queries share no snapshot.  Two stand for them all.
computeOverview(c) ==
  /\ calls[c].phase = "reading" /\ Len(calls[c].readings) < 2
  /\ calls' = [calls EXCEPT ![c].readings = Append(@,
       Reading(calls[c].scope, IF @ = <<>> THEN {"open"} ELSE {"problem"}))]
  /\ UNCHANGED <<rows, readTime, panel, loads, cache>>

\* The snapshot is dated when it was begun.
ComputedAt(c) == calls[c].at

\* Map.set: a key that is there keeps its place; a full map loses its oldest.
rememberOverview(entry) ==
  LET room == IF Len(cache) >= MaxCachedOverviews THEN Tail(cache) ELSE cache
      there == {i \in DOMAIN room : room[i].key = entry.key}
  IN IF there = {} THEN Append(room, entry)
     ELSE [room EXCEPT ![CHOOSE i \in there : TRUE] = entry]

overviewComputed(c) ==
  /\ calls[c].phase = "reading" /\ Len(calls[c].readings) = 2
  /\ cache' = rememberOverview([key |-> scopeKey(calls[c].scope),
       at |-> ComputedAt(c), readings |-> calls[c].readings])
  /\ calls' = [calls EXCEPT ![c] =
       Overview(@.scope, ComputedAt(c), @.readings, ComputedAt(c))]
  /\ UNCHANGED <<rows, readTime, panel, loads>>

-----------------------------------------------------------------------------
(* The money summary *)

\* Cut on the caller's clock, given in the server's.
truncateToInterval(at, offset) ==
  ((at + offset) \div BarLength) * BarLength - offset

currentFrom(offset) ==
  truncateToInterval(readTime, offset) - (Bars - 1) * BarLength
previousFrom(offset) ==
  currentFrom(offset) - (readTime - currentFrom(offset))

inWindow(from, to) == {r \in rows : r.at >= from /\ r.at < to}

Clamp(n, low, high) == IF n < low THEN low ELSE IF n > high THEN high ELSE n

\* Bars tile the window; a payment is laid into the bar its start falls in.
barsOf(offset) ==
  LET from == currentFrom(offset) IN
  [b \in 0..(Bars - 1) |->
     [opens |-> from + b * BarLength,
      closes |-> Min({from + (b + 1) * BarLength, readTime}),
      started |-> {r \in inWindow(from, readTime) :
                     Clamp((r.at - from) \div BarLength, 0, Bars - 1) = b}]]

-----------------------------------------------------------------------------
(* The table and the clock *)

InsertRow(i, t, k, s) ==
  /\ \A r \in rows : r.id # i
  /\ t \in {readTime - 1, readTime} \cap Nat
  /\ rows' = rows \cup {Row(i, t, k, s)}
  /\ UNCHANGED <<readTime, panel, loads, cache, calls>>

FinishRow(r) ==
  /\ r \in rows /\ r.status # "done"
  /\ rows' = (rows \ {r}) \cup {[r EXCEPT !.status = "done"]}
  /\ UNCHANGED <<readTime, panel, loads, cache, calls>>

ReadClock ==
  /\ readTime < MaxReadTime /\ readTime' = readTime + 1
  /\ UNCHANGED <<rows, panel, loads, cache, calls>>

ListsNext ==
  \/ \E i \in RowIds, t \in 0..MaxReadTime, k \in Unrestricted,
        s \in RowStates : InsertRow(i, t, k, s)
  \/ \E r \in rows : FinishRow(r)
  \/ ReadClock

\* The panel sees rows of one instant: identifiers alone order them.
PanelNext ==
  \/ \E s \in {Anything, "problem"} :
       ChooseFilter([NoFilter EXCEPT !.status = s])
  \/ \E n \in 1..(Cardinality(RowIds) + 1) : Paginate(n)
  \/ Refresh \/ Reload
  \/ \E q \in loads : Serve(q) \/ Arrive(q)
  \/ \E i \in RowIds, k \in Unrestricted, s \in RowStates :
       InsertRow(i, 0, k, s)
  \/ \E r \in rows : FinishRow(r)

\* One row comes, changes and is counted or not; the clock outlives one TTL.
OverviewNext ==
  \/ \E c \in Callers :
       \/ \E s \in {Unrestricted} \cup {{k} : k \in ReadKiosks} : overview(c, s)
       \/ computeOverview(c) \/ overviewComputed(c)
  \/ \E k \in Unrestricted, s \in RowStates :
       InsertRow(Min(RowIds), readTime, k, s)
  \/ \E r \in rows : FinishRow(r)
  \/ readTime < OverviewTtl /\ ReadClock

ReadsInit ==
  /\ rows = {} /\ readTime = 0
  /\ \E l \in Lists, role \in {"OPERATOR", "ADMIN"}, s \in {Anything, "problem"} :
       panel = [list |-> l, scope |-> scopeForAdmin(role, ReadKiosks),
                filter |-> [NoFilter EXCEPT !.status = s], trail |-> <<FirstPage>>, page |-> 1,
                data |-> NoAnswer, of |-> NoAnswer, error |-> FALSE,
                loading |-> TRUE]
  /\ loads = {[query |-> Query(panel), cancelled |-> FALSE, answer |-> NoAnswer]}
  /\ cache = <<>> /\ calls = [c \in Callers |-> NoCall]

ReadsNext == ListsNext \/ PanelNext \/ OverviewNext
ReadsSpec == ReadsInit /\ [][ReadsNext]_readVars

\* The panel is tried on one list, which an operator opens without a filter.
PanelInit ==
  /\ ReadsInit
  /\ panel.list = "sessions" /\ panel.filter = NoFilter
  /\ panel.scope = ReadKiosks

ReadsTypeOK ==
  /\ rows \subseteq [id : RowIds, at : 0..MaxReadTime, kiosk : Unrestricted,
                     status : RowStates]
  /\ readTime \in 0..MaxReadTime
  /\ panel.page \in 1..Len(panel.trail) /\ panel.filter \in Filters
  /\ Cardinality(loads) <= MaxLoadsOut
  /\ Len(cache) <= MaxCachedOverviews /\ DOMAIN calls = Callers

-----------------------------------------------------------------------------
(* Properties *)

\* Reading the panel's list from its first page on, each row that its filter
\* and scope select is shown exactly once and in order, also when rows share an instant
\* across the end of a page, and can be opened (keysetWhere, nextCursorFrom).
EveryRowOnce ==
    LET l == panel.list
        scope == panel.scope
        f == panel.filter
        n == Cardinality(rows)
        step[i \in 0..n] ==
          IF i = 0
          THEN LET a == Answer(l, scope, [filter |-> f, cursor |-> FirstPage])
               IN <<a.items, a.next>>
          ELSE IF step[i - 1][2] = FirstPage THEN step[i - 1]
          ELSE LET a == Answer(l, scope,
                               [filter |-> f, cursor |-> step[i - 1][2]])
               IN <<step[i - 1][1] \o a.items, a.next>>
        walk == step[n]
    IN /\ walk[2] = FirstPage
       /\ ToSet(walk[1]) = Matching(l, scope, f)
       /\ \A i, j \in DOMAIN walk[1] : i < j => Before(l, walk[1][i], walk[1][j])
       /\ \A i \in DOMAIN walk[1] : l = "audit" \/ findFirst(scope, walk[1][i].id) # {}

\* Rows on screen with neither a spinner nor an error over them are the answer
\* to the filter and the page the controls show, and lie within the caller's
\* scope, whatever order the answers arrived in (useAdminData's cancelled
\* flag, the merged where clauses).
ShownIsTheAnswer ==
  /\ ~panel.loading /\ ~panel.error => panel.of = Query(panel)
  /\ panel.data # NoAnswer =>
       \A i \in DOMAIN panel.data.items :
         panel.data.items[i].kiosk \in
           panel.scope \cup (IF panel.list = "audit" THEN {NoKiosk} ELSE {})

\* An overview never claims to be newer than what it counts: every reading in
\* it was taken at or after the instant it is dated, of rows in its caller's
\* scope, and an answer from the cache is younger than the TTL (overview).
OverviewIsHonest ==
  \A c \in Callers : calls[c].phase = "answered" =>
    /\ calls[c].given - calls[c].at < OverviewTtl \/ calls[c].given = calls[c].at
    /\ \A i \in DOMAIN calls[c].readings :
         /\ calls[c].readings[i].taken >= calls[c].at
         /\ \A r \in calls[c].readings[i].counted : r.kiosk \in calls[c].scope

\* For every caller's clock the bars tile the window from its start to now,
\* each payment of the window is in the one bar its start falls in, and the
\* period compared with is as long and ends where this one begins
\* (moneySummary, barsOf).
BarsAddUp ==
  \A o \in Offsets :
    LET bars == barsOf(o) IN
      /\ bars[0].opens = currentFrom(o) /\ bars[Bars - 1].closes = readTime
      /\ \A b \in 1..(Bars - 1) : bars[b].opens = bars[b - 1].closes
      /\ UNION {bars[b].started : b \in DOMAIN bars} = inWindow(currentFrom(o), readTime)
      /\ \A b \in DOMAIN bars : \A r \in bars[b].started :
           r.at >= bars[b].opens /\ r.at < bars[b].closes
      /\ readTime - currentFrom(o) = currentFrom(o) - previousFrom(o)
      /\ readTime - currentFrom(o) < Bars * BarLength

\* What a person is shown, listed, summed up or charted is what was asked for.
ReadsAreHonest ==
  ReadsTypeOK /\ EveryRowOnce /\ ShownIsTheAnswer /\ OverviewIsHonest /\ BarsAddUp
=============================================================================
