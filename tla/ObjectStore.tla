----------------------------- MODULE ObjectStore ----------------------------
(***************************************************************************)
(* The worker's hold on the document bucket: deleting every copy of an     *)
(* object, purging what a session left behind, aborting unfinished         *)
(* uploads, and the reconciler's rotating search for orphans.  Every       *)
(* request to the store is a step of its own; uploads go on in between and *)
(* any request may fail, carried out or not.                               *)
(*                                                                         *)
(* The bucket may keep history: then deleting an object only hides it      *)
(* behind a delete marker, and both are copies.  A key is a path; the      *)
(* store lists keys in the order of KeyOrder, the newest copy first.  Two  *)
(* callers share the code: the cleaner (a session's cleanup, a worker or   *)
(* the API discarding one object) and the sweeper (the reconciler).        *)
(***************************************************************************)
EXTENDS Integers, Sequences, FiniteSets
LOCAL INSTANCE SequencesExt

CONSTANTS
  KeyOrder,         \* the keys, in the order the store lists them
  SessionPrefix,    \* where the session being cleaned keeps its objects
  Ledger,           \* the keys its rows name
  Gone,             \* keys whose session is cleaned or unknown
  PageSize,         \* entries of one listing
  MaxVersionPasses, \* MAX_VERSION_DELETE_PASSES
  MaxPurgePasses,   \* MAX_PURGE_PASSES
  MaxListPages,     \* MAX_ORPHAN_LIST_PAGES_PER_PASS
  SweepLimit,       \* the reconciler's deletion budget
  MaxDisturbances,  \* bound on objects and uploads written meanwhile and on requests that fail
  MaxCleanups,      \* bound on the cleaner's calls
  MaxSweeps         \* bound on the sweeper's

VARIABLES
  versioned,  \* the bucket keeps history
  bucket,     \* copies: key, id in order of writing, delete marker or not, old or not
  uploads,    \* multipart uploads nobody finished yet
  clock,      \* the next id
  call,       \* what the cleaner and the sweeper are doing
  cursor,     \* orphanListingCursors: up to where the sweep has settled the keys
  owed,       \* old orphans there since the rotation began
  missed,     \* of those, what was still there when it ended
  disturbances, calls

storeVars ==
  <<versioned, bucket, uploads, clock, call, cursor, owed, missed, disturbances, calls>>

Keys == ToSet(KeyOrder)

ASSUME ObjectStoreAssumption ==
  /\ KeyOrder \in Seq(Keys) /\ \A k \in Keys : k \in Seq(ToSet(k))
  /\ \A i, j \in DOMAIN KeyOrder : KeyOrder[i] = KeyOrder[j] => i = j
  /\ Ledger \in Seq(Keys)
  /\ PageSize \in Nat \ {0} /\ MaxVersionPasses \in Nat \ {0} /\ SweepLimit \in Nat
  /\ {MaxPurgePasses, MaxListPages, MaxDisturbances, MaxCleanups, MaxSweeps} \subseteq Nat

Position(k) == CHOOSE i \in DOMAIN KeyOrder : KeyOrder[i] = k
Under(prefix) == {k \in Keys : IsPrefix(prefix, k)}
Larger(a, b) == IF a > b THEN a ELSE b

\* The store's listings: by key, the newest copy first, a page at a time, each
\* from where the one before it stopped.
Rank(e) == [position |-> Position(e.key), id |-> e.id]
Start == [position |-> 0, id |-> 0]
Beyond(e, at) ==
  \/ Position(e.key) > at.position
  \/ Position(e.key) = at.position /\ e.id < at.id
Page(entries, size) ==
  {e \in entries : Cardinality({f \in entries : Beyond(e, Rank(f))}) < size}
Behind(entries, at) == {e \in entries : Beyond(e, at)}
LastRank(page) == CHOOSE r \in {Rank(e) : e \in page} : \A e \in page : ~Beyond(e, r)
LastKey(page) == [LastRank(page) EXCEPT !.id = 0]
Current ==
  {e \in bucket : ~e.marker /\ \A f \in bucket : f.key = e.key => f.id <= e.id}
Copy(k, id, marker) == [key |-> k, id |-> id, marker |-> marker, old |-> FALSE]
\* Its writes and deletions.  Without history a copy has no version to name.
Stored(k) ==
  (IF versioned THEN bucket ELSE {e \in bucket : e.key # k}) \cup {Copy(k, clock, FALSE)}
Unlinked(keys) ==
  IF versioned THEN bucket \cup {Copy(k, clock + Position(k), TRUE) : k \in keys}
  ELSE {e \in bucket : e.key \notin keys}
Purged(found) ==
  {e \in bucket : ~\E f \in found : f.key = e.key /\ (versioned => f.id = e.id)}
Tick == clock + Len(KeyOrder) + 1

-----------------------------------------------------------------------------
Idle == [step |-> "idle", keys |-> <<>>, found |-> {}, batch |-> {}, at |-> Start, next |-> Start,
         pass |-> 0, since |-> 0, target |-> {}]
At(a, step) == call[a].step = step
Go(a, c) == call' = [call EXCEPT ![a] = c]

\* deleteObjects: the named objects lose their current copy in one request, and
\* nothing is asked for none.
Deleting(c, keys) ==
  [c EXCEPT !.step = IF keys = <<>> THEN "deleted" ELSE "batch", !.keys = keys,
            !.target = ToSet(keys), !.pass = 0, !.found = {}, !.at = Start]

deleteBatch(a) ==
  /\ At(a, "batch")
  /\ bucket' = Unlinked(ToSet(call[a].keys)) /\ clock' = Tick
  /\ Go(a, [call[a] EXCEPT !.step = "versions", !.since = Tick])
  /\ UNCHANGED <<versioned, uploads, cursor, owed, missed, disturbances, calls>>

\* A listing by prefix also names the keys that merely begin alike.
collectExactVersionIds(page, k) == {e \in page : e.key = k}

\* The key's history, page by page.  All of it read: nothing there, the next
\* key; too many passes already, give up.
listExactObjectVersions(a) ==
  LET c == call[a]
      k == Head(c.keys)
      rest == Behind({e \in bucket : e.key \in Under(k)}, c.at)
      page == Page(rest, PageSize)
      found == c.found \cup collectExactVersionIds(page, k)
  IN /\ At(a, "versions")
     /\ \/ page # rest /\ Go(a, [c EXCEPT !.found = found, !.at = LastRank(page)])
        \/ page = rest /\ found = {} /\ Len(c.keys) > 1
             /\ Go(a, [c EXCEPT !.keys = Tail(c.keys), !.at = Start, !.pass = 0])
        \/ page = rest /\ found = {} /\ Len(c.keys) = 1
             /\ Go(a, [c EXCEPT !.step = "deleted"])
        \/ page = rest /\ found # {} /\ c.pass = MaxVersionPasses
             /\ Go(a, [c EXCEPT !.step = "exhausted"])
        \/ page = rest /\ found # {} /\ c.pass < MaxVersionPasses
             /\ Go(a, [c EXCEPT !.step = "purge", !.found = found])
     /\ UNCHANGED <<versioned, bucket, uploads, clock, cursor, owed, missed, disturbances, calls>>

purgeVersions(a) ==
  /\ At(a, "purge")
  /\ bucket' = Purged(call[a].found)
  /\ Go(a, [call[a] EXCEPT !.step = "versions", !.found = {}, !.at = Start, !.pass = @ + 1])
  /\ UNCHANGED <<versioned, uploads, clock, cursor, owed, missed, disturbances, calls>>

-----------------------------------------------------------------------------
\* The cleaner begins: the objects its ledger names, one object a worker or the
\* API discards, or everything under the session's prefix.
Begin(a, c) ==
  /\ At(a, "idle")
  /\ calls[a] < IF a = "cleaner" THEN MaxCleanups ELSE MaxSweeps
  /\ calls' = [calls EXCEPT ![a] = @ + 1]
  /\ Go(a, c)
  /\ UNCHANGED <<versioned, bucket, uploads, clock, cursor, missed, disturbances>>

deleteObjects == Begin("cleaner", Deleting(Idle, Ledger)) /\ UNCHANGED owed
deleteObject(k) == Begin("cleaner", Deleting(Idle, <<k>>)) /\ UNCHANGED owed
\* The API's own store runs the same loop for a document it discards.
discardObject(k) == Begin("cleaner", Deleting(Idle, <<k>>)) /\ UNCHANGED owed
cleanupPrefix ==
  /\ Begin("cleaner", [Idle EXCEPT !.step = "uploads", !.target = Under(SessionPrefix), !.since = clock])
  /\ UNCHANGED owed

\* abortMultipartUploads: every page of the unfinished uploads, matched here and
\* not by the store; the sweep takes only those begun before its cutoff.
abortMultipartUploads(a) ==
  LET c == call[a]
      rest == Behind(uploads, c.at)
      page == Page(rest, PageSize)
      mine == {u \in page : u.key \in c.target /\ (a = "sweeper" => u.old)}
  IN /\ At(a, "uploads")
     /\ uploads' = uploads \ mine
     /\ \/ page # rest /\ Go(a, [c EXCEPT !.at = LastRank(page)])
        \/ page = rest /\ Go(a, [c EXCEPT !.step = "objects", !.pass = 0,
                                             !.at = IF a = "sweeper" THEN cursor ELSE Start])
     /\ UNCHANGED <<versioned, bucket, clock, cursor, owed, missed, disturbances, calls>>

\* purgePrefix: what is listed as an object, what is listed as a version, both
\* deleted, until one pass finds neither.
listPrefixPage ==
  LET c == call["cleaner"]
  IN /\ At("cleaner", "objects")
     /\ \/ c.pass = MaxPurgePasses /\ Go("cleaner", [c EXCEPT !.step = "exhausted"])
        \/ /\ c.pass < MaxPurgePasses
           /\ Go("cleaner", [c EXCEPT !.step = "history",
                !.batch = {e.key : e \in Page({f \in Current : f.key \in c.target}, PageSize)}])
     /\ UNCHANGED <<versioned, bucket, uploads, clock, cursor, owed, missed, disturbances, calls>>

\* Mutant of PurgeEnds: the history is not asked.
PurgeEndsUnasked(batch, versions) == batch = {}
PurgeEnds(batch, versions) == batch = {} /\ versions = {}

listPrefixVersionPage ==
  LET c == call["cleaner"]
      versions == Page({e \in bucket : e.key \in c.target}, PageSize)
  IN /\ At("cleaner", "history")
     /\ Go("cleaner", [c EXCEPT !.step = IF PurgeEnds(c.batch, versions) THEN "deleted" ELSE "unlink",
                                !.found = versions])
     /\ UNCHANGED <<versioned, bucket, uploads, clock, cursor, owed, missed, disturbances, calls>>

purgePrefix ==
  LET c == call["cleaner"]
  IN /\ \/ At("cleaner", "unlink") /\ bucket' = Unlinked(c.batch) /\ clock' = Tick
             /\ Go("cleaner", [c EXCEPT !.step = "forget"])
        \/ At("cleaner", "forget") /\ bucket' = Purged(c.found) /\ UNCHANGED clock
             /\ Go("cleaner", [c EXCEPT !.step = "objects", !.pass = @ + 1])
     /\ UNCHANGED <<versioned, uploads, cursor, owed, missed, disturbances, calls>>

-----------------------------------------------------------------------------
\* The reconciler: abort, list a bounded stretch of keys from where the last
\* acknowledged pass stopped, delete the orphans in it, and only then move on.
reconcileStorage ==
  /\ Begin("sweeper", [Idle EXCEPT !.step = "uploads", !.target = Keys])
  /\ owed' = IF cursor = Start THEN {e \in Current : e.old /\ e.key \in Gone} ELSE owed

\* listObjectsOlderThan.  A page never holds more than the budget has left; a
\* listing that ends is remembered as the start.
listObjectsOlderThan ==
  LET c == call["sweeper"]
      rest == Behind(Current, c.at)
      page == Page(rest, Larger(1, SweepLimit - Cardinality(c.batch)))
      stale == c.batch \cup {e.key : e \in {f \in page : f.old}}
      here == IF page = rest THEN Start ELSE LastKey(page)
      ends == page = rest \/ Cardinality(stale) >= SweepLimit \/ c.pass + 1 = MaxListPages
  IN /\ At("sweeper", "objects")
     /\ Go("sweeper", [c EXCEPT !.step = IF ends THEN "select" ELSE "objects", !.batch = stale,
                                !.pass = @ + 1, !.at = here, !.next = here])
     /\ owed' = owed \cap Current
     /\ UNCHANGED <<versioned, bucket, uploads, clock, cursor, missed, disturbances, calls>>

\* Each once, in some order.
Ordered(S) == CHOOSE s \in [1 .. Cardinality(S) -> S] : ToSet(s) = S

\* selectOrphans: objects whose session still runs are left alone.
selectOrphans ==
  LET c == call["sweeper"]
  IN /\ At("sweeper", "select")
     /\ Go("sweeper", Deleting(c, Ordered(c.batch \cap Gone)))
     /\ UNCHANGED <<versioned, bucket, uploads, clock, cursor, owed, missed, disturbances, calls>>

Acknowledged(a) == a = "sweeper" /\ At(a, "deleted")

\* The call returns or throws.  Moving the cursor is the commit of a sweep; only
\* here can a rotation end.
callEnds(a) ==
  /\ call[a].step \in {"deleted", "exhausted", "thrown"}
  /\ call' = [call EXCEPT ![a] = Idle]
  /\ \/ Acknowledged(a) /\ cursor' = call[a].next
          /\ missed' = (IF call[a].next = Start THEN owed \cap Current ELSE missed)
     \/ ~Acknowledged(a) /\ UNCHANGED <<cursor, missed>>
  /\ UNCHANGED <<versioned, bucket, uploads, clock, owed, disturbances, calls>>

\* A request fails.  A deletion may have been carried out, in part or in full; a
\* failed listing of the sweep forgets the cursor.
requestFails(a) ==
  /\ disturbances < MaxDisturbances /\ disturbances' = disturbances + 1
  /\ call[a].step \notin {"idle", "deleted", "exhausted", "thrown"}
  /\ Go(a, [call[a] EXCEPT !.step = "thrown"])
  /\ \/ UNCHANGED <<bucket, clock>>
     \/ /\ call[a].step \in {"batch", "unlink"} /\ clock' = Tick
        /\ \E part \in SUBSET (IF At(a, "batch") THEN ToSet(call[a].keys) ELSE call[a].batch) :
             bucket' = Unlinked(part)
     \/ /\ call[a].step \in {"purge", "forget"} /\ UNCHANGED clock
        /\ \E part \in SUBSET call[a].found : bucket' = Purged(part)
  /\ cursor' = IF a = "sweeper" /\ At(a, "objects") THEN Start ELSE cursor
  /\ UNCHANGED <<versioned, uploads, owed, missed, calls>>

-----------------------------------------------------------------------------
\* Uploads: small ones in one request, large ones in parts; one whose process
\* died stays in parts.
Write(r) ==
  /\ disturbances < MaxDisturbances /\ disturbances' = disturbances + 1 /\ clock' = Tick
  /\ uploads' = r.uploads /\ bucket' = r.bucket
  /\ UNCHANGED <<versioned, call, cursor, owed, missed, calls>>

putObject(k) == Write([bucket |-> Stored(k), uploads |-> uploads])
putArtifact(k) == Write([bucket |-> bucket, uploads |-> uploads \cup {Copy(k, clock, FALSE)}])
putArtifactDone(u) ==
  ~u.old /\ Write([bucket |-> Stored(u.key), uploads |-> uploads \ {u}])

StoreInit ==
  /\ versioned \in BOOLEAN
  /\ \E old \in SUBSET Keys :
       /\ bucket = {[Copy(k, 0, FALSE) EXCEPT !.old = k \in old] : k \in Keys}
       /\ uploads = {[Copy(k, 0, FALSE) EXCEPT !.old = TRUE] : k \in old}
  /\ clock = 1
  /\ call = [a \in {"cleaner", "sweeper"} |-> Idle]
  /\ cursor = Start /\ owed = {} /\ missed = {}
  /\ disturbances = 0 /\ calls = [a \in {"cleaner", "sweeper"} |-> 0]

StoreNext ==
  \/ deleteObjects \/ cleanupPrefix \/ listPrefixPage \/ listPrefixVersionPage \/ purgePrefix
  \/ reconcileStorage \/ listObjectsOlderThan \/ selectOrphans
  \/ \E a \in {"cleaner", "sweeper"} :
       \/ deleteBatch(a) \/ listExactObjectVersions(a) \/ purgeVersions(a)
       \/ abortMultipartUploads(a) \/ callEnds(a) \/ requestFails(a)
  \/ \E k \in Keys : deleteObject(k) \/ discardObject(k) \/ putObject(k) \/ putArtifact(k)
  \/ \E u \in uploads : putArtifactDone(u)

StoreSpec == StoreInit /\ [][StoreNext]_storeVars

-----------------------------------------------------------------------------
(* Deleted means every copy.  A deletion or a purge that reports success     *)
(* leaves no copy and no delete marker that was there when it began, however *)
(* the listings were paged and whoever wrote, deleted or failed meanwhile,   *)
(* and a cleaned prefix no unfinished upload of that time either; a deletion *)
(* gives up only on a key that is being written; and once the reconciler's   *)
(* cursor has gone round, no old orphan that was there when it set out is    *)
(* still the current object of its key (document-store.ts, deleteObjects,    *)
(* purgePrefix, listObjectsOlderThan).                                       *)
DeletedMeansEveryCopy ==
  /\ missed = {}
  /\ \A a \in DOMAIN call :
       LET c == call[a]
       IN /\ c.step = "deleted" =>
               \A e \in bucket \cup (IF c.target = Under(SessionPrefix) /\ c.keys = <<>> THEN uploads ELSE {}) :
                 e.key \in c.target => e.id >= c.since
          /\ c.step = "exhausted" /\ c.keys # <<>> => clock > c.since
=============================================================================
