----------------------------- MODULE Retention ------------------------------
(***************************************************************************)
(* Emptying finished sessions: the upload request, the API's and the       *)
(* janitor's deletions, and the leased, checkpointed cleanup runs of the   *)
(* worker, over one document per session (worker/jobs/cleanup-session.ts,  *)
(* reconcile-storage.ts, api/modules/files).                               *)
(*                                                                         *)
(* There is no clock.  cleanup_due_at is the set of things it still waits  *)
(* for: the session's grace, or the end of a PUT that may be running; an   *)
(* empty set is a time that has passed.  A lease of a run can run out at   *)
(* any step, because a run is not renewed.  The steps of a document's      *)
(* processing that leave bytes behind are kept; Processing has the rest.   *)
(***************************************************************************)
EXTENDS Naturals, FiniteSets

CONSTANTS
  Sessions,     \* print sessions, one document each
  Runners,      \* worker processes that run cleanups
  MaxAttempts,  \* RETENTION_MAX_ATTEMPTS
  MaxFaults     \* bound on crashes, slow runs and unrecorded objects

ASSUME RetentionAssumption ==
  /\ IsFiniteSet(Sessions) /\ IsFiniteSet(Runners) /\ "nobody" \notin Runners
  /\ MaxAttempts \in Nat \ {0}
  /\ MaxFaults \in Nat

VARIABLES
  session,   \* per session: the print_sessions row
  file,      \* per session: the uploaded_files row
  ledger,    \* per session: the keys in file_derivatives
  store,     \* per session: the objects under its prefixes
  writer,    \* per session: where the upload request or the artifact upload is
  cleaner,   \* the janitor and one removal request of the API
  run,       \* per session: the cleanup_runs row
  runner,    \* per worker process: where execute is
  faults     \* faults so far

vars == <<session, file, ledger, store, writer, cleaner, run, runner, faults>>

-----------------------------------------------------------------------------
(* Values *)

Nobody == "nobody"
Cleaners == {"janitor", "api"}
Deletable == {"DELETE_PENDING", "DELETING"}
Working == {"UPLOADING", "QUARANTINED", "VALIDATING"}
Uncleaned == Working \cup Deletable \cup {"READY"}

\* CLEANUP_CHECKPOINTS by rank
SCHEDULED == 0
ACCESS_REVOKED == 1
ARTIFACTS_DELETED == 2
STORAGE_RECONCILED == 3
METADATA_SCRUBBED == 4
COMPLETED == 5

Ended(s) == session[s].state # "OPEN"
InGrace(s) == Ended(s) /\ session[s].grace

\* The keys the rows can name.
Named(s) == ledger[s] \cup (IF file[s].key THEN {"upload"} ELSE {})

\* Slip: a deletion that was under way keeps its own time.
Unclamped(grace, f) == f

\* uploaded_files_clamp_terminal_cleanup_due and print_sessions_clamp_file_cleanup_due:
\* no deletion of a finished session's document becomes due before the session's own.
Clamped(grace, f) == IF f.status \in Deletable THEN [f EXCEPT !.due = @ \cup grace] ELSE f

SetFile(s, f) ==
  file' = [file EXCEPT ![s] = Clamped(IF InGrace(s) THEN {"GRACE"} ELSE {}, f)]

\* The row survives as a tombstone that names nothing, REJECTED or, if somebody
\* asked for the deletion, DELETED.
Gone(f) == [f EXCEPT !.status = "GONE", !.key = FALSE, !.due = {}]

\* One deletion request to the store: all of the keys, or some of them and an error.
Deleted(s, keys, ok) ==
  \E part \in SUBSET keys :
    /\ ok => part = keys
    /\ store' = [store EXCEPT ![s] = @ \ part]

-----------------------------------------------------------------------------
(* The upload request *)

Write(s, pc) == writer' = [writer EXCEPT ![s] = pc]

ReserveUpload(s) ==
  /\ session[s].state = "OPEN" /\ file[s].status = "NONE"
  /\ file' = [file EXCEPT ![s] = [@ EXCEPT !.status = "UPLOADING", !.key = TRUE, !.due = {"WRITER"}]]
  /\ Write(s, "arming")
  /\ UNCHANGED <<session, ledger, store, cleaner, run, runner, faults>>

\* The barrier is set anew before the first byte is sent.
ArmUpload(s) ==
  /\ writer[s] = "arming"
  /\ IF file[s].status = "UPLOADING" /\ file[s].key
     THEN SetFile(s, [file[s] EXCEPT !.due = {"WRITER"}]) /\ Write(s, "putting")
     ELSE file' = file /\ Write(s, "refused")
  /\ UNCHANGED <<session, ledger, store, cleaner, run, runner, faults>>

PutUpload(s) ==
  /\ writer[s] = "putting"
  /\ \/ store' = [store EXCEPT ![s] = @ \cup {"upload"}] /\ Write(s, "finalizing")
     \/ store' \in {store, [store EXCEPT ![s] = @ \cup {"upload"}]} /\ Write(s, "refused")
  /\ UNCHANGED <<session, file, ledger, cleaner, run, runner, faults>>

FinalizeUpload(s) ==
  /\ writer[s] = "finalizing"
  /\ IF session[s].state = "OPEN" /\ file[s].status = "UPLOADING" /\ file[s].key
     THEN SetFile(s, [file[s] EXCEPT !.status = "QUARANTINED", !.due = {}]) /\ Write(s, "idle")
     ELSE file' = file /\ Write(s, "refused")
  /\ UNCHANGED <<session, ledger, store, cleaner, run, runner, faults>>

\* rejectAndClean, in its three steps.
RejectUpload(s) ==
  /\ writer[s] = "refused"
  /\ IF file[s].status = "UPLOADING"
     THEN SetFile(s, [file[s] EXCEPT !.status = "DELETE_PENDING", !.due = {}]) /\ Write(s, "discarding")
     ELSE file' = file /\ Write(s, "idle")
  /\ UNCHANGED <<session, ledger, store, cleaner, run, runner, faults>>

DiscardUpload(s) ==
  /\ writer[s] = "discarding"
  /\ \E ok \in BOOLEAN : Deleted(s, {"upload"}, ok) /\ Write(s, IF ok THEN "rejecting" ELSE "idle")
  /\ UNCHANGED <<session, file, ledger, cleaner, run, runner, faults>>

RecordRejection(s) ==
  /\ writer[s] = "rejecting"
  /\ file' = IF file[s].status = "DELETE_PENDING"
             THEN [file EXCEPT ![s] = Gone(@)]
             ELSE file
  /\ Write(s, "idle")
  /\ UNCHANGED <<session, ledger, store, cleaner, run, runner, faults>>

-----------------------------------------------------------------------------
(* Processing, as far as bytes are concerned *)

\* claim and planArtifacts
ClaimDocument(s) ==
  /\ session[s].state = "OPEN" /\ file[s].status = "QUARANTINED" /\ writer[s] = "idle"
  /\ file' = [file EXCEPT ![s].status = "VALIDATING"]
  /\ ledger' = [ledger EXCEPT ![s] = {"artifact"}]
  /\ Write(s, "rendering")
  /\ UNCHANGED <<session, store, cleaner, run, runner, faults>>

PutArtifact(s) ==
  /\ writer[s] = "rendering"
  /\ \/ store' = [store EXCEPT ![s] = @ \cup {"artifact"}] /\ Write(s, "rendered")
     \/ store' \in {store, [store EXCEPT ![s] = @ \cup {"artifact"}]} /\ Write(s, "spoiled")
  /\ UNCHANGED <<session, file, ledger, cleaner, run, runner, faults>>

\* complete, or compensateInvalidatedArtifact
CompleteDocument(s) ==
  /\ writer[s] = "rendered"
  /\ \/ /\ file[s].status = "VALIDATING" /\ session[s].state = "OPEN"
        /\ file' = [file EXCEPT ![s].status = "READY"]
        /\ store' = store
     \/ /\ file[s].status # "VALIDATING"
        /\ file' = file
        /\ store' \in {store, [store EXCEPT ![s] = @ \ {"artifact"}]}
  /\ Write(s, "idle")
  /\ UNCHANGED <<session, ledger, cleaner, run, runner, faults>>

\* The attempts are used up, by a failure or by a crash.
GiveUpDocument(s) ==
  /\ file[s].status = "VALIDATING" /\ writer[s] \in {"spoiled", "idle"}
  /\ SetFile(s, [file[s] EXCEPT !.status = "DELETE_PENDING", !.due = {}])
  /\ Write(s, "idle")
  /\ UNCHANGED <<session, ledger, store, cleaner, run, runner, faults>>

StaleOwnerStops(s) ==
  /\ writer[s] = "spoiled" /\ file[s].status # "VALIDATING"
  /\ Write(s, "idle")
  /\ UNCHANGED <<session, file, ledger, store, cleaner, run, runner, faults>>

-----------------------------------------------------------------------------
(* Deletion of one document: the janitor's sweep and a removal request *)

Resting == [pc |-> "idle", at |-> Nobody, keys |-> {}, early |-> FALSE]

Begin(c, s) ==
  cleaner' = [cleaner EXCEPT ![c] = [pc |-> "deleting", at |-> s, keys |-> Named(s),
                                     early |-> ~Ended(s)]]

\* removeAs up to the object store; a tombstone and a deletion under way only
\* remember who asked
Remove(s) ==
  /\ cleaner["api"].pc = "idle"
  /\ \/ /\ file[s].status = "VALIDATING"
        /\ SetFile(s, [file[s] EXCEPT !.status = "DELETE_PENDING", !.due = {"WRITER"}])
        /\ cleaner' = cleaner
     \/ /\ \/ file[s].status \in {"QUARANTINED", "READY"}
           \/ file[s].status = "DELETE_PENDING" /\ file[s].due = {}
        /\ SetFile(s, [file[s] EXCEPT !.status = "DELETING", !.due = {}])
        /\ Begin("api", s)
  /\ UNCHANGED <<session, ledger, store, writer, run, runner, faults>>

\* cleanPendingFiles up to the object store
CleanPendingFile(s) ==
  /\ cleaner["janitor"].pc = "idle"
  /\ file[s].status \in Deletable /\ file[s].due = {}
  /\ SetFile(s, [file[s] EXCEPT !.status = "DELETING"])
  /\ Begin("janitor", s)
  /\ UNCHANGED <<session, ledger, store, writer, run, runner, faults>>

\* markInterruptedUploads: the time of the request and the padding have passed.
MarkInterruptedUpload(s) ==
  /\ file[s].status = "UPLOADING" /\ file[s].due = {}
  /\ SetFile(s, [file[s] EXCEPT !.status = "DELETE_PENDING"])
  /\ UNCHANGED <<session, ledger, store, writer, cleaner, run, runner, faults>>

DeleteObjectKeys(c) ==
  /\ cleaner[c].pc = "deleting"
  /\ LET s == cleaner[c].at
     IN \E ok \in BOOLEAN :
          /\ Deleted(s, cleaner[c].keys, ok)
          /\ cleaner' = [cleaner EXCEPT ![c] = IF ok THEN [@ EXCEPT !.pc = "finishing", !.keys = {}, !.early = FALSE] ELSE Resting]
          /\ IF ~ok /\ file[s].status = "DELETING"
             THEN SetFile(s, [file[s] EXCEPT !.status = "DELETE_PENDING", !.due = {}])
             ELSE file' = file
  /\ UNCHANGED <<session, ledger, writer, run, runner, faults>>

\* finishCleanup and finalizeDeletion
FinishCleanup(c) ==
  /\ cleaner[c].pc = "finishing"
  /\ LET s == cleaner[c].at
     IN IF file[s].status \in Deletable
        THEN /\ file' = [file EXCEPT ![s] = Gone(@)]
             /\ ledger' = [ledger EXCEPT ![s] = {}]
        ELSE UNCHANGED <<file, ledger>>
  /\ cleaner' = [cleaner EXCEPT ![c] = Resting]
  /\ UNCHANGED <<session, store, writer, run, runner, faults>>

-----------------------------------------------------------------------------
(* The end of a session *)

\* scheduleSessionFilesForCleanup
Scheduled(f, grace) ==
  CASE f.status \in Deletable -> [f EXCEPT !.status = "DELETE_PENDING"]
    [] f.status \in {"QUARANTINED", "READY"} ->
         [f EXCEPT !.status = "DELETE_PENDING", !.due = grace]
    [] f.status = "VALIDATING" ->
         [f EXCEPT !.status = "DELETE_PENDING", !.due = {"WRITER"} \cup grace]
    [] OTHER -> f

\* A cancellation or an expiry has no grace; a print has one, and is only paid
\* for when no document is being worked on.
EndSession(s, state) ==
  /\ session[s].state = "OPEN"
  /\ state = "SETTLED" => file[s].status \notin Working
  /\ session' = [session EXCEPT ![s].state = state, ![s].mirror = "PENDING",
                                ![s].grace = (state = "SETTLED")]
  /\ LET grace == IF state = "SETTLED" THEN {"GRACE"} ELSE {}
     IN file' = [file EXCEPT ![s] = Clamped(grace, Scheduled(@, grace))]
  /\ UNCHANGED <<ledger, store, writer, cleaner, run, runner, faults>>

\* With time, or because an operator answered a recovery
\* (shortenResolvedRecoveryGrace).
GracePasses(s) ==
  /\ InGrace(s)
  /\ session' = [session EXCEPT ![s].grace = FALSE]
  /\ file' = [file EXCEPT ![s].due = @ \ {"GRACE"}]
  /\ UNCHANGED <<ledger, store, writer, cleaner, run, runner, faults>>

\* A PUT is cut off before the barrier its row was given, and the wait between the
\* reservation and the first byte is shorter than the barrier.
BarrierPasses(s) ==
  /\ "WRITER" \in file[s].due
  /\ writer[s] \notin {"arming", "putting", "rendering"}
  /\ file' = [file EXCEPT ![s].due = @ \ {"WRITER"}]
  /\ UNCHANGED <<session, ledger, store, writer, cleaner, run, runner, faults>>

-----------------------------------------------------------------------------
(* Cleanup runs *)

NoRun == [status |-> "NONE", checkpoint |-> SCHEDULED, holder |-> Nobody, leased |-> FALSE,
          attempts |-> 0, deadLettered |-> FALSE, requested |-> FALSE]

Waiting == [pc |-> "idle", at |-> Nobody, checkpoint |-> SCHEDULED, attempts |-> 0, keys |-> {}]

\* cleanup_runs_assert_progress and cleanup_runs_dead_letter_check
Accepted(old, new) ==
  /\ old.status # "DONE"
  /\ new.checkpoint >= old.checkpoint
  /\ new.attempts >= old.attempts
  /\ (new.status = "DEAD_LETTER") = new.deadLettered

\* The row rearmRequestedRuns writes for a dead-lettered run somebody wants retried.
Requested(s) == run[s].status = "DEAD_LETTER" /\ run[s].requested
Rearmed(r) == [r EXCEPT !.status = "PENDING", !.attempts = 0, !.holder = Nobody, !.leased = FALSE]

\* runOnce begins with the retries, in one statement that fails as a whole and
\* takes the pass with it.
PassBegins == \A s \in Sessions : Requested(s) => Accepted(run[s], Rearmed(run[s]))

\* rearmRequestedRuns and scheduleDueSessions of any worker's pass
BeginPass ==
  /\ PassBegins
  /\ run' = [s \in Sessions |->
               IF Requested(s) THEN Rearmed(run[s])
               ELSE IF run[s].status = "NONE" /\ session[s].mirror = "PENDING" /\ ~InGrace(s)
               THEN [NoRun EXCEPT !.status = "PENDING"] ELSE run[s]]
  /\ session' = [s \in Sessions |->
                   IF Requested(s) /\ session[s].mirror = "DEAD_LETTER"
                   THEN [session[s] EXCEPT !.mirror = "PENDING"] ELSE session[s]]
  /\ UNCHANGED <<file, ledger, store, writer, cleaner, runner, faults>>

\* Slip: a run that died with its worker is not taken over.
PendingOnly(s) == run[s].status = "PENDING" /\ ~run[s].leased

\* The runs claimNext selects; the transaction fails if the session's mirror does
\* not follow.
Claimable(s) == run[s].status \in {"PENDING", "IN_PROGRESS"} /\ ~run[s].leased
Mirrored(s) ==
  session[s].mirror \in {"PENDING", "IN_PROGRESS", "DEAD_LETTER"} /\ ~session[s].deleted

ClaimNext(r, s) ==
  /\ runner[r].pc = "idle" /\ PassBegins
  /\ Claimable(s) /\ Mirrored(s)
  /\ run' = [run EXCEPT ![s] = [@ EXCEPT !.status = "IN_PROGRESS", !.holder = r, !.leased = TRUE]]
  /\ session' = [session EXCEPT ![s].mirror = "IN_PROGRESS"]
  /\ runner' = [runner EXCEPT ![r] = [pc |-> "advancing", at |-> s, checkpoint |-> run[s].checkpoint,
                                      attempts |-> run[s].attempts, keys |-> {}]]
  /\ UNCHANGED <<file, ledger, store, writer, cleaner, faults>>

\* The runner r is at checkpoint k of a run, about to do what comes next.
At(r, k) == runner[r].pc = "advancing" /\ runner[r].checkpoint = k
Goto(r, pc) == runner' = [runner EXCEPT ![r].pc = pc]
Advanced(r) ==
  runner' = [runner EXCEPT ![r].pc = "recording", ![r].checkpoint = @ + 1, ![r].keys = {}]

\* Access was revoked when the session ended, and only an upload may still be live,
\* which keeps its barrier.
RevokeAccess(r) ==
  /\ At(r, SCHEDULED)
  /\ Advanced(r)
  /\ UNCHANGED <<session, file, ledger, store, writer, cleaner, run, faults>>

\* Slip: only a document that is still being uploaded is waited for.
BarredByUpload(s) == file[s].status = "UPLOADING" /\ file[s].due # {}

\* A barrier in the future sends the run back to wait.
Barred(s) == file[s].due # {}

ListKnownArtifacts(r) ==
  /\ At(r, ACCESS_REVOKED)
  /\ IF Barred(runner[r].at)
     THEN Goto(r, "deferring")
     ELSE runner' = [runner EXCEPT ![r].pc = "deleting", ![r].keys = Named(runner[r].at)]
  /\ UNCHANGED <<session, file, ledger, store, writer, cleaner, run, faults>>

DeleteKnownArtifacts(r) ==
  /\ runner[r].pc = "deleting"
  /\ \E ok \in BOOLEAN :
       /\ Deleted(runner[r].at, runner[r].keys, ok)
       /\ runner' = [runner EXCEPT ![r].pc = IF ok THEN "retiring" ELSE "failing", ![r].keys = {}]
  /\ UNCHANGED <<session, file, ledger, writer, cleaner, run, faults>>

RetireLedger(r) ==
  /\ runner[r].pc = "retiring"
  /\ LET s == runner[r].at
     IN /\ ledger' = [ledger EXCEPT ![s] = {}]
        /\ file' = IF file[s].status \in Uncleaned THEN [file EXCEPT ![s] = Gone(@)] ELSE file
  /\ Advanced(r)
  /\ UNCHANGED <<session, store, writer, cleaner, run, faults>>

\* purgePrefix verifies that the prefix is empty.
ReconcileStorage(r) ==
  /\ At(r, ARTIFACTS_DELETED)
  /\ \E ok \in BOOLEAN :
       /\ Deleted(runner[r].at, store[runner[r].at], ok)
       /\ IF ok THEN Advanced(r) ELSE Goto(r, "failing")
  /\ UNCHANGED <<session, file, ledger, writer, cleaner, run, faults>>

ScrubMetadata(r) ==
  /\ At(r, STORAGE_RECONCILED)
  /\ file' = [file EXCEPT ![runner[r].at] = [@ EXCEPT !.key = FALSE, !.due = {}]]
  /\ Advanced(r)
  /\ UNCHANGED <<session, ledger, store, writer, cleaner, run, faults>>

Holds(r) == run[runner[r].at].holder = r

RecordCheckpoint(r) ==
  /\ runner[r].pc = "recording"
  /\ IF Holds(r)
     THEN /\ run' = [run EXCEPT ![runner[r].at].checkpoint = runner[r].checkpoint]
          /\ Goto(r, "advancing")
     ELSE run' = run /\ Goto(r, "failing")
  /\ UNCHANGED <<session, file, ledger, store, writer, cleaner, faults>>

\* print_sessions_assert_documents_removed
Removed(s) == file[s].status \notin Uncleaned /\ ~file[s].key /\ ledger[s] = {}

Released(s) == [run[s] EXCEPT !.holder = Nobody, !.leased = FALSE]

\* Without the lease the run is another's to finish; a tombstone the database
\* refuses fails the run.
Finish(r) ==
  /\ At(r, METADATA_SCRUBBED)
  /\ LET s == runner[r].at
     IN IF Holds(r) /\ Removed(s)
        THEN /\ run' = [run EXCEPT ![s] = [Released(s) EXCEPT !.status = "DONE", !.checkpoint = COMPLETED]]
             /\ session' = [session EXCEPT ![s].mirror = "DONE", ![s].deleted = TRUE]
        ELSE UNCHANGED <<run, session>>
  /\ runner' = [runner EXCEPT ![r] = IF Holds(r) /\ ~Removed(runner[r].at)
                                     THEN [@ EXCEPT !.pc = "failing"] ELSE Waiting]
  /\ UNCHANGED <<file, ledger, store, writer, cleaner, faults>>

DeferRun(r) ==
  /\ runner[r].pc = "deferring"
  /\ LET s == runner[r].at
     IN IF Holds(r)
        THEN /\ run' = [run EXCEPT ![s] = [Released(s) EXCEPT !.status = "PENDING"]]
             /\ session' = [session EXCEPT ![s].mirror = "PENDING"]
        ELSE UNCHANGED <<run, session>>
  /\ runner' = [runner EXCEPT ![r] = Waiting]
  /\ UNCHANGED <<file, ledger, store, writer, cleaner, faults>>

Exhausted(attempts) == attempts + 1 >= MaxAttempts

FailRun(r) ==
  /\ runner[r].pc = "failing"
  /\ LET s == runner[r].at
         dead == Exhausted(runner[r].attempts)
         status == IF dead THEN "DEAD_LETTER" ELSE "PENDING"
     IN IF Holds(r)
        THEN /\ run' = [run EXCEPT ![s] = [Released(s) EXCEPT !.status = status,
                                             !.attempts = runner[r].attempts + 1,
                                             !.deadLettered = dead,
                                             !.requested = @ /\ ~dead]]
             /\ session' = [session EXCEPT ![s].mirror = status]
        ELSE UNCHANGED <<run, session>>
  /\ runner' = [runner EXCEPT ![r] = Waiting]
  /\ UNCHANGED <<file, ledger, store, writer, cleaner, faults>>

\* retryRetention: an operator asks for a run that gave up.
RetryRetention(s) ==
  /\ run[s].status = "DEAD_LETTER" /\ ~run[s].requested
  /\ run' = [run EXCEPT ![s].requested = TRUE]
  /\ UNCHANGED <<session, file, ledger, store, writer, cleaner, runner, faults>>

\* StorageReconciler: what is old and belongs to a cleaned session goes.
ReconcileOrphans(s) ==
  /\ session[s].deleted /\ store[s] # {}
  /\ store' = [store EXCEPT ![s] = {}]
  /\ UNCHANGED <<session, file, ledger, writer, cleaner, run, runner, faults>>

-----------------------------------------------------------------------------
(* Faults *)

\* A lease runs out under a slow run, or after its holder is gone.
LeaseRunsOut(s) ==
  /\ run[s].leased
  /\ IF runner[run[s].holder].at = s
     THEN faults < MaxFaults /\ faults' = faults + 1
     ELSE faults' = faults
  /\ run' = [run EXCEPT ![s].leased = FALSE]
  /\ UNCHANGED <<session, file, ledger, store, writer, cleaner, runner>>

\* A process dies: a PUT it was sending may have arrived.
Crash ==
  /\ faults < MaxFaults /\ faults' = faults + 1
  /\ \/ \E r \in Runners : /\ runner[r].pc # "idle"
                           /\ runner' = [runner EXCEPT ![r] = Waiting]
                           /\ UNCHANGED <<store, writer, cleaner>>
     \/ \E c \in Cleaners : /\ cleaner[c].pc # "idle"
                            /\ cleaner' = [cleaner EXCEPT ![c] = Resting]
                            /\ UNCHANGED <<store, writer, runner>>
     \/ \E s \in Sessions : /\ writer[s] # "idle"
                            /\ Write(s, "idle")
                            /\ store' \in {store} \cup
                                 (CASE writer[s] = "putting" -> {[store EXCEPT ![s] = @ \cup {"upload"}]}
                                    [] writer[s] = "rendering" -> {[store EXCEPT ![s] = @ \cup {"artifact"}]}
                                    [] OTHER -> {})
                            /\ UNCHANGED <<cleaner, runner>>
  /\ UNCHANGED <<session, file, ledger, run>>

\* An object no row names: a multipart upload completed by a process long given up.
StrayObject(s) ==
  /\ faults < MaxFaults /\ faults' = faults + 1
  /\ Ended(s) /\ file[s].status # "NONE"
  /\ store' = [store EXCEPT ![s] = @ \cup {"stray"}]
  /\ UNCHANGED <<session, file, ledger, writer, cleaner, run, runner>>

-----------------------------------------------------------------------------
(* Specification *)

Init ==
  /\ session = [s \in Sessions |-> [state |-> "OPEN", mirror |-> "NOT_DUE", grace |-> FALSE,
                                    deleted |-> FALSE]]
  /\ file = [s \in Sessions |-> [status |-> "NONE", key |-> FALSE, due |-> {}]]
  /\ ledger = [s \in Sessions |-> {}]
  /\ store = [s \in Sessions |-> {}]
  /\ writer = [s \in Sessions |-> "idle"]
  /\ cleaner = [c \in Cleaners |-> Resting]
  /\ run = [s \in Sessions |-> NoRun]
  /\ runner = [r \in Runners |-> Waiting]
  /\ faults = 0

WriterStep(s) ==
  \/ ArmUpload(s) \/ PutUpload(s) \/ FinalizeUpload(s)
  \/ RejectUpload(s) \/ DiscardUpload(s) \/ RecordRejection(s)
  \/ PutArtifact(s) \/ CompleteDocument(s) \/ GiveUpDocument(s) \/ StaleOwnerStops(s)

Customer(s) ==
  \/ ReserveUpload(s) \/ ClaimDocument(s) \/ Remove(s)
  \/ \E state \in {"ABANDONED", "SETTLED"} : EndSession(s, state)

CleanerStep(c) == DeleteObjectKeys(c) \/ FinishCleanup(c)

RunnerStep(r) ==
  \/ \E s \in Sessions : ClaimNext(r, s)
  \/ RevokeAccess(r) \/ ListKnownArtifacts(r) \/ DeleteKnownArtifacts(r) \/ RetireLedger(r)
  \/ ReconcileStorage(r) \/ ScrubMetadata(r) \/ RecordCheckpoint(r)
  \/ Finish(r) \/ DeferRun(r) \/ FailRun(r)

Time(s) == GracePasses(s) \/ BarrierPasses(s) \/ LeaseRunsOut(s)

Next ==
  \/ \E s \in Sessions :
       \/ WriterStep(s) \/ Customer(s) \/ Time(s)
       \/ CleanPendingFile(s) \/ MarkInterruptedUpload(s)
       \/ RetryRetention(s) \/ ReconcileOrphans(s) \/ StrayObject(s)
  \/ \E c \in Cleaners : CleanerStep(c)
  \/ \E r \in Runners : RunnerStep(r)
  \/ BeginPass \/ Crash

\* Requests and runs make progress, time passes, the worker polls.
Fairness ==
  /\ \A s \in Sessions : /\ WF_vars(WriterStep(s)) /\ WF_vars(GracePasses(s))
                         /\ WF_vars(BarrierPasses(s)) /\ WF_vars(LeaseRunsOut(s))
                         /\ WF_vars(ReconcileOrphans(s))
  /\ \A c \in Cleaners : WF_vars(CleanerStep(c))
  /\ \A r \in Runners : WF_vars(RunnerStep(r))
  /\ WF_vars(BeginPass)

RetentionSpec == Init /\ [][Next]_vars /\ Fairness

-----------------------------------------------------------------------------
(* Properties *)

Objects == {"upload", "artifact", "stray"}

SessionRows ==
  [state : {"OPEN", "ABANDONED", "SETTLED"},
   mirror : {"NOT_DUE", "PENDING", "IN_PROGRESS", "DONE", "DEAD_LETTER"},
   grace : BOOLEAN, deleted : BOOLEAN]

FileRows ==
  [status : Uncleaned \cup {"NONE", "GONE"}, key : BOOLEAN, due : SUBSET {"GRACE", "WRITER"}]

RunRows ==
  [status : {"NONE", "PENDING", "IN_PROGRESS", "DONE", "DEAD_LETTER"},
   checkpoint : SCHEDULED .. COMPLETED, holder : Runners \cup {Nobody}, leased : BOOLEAN,
   attempts : 0 .. MaxAttempts, deadLettered : BOOLEAN, requested : BOOLEAN]

WriterSteps == {"idle", "arming", "putting", "finalizing", "refused", "discarding", "rejecting",
                "rendering", "rendered", "spoiled"}

CleanerSlots ==
  [pc : {"idle", "deleting", "finishing"}, at : Sessions \cup {Nobody},
   keys : SUBSET Objects, early : BOOLEAN]

RunnerSlots ==
  [pc : {"idle", "advancing", "deleting", "retiring", "recording", "deferring", "failing"},
   at : Sessions \cup {Nobody}, checkpoint : SCHEDULED .. COMPLETED,
   attempts : 0 .. MaxAttempts, keys : SUBSET Objects]

\* Type correctness.
RetentionTypeOK ==
  /\ session \in [Sessions -> SessionRows]
  /\ file \in [Sessions -> FileRows]
  /\ ledger \in [Sessions -> SUBSET Objects] /\ store \in [Sessions -> SUBSET Objects]
  /\ writer \in [Sessions -> WriterSteps]
  /\ cleaner \in [Cleaners -> CleanerSlots]
  /\ run \in [Sessions -> RunRows] /\ runner \in [Runners -> RunnerSlots]
  /\ faults \in 0 .. MaxFaults

\* No document is forgotten: an object that an upload or a rendering wrote is named
\* by a row until it is deleted, and a session that says its documents are gone has
\* none, whoever was still writing or deleting when it ended.
NothingIsForgotten ==
  /\ RetentionTypeOK
  /\ \A s \in Sessions :
       /\ store[s] \subseteq Named(s) \cup {"stray"}
       /\ session[s].deleted => store[s] \subseteq {"stray"}

\* Between the end of a print and the end of its grace bytes only go through a
\* deletion that had begun before, or as a writer takes back what it just wrote.
GraceIsHonored ==
  [][\A s \in Sessions :
       InGrace(s) /\ ~(store[s] \subseteq store'[s]) =>
         \/ \E c \in Cleaners : /\ cleaner[c].pc = "deleting" /\ cleaner[c].at = s
                                /\ cleaner[c].early
         \/ writer[s] \in {"discarding", "rendered"}]_vars

\* Every finished session is emptied, strays included, or its run has given up for
\* a person to see.
EndedIsEmptied ==
  \A s \in Sessions :
    Ended(s) ~> \/ session[s].deleted /\ store[s] = {}
                \/ run[s].status = "DEAD_LETTER"

\* A run that somebody asked to have retried is retried.
RetryIsHonored ==
  \A s \in Sessions : Requested(s) ~> run[s].status # "DEAD_LETTER"
=============================================================================
