----------------------------- MODULE Processing -----------------------------
(***************************************************************************)
(* One uploaded document on its way from quarantine to printable: worker   *)
(* processes claim it under a lease, render it, write the artifacts they   *)
(* announced in a ledger, and either finish or give it back, while         *)
(* workers crash, heartbeats fail, the customer removes the document and   *)
(* the session ends (worker/jobs/process-document.ts).                     *)
(*                                                                         *)
(* There is no clock.  A lease is alive or has run out; it can run out     *)
(* only if nobody is renewing it.  A cleanup barrier is either passed or   *)
(* "settling", and it passes only when no artifact upload that started     *)
(* under the revoked claim is still running: an upload is cut off after    *)
(* 30 seconds and the barrier lasts 35.                                    *)
(*                                                                         *)
(* A session with a document in processing cannot be paid, so it is open,  *)
(* past its deadline but not yet swept, or ended.                          *)
(***************************************************************************)
EXTENDS Naturals, FiniteSets

CONSTANTS
  Workers,      \* job slots of the worker processes
  MayStall,     \* the slots whose process may freeze longer than its lease
  Artifacts,    \* what the processor renders: the normalised PDF, the previews
  MaxAttempts,  \* DOCUMENT_PROCESSING_MAX_ATTEMPTS
  MaxFaults     \* bound on crashes, failed heartbeats and lost queue messages

ASSUME ProcessingAssumption ==
  /\ IsFiniteSet(Workers) /\ MayStall \subseteq Workers
  /\ IsFiniteSet(Artifacts) /\ "original" \notin Artifacts
  /\ MaxAttempts \in Nat \ {0}
  /\ MaxFaults \in Nat

VARIABLES
  session,  \* "OPEN", "OVERDUE" or "ENDED"
  file,     \* the uploaded_files row
  rows,     \* the file_derivatives rows
  store,    \* the object store
  queue,    \* generations waiting in the BullMQ queue
  worker,   \* per slot: where processJob or recoverOneStaleClaim is
  tokens,   \* claim tokens drawn so far
  faults    \* faults so far

vars == <<session, file, rows, store, queue, worker, tokens, faults>>

-----------------------------------------------------------------------------
(* Values *)

Original == "original"   \* the quarantined upload, key and ledger entry

Processable == {"QUARANTINED", "VALIDATING"}
Deletable == {"DELETE_PENDING", "DELETING"}
Statuses == Processable \cup Deletable \cup {"READY", "REJECTED", "DELETED"}

\* An artifact's key carries the generation that wrote it.
Key(art, gen) == <<art, IF art = Original THEN 0 ELSE gen>>
Upload == Key(Original, 0)
KeysOf(ledger) == {Key(r.art, r.gen) : r \in ledger}

NoToken == 0

Idle == [pc |-> "idle", gen |-> 0, token |-> NoToken, recovering |-> FALSE,
         aborted |-> FALSE, rejected |-> FALSE, todo |-> {}, art |-> Original, listed |-> {}, doomed |-> {},
         failed |-> FALSE]

\* The where-clause every write of a claim holder repeats.
Live(w) ==
  /\ file.status = "VALIDATING"
  /\ file.gen = worker[w].gen
  /\ file.token = worker[w].token
  /\ file.leased

At(w, pc) == worker[w].pc = pc
Go(w, pc) == worker' = [worker EXCEPT ![w].pc = pc]
Stop(w) == worker' = [worker EXCEPT ![w] = Idle]
Fail(w) == worker' = [worker EXCEPT ![w].pc = "failing"]

\* The claim leaves the row with its status.
Unclaimed(f, status) == [f EXCEPT !.status = status, !.token = NoToken, !.leased = FALSE,
                                  !.enqueued = FALSE]

\* Every revocation of a claim moves the generation on.
Revoked(status, settling) ==
  [Unclaimed(file, status) EXCEPT !.gen = @ + 1, !.asked = TRUE, !.settling = settling]

-----------------------------------------------------------------------------
(* Dispatch *)

\* reserveNextJob, and the queue message.
Reserve ==
  /\ file.status = "QUARANTINED" /\ ~file.enqueued
  /\ file' = [file EXCEPT !.gen = @ + 1, !.enqueued = TRUE]
  /\ queue' = queue \cup {file.gen + 1}
  /\ UNCHANGED <<session, rows, store, worker, tokens, faults>>

\* A message is taken for lost after thirty seconds, whether it is or not.
ReserveAgain ==
  /\ file.status = "QUARANTINED" /\ file.enqueued
  /\ faults < MaxFaults
  /\ faults' = faults + 1
  /\ file' = [file EXCEPT !.gen = @ + 1]
  /\ \E lost \in SUBSET queue : queue' = (queue \ lost) \cup {file.gen + 1}
  /\ UNCHANGED <<session, rows, store, worker, tokens>>

\* claim: a message of an older generation is dropped, a document of a session
\* that no longer accepts it is given up.
Claim(w, g) ==
  /\ At(w, "idle") /\ g \in queue
  /\ queue' = queue \ {g}
  /\ \/ /\ file.status # "QUARANTINED" \/ file.gen # g
        /\ UNCHANGED <<file, worker, tokens>>
     \/ /\ file.status = "QUARANTINED" /\ file.gen = g
        /\ session # "OPEN"
        /\ file' = [Unclaimed(file, "DELETE_PENDING") EXCEPT !.asked = TRUE, !.settling = FALSE]
        /\ UNCHANGED <<worker, tokens>>
     \/ /\ file.status = "QUARANTINED" /\ file.gen = g
        /\ session = "OPEN"
        /\ tokens' = tokens + 1
        /\ file' = [file EXCEPT !.status = "VALIDATING", !.token = tokens + 1, !.leased = TRUE,
                                !.attempts = @ + 1, !.enqueued = FALSE]
        /\ worker' = [worker EXCEPT ![w] = [Idle EXCEPT !.pc = "processing", !.gen = g,
                                                        !.token = tokens + 1]]
  /\ UNCHANGED <<session, rows, store, faults>>

-----------------------------------------------------------------------------
(* processJob *)

\* The processor answers, or fails; only a stable content error rejects.
Process(w) ==
  /\ At(w, "processing")
  /\ \/ ~worker[w].aborted /\ Upload \in store /\ Go(w, "planning")
     \/ Fail(w)
     \/ ~worker[w].aborted /\ worker' = [worker EXCEPT ![w].pc = "failing", ![w].rejected = TRUE]
  /\ UNCHANGED <<session, file, rows, store, queue, tokens, faults>>

\* planArtifacts: the ledger names every object before it is written.
PlanArtifacts(w) ==
  /\ At(w, "planning")
  /\ IF Live(w)
     THEN /\ rows' = rows \cup
               {[art |-> a, gen |-> worker[w].gen, by |-> worker[w].token,
                 status |-> IF a = Original THEN "AVAILABLE" ELSE "STAGING"] :
                  a \in Artifacts \cup {Original}}
          /\ worker' = [worker EXCEPT ![w].pc = "uploading", ![w].todo = Artifacts]
     ELSE rows' = rows /\ Fail(w)
  /\ UNCHANGED <<session, file, store, queue, tokens, faults>>

\* The check before a PUT, or the end of the loop.
NextUpload(w) ==
  /\ At(w, "uploading")
  /\ \/ worker[w].todo = {} /\ Go(w, "completing")
     \/ worker[w].todo # {} /\ (worker[w].aborted \/ ~Live(w)) /\ Fail(w)
     \/ /\ ~worker[w].aborted /\ Live(w)
        /\ \E a \in worker[w].todo :
             worker' = [worker EXCEPT ![w].pc = "putting", ![w].art = a, ![w].todo = @ \ {a}]
  /\ UNCHANGED <<session, file, rows, store, queue, tokens, faults>>

ThisKey(w) == Key(worker[w].art, worker[w].gen)

\* The PUT succeeds, or ends in an error whether or not the object is there.
Put(w) ==
  /\ At(w, "putting")
  /\ \/ ~worker[w].aborted /\ store' = store \cup {ThisKey(w)} /\ Go(w, "stored")
     \/ store' \in {store, store \cup {ThisKey(w)}} /\ Fail(w)
  /\ UNCHANGED <<session, file, rows, queue, tokens, faults>>

\* The check after a PUT.
CheckStored(w) ==
  /\ At(w, "stored")
  /\ Go(w, IF Live(w) THEN "marking" ELSE "compensating")
  /\ UNCHANGED <<session, file, rows, store, queue, tokens, faults>>

ThisRow(w) == {r \in rows : r.art = worker[w].art /\ r.by = worker[w].token}

\* Plausible slip: the document's status is written to the artifact.
MarkReady(w) ==
  /\ At(w, "marking")
  /\ rows' = (rows \ ThisRow(w)) \cup {[r EXCEPT !.status = "READY"] : r \in ThisRow(w)}
  /\ Go(w, "uploading")
  /\ UNCHANGED <<session, file, store, queue, tokens, faults>>

MarkAvailable(w) ==
  /\ At(w, "marking")
  /\ LET mine == {r \in ThisRow(w) : r.status = "STAGING"}
     IN IF mine # {}
        THEN /\ rows' = (rows \ mine) \cup {[r EXCEPT !.status = "AVAILABLE"] : r \in mine}
             /\ Go(w, "uploading")
        ELSE rows' = rows /\ Go(w, "compensating")
  /\ UNCHANGED <<session, file, store, queue, tokens, faults>>

\* compensateInvalidatedArtifact: delete what was just written; if that fails,
\* leave a marker in the ledger.
CompensateInvalidatedArtifact(w) ==
  /\ At(w, "compensating")
  /\ \/ store' = store \ {ThisKey(w)} /\ rows' = rows
     \/ /\ store' = store
        /\ rows' = (rows \ ThisRow(w)) \cup {[r EXCEPT !.status = "DELETE_PENDING"] : r \in ThisRow(w)}
  /\ Fail(w)
  /\ UNCHANGED <<session, file, queue, tokens, faults>>

\* complete: the document becomes printable.
Complete(w) ==
  /\ At(w, "completing")
  /\ IF /\ Live(w) /\ session = "OPEN"
        /\ \A a \in Artifacts \cup {Original} :
             \E r \in rows : r.art = a /\ r.by = worker[w].token /\ r.status = "AVAILABLE"
     THEN file' = Unclaimed(file, "READY") /\ Stop(w)
     ELSE file' = file /\ Fail(w)
  /\ UNCHANGED <<session, rows, store, queue, tokens, faults>>

GivenUp == [Unclaimed(file, "DELETE_PENDING") EXCEPT !.settling = FALSE]

\* handleFailure: a stale owner does nothing, a rejected or worn-out document is
\* given up, any other one is cleaned for the next attempt.
HandleFailure(w) ==
  /\ At(w, "failing")
  /\ \/ ~Live(w) /\ file' = file /\ Stop(w)
     \/ /\ Live(w)
        /\ worker[w].rejected \/ file.attempts >= MaxAttempts
        /\ file' = GivenUp
        /\ Stop(w)
     \/ /\ Live(w)
        /\ ~worker[w].rejected /\ file.attempts < MaxAttempts
        /\ file' = file
        /\ Go(w, "cleaning")
  /\ UNCHANGED <<session, rows, store, queue, tokens, faults>>

-----------------------------------------------------------------------------
(* cleanupArtifacts, for a failed attempt or an abandoned one *)

\* An error while cleaning: a failed attempt leaves the claim to run out, a
\* recovery gives the document up if it still may.
CleaningFails(w) ==
  /\ file' = IF worker[w].recovering /\ Live(w) THEN GivenUp ELSE file
  /\ Stop(w)

\* Plausible slip: the original is deleted along with what was made from it.
ListWithOriginal(w) ==
  /\ At(w, "cleaning")
  /\ worker' = [worker EXCEPT ![w].pc = "deleting", ![w].listed = rows,
                              ![w].doomed = KeysOf(rows)]
  /\ UNCHANGED <<session, file, rows, store, queue, tokens, faults>>

\* All derivatives of the document, whichever attempt recorded them; the upload
\* itself stays.
ListDerivatives(w) ==
  /\ At(w, "cleaning")
  /\ worker' = [worker EXCEPT ![w].pc = "deleting", ![w].listed = rows,
                              ![w].doomed = KeysOf(rows) \ {Upload}]
  /\ UNCHANGED <<session, file, rows, store, queue, tokens, faults>>

\* The objects go one by one, each deletion after a look at the signal; a failed
\* one is remembered.
DeleteListed(w) ==
  /\ At(w, "deleting") /\ ~worker[w].aborted
  /\ \/ /\ worker[w].doomed = {}
        /\ store' = store
        /\ Go(w, IF worker[w].failed THEN "surrendering" ELSE "retiring")
     \/ \E key \in worker[w].doomed, gone \in BOOLEAN :
          /\ store' = IF gone THEN store \ {key} ELSE store
          /\ worker' = [worker EXCEPT ![w].doomed = @ \ {key},
                                      ![w].failed = @ \/ ~gone]
  /\ UNCHANGED <<session, file, rows, queue, tokens, faults>>

DeletionAborted(w) ==
  /\ At(w, "deleting") /\ worker[w].aborted
  /\ CleaningFails(w)
  /\ UNCHANGED <<session, rows, store, queue, tokens, faults>>

\* failCleanup
FailCleanup(w) ==
  /\ At(w, "surrendering")
  /\ file' = IF Live(w) THEN GivenUp ELSE file
  /\ Stop(w)
  /\ UNCHANGED <<session, rows, store, queue, tokens, faults>>

RetireRows(w) ==
  /\ At(w, "retiring")
  /\ IF Live(w) /\ ~worker[w].aborted
     THEN rows' = rows \ worker[w].listed /\ file' = file /\ Go(w, "requeueing")
     ELSE rows' = rows /\ CleaningFails(w)
  /\ UNCHANGED <<session, store, queue, tokens, faults>>

\* Plausible slip: the row is put back without asking whose it is by now.
RequeueUnguarded(w) ==
  /\ At(w, "requeueing")
  /\ file' = IF file.attempts >= MaxAttempts THEN GivenUp ELSE Unclaimed(file, "QUARANTINED")
  /\ Stop(w)
  /\ UNCHANGED <<session, rows, store, queue, tokens, faults>>

\* Back to quarantine, unless the attempts are used up.
Requeue(w) ==
  /\ At(w, "requeueing")
  /\ file' = IF ~Live(w) THEN file
             ELSE IF file.attempts >= MaxAttempts THEN GivenUp
             ELSE Unclaimed(file, "QUARANTINED")
  /\ Stop(w)
  /\ UNCHANGED <<session, rows, store, queue, tokens, faults>>

\* Plausible slip: a claim in its last attempt is not worth recovering.
RecoverWithinBudget(w) ==
  /\ At(w, "idle")
  /\ file.status = "VALIDATING" /\ file.token # NoToken /\ ~file.leased
  /\ file.attempts < MaxAttempts
  /\ tokens' = tokens + 1
  /\ file' = [file EXCEPT !.token = tokens + 1, !.leased = TRUE]
  /\ worker' = [worker EXCEPT ![w] = [Idle EXCEPT !.pc = "cleaning", !.gen = file.gen,
                                                  !.token = tokens + 1, !.recovering = TRUE]]
  /\ UNCHANGED <<session, rows, store, queue, faults>>

\* recoverOneStaleClaim takes over a claim whose lease has run out.
Recover(w) ==
  /\ At(w, "idle")
  /\ file.status = "VALIDATING" /\ file.token # NoToken /\ ~file.leased
  /\ tokens' = tokens + 1
  /\ file' = [file EXCEPT !.token = tokens + 1, !.leased = TRUE]
  /\ worker' = [worker EXCEPT ![w] = [Idle EXCEPT !.pc = "cleaning", !.gen = file.gen,
                                                  !.token = tokens + 1, !.recovering = TRUE]]
  /\ UNCHANGED <<session, rows, store, queue, faults>>

-----------------------------------------------------------------------------
(* Leases and faults *)

\* A heartbeat finds the claim gone, or cannot reach the database.
Heartbeat(w) ==
  /\ ~At(w, "idle") /\ ~worker[w].aborted
  /\ IF Live(w) THEN faults < MaxFaults /\ faults' = faults + 1 ELSE faults' = faults
  /\ worker' = [worker EXCEPT ![w].aborted = TRUE]
  /\ UNCHANGED <<session, file, rows, store, queue, tokens>>

\* The lease runs out: nobody renews it, or the one who would is frozen.  The
\* signal that ends renewal ends a running PUT long before.
LeaseRunsOut ==
  /\ file.status = "VALIDATING" /\ file.leased
  /\ \A w \in Workers : Live(w) => \/ worker[w].aborted /\ ~At(w, "putting")
                                  \/ w \in MayStall
  /\ file' = [file EXCEPT !.leased = FALSE]
  /\ UNCHANGED <<session, rows, store, queue, worker, tokens, faults>>

\* A worker process dies: its PUT may or may not have arrived, and the queue
\* delivers its job once more.
Crash(w) ==
  /\ faults < MaxFaults
  /\ faults' = faults + 1
  /\ ~At(w, "idle")
  /\ Stop(w)
  /\ store' \in IF At(w, "putting") THEN {store, store \cup {ThisKey(w)}} ELSE {store}
  /\ queue' = IF worker[w].recovering THEN queue ELSE queue \cup {worker[w].gen}
  /\ UNCHANGED <<session, file, rows, tokens>>

-----------------------------------------------------------------------------
(* The customer, the session and the janitor *)

\* Plausible slip: no barrier for the uploads of the claim just revoked.
SettlesNever == FALSE

\* A validating document may have an artifact upload running.
Settles == file.status = "VALIDATING"

\* removeAs
Remove ==
  /\ \/ /\ file.status = "REJECTED"
        /\ file' = [file EXCEPT !.status = "DELETED", !.asked = TRUE]
     \/ /\ file.status = "DELETE_PENDING" /\ file.settling
        /\ file' = [file EXCEPT !.asked = TRUE]
     \/ /\ file.status \in Processable \cup {"READY", "DELETE_PENDING"} /\ ~file.settling
        /\ file' = Revoked(IF Settles THEN "DELETE_PENDING" ELSE "DELETING", Settles)
  /\ UNCHANGED <<session, rows, store, queue, worker, tokens, faults>>

Overdue ==
  /\ session = "OPEN"
  /\ session' = "OVERDUE"
  /\ UNCHANGED <<file, rows, store, queue, worker, tokens, faults>>

\* A terminal transition: scheduleSessionFilesForCleanup.
EndSession ==
  /\ session # "ENDED"
  /\ session' = "ENDED"
  /\ file' = IF file.status \in {"REJECTED", "DELETED"} THEN file
             ELSE Revoked("DELETE_PENDING",
                          IF file.status \in Deletable THEN file.settling ELSE Settles)
  /\ UNCHANGED <<rows, store, queue, worker, tokens, faults>>

\* The barrier passes; by then every upload of the revoked claim has ended.
BarrierPasses ==
  /\ file.settling
  /\ \A w \in Workers : ~At(w, "putting")
  /\ file' = [file EXCEPT !.settling = FALSE]
  /\ UNCHANGED <<session, rows, store, queue, worker, tokens, faults>>

\* cleanPendingFiles: the objects, then the ledger, then the row.
CleanPendingFile ==
  /\ file.status \in Deletable /\ ~file.settling
  /\ store' = store \ ({Upload} \cup KeysOf(rows))
  /\ rows' = {}
  /\ file' = [Unclaimed(file, IF file.asked THEN "DELETED" ELSE "REJECTED") EXCEPT !.gen = @ + 1]
  /\ UNCHANGED <<session, queue, worker, tokens, faults>>

-----------------------------------------------------------------------------
(* Specification *)

Init ==
  /\ session = "OPEN"
  /\ file = [status |-> "QUARANTINED", gen |-> 0, token |-> NoToken, leased |-> FALSE,
             attempts |-> 0, enqueued |-> FALSE, asked |-> FALSE, settling |-> FALSE]
  /\ rows = {}
  /\ store = {Upload}
  /\ queue = {}
  /\ worker = [w \in Workers |-> Idle]
  /\ tokens = 0
  /\ faults = 0

WorkerStep(w) ==
  \/ Process(w) \/ PlanArtifacts(w) \/ NextUpload(w) \/ Put(w) \/ CheckStored(w)
  \/ MarkAvailable(w) \/ CompensateInvalidatedArtifact(w) \/ Complete(w)
  \/ HandleFailure(w) \/ ListDerivatives(w) \/ DeleteListed(w)
  \/ DeletionAborted(w) \/ FailCleanup(w) \/ RetireRows(w) \/ Requeue(w)

Take(w) == Recover(w) \/ \E g \in queue : Claim(w, g)

Next ==
  \/ \E w \in Workers : WorkerStep(w) \/ Take(w) \/ Heartbeat(w) \/ Crash(w)
  \/ Reserve \/ ReserveAgain \/ LeaseRunsOut
  \/ Remove \/ Overdue \/ EndSession \/ BarrierPasses \/ CleanPendingFile

\* Workers work and poll, leases run out, the janitor sweeps.
Fairness ==
  /\ \A w \in Workers : WF_vars(WorkerStep(w))
  /\ WF_vars(\E w \in Workers : Take(w))
  /\ WF_vars(Reserve) /\ WF_vars(LeaseRunsOut)
  /\ WF_vars(BarrierPasses) /\ WF_vars(CleanPendingFile)

ProcessingSpec == Init /\ [][Next]_vars /\ Fairness

-----------------------------------------------------------------------------
(* Properties *)

Rows == [art : Artifacts \cup {Original}, gen : Nat, by : Nat,
         status : {"STAGING", "AVAILABLE", "DELETE_PENDING"}]

Keys == (Artifacts \cup {Original}) \X Nat

Files == [status : Statuses, gen : Nat, token : Nat, leased : BOOLEAN, attempts : Nat,
          enqueued : BOOLEAN, asked : BOOLEAN, settling : BOOLEAN]

Slots == [pc : {"idle", "processing", "planning", "uploading", "putting", "stored", "marking",
                "compensating", "completing", "failing", "cleaning", "deleting", "retiring",
                "requeueing", "surrendering"},
          gen : Nat, token : Nat, recovering : BOOLEAN, aborted : BOOLEAN, rejected : BOOLEAN,
          todo : SUBSET Artifacts, art : Artifacts \cup {Original}, listed : SUBSET Rows,
          doomed : SUBSET Keys, failed : BOOLEAN]

\* Type correctness.
ProcessingTypeOK ==
  /\ session \in {"OPEN", "OVERDUE", "ENDED"}
  /\ file \in Files /\ rows \subseteq Rows
  /\ store \subseteq Keys /\ queue \subseteq Nat
  /\ worker \in [Workers -> Slots]
  /\ tokens \in Nat /\ faults \in 0 .. MaxFaults

\* Nobody takes the bytes from under a document: while it can still be printed
\* its upload is there, and once it is ready one attempt's complete set of
\* artifacts is recorded and stored, whatever earlier owners clean up late.
ReadyHasBytes ==
  /\ file.status \in Processable \cup {"READY"} => Upload \in store
  /\ file.status = "READY" =>
       \E claim \in 1 .. tokens : \A a \in Artifacts :
         \E r \in rows : /\ r.art = a /\ r.by = claim /\ r.status = "AVAILABLE"
                         /\ Key(r.art, r.gen) \in store

\* The ledger can name every artifact that exists: a key that no row remembers is
\* a document nobody can delete.  Cleaning waits for the uploads of a revoked
\* claim, so not even the object of a late or failed upload is forgotten.
LedgerNamesEveryObject == store \subseteq {Upload} \cup KeysOf(rows)

\* A document that left processing never comes back to it: no stale owner,
\* recovery or repeated message revives it.
NeverRevived ==
  [][file.status \notin Processable => file'.status \notin Processable]_vars

\* Every document is eventually printable or gone, whoever crashes.
ProcessingSettles ==
  file.status = "QUARANTINED" ~> file.status \in {"READY", "REJECTED", "DELETED"}
=============================================================================
