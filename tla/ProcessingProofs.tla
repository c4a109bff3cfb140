-------------------------- MODULE ProcessingProofs --------------------------
(***************************************************************************)
(* What holds of Processing for any number of workers, artifacts, attempts *)
(* and faults, provided that no process freezes for longer than its lease  *)
(* (NobodyStalls: MayStall is empty).  A process that does freeze wakes up *)
(* still believing in its claim; NeverRevived holds even then.             *)
(*                                                                         *)
(* The argument has three layers.  ClaimInv: a claim token is drawn once,  *)
(* a queue message is held by one worker, so at most one worker is Live.   *)
(* OwnerInv: a worker that was not told to abort is Live or the document   *)
(* is on its way out, and an upload runs only under a live claim or before *)
(* the barrier.  BytesInv: therefore nobody deletes an object or a row     *)
(* under the live claim or the ready document.                             *)
(***************************************************************************)
EXTENDS Processing, TLAPS

NobodyStalls == MayStall = {}

-----------------------------------------------------------------------------
(* The inductive invariant *)

Gone == Deletable \cup {"REJECTED", "DELETED"}

\* Where processJob is before its attempt failed: no artifact of it is deleted.
Attempting == {"processing", "planning", "uploading", "putting", "stored", "marking", "completing"}
Uploading == {"putting", "stored", "marking", "compensating"}
Cleaning == {"cleaning", "deleting", "retiring", "requeueing", "surrendering"}

Busy(w) == ~At(w, "idle")
Rendering(w) == Busy(w) /\ ~worker[w].recovering

\* Tokens are drawn once, a message is held by one worker, a claim lies on a
\* validating document and on no other.
ClaimInv ==
  /\ (file.status = "VALIDATING") <=> (file.token # NoToken)
  /\ file.leased => file.status = "VALIDATING"
  /\ file.settling => file.status = "DELETE_PENDING"
  /\ file.token <= tokens
  /\ \A w \in Workers : Busy(w) => worker[w].token \in 1 .. tokens /\ worker[w].gen <= file.gen
  /\ \A w \in Workers : worker[w].recovering => worker[w].pc \in Cleaning
  /\ \A v, w \in Workers : Busy(v) /\ Busy(w) /\ worker[v].token = worker[w].token => v = w
  /\ \A w \in Workers : Busy(w) /\ worker[w].token = file.token => worker[w].gen = file.gen
  /\ \A v, w \in Workers : Rendering(v) /\ Rendering(w) /\ worker[v].gen = worker[w].gen => v = w
  /\ \A w \in Workers : Rendering(w) => worker[w].gen \notin queue
  /\ \A g \in queue : g <= file.gen

\* A worker that renews its lease owns the document, unless it is on its way out;
\* an upload runs under a live claim or before the barrier has passed.
OwnerInv ==
  /\ \A w \in Workers : Busy(w) /\ ~worker[w].aborted => Live(w) \/ file.status \in Gone
  /\ \A w \in Workers : At(w, "putting") => Live(w) \/ file.settling
  /\ file.status = "READY" =>
       /\ file.gen \notin queue
       /\ \A w \in Workers : Rendering(w) => worker[w].gen # file.gen

\* What the ledger says of the attempts at work.
LedgerInv ==
  /\ \A r \in rows : r.by <= tokens
  /\ \A r \in rows, w \in Workers : Busy(w) /\ r.by = worker[w].token => r.gen = worker[w].gen
  /\ \A w \in Workers, a \in Artifacts :
       \/ At(w, "putting")
       \/ worker[w].pc \in {"uploading", "stored", "marking"} /\ Live(w)
       => \E r \in rows : r.art = a /\ r.by = worker[w].token
  /\ \A w \in Workers : worker[w].pc \in Uploading => worker[w].art \in Artifacts

\* An artifact the ledger calls available is stored while its attempt is at work.
AttemptInv ==
  /\ \A w \in Workers : Live(w) /\ worker[w].pc \in {"stored", "marking"} => ThisKey(w) \in store
  /\ \A w \in Workers, r \in rows :
       /\ Live(w) /\ worker[w].pc \in Attempting
       /\ r.by = worker[w].token /\ r.art \in Artifacts /\ r.status = "AVAILABLE"
       => Key(r.art, r.gen) \in store

\* A cleanup spares the upload, and forgets no object that is still there.
CleanupInv ==
  /\ \A w \in Workers : Upload \notin worker[w].doomed
  /\ \A w \in Workers : At(w, "retiring") => ~worker[w].failed /\ worker[w].doomed = {}
  /\ \A w \in Workers :
       Live(w) /\ worker[w].pc \in {"deleting", "retiring"} /\ ~worker[w].failed
       => \A r \in worker[w].listed :
            Key(r.art, r.gen) \in store => Key(r.art, r.gen) \in {Upload} \cup worker[w].doomed

\* One attempt's artifacts, all recorded under the document's generation and stored.
Rendered(claim) ==
  \A a \in Artifacts : \E r \in rows :
    /\ r.art = a /\ r.by = claim /\ r.status = "AVAILABLE"
    /\ r.gen = file.gen /\ Key(r.art, r.gen) \in store

PrintableInv ==
  /\ file.status \in Processable \cup {"READY"} => Upload \in store
  /\ file.status = "READY" => \E claim \in 1 .. tokens : Rendered(claim)

WorkInv ==
  /\ ClaimInv /\ OwnerInv /\ LedgerInv
  /\ AttemptInv /\ CleanupInv /\ PrintableInv /\ LedgerNamesEveryObject

ProcessingInv == ProcessingTypeOK /\ WorkInv

USE DEF At, Go, Stop, Fail, Live, Busy, Rendering, Original, Upload, Key, ThisKey, NoToken,
        Processable, Deletable, Gone, Attempting, Uploading, Cleaning

-----------------------------------------------------------------------------
(* Rows and slots *)

\* Writing the slot of one worker leaves the slots typed.
LEMMA OneSlot ==
  ASSUME ProcessingTypeOK, NEW w \in Workers, NEW s \in Slots, worker' = [worker EXCEPT ![w] = s]
  PROVE  worker' \in [Workers -> Slots]
BY DEF ProcessingTypeOK

\* Taking a claim off the document's row leaves the row typed.
LEMMA UnclaimedIsRow ==
  ASSUME ProcessingTypeOK, NEW s \in Statuses
  PROVE  Unclaimed(file, s) \in Files
BY DEF ProcessingTypeOK, Files, Unclaimed

\* Revoking the claim leaves the row typed.
LEMMA RevokedIsRow ==
  ASSUME ProcessingTypeOK, NEW s \in Statuses, NEW b \in BOOLEAN
  PROVE  Revoked(s, b) \in Files
<1> DEFINE g == file.gen + 1
           f == Unclaimed(file, s)
<1>1. f \in Files
  BY UnclaimedIsRow
<1>2. g \in Nat
  BY DEF ProcessingTypeOK, Files
<1>3. Revoked(s, b) = [f EXCEPT !.gen = g, !.asked = TRUE, !.settling = b]
  BY DEF Revoked, Unclaimed
<1> HIDE DEF f, g
<1> QED
  BY <1>1, <1>2, <1>3 DEF Files

\* The ledger S with the rows T in status s.
Marked(S, T, s) == (S \ T) \cup {[r EXCEPT !.status = s] : r \in T}

\* Marking some rows of the ledger keeps every artifact, owner and generation.
LEMMA Remarked ==
  ASSUME NEW S, NEW T, S \subseteq Rows, T \subseteq S,
         NEW s \in {"STAGING", "AVAILABLE", "DELETE_PENDING"},
         NEW U, U = Marked(S, T, s)
  PROVE  /\ U \subseteq Rows
         /\ S \ T \subseteq U
         /\ \A u \in U : \E r \in S : /\ u.art = r.art /\ u.by = r.by /\ u.gen = r.gen
                                      /\ u = r \/ (r \in T /\ u.status = s)
         /\ \A r \in S : \E u \in U : u.art = r.art /\ u.by = r.by /\ u.gen = r.gen
<1>1. ASSUME NEW r \in T
      PROVE  LET u == [r EXCEPT !.status = s]
             IN u \in Rows /\ u.art = r.art /\ u.by = r.by /\ u.gen = r.gen /\ u.status = s
  BY DEF Rows
<1>2. U \subseteq Rows
  BY <1>1 DEF Marked
<1>3. ASSUME NEW u \in U
      PROVE  \E r \in S : /\ u.art = r.art /\ u.by = r.by /\ u.gen = r.gen
                          /\ u = r \/ (r \in T /\ u.status = s)
  <2>1. CASE u \in S \ T
    BY <2>1
  <2>2. CASE u \notin S \ T
    <3>1. PICK r \in T : u = [r EXCEPT !.status = s]
      BY <2>2 DEF Marked
    <3> QED
      BY <3>1, <1>1
  <2> QED
    BY <2>1, <2>2
<1>4. ASSUME NEW r \in S
      PROVE  \E u \in U : u.art = r.art /\ u.by = r.by /\ u.gen = r.gen
  <2>1. CASE r \in T
    <3>1. [r EXCEPT !.status = s] \in U
      BY <2>1 DEF Marked
    <3> QED
      BY <1>1, <2>1, <3>1
  <2>2. CASE r \notin T
    BY <2>2 DEF Marked
  <2> QED
    BY <2>1, <2>2
<1> QED
  BY <1>2, <1>3, <1>4 DEF Marked

-----------------------------------------------------------------------------
(* Types *)

\* Types, the processor answers.
LEMMA ProcessTyped ==
  ASSUME ProcessingTypeOK, NEW w \in Workers, Process(w)
  PROVE  ProcessingTypeOK'
<1>0. At(w, "processing") /\ UNCHANGED <<session, file, rows, store, queue, tokens, faults>>
  BY DEF Process
<1>1. ASSUME Go(w, "planning") /\ ~worker[w].aborted
     PROVE  ProcessingTypeOK'
  BY <1>0, <1>1 DEF ProcessingTypeOK, Files, Slots, Keys, Statuses
<1>2. ASSUME Fail(w)
     PROVE  ProcessingTypeOK'
  BY <1>0, <1>2 DEF ProcessingTypeOK, Files, Slots, Keys, Statuses
<1>3. ASSUME worker' = [worker EXCEPT ![w].pc = "failing", ![w].rejected = TRUE]
     PROVE  ProcessingTypeOK'
  <2> DEFINE s == [worker[w] EXCEPT !.pc = "failing", !.rejected = TRUE]
  <2>1. s \in Slots /\ worker' = [worker EXCEPT ![w] = s]
    BY <1>3 DEF ProcessingTypeOK, Slots
  <2> HIDE DEF s
  <2> QED
    BY <1>0, <2>1, OneSlot DEF ProcessingTypeOK
<1> QED
  BY <1>0, <1>1, <1>2, <1>3 DEF ProcessingTypeOK, Process, Files

\* Types, the ledger names an attempt's artifacts before one is written.
LEMMA PlanArtifactsTyped ==
  ASSUME ProcessingTypeOK, NEW w \in Workers, PlanArtifacts(w)
  PROVE  ProcessingTypeOK'
BY DEF ProcessingTypeOK, PlanArtifacts, Files, Slots, Keys, Rows, Statuses

\* Types, only the live owner starts an upload, and its row is there.
LEMMA NextUploadTyped ==
  ASSUME ProcessingTypeOK, NEW w \in Workers, NextUpload(w)
  PROVE  ProcessingTypeOK'
<1>0. At(w, "uploading") /\ UNCHANGED <<session, file, rows, store, queue, tokens, faults>>
  BY DEF NextUpload
<1>1. ASSUME Go(w, "completing")
     PROVE  ProcessingTypeOK'
  BY <1>0, <1>1 DEF ProcessingTypeOK, Files, Slots, Keys, Statuses
<1>2. ASSUME Fail(w)
     PROVE  ProcessingTypeOK'
  BY <1>0, <1>2 DEF ProcessingTypeOK, Files, Slots, Keys, Statuses
<1>3. ASSUME NEW a \in worker[w].todo, Live(w), ~worker[w].aborted,
        worker' = [worker EXCEPT ![w].pc = "putting", ![w].art = a, ![w].todo = @ \ {a}]
     PROVE  ProcessingTypeOK'
  BY <1>0, <1>3 DEF ProcessingTypeOK, Files, Slots, Keys, Statuses
<1> QED
  BY <1>0, <1>1, <1>2, <1>3 DEF ProcessingTypeOK, NextUpload, Files

\* Types, the object of a running upload is one the ledger names.
LEMMA PutTyped ==
  ASSUME ProcessingTypeOK, NEW w \in Workers, Put(w)
  PROVE  ProcessingTypeOK'
BY DEF ProcessingTypeOK, Put, Files, Slots, Keys, Rows, Statuses

\* Types, the check after an upload.
LEMMA CheckStoredTyped ==
  ASSUME ProcessingTypeOK, NEW w \in Workers, CheckStored(w)
  PROVE  ProcessingTypeOK'
BY DEF ProcessingTypeOK, CheckStored, Files, Slots, Keys, Rows, Statuses

\* Types, a row becomes available only over a stored object, also for an owner that is late.
LEMMA MarkAvailableTyped ==
  ASSUME ProcessingTypeOK, NEW w \in Workers, MarkAvailable(w)
  PROVE  ProcessingTypeOK'
BY DEF ProcessingTypeOK, MarkAvailable, Files, Slots, Keys, Rows, Statuses, ThisRow

\* Types, a late owner deletes its own object: no live claim and no ready document shares its generation.
LEMMA CompensateInvalidatedArtifactTyped ==
  ASSUME ProcessingTypeOK, NEW w \in Workers, CompensateInvalidatedArtifact(w)
  PROVE  ProcessingTypeOK'
BY DEF ProcessingTypeOK, CompensateInvalidatedArtifact, Files, Slots, Keys, Rows,
              Statuses, ThisRow

\* Types, the document becomes ready over one complete attempt.
LEMMA CompleteTyped ==
  ASSUME ProcessingTypeOK, NEW w \in Workers, Complete(w)
  PROVE  ProcessingTypeOK'
<1>0. At(w, "completing") /\ UNCHANGED <<session, rows, store, queue, tokens, faults>>
  BY DEF Complete
<1>1. ASSUME Live(w), file' = Unclaimed(file, "READY"), Stop(w),
        \A a \in Artifacts \cup {Original} :
          \E r \in rows : r.art = a /\ r.by = worker[w].token /\ r.status = "AVAILABLE"
     PROVE  ProcessingTypeOK'
  BY <1>0, <1>1 DEF ProcessingTypeOK, Files, Slots, Keys, Statuses, Idle, Unclaimed
<1>2. ASSUME file' = file /\ Fail(w)
     PROVE  ProcessingTypeOK'
  BY <1>0, <1>2 DEF ProcessingTypeOK, Files, Slots, Keys, Statuses
<1> QED
  BY <1>0, <1>1, <1>2 DEF ProcessingTypeOK, Complete, Files, Idle

\* Types, what a failed attempt does.
LEMMA HandleFailureTyped ==
  ASSUME ProcessingTypeOK, NEW w \in Workers, HandleFailure(w)
  PROVE  ProcessingTypeOK'
<1>0. At(w, "failing") /\ UNCHANGED <<session, rows, store, queue, tokens, faults>>
  BY DEF HandleFailure
<1>1. ASSUME file' = file /\ Stop(w)
     PROVE  ProcessingTypeOK'
  BY <1>0, <1>1 DEF ProcessingTypeOK, Files, Slots, Keys, Statuses, Idle
<1>2. ASSUME Live(w) /\ file' = GivenUp /\ Stop(w)
     PROVE  ProcessingTypeOK'
  BY <1>0, <1>2 DEF ProcessingTypeOK, Files, Slots, Keys, Statuses, Idle, Unclaimed, GivenUp
<1>3. ASSUME Live(w) /\ file' = file /\ Go(w, "cleaning")
     PROVE  ProcessingTypeOK'
  BY <1>0, <1>3 DEF ProcessingTypeOK, Files, Slots, Keys, Statuses
<1> QED
  BY <1>0, <1>1, <1>2, <1>3 DEF ProcessingTypeOK, HandleFailure, Files, Idle, GivenUp

\* Types, the cleanup takes everything but the upload.
LEMMA ListDerivativesTyped ==
  ASSUME ProcessingTypeOK, NEW w \in Workers, ListDerivatives(w)
  PROVE  ProcessingTypeOK'
<1> DEFINE d == KeysOf(rows) \ {Upload}
           s == [worker[w] EXCEPT !.pc = "deleting", !.listed = rows, !.doomed = d]
<1>0. d \in SUBSET Keys
  BY DEF ProcessingTypeOK, KeysOf, Keys, Rows
<1>1. worker[w] \in Slots /\ rows \subseteq Rows /\ worker' = [worker EXCEPT ![w] = s]
  BY DEF ProcessingTypeOK, ListDerivatives
<1> HIDE DEF d
<1>2. s \in Slots
  BY <1>0, <1>1 DEF Slots
<1> HIDE DEF s
<1> QED
  BY <1>1, <1>2, OneSlot DEF ProcessingTypeOK, ListDerivatives

\* Types, only a live owner, or nobody at all, still deletes listed objects.
LEMMA DeleteListedTyped ==
  ASSUME ProcessingTypeOK, NEW w \in Workers, DeleteListed(w)
  PROVE  ProcessingTypeOK'
<1>0. At(w, "deleting") /\ ~worker[w].aborted /\ UNCHANGED <<session, file, rows, queue, tokens, faults>>
  BY DEF DeleteListed
<1>1. ASSUME worker[w].doomed = {}, store' = store, worker[w].failed, Go(w, "surrendering")
     PROVE  ProcessingTypeOK'
  BY <1>0, <1>1 DEF ProcessingTypeOK, Files, Slots, Keys, Statuses
<1>2. ASSUME worker[w].doomed = {}, store' = store, ~worker[w].failed, Go(w, "retiring")
     PROVE  ProcessingTypeOK'
  BY <1>0, <1>2 DEF ProcessingTypeOK, Files, Slots, Keys, Statuses
<1>3. ASSUME NEW key \in worker[w].doomed, store' = store \ {key},
        worker' = [worker EXCEPT ![w].doomed = @ \ {key}, ![w].failed = @ \/ FALSE]
     PROVE  ProcessingTypeOK'
  <2> DEFINE d == worker[w].doomed \ {key}
             f == worker[w].failed \/ FALSE
             s == [worker[w] EXCEPT !.doomed = d, !.failed = f]
  <2>1. /\ worker[w] \in Slots /\ worker' = [worker EXCEPT ![w] = s]
        /\ d \in SUBSET Keys /\ f \in BOOLEAN
    BY <1>3 DEF ProcessingTypeOK, Slots
  <2> HIDE DEF d, f
  <2>2. s \in Slots
    BY <2>1 DEF Slots
  <2> HIDE DEF s
  <2> QED
    BY <1>0, <1>3, <2>1, <2>2, OneSlot DEF ProcessingTypeOK
<1>4. ASSUME NEW key \in worker[w].doomed, store' = store,
        worker' = [worker EXCEPT ![w].doomed = @ \ {key}, ![w].failed = @ \/ TRUE]
     PROVE  ProcessingTypeOK'
  <2> DEFINE d == worker[w].doomed \ {key}
             f == worker[w].failed \/ TRUE
             s == [worker[w] EXCEPT !.doomed = d, !.failed = f]
  <2>1. /\ worker[w] \in Slots /\ worker' = [worker EXCEPT ![w] = s]
        /\ d \in SUBSET Keys /\ f \in BOOLEAN
    BY <1>4 DEF ProcessingTypeOK, Slots
  <2> HIDE DEF d, f
  <2>2. s \in Slots
    BY <2>1 DEF Slots
  <2> HIDE DEF s
  <2> QED
    BY <1>0, <1>4, <2>1, <2>2, OneSlot DEF ProcessingTypeOK
<1> QED
  BY <1>0, <1>1, <1>2, <1>3, <1>4 DEF ProcessingTypeOK, DeleteListed, Files

\* Types, a cleanup told to abort.
LEMMA DeletionAbortedTyped ==
  ASSUME ProcessingTypeOK, NEW w \in Workers, DeletionAborted(w)
  PROVE  ProcessingTypeOK'
BY DEF ProcessingTypeOK, DeletionAborted, Files, Slots, Keys, Rows, Statuses, Idle,
              Unclaimed, GivenUp, CleaningFails

\* Types, a cleanup that could not delete everything.
LEMMA FailCleanupTyped ==
  ASSUME ProcessingTypeOK, NEW w \in Workers, FailCleanup(w)
  PROVE  ProcessingTypeOK'
BY DEF ProcessingTypeOK, FailCleanup, Files, Slots, Keys, Rows, Statuses, Idle, Unclaimed,
              GivenUp

\* Types, rows are retired when their objects are gone.
LEMMA RetireRowsTyped ==
  ASSUME ProcessingTypeOK, NEW w \in Workers, RetireRows(w)
  PROVE  ProcessingTypeOK'
<1>0. At(w, "retiring") /\ UNCHANGED <<session, store, queue, tokens, faults>>
  BY DEF RetireRows
<1>1. ASSUME Live(w) /\ rows' = rows \ worker[w].listed /\ file' = file /\ Go(w, "requeueing")
     PROVE  ProcessingTypeOK'
  BY <1>0, <1>1 DEF ProcessingTypeOK, Files, Slots, Keys, Statuses
<1>2. ASSUME Live(w) /\ rows' = rows /\ file' = GivenUp /\ Stop(w)
     PROVE  ProcessingTypeOK'
  BY <1>0, <1>2 DEF ProcessingTypeOK, Files, Slots, Keys, Statuses, Idle, Unclaimed, GivenUp
<1>3. ASSUME rows' = rows /\ file' = file /\ Stop(w)
     PROVE  ProcessingTypeOK'
  BY <1>0, <1>3 DEF ProcessingTypeOK, Files, Slots, Keys, Statuses, Idle
<1> QED
  BY <1>0, <1>1, <1>2, <1>3 DEF ProcessingTypeOK, RetireRows, Files, Idle, GivenUp, CleaningFails

\* Types, back to quarantine.
LEMMA RequeueTyped ==
  ASSUME ProcessingTypeOK, NEW w \in Workers, Requeue(w)
  PROVE  ProcessingTypeOK'
BY DEF ProcessingTypeOK, Requeue, Files, Slots, Keys, Rows, Statuses, Idle, Unclaimed,
              GivenUp

\* Types, a claim nobody renews is taken over under a fresh token.
LEMMA RecoverTyped ==
  ASSUME ProcessingTypeOK, NEW w \in Workers, Recover(w)
  PROVE  ProcessingTypeOK'
<1> DEFINE t == tokens + 1
           g == file.gen
           s == [Idle EXCEPT !.pc = "cleaning", !.gen = g, !.token = t, !.recovering = TRUE]
<1>1. /\ worker' = [worker EXCEPT ![w] = s]
      /\ file' = [file EXCEPT !.token = t, !.leased = TRUE]
      /\ t \in Nat /\ g \in Nat /\ tokens' = t
  BY DEF ProcessingTypeOK, Recover, Files
<1> HIDE DEF t, g
<1>2. s \in Slots
  BY <1>1 DEF Slots, Idle
<1>3. file' \in Files
  BY <1>1 DEF ProcessingTypeOK, Files
<1> HIDE DEF s
<1> QED
  BY <1>1, <1>2, <1>3, OneSlot DEF ProcessingTypeOK, Recover

\* Types, a worker is told to abort.
LEMMA HeartbeatTyped ==
  ASSUME ProcessingTypeOK, NEW w \in Workers, Heartbeat(w)
  PROVE  ProcessingTypeOK'
<1>1. worker' \in [Workers -> Slots]
  <2> DEFINE s == [worker[w] EXCEPT !.aborted = TRUE]
  <2>1. worker[w] \in Slots /\ worker' = [worker EXCEPT ![w] = s]
    BY DEF ProcessingTypeOK, Heartbeat
  <2>2. s \in Slots
    BY <2>1 DEF Slots
  <2> HIDE DEF s
  <2> QED
    BY <2>1, <2>2, OneSlot 
<1>2. faults' \in 0 .. MaxFaults
  BY ProcessingAssumption DEF ProcessingTypeOK, Heartbeat
<1> QED
  BY <1>1, <1>2 DEF ProcessingTypeOK, Heartbeat

\* Types, a worker is lost, its message delivered once more.
LEMMA CrashTyped ==
  ASSUME ProcessingTypeOK, NEW w \in Workers, Crash(w)
  PROVE  ProcessingTypeOK'
<1>0. Busy(w) /\ Stop(w) /\ faults' = faults + 1 /\ faults < MaxFaults
      /\ queue' = (IF worker[w].recovering THEN queue ELSE queue \cup {worker[w].gen})
      /\ UNCHANGED <<session, file, rows, tokens>>
  BY DEF Crash, Idle
<1>1. ASSUME At(w, "putting") /\ store' = store \cup {ThisKey(w)}
     PROVE  ProcessingTypeOK'
  <2>1. worker' \in [Workers -> Slots]
    BY <1>0 DEF ProcessingTypeOK, Slots, Idle
  <2>a. queue' \subseteq Nat
    BY <1>0 DEF ProcessingTypeOK, Slots
  <2>2. faults' \in 0 .. MaxFaults
    BY <1>0, ProcessingAssumption DEF ProcessingTypeOK
  <2>3. store' \subseteq Keys
    BY <1>1 DEF ProcessingTypeOK, Slots, Keys
  <2> QED
    BY <1>0, <2>1, <2>a, <2>2, <2>3 DEF ProcessingTypeOK
<1>2. ASSUME store' = store
     PROVE  ProcessingTypeOK'
  <2>1. worker' \in [Workers -> Slots]
    BY <1>0 DEF ProcessingTypeOK, Slots, Idle
  <2>a. queue' \subseteq Nat
    BY <1>0 DEF ProcessingTypeOK, Slots
  <2>2. faults' \in 0 .. MaxFaults
    BY <1>0, ProcessingAssumption DEF ProcessingTypeOK
  <2>3. store' \subseteq Keys
    BY <1>2 DEF ProcessingTypeOK, Slots, Keys
  <2> QED
    BY <1>0, <2>1, <2>a, <2>2, <2>3 DEF ProcessingTypeOK
<1> QED
  BY <1>0, <1>1, <1>2 DEF ProcessingTypeOK, Crash, Files, Idle

\* Types, a fresh token, and the only holder of its message.
LEMMA ClaimTyped ==
  ASSUME ProcessingTypeOK, NEW w \in Workers, NEW g \in queue, Claim(w, g)
  PROVE  ProcessingTypeOK'
<1>0. At(w, "idle") /\ queue' = queue \ {g} /\ UNCHANGED <<session, rows, store, faults>>
  BY DEF Claim
<1>1. ASSUME UNCHANGED <<file, worker, tokens>>
     PROVE  ProcessingTypeOK'
  BY <1>0, <1>1 DEF ProcessingTypeOK, Files, Slots, Keys, Statuses
<1>2. ASSUME /\ file.status = "QUARANTINED" /\ file.gen = g
                 /\ file' = [Unclaimed(file, "DELETE_PENDING") EXCEPT !.asked = TRUE, !.settling = FALSE]
                 /\ UNCHANGED <<worker, tokens>>
     PROVE  ProcessingTypeOK'
  BY <1>0, <1>2 DEF ProcessingTypeOK, Files, Slots, Keys, Statuses, Unclaimed
<1>3. ASSUME /\ file.status = "QUARANTINED" /\ file.gen = g
                 /\ tokens' = tokens + 1
                 /\ file' = [file EXCEPT !.status = "VALIDATING", !.token = tokens + 1, !.leased = TRUE,
                                        !.attempts = @ + 1, !.enqueued = FALSE]
                 /\ worker' = [worker EXCEPT ![w] = [Idle EXCEPT !.pc = "processing", !.gen = g,
                                                                !.token = tokens + 1]]
     PROVE  ProcessingTypeOK'
  <2> DEFINE t == tokens + 1
             n == file.attempts + 1
             s == [Idle EXCEPT !.pc = "processing", !.gen = g, !.token = t]
  <2>1. /\ worker' = [worker EXCEPT ![w] = s]
        /\ file' = [file EXCEPT !.status = "VALIDATING", !.token = t, !.leased = TRUE,
                                !.attempts = n, !.enqueued = FALSE]
        /\ t \in Nat /\ n \in Nat /\ g \in Nat /\ tokens' = t
    BY <1>3 DEF ProcessingTypeOK, Files
  <2> HIDE DEF t, n
  <2>2. s \in Slots
    BY <2>1 DEF Slots, Idle
  <2>3. file' \in Files
    BY <2>1 DEF ProcessingTypeOK, Files, Statuses
  <2> HIDE DEF s
  <2> QED
    BY <1>0, <2>1, <2>2, <2>3, OneSlot DEF ProcessingTypeOK
<1> QED
  BY <1>0, <1>1, <1>2, <1>3 DEF ProcessingTypeOK, Claim, Files, Idle

\* Types, a new generation.
LEMMA ReserveTyped ==
  ASSUME ProcessingTypeOK, Reserve
  PROVE  ProcessingTypeOK'
<1> DEFINE g == file.gen + 1
<1>1. /\ file' = [file EXCEPT !.gen = g, !.enqueued = TRUE] /\ queue' = queue \cup {g}
      /\ g \in Nat
  BY DEF ProcessingTypeOK, Reserve, Files
<1> HIDE DEF g
<1>2. file' \in Files
  BY <1>1 DEF ProcessingTypeOK, Files
<1> QED
  BY <1>1, <1>2 DEF ProcessingTypeOK, Reserve

\* Types, a new generation for a message taken for lost.
LEMMA ReserveAgainTyped ==
  ASSUME ProcessingTypeOK, ReserveAgain
  PROVE  ProcessingTypeOK'
BY ProcessingAssumption DEF ProcessingTypeOK, ReserveAgain, Files, Slots, Keys, Statuses

\* Types, a lease runs out only under an owner told to abort that is not uploading.
LEMMA LeaseRunsOutTyped ==
  ASSUME ProcessingTypeOK, LeaseRunsOut
  PROVE  ProcessingTypeOK'
BY DEF ProcessingTypeOK, LeaseRunsOut, Files, Slots, Keys, Statuses

\* Types, the customer removes the document.
LEMMA RemoveTyped ==
  ASSUME ProcessingTypeOK, Remove
  PROVE  ProcessingTypeOK'
<1>0. UNCHANGED <<session, rows, store, queue, worker, tokens, faults>>
  BY DEF Remove
<1>1. ASSUME file.status = "REJECTED" /\ file' = [file EXCEPT !.status = "DELETED", !.asked = TRUE]
     PROVE  ProcessingTypeOK'
  BY <1>0, <1>1 DEF ProcessingTypeOK, Files, Slots, Keys, Statuses
<1>2. ASSUME file.status = "DELETE_PENDING" /\ file' = [file EXCEPT !.asked = TRUE]
     PROVE  ProcessingTypeOK'
  BY <1>0, <1>2 DEF ProcessingTypeOK, Files, Slots, Keys, Statuses
<1>3. ASSUME file.status = "VALIDATING" /\ file' = Revoked("DELETE_PENDING", TRUE)
     PROVE  ProcessingTypeOK'
  BY <1>0, <1>3, RevokedIsRow DEF ProcessingTypeOK, Statuses
<1>4. ASSUME file.status # "VALIDATING" /\ ~file.settling /\ file' = Revoked("DELETING", FALSE)
     PROVE  ProcessingTypeOK'
  BY <1>0, <1>4, RevokedIsRow DEF ProcessingTypeOK, Statuses
<1> QED
  BY <1>0, <1>1, <1>2, <1>3, <1>4 DEF ProcessingTypeOK, Remove, Files, Settles

\* Types, the session's deadline.
LEMMA OverdueTyped ==
  ASSUME ProcessingTypeOK, Overdue
  PROVE  ProcessingTypeOK'
BY DEF ProcessingTypeOK, Overdue, Files, Slots, Keys, Statuses

\* Types, a session that ends revokes the claim.
LEMMA EndingRow ==
  ASSUME ProcessingTypeOK, EndSession
  PROVE  \/ file' = file
         \/ \E b \in BOOLEAN : file' = Revoked("DELETE_PENDING", b)
<1> DEFINE b == IF file.status \in Deletable THEN file.settling ELSE Settles
<1>1. b \in BOOLEAN
  BY DEF ProcessingTypeOK, Files, Settles
<1>2. file' = file \/ file' = Revoked("DELETE_PENDING", b)
  BY DEF EndSession
<1> HIDE DEF b
<1> QED
  BY <1>1, <1>2

\* Types, the end of a session.
LEMMA EndSessionTyped ==
  ASSUME ProcessingTypeOK, EndSession
  PROVE  ProcessingTypeOK'
<1>1. file' \in Files
  BY EndingRow, RevokedIsRow DEF ProcessingTypeOK, Statuses
<1> QED
  BY <1>1 DEF ProcessingTypeOK, EndSession

\* Types, the barrier waits for the uploads.
LEMMA BarrierPassesTyped ==
  ASSUME ProcessingTypeOK, BarrierPasses
  PROVE  ProcessingTypeOK'
BY DEF ProcessingTypeOK, BarrierPasses, Files, Slots, Keys, Statuses

\* Types, the janitor takes objects, ledger and claim.
LEMMA CleanPendingFileTyped ==
  ASSUME ProcessingTypeOK, CleanPendingFile
  PROVE  ProcessingTypeOK'
<1> DEFINE s == IF file.asked THEN "DELETED" ELSE "REJECTED"
           f == Unclaimed(file, s)
           g == f.gen + 1
<1>a. f \in Files
  BY UnclaimedIsRow DEF Statuses
<1>1. f \in Files /\ g \in Nat
  BY <1>a DEF Files
<1>2. file' = [f EXCEPT !.gen = g]
  BY DEF CleanPendingFile
<1> HIDE DEF f, g
<1>3. file' \in Files
  BY <1>1, <1>2 DEF Files
<1> QED
  BY <1>3 DEF ProcessingTypeOK, CleanPendingFile

\* Every step keeps the types, whoever stalls.
LEMMA TypesKept ==
  ASSUME ProcessingTypeOK, [Next]_vars
  PROVE  ProcessingTypeOK'
<1>1. CASE UNCHANGED vars
  BY <1>1 DEF vars, ProcessingTypeOK
<1>2. ASSUME NEW w \in Workers, WorkerStep(w)
      PROVE  ProcessingTypeOK'
  BY <1>2, ProcessTyped, PlanArtifactsTyped, NextUploadTyped, PutTyped, CheckStoredTyped,
     MarkAvailableTyped, CompensateInvalidatedArtifactTyped, CompleteTyped, HandleFailureTyped,
     ListDerivativesTyped, DeleteListedTyped, DeletionAbortedTyped, FailCleanupTyped,
     RetireRowsTyped, RequeueTyped DEF WorkerStep
<1>3. ASSUME NEW w \in Workers, Take(w) \/ Heartbeat(w) \/ Crash(w)
      PROVE  ProcessingTypeOK'
  BY <1>3, RecoverTyped, ClaimTyped, HeartbeatTyped, CrashTyped DEF Take
<1>4. CASE \/ Reserve \/ ReserveAgain \/ LeaseRunsOut
           \/ Remove \/ Overdue \/ EndSession \/ BarrierPasses \/ CleanPendingFile
  BY <1>4, ReserveTyped, ReserveAgainTyped, LeaseRunsOutTyped, RemoveTyped, OverdueTyped,
     EndSessionTyped, BarrierPassesTyped, CleanPendingFileTyped
<1> QED
  BY <1>1, <1>2, <1>3, <1>4 DEF Next

\* The row, the ledger, the store and the slots keep their types.
THEOREM ProcessingTypeCorrect == ProcessingSpec => []ProcessingTypeOK
<1>1. Init => ProcessingTypeOK
  BY ProcessingAssumption DEF Init, ProcessingTypeOK, Files, Slots, Keys, Idle, Statuses
<1> QED
  BY <1>1, TypesKept, PTL DEF ProcessingSpec

\* A document that left processing never comes back to it, not even by the hand of
\* a worker that slept through its own lease.
THEOREM NothingIsRevived == ProcessingSpec => NeverRevived
<1>1. ASSUME ProcessingTypeOK, [Next]_vars
      PROVE  [file.status \notin Processable => file'.status \notin Processable]_vars
  <2>1. SUFFICES ASSUME file.status \notin Processable, Next
                 PROVE  file'.status \notin Processable
    BY <1>1 DEF vars
  <2>2. file \in Files
    BY <1>1 DEF ProcessingTypeOK
  <2>3. \A s \in Statuses, b \in BOOLEAN : Revoked(s, b).status = s /\ GivenUp.status = "DELETE_PENDING"
    BY <2>2 DEF Files, Revoked, GivenUp, Unclaimed
  <2>4. ASSUME NEW w \in Workers, WorkerStep(w)
        PROVE  file'.status \notin Processable
    <3>1. Live(w) \/ file' = file
      BY <2>4
      DEF WorkerStep, Process, PlanArtifacts, NextUpload, Put, CheckStored, MarkAvailable,
              CompensateInvalidatedArtifact, Complete, HandleFailure, ListDerivatives,
              DeleteListed, DeletionAborted, FailCleanup, RetireRows, Requeue, CleaningFails
    <3> QED
      BY <2>1, <3>1
  <2>5. ASSUME NEW w \in Workers, Take(w) \/ Heartbeat(w) \/ Crash(w)
        PROVE  file'.status \notin Processable
    BY <2>1, <2>2, <2>5 DEF Take, Recover, Claim, Heartbeat, Crash, Unclaimed, Files
  <2>6. CASE Remove
    <3> DEFINE b == Settles
               s == IF Settles THEN "DELETE_PENDING" ELSE "DELETING"
    <3>1. b \in BOOLEAN /\ s \in Deletable
      BY DEF Settles
    <3>2. \/ file' = [file EXCEPT !.status = "DELETED", !.asked = TRUE]
          \/ file' = [file EXCEPT !.asked = TRUE]
          \/ file' = Revoked(s, b)
      BY <2>6 DEF Remove
    <3>3. Revoked(s, b).status = s
      BY <2>3, <3>1 DEF Statuses
    <3> HIDE DEF b, s
    <3>4. CASE file' = [file EXCEPT !.status = "DELETED", !.asked = TRUE]
      BY <2>2, <3>4 DEF Files
    <3>5. CASE file' = [file EXCEPT !.asked = TRUE]
      BY <2>1, <2>2, <3>5 DEF Files
    <3>6. CASE file' = Revoked(s, b)
      BY <3>1, <3>3, <3>6
    <3> QED
      BY <3>2, <3>4, <3>5, <3>6
  <2>8. CASE EndSession
    BY <1>1, <2>1, <2>3, <2>8, EndingRow DEF Statuses
  <2>7. CASE Reserve \/ ReserveAgain \/ LeaseRunsOut \/ Overdue \/ BarrierPasses \/ CleanPendingFile
    BY <2>1, <2>2, <2>7
    DEF Reserve, ReserveAgain, LeaseRunsOut, Overdue, BarrierPasses, CleanPendingFile,
              Unclaimed, Files
  <2> QED
    BY <2>1, <2>4, <2>5, <2>6, <2>7, <2>8 DEF Next
<1> QED
  BY <1>1, TypesKept, ProcessingTypeCorrect, PTL DEF ProcessingSpec, NeverRevived

-----------------------------------------------------------------------------
(* What is printable *)

\* A complete attempt stays complete while its rows and their objects stay.
LEMMA RenderedKept ==
  ASSUME NEW claim, Rendered(claim), file'.gen = file.gen,
         \A r \in rows : r.by = claim /\ r.gen = file.gen /\ r.art \in Artifacts
                         /\ r.status = "AVAILABLE" /\ Key(r.art, r.gen) \in store
                         => r \in rows' /\ Key(r.art, r.gen) \in store'
  PROVE  Rendered(claim)'
<1> SUFFICES ASSUME NEW a \in Artifacts
             PROVE  \E r \in rows' : /\ r.art = a /\ r.by = claim /\ r.status = "AVAILABLE"
                                     /\ r.gen = file'.gen /\ Key(r.art, r.gen) \in store'
  BY DEF Rendered
<1>1. PICK r \in rows : /\ r.art = a /\ r.by = claim /\ r.status = "AVAILABLE"
                        /\ r.gen = file.gen /\ Key(r.art, r.gen) \in store
  BY DEF Rendered
<1> QED
  BY <1>1

\* What is printable stays printable when document, ledger and store stay.
LEMMA PrintableKept ==
  ASSUME PrintableInv, UNCHANGED <<file, rows, store, tokens>>
  PROVE  PrintableInv'
<1>1. \A claim : Rendered(claim) <=> Rendered(claim)'
  BY DEF Rendered
<1> QED
  BY <1>1 DEF PrintableInv

-----------------------------------------------------------------------------
(* The two ways an owner leaves *)

\* A worker that only goes back to its queue disturbs nothing.
LEMMA StopSafe ==
  ASSUME ProcessingInv, NEW w \in Workers, Stop(w),
         UNCHANGED <<session, file, rows, store, queue, tokens, faults>>
  PROVE  WorkInv'
<1>1. ClaimInv'
  BY ProcessingAssumption
  DEF ProcessingInv, WorkInv, ProcessingTypeOK, ClaimInv, Files, Slots, Keys, Idle
<1>2. OwnerInv'
  BY ProcessingAssumption
  DEF ProcessingInv, WorkInv, ProcessingTypeOK, ClaimInv, OwnerInv, Files, Slots, Keys, Idle
<1>3. LedgerInv'
  BY ProcessingAssumption
  DEF ProcessingInv, WorkInv, ProcessingTypeOK, ClaimInv, OwnerInv, LedgerInv, Files, Slots,
      Keys,
              Idle
<1>4. AttemptInv'
  BY ProcessingAssumption
  DEF ProcessingInv, WorkInv, ProcessingTypeOK, ClaimInv, OwnerInv, LedgerInv, AttemptInv, Files,
              Slots, Keys, Idle
<1>5. CleanupInv'
  BY ProcessingAssumption
  DEF ProcessingInv, WorkInv, ProcessingTypeOK, ClaimInv, OwnerInv, CleanupInv, Files, Slots,
              Keys, Idle
<1>6. PrintableInv'
  BY PrintableKept DEF ProcessingInv, WorkInv
<1>7. LedgerNamesEveryObject'
  BY ProcessingAssumption
  DEF ProcessingInv, WorkInv, ProcessingTypeOK, ClaimInv, OwnerInv, LedgerInv, CleanupInv,
              LedgerNamesEveryObject, Files, Slots, Keys, Idle, KeysOf
<1> QED
  BY <1>1, <1>2, <1>3, <1>4, <1>5, <1>6, <1>7 DEF WorkInv

\* A worker whose attempt fails keeps what it owns.
LEMMA FailSafe ==
  ASSUME ProcessingInv, NEW w \in Workers, Rendering(w), Fail(w),
         UNCHANGED <<session, file, rows, store, queue, tokens, faults>>
  PROVE  WorkInv'
<1>1. ClaimInv'
  BY ProcessingAssumption DEF ProcessingInv, WorkInv, ProcessingTypeOK, ClaimInv, Files, Slots, Keys
<1>2. OwnerInv'
  BY ProcessingAssumption
  DEF ProcessingInv, WorkInv, ProcessingTypeOK, ClaimInv, OwnerInv, Files, Slots, Keys
<1>3. LedgerInv'
  BY ProcessingAssumption
  DEF ProcessingInv, WorkInv, ProcessingTypeOK, ClaimInv, OwnerInv, LedgerInv, Files, Slots, Keys
<1>4. AttemptInv'
  BY ProcessingAssumption
  DEF ProcessingInv, WorkInv, ProcessingTypeOK, ClaimInv, OwnerInv, LedgerInv, AttemptInv, Files,
              Slots, Keys
<1>5. CleanupInv'
  BY ProcessingAssumption
  DEF ProcessingInv, WorkInv, ProcessingTypeOK, ClaimInv, OwnerInv, CleanupInv, Files, Slots,
      Keys
<1>6. PrintableInv'
  BY PrintableKept DEF ProcessingInv, WorkInv
<1>7. LedgerNamesEveryObject'
  BY ProcessingAssumption
  DEF ProcessingInv, WorkInv, ProcessingTypeOK, ClaimInv, OwnerInv, LedgerInv, CleanupInv,
              LedgerNamesEveryObject, Files, Slots, Keys, KeysOf
<1> QED
  BY <1>1, <1>2, <1>3, <1>4, <1>5, <1>6, <1>7 DEF WorkInv

\* An owner gives the document up: it becomes deletable, not settling.
LEMMA GiveUpSafe ==
  ASSUME ProcessingInv, NEW w \in Workers, Busy(w), Live(w), file' = GivenUp, Stop(w),
         UNCHANGED <<session, rows, store, queue, tokens, faults>>
  PROVE  WorkInv'
<1>1. ClaimInv'
  BY ProcessingAssumption
  DEF ProcessingInv, WorkInv, ProcessingTypeOK, ClaimInv, Files, Slots, Keys, Idle, Unclaimed,
              GivenUp
<1>2. OwnerInv'
  BY ProcessingAssumption
  DEF ProcessingInv, WorkInv, ProcessingTypeOK, ClaimInv, OwnerInv, Files, Slots, Keys, Idle,
              Unclaimed, GivenUp
<1>3. LedgerInv'
  BY ProcessingAssumption
  DEF ProcessingInv, WorkInv, ProcessingTypeOK, ClaimInv, OwnerInv, LedgerInv, Files, Slots,
      Keys,
              Idle, Unclaimed, GivenUp
<1>4. AttemptInv'
  BY ProcessingAssumption
  DEF ProcessingInv, WorkInv, ProcessingTypeOK, ClaimInv, OwnerInv, LedgerInv, AttemptInv, Files,
              Slots, Keys, Idle, Unclaimed, GivenUp
<1>5. CleanupInv'
  BY ProcessingAssumption
  DEF ProcessingInv, WorkInv, ProcessingTypeOK, ClaimInv, OwnerInv, CleanupInv, Files, Slots,
              Keys, Idle, Unclaimed, GivenUp
<1>6. PrintableInv'
  BY ProcessingAssumption
  DEF ProcessingInv, WorkInv, ProcessingTypeOK, ClaimInv, OwnerInv, LedgerInv, CleanupInv,
              PrintableInv, Rendered, Files, Slots, Keys, Idle, Unclaimed, GivenUp
<1>7. LedgerNamesEveryObject'
  BY ProcessingAssumption
  DEF ProcessingInv, WorkInv, ProcessingTypeOK, ClaimInv, OwnerInv, LedgerInv, CleanupInv,
              LedgerNamesEveryObject, Files, Slots, Keys, Idle, Unclaimed, GivenUp, KeysOf
<1> QED
  BY <1>1, <1>2, <1>3, <1>4, <1>5, <1>6, <1>7 DEF WorkInv

-----------------------------------------------------------------------------
(* One lemma per action *)

USE ProcessingAssumption DEF ProcessingInv, WorkInv, ProcessingTypeOK, Files, Slots

\* The processor answers.
LEMMA ProcessSafe ==
  ASSUME ProcessingInv, NEW w \in Workers, Process(w)
  PROVE  WorkInv'
<1>0. At(w, "processing") /\ UNCHANGED <<session, file, rows, store, queue, tokens, faults>>
  BY DEF Process
<1>1. ASSUME Go(w, "planning") /\ ~worker[w].aborted
     PROVE  WorkInv'
  <2>1. ClaimInv'
    BY <1>0, <1>1 DEF ClaimInv
  <2>2. OwnerInv'
    BY <1>0, <1>1 DEF ClaimInv, OwnerInv
  <2>3. LedgerInv'
    BY <1>0, <1>1 DEF ClaimInv, OwnerInv, LedgerInv
  <2>4. AttemptInv'
    BY <1>0, <1>1 DEF ClaimInv, OwnerInv, LedgerInv, AttemptInv
  <2>5. CleanupInv'
    BY <1>0, <1>1 DEF ClaimInv, OwnerInv, CleanupInv
  <2>6. PrintableInv'
    BY <1>0, <1>1 DEF ClaimInv, OwnerInv, LedgerInv, CleanupInv, PrintableInv, Rendered
  <2>7. LedgerNamesEveryObject'
    BY <1>0, <1>1 DEF ClaimInv, OwnerInv, LedgerInv, CleanupInv, LedgerNamesEveryObject, KeysOf
  <2> QED
    BY <2>1, <2>2, <2>3, <2>4, <2>5, <2>6, <2>7
<1>2. ASSUME Fail(w)
     PROVE  WorkInv'
  BY <1>0, <1>2, FailSafe DEF ClaimInv
<1>3. ASSUME worker' = [worker EXCEPT ![w].pc = "failing", ![w].rejected = TRUE]
     PROVE  WorkInv'
  <2>1. ClaimInv'
    BY <1>0, <1>3 DEF ClaimInv
  <2>2. OwnerInv'
    BY <1>0, <1>3 DEF ClaimInv, OwnerInv
  <2>3. LedgerInv'
    BY <1>0, <1>3 DEF ClaimInv, OwnerInv, LedgerInv
  <2>4. AttemptInv'
    BY <1>0, <1>3 DEF ClaimInv, OwnerInv, LedgerInv, AttemptInv
  <2>5. CleanupInv'
    BY <1>0, <1>3 DEF ClaimInv, OwnerInv, CleanupInv
  <2>6. PrintableInv'
    BY <1>0, <1>3, PrintableKept
  <2>7. LedgerNamesEveryObject'
    BY <1>0, <1>3 DEF ClaimInv, OwnerInv, LedgerInv, CleanupInv, LedgerNamesEveryObject, KeysOf
  <2> QED
    BY <2>1, <2>2, <2>3, <2>4, <2>5, <2>6, <2>7
<1> QED
  BY <1>0, <1>1, <1>2, <1>3 DEF ClaimInv, Process

\* The ledger names an attempt's artifacts before one is written.
LEMMA PlanArtifactsSafe ==
  ASSUME ProcessingInv, NEW w \in Workers, PlanArtifacts(w)
  PROVE  WorkInv'
<1>0. At(w, "planning") /\ UNCHANGED <<session, file, store, queue, tokens, faults>>
  BY DEF PlanArtifacts
<1>1. ASSUME /\ Live(w)
                 /\ rows' = rows \cup
                      {[art |-> a, gen |-> worker[w].gen, by |-> worker[w].token,
                        status |-> IF a = Original THEN "AVAILABLE" ELSE "STAGING"] :
                         a \in Artifacts \cup {Original}}
                 /\ worker' = [worker EXCEPT ![w].pc = "uploading", ![w].todo = Artifacts]
     PROVE  WorkInv'
  <2>1. ClaimInv'
    BY <1>0, <1>1 DEF ClaimInv
  <2>2. OwnerInv'
    BY <1>0, <1>1 DEF ClaimInv, OwnerInv
  <2>3. LedgerInv'
    <3> DEFINE planned == {[art |-> a, gen |-> worker[w].gen, by |-> worker[w].token,
                            status |-> IF a = Original THEN "AVAILABLE" ELSE "STAGING"] :
                             a \in Artifacts \cup {Original}}
    <3>1. rows' = rows \cup planned
      BY <1>1
    <3>2. ASSUME NEW r \in planned
          PROVE  r.by = worker[w].token /\ r.gen = worker[w].gen
      <4>1. PICK a \in Artifacts \cup {Original} :
              r = [art |-> a, gen |-> worker[w].gen, by |-> worker[w].token,
                   status |-> IF a = Original THEN "AVAILABLE" ELSE "STAGING"]
        OBVIOUS
      <4> QED
        BY <4>1
    <3>3. ASSUME NEW a \in Artifacts
          PROVE  \E r \in planned : r.art = a /\ r.by = worker[w].token
      <4> DEFINE r == [art |-> a, gen |-> worker[w].gen, by |-> worker[w].token,
                       status |-> IF a = Original THEN "AVAILABLE" ELSE "STAGING"]
      <4>1. r \in planned /\ r.art = a /\ r.by = worker[w].token
        OBVIOUS
      <4> QED
        BY <4>1
    <3> HIDE DEF planned
    <3> QED
      BY <1>0, <1>1, <3>1, <3>2, <3>3
      DEF ClaimInv, OwnerInv, LedgerInv
  <2>4. AttemptInv'
    BY <1>0, <1>1 DEF ClaimInv, OwnerInv, LedgerInv, AttemptInv
  <2>5. CleanupInv'
    BY <1>0, <1>1 DEF ClaimInv, OwnerInv, CleanupInv
  <2>6. PrintableInv'
    BY <1>0, <1>1 DEF ClaimInv, OwnerInv, LedgerInv, CleanupInv, PrintableInv, Rendered
  <2>7. LedgerNamesEveryObject'
    BY <1>0, <1>1 DEF ClaimInv, OwnerInv, LedgerInv, CleanupInv, LedgerNamesEveryObject, KeysOf
  <2> QED
    BY <2>1, <2>2, <2>3, <2>4, <2>5, <2>6, <2>7
<1>2. ASSUME rows' = rows /\ Fail(w)
     PROVE  WorkInv'
  BY <1>0, <1>2, FailSafe DEF ClaimInv
<1> QED
  BY <1>0, <1>1, <1>2 DEF ClaimInv, PlanArtifacts

\* Only the live owner starts an upload, and its row is there.
LEMMA NextUploadSafe ==
  ASSUME ProcessingInv, NEW w \in Workers, NextUpload(w)
  PROVE  WorkInv'
<1>0. At(w, "uploading") /\ UNCHANGED <<session, file, rows, store, queue, tokens, faults>>
  BY DEF NextUpload
<1>1. ASSUME Go(w, "completing")
     PROVE  WorkInv'
  <2>1. ClaimInv'
    BY <1>0, <1>1 DEF ClaimInv
  <2>2. OwnerInv'
    BY <1>0, <1>1 DEF ClaimInv, OwnerInv
  <2>3. LedgerInv'
    BY <1>0, <1>1 DEF ClaimInv, OwnerInv, LedgerInv
  <2>4. AttemptInv'
    BY <1>0, <1>1 DEF ClaimInv, OwnerInv, LedgerInv, AttemptInv
  <2>5. CleanupInv'
    BY <1>0, <1>1 DEF ClaimInv, OwnerInv, CleanupInv
  <2>6. PrintableInv'
    BY <1>0, PrintableKept
  <2>7. LedgerNamesEveryObject'
    BY <1>0, <1>1 DEF ClaimInv, OwnerInv, LedgerInv, CleanupInv, LedgerNamesEveryObject, KeysOf
  <2> QED
    BY <2>1, <2>2, <2>3, <2>4, <2>5, <2>6, <2>7
<1>2. ASSUME Fail(w)
     PROVE  WorkInv'
  BY <1>0, <1>2, FailSafe DEF ClaimInv
<1>3. ASSUME NEW a \in worker[w].todo, Live(w), ~worker[w].aborted,
        worker' = [worker EXCEPT ![w].pc = "putting", ![w].art = a, ![w].todo = @ \ {a}]
     PROVE  WorkInv'
  <2>1. ClaimInv'
    BY <1>0, <1>3 DEF ClaimInv
  <2>2. OwnerInv'
    BY <1>0, <1>3 DEF ClaimInv, OwnerInv
  <2>3. LedgerInv'
    BY <1>0, <1>3 DEF ClaimInv, OwnerInv, LedgerInv
  <2>4. AttemptInv'
    BY <1>0, <1>3 DEF ClaimInv, OwnerInv, LedgerInv, AttemptInv
  <2>5. CleanupInv'
    BY <1>0, <1>3 DEF ClaimInv, OwnerInv, CleanupInv
  <2>6. PrintableInv'
    BY <1>0, <1>3 DEF ClaimInv, OwnerInv, LedgerInv, CleanupInv, PrintableInv, Rendered
  <2>7. LedgerNamesEveryObject'
    BY <1>0, <1>3 DEF ClaimInv, OwnerInv, LedgerInv, CleanupInv, LedgerNamesEveryObject, KeysOf
  <2> QED
    BY <2>1, <2>2, <2>3, <2>4, <2>5, <2>6, <2>7
<1> QED
  BY <1>0, <1>1, <1>2, <1>3 DEF ClaimInv, NextUpload

\* The object of a running upload is one the ledger names.
LEMMA PutSafe ==
  ASSUME ProcessingInv, NEW w \in Workers, Put(w)
  PROVE  WorkInv'
<1>0. At(w, "putting") /\ UNCHANGED <<session, file, rows, queue, tokens, faults>>
  BY DEF Put
<1>1. ASSUME store' = store \cup {ThisKey(w)} /\ Go(w, "stored")
     PROVE  WorkInv'
  <2>1. ClaimInv'
    BY <1>0, <1>1 DEF ClaimInv
  <2>2. OwnerInv'
    BY <1>0, <1>1 DEF ClaimInv, OwnerInv
  <2>3. LedgerInv'
    BY <1>0, <1>1 DEF ClaimInv, OwnerInv, LedgerInv
  <2>4. AttemptInv'
    BY <1>0, <1>1 DEF ClaimInv, OwnerInv, LedgerInv, AttemptInv
  <2>5. CleanupInv'
    BY <1>0, <1>1 DEF ClaimInv, OwnerInv, CleanupInv
  <2>6. PrintableInv'
    BY <1>0, <1>1 DEF ClaimInv, OwnerInv, LedgerInv, CleanupInv, PrintableInv, Rendered
  <2>7. LedgerNamesEveryObject'
    BY <1>0, <1>1 DEF ClaimInv, OwnerInv, LedgerInv, CleanupInv, LedgerNamesEveryObject, KeysOf
  <2> QED
    BY <2>1, <2>2, <2>3, <2>4, <2>5, <2>6, <2>7
<1>2. ASSUME store' \in {store, store \cup {ThisKey(w)}} /\ Fail(w)
     PROVE  WorkInv'
  <2>1. ClaimInv'
    BY <1>0, <1>2 DEF ClaimInv
  <2>2. OwnerInv'
    BY <1>0, <1>2 DEF ClaimInv, OwnerInv
  <2>3. LedgerInv'
    BY <1>0, <1>2 DEF ClaimInv, OwnerInv, LedgerInv
  <2>4. AttemptInv'
    BY <1>0, <1>2 DEF ClaimInv, OwnerInv, LedgerInv, AttemptInv
  <2>5. CleanupInv'
    BY <1>0, <1>2 DEF ClaimInv, OwnerInv, CleanupInv
  <2>6. PrintableInv'
    BY <1>0, <1>2 DEF ClaimInv, OwnerInv, LedgerInv, CleanupInv, PrintableInv, Rendered
  <2>7. LedgerNamesEveryObject'
    BY <1>0, <1>2 DEF ClaimInv, OwnerInv, LedgerInv, CleanupInv, LedgerNamesEveryObject, KeysOf
  <2> QED
    BY <2>1, <2>2, <2>3, <2>4, <2>5, <2>6, <2>7
<1> QED
  BY <1>0, <1>1, <1>2 DEF ClaimInv, Put

\* The check after an upload.
LEMMA CheckStoredSafe ==
  ASSUME ProcessingInv, NEW w \in Workers, CheckStored(w)
  PROVE  WorkInv'
<1>0. At(w, "stored") /\ UNCHANGED <<session, file, rows, store, queue, tokens, faults>>
  BY DEF CheckStored
<1>1. ASSUME Live(w) /\ Go(w, "marking")
     PROVE  WorkInv'
  <2>1. ClaimInv'
    BY <1>0, <1>1 DEF ClaimInv
  <2>2. OwnerInv'
    BY <1>0, <1>1 DEF ClaimInv, OwnerInv
  <2>3. LedgerInv'
    BY <1>0, <1>1 DEF ClaimInv, OwnerInv, LedgerInv
  <2>4. AttemptInv'
    BY <1>0, <1>1 DEF ClaimInv, OwnerInv, LedgerInv, AttemptInv
  <2>5. CleanupInv'
    BY <1>0, <1>1 DEF ClaimInv, OwnerInv, CleanupInv
  <2>6. PrintableInv'
    BY <1>0, <1>1 DEF ClaimInv, OwnerInv, LedgerInv, CleanupInv, PrintableInv, Rendered
  <2>7. LedgerNamesEveryObject'
    BY <1>0, <1>1 DEF ClaimInv, OwnerInv, LedgerInv, CleanupInv, LedgerNamesEveryObject, KeysOf
  <2> QED
    BY <2>1, <2>2, <2>3, <2>4, <2>5, <2>6, <2>7
<1>2. ASSUME Go(w, "compensating")
     PROVE  WorkInv'
  <2>1. ClaimInv'
    BY <1>0, <1>2 DEF ClaimInv
  <2>2. OwnerInv'
    BY <1>0, <1>2 DEF ClaimInv, OwnerInv
  <2>3. LedgerInv'
    BY <1>0, <1>2 DEF ClaimInv, OwnerInv, LedgerInv
  <2>4. AttemptInv'
    BY <1>0, <1>2 DEF ClaimInv, OwnerInv, LedgerInv, AttemptInv
  <2>5. CleanupInv'
    BY <1>0, <1>2 DEF ClaimInv, OwnerInv, CleanupInv
  <2>6. PrintableInv'
    BY <1>0, <1>2 DEF ClaimInv, OwnerInv, LedgerInv, CleanupInv, PrintableInv, Rendered
  <2>7. LedgerNamesEveryObject'
    BY <1>0, <1>2 DEF ClaimInv, OwnerInv, LedgerInv, CleanupInv, LedgerNamesEveryObject, KeysOf
  <2> QED
    BY <2>1, <2>2, <2>3, <2>4, <2>5, <2>6, <2>7
<1> QED
  BY <1>0, <1>1, <1>2 DEF ClaimInv, CheckStored

\* A row becomes available only over a stored object, also for an owner that is late.
LEMMA MarkAvailableSafe ==
  ASSUME ProcessingInv, NEW w \in Workers, MarkAvailable(w)
  PROVE  WorkInv'
<1>0. At(w, "marking") /\ UNCHANGED <<session, file, store, queue, tokens, faults>>
  BY DEF MarkAvailable
<1>1. ASSUME NEW mine, mine = {r \in ThisRow(w) : r.status = "STAGING"},
        rows' = (rows \ mine) \cup {[r EXCEPT !.status = "AVAILABLE"] : r \in mine},
        Go(w, "uploading")
     PROVE  WorkInv'
  <2>1. ClaimInv'
    BY <1>0, <1>1 DEF ClaimInv, ThisRow
  <2>2. OwnerInv'
    BY <1>0, <1>1 DEF ClaimInv, OwnerInv, ThisRow
  <2>3. LedgerInv'
    <3>1. rows \subseteq Rows /\ mine \subseteq rows /\ rows' = Marked(rows, mine, "AVAILABLE")
      BY <1>1 DEF ThisRow, Marked
    <3>2. /\ \A u \in rows' : \E r \in rows : u.by = r.by /\ u.gen = r.gen
          /\ \A r \in rows : \E u \in rows' : u.art = r.art /\ u.by = r.by
      BY <3>1, Remarked
    <3>3. worker' = [worker EXCEPT ![w].pc = "uploading"]
      BY <1>1
    <3> QED
      BY <1>0, <3>2, <3>3
      DEF ClaimInv, OwnerInv, LedgerInv
  <2>4. AttemptInv'
    <3>1. rows \subseteq Rows /\ mine \subseteq rows /\ rows' = Marked(rows, mine, "AVAILABLE")
      BY <1>1 DEF ThisRow, Marked
    <3>2. \A u \in rows' : \E r \in rows :
            /\ u.art = r.art /\ u.by = r.by /\ u.gen = r.gen
            /\ u = r \/ (r \in mine /\ u.status = "AVAILABLE")
      BY <3>1, Remarked
    <3>3. \A r \in mine : /\ r.by = worker[w].token
                          /\ Live(w) => Key(r.art, r.gen) \in store
      <4>1. \A r \in mine : r \in rows /\ r.art = worker[w].art /\ r.by = worker[w].token
        BY <1>1 DEF ThisRow
      <4>2. \A r \in rows : r.by = worker[w].token => r.gen = worker[w].gen
        BY <1>0 DEF LedgerInv
      <4>3. Live(w) => ThisKey(w) \in store
        BY <1>0 DEF AttemptInv
      <4> HIDE ProcessingAssumption DEF ProcessingInv, WorkInv, ProcessingTypeOK, Files, Slots, Live
      <4> QED
        BY <4>1, <4>2, <4>3
    <3>4. worker' = [worker EXCEPT ![w].pc = "uploading"]
      BY <1>1
    <3>5. \A v \in Workers : worker'[v].token = worker[v].token /\ (Live(v)' <=> Live(v))
      BY <1>0, <3>4
    <3>6. \A v \in Workers : Live(v)' /\ worker'[v].pc \in Attempting => worker[v].pc \in Attempting
      BY <1>0, <3>4
    <3>7. \A v \in Workers : Live(v)' /\ worker'[v].pc \in {"stored", "marking"} => v # w
      BY <1>0, <3>4
    <3>8. ASSUME NEW v \in Workers, NEW u \in rows', Live(v)', worker'[v].pc \in Attempting,
                 u.by = worker'[v].token, u.art \in Artifacts, u.status = "AVAILABLE"
          PROVE  Key(u.art, u.gen) \in store
      <4>1. PICK r \in rows : /\ u.art = r.art /\ u.by = r.by /\ u.gen = r.gen
                              /\ u = r \/ (r \in mine /\ u.status = "AVAILABLE")
        BY <3>2
      <4>2. CASE u = r
        BY <3>5, <3>6, <3>8, <4>2 DEF AttemptInv
      <4>3. CASE r \in mine
        <5>0. worker[v].token = worker[w].token
          BY <3>3, <3>5, <3>8, <4>1, <4>3
        <5>b. Busy(v) /\ Busy(w)
          BY <1>0, <3>6, <3>8
        <5>1. v = w
          BY <5>0, <5>b DEF ClaimInv
        <5> QED
          BY <3>3, <3>5, <3>8, <4>1, <4>3, <5>1
      <4> QED
        BY <4>1, <4>2, <4>3
    <3> QED
      BY <1>0, <3>4, <3>5, <3>7, <3>8 DEF AttemptInv
  <2>5. CleanupInv'
    BY <1>0, <1>1 DEF ClaimInv, OwnerInv, CleanupInv, ThisRow
  <2>6. PrintableInv'
    <3>1. \A r \in mine : r.status = "STAGING"
      BY <1>1
    <3>2. rows \ mine \subseteq rows'
      BY <1>1
    <3>3. ASSUME NEW claim, Rendered(claim)
          PROVE  Rendered(claim)'
      <4>1. \A r \in rows : r.status = "AVAILABLE" => r \in rows'
        BY <3>1, <3>2
      <4> QED
        BY <1>0, <3>3, <4>1, RenderedKept
    <3> QED
      BY <1>0, <3>3 DEF PrintableInv
  <2>7. LedgerNamesEveryObject'
    <3>1. rows \subseteq Rows /\ mine \subseteq rows /\ rows' = Marked(rows, mine, "AVAILABLE")
      BY <1>1 DEF ThisRow, Marked
    <3>2. \A r \in rows : \E u \in rows' : u.art = r.art /\ u.gen = r.gen
      BY <3>1, Remarked
    <3> QED
      BY <1>0, <3>2 DEF LedgerNamesEveryObject, KeysOf
  <2> QED
    BY <2>1, <2>2, <2>3, <2>4, <2>5, <2>6, <2>7
<1>2. ASSUME rows' = rows /\ Go(w, "compensating")
     PROVE  WorkInv'
  <2>1. ClaimInv'
    BY <1>0, <1>2 DEF ClaimInv
  <2>2. OwnerInv'
    BY <1>0, <1>2 DEF ClaimInv, OwnerInv
  <2>3. LedgerInv'
    BY <1>0, <1>2 DEF ClaimInv, OwnerInv, LedgerInv
  <2>4. AttemptInv'
    BY <1>0, <1>2 DEF ClaimInv, OwnerInv, LedgerInv, AttemptInv
  <2>5. CleanupInv'
    BY <1>0, <1>2 DEF ClaimInv, OwnerInv, CleanupInv
  <2>6. PrintableInv'
    BY <1>0, <1>2 DEF ClaimInv, OwnerInv, LedgerInv, CleanupInv, PrintableInv, Rendered
  <2>7. LedgerNamesEveryObject'
    BY <1>0, <1>2 DEF ClaimInv, OwnerInv, LedgerInv, CleanupInv, LedgerNamesEveryObject, KeysOf
  <2> QED
    BY <2>1, <2>2, <2>3, <2>4, <2>5, <2>6, <2>7
<1> QED
  BY <1>0, <1>1, <1>2 DEF ClaimInv, MarkAvailable, ThisRow

\* A late owner deletes its own object: no live claim and no ready document shares its generation.
LEMMA CompensateInvalidatedArtifactSafe ==
  ASSUME ProcessingInv, NEW w \in Workers, CompensateInvalidatedArtifact(w)
  PROVE  WorkInv'
<1>0. At(w, "compensating") /\ Fail(w) /\ UNCHANGED <<session, file, queue, tokens, faults>>
  BY DEF CompensateInvalidatedArtifact
<1>1. ASSUME store' = store \ {ThisKey(w)} /\ rows' = rows
     PROVE  WorkInv'
  <2>1. ClaimInv'
    BY <1>0, <1>1 DEF ClaimInv
  <2>2. OwnerInv'
    BY <1>0, <1>1 DEF ClaimInv, OwnerInv
  <2>3. LedgerInv'
    BY <1>0, <1>1 DEF ClaimInv, OwnerInv, LedgerInv
  <2>4. AttemptInv'
    BY <1>0, <1>1 DEF ClaimInv, OwnerInv, LedgerInv, AttemptInv
  <2>5. CleanupInv'
    BY <1>0, <1>1 DEF ClaimInv, OwnerInv, CleanupInv
  <2>6. PrintableInv'
    <3>1. worker[w].art \in Artifacts /\ Rendering(w)
      BY <1>0 DEF ClaimInv, LedgerInv
    <3>2. ASSUME NEW claim \in 1 .. tokens, file.status = "READY", Rendered(claim)
          PROVE  Rendered(claim)'
      <4>1. worker[w].gen # file.gen
        BY <3>1, <3>2 DEF OwnerInv
      <4>2. \A r \in rows : r.gen = file.gen /\ r.art \in Artifacts => Key(r.art, r.gen) # ThisKey(w)
        BY <3>1, <4>1
      <4> QED
        BY <1>0, <1>1, <3>2, <4>2, RenderedKept
    <3>3. Upload # ThisKey(w)
      BY <3>1
    <3> QED
      BY <1>0, <1>1, <3>2, <3>3 DEF PrintableInv
  <2>7. LedgerNamesEveryObject'
    BY <1>0, <1>1 DEF ClaimInv, OwnerInv, LedgerInv, CleanupInv, LedgerNamesEveryObject, KeysOf
  <2> QED
    BY <2>1, <2>2, <2>3, <2>4, <2>5, <2>6, <2>7
<1>2. ASSUME /\ store' = store
                 /\ rows' = (rows \ ThisRow(w)) \cup {[r EXCEPT !.status = "DELETE_PENDING"] : r \in ThisRow(w)}
     PROVE  WorkInv'
  <2>1. ClaimInv'
    BY <1>0, <1>2 DEF ClaimInv, ThisRow
  <2>2. OwnerInv'
    BY <1>0, <1>2 DEF ClaimInv, OwnerInv, ThisRow
  <2>3. LedgerInv'
    <3>1. /\ rows \subseteq Rows /\ ThisRow(w) \subseteq rows
          /\ rows' = Marked(rows, ThisRow(w), "DELETE_PENDING")
      BY <1>2 DEF ThisRow, Marked
    <3>2. /\ \A u \in rows' : \E r \in rows : u.by = r.by /\ u.gen = r.gen
          /\ \A r \in rows : \E u \in rows' : u.art = r.art /\ u.by = r.by
      BY <3>1, Remarked
    <3> QED
      BY <1>0, <3>2
      DEF ClaimInv, OwnerInv, LedgerInv
  <2>4. AttemptInv'
    <3>1. /\ rows \subseteq Rows /\ ThisRow(w) \subseteq rows
          /\ rows' = Marked(rows, ThisRow(w), "DELETE_PENDING")
      BY <1>2 DEF ThisRow, Marked
    <3>2. \A u \in rows' : u \in rows \/ u.status = "DELETE_PENDING"
      BY <3>1, Remarked
    <3> QED
      BY <1>0, <1>2, <3>2
      DEF ClaimInv, AttemptInv
  <2>5. CleanupInv'
    BY <1>0, <1>2 DEF ClaimInv, OwnerInv, CleanupInv, ThisRow
  <2>6. PrintableInv'
    <3>1. Rendering(w)
      BY <1>0 DEF ClaimInv
    <3>2. ASSUME NEW claim \in 1 .. tokens, file.status = "READY", Rendered(claim)
          PROVE  Rendered(claim)'
      <4>1. \A r \in rows : r.gen = file.gen => r \notin ThisRow(w)
        BY <3>1, <3>2 DEF OwnerInv, LedgerInv, ThisRow
      <4> QED
        BY <1>0, <1>2, <3>2, <4>1, RenderedKept
    <3> QED
      BY <1>0, <1>2, <3>2 DEF PrintableInv
  <2>7. LedgerNamesEveryObject'
    <3>1. /\ rows \subseteq Rows /\ ThisRow(w) \subseteq rows
          /\ rows' = Marked(rows, ThisRow(w), "DELETE_PENDING")
      BY <1>2 DEF ThisRow, Marked
    <3>2. \A r \in rows : \E u \in rows' : u.art = r.art /\ u.gen = r.gen
      BY <3>1, Remarked
    <3> QED
      <4>1. \A key \in store : key = Upload \/ \E r \in rows : key = Key(r.art, r.gen)
        BY DEF LedgerNamesEveryObject, KeysOf
      <4>2. store' = store
        BY <1>2
      <4> HIDE ProcessingAssumption DEF ProcessingInv, WorkInv, ProcessingTypeOK, Files, Slots
      <4> QED
        BY <3>2, <4>1, <4>2 DEF LedgerNamesEveryObject, KeysOf
  <2> QED
    BY <2>1, <2>2, <2>3, <2>4, <2>5, <2>6, <2>7
<1> QED
  BY <1>0, <1>1, <1>2 DEF ClaimInv, CompensateInvalidatedArtifact, ThisRow

\* The document becomes ready over one complete attempt.
LEMMA CompleteSafe ==
  ASSUME ProcessingInv, NEW w \in Workers, Complete(w)
  PROVE  WorkInv'
<1>0. At(w, "completing") /\ UNCHANGED <<session, rows, store, queue, tokens, faults>>
  BY DEF Complete
<1>1. ASSUME Live(w), file' = Unclaimed(file, "READY"), Stop(w),
        \A a \in Artifacts \cup {Original} :
          \E r \in rows : r.art = a /\ r.by = worker[w].token /\ r.status = "AVAILABLE"
     PROVE  WorkInv'
  <2>1. ClaimInv'
    BY <1>0, <1>1 DEF ClaimInv, Idle, Unclaimed
  <2>2. OwnerInv'
    BY <1>0, <1>1 DEF ClaimInv, OwnerInv, Idle, Unclaimed
  <2>3. LedgerInv'
    BY <1>0, <1>1 DEF ClaimInv, OwnerInv, LedgerInv, Idle, Unclaimed
  <2>4. AttemptInv'
    BY <1>0, <1>1 DEF ClaimInv, OwnerInv, LedgerInv, AttemptInv, Idle, Unclaimed
  <2>5. CleanupInv'
    BY <1>0, <1>1 DEF ClaimInv, OwnerInv, CleanupInv, Idle, Unclaimed
  <2>6. PrintableInv'
    <3>1. file'.status = "READY" /\ file'.gen = file.gen /\ Upload \in store
      BY <1>1 DEF PrintableInv, Unclaimed
    <3>2. worker[w].token \in 1 .. tokens /\ worker[w].gen = file.gen
      BY <1>0, <1>1 DEF ClaimInv
    <3>3. ASSUME NEW a \in Artifacts
          PROVE  \E r \in rows : /\ r.art = a /\ r.by = worker[w].token /\ r.status = "AVAILABLE"
                                 /\ r.gen = file.gen /\ Key(r.art, r.gen) \in store
      <4>1. PICK r \in rows : r.art = a /\ r.by = worker[w].token /\ r.status = "AVAILABLE"
        BY <1>1
      <4>2. r.gen = worker[w].gen
        BY <1>0, <4>1 DEF LedgerInv
      <4>3. Key(r.art, r.gen) \in store
        BY <1>0, <1>1, <4>1 DEF AttemptInv
      <4> QED
        BY <3>2, <4>1, <4>2, <4>3
    <3>4. PICK claim \in 1 .. tokens : claim = worker[w].token
      BY <3>2
    <3>5. Rendered(claim)'
      BY <1>0, <3>1, <3>3, <3>4 DEF Rendered
    <3> QED
      BY <1>0, <3>1, <3>5 DEF PrintableInv
  <2>7. LedgerNamesEveryObject'
    BY <1>0, <1>1
    DEF ClaimInv, OwnerInv, LedgerInv, CleanupInv, LedgerNamesEveryObject, Idle, Unclaimed,
              KeysOf
  <2> QED
    BY <2>1, <2>2, <2>3, <2>4, <2>5, <2>6, <2>7
<1>2. ASSUME file' = file /\ Fail(w)
     PROVE  WorkInv'
  BY <1>0, <1>2, FailSafe DEF ClaimInv
<1> QED
  BY <1>0, <1>1, <1>2 DEF ClaimInv, Complete, Idle

\* What a failed attempt does.
LEMMA HandleFailureSafe ==
  ASSUME ProcessingInv, NEW w \in Workers, HandleFailure(w)
  PROVE  WorkInv'
<1>0. At(w, "failing") /\ UNCHANGED <<session, rows, store, queue, tokens, faults>>
  BY DEF HandleFailure
<1>1. ASSUME file' = file /\ Stop(w)
     PROVE  WorkInv'
  BY <1>0, <1>1, StopSafe
<1>2. ASSUME Live(w) /\ file' = GivenUp /\ Stop(w)
     PROVE  WorkInv'
  BY <1>0, <1>2, GiveUpSafe
<1>3. ASSUME Live(w) /\ file' = file /\ Go(w, "cleaning")
     PROVE  WorkInv'
  <2>1. ClaimInv'
    BY <1>0, <1>3 DEF ClaimInv
  <2>2. OwnerInv'
    BY <1>0, <1>3 DEF ClaimInv, OwnerInv
  <2>3. LedgerInv'
    BY <1>0, <1>3 DEF ClaimInv, OwnerInv, LedgerInv
  <2>4. AttemptInv'
    BY <1>0, <1>3 DEF ClaimInv, OwnerInv, LedgerInv, AttemptInv
  <2>5. CleanupInv'
    BY <1>0, <1>3 DEF ClaimInv, OwnerInv, CleanupInv
  <2>6. PrintableInv'
    BY <1>0, <1>3 DEF ClaimInv, OwnerInv, LedgerInv, CleanupInv, PrintableInv, Rendered
  <2>7. LedgerNamesEveryObject'
    BY <1>0, <1>3 DEF ClaimInv, OwnerInv, LedgerInv, CleanupInv, LedgerNamesEveryObject, KeysOf
  <2> QED
    BY <2>1, <2>2, <2>3, <2>4, <2>5, <2>6, <2>7
<1> QED
  BY <1>0, <1>1, <1>2, <1>3 DEF ClaimInv, HandleFailure, Idle, GivenUp

\* The cleanup takes everything but the upload.
LEMMA ListDerivativesSafe ==
  ASSUME ProcessingInv, NEW w \in Workers, ListDerivatives(w)
  PROVE  WorkInv'
<1>1. ClaimInv'
  BY DEF ClaimInv, ListDerivatives, KeysOf
<1>2. OwnerInv'
  BY DEF ClaimInv, OwnerInv, ListDerivatives, KeysOf
<1>3. LedgerInv'
  BY DEF ClaimInv, OwnerInv, LedgerInv, ListDerivatives, KeysOf
<1>4. AttemptInv'
  BY DEF ClaimInv, OwnerInv, LedgerInv, AttemptInv, ListDerivatives, KeysOf
<1>5. CleanupInv'
  BY DEF ClaimInv, OwnerInv, CleanupInv, ListDerivatives, KeysOf
<1>6. PrintableInv'
  BY DEF ClaimInv, OwnerInv, LedgerInv, CleanupInv, PrintableInv, ListDerivatives, Rendered,
              KeysOf
<1>7. LedgerNamesEveryObject'
  BY DEF ClaimInv, OwnerInv, LedgerInv, CleanupInv, LedgerNamesEveryObject, ListDerivatives,
              KeysOf
<1> QED
  BY <1>1, <1>2, <1>3, <1>4, <1>5, <1>6, <1>7

\* Only a live owner, or nobody at all, still deletes listed objects.
LEMMA DeleteListedSafe ==
  ASSUME ProcessingInv, NEW w \in Workers, DeleteListed(w)
  PROVE  WorkInv'
<1>0. At(w, "deleting") /\ ~worker[w].aborted /\ UNCHANGED <<session, file, rows, queue, tokens, faults>>
  BY DEF DeleteListed
<1>1. ASSUME worker[w].doomed = {}, store' = store, worker[w].failed, Go(w, "surrendering")
     PROVE  WorkInv'
  <2>1. ClaimInv'
    BY <1>0, <1>1 DEF ClaimInv
  <2>2. OwnerInv'
    BY <1>0, <1>1 DEF ClaimInv, OwnerInv
  <2>3. LedgerInv'
    BY <1>0, <1>1 DEF ClaimInv, OwnerInv, LedgerInv
  <2>4. AttemptInv'
    BY <1>0, <1>1 DEF ClaimInv, OwnerInv, LedgerInv, AttemptInv
  <2>5. CleanupInv'
    BY <1>0, <1>1 DEF ClaimInv, OwnerInv, CleanupInv
  <2>6. PrintableInv'
    BY <1>0, <1>1 DEF ClaimInv, OwnerInv, LedgerInv, CleanupInv, PrintableInv, Rendered
  <2>7. LedgerNamesEveryObject'
    BY <1>0, <1>1 DEF ClaimInv, OwnerInv, LedgerInv, CleanupInv, LedgerNamesEveryObject, KeysOf
  <2> QED
    BY <2>1, <2>2, <2>3, <2>4, <2>5, <2>6, <2>7
<1>2. ASSUME worker[w].doomed = {}, store' = store, ~worker[w].failed, Go(w, "retiring")
     PROVE  WorkInv'
  <2>1. ClaimInv'
    BY <1>0, <1>2 DEF ClaimInv
  <2>2. OwnerInv'
    BY <1>0, <1>2 DEF ClaimInv, OwnerInv
  <2>3. LedgerInv'
    BY <1>0, <1>2 DEF ClaimInv, OwnerInv, LedgerInv
  <2>4. AttemptInv'
    BY <1>0, <1>2 DEF ClaimInv, OwnerInv, LedgerInv, AttemptInv
  <2>5. CleanupInv'
    BY <1>0, <1>2 DEF ClaimInv, OwnerInv, CleanupInv
  <2>6. PrintableInv'
    BY <1>0, <1>2 DEF ClaimInv, OwnerInv, LedgerInv, CleanupInv, PrintableInv, Rendered
  <2>7. LedgerNamesEveryObject'
    BY <1>0, <1>2 DEF ClaimInv, OwnerInv, LedgerInv, CleanupInv, LedgerNamesEveryObject, KeysOf
  <2> QED
    BY <2>1, <2>2, <2>3, <2>4, <2>5, <2>6, <2>7
<1>3. ASSUME NEW key \in worker[w].doomed, store' = store \ {key},
        worker' = [worker EXCEPT ![w].doomed = @ \ {key}, ![w].failed = @ \/ FALSE]
     PROVE  WorkInv'
  <2>1. ClaimInv'
    BY <1>0, <1>3 DEF ClaimInv
  <2>2. OwnerInv'
    BY <1>0, <1>3 DEF ClaimInv, OwnerInv
  <2>3. LedgerInv'
    BY <1>0, <1>3 DEF ClaimInv, OwnerInv, LedgerInv
  <2>4. AttemptInv'
    BY <1>0, <1>3 DEF ClaimInv, OwnerInv, LedgerInv, AttemptInv
  <2>5. CleanupInv'
    BY <1>0, <1>3 DEF ClaimInv, OwnerInv, CleanupInv
  <2>6. PrintableInv'
    <3>1. file.status # "READY" /\ key # Upload
      BY <1>0, <1>3 DEF ClaimInv, OwnerInv, CleanupInv
    <3> QED
      BY <1>0, <1>3, <3>1 DEF PrintableInv
  <2>7. LedgerNamesEveryObject'
    BY <1>0, <1>3 DEF ClaimInv, OwnerInv, LedgerInv, CleanupInv, LedgerNamesEveryObject, KeysOf
  <2> QED
    BY <2>1, <2>2, <2>3, <2>4, <2>5, <2>6, <2>7
<1>4. ASSUME NEW key \in worker[w].doomed, store' = store,
        worker' = [worker EXCEPT ![w].doomed = @ \ {key}, ![w].failed = @ \/ TRUE]
     PROVE  WorkInv'
  <2>1. ClaimInv'
    BY <1>0, <1>4 DEF ClaimInv
  <2>2. OwnerInv'
    BY <1>0, <1>4 DEF ClaimInv, OwnerInv
  <2>3. LedgerInv'
    BY <1>0, <1>4 DEF ClaimInv, OwnerInv, LedgerInv
  <2>4. AttemptInv'
    BY <1>0, <1>4 DEF ClaimInv, OwnerInv, LedgerInv, AttemptInv
  <2>5. CleanupInv'
    BY <1>0, <1>4 DEF ClaimInv, OwnerInv, CleanupInv
  <2>6. PrintableInv'
    BY <1>0, <1>4 DEF ClaimInv, OwnerInv, LedgerInv, CleanupInv, PrintableInv, Rendered
  <2>7. LedgerNamesEveryObject'
    BY <1>0, <1>4 DEF ClaimInv, OwnerInv, LedgerInv, CleanupInv, LedgerNamesEveryObject, KeysOf
  <2> QED
    BY <2>1, <2>2, <2>3, <2>4, <2>5, <2>6, <2>7
<1> QED
  BY <1>0, <1>1, <1>2, <1>3, <1>4 DEF ClaimInv, DeleteListed

\* A cleanup told to abort.
LEMMA DeletionAbortedSafe ==
  ASSUME ProcessingInv, NEW w \in Workers, DeletionAborted(w)
  PROVE  WorkInv'
<1>0. At(w, "deleting") /\ worker[w].aborted /\ Stop(w) /\ UNCHANGED <<session, rows, store, queue, tokens, faults>>
  BY DEF DeletionAborted, CleaningFails
<1>1. ASSUME Live(w) /\ file' = GivenUp
     PROVE  WorkInv'
  BY <1>0, <1>1, GiveUpSafe
<1>2. ASSUME file' = file
     PROVE  WorkInv'
  BY <1>0, <1>2, StopSafe
<1> QED
  BY <1>0, <1>1, <1>2 DEF ClaimInv, DeletionAborted, Idle, GivenUp, CleaningFails

\* A cleanup that could not delete everything.
LEMMA FailCleanupSafe ==
  ASSUME ProcessingInv, NEW w \in Workers, FailCleanup(w)
  PROVE  WorkInv'
<1>0. At(w, "surrendering") /\ Stop(w) /\ UNCHANGED <<session, rows, store, queue, tokens, faults>>
  BY DEF FailCleanup
<1>1. ASSUME Live(w) /\ file' = GivenUp
     PROVE  WorkInv'
  BY <1>0, <1>1, GiveUpSafe
<1>2. ASSUME file' = file
     PROVE  WorkInv'
  BY <1>0, <1>2, StopSafe
<1> QED
  BY <1>0, <1>1, <1>2 DEF ClaimInv, FailCleanup, Idle, GivenUp

\* Rows are retired when their objects are gone.
LEMMA RetireRowsSafe ==
  ASSUME ProcessingInv, NEW w \in Workers, RetireRows(w)
  PROVE  WorkInv'
<1>0. At(w, "retiring") /\ UNCHANGED <<session, store, queue, tokens, faults>>
  BY DEF RetireRows
<1>1. ASSUME Live(w) /\ rows' = rows \ worker[w].listed /\ file' = file /\ Go(w, "requeueing")
     PROVE  WorkInv'
  <2>1. ClaimInv'
    BY <1>0, <1>1 DEF ClaimInv
  <2>2. OwnerInv'
    BY <1>0, <1>1 DEF ClaimInv, OwnerInv
  <2>3. LedgerInv'
    BY <1>0, <1>1 DEF ClaimInv, OwnerInv, LedgerInv
  <2>4. AttemptInv'
    BY <1>0, <1>1 DEF ClaimInv, OwnerInv, LedgerInv, AttemptInv
  <2>5. CleanupInv'
    BY <1>0, <1>1 DEF ClaimInv, OwnerInv, CleanupInv
  <2>6. PrintableInv'
    BY <1>0, <1>1 DEF ClaimInv, OwnerInv, LedgerInv, CleanupInv, PrintableInv, Rendered
  <2>7. LedgerNamesEveryObject'
    BY <1>0, <1>1 DEF ClaimInv, OwnerInv, LedgerInv, CleanupInv, LedgerNamesEveryObject, KeysOf
  <2> QED
    BY <2>1, <2>2, <2>3, <2>4, <2>5, <2>6, <2>7
<1>2. ASSUME Live(w) /\ rows' = rows /\ file' = GivenUp /\ Stop(w)
     PROVE  WorkInv'
  BY <1>0, <1>2, GiveUpSafe
<1>3. ASSUME rows' = rows /\ file' = file /\ Stop(w)
     PROVE  WorkInv'
  BY <1>0, <1>3, StopSafe
<1> QED
  BY <1>0, <1>1, <1>2, <1>3 DEF ClaimInv, RetireRows, Idle, GivenUp, CleaningFails

\* Back to quarantine.
LEMMA RequeueSafe ==
  ASSUME ProcessingInv, NEW w \in Workers, Requeue(w)
  PROVE  WorkInv'
<1>0. At(w, "requeueing") /\ Stop(w) /\ UNCHANGED <<session, rows, store, queue, tokens, faults>>
  BY DEF Requeue
<1>1. ASSUME file' = file
     PROVE  WorkInv'
  BY <1>0, <1>1, StopSafe
<1>2. ASSUME Live(w) /\ file' = GivenUp
     PROVE  WorkInv'
  BY <1>0, <1>2, GiveUpSafe
<1>3. ASSUME Live(w) /\ file' = Unclaimed(file, "QUARANTINED")
     PROVE  WorkInv'
  <2>1. ClaimInv'
    BY <1>0, <1>3 DEF ClaimInv, Idle, Unclaimed
  <2>2. OwnerInv'
    BY <1>0, <1>3 DEF ClaimInv, OwnerInv, Idle, Unclaimed
  <2>3. LedgerInv'
    BY <1>0, <1>3 DEF ClaimInv, OwnerInv, LedgerInv, Idle, Unclaimed
  <2>4. AttemptInv'
    BY <1>0, <1>3 DEF ClaimInv, OwnerInv, LedgerInv, AttemptInv, Idle, Unclaimed
  <2>5. CleanupInv'
    BY <1>0, <1>3 DEF ClaimInv, OwnerInv, CleanupInv, Idle, Unclaimed
  <2>6. PrintableInv'
    BY <1>0, <1>3
    DEF ClaimInv, OwnerInv, LedgerInv, CleanupInv, PrintableInv, Rendered, Idle, Unclaimed
  <2>7. LedgerNamesEveryObject'
    BY <1>0, <1>3
    DEF ClaimInv, OwnerInv, LedgerInv, CleanupInv, LedgerNamesEveryObject, Idle, Unclaimed,
              KeysOf
  <2> QED
    BY <2>1, <2>2, <2>3, <2>4, <2>5, <2>6, <2>7
<1> QED
  BY <1>0, <1>1, <1>2, <1>3 DEF ClaimInv, Requeue, Idle, GivenUp

\* A claim nobody renews is taken over under a fresh token.
LEMMA RecoverSafe ==
  ASSUME ProcessingInv, NEW w \in Workers, Recover(w)
  PROVE  WorkInv'
<1>1. ClaimInv'
  BY DEF ClaimInv, Recover, Idle
<1>2. OwnerInv'
  BY DEF ClaimInv, OwnerInv, Recover, Idle
<1>3. LedgerInv'
  <2>1. \A v \in Workers : v # w => worker'[v] = worker[v]
    BY DEF Recover
  <2>2. worker'[w].token = tokens + 1 /\ worker'[w].pc = "cleaning"
    BY DEF Recover, Idle
  <2>3. \A r \in rows : r.by \in Nat /\ r.by <= tokens
    BY DEF LedgerInv, Rows
  <2>4. ASSUME NEW v \in Workers, NEW r \in rows, Busy(v)', r.by = worker'[v].token
        PROVE  r.gen = worker'[v].gen
    <3>1. v # w
      BY <2>2, <2>3, <2>4
    <3> QED
      BY <2>1, <2>4, <3>1 DEF LedgerInv
  <2>5. \A v \in Workers : v # w /\ Busy(v) /\ Live(v)' => Live(v)
    BY <2>1 DEF ClaimInv, Recover
  <2> QED
    BY <2>1, <2>2, <2>3, <2>4, <2>5 DEF LedgerInv, Recover
<1>4. AttemptInv'
  BY DEF ClaimInv, OwnerInv, LedgerInv, AttemptInv, Recover, Idle
<1>5. CleanupInv'
  BY DEF ClaimInv, OwnerInv, CleanupInv, Recover, Idle
<1>6. PrintableInv'
  BY DEF ClaimInv, OwnerInv, LedgerInv, CleanupInv, PrintableInv, Recover, Rendered, Idle
<1>7. LedgerNamesEveryObject'
  BY DEF ClaimInv, OwnerInv, LedgerInv, CleanupInv, LedgerNamesEveryObject, Recover, Idle,
              KeysOf
<1> QED
  BY <1>1, <1>2, <1>3, <1>4, <1>5, <1>6, <1>7

\* A worker is told to abort.
LEMMA HeartbeatSafe ==
  ASSUME ProcessingInv, NEW w \in Workers, Heartbeat(w)
  PROVE  WorkInv'
<1>1. ClaimInv'
  BY DEF ClaimInv, Heartbeat
<1>2. OwnerInv'
  BY DEF ClaimInv, OwnerInv, Heartbeat
<1>3. LedgerInv'
  BY DEF ClaimInv, OwnerInv, LedgerInv, Heartbeat
<1>4. AttemptInv'
  BY DEF ClaimInv, OwnerInv, LedgerInv, AttemptInv, Heartbeat
<1>5. CleanupInv'
  BY DEF ClaimInv, OwnerInv, CleanupInv, Heartbeat
<1>6. PrintableInv'
  BY DEF ClaimInv, OwnerInv, LedgerInv, CleanupInv, PrintableInv, Heartbeat, Rendered
<1>7. LedgerNamesEveryObject'
  BY DEF ClaimInv, OwnerInv, LedgerInv, CleanupInv, LedgerNamesEveryObject, Heartbeat,
              KeysOf
<1> QED
  BY <1>1, <1>2, <1>3, <1>4, <1>5, <1>6, <1>7

\* A worker is lost, its message delivered once more.
LEMMA CrashSafe ==
  ASSUME ProcessingInv, NEW w \in Workers, Crash(w)
  PROVE  WorkInv'
<1>0. Busy(w) /\ Stop(w) /\ faults' = faults + 1 /\ faults < MaxFaults
      /\ queue' = (IF worker[w].recovering THEN queue ELSE queue \cup {worker[w].gen})
      /\ UNCHANGED <<session, file, rows, tokens>>
  BY DEF Crash, Idle
<1>1. ASSUME At(w, "putting") /\ store' = store \cup {ThisKey(w)}
     PROVE  WorkInv'
  <2>1. ClaimInv'
    BY <1>0, <1>1 DEF ClaimInv, Idle
  <2>2. OwnerInv'
    BY <1>0, <1>1 DEF ClaimInv, OwnerInv, Idle
  <2>3. LedgerInv'
    BY <1>0, <1>1 DEF ClaimInv, OwnerInv, LedgerInv, Idle
  <2>4. AttemptInv'
    BY <1>0, <1>1 DEF ClaimInv, OwnerInv, LedgerInv, AttemptInv, Idle
  <2>5. CleanupInv'
    BY <1>0, <1>1 DEF ClaimInv, OwnerInv, CleanupInv, Idle
  <2>6. PrintableInv'
    <3>1. ASSUME NEW claim, Rendered(claim)
          PROVE  Rendered(claim)'
      <4>1. store \subseteq store'
        BY <1>1
      <4> QED
        BY <1>0, <3>1, <4>1, RenderedKept
    <3> QED
      BY <1>0, <1>1, <3>1 DEF PrintableInv
  <2>7. LedgerNamesEveryObject'
    <3>1. worker[w].art \in Artifacts
      BY <1>1 DEF LedgerInv
    <3>2. PICK r \in rows : r.art = worker[w].art /\ r.by = worker[w].token
      BY <1>1, <3>1 DEF LedgerInv
    <3>3. r.gen = worker[w].gen
      BY <1>0, <3>2 DEF LedgerInv
    <3>4. ThisKey(w) \in KeysOf(rows)
      BY <3>2, <3>3 DEF KeysOf
    <3> HIDE DEF ThisKey
    <3> QED
      BY <1>0, <1>1, <3>4 DEF LedgerNamesEveryObject
  <2> QED
    BY <2>1, <2>2, <2>3, <2>4, <2>5, <2>6, <2>7
<1>2. ASSUME store' = store
     PROVE  WorkInv'
  <2>1. ClaimInv'
    BY <1>0, <1>2 DEF ClaimInv, Idle
  <2>2. OwnerInv'
    BY <1>0, <1>2 DEF ClaimInv, OwnerInv, Idle
  <2>3. LedgerInv'
    BY <1>0, <1>2 DEF ClaimInv, OwnerInv, LedgerInv, Idle
  <2>4. AttemptInv'
    BY <1>0, <1>2 DEF ClaimInv, OwnerInv, LedgerInv, AttemptInv, Idle
  <2>5. CleanupInv'
    BY <1>0, <1>2 DEF ClaimInv, OwnerInv, CleanupInv, Idle
  <2>6. PrintableInv'
    BY <1>0, <1>2, PrintableKept
  <2>7. LedgerNamesEveryObject'
    BY <1>0, <1>2
    DEF ClaimInv, OwnerInv, LedgerInv, CleanupInv, LedgerNamesEveryObject, Idle, KeysOf
  <2> QED
    BY <2>1, <2>2, <2>3, <2>4, <2>5, <2>6, <2>7
<1> QED
  BY <1>0, <1>1, <1>2 DEF ClaimInv, Crash, Idle

\* A fresh token, and the only holder of its message.
LEMMA ClaimSafe ==
  ASSUME ProcessingInv, NEW w \in Workers, NEW g \in queue, Claim(w, g)
  PROVE  WorkInv'
<1>0. At(w, "idle") /\ queue' = queue \ {g} /\ UNCHANGED <<session, rows, store, faults>>
  BY DEF Claim
<1>1. ASSUME UNCHANGED <<file, worker, tokens>>
     PROVE  WorkInv'
  <2>1. ClaimInv'
    BY <1>0, <1>1 DEF ClaimInv
  <2>2. OwnerInv'
    BY <1>0, <1>1 DEF ClaimInv, OwnerInv
  <2>3. LedgerInv'
    BY <1>0, <1>1 DEF ClaimInv, OwnerInv, LedgerInv
  <2>4. AttemptInv'
    BY <1>0, <1>1 DEF ClaimInv, OwnerInv, LedgerInv, AttemptInv
  <2>5. CleanupInv'
    BY <1>0, <1>1 DEF ClaimInv, OwnerInv, CleanupInv
  <2>6. PrintableInv'
    BY <1>0, <1>1, PrintableKept
  <2>7. LedgerNamesEveryObject'
    BY <1>0, <1>1 DEF ClaimInv, OwnerInv, LedgerInv, CleanupInv, LedgerNamesEveryObject, KeysOf
  <2> QED
    BY <2>1, <2>2, <2>3, <2>4, <2>5, <2>6, <2>7
<1>2. ASSUME /\ file.status = "QUARANTINED" /\ file.gen = g
                 /\ file' = [Unclaimed(file, "DELETE_PENDING") EXCEPT !.asked = TRUE, !.settling = FALSE]
                 /\ UNCHANGED <<worker, tokens>>
     PROVE  WorkInv'
  <2>1. ClaimInv'
    BY <1>0, <1>2 DEF ClaimInv, Unclaimed
  <2>2. OwnerInv'
    BY <1>0, <1>2 DEF ClaimInv, OwnerInv, Unclaimed
  <2>3. LedgerInv'
    BY <1>0, <1>2 DEF ClaimInv, OwnerInv, LedgerInv, Unclaimed
  <2>4. AttemptInv'
    BY <1>0, <1>2 DEF ClaimInv, OwnerInv, LedgerInv, AttemptInv, Unclaimed
  <2>5. CleanupInv'
    BY <1>0, <1>2 DEF ClaimInv, OwnerInv, CleanupInv, Unclaimed
  <2>6. PrintableInv'
    BY <1>0, <1>2 DEF ClaimInv, OwnerInv, LedgerInv, CleanupInv, PrintableInv, Rendered, Unclaimed
  <2>7. LedgerNamesEveryObject'
    BY <1>0, <1>2 DEF ClaimInv, OwnerInv, LedgerInv, CleanupInv, LedgerNamesEveryObject, Unclaimed,
              KeysOf
  <2> QED
    BY <2>1, <2>2, <2>3, <2>4, <2>5, <2>6, <2>7
<1>3. ASSUME /\ file.status = "QUARANTINED" /\ file.gen = g
                 /\ tokens' = tokens + 1
                 /\ file' = [file EXCEPT !.status = "VALIDATING", !.token = tokens + 1, !.leased = TRUE,
                                        !.attempts = @ + 1, !.enqueued = FALSE]
                 /\ worker' = [worker EXCEPT ![w] = [Idle EXCEPT !.pc = "processing", !.gen = g,
                                                                !.token = tokens + 1]]
     PROVE  WorkInv'
  <2>1. ClaimInv'
    BY <1>0, <1>3 DEF ClaimInv, Idle
  <2>2. OwnerInv'
    BY <1>0, <1>3 DEF ClaimInv, OwnerInv, Idle
  <2>3. LedgerInv'
    <3>1. \A v \in Workers : v # w => worker'[v] = worker[v]
      BY <1>0, <1>3
    <3>2. worker'[w].token = tokens + 1 /\ worker'[w].pc = "processing"
      BY <1>0, <1>3 DEF Idle
    <3>3. \A r \in rows : r.by \in Nat /\ r.by <= tokens
      BY DEF LedgerInv, Rows
    <3>4. ASSUME NEW v \in Workers, NEW r \in rows, Busy(v)', r.by = worker'[v].token
          PROVE  r.gen = worker'[v].gen
      <4>1. v # w
        BY <3>2, <3>3, <3>4
      <4> QED
        BY <3>1, <3>4, <4>1 DEF LedgerInv
    <3>5. \A v \in Workers : v # w /\ Busy(v) /\ Live(v)' => Live(v)
      BY <1>0, <1>3, <3>1 DEF ClaimInv
    <3> QED
      BY <1>0, <1>3, <3>1, <3>2, <3>3, <3>4, <3>5 DEF LedgerInv
  <2>4. AttemptInv'
    BY <1>0, <1>3 DEF ClaimInv, OwnerInv, LedgerInv, AttemptInv, Idle
  <2>5. CleanupInv'
    BY <1>0, <1>3 DEF ClaimInv, OwnerInv, CleanupInv, Idle
  <2>6. PrintableInv'
    BY <1>0, <1>3 DEF ClaimInv, OwnerInv, LedgerInv, CleanupInv, PrintableInv, Rendered, Idle
  <2>7. LedgerNamesEveryObject'
    BY <1>0, <1>3
    DEF ClaimInv, OwnerInv, LedgerInv, CleanupInv, LedgerNamesEveryObject, Idle, KeysOf
  <2> QED
    BY <2>1, <2>2, <2>3, <2>4, <2>5, <2>6, <2>7
<1> QED
  BY <1>0, <1>1, <1>2, <1>3 DEF ClaimInv, Claim, Idle

\* A new generation.
LEMMA ReserveSafe ==
  ASSUME ProcessingInv, Reserve
  PROVE  WorkInv'
<1>1. ClaimInv'
  BY DEF ClaimInv, Reserve
<1>2. OwnerInv'
  BY DEF ClaimInv, OwnerInv, Reserve
<1>3. LedgerInv'
  BY DEF ClaimInv, OwnerInv, LedgerInv, Reserve
<1>4. AttemptInv'
  BY DEF ClaimInv, OwnerInv, LedgerInv, AttemptInv, Reserve
<1>5. CleanupInv'
  BY DEF ClaimInv, OwnerInv, CleanupInv, Reserve
<1>6. PrintableInv'
  BY DEF ClaimInv, OwnerInv, LedgerInv, CleanupInv, PrintableInv, Reserve, Rendered
<1>7. LedgerNamesEveryObject'
  BY DEF ClaimInv, OwnerInv, LedgerInv, CleanupInv, LedgerNamesEveryObject, Reserve, KeysOf
<1> QED
  BY <1>1, <1>2, <1>3, <1>4, <1>5, <1>6, <1>7

\* A new generation for a message taken for lost.
LEMMA ReserveAgainSafe ==
  ASSUME ProcessingInv, ReserveAgain
  PROVE  WorkInv'
<1>1. ClaimInv'
  BY DEF ClaimInv, ReserveAgain
<1>2. OwnerInv'
  BY DEF ClaimInv, OwnerInv, ReserveAgain
<1>3. LedgerInv'
  BY DEF ClaimInv, OwnerInv, LedgerInv, ReserveAgain
<1>4. AttemptInv'
  BY DEF ClaimInv, OwnerInv, LedgerInv, AttemptInv, ReserveAgain
<1>5. CleanupInv'
  BY DEF ClaimInv, OwnerInv, CleanupInv, ReserveAgain
<1>6. PrintableInv'
  BY DEF ClaimInv, OwnerInv, LedgerInv, CleanupInv, PrintableInv, ReserveAgain, Rendered
<1>7. LedgerNamesEveryObject'
  BY DEF ClaimInv, OwnerInv, LedgerInv, CleanupInv, LedgerNamesEveryObject, ReserveAgain,
              KeysOf
<1> QED
  BY <1>1, <1>2, <1>3, <1>4, <1>5, <1>6, <1>7

\* A lease runs out only under an owner told to abort that is not uploading.
LEMMA LeaseRunsOutSafe ==
  ASSUME ProcessingInv, NobodyStalls, LeaseRunsOut
  PROVE  WorkInv'
<1>1. ClaimInv'
  BY DEF ClaimInv, LeaseRunsOut, NobodyStalls
<1>2. OwnerInv'
  BY DEF ClaimInv, OwnerInv, LeaseRunsOut, NobodyStalls
<1>3. LedgerInv'
  BY DEF ClaimInv, OwnerInv, LedgerInv, LeaseRunsOut, NobodyStalls
<1>4. AttemptInv'
  BY DEF ClaimInv, OwnerInv, LedgerInv, AttemptInv, LeaseRunsOut, NobodyStalls
<1>5. CleanupInv'
  BY DEF ClaimInv, OwnerInv, CleanupInv, LeaseRunsOut, NobodyStalls
<1>6. PrintableInv'
  BY DEF ClaimInv, OwnerInv, LedgerInv, CleanupInv, PrintableInv, LeaseRunsOut,
              NobodyStalls, Rendered
<1>7. LedgerNamesEveryObject'
  BY DEF ClaimInv, OwnerInv, LedgerInv, CleanupInv, LedgerNamesEveryObject, LeaseRunsOut,
              NobodyStalls, KeysOf
<1> QED
  BY <1>1, <1>2, <1>3, <1>4, <1>5, <1>6, <1>7

\* The customer removes the document.
LEMMA RemoveSafe ==
  ASSUME ProcessingInv, Remove
  PROVE  WorkInv'
<1>0. UNCHANGED <<session, rows, store, queue, worker, tokens, faults>>
  BY DEF Remove
<1>1. ASSUME file.status = "REJECTED" /\ file' = [file EXCEPT !.status = "DELETED", !.asked = TRUE]
     PROVE  WorkInv'
  <2>1. ClaimInv'
    BY <1>0, <1>1 DEF ClaimInv
  <2>2. OwnerInv'
    BY <1>0, <1>1 DEF ClaimInv, OwnerInv
  <2>3. LedgerInv'
    BY <1>0, <1>1 DEF ClaimInv, OwnerInv, LedgerInv
  <2>4. AttemptInv'
    BY <1>0, <1>1 DEF ClaimInv, OwnerInv, LedgerInv, AttemptInv
  <2>5. CleanupInv'
    BY <1>0, <1>1 DEF ClaimInv, OwnerInv, CleanupInv
  <2>6. PrintableInv'
    BY <1>0, <1>1 DEF ClaimInv, OwnerInv, LedgerInv, CleanupInv, PrintableInv, Rendered
  <2>7. LedgerNamesEveryObject'
    BY <1>0, <1>1 DEF ClaimInv, OwnerInv, LedgerInv, CleanupInv, LedgerNamesEveryObject, KeysOf
  <2> QED
    BY <2>1, <2>2, <2>3, <2>4, <2>5, <2>6, <2>7
<1>2. ASSUME file.status = "DELETE_PENDING" /\ file' = [file EXCEPT !.asked = TRUE]
     PROVE  WorkInv'
  <2>1. ClaimInv'
    BY <1>0, <1>2 DEF ClaimInv
  <2>2. OwnerInv'
    BY <1>0, <1>2 DEF ClaimInv, OwnerInv
  <2>3. LedgerInv'
    BY <1>0, <1>2 DEF ClaimInv, OwnerInv, LedgerInv
  <2>4. AttemptInv'
    BY <1>0, <1>2 DEF ClaimInv, OwnerInv, LedgerInv, AttemptInv
  <2>5. CleanupInv'
    BY <1>0, <1>2 DEF ClaimInv, OwnerInv, CleanupInv
  <2>6. PrintableInv'
    BY <1>0, <1>2 DEF ClaimInv, OwnerInv, LedgerInv, CleanupInv, PrintableInv, Rendered
  <2>7. LedgerNamesEveryObject'
    BY <1>0, <1>2 DEF ClaimInv, OwnerInv, LedgerInv, CleanupInv, LedgerNamesEveryObject, KeysOf
  <2> QED
    BY <2>1, <2>2, <2>3, <2>4, <2>5, <2>6, <2>7
<1>3. ASSUME file.status = "VALIDATING" /\ file' = Revoked("DELETE_PENDING", TRUE)
     PROVE  WorkInv'
  <2>1. ClaimInv'
    BY <1>0, <1>3 DEF ClaimInv, Unclaimed, Revoked
  <2>2. OwnerInv'
    BY <1>0, <1>3 DEF ClaimInv, OwnerInv, Unclaimed, Revoked
  <2>3. LedgerInv'
    BY <1>0, <1>3 DEF ClaimInv, OwnerInv, LedgerInv, Unclaimed, Revoked
  <2>4. AttemptInv'
    BY <1>0, <1>3 DEF ClaimInv, OwnerInv, LedgerInv, AttemptInv, Unclaimed, Revoked
  <2>5. CleanupInv'
    BY <1>0, <1>3 DEF ClaimInv, OwnerInv, CleanupInv, Unclaimed, Revoked
  <2>6. PrintableInv'
    BY <1>0, <1>3 DEF ClaimInv, OwnerInv, LedgerInv, CleanupInv, PrintableInv, Rendered, Unclaimed,
              Revoked
  <2>7. LedgerNamesEveryObject'
    BY <1>0, <1>3 DEF ClaimInv, OwnerInv, LedgerInv, CleanupInv, LedgerNamesEveryObject, Unclaimed,
              Revoked, KeysOf
  <2> QED
    BY <2>1, <2>2, <2>3, <2>4, <2>5, <2>6, <2>7
<1>4. ASSUME file.status # "VALIDATING" /\ ~file.settling /\ file' = Revoked("DELETING", FALSE)
     PROVE  WorkInv'
  <2>1. ClaimInv'
    BY <1>0, <1>4 DEF ClaimInv, Unclaimed, Revoked
  <2>2. OwnerInv'
    BY <1>0, <1>4 DEF ClaimInv, OwnerInv, Unclaimed, Revoked
  <2>3. LedgerInv'
    BY <1>0, <1>4 DEF ClaimInv, OwnerInv, LedgerInv, Unclaimed, Revoked
  <2>4. AttemptInv'
    BY <1>0, <1>4 DEF ClaimInv, OwnerInv, LedgerInv, AttemptInv, Unclaimed, Revoked
  <2>5. CleanupInv'
    BY <1>0, <1>4 DEF ClaimInv, OwnerInv, CleanupInv, Unclaimed, Revoked
  <2>6. PrintableInv'
    BY <1>0, <1>4 DEF ClaimInv, OwnerInv, LedgerInv, CleanupInv, PrintableInv, Rendered, Unclaimed,
              Revoked
  <2>7. LedgerNamesEveryObject'
    BY <1>0, <1>4 DEF ClaimInv, OwnerInv, LedgerInv, CleanupInv, LedgerNamesEveryObject, Unclaimed,
              Revoked, KeysOf
  <2> QED
    BY <2>1, <2>2, <2>3, <2>4, <2>5, <2>6, <2>7
<1> QED
  BY <1>0, <1>1, <1>2, <1>3, <1>4 DEF ClaimInv, Remove, Settles

\* The session's deadline.
LEMMA OverdueSafe ==
  ASSUME ProcessingInv, Overdue
  PROVE  WorkInv'
<1>1. ClaimInv'
  BY DEF ClaimInv, Overdue
<1>2. OwnerInv'
  BY DEF ClaimInv, OwnerInv, Overdue
<1>3. LedgerInv'
  BY DEF ClaimInv, OwnerInv, LedgerInv, Overdue
<1>4. AttemptInv'
  BY DEF ClaimInv, OwnerInv, LedgerInv, AttemptInv, Overdue
<1>5. CleanupInv'
  BY DEF ClaimInv, OwnerInv, CleanupInv, Overdue
<1>6. PrintableInv'
  BY PrintableKept DEF Overdue
<1>7. LedgerNamesEveryObject'
  BY DEF ClaimInv, OwnerInv, LedgerInv, CleanupInv, LedgerNamesEveryObject, Overdue, KeysOf
<1> QED
  BY <1>1, <1>2, <1>3, <1>4, <1>5, <1>6, <1>7

\* A session that ends revokes the claim.
LEMMA EndSessionSafe ==
  ASSUME ProcessingInv, EndSession
  PROVE  WorkInv'
<1>0. session' = "ENDED" /\ UNCHANGED <<rows, store, queue, worker, tokens, faults>>
  BY DEF EndSession
<1>1. ASSUME file' = file
     PROVE  WorkInv'
  <2>1. ClaimInv'
    BY <1>0, <1>1 DEF ClaimInv
  <2>2. OwnerInv'
    BY <1>0, <1>1 DEF ClaimInv, OwnerInv
  <2>3. LedgerInv'
    BY <1>0, <1>1 DEF ClaimInv, OwnerInv, LedgerInv
  <2>4. AttemptInv'
    BY <1>0, <1>1 DEF ClaimInv, OwnerInv, LedgerInv, AttemptInv
  <2>5. CleanupInv'
    BY <1>0, <1>1 DEF ClaimInv, OwnerInv, CleanupInv
  <2>6. PrintableInv'
    BY <1>0, <1>1, PrintableKept
  <2>7. LedgerNamesEveryObject'
    BY <1>0, <1>1 DEF ClaimInv, OwnerInv, LedgerInv, CleanupInv, LedgerNamesEveryObject, KeysOf
  <2> QED
    BY <2>1, <2>2, <2>3, <2>4, <2>5, <2>6, <2>7
<1>2. ASSUME file.status = "VALIDATING" /\ file' = Revoked("DELETE_PENDING", TRUE)
     PROVE  WorkInv'
  <2>1. ClaimInv'
    BY <1>0, <1>2 DEF ClaimInv, Unclaimed, Revoked
  <2>2. OwnerInv'
    BY <1>0, <1>2 DEF ClaimInv, OwnerInv, Unclaimed, Revoked
  <2>3. LedgerInv'
    BY <1>0, <1>2 DEF ClaimInv, OwnerInv, LedgerInv, Unclaimed, Revoked
  <2>4. AttemptInv'
    BY <1>0, <1>2 DEF ClaimInv, OwnerInv, LedgerInv, AttemptInv, Unclaimed, Revoked
  <2>5. CleanupInv'
    BY <1>0, <1>2 DEF ClaimInv, OwnerInv, CleanupInv, Unclaimed, Revoked
  <2>6. PrintableInv'
    BY <1>0, <1>2 DEF ClaimInv, OwnerInv, LedgerInv, CleanupInv, PrintableInv, Rendered, Unclaimed,
              Revoked
  <2>7. LedgerNamesEveryObject'
    BY <1>0, <1>2 DEF ClaimInv, OwnerInv, LedgerInv, CleanupInv, LedgerNamesEveryObject, Unclaimed,
              Revoked, KeysOf
  <2> QED
    BY <2>1, <2>2, <2>3, <2>4, <2>5, <2>6, <2>7
<1>3. ASSUME file.status # "VALIDATING" /\ file' = Revoked("DELETE_PENDING", file.settling)
     PROVE  WorkInv'
  <2>1. ClaimInv'
    BY <1>0, <1>3 DEF ClaimInv, Unclaimed, Revoked
  <2>2. OwnerInv'
    BY <1>0, <1>3 DEF ClaimInv, OwnerInv, Unclaimed, Revoked
  <2>3. LedgerInv'
    BY <1>0, <1>3 DEF ClaimInv, OwnerInv, LedgerInv, Unclaimed, Revoked
  <2>4. AttemptInv'
    BY <1>0, <1>3 DEF ClaimInv, OwnerInv, LedgerInv, AttemptInv, Unclaimed, Revoked
  <2>5. CleanupInv'
    BY <1>0, <1>3 DEF ClaimInv, OwnerInv, CleanupInv, Unclaimed, Revoked
  <2>6. PrintableInv'
    BY <1>0, <1>3 DEF ClaimInv, OwnerInv, LedgerInv, CleanupInv, PrintableInv, Rendered, Unclaimed,
              Revoked
  <2>7. LedgerNamesEveryObject'
    BY <1>0, <1>3 DEF ClaimInv, OwnerInv, LedgerInv, CleanupInv, LedgerNamesEveryObject, Unclaimed,
              Revoked, KeysOf
  <2> QED
    BY <2>1, <2>2, <2>3, <2>4, <2>5, <2>6, <2>7
<1>4. ASSUME file.status # "VALIDATING" /\ ~file.settling /\ file' = Revoked("DELETE_PENDING", FALSE)
     PROVE  WorkInv'
  <2>1. ClaimInv'
    BY <1>0, <1>4 DEF ClaimInv, Unclaimed, Revoked
  <2>2. OwnerInv'
    BY <1>0, <1>4 DEF ClaimInv, OwnerInv, Unclaimed, Revoked
  <2>3. LedgerInv'
    BY <1>0, <1>4 DEF ClaimInv, OwnerInv, LedgerInv, Unclaimed, Revoked
  <2>4. AttemptInv'
    BY <1>0, <1>4 DEF ClaimInv, OwnerInv, LedgerInv, AttemptInv, Unclaimed, Revoked
  <2>5. CleanupInv'
    BY <1>0, <1>4 DEF ClaimInv, OwnerInv, CleanupInv, Unclaimed, Revoked
  <2>6. PrintableInv'
    BY <1>0, <1>4 DEF ClaimInv, OwnerInv, LedgerInv, CleanupInv, PrintableInv, Rendered, Unclaimed,
              Revoked
  <2>7. LedgerNamesEveryObject'
    BY <1>0, <1>4 DEF ClaimInv, OwnerInv, LedgerInv, CleanupInv, LedgerNamesEveryObject, Unclaimed,
              Revoked, KeysOf
  <2> QED
    BY <2>1, <2>2, <2>3, <2>4, <2>5, <2>6, <2>7
<1> QED
  BY <1>0, <1>1, <1>2, <1>3, <1>4 DEF ClaimInv, EndSession, Settles

\* The barrier waits for the uploads.
LEMMA BarrierPassesSafe ==
  ASSUME ProcessingInv, BarrierPasses
  PROVE  WorkInv'
<1>1. ClaimInv'
  BY DEF ClaimInv, BarrierPasses
<1>2. OwnerInv'
  BY DEF ClaimInv, OwnerInv, BarrierPasses
<1>3. LedgerInv'
  BY DEF ClaimInv, OwnerInv, LedgerInv, BarrierPasses
<1>4. AttemptInv'
  BY DEF ClaimInv, OwnerInv, LedgerInv, AttemptInv, BarrierPasses
<1>5. CleanupInv'
  BY DEF ClaimInv, OwnerInv, CleanupInv, BarrierPasses
<1>6. PrintableInv'
  BY DEF ClaimInv, OwnerInv, LedgerInv, CleanupInv, PrintableInv, BarrierPasses, Rendered
<1>7. LedgerNamesEveryObject'
  BY DEF ClaimInv, OwnerInv, LedgerInv, CleanupInv, LedgerNamesEveryObject, BarrierPasses,
              KeysOf
<1> QED
  BY <1>1, <1>2, <1>3, <1>4, <1>5, <1>6, <1>7

\* The janitor takes objects, ledger and claim.
LEMMA CleanPendingFileSafe ==
  ASSUME ProcessingInv, CleanPendingFile
  PROVE  WorkInv'
<1>1. ClaimInv'
  BY DEF ClaimInv, CleanPendingFile, Unclaimed, KeysOf
<1>2. OwnerInv'
  BY DEF ClaimInv, OwnerInv, CleanPendingFile, Unclaimed, KeysOf
<1>3. LedgerInv'
  BY DEF ClaimInv, OwnerInv, LedgerInv, CleanPendingFile, Unclaimed, KeysOf
<1>4. AttemptInv'
  BY DEF ClaimInv, OwnerInv, LedgerInv, AttemptInv, CleanPendingFile, Unclaimed, KeysOf
<1>5. CleanupInv'
  BY DEF ClaimInv, OwnerInv, CleanupInv, CleanPendingFile, Unclaimed, KeysOf
<1>6. PrintableInv'
  BY DEF ClaimInv, OwnerInv, LedgerInv, CleanupInv, PrintableInv, CleanPendingFile,
              Rendered, Unclaimed, KeysOf
<1>7. LedgerNamesEveryObject'
  BY DEF ClaimInv, OwnerInv, LedgerInv, CleanupInv, LedgerNamesEveryObject,
              CleanPendingFile, Unclaimed, KeysOf
<1> QED
  BY <1>1, <1>2, <1>3, <1>4, <1>5, <1>6, <1>7

HIDE ProcessingAssumption DEF ProcessingInv, WorkInv, ProcessingTypeOK, Files, Slots

-----------------------------------------------------------------------------
(* What holds in every state *)

\* A document in quarantine, with its upload, starts it.
LEMMA InitProcessingInv == Init => ProcessingInv
<1> SUFFICES ASSUME Init PROVE ProcessingInv
  OBVIOUS
<1>1. ProcessingTypeOK
  BY ProcessingAssumption DEF Init, ProcessingTypeOK, Files, Slots, Keys, Idle, Statuses
<1>2. ClaimInv /\ OwnerInv
  BY DEF Init, ClaimInv, OwnerInv, Idle
<1>3. LedgerInv /\ AttemptInv /\ CleanupInv
  BY DEF Init, LedgerInv, AttemptInv, CleanupInv, Idle
<1>4. PrintableInv /\ LedgerNamesEveryObject
  BY DEF Init, PrintableInv, LedgerNamesEveryObject
<1> QED
  BY <1>1, <1>2, <1>3, <1>4 DEF ProcessingInv, WorkInv

\* A stuttering step changes none of it.
LEMMA StutterSafe ==
  ASSUME ProcessingInv, UNCHANGED vars
  PROVE  WorkInv'
<1>1. ClaimInv' /\ OwnerInv'
  BY DEF ProcessingInv, WorkInv, vars, ClaimInv, OwnerInv
<1>2. LedgerInv' /\ AttemptInv' /\ CleanupInv'
  BY DEF ProcessingInv, WorkInv, vars, LedgerInv, AttemptInv, CleanupInv
<1>3. PrintableInv'
  BY PrintableKept DEF ProcessingInv, WorkInv, vars
<1>4. LedgerNamesEveryObject'
  BY DEF ProcessingInv, WorkInv, vars, LedgerNamesEveryObject, KeysOf
<1> QED
  BY <1>1, <1>2, <1>3, <1>4 DEF WorkInv

\* No step of any worker, janitor or customer disturbs it.
LEMMA StepProcessingInv ==
  ASSUME NobodyStalls, ProcessingInv, [Next]_vars
  PROVE  ProcessingInv'
<1>0. ProcessingTypeOK'
  BY TypesKept DEF ProcessingInv, WorkInv
<1>1. ASSUME UNCHANGED vars
      PROVE  WorkInv'
  BY <1>1, StutterSafe
<1>2. ASSUME NEW w \in Workers, WorkerStep(w)
      PROVE  WorkInv'
  BY <1>2, ProcessSafe, PlanArtifactsSafe, NextUploadSafe, PutSafe, CheckStoredSafe,
     MarkAvailableSafe, CompensateInvalidatedArtifactSafe, CompleteSafe, HandleFailureSafe,
     ListDerivativesSafe, DeleteListedSafe, DeletionAbortedSafe, FailCleanupSafe,
     RetireRowsSafe, RequeueSafe DEF WorkerStep
<1>3. ASSUME NEW w \in Workers, Take(w) \/ Heartbeat(w) \/ Crash(w)
      PROVE  WorkInv'
  BY <1>3, RecoverSafe, ClaimSafe, HeartbeatSafe, CrashSafe DEF Take
<1>4. ASSUME \/ Reserve \/ ReserveAgain \/ LeaseRunsOut
             \/ Remove \/ Overdue \/ EndSession \/ BarrierPasses \/ CleanPendingFile
      PROVE  WorkInv'
  BY <1>4, ReserveSafe, ReserveAgainSafe, LeaseRunsOutSafe, RemoveSafe, OverdueSafe,
     EndSessionSafe, BarrierPassesSafe, CleanPendingFileSafe
<1> QED
  BY <1>0, <1>1, <1>2, <1>3, <1>4 DEF Next, ProcessingInv

\* It holds in every state.
LEMMA ProcessingInvariance ==
  ASSUME NobodyStalls
  PROVE  ProcessingSpec => []ProcessingInv
BY InitProcessingInv, StepProcessingInv, PTL DEF ProcessingSpec

\* However many workers crash, are late or clean up after each other: a document
\* that can still be printed has its upload, and a ready one a complete attempt.
THEOREM BytesAreKept ==
  ASSUME NobodyStalls
  PROVE  ProcessingSpec => []ReadyHasBytes
<1>1. ProcessingInv => ReadyHasBytes
  BY DEF ProcessingInv, WorkInv, PrintableInv, Rendered, ReadyHasBytes
<1> QED
  BY <1>1, ProcessingInvariance, PTL

\* Every object that exists can be found by the janitor.
THEOREM NoObjectIsLost ==
  ASSUME NobodyStalls
  PROVE  ProcessingSpec => []LedgerNamesEveryObject
<1>1. ProcessingInv => LedgerNamesEveryObject
  BY DEF ProcessingInv, WorkInv
<1> QED
  BY <1>1, ProcessingInvariance, PTL
=============================================================================
