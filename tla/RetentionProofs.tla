--------------------------- MODULE RetentionProofs ---------------------------
(***************************************************************************)
(* What holds of Retention for any number of sessions, runners, attempts   *)
(* and faults: no object is forgotten, and the grace of a printed session  *)
(* is honored.                                                             *)
(*                                                                         *)
(* Everything rests on one fact: whoever is about to take names away from  *)
(* a session - a deletion that finishes, a run past its barrier - got      *)
(* there when no writer could still send a byte, and none can start again. *)
(* The barrier in cleanup_due_at is what makes it true.                    *)
(***************************************************************************)
EXTENDS Retention, TLAPS

-----------------------------------------------------------------------------
(* The inductive invariant *)

\* Where a writer may still send a byte, now or after its next step.
Sending == {"arming", "putting", "rendering"}

Quiet(s) == Ended(s) /\ writer[s] \notin Sending
Emptied(s) == Quiet(s) /\ store[s] \subseteq {"stray"}
PastGrace(s) == Ended(s) /\ ~session[s].grace
Dying(s) == file[s].status \in Deletable \cup {"GONE"}

\* A byte on its way is barred and has a name waiting for it.
WriterOK(s) ==
  /\ writer[s] \in {"arming", "putting"} =>
       file[s].status = "UPLOADING" /\ "WRITER" \in file[s].due
  /\ writer[s] = "putting" => file[s].key
  /\ writer[s] = "rendering" =>
       /\ "artifact" \in ledger[s]
       /\ \/ file[s].status = "VALIDATING"
          \/ file[s].status \in Deletable /\ "WRITER" \in file[s].due
  /\ writer[s] = "rejecting" => "upload" \notin store[s]

\* A session that ended has no document at work, a deletion in its grace waits for
\* the end of it.
SessionOK(s) ==
  /\ Ended(s) => file[s].status \notin {"QUARANTINED", "VALIDATING", "READY"}
  /\ InGrace(s) /\ file[s].status \in Deletable => "GRACE" \in file[s].due
  /\ session[s].mirror # "NOT_DUE" => Ended(s)
  /\ session[s].deleted => Emptied(s) /\ PastGrace(s)

\* The ledger names artifacts, and what is stored has a name.
NamesOK(s) ==
  /\ ledger[s] \subseteq {"artifact"}
  /\ store[s] \subseteq Named(s) \cup {"stray"}

\* A run exists only after the grace, and one past its deletion has nothing left.
RunOK(s) ==
  /\ run[s].status # "NONE" => PastGrace(s)
  /\ run[s].holder # Nobody => run[s].status = "IN_PROGRESS"
  /\ run[s].status \in {"PENDING", "IN_PROGRESS"} => run[s].attempts < MaxAttempts
  /\ run[s].checkpoint >= ARTIFACTS_DELETED => Emptied(s)

\* A deletion under way names everything that is left, and began before the end of
\* the session or after its grace.
CleanerOK(c) == cleaner[c].pc # "idle" =>
  \E s \in Sessions :
    /\ cleaner[c].at = s
    /\ writer[s] \notin Sending /\ Dying(s)
    /\ store[s] \subseteq cleaner[c].keys \cup {"stray"}
    /\ cleaner[c].pc = "deleting" => cleaner[c].early \/ PastGrace(s)
    /\ cleaner[c].pc = "finishing" => cleaner[c].keys = {}

\* So does a run that is past its barrier.
RunnerOK(r) == runner[r].pc # "idle" =>
  \E s \in Sessions :
    /\ runner[r].at = s
    /\ PastGrace(s) /\ runner[r].attempts < MaxAttempts
    /\ runner[r].checkpoint >= ARTIFACTS_DELETED => Emptied(s)
    /\ runner[r].pc \in {"deleting", "retiring"} =>
         /\ runner[r].checkpoint = ACCESS_REVOKED /\ Quiet(s)
         /\ store[s] \subseteq runner[r].keys \cup {"stray"}
    /\ runner[r].pc = "retiring" => runner[r].keys = {}

SessionsInv == \A s \in Sessions : WriterOK(s) /\ SessionOK(s) /\ NamesOK(s)
RunsInv == \A s \in Sessions : RunOK(s)
CleanersInv == \A c \in Cleaners : CleanerOK(c)
RunnersInv == \A r \in Runners : RunnerOK(r)

RetentionInv == RetentionTypeOK /\ SessionsInv /\ RunsInv /\ CleanersInv /\ RunnersInv

\* What a step may do to a session, as far as the others rely on it.
PeaceAt(s) ==
  /\ Ended(s) => Ended(s)' /\ (session'[s].grace => session[s].grace)
  /\ writer'[s] \in Sending =>
       \/ writer[s] \in Sending
       \/ ~Ended(s) /\ file[s].status \in {"NONE", "QUARANTINED"}
  /\ writer[s] \in {"putting", "rendering"} \/ store'[s] \subseteq store[s] \cup {"stray"}
  /\ Dying(s) => Dying(s)'

Peaceful == \A s \in Sessions : PeaceAt(s)

\* The rows of every other session stay as they are.
Others(s) ==
  \A t \in Sessions : t # s =>
    /\ session'[t] = session[t] /\ file'[t] = file[t] /\ ledger'[t] = ledger[t]
    /\ store'[t] = store[t] /\ writer'[t] = writer[t]

USE DEF Nobody, Cleaners, Ended, InGrace, Working, Deletable, Uncleaned, Sending, Quiet, Emptied,
        PastGrace, Dying, Others, SCHEDULED, ACCESS_REVOKED, ARTIFACTS_DELETED,
        STORAGE_RECONCILED, METADATA_SCRUBBED, COMPLETED

-----------------------------------------------------------------------------
(* What the others rely on *)

\* The rows of one session.
LEMMA RowsOf ==
  ASSUME RetentionInv, NEW s \in Sessions
  PROVE  /\ session[s] \in SessionRows /\ file[s] \in FileRows /\ run[s] \in RunRows
         /\ writer[s] \in WriterSteps /\ ledger[s] \subseteq Objects /\ store[s] \subseteq Objects
         /\ WriterOK(s) /\ SessionOK(s) /\ NamesOK(s) /\ RunOK(s)
BY DEF RetentionInv, RetentionTypeOK, SessionsInv, RunsInv

\* A worker without a run.
LEMMA WaitingRow ==
  Waiting \in RunnerSlots /\ Waiting.pc = "idle"
BY RetentionAssumption DEF Waiting, RunnerSlots

\* A session whose run has not begun.
LEMMA NoRunRow ==
  /\ NoRun \in RunRows /\ NoRun.status = "NONE" /\ NoRun.attempts = 0
  /\ NoRun.holder = Nobody /\ NoRun.checkpoint = SCHEDULED
BY RetentionAssumption DEF NoRun, RunRows

\* A session that has fallen quiet stays quiet, an emptied one empty, and what a
\* deletion knows of its session stays true.
LEMMA Kept ==
  ASSUME Peaceful
  PROVE  \A s \in Sessions :
           /\ PastGrace(s) => PastGrace(s)'
           /\ Quiet(s) => Quiet(s)' /\ store'[s] \subseteq store[s] \cup {"stray"}
           /\ Emptied(s) => Emptied(s)'
           /\ writer[s] \notin Sending /\ Dying(s) =>
                /\ writer'[s] \notin Sending /\ Dying(s)'
                /\ store'[s] \subseteq store[s] \cup {"stray"}
BY DEF Peaceful, PeaceAt

\* A step that leaves a run's row alone leaves what is true of it, ...
LEMMA RunUntouched ==
  ASSUME RetentionInv, Peaceful, NEW s \in Sessions, run'[s] = run[s]
  PROVE  RunOK(s)'
BY Kept DEF RetentionInv, RunsInv, RunOK

\* ... and so it is for the deletions ...
LEMMA CleanerUntouched ==
  ASSUME RetentionInv, Peaceful, NEW c \in Cleaners, cleaner'[c] = cleaner[c]
  PROVE  CleanerOK(c)'
<1>1. SUFFICES ASSUME cleaner[c].pc # "idle"
               PROVE  CleanerOK(c)'
  BY DEF CleanerOK
<1>2. PICK s \in Sessions :
        /\ cleaner[c].at = s
        /\ writer[s] \notin Sending /\ Dying(s)
        /\ store[s] \subseteq cleaner[c].keys \cup {"stray"}
        /\ cleaner[c].pc = "deleting" => cleaner[c].early \/ PastGrace(s)
        /\ cleaner[c].pc = "finishing" => cleaner[c].keys = {}
  BY <1>1 DEF RetentionInv, CleanersInv, CleanerOK
<1>3. /\ PastGrace(s) => PastGrace(s)'
      /\ writer'[s] \notin Sending /\ Dying(s)'
      /\ store'[s] \subseteq cleaner[c].keys \cup {"stray"}
  BY <1>2, Kept
<1> HIDE DEF PastGrace, Dying, Sending
<1> QED
  BY <1>2, <1>3 DEF CleanerOK

\* ... and the runs at work.
LEMMA RunnerUntouched ==
  ASSUME RetentionInv, Peaceful, NEW r \in Runners, runner'[r] = runner[r]
  PROVE  RunnerOK(r)'
<1>1. SUFFICES ASSUME runner[r].pc # "idle"
               PROVE  RunnerOK(r)'
  BY DEF RunnerOK
<1>2. PICK s \in Sessions :
        /\ runner[r].at = s
        /\ PastGrace(s) /\ runner[r].attempts < MaxAttempts
        /\ runner[r].checkpoint >= ARTIFACTS_DELETED => Emptied(s)
        /\ runner[r].pc \in {"deleting", "retiring"} =>
             /\ runner[r].checkpoint = ACCESS_REVOKED /\ Quiet(s)
             /\ store[s] \subseteq runner[r].keys \cup {"stray"}
        /\ runner[r].pc = "retiring" => runner[r].keys = {}
  BY <1>1 DEF RetentionInv, RunnersInv, RunnerOK
<1>3. /\ PastGrace(s)' /\ (Emptied(s) => Emptied(s)')
      /\ Quiet(s) => Quiet(s)' /\ store'[s] \subseteq store[s] \cup {"stray"}
  BY <1>2, Kept
<1> HIDE DEF PastGrace, Quiet, Emptied
<1> QED
  BY <1>2, <1>3 DEF RunnerOK

\* The rows of one session change and leave it in order: so are all the others.
LEMMA OneSession ==
  ASSUME RetentionInv, NEW s \in Sessions,
         Others(s),
         PeaceAt(s), WriterOK(s)', SessionOK(s)', NamesOK(s)'
  PROVE  Peaceful /\ SessionsInv'
<1>1. Peaceful
  BY DEF Peaceful, PeaceAt
<1>2. ASSUME NEW t \in Sessions, t # s
      PROVE  WriterOK(t)' /\ SessionOK(t)' /\ NamesOK(t)'
  BY <1>2, RowsOf DEF WriterOK, SessionOK, NamesOK, Named
<1> QED
  BY <1>1, <1>2 DEF SessionsInv

\* What SetFile writes: the row it was given, with the grace of a deletion added.
LEMMA SetFileWrites ==
  ASSUME NEW s \in Sessions, NEW f \in FileRows, SetFile(s, f)
  PROVE  \E g \in FileRows :
           /\ file' = [file EXCEPT ![s] = g]
           /\ g.status = f.status /\ g.key = f.key /\ f.due \subseteq g.due
           /\ InGrace(s) /\ g.status \in Deletable => "GRACE" \in g.due
<1> DEFINE grace == IF InGrace(s) THEN {"GRACE"} ELSE {}
           d == f.due \cup grace
           g == IF f.status \in Deletable THEN [f EXCEPT !.due = d] ELSE f
<1>1. d \in SUBSET {"GRACE", "WRITER"} /\ f.due \subseteq d
  BY DEF FileRows
<1>2. InGrace(s) => "GRACE" \in d
  OBVIOUS
<1>3. g = Clamped(grace, f)
  BY DEF Clamped
<1>5. file' = [file EXCEPT ![s] = g]
  BY <1>3 DEF SetFile
<1>4. g \in FileRows /\ g.status = f.status /\ g.key = f.key /\ f.due \subseteq g.due
      /\ (g.status \in Deletable => g.due = d)
  <2> HIDE DEF d
  <2> QED
    BY <1>1 DEF FileRows
<1> HIDE DEF g, d
<1> QED
  BY <1>2, <1>4, <1>5


-----------------------------------------------------------------------------
(* The documents: uploads, processing, deletions that are begun elsewhere *)

\* A step that keeps the peace and leaves in order whatever it writes.
LEMMA StepSafe ==
  ASSUME RetentionInv, RetentionTypeOK', Peaceful, SessionsInv',
         \A s \in Sessions : run'[s] = run[s] \/ RunOK(s)',
         \A c \in Cleaners : cleaner'[c] = cleaner[c] \/ CleanerOK(c)',
         \A r \in Runners : runner'[r] = runner[r] \/ RunnerOK(r)'
  PROVE  RetentionInv'
<1>1. RunsInv'
  BY RunUntouched DEF RunsInv
<1>2. CleanersInv'
  BY CleanerUntouched DEF CleanersInv
<1>3. RunnersInv'
  BY RunnerUntouched DEF RunnersInv
<1> QED
  BY <1>1, <1>2, <1>3 DEF RetentionInv

\* An upload is reserved with its barrier.
LEMMA ReserveUploadSafe ==
  ASSUME RetentionInv, NEW s \in Sessions, ReserveUpload(s)
  PROVE  RetentionInv'
<1>0. /\ RetentionTypeOK /\ session[s] \in SessionRows /\ file[s] \in FileRows
      /\ ledger[s] \subseteq Objects /\ store[s] \subseteq Objects /\ writer[s] \in WriterSteps
      /\ WriterOK(s) /\ SessionOK(s) /\ NamesOK(s)
  BY RowsOf DEF RetentionInv
<1> DEFINE f == [file[s] EXCEPT !.status = "UPLOADING", !.key = TRUE, !.due = {"WRITER"}]
<1>1. f \in FileRows /\ f.status = "UPLOADING" /\ f.key = TRUE /\ f.due = {"WRITER"}
  BY <1>0 DEF FileRows
<1>2. file' = [file EXCEPT ![s] = f]
  BY <1>0 DEF ReserveUpload, Write
<1> HIDE DEF f
<1>3. /\ writer' = [writer EXCEPT ![s] = "arming"]
      /\ UNCHANGED <<session, ledger, store, run, cleaner, runner, faults>>
  BY <1>0 DEF ReserveUpload, Write
<1>4. RetentionTypeOK'
  BY <1>0, <1>1, <1>2, <1>3 DEF RetentionTypeOK, WriterSteps, Objects
<1>5. /\ session'[s] = session[s] /\ file'[s] = f /\ ledger'[s] = ledger[s]
      /\ store'[s] = store[s] /\ writer'[s] = "arming"
      /\ Others(s)
  BY <1>0, <1>1, <1>2, <1>3 DEF RetentionTypeOK
<1>6. PeaceAt(s)
  BY <1>0, <1>1, <1>2, <1>5 DEF PeaceAt, SessionOK, WriterOK, ReserveUpload
<1>7. WriterOK(s)'
  BY <1>0, <1>1, <1>2, <1>5 DEF SessionOK, WriterOK, ReserveUpload
<1>8. SessionOK(s)'
  BY <1>0, <1>1, <1>2, <1>5 DEF SessionOK, WriterOK, ReserveUpload
<1>9. NamesOK(s)'
  BY <1>0, <1>1, <1>2, <1>5 DEF NamesOK, Named, SessionOK, WriterOK, ReserveUpload
<1>10. Peaceful /\ SessionsInv'
  BY <1>5, <1>6, <1>7, <1>8, <1>9, OneSession
<1> QED
  BY <1>3, <1>4, <1>10, StepSafe

\* The barrier is set anew, or the upload is refused.
LEMMA ArmUploadSafe ==
  ASSUME RetentionInv, NEW s \in Sessions, ArmUpload(s)
  PROVE  RetentionInv'
<1>0. /\ RetentionTypeOK /\ session[s] \in SessionRows /\ file[s] \in FileRows
      /\ ledger[s] \subseteq Objects /\ store[s] \subseteq Objects /\ writer[s] \in WriterSteps
      /\ WriterOK(s) /\ SessionOK(s) /\ NamesOK(s)
  BY RowsOf DEF RetentionInv
<1>1. CASE file[s].status = "UPLOADING" /\ file[s].key
  <2> DEFINE f == [file[s] EXCEPT !.due = {"WRITER"}]
  <2>1. f \in FileRows /\ f.status = file[s].status /\ f.key = file[s].key /\ f.due = {"WRITER"}
    BY <1>0 DEF FileRows
  <2>2. SetFile(s, f)
    BY <1>1 DEF ArmUpload, Write
  <2> HIDE DEF f
  <2>3. PICK g \in FileRows :
          /\ file' = [file EXCEPT ![s] = g]
          /\ g.status = f.status /\ g.key = f.key /\ f.due \subseteq g.due
          /\ InGrace(s) /\ g.status \in Deletable => "GRACE" \in g.due
    BY <2>1, <2>2, SetFileWrites
  <2>4. /\ writer' = [writer EXCEPT ![s] = "putting"]
        /\ UNCHANGED <<session, ledger, store, run, cleaner, runner, faults>>
    BY <1>0, <1>1 DEF ArmUpload, Write
  <2>5. RetentionTypeOK'
    BY <1>0, <2>1, <2>3, <2>4 DEF RetentionTypeOK, WriterSteps, Objects
  <2>6. /\ session'[s] = session[s] /\ file'[s] = g /\ ledger'[s] = ledger[s]
        /\ store'[s] = store[s] /\ writer'[s] = "putting"
        /\ Others(s)
    BY <1>0, <2>1, <2>3, <2>4 DEF RetentionTypeOK
  <2>7. PeaceAt(s)
    BY <1>0, <1>1, <2>1, <2>3, <2>6 DEF PeaceAt, SessionOK, WriterOK, ArmUpload
  <2>8. WriterOK(s)'
    BY <1>0, <1>1, <2>1, <2>3, <2>6 DEF SessionOK, WriterOK, ArmUpload
  <2>9. SessionOK(s)'
    BY <1>0, <1>1, <2>1, <2>3, <2>6 DEF SessionOK, WriterOK, ArmUpload
  <2>10. NamesOK(s)'
    BY <1>0, <1>1, <2>1, <2>3, <2>6 DEF NamesOK, Named, SessionOK, WriterOK, ArmUpload
  <2>11. Peaceful /\ SessionsInv'
    BY <2>6, <2>7, <2>8, <2>9, <2>10, OneSession
  <2> QED
    BY <2>4, <2>5, <2>11, StepSafe
<1>2. CASE ~(file[s].status = "UPLOADING" /\ file[s].key)
  <2>1. /\ writer' = [writer EXCEPT ![s] = "refused"]
        /\ UNCHANGED <<session, file, ledger, store, run, cleaner, runner, faults>>
    BY <1>0, <1>2 DEF ArmUpload, Write
  <2>2. RetentionTypeOK'
    BY <1>0, <2>1 DEF RetentionTypeOK, WriterSteps, Objects
  <2>3. /\ session'[s] = session[s] /\ file'[s] = file[s] /\ ledger'[s] = ledger[s]
        /\ store'[s] = store[s] /\ writer'[s] = "refused"
        /\ Others(s)
    BY <1>0, <2>1 DEF RetentionTypeOK
  <2>4. PeaceAt(s)
    BY <1>0, <1>2, <2>3 DEF PeaceAt, SessionOK, WriterOK, ArmUpload
  <2>5. WriterOK(s)'
    BY <1>0, <1>2, <2>3 DEF SessionOK, WriterOK, ArmUpload
  <2>6. SessionOK(s)'
    BY <1>0, <1>2, <2>3 DEF SessionOK, WriterOK, ArmUpload
  <2>7. NamesOK(s)'
    BY <1>0, <1>2, <2>3 DEF NamesOK, Named, SessionOK, WriterOK, ArmUpload
  <2>8. Peaceful /\ SessionsInv'
    BY <2>3, <2>4, <2>5, <2>6, <2>7, OneSession
  <2> QED
    BY <2>1, <2>2, <2>8, StepSafe
<1> QED
  BY <1>0, <1>1, <1>2 DEF ArmUpload, Write

\* The bytes arrive under a name that waits for them.
LEMMA PutUploadSafe ==
  ASSUME RetentionInv, NEW s \in Sessions, PutUpload(s)
  PROVE  RetentionInv'
<1>0. /\ RetentionTypeOK /\ session[s] \in SessionRows /\ file[s] \in FileRows
      /\ ledger[s] \subseteq Objects /\ store[s] \subseteq Objects /\ writer[s] \in WriterSteps
      /\ WriterOK(s) /\ SessionOK(s) /\ NamesOK(s)
  BY RowsOf DEF RetentionInv
<1>1. CASE writer' = [writer EXCEPT ![s] = "finalizing"]
  <2>1. /\ store' \in [Sessions -> SUBSET Objects] /\ store'[s] \subseteq store[s] \cup {"upload"}
        /\ \A t \in Sessions : t # s => store'[t] = store[t]
    BY <1>0, <1>1 DEF PutUpload, Write, RetentionTypeOK, Objects
  <2>2. /\ writer' = [writer EXCEPT ![s] = "finalizing"]
        /\ UNCHANGED <<session, file, ledger, run, cleaner, runner, faults>>
    BY <1>0, <1>1 DEF PutUpload, Write
  <2>3. RetentionTypeOK'
    BY <1>0, <2>1, <2>2 DEF RetentionTypeOK, WriterSteps, Objects
  <2>4. /\ session'[s] = session[s] /\ file'[s] = file[s] /\ ledger'[s] = ledger[s]
        /\ writer'[s] = "finalizing"
        /\ Others(s)
    BY <1>0, <2>1, <2>2 DEF RetentionTypeOK
  <2>5. PeaceAt(s)
    BY <1>0, <1>1, <2>1, <2>4 DEF PeaceAt, SessionOK, WriterOK, PutUpload
  <2>6. WriterOK(s)'
    BY <1>0, <1>1, <2>1, <2>4 DEF SessionOK, WriterOK, PutUpload
  <2>7. SessionOK(s)'
    BY <1>0, <1>1, <2>1, <2>4 DEF SessionOK, WriterOK, PutUpload
  <2>8. NamesOK(s)'
    BY <1>0, <1>1, <2>1, <2>4 DEF NamesOK, Named, SessionOK, WriterOK, PutUpload
  <2>9. Peaceful /\ SessionsInv'
    BY <2>4, <2>5, <2>6, <2>7, <2>8, OneSession
  <2> QED
    BY <2>2, <2>3, <2>9, StepSafe
<1>2. CASE writer' = [writer EXCEPT ![s] = "refused"]
  <2>1. /\ store' \in [Sessions -> SUBSET Objects] /\ store'[s] \subseteq store[s] \cup {"upload"}
        /\ \A t \in Sessions : t # s => store'[t] = store[t]
    BY <1>0, <1>2 DEF PutUpload, Write, RetentionTypeOK, Objects
  <2>2. /\ writer' = [writer EXCEPT ![s] = "refused"]
        /\ UNCHANGED <<session, file, ledger, run, cleaner, runner, faults>>
    BY <1>0, <1>2 DEF PutUpload, Write
  <2>3. RetentionTypeOK'
    BY <1>0, <2>1, <2>2 DEF RetentionTypeOK, WriterSteps, Objects
  <2>4. /\ session'[s] = session[s] /\ file'[s] = file[s] /\ ledger'[s] = ledger[s]
        /\ writer'[s] = "refused"
        /\ Others(s)
    BY <1>0, <2>1, <2>2 DEF RetentionTypeOK
  <2>5. PeaceAt(s)
    BY <1>0, <1>2, <2>1, <2>4 DEF PeaceAt, SessionOK, WriterOK, PutUpload
  <2>6. WriterOK(s)'
    BY <1>0, <1>2, <2>1, <2>4 DEF SessionOK, WriterOK, PutUpload
  <2>7. SessionOK(s)'
    BY <1>0, <1>2, <2>1, <2>4 DEF SessionOK, WriterOK, PutUpload
  <2>8. NamesOK(s)'
    BY <1>0, <1>2, <2>1, <2>4 DEF NamesOK, Named, SessionOK, WriterOK, PutUpload
  <2>9. Peaceful /\ SessionsInv'
    BY <2>4, <2>5, <2>6, <2>7, <2>8, OneSession
  <2> QED
    BY <2>2, <2>3, <2>9, StepSafe
<1> QED
  BY <1>0, <1>1, <1>2 DEF PutUpload, Write

\* An upload is taken into quarantine, or refused.
LEMMA FinalizeUploadSafe ==
  ASSUME RetentionInv, NEW s \in Sessions, FinalizeUpload(s)
  PROVE  RetentionInv'
<1>0. /\ RetentionTypeOK /\ session[s] \in SessionRows /\ file[s] \in FileRows
      /\ ledger[s] \subseteq Objects /\ store[s] \subseteq Objects /\ writer[s] \in WriterSteps
      /\ WriterOK(s) /\ SessionOK(s) /\ NamesOK(s)
  BY RowsOf DEF RetentionInv
<1>1. CASE session[s].state = "OPEN" /\ file[s].status = "UPLOADING" /\ file[s].key
  <2> DEFINE f == [file[s] EXCEPT !.status = "QUARANTINED", !.due = {}]
  <2>1. f \in FileRows /\ f.status = "QUARANTINED" /\ f.key = file[s].key /\ f.due = {}
    BY <1>0 DEF FileRows
  <2>2. SetFile(s, f)
    BY <1>1 DEF FinalizeUpload, Write
  <2> HIDE DEF f
  <2>3. PICK g \in FileRows :
          /\ file' = [file EXCEPT ![s] = g]
          /\ g.status = f.status /\ g.key = f.key /\ f.due \subseteq g.due
          /\ InGrace(s) /\ g.status \in Deletable => "GRACE" \in g.due
    BY <2>1, <2>2, SetFileWrites
  <2>4. /\ writer' = [writer EXCEPT ![s] = "idle"]
        /\ UNCHANGED <<session, ledger, store, run, cleaner, runner, faults>>
    BY <1>0, <1>1 DEF FinalizeUpload, Write
  <2>5. RetentionTypeOK'
    BY <1>0, <2>1, <2>3, <2>4 DEF RetentionTypeOK, WriterSteps, Objects
  <2>6. /\ session'[s] = session[s] /\ file'[s] = g /\ ledger'[s] = ledger[s]
        /\ store'[s] = store[s] /\ writer'[s] = "idle"
        /\ Others(s)
    BY <1>0, <2>1, <2>3, <2>4 DEF RetentionTypeOK
  <2>7. PeaceAt(s)
    BY <1>0, <1>1, <2>1, <2>3, <2>6 DEF PeaceAt, SessionOK, WriterOK, FinalizeUpload
  <2>8. WriterOK(s)'
    BY <1>0, <1>1, <2>1, <2>3, <2>6 DEF SessionOK, WriterOK, FinalizeUpload
  <2>9. SessionOK(s)'
    BY <1>0, <1>1, <2>1, <2>3, <2>6 DEF SessionOK, WriterOK, FinalizeUpload
  <2>10. NamesOK(s)'
    BY <1>0, <1>1, <2>1, <2>3, <2>6 DEF NamesOK, Named, SessionOK, WriterOK, FinalizeUpload
  <2>11. Peaceful /\ SessionsInv'
    BY <2>6, <2>7, <2>8, <2>9, <2>10, OneSession
  <2> QED
    BY <2>4, <2>5, <2>11, StepSafe
<1>2. CASE ~(session[s].state = "OPEN" /\ file[s].status = "UPLOADING" /\ file[s].key)
  <2>1. /\ writer' = [writer EXCEPT ![s] = "refused"]
        /\ UNCHANGED <<session, file, ledger, store, run, cleaner, runner, faults>>
    BY <1>0, <1>2 DEF FinalizeUpload, Write
  <2>2. RetentionTypeOK'
    BY <1>0, <2>1 DEF RetentionTypeOK, WriterSteps, Objects
  <2>3. /\ session'[s] = session[s] /\ file'[s] = file[s] /\ ledger'[s] = ledger[s]
        /\ store'[s] = store[s] /\ writer'[s] = "refused"
        /\ Others(s)
    BY <1>0, <2>1 DEF RetentionTypeOK
  <2>4. PeaceAt(s)
    BY <1>0, <1>2, <2>3 DEF PeaceAt, SessionOK, WriterOK, FinalizeUpload
  <2>5. WriterOK(s)'
    BY <1>0, <1>2, <2>3 DEF SessionOK, WriterOK, FinalizeUpload
  <2>6. SessionOK(s)'
    BY <1>0, <1>2, <2>3 DEF SessionOK, WriterOK, FinalizeUpload
  <2>7. NamesOK(s)'
    BY <1>0, <1>2, <2>3 DEF NamesOK, Named, SessionOK, WriterOK, FinalizeUpload
  <2>8. Peaceful /\ SessionsInv'
    BY <2>3, <2>4, <2>5, <2>6, <2>7, OneSession
  <2> QED
    BY <2>1, <2>2, <2>8, StepSafe
<1> QED
  BY <1>0, <1>1, <1>2 DEF FinalizeUpload, Write

\* A refused upload is to be deleted.
LEMMA RejectUploadSafe ==
  ASSUME RetentionInv, NEW s \in Sessions, RejectUpload(s)
  PROVE  RetentionInv'
<1>0. /\ RetentionTypeOK /\ session[s] \in SessionRows /\ file[s] \in FileRows
      /\ ledger[s] \subseteq Objects /\ store[s] \subseteq Objects /\ writer[s] \in WriterSteps
      /\ WriterOK(s) /\ SessionOK(s) /\ NamesOK(s)
  BY RowsOf DEF RetentionInv
<1>1. CASE file[s].status = "UPLOADING"
  <2> DEFINE f == [file[s] EXCEPT !.status = "DELETE_PENDING", !.due = {}]
  <2>1. f \in FileRows /\ f.status = "DELETE_PENDING" /\ f.key = file[s].key /\ f.due = {}
    BY <1>0 DEF FileRows
  <2>2. SetFile(s, f)
    BY <1>1 DEF RejectUpload, Write
  <2> HIDE DEF f
  <2>3. PICK g \in FileRows :
          /\ file' = [file EXCEPT ![s] = g]
          /\ g.status = f.status /\ g.key = f.key /\ f.due \subseteq g.due
          /\ InGrace(s) /\ g.status \in Deletable => "GRACE" \in g.due
    BY <2>1, <2>2, SetFileWrites
  <2>4. /\ writer' = [writer EXCEPT ![s] = "discarding"]
        /\ UNCHANGED <<session, ledger, store, run, cleaner, runner, faults>>
    BY <1>0, <1>1 DEF RejectUpload, Write
  <2>5. RetentionTypeOK'
    BY <1>0, <2>1, <2>3, <2>4 DEF RetentionTypeOK, WriterSteps, Objects
  <2>6. /\ session'[s] = session[s] /\ file'[s] = g /\ ledger'[s] = ledger[s]
        /\ store'[s] = store[s] /\ writer'[s] = "discarding"
        /\ Others(s)
    BY <1>0, <2>1, <2>3, <2>4 DEF RetentionTypeOK
  <2>7. PeaceAt(s)
    BY <1>0, <1>1, <2>1, <2>3, <2>6 DEF PeaceAt, SessionOK, WriterOK, RejectUpload
  <2>8. WriterOK(s)'
    BY <1>0, <1>1, <2>1, <2>3, <2>6 DEF SessionOK, WriterOK, RejectUpload
  <2>9. SessionOK(s)'
    BY <1>0, <1>1, <2>1, <2>3, <2>6 DEF SessionOK, WriterOK, RejectUpload
  <2>10. NamesOK(s)'
    BY <1>0, <1>1, <2>1, <2>3, <2>6 DEF NamesOK, Named, SessionOK, WriterOK, RejectUpload
  <2>11. Peaceful /\ SessionsInv'
    BY <2>6, <2>7, <2>8, <2>9, <2>10, OneSession
  <2> QED
    BY <2>4, <2>5, <2>11, StepSafe
<1>2. CASE file[s].status # "UPLOADING"
  <2>1. /\ writer' = [writer EXCEPT ![s] = "idle"]
        /\ UNCHANGED <<session, file, ledger, store, run, cleaner, runner, faults>>
    BY <1>0, <1>2 DEF RejectUpload, Write
  <2>2. RetentionTypeOK'
    BY <1>0, <2>1 DEF RetentionTypeOK, WriterSteps, Objects
  <2>3. /\ session'[s] = session[s] /\ file'[s] = file[s] /\ ledger'[s] = ledger[s]
        /\ store'[s] = store[s] /\ writer'[s] = "idle"
        /\ Others(s)
    BY <1>0, <2>1 DEF RetentionTypeOK
  <2>4. PeaceAt(s)
    BY <1>0, <1>2, <2>3 DEF PeaceAt, SessionOK, WriterOK, RejectUpload
  <2>5. WriterOK(s)'
    BY <1>0, <1>2, <2>3 DEF SessionOK, WriterOK, RejectUpload
  <2>6. SessionOK(s)'
    BY <1>0, <1>2, <2>3 DEF SessionOK, WriterOK, RejectUpload
  <2>7. NamesOK(s)'
    BY <1>0, <1>2, <2>3 DEF NamesOK, Named, SessionOK, WriterOK, RejectUpload
  <2>8. Peaceful /\ SessionsInv'
    BY <2>3, <2>4, <2>5, <2>6, <2>7, OneSession
  <2> QED
    BY <2>1, <2>2, <2>8, StepSafe
<1> QED
  BY <1>0, <1>1, <1>2 DEF RejectUpload, Write

\* A refused upload is rejected only when its bytes are gone.
LEMMA DiscardUploadSafe ==
  ASSUME RetentionInv, NEW s \in Sessions, DiscardUpload(s)
  PROVE  RetentionInv'
<1>0. /\ RetentionTypeOK /\ session[s] \in SessionRows /\ file[s] \in FileRows
      /\ ledger[s] \subseteq Objects /\ store[s] \subseteq Objects /\ writer[s] \in WriterSteps
      /\ WriterOK(s) /\ SessionOK(s) /\ NamesOK(s)
  BY RowsOf DEF RetentionInv
<1>1. CASE writer' = [writer EXCEPT ![s] = "rejecting"]
  <2>1. /\ store' \in [Sessions -> SUBSET Objects]
        /\ store'[s] \subseteq store[s] /\ "upload" \notin store'[s]
        /\ \A t \in Sessions : t # s => store'[t] = store[t]
    BY <1>0, <1>1 DEF DiscardUpload, Write, Deleted, RetentionTypeOK, Objects
  <2>2. /\ writer' = [writer EXCEPT ![s] = "rejecting"]
        /\ UNCHANGED <<session, file, ledger, run, cleaner, runner, faults>>
    BY <1>0, <1>1 DEF DiscardUpload, Write, Deleted
  <2>3. RetentionTypeOK'
    BY <1>0, <2>1, <2>2 DEF RetentionTypeOK, WriterSteps, Objects
  <2>4. /\ session'[s] = session[s] /\ file'[s] = file[s] /\ ledger'[s] = ledger[s]
        /\ writer'[s] = "rejecting"
        /\ Others(s)
    BY <1>0, <2>1, <2>2 DEF RetentionTypeOK
  <2>5. PeaceAt(s)
    BY <1>0, <1>1, <2>1, <2>4 DEF PeaceAt, SessionOK, WriterOK, DiscardUpload
  <2>6. WriterOK(s)'
    BY <1>0, <1>1, <2>1, <2>4 DEF SessionOK, WriterOK, DiscardUpload
  <2>7. SessionOK(s)'
    BY <1>0, <1>1, <2>1, <2>4 DEF SessionOK, WriterOK, DiscardUpload
  <2>8. NamesOK(s)'
    BY <1>0, <1>1, <2>1, <2>4 DEF NamesOK, Named, SessionOK, WriterOK, DiscardUpload
  <2>9. Peaceful /\ SessionsInv'
    BY <2>4, <2>5, <2>6, <2>7, <2>8, OneSession
  <2> QED
    BY <2>2, <2>3, <2>9, StepSafe
<1>2. CASE writer' = [writer EXCEPT ![s] = "idle"]
  <2>1. /\ store' \in [Sessions -> SUBSET Objects] /\ store'[s] \subseteq store[s]
        /\ \A t \in Sessions : t # s => store'[t] = store[t]
    BY <1>0, <1>2 DEF DiscardUpload, Write, Deleted, RetentionTypeOK, Objects
  <2>2. /\ writer' = [writer EXCEPT ![s] = "idle"]
        /\ UNCHANGED <<session, file, ledger, run, cleaner, runner, faults>>
    BY <1>0, <1>2 DEF DiscardUpload, Write, Deleted
  <2>3. RetentionTypeOK'
    BY <1>0, <2>1, <2>2 DEF RetentionTypeOK, WriterSteps, Objects
  <2>4. /\ session'[s] = session[s] /\ file'[s] = file[s] /\ ledger'[s] = ledger[s]
        /\ writer'[s] = "idle"
        /\ Others(s)
    BY <1>0, <2>1, <2>2 DEF RetentionTypeOK
  <2>5. PeaceAt(s)
    BY <1>0, <1>2, <2>1, <2>4 DEF PeaceAt, SessionOK, WriterOK, DiscardUpload
  <2>6. WriterOK(s)'
    BY <1>0, <1>2, <2>1, <2>4 DEF SessionOK, WriterOK, DiscardUpload
  <2>7. SessionOK(s)'
    BY <1>0, <1>2, <2>1, <2>4 DEF SessionOK, WriterOK, DiscardUpload
  <2>8. NamesOK(s)'
    BY <1>0, <1>2, <2>1, <2>4 DEF NamesOK, Named, SessionOK, WriterOK, DiscardUpload
  <2>9. Peaceful /\ SessionsInv'
    BY <2>4, <2>5, <2>6, <2>7, <2>8, OneSession
  <2> QED
    BY <2>2, <2>3, <2>9, StepSafe
<1> QED
  BY <1>0, <1>1, <1>2 DEF DiscardUpload, Write, Deleted

\* The tombstone of a refused upload.
LEMMA RecordRejectionSafe ==
  ASSUME RetentionInv, NEW s \in Sessions, RecordRejection(s)
  PROVE  RetentionInv'
<1>0. /\ RetentionTypeOK /\ session[s] \in SessionRows /\ file[s] \in FileRows
      /\ ledger[s] \subseteq Objects /\ store[s] \subseteq Objects /\ writer[s] \in WriterSteps
      /\ WriterOK(s) /\ SessionOK(s) /\ NamesOK(s)
  BY RowsOf DEF RetentionInv
<1>1. CASE file[s].status = "DELETE_PENDING"
  <2> DEFINE f == [file[s] EXCEPT !.status = "GONE", !.key = FALSE, !.due = {}]
  <2>1. f \in FileRows /\ f.status = "GONE" /\ f.key = FALSE /\ f.due = {}
    BY <1>0 DEF FileRows
  <2>2. file' = [file EXCEPT ![s] = f]
    BY <1>0, <1>1 DEF RecordRejection, Write, Gone
  <2> HIDE DEF f
  <2>3. /\ writer' = [writer EXCEPT ![s] = "idle"]
        /\ UNCHANGED <<session, ledger, store, run, cleaner, runner, faults>>
    BY <1>0, <1>1 DEF RecordRejection, Write, Gone
  <2>4. RetentionTypeOK'
    BY <1>0, <2>1, <2>2, <2>3 DEF RetentionTypeOK, WriterSteps, Objects
  <2>5. /\ session'[s] = session[s] /\ file'[s] = f /\ ledger'[s] = ledger[s]
        /\ store'[s] = store[s] /\ writer'[s] = "idle"
        /\ Others(s)
    BY <1>0, <2>1, <2>2, <2>3 DEF RetentionTypeOK
  <2>6. PeaceAt(s)
    BY <1>0, <1>1, <2>1, <2>2, <2>5 DEF PeaceAt, SessionOK, WriterOK, RecordRejection
  <2>7. WriterOK(s)'
    BY <1>0, <1>1, <2>1, <2>2, <2>5 DEF SessionOK, WriterOK, RecordRejection
  <2>8. SessionOK(s)'
    BY <1>0, <1>1, <2>1, <2>2, <2>5 DEF SessionOK, WriterOK, RecordRejection
  <2>9. NamesOK(s)'
    BY <1>0, <1>1, <2>1, <2>2, <2>5 DEF NamesOK, Named, SessionOK, WriterOK, RecordRejection
  <2>10. Peaceful /\ SessionsInv'
    BY <2>5, <2>6, <2>7, <2>8, <2>9, OneSession
  <2> QED
    BY <2>3, <2>4, <2>10, StepSafe
<1>2. CASE file[s].status # "DELETE_PENDING"
  <2>1. /\ writer' = [writer EXCEPT ![s] = "idle"]
        /\ UNCHANGED <<session, file, ledger, store, run, cleaner, runner, faults>>
    BY <1>0, <1>2 DEF RecordRejection, Write, Gone
  <2>2. RetentionTypeOK'
    BY <1>0, <2>1 DEF RetentionTypeOK, WriterSteps, Objects
  <2>3. /\ session'[s] = session[s] /\ file'[s] = file[s] /\ ledger'[s] = ledger[s]
        /\ store'[s] = store[s] /\ writer'[s] = "idle"
        /\ Others(s)
    BY <1>0, <2>1 DEF RetentionTypeOK
  <2>4. PeaceAt(s)
    BY <1>0, <1>2, <2>3 DEF PeaceAt, SessionOK, WriterOK, RecordRejection
  <2>5. WriterOK(s)'
    BY <1>0, <1>2, <2>3 DEF SessionOK, WriterOK, RecordRejection
  <2>6. SessionOK(s)'
    BY <1>0, <1>2, <2>3 DEF SessionOK, WriterOK, RecordRejection
  <2>7. NamesOK(s)'
    BY <1>0, <1>2, <2>3 DEF NamesOK, Named, SessionOK, WriterOK, RecordRejection
  <2>8. Peaceful /\ SessionsInv'
    BY <2>3, <2>4, <2>5, <2>6, <2>7, OneSession
  <2> QED
    BY <2>1, <2>2, <2>8, StepSafe
<1> QED
  BY <1>0, <1>1, <1>2 DEF RecordRejection, Write, Gone

\* A rendering announces what it will write.
LEMMA ClaimDocumentSafe ==
  ASSUME RetentionInv, NEW s \in Sessions, ClaimDocument(s)
  PROVE  RetentionInv'
<1>0. /\ RetentionTypeOK /\ session[s] \in SessionRows /\ file[s] \in FileRows
      /\ ledger[s] \subseteq Objects /\ store[s] \subseteq Objects /\ writer[s] \in WriterSteps
      /\ WriterOK(s) /\ SessionOK(s) /\ NamesOK(s)
  BY RowsOf DEF RetentionInv
<1> DEFINE f == [file[s] EXCEPT !.status = "VALIDATING"]
<1>1. f \in FileRows /\ f.status = "VALIDATING" /\ f.key = file[s].key /\ f.due = file[s].due
  BY <1>0 DEF FileRows
<1>2. file' = [file EXCEPT ![s] = f]
  BY <1>0 DEF ClaimDocument, Write
<1> HIDE DEF f
<1>3. /\ ledger' = [ledger EXCEPT ![s] = {"artifact"}]
      /\ writer' = [writer EXCEPT ![s] = "rendering"]
      /\ UNCHANGED <<session, store, run, cleaner, runner, faults>>
  BY <1>0 DEF ClaimDocument, Write
<1>4. RetentionTypeOK'
  BY <1>0, <1>1, <1>2, <1>3 DEF RetentionTypeOK, WriterSteps, Objects
<1>5. /\ session'[s] = session[s] /\ file'[s] = f /\ ledger'[s] = {"artifact"}
      /\ store'[s] = store[s] /\ writer'[s] = "rendering"
      /\ Others(s)
  BY <1>0, <1>1, <1>2, <1>3 DEF RetentionTypeOK
<1>6. PeaceAt(s)
  BY <1>0, <1>1, <1>2, <1>5 DEF PeaceAt, SessionOK, WriterOK, ClaimDocument, Objects
<1>7. WriterOK(s)'
  BY <1>0, <1>1, <1>2, <1>5 DEF SessionOK, WriterOK, ClaimDocument, Objects
<1>8. SessionOK(s)'
  BY <1>0, <1>1, <1>2, <1>5 DEF SessionOK, WriterOK, ClaimDocument, Objects
<1>9. NamesOK(s)'
  BY <1>0, <1>1, <1>2, <1>5 DEF NamesOK, Named, SessionOK, WriterOK, ClaimDocument, Objects
<1>10. Peaceful /\ SessionsInv'
  BY <1>5, <1>6, <1>7, <1>8, <1>9, OneSession
<1> QED
  BY <1>3, <1>4, <1>10, StepSafe

\* An artifact arrives under a name that waits for it.
LEMMA PutArtifactSafe ==
  ASSUME RetentionInv, NEW s \in Sessions, PutArtifact(s)
  PROVE  RetentionInv'
<1>0. /\ RetentionTypeOK /\ session[s] \in SessionRows /\ file[s] \in FileRows
      /\ ledger[s] \subseteq Objects /\ store[s] \subseteq Objects /\ writer[s] \in WriterSteps
      /\ WriterOK(s) /\ SessionOK(s) /\ NamesOK(s)
  BY RowsOf DEF RetentionInv
<1>1. CASE writer' = [writer EXCEPT ![s] = "rendered"]
  <2>1. /\ store' \in [Sessions -> SUBSET Objects]
        /\ store'[s] \subseteq store[s] \cup {"artifact"}
        /\ \A t \in Sessions : t # s => store'[t] = store[t]
    BY <1>0, <1>1 DEF PutArtifact, Write, RetentionTypeOK, Objects
  <2>2. /\ writer' = [writer EXCEPT ![s] = "rendered"]
        /\ UNCHANGED <<session, file, ledger, run, cleaner, runner, faults>>
    BY <1>0, <1>1 DEF PutArtifact, Write
  <2>3. RetentionTypeOK'
    BY <1>0, <2>1, <2>2 DEF RetentionTypeOK, WriterSteps, Objects
  <2>4. /\ session'[s] = session[s] /\ file'[s] = file[s] /\ ledger'[s] = ledger[s]
        /\ writer'[s] = "rendered"
        /\ Others(s)
    BY <1>0, <2>1, <2>2 DEF RetentionTypeOK
  <2>5. PeaceAt(s)
    BY <1>0, <1>1, <2>1, <2>4 DEF PeaceAt, SessionOK, WriterOK, PutArtifact
  <2>6. WriterOK(s)'
    BY <1>0, <1>1, <2>1, <2>4 DEF SessionOK, WriterOK, PutArtifact
  <2>7. SessionOK(s)'
    BY <1>0, <1>1, <2>1, <2>4 DEF SessionOK, WriterOK, PutArtifact
  <2>8. NamesOK(s)'
    BY <1>0, <1>1, <2>1, <2>4 DEF NamesOK, Named, SessionOK, WriterOK, PutArtifact
  <2>9. Peaceful /\ SessionsInv'
    BY <2>4, <2>5, <2>6, <2>7, <2>8, OneSession
  <2> QED
    BY <2>2, <2>3, <2>9, StepSafe
<1>2. CASE writer' = [writer EXCEPT ![s] = "spoiled"]
  <2>1. /\ store' \in [Sessions -> SUBSET Objects]
        /\ store'[s] \subseteq store[s] \cup {"artifact"}
        /\ \A t \in Sessions : t # s => store'[t] = store[t]
    BY <1>0, <1>2 DEF PutArtifact, Write, RetentionTypeOK, Objects
  <2>2. /\ writer' = [writer EXCEPT ![s] = "spoiled"]
        /\ UNCHANGED <<session, file, ledger, run, cleaner, runner, faults>>
    BY <1>0, <1>2 DEF PutArtifact, Write
  <2>3. RetentionTypeOK'
    BY <1>0, <2>1, <2>2 DEF RetentionTypeOK, WriterSteps, Objects
  <2>4. /\ session'[s] = session[s] /\ file'[s] = file[s] /\ ledger'[s] = ledger[s]
        /\ writer'[s] = "spoiled"
        /\ Others(s)
    BY <1>0, <2>1, <2>2 DEF RetentionTypeOK
  <2>5. PeaceAt(s)
    BY <1>0, <1>2, <2>1, <2>4 DEF PeaceAt, SessionOK, WriterOK, PutArtifact
  <2>6. WriterOK(s)'
    BY <1>0, <1>2, <2>1, <2>4 DEF SessionOK, WriterOK, PutArtifact
  <2>7. SessionOK(s)'
    BY <1>0, <1>2, <2>1, <2>4 DEF SessionOK, WriterOK, PutArtifact
  <2>8. NamesOK(s)'
    BY <1>0, <1>2, <2>1, <2>4 DEF NamesOK, Named, SessionOK, WriterOK, PutArtifact
  <2>9. Peaceful /\ SessionsInv'
    BY <2>4, <2>5, <2>6, <2>7, <2>8, OneSession
  <2> QED
    BY <2>2, <2>3, <2>9, StepSafe
<1> QED
  BY <1>0, <1>1, <1>2 DEF PutArtifact, Write

\* A document becomes ready, or its late writer takes its bytes back.
LEMMA CompleteDocumentSafe ==
  ASSUME RetentionInv, NEW s \in Sessions, CompleteDocument(s)
  PROVE  RetentionInv'
<1>0. /\ RetentionTypeOK /\ session[s] \in SessionRows /\ file[s] \in FileRows
      /\ ledger[s] \subseteq Objects /\ store[s] \subseteq Objects /\ writer[s] \in WriterSteps
      /\ WriterOK(s) /\ SessionOK(s) /\ NamesOK(s)
  BY RowsOf DEF RetentionInv
<1>1. CASE file[s].status = "VALIDATING"
  <2> DEFINE f == [file[s] EXCEPT !.status = "READY"]
  <2>1. f \in FileRows /\ f.status = "READY" /\ f.key = file[s].key /\ f.due = file[s].due
    BY <1>0 DEF FileRows
  <2>2. file' = [file EXCEPT ![s] = f]
    BY <1>0, <1>1 DEF CompleteDocument, Write
  <2> HIDE DEF f
  <2>3. /\ writer' = [writer EXCEPT ![s] = "idle"]
        /\ UNCHANGED <<session, ledger, store, run, cleaner, runner, faults>>
    BY <1>0, <1>1 DEF CompleteDocument, Write
  <2>4. RetentionTypeOK'
    BY <1>0, <2>1, <2>2, <2>3 DEF RetentionTypeOK, WriterSteps, Objects
  <2>5. /\ session'[s] = session[s] /\ file'[s] = f /\ ledger'[s] = ledger[s]
        /\ store'[s] = store[s] /\ writer'[s] = "idle"
        /\ Others(s)
    BY <1>0, <2>1, <2>2, <2>3 DEF RetentionTypeOK
  <2>6. PeaceAt(s)
    BY <1>0, <1>1, <2>1, <2>2, <2>5 DEF PeaceAt, SessionOK, WriterOK, CompleteDocument
  <2>7. WriterOK(s)'
    BY <1>0, <1>1, <2>1, <2>2, <2>5 DEF SessionOK, WriterOK, CompleteDocument
  <2>8. SessionOK(s)'
    BY <1>0, <1>1, <2>1, <2>2, <2>5 DEF SessionOK, WriterOK, CompleteDocument
  <2>9. NamesOK(s)'
    BY <1>0, <1>1, <2>1, <2>2, <2>5 DEF NamesOK, Named, SessionOK, WriterOK, CompleteDocument
  <2>10. Peaceful /\ SessionsInv'
    BY <2>5, <2>6, <2>7, <2>8, <2>9, OneSession
  <2> QED
    BY <2>3, <2>4, <2>10, StepSafe
<1>2. CASE file[s].status # "VALIDATING"
  <2>1. /\ store' \in [Sessions -> SUBSET Objects] /\ store'[s] \subseteq store[s]
        /\ \A t \in Sessions : t # s => store'[t] = store[t]
    BY <1>0, <1>2 DEF CompleteDocument, Write, RetentionTypeOK, Objects
  <2>2. /\ writer' = [writer EXCEPT ![s] = "idle"]
        /\ UNCHANGED <<session, file, ledger, run, cleaner, runner, faults>>
    BY <1>0, <1>2 DEF CompleteDocument, Write
  <2>3. RetentionTypeOK'
    BY <1>0, <2>1, <2>2 DEF RetentionTypeOK, WriterSteps, Objects
  <2>4. /\ session'[s] = session[s] /\ file'[s] = file[s] /\ ledger'[s] = ledger[s]
        /\ writer'[s] = "idle"
        /\ Others(s)
    BY <1>0, <2>1, <2>2 DEF RetentionTypeOK
  <2>5. PeaceAt(s)
    BY <1>0, <1>2, <2>1, <2>4 DEF PeaceAt, SessionOK, WriterOK, CompleteDocument
  <2>6. WriterOK(s)'
    BY <1>0, <1>2, <2>1, <2>4 DEF SessionOK, WriterOK, CompleteDocument
  <2>7. SessionOK(s)'
    BY <1>0, <1>2, <2>1, <2>4 DEF SessionOK, WriterOK, CompleteDocument
  <2>8. NamesOK(s)'
    BY <1>0, <1>2, <2>1, <2>4 DEF NamesOK, Named, SessionOK, WriterOK, CompleteDocument
  <2>9. Peaceful /\ SessionsInv'
    BY <2>4, <2>5, <2>6, <2>7, <2>8, OneSession
  <2> QED
    BY <2>2, <2>3, <2>9, StepSafe
<1> QED
  BY <1>0, <1>1, <1>2 DEF CompleteDocument, Write

\* A document whose attempts are used up is to be deleted.
LEMMA GiveUpDocumentSafe ==
  ASSUME RetentionInv, NEW s \in Sessions, GiveUpDocument(s)
  PROVE  RetentionInv'
<1>0. /\ RetentionTypeOK /\ session[s] \in SessionRows /\ file[s] \in FileRows
      /\ ledger[s] \subseteq Objects /\ store[s] \subseteq Objects /\ writer[s] \in WriterSteps
      /\ WriterOK(s) /\ SessionOK(s) /\ NamesOK(s)
  BY RowsOf DEF RetentionInv
<1> DEFINE f == [file[s] EXCEPT !.status = "DELETE_PENDING", !.due = {}]
<1>1. f \in FileRows /\ f.status = "DELETE_PENDING" /\ f.key = file[s].key /\ f.due = {}
  BY <1>0 DEF FileRows
<1>2. SetFile(s, f)
  BY DEF GiveUpDocument, Write
<1> HIDE DEF f
<1>3. PICK g \in FileRows :
        /\ file' = [file EXCEPT ![s] = g]
        /\ g.status = f.status /\ g.key = f.key /\ f.due \subseteq g.due
        /\ InGrace(s) /\ g.status \in Deletable => "GRACE" \in g.due
  BY <1>1, <1>2, SetFileWrites
<1>4. /\ writer' = [writer EXCEPT ![s] = "idle"]
      /\ UNCHANGED <<session, ledger, store, run, cleaner, runner, faults>>
  BY <1>0 DEF GiveUpDocument, Write
<1>5. RetentionTypeOK'
  BY <1>0, <1>1, <1>3, <1>4 DEF RetentionTypeOK, WriterSteps, Objects
<1>6. /\ session'[s] = session[s] /\ file'[s] = g /\ ledger'[s] = ledger[s]
      /\ store'[s] = store[s] /\ writer'[s] = "idle"
      /\ Others(s)
  BY <1>0, <1>1, <1>3, <1>4 DEF RetentionTypeOK
<1>7. PeaceAt(s)
  BY <1>0, <1>1, <1>3, <1>6 DEF PeaceAt, SessionOK, WriterOK, GiveUpDocument
<1>8. WriterOK(s)'
  BY <1>0, <1>1, <1>3, <1>6 DEF SessionOK, WriterOK, GiveUpDocument
<1>9. SessionOK(s)'
  BY <1>0, <1>1, <1>3, <1>6 DEF SessionOK, WriterOK, GiveUpDocument
<1>10. NamesOK(s)'
  BY <1>0, <1>1, <1>3, <1>6 DEF NamesOK, Named, SessionOK, WriterOK, GiveUpDocument
<1>11. Peaceful /\ SessionsInv'
  BY <1>6, <1>7, <1>8, <1>9, <1>10, OneSession
<1> QED
  BY <1>4, <1>5, <1>11, StepSafe

\* A late owner stops.
LEMMA StaleOwnerStopsSafe ==
  ASSUME RetentionInv, NEW s \in Sessions, StaleOwnerStops(s)
  PROVE  RetentionInv'
<1>0. /\ RetentionTypeOK /\ session[s] \in SessionRows /\ file[s] \in FileRows
      /\ ledger[s] \subseteq Objects /\ store[s] \subseteq Objects /\ writer[s] \in WriterSteps
      /\ WriterOK(s) /\ SessionOK(s) /\ NamesOK(s)
  BY RowsOf DEF RetentionInv
<1>1. /\ writer' = [writer EXCEPT ![s] = "idle"]
      /\ UNCHANGED <<session, file, ledger, store, run, cleaner, runner, faults>>
  BY <1>0 DEF StaleOwnerStops, Write
<1>2. RetentionTypeOK'
  BY <1>0, <1>1 DEF RetentionTypeOK, WriterSteps, Objects
<1>3. /\ session'[s] = session[s] /\ file'[s] = file[s] /\ ledger'[s] = ledger[s]
      /\ store'[s] = store[s] /\ writer'[s] = "idle"
      /\ Others(s)
  BY <1>0, <1>1 DEF RetentionTypeOK
<1>4. PeaceAt(s)
  BY <1>0, <1>3 DEF PeaceAt, SessionOK, WriterOK, StaleOwnerStops
<1>5. WriterOK(s)'
  BY <1>0, <1>3 DEF SessionOK, WriterOK, StaleOwnerStops
<1>6. SessionOK(s)'
  BY <1>0, <1>3 DEF SessionOK, WriterOK, StaleOwnerStops
<1>7. NamesOK(s)'
  BY <1>0, <1>3 DEF NamesOK, Named, SessionOK, WriterOK, StaleOwnerStops
<1>8. Peaceful /\ SessionsInv'
  BY <1>3, <1>4, <1>5, <1>6, <1>7, OneSession
<1> QED
  BY <1>1, <1>2, <1>8, StepSafe

\* An upload nobody finished is to be deleted.
LEMMA MarkInterruptedUploadSafe ==
  ASSUME RetentionInv, NEW s \in Sessions, MarkInterruptedUpload(s)
  PROVE  RetentionInv'
<1>0. /\ RetentionTypeOK /\ session[s] \in SessionRows /\ file[s] \in FileRows
      /\ ledger[s] \subseteq Objects /\ store[s] \subseteq Objects /\ writer[s] \in WriterSteps
      /\ WriterOK(s) /\ SessionOK(s) /\ NamesOK(s)
  BY RowsOf DEF RetentionInv
<1> DEFINE f == [file[s] EXCEPT !.status = "DELETE_PENDING"]
<1>1. f \in FileRows /\ f.status = "DELETE_PENDING" /\ f.key = file[s].key /\ f.due = file[s].due
  BY <1>0 DEF FileRows
<1>2. SetFile(s, f)
  BY DEF MarkInterruptedUpload
<1> HIDE DEF f
<1>3. PICK g \in FileRows :
        /\ file' = [file EXCEPT ![s] = g]
        /\ g.status = f.status /\ g.key = f.key /\ f.due \subseteq g.due
        /\ InGrace(s) /\ g.status \in Deletable => "GRACE" \in g.due
  BY <1>1, <1>2, SetFileWrites
<1>4. /\ UNCHANGED <<session, ledger, store, writer, run, cleaner, runner, faults>>
  BY <1>0 DEF MarkInterruptedUpload
<1>5. RetentionTypeOK'
  BY <1>0, <1>1, <1>3, <1>4 DEF RetentionTypeOK, WriterSteps, Objects
<1>6. /\ session'[s] = session[s] /\ file'[s] = g /\ ledger'[s] = ledger[s]
      /\ store'[s] = store[s] /\ writer'[s] = writer[s]
      /\ Others(s)
  BY <1>0, <1>1, <1>3, <1>4 DEF RetentionTypeOK
<1>7. PeaceAt(s)
  BY <1>0, <1>1, <1>3, <1>6 DEF PeaceAt, SessionOK, WriterOK, MarkInterruptedUpload
<1>8. WriterOK(s)'
  BY <1>0, <1>1, <1>3, <1>6 DEF SessionOK, WriterOK, MarkInterruptedUpload
<1>9. SessionOK(s)'
  BY <1>0, <1>1, <1>3, <1>6 DEF SessionOK, WriterOK, MarkInterruptedUpload
<1>10. NamesOK(s)'
  BY <1>0, <1>1, <1>3, <1>6 DEF NamesOK, Named, SessionOK, WriterOK, MarkInterruptedUpload
<1>11. Peaceful /\ SessionsInv'
  BY <1>6, <1>7, <1>8, <1>9, <1>10, OneSession
<1> QED
  BY <1>4, <1>5, <1>11, StepSafe

\* The barrier waits for the writer.
LEMMA BarrierPassesSafe ==
  ASSUME RetentionInv, NEW s \in Sessions, BarrierPasses(s)
  PROVE  RetentionInv'
<1>0. /\ RetentionTypeOK /\ session[s] \in SessionRows /\ file[s] \in FileRows
      /\ ledger[s] \subseteq Objects /\ store[s] \subseteq Objects /\ writer[s] \in WriterSteps
      /\ WriterOK(s) /\ SessionOK(s) /\ NamesOK(s)
  BY RowsOf DEF RetentionInv
<1> DEFINE f == [file[s] EXCEPT !.due = @ \ {"WRITER"}]
<1>1. /\ f \in FileRows /\ f.status = file[s].status /\ f.key = file[s].key
      /\ f.due = file[s].due \ {"WRITER"}
  BY <1>0 DEF FileRows
<1>2. file' = [file EXCEPT ![s] = f]
  BY <1>0 DEF BarrierPasses
<1> HIDE DEF f
<1>3. /\ UNCHANGED <<session, ledger, store, writer, run, cleaner, runner, faults>>
  BY <1>0 DEF BarrierPasses
<1>4. RetentionTypeOK'
  BY <1>0, <1>1, <1>2, <1>3 DEF RetentionTypeOK, WriterSteps, Objects
<1>5. /\ session'[s] = session[s] /\ file'[s] = f /\ ledger'[s] = ledger[s]
      /\ store'[s] = store[s] /\ writer'[s] = writer[s]
      /\ Others(s)
  BY <1>0, <1>1, <1>2, <1>3 DEF RetentionTypeOK
<1>6. PeaceAt(s)
  BY <1>0, <1>1, <1>2, <1>5 DEF PeaceAt, SessionOK, WriterOK, BarrierPasses
<1>7. WriterOK(s)'
  BY <1>0, <1>1, <1>2, <1>5 DEF SessionOK, WriterOK, BarrierPasses
<1>8. SessionOK(s)'
  BY <1>0, <1>1, <1>2, <1>5 DEF SessionOK, WriterOK, BarrierPasses
<1>9. NamesOK(s)'
  BY <1>0, <1>1, <1>2, <1>5 DEF NamesOK, Named, SessionOK, WriterOK, BarrierPasses
<1>10. Peaceful /\ SessionsInv'
  BY <1>5, <1>6, <1>7, <1>8, <1>9, OneSession
<1> QED
  BY <1>3, <1>4, <1>10, StepSafe

\* The grace ends once.
LEMMA GracePassesSafe ==
  ASSUME RetentionInv, NEW s \in Sessions, GracePasses(s)
  PROVE  RetentionInv'
<1>0. /\ RetentionTypeOK /\ session[s] \in SessionRows /\ file[s] \in FileRows
      /\ ledger[s] \subseteq Objects /\ store[s] \subseteq Objects /\ writer[s] \in WriterSteps
      /\ WriterOK(s) /\ SessionOK(s) /\ NamesOK(s)
  BY RowsOf DEF RetentionInv
<1> DEFINE f == [file[s] EXCEPT !.due = @ \ {"GRACE"}]
<1>1. /\ f \in FileRows /\ f.status = file[s].status /\ f.key = file[s].key
      /\ f.due = file[s].due \ {"GRACE"}
  BY <1>0 DEF FileRows
<1>2. file' = [file EXCEPT ![s] = f]
  BY <1>0 DEF GracePasses
<1> HIDE DEF f
<1>3. /\ session' = [session EXCEPT ![s] = [session[s] EXCEPT !.grace = FALSE]]
      /\ UNCHANGED <<ledger, store, writer, run, cleaner, runner, faults>>
  BY <1>0 DEF GracePasses
<1>4. RetentionTypeOK'
  BY <1>0, <1>1, <1>2, <1>3 DEF RetentionTypeOK, WriterSteps, Objects, SessionRows
<1>5. /\ session'[s] = [session[s] EXCEPT !.grace = FALSE] /\ file'[s] = f
      /\ ledger'[s] = ledger[s]
      /\ store'[s] = store[s] /\ writer'[s] = writer[s]
      /\ Others(s)
  BY <1>0, <1>1, <1>2, <1>3 DEF RetentionTypeOK
<1>6. PeaceAt(s)
  BY <1>0, <1>1, <1>2, <1>5 DEF PeaceAt, SessionOK, WriterOK, GracePasses, SessionRows
<1>7. WriterOK(s)'
  BY <1>0, <1>1, <1>2, <1>5 DEF SessionOK, WriterOK, GracePasses, SessionRows
<1>8. SessionOK(s)'
  BY <1>0, <1>1, <1>2, <1>5 DEF SessionOK, WriterOK, GracePasses, SessionRows
<1>9. NamesOK(s)'
  BY <1>0, <1>1, <1>2, <1>5 DEF NamesOK, Named, SessionOK, WriterOK, GracePasses, SessionRows
<1>10. Peaceful /\ SessionsInv'
  BY <1>5, <1>6, <1>7, <1>8, <1>9, OneSession
<1> QED
  BY <1>3, <1>4, <1>10, StepSafe

\* Strays of a cleaned session go.
LEMMA ReconcileOrphansSafe ==
  ASSUME RetentionInv, NEW s \in Sessions, ReconcileOrphans(s)
  PROVE  RetentionInv'
<1>0. /\ RetentionTypeOK /\ session[s] \in SessionRows /\ file[s] \in FileRows
      /\ ledger[s] \subseteq Objects /\ store[s] \subseteq Objects /\ writer[s] \in WriterSteps
      /\ WriterOK(s) /\ SessionOK(s) /\ NamesOK(s)
  BY RowsOf DEF RetentionInv
<1>1. /\ store' = [store EXCEPT ![s] = {}]
      /\ UNCHANGED <<session, file, ledger, writer, run, cleaner, runner, faults>>
  BY <1>0 DEF ReconcileOrphans
<1>2. RetentionTypeOK'
  BY <1>0, <1>1 DEF RetentionTypeOK, WriterSteps, Objects
<1>3. /\ session'[s] = session[s] /\ file'[s] = file[s] /\ ledger'[s] = ledger[s]
      /\ store'[s] = {} /\ writer'[s] = writer[s]
      /\ Others(s)
  BY <1>0, <1>1 DEF RetentionTypeOK
<1>4. PeaceAt(s)
  BY <1>0, <1>3 DEF PeaceAt, SessionOK, WriterOK, ReconcileOrphans
<1>5. WriterOK(s)'
  BY <1>0, <1>3 DEF SessionOK, WriterOK, ReconcileOrphans
<1>6. SessionOK(s)'
  BY <1>0, <1>3 DEF SessionOK, WriterOK, ReconcileOrphans
<1>7. NamesOK(s)'
  BY <1>0, <1>3 DEF NamesOK, Named, SessionOK, WriterOK, ReconcileOrphans
<1>8. Peaceful /\ SessionsInv'
  BY <1>3, <1>4, <1>5, <1>6, <1>7, OneSession
<1> QED
  BY <1>1, <1>2, <1>8, StepSafe

\* A stray appears.
LEMMA StrayObjectSafe ==
  ASSUME RetentionInv, NEW s \in Sessions, StrayObject(s)
  PROVE  RetentionInv'
<1>0. /\ RetentionTypeOK /\ session[s] \in SessionRows /\ file[s] \in FileRows
      /\ ledger[s] \subseteq Objects /\ store[s] \subseteq Objects /\ writer[s] \in WriterSteps
      /\ WriterOK(s) /\ SessionOK(s) /\ NamesOK(s)
  BY RowsOf DEF RetentionInv
<1>1. /\ store' = [store EXCEPT ![s] = store[s] \cup {"stray"}]
      /\ UNCHANGED <<session, file, ledger, writer, run, cleaner, runner>>
      /\ faults' \in 0 .. MaxFaults
  BY <1>0, RetentionAssumption DEF StrayObject, RetentionTypeOK
<1>2. RetentionTypeOK'
  BY <1>0, <1>1 DEF RetentionTypeOK, WriterSteps, Objects
<1>3. /\ session'[s] = session[s] /\ file'[s] = file[s] /\ ledger'[s] = ledger[s]
      /\ store'[s] = store[s] \cup {"stray"} /\ writer'[s] = writer[s]
      /\ Others(s)
  BY <1>0, <1>1 DEF RetentionTypeOK
<1>4. PeaceAt(s)
  BY <1>0, <1>3 DEF PeaceAt, SessionOK, WriterOK, StrayObject
<1>5. WriterOK(s)'
  BY <1>0, <1>3 DEF SessionOK, WriterOK, StrayObject
<1>6. SessionOK(s)'
  BY <1>0, <1>3 DEF SessionOK, WriterOK, StrayObject
<1>7. NamesOK(s)'
  BY <1>0, <1>3 DEF NamesOK, Named, SessionOK, WriterOK, StrayObject
<1>8. Peaceful /\ SessionsInv'
  BY <1>3, <1>4, <1>5, <1>6, <1>7, OneSession
<1> QED
  BY <1>1, <1>2, <1>8, StepSafe

\* Whoever works on a document of a session that ends loses it, but not its barrier.
LEMMA EndSessionSafe ==
  ASSUME RetentionInv, NEW s \in Sessions, NEW state \in {"ABANDONED", "SETTLED"},
         EndSession(s, state)
  PROVE  RetentionInv'
<1>0. /\ RetentionTypeOK /\ session[s] \in SessionRows /\ file[s] \in FileRows
      /\ ledger[s] \subseteq Objects /\ store[s] \subseteq Objects /\ writer[s] \in WriterSteps
      /\ WriterOK(s) /\ SessionOK(s) /\ NamesOK(s)
  BY RowsOf DEF RetentionInv
<1> DEFINE grace == IF state = "SETTLED" THEN {"GRACE"} ELSE {}
           h == Scheduled(file[s], grace)
           f == Clamped(grace, h)
           settled == (state = "SETTLED")
           n == [session[s] EXCEPT !.state = state, !.mirror = "PENDING", !.grace = settled]
<1>1. grace \subseteq {"GRACE"} /\ settled \in BOOLEAN /\ (settled => "GRACE" \in grace)
  OBVIOUS
<1>2. /\ file' = [file EXCEPT ![s] = f] /\ session' = [session EXCEPT ![s] = n]
      /\ UNCHANGED <<ledger, store, writer, cleaner, run, runner, faults>>
      /\ session[s].state = "OPEN"
  BY <1>0 DEF EndSession, RetentionTypeOK
<1> HIDE DEF grace, settled
<1>3. /\ h \in FileRows /\ h.key = file[s].key
      /\ h.status \notin {"QUARANTINED", "VALIDATING", "READY"}
      /\ file[s].status \in Deletable \cup {"VALIDATING", "QUARANTINED", "READY"} =>
           h.status = "DELETE_PENDING"
      /\ file[s].status = "VALIDATING" => "WRITER" \in h.due
      /\ file[s].status \in Deletable => file[s].due \subseteq h.due
      /\ file[s].status \in {"UPLOADING", "NONE", "GONE"} => h = file[s]
  BY <1>0, <1>1 DEF Scheduled, FileRows
<1> HIDE DEF h
<1>4. /\ f \in FileRows /\ f.key = h.key /\ f.status = h.status /\ h.due \subseteq f.due
      /\ settled /\ f.status \in Deletable => "GRACE" \in f.due
  BY <1>1, <1>3 DEF Clamped, FileRows
<1>5. /\ n \in SessionRows /\ n.state = state /\ n.mirror = "PENDING" /\ n.grace = settled
      /\ n.deleted = session[s].deleted
  BY <1>0, <1>1 DEF SessionRows
<1> HIDE DEF f, n
<1>6. RetentionTypeOK'
  BY <1>0, <1>2, <1>4, <1>5 DEF RetentionTypeOK
<1>7. /\ session'[s] = n /\ file'[s] = f /\ ledger'[s] = ledger[s]
      /\ store'[s] = store[s] /\ writer'[s] = writer[s]
      /\ Others(s)
  BY <1>0, <1>2 DEF RetentionTypeOK
<1>8. PeaceAt(s)
  BY <1>0, <1>2, <1>3, <1>4, <1>5, <1>7 DEF PeaceAt, FileRows
<1>9. WriterOK(s)'
  BY <1>0, <1>3, <1>4, <1>7 DEF WriterOK
<1>10. SessionOK(s)'
  BY <1>0, <1>2, <1>3, <1>4, <1>5, <1>7 DEF SessionOK
<1>11. NamesOK(s)'
  BY <1>0, <1>3, <1>4, <1>7 DEF NamesOK, Named
<1>12. Peaceful /\ SessionsInv'
  BY <1>7, <1>8, <1>9, <1>10, <1>11, OneSession
<1> QED
  BY <1>2, <1>6, <1>12, StepSafe

-----------------------------------------------------------------------------
(* Deletions *)

\* A removal waits for a writer, or begins where none is left.
LEMMA RemoveSafe ==
  ASSUME RetentionInv, NEW s \in Sessions, Remove(s)
  PROVE  RetentionInv'
<1>0. /\ RetentionTypeOK /\ session[s] \in SessionRows /\ file[s] \in FileRows
      /\ ledger[s] \subseteq Objects /\ store[s] \subseteq Objects /\ writer[s] \in WriterSteps
      /\ WriterOK(s) /\ SessionOK(s) /\ NamesOK(s)
  BY RowsOf DEF RetentionInv
<1>1. CASE file[s].status = "VALIDATING"
  <2> DEFINE f == [file[s] EXCEPT !.status = "DELETE_PENDING", !.due = {"WRITER"}]
  <2>1. f \in FileRows /\ f.status = "DELETE_PENDING" /\ f.key = file[s].key /\ f.due = {"WRITER"}
    BY <1>0 DEF FileRows
  <2>2. SetFile(s, f)
    BY <1>1 DEF Remove, Begin
  <2> HIDE DEF f
  <2>3. PICK g \in FileRows :
          /\ file' = [file EXCEPT ![s] = g]
          /\ g.status = f.status /\ g.key = f.key /\ f.due \subseteq g.due
          /\ InGrace(s) /\ g.status \in Deletable => "GRACE" \in g.due
    BY <2>1, <2>2, SetFileWrites
  <2>4. /\ UNCHANGED <<session, ledger, store, writer, run, cleaner, runner, faults>>
    BY <1>0, <1>1 DEF Remove, Begin
  <2>5. RetentionTypeOK'
    BY <1>0, <2>1, <2>3, <2>4 DEF RetentionTypeOK, WriterSteps, Objects
  <2>6. /\ session'[s] = session[s] /\ file'[s] = g /\ ledger'[s] = ledger[s]
        /\ store'[s] = store[s] /\ writer'[s] = writer[s]
        /\ Others(s)
    BY <1>0, <2>1, <2>3, <2>4 DEF RetentionTypeOK
  <2>7. PeaceAt(s)
    BY <1>0, <1>1, <2>1, <2>3, <2>6 DEF PeaceAt, SessionOK, WriterOK, Remove
  <2>8. WriterOK(s)'
    BY <1>0, <1>1, <2>1, <2>3, <2>6 DEF SessionOK, WriterOK, Remove
  <2>9. SessionOK(s)'
    BY <1>0, <1>1, <2>1, <2>3, <2>6 DEF SessionOK, WriterOK, Remove
  <2>10. NamesOK(s)'
    BY <1>0, <1>1, <2>1, <2>3, <2>6 DEF NamesOK, Named, SessionOK, WriterOK, Remove
  <2>11. Peaceful /\ SessionsInv'
    BY <2>6, <2>7, <2>8, <2>9, <2>10, OneSession
  <2> QED
    BY <2>4, <2>5, <2>11, StepSafe
<1>2. CASE file[s].status # "VALIDATING"
  <2> DEFINE f == [file[s] EXCEPT !.status = "DELETING", !.due = {}]
  <2>1. f \in FileRows /\ f.status = "DELETING" /\ f.key = file[s].key /\ f.due = {}
    BY <1>0 DEF FileRows
  <2>2. SetFile(s, f)
    BY <1>2 DEF Remove, Begin
  <2> HIDE DEF f
  <2>3. PICK g \in FileRows :
          /\ file' = [file EXCEPT ![s] = g]
          /\ g.status = f.status /\ g.key = f.key /\ f.due \subseteq g.due
          /\ InGrace(s) /\ g.status \in Deletable => "GRACE" \in g.due
    BY <2>1, <2>2, SetFileWrites
  <2> DEFINE names == Named(s)
             early == ~Ended(s)
  <2>4. names \in SUBSET Objects /\ early \in BOOLEAN
    BY <1>0, <1>2 DEF Named, Objects
  <2> DEFINE k == [pc |-> "deleting", at |-> s, keys |-> names, early |-> early]
  <2> HIDE DEF names, early
  <2>5. /\ k \in CleanerSlots /\ k.pc = "deleting" /\ k.at = s /\ k.keys = names
        /\ k.early = early
    BY <1>0, <1>2, <2>4 DEF CleanerSlots, RetentionTypeOK
  <2> USE DEF names, early
  <2>6. /\ cleaner' = [cleaner EXCEPT !["api"] = k]
        /\ UNCHANGED <<session, ledger, store, writer, run, runner, faults>>
    BY <1>0, <1>2 DEF Remove, Begin, RetentionTypeOK
  <2> HIDE DEF k
  <2>7. RetentionTypeOK'
    BY <1>0, <2>1, <2>3, <2>5, <2>6 DEF RetentionTypeOK, WriterSteps, Objects
  <2>8. /\ session'[s] = session[s] /\ file'[s] = g /\ ledger'[s] = ledger[s]
        /\ store'[s] = store[s] /\ writer'[s] = writer[s]
        /\ Others(s)
    BY <1>0, <2>1, <2>3, <2>5, <2>6 DEF RetentionTypeOK
  <2>9. PeaceAt(s)
    BY <1>0, <1>2, <2>1, <2>3, <2>5, <2>8 DEF PeaceAt, SessionOK, WriterOK, Remove
  <2>10. WriterOK(s)'
    BY <1>0, <1>2, <2>1, <2>3, <2>5, <2>8 DEF SessionOK, WriterOK, Remove
  <2>11. SessionOK(s)'
    BY <1>0, <1>2, <2>1, <2>3, <2>5, <2>8 DEF SessionOK, WriterOK, Remove
  <2>12. NamesOK(s)'
    BY <1>0, <1>2, <2>1, <2>3, <2>5, <2>8 DEF NamesOK, Named, SessionOK, WriterOK, Remove
  <2>13. Peaceful /\ SessionsInv'
    BY <2>8, <2>9, <2>10, <2>11, <2>12, OneSession
  <2>14. /\ cleaner'["api"] = k
         /\ \A d \in Cleaners : d # "api" => cleaner'[d] = cleaner[d]
    BY <1>0, <2>6 DEF RetentionTypeOK
  <2>15. /\ writer[s] \notin Sending /\ store[s] \subseteq names \cup {"stray"}
         /\ early \/ PastGrace(s)
    BY <1>0, <1>2, <2>1, <2>3, <2>5, <2>8 DEF Remove, SessionOK, WriterOK, NamesOK, Named
  <2>16. CleanerOK("api")'
    BY <2>1, <2>3, <2>5, <2>8, <2>14, <2>15 DEF CleanerOK
  <2> QED
    BY <2>6, <2>14, <2>16, <2>7, <2>13, StepSafe
<1> QED
  BY <1>0, <1>1, <1>2 DEF Remove, Begin

\* The janitor begins where no writer is left, and not in the grace.
LEMMA CleanPendingFileSafe ==
  ASSUME RetentionInv, NEW s \in Sessions, CleanPendingFile(s)
  PROVE  RetentionInv'
<1>0. /\ RetentionTypeOK /\ session[s] \in SessionRows /\ file[s] \in FileRows
      /\ ledger[s] \subseteq Objects /\ store[s] \subseteq Objects /\ writer[s] \in WriterSteps
      /\ WriterOK(s) /\ SessionOK(s) /\ NamesOK(s)
  BY RowsOf DEF RetentionInv
<1> DEFINE f == [file[s] EXCEPT !.status = "DELETING"]
<1>1. f \in FileRows /\ f.status = "DELETING" /\ f.key = file[s].key /\ f.due = file[s].due
  BY <1>0 DEF FileRows
<1>2. SetFile(s, f)
  BY DEF CleanPendingFile, Begin
<1> HIDE DEF f
<1>3. PICK g \in FileRows :
        /\ file' = [file EXCEPT ![s] = g]
        /\ g.status = f.status /\ g.key = f.key /\ f.due \subseteq g.due
        /\ InGrace(s) /\ g.status \in Deletable => "GRACE" \in g.due
  BY <1>1, <1>2, SetFileWrites
<1> DEFINE names == Named(s)
           early == ~Ended(s)
<1>4. names \in SUBSET Objects /\ early \in BOOLEAN
  BY <1>0 DEF Named, Objects
<1> DEFINE k == [pc |-> "deleting", at |-> s, keys |-> names, early |-> early]
<1> HIDE DEF names, early
<1>5. /\ k \in CleanerSlots /\ k.pc = "deleting" /\ k.at = s /\ k.keys = names
      /\ k.early = early
  BY <1>0, <1>4 DEF CleanerSlots, RetentionTypeOK
<1> USE DEF names, early
<1>6. /\ cleaner' = [cleaner EXCEPT !["janitor"] = k]
      /\ UNCHANGED <<session, ledger, store, writer, run, runner, faults>>
  BY <1>0 DEF CleanPendingFile, Begin, RetentionTypeOK
<1> HIDE DEF k
<1>7. RetentionTypeOK'
  BY <1>0, <1>1, <1>3, <1>5, <1>6 DEF RetentionTypeOK, WriterSteps, Objects
<1>8. /\ session'[s] = session[s] /\ file'[s] = g /\ ledger'[s] = ledger[s]
      /\ store'[s] = store[s] /\ writer'[s] = writer[s]
      /\ Others(s)
  BY <1>0, <1>1, <1>3, <1>5, <1>6 DEF RetentionTypeOK
<1>9. PeaceAt(s)
  BY <1>0, <1>1, <1>3, <1>5, <1>8 DEF PeaceAt, SessionOK, WriterOK, CleanPendingFile
<1>10. WriterOK(s)'
  BY <1>0, <1>1, <1>3, <1>5, <1>8 DEF SessionOK, WriterOK, CleanPendingFile
<1>11. SessionOK(s)'
  BY <1>0, <1>1, <1>3, <1>5, <1>8 DEF SessionOK, WriterOK, CleanPendingFile
<1>12. NamesOK(s)'
  BY <1>0, <1>1, <1>3, <1>5, <1>8 DEF NamesOK, Named, SessionOK, WriterOK, CleanPendingFile
<1>13. Peaceful /\ SessionsInv'
  BY <1>8, <1>9, <1>10, <1>11, <1>12, OneSession
<1>14. /\ cleaner'["janitor"] = k
       /\ \A d \in Cleaners : d # "janitor" => cleaner'[d] = cleaner[d]
  BY <1>0, <1>6 DEF RetentionTypeOK
<1>15. /\ writer[s] \notin Sending /\ store[s] \subseteq names \cup {"stray"}
       /\ early \/ PastGrace(s)
  BY <1>0, <1>1, <1>3, <1>5, <1>8 DEF CleanPendingFile, SessionOK, WriterOK, NamesOK, Named
<1>16. CleanerOK("janitor")'
  BY <1>1, <1>3, <1>5, <1>8, <1>14, <1>15 DEF CleanerOK
<1> QED
  BY <1>6, <1>14, <1>16, <1>7, <1>13, StepSafe

\* A deletion that finishes has left nothing with a name; one that fails begins again.
LEMMA DeleteObjectKeysSafe ==
  ASSUME RetentionInv, NEW c \in Cleaners, DeleteObjectKeys(c)
  PROVE  RetentionInv'
<1>0. PICK s \in Sessions :
        /\ cleaner[c].at = s
        /\ writer[s] \notin Sending /\ Dying(s)
        /\ store[s] \subseteq cleaner[c].keys \cup {"stray"}
        /\ cleaner[c].pc = "deleting" => cleaner[c].early \/ PastGrace(s)
        /\ cleaner[c].pc = "finishing" => cleaner[c].keys = {}
        /\ RetentionTypeOK /\ session[s] \in SessionRows /\ file[s] \in FileRows
        /\ ledger[s] \subseteq Objects /\ store[s] \subseteq Objects /\ writer[s] \in WriterSteps
        /\ WriterOK(s) /\ SessionOK(s) /\ NamesOK(s) /\ cleaner[c] \in CleanerSlots
  <2>1. cleaner[c].pc # "idle" /\ CleanerOK(c)
    BY DEF DeleteObjectKeys, RetentionInv, CleanersInv
  <2>2. RetentionTypeOK /\ cleaner[c] \in CleanerSlots
    BY DEF RetentionInv, RetentionTypeOK
  <2> HIDE DEF Dying, PastGrace, Sending, Cleaners
  <2> QED
    BY <2>1, <2>2, RowsOf DEF CleanerOK
<1>1. ASSUME Deleted(s, cleaner[c].keys, TRUE), file' = file,
             cleaner' = [cleaner EXCEPT ![c] = [cleaner[c] EXCEPT !.pc = "finishing", !.keys = {},
                                                                  !.early = FALSE]]
      PROVE  RetentionInv'
  <2>1. /\ store' \in [Sessions -> SUBSET Objects]
        /\ store'[s] \subseteq {"stray"} /\ store'[s] \subseteq store[s]
        /\ \A t \in Sessions : t # s => store'[t] = store[t]
    BY <1>0, <1>1 DEF DeleteObjectKeys, Deleted, RetentionTypeOK, Objects
  <2> DEFINE k == [cleaner[c] EXCEPT !.pc = "finishing", !.keys = {}, !.early = FALSE]
  <2>2. k \in CleanerSlots /\ k.pc = "finishing" /\ k.at = s /\ k.keys = {}
    BY <1>0, <1>1 DEF CleanerSlots, RetentionTypeOK
  <2>3. /\ cleaner' = [cleaner EXCEPT ![c] = k]
        /\ UNCHANGED <<session, file, ledger, writer, run, runner, faults>>
    BY <1>0, <1>1 DEF DeleteObjectKeys, Deleted, RetentionTypeOK
  <2> HIDE DEF k
  <2>4. RetentionTypeOK'
    BY <1>0, <2>1, <2>2, <2>3 DEF RetentionTypeOK, WriterSteps, Objects
  <2>5. /\ session'[s] = session[s] /\ file'[s] = file[s] /\ ledger'[s] = ledger[s]
        /\ writer'[s] = writer[s]
        /\ Others(s)
    BY <1>0, <2>1, <2>2, <2>3 DEF RetentionTypeOK
  <2>6. PeaceAt(s)
    BY <1>0, <1>1, <2>1, <2>2, <2>5 DEF PeaceAt, SessionOK, WriterOK, DeleteObjectKeys
  <2>7. WriterOK(s)'
    BY <1>0, <1>1, <2>1, <2>2, <2>5 DEF SessionOK, WriterOK, DeleteObjectKeys
  <2>8. SessionOK(s)'
    BY <1>0, <1>1, <2>1, <2>2, <2>5 DEF SessionOK, WriterOK, DeleteObjectKeys
  <2>9. NamesOK(s)'
    BY <1>0, <1>1, <2>1, <2>2, <2>5 DEF NamesOK, Named, SessionOK, WriterOK, DeleteObjectKeys
  <2>10. Peaceful /\ SessionsInv'
    BY <2>5, <2>6, <2>7, <2>8, <2>9, OneSession
  <2>11. /\ cleaner'[c] = k
         /\ \A d \in Cleaners : d # c => cleaner'[d] = cleaner[d]
    BY <1>0, <2>3 DEF RetentionTypeOK
  <2>12. writer[s] \notin Sending /\ Dying(s)'
    BY <1>0, <1>1, <2>1, <2>2, <2>5 DEF Dying, SessionOK
  <2>13. CleanerOK(c)'
    BY <2>1, <2>2, <2>5, <2>11, <2>12 DEF CleanerOK
  <2> QED
    BY <2>3, <2>11, <2>13, <2>4, <2>10, StepSafe
<1>2. ASSUME Deleted(s, cleaner[c].keys, FALSE), file' = file,
             cleaner' = [cleaner EXCEPT ![c] = Resting]
      PROVE  RetentionInv'
  <2>1. /\ store' \in [Sessions -> SUBSET Objects] /\ store'[s] \subseteq store[s]
        /\ \A t \in Sessions : t # s => store'[t] = store[t]
    BY <1>0, <1>2 DEF DeleteObjectKeys, Deleted, RetentionTypeOK, Objects
  <2> DEFINE k == Resting
  <2>2. k \in CleanerSlots /\ k.pc = "idle"
    BY <1>0, <1>2 DEF CleanerSlots, RetentionTypeOK, Resting, Nobody
  <2>3. /\ cleaner' = [cleaner EXCEPT ![c] = k]
        /\ UNCHANGED <<session, file, ledger, writer, run, runner, faults>>
    BY <1>0, <1>2 DEF DeleteObjectKeys, Deleted, RetentionTypeOK
  <2> HIDE DEF k
  <2>4. RetentionTypeOK'
    BY <1>0, <2>1, <2>2, <2>3 DEF RetentionTypeOK, WriterSteps, Objects
  <2>5. /\ session'[s] = session[s] /\ file'[s] = file[s] /\ ledger'[s] = ledger[s]
        /\ writer'[s] = writer[s]
        /\ Others(s)
    BY <1>0, <2>1, <2>2, <2>3 DEF RetentionTypeOK
  <2>6. PeaceAt(s)
    BY <1>0, <1>2, <2>1, <2>2, <2>5 DEF PeaceAt, SessionOK, WriterOK, DeleteObjectKeys
  <2>7. WriterOK(s)'
    BY <1>0, <1>2, <2>1, <2>2, <2>5 DEF SessionOK, WriterOK, DeleteObjectKeys
  <2>8. SessionOK(s)'
    BY <1>0, <1>2, <2>1, <2>2, <2>5 DEF SessionOK, WriterOK, DeleteObjectKeys
  <2>9. NamesOK(s)'
    BY <1>0, <1>2, <2>1, <2>2, <2>5 DEF NamesOK, Named, SessionOK, WriterOK, DeleteObjectKeys
  <2>10. Peaceful /\ SessionsInv'
    BY <2>5, <2>6, <2>7, <2>8, <2>9, OneSession
  <2>11. /\ cleaner'[c] = k
         /\ \A d \in Cleaners : d # c => cleaner'[d] = cleaner[d]
    BY <1>0, <2>3 DEF RetentionTypeOK
  <2>12. CleanerOK(c)'
    BY <1>0, <1>2, <2>1, <2>2, <2>5, <2>11 DEF CleanerOK, RunOK, SessionOK, WriterOK, NamesOK,
      Named, CleanerSlots
  <2> QED
    BY <2>3, <2>11, <2>12, <2>4, <2>10, StepSafe
<1>3. ASSUME Deleted(s, cleaner[c].keys, FALSE), file[s].status = "DELETING",
             SetFile(s, [file[s] EXCEPT !.status = "DELETE_PENDING", !.due = {}]),
             cleaner' = [cleaner EXCEPT ![c] = Resting]
      PROVE  RetentionInv'
  <2> DEFINE f == [file[s] EXCEPT !.status = "DELETE_PENDING", !.due = {}]
  <2>1. f \in FileRows /\ f.status = "DELETE_PENDING" /\ f.key = file[s].key /\ f.due = {}
    BY <1>0 DEF FileRows
  <2>2. SetFile(s, f)
    BY <1>3 DEF DeleteObjectKeys, Deleted
  <2> HIDE DEF f
  <2>3. PICK g \in FileRows :
          /\ file' = [file EXCEPT ![s] = g]
          /\ g.status = f.status /\ g.key = f.key /\ f.due \subseteq g.due
          /\ InGrace(s) /\ g.status \in Deletable => "GRACE" \in g.due
    BY <2>1, <2>2, SetFileWrites
  <2>4. /\ store' \in [Sessions -> SUBSET Objects] /\ store'[s] \subseteq store[s]
        /\ \A t \in Sessions : t # s => store'[t] = store[t]
    BY <1>0, <1>3 DEF DeleteObjectKeys, Deleted, RetentionTypeOK, Objects
  <2> DEFINE k == Resting
  <2>5. k \in CleanerSlots /\ k.pc = "idle"
    BY <1>0, <1>3 DEF CleanerSlots, RetentionTypeOK, Resting, Nobody
  <2>6. /\ cleaner' = [cleaner EXCEPT ![c] = k]
        /\ UNCHANGED <<session, ledger, writer, run, runner, faults>>
    BY <1>0, <1>3 DEF DeleteObjectKeys, Deleted, RetentionTypeOK
  <2> HIDE DEF k
  <2>7. RetentionTypeOK'
    BY <1>0, <2>1, <2>3, <2>4, <2>5, <2>6 DEF RetentionTypeOK, WriterSteps, Objects
  <2>8. /\ session'[s] = session[s] /\ file'[s] = g /\ ledger'[s] = ledger[s]
        /\ writer'[s] = writer[s]
        /\ Others(s)
    BY <1>0, <2>1, <2>3, <2>4, <2>5, <2>6 DEF RetentionTypeOK
  <2>9. PeaceAt(s)
    BY <1>0, <1>3, <2>1, <2>3, <2>4, <2>5, <2>8 DEF PeaceAt, SessionOK, WriterOK,
      DeleteObjectKeys
  <2>10. WriterOK(s)'
    BY <1>0, <1>3, <2>1, <2>3, <2>4, <2>5, <2>8 DEF SessionOK, WriterOK, DeleteObjectKeys
  <2>11. SessionOK(s)'
    BY <1>0, <1>3, <2>1, <2>3, <2>4, <2>5, <2>8 DEF SessionOK, WriterOK, DeleteObjectKeys
  <2>12. NamesOK(s)'
    BY <1>0, <1>3, <2>1, <2>3, <2>4, <2>5, <2>8 DEF NamesOK, Named, SessionOK, WriterOK,
      DeleteObjectKeys
  <2>13. Peaceful /\ SessionsInv'
    BY <2>8, <2>9, <2>10, <2>11, <2>12, OneSession
  <2>14. /\ cleaner'[c] = k
         /\ \A d \in Cleaners : d # c => cleaner'[d] = cleaner[d]
    BY <1>0, <2>6 DEF RetentionTypeOK
  <2>15. CleanerOK(c)'
    BY <1>0, <1>3, <2>1, <2>3, <2>4, <2>5, <2>8, <2>14 DEF CleanerOK, RunOK, SessionOK,
      WriterOK, NamesOK, Named, CleanerSlots
  <2> QED
    BY <2>6, <2>14, <2>15, <2>7, <2>13, StepSafe
<1> QED
  BY <1>0, <1>1, <1>2, <1>3 DEF DeleteObjectKeys, Deleted

\* The tombstone of a document whose bytes are gone.
LEMMA FinishCleanupSafe ==
  ASSUME RetentionInv, NEW c \in Cleaners, FinishCleanup(c)
  PROVE  RetentionInv'
<1>0. PICK s \in Sessions :
        /\ cleaner[c].at = s
        /\ writer[s] \notin Sending /\ Dying(s)
        /\ store[s] \subseteq cleaner[c].keys \cup {"stray"}
        /\ cleaner[c].pc = "deleting" => cleaner[c].early \/ PastGrace(s)
        /\ cleaner[c].pc = "finishing" => cleaner[c].keys = {}
        /\ RetentionTypeOK /\ session[s] \in SessionRows /\ file[s] \in FileRows
        /\ ledger[s] \subseteq Objects /\ store[s] \subseteq Objects /\ writer[s] \in WriterSteps
        /\ WriterOK(s) /\ SessionOK(s) /\ NamesOK(s) /\ cleaner[c] \in CleanerSlots
  <2>1. cleaner[c].pc # "idle" /\ CleanerOK(c)
    BY DEF FinishCleanup, RetentionInv, CleanersInv
  <2>2. RetentionTypeOK /\ cleaner[c] \in CleanerSlots
    BY DEF RetentionInv, RetentionTypeOK
  <2> HIDE DEF Dying, PastGrace, Sending, Cleaners
  <2> QED
    BY <2>1, <2>2, RowsOf DEF CleanerOK
<1>1. CASE file[s].status \in Deletable
  <2> DEFINE f == [file[s] EXCEPT !.status = "GONE", !.key = FALSE, !.due = {}]
  <2>1. f \in FileRows /\ f.status = "GONE" /\ f.key = FALSE /\ f.due = {}
    BY <1>0 DEF FileRows
  <2>2. file' = [file EXCEPT ![s] = f]
    BY <1>0, <1>1 DEF FinishCleanup, Gone
  <2> HIDE DEF f
  <2> DEFINE k == Resting
  <2>3. k \in CleanerSlots /\ k.pc = "idle"
    BY <1>0, <1>1 DEF CleanerSlots, RetentionTypeOK, Resting, Nobody
  <2>4. /\ cleaner' = [cleaner EXCEPT ![c] = k]
        /\ ledger' = [ledger EXCEPT ![s] = {}]
        /\ UNCHANGED <<session, store, writer, run, runner, faults>>
    BY <1>0, <1>1 DEF FinishCleanup, Gone, RetentionTypeOK
  <2> HIDE DEF k
  <2>5. RetentionTypeOK'
    BY <1>0, <2>1, <2>2, <2>3, <2>4 DEF RetentionTypeOK, WriterSteps, Objects
  <2>6. /\ session'[s] = session[s] /\ file'[s] = f /\ ledger'[s] = {}
        /\ store'[s] = store[s] /\ writer'[s] = writer[s]
        /\ Others(s)
    BY <1>0, <2>1, <2>2, <2>3, <2>4 DEF RetentionTypeOK
  <2>7. PeaceAt(s)
    BY <1>0, <1>1, <2>1, <2>2, <2>3, <2>6 DEF PeaceAt, SessionOK, WriterOK, FinishCleanup
  <2>8. WriterOK(s)'
    BY <1>0, <1>1, <2>1, <2>2, <2>3, <2>6 DEF SessionOK, WriterOK, FinishCleanup
  <2>9. SessionOK(s)'
    BY <1>0, <1>1, <2>1, <2>2, <2>3, <2>6 DEF SessionOK, WriterOK, FinishCleanup
  <2>10. NamesOK(s)'
    BY <1>0, <1>1, <2>1, <2>2, <2>3, <2>6 DEF NamesOK, Named, SessionOK, WriterOK, FinishCleanup
  <2>11. Peaceful /\ SessionsInv'
    BY <2>6, <2>7, <2>8, <2>9, <2>10, OneSession
  <2>12. /\ cleaner'[c] = k
         /\ \A d \in Cleaners : d # c => cleaner'[d] = cleaner[d]
    BY <1>0, <2>4 DEF RetentionTypeOK
  <2>13. CleanerOK(c)'
    BY <1>0, <1>1, <2>1, <2>2, <2>3, <2>6, <2>12 DEF CleanerOK, RunOK, SessionOK, WriterOK,
      NamesOK, Named, CleanerSlots
  <2> QED
    BY <2>4, <2>12, <2>13, <2>5, <2>11, StepSafe
<1>2. CASE file[s].status \notin Deletable
  <2> DEFINE k == Resting
  <2>1. k \in CleanerSlots /\ k.pc = "idle"
    BY <1>0, <1>2 DEF CleanerSlots, RetentionTypeOK, Resting, Nobody
  <2>2. /\ cleaner' = [cleaner EXCEPT ![c] = k]
        /\ UNCHANGED <<session, file, ledger, store, writer, run, runner, faults>>
    BY <1>0, <1>2 DEF FinishCleanup, Gone, RetentionTypeOK
  <2> HIDE DEF k
  <2>3. RetentionTypeOK'
    BY <1>0, <2>1, <2>2 DEF RetentionTypeOK, WriterSteps, Objects
  <2>4. /\ session'[s] = session[s] /\ file'[s] = file[s] /\ ledger'[s] = ledger[s]
        /\ store'[s] = store[s] /\ writer'[s] = writer[s]
        /\ Others(s)
    BY <1>0, <2>1, <2>2 DEF RetentionTypeOK
  <2>5. PeaceAt(s)
    BY <1>0, <1>2, <2>1, <2>4 DEF PeaceAt, SessionOK, WriterOK, FinishCleanup
  <2>6. WriterOK(s)'
    BY <1>0, <1>2, <2>1, <2>4 DEF SessionOK, WriterOK, FinishCleanup
  <2>7. SessionOK(s)'
    BY <1>0, <1>2, <2>1, <2>4 DEF SessionOK, WriterOK, FinishCleanup
  <2>8. NamesOK(s)'
    BY <1>0, <1>2, <2>1, <2>4 DEF NamesOK, Named, SessionOK, WriterOK, FinishCleanup
  <2>9. Peaceful /\ SessionsInv'
    BY <2>4, <2>5, <2>6, <2>7, <2>8, OneSession
  <2>10. /\ cleaner'[c] = k
         /\ \A d \in Cleaners : d # c => cleaner'[d] = cleaner[d]
    BY <1>0, <2>2 DEF RetentionTypeOK
  <2>11. CleanerOK(c)'
    BY <1>0, <1>2, <2>1, <2>4, <2>10 DEF CleanerOK, RunOK, SessionOK, WriterOK, NamesOK, Named,
      CleanerSlots
  <2> QED
    BY <2>2, <2>10, <2>11, <2>3, <2>9, StepSafe
<1> QED
  BY <1>0, <1>1, <1>2 DEF FinishCleanup, Gone

-----------------------------------------------------------------------------
(* Cleanup runs *)

\* A run passes its first checkpoint.
LEMMA RevokeAccessSafe ==
  ASSUME RetentionInv, NEW r \in Runners, RevokeAccess(r)
  PROVE  RetentionInv'
<1>0. PICK s \in Sessions :
        /\ runner[r].at = s
        /\ PastGrace(s) /\ runner[r].attempts < MaxAttempts
        /\ runner[r].checkpoint >= ARTIFACTS_DELETED => Emptied(s)
        /\ runner[r].pc \in {"deleting", "retiring"} =>
             /\ runner[r].checkpoint = ACCESS_REVOKED /\ Quiet(s)
             /\ store[s] \subseteq runner[r].keys \cup {"stray"}
        /\ runner[r].pc = "retiring" => runner[r].keys = {}
        /\ RetentionTypeOK /\ session[s] \in SessionRows /\ file[s] \in FileRows
        /\ ledger[s] \subseteq Objects /\ store[s] \subseteq Objects /\ writer[s] \in WriterSteps
        /\ WriterOK(s) /\ SessionOK(s) /\ NamesOK(s) /\ RunOK(s)
        /\ run[s] \in RunRows /\ runner[r] \in RunnerSlots
  <2>1. runner[r].pc # "idle" /\ RunnerOK(r)
    BY DEF RevokeAccess, At, RetentionInv, RunnersInv
  <2>2. RetentionTypeOK /\ runner[r] \in RunnerSlots
    BY DEF RetentionInv, RetentionTypeOK
  <2> HIDE DEF PastGrace, Quiet, Emptied
  <2> QED
    BY <2>1, <2>2, RowsOf DEF RunnerOK
<1> DEFINE cp == runner[r].checkpoint + 1
<1>1. cp \in SCHEDULED .. COMPLETED
  BY <1>0 DEF RevokeAccess, At, RunnerSlots
<1> DEFINE k == [runner[r] EXCEPT !.pc = "recording", !.checkpoint = cp, !.keys = {}]
<1> HIDE DEF cp
<1>2. /\ k \in RunnerSlots /\ k.pc = "recording" /\ k.at = s /\ k.checkpoint = cp
      /\ k.attempts = runner[r].attempts
  BY <1>0, <1>1 DEF RunnerSlots, RetentionTypeOK
<1> USE DEF cp
<1>3. /\ runner' = [runner EXCEPT ![r] = k]
      /\ UNCHANGED <<session, file, ledger, store, writer, run, cleaner, faults>>
  BY <1>0 DEF RevokeAccess, At, Advanced, RetentionTypeOK
<1> HIDE DEF k
<1>4. RetentionTypeOK'
  BY <1>0, <1>2, <1>3 DEF RetentionTypeOK, WriterSteps, Objects
<1>5. /\ session'[s] = session[s] /\ file'[s] = file[s] /\ ledger'[s] = ledger[s]
      /\ store'[s] = store[s] /\ writer'[s] = writer[s]
      /\ Others(s)
  BY <1>0, <1>2, <1>3 DEF RetentionTypeOK
<1>6. PeaceAt(s)
  BY <1>0, <1>2, <1>5 DEF PeaceAt, SessionOK, WriterOK, RevokeAccess
<1>7. WriterOK(s)'
  BY <1>0, <1>2, <1>5 DEF SessionOK, WriterOK, RevokeAccess
<1>8. SessionOK(s)'
  BY <1>0, <1>2, <1>5 DEF SessionOK, WriterOK, RevokeAccess
<1>9. NamesOK(s)'
  BY <1>0, <1>2, <1>5 DEF NamesOK, Named, SessionOK, WriterOK, RevokeAccess
<1>10. Peaceful /\ SessionsInv'
  BY <1>5, <1>6, <1>7, <1>8, <1>9, OneSession
<1>11. /\ runner'[r] = k
       /\ \A q \in Runners : q # r => runner'[q] = runner[q]
  BY <1>0, <1>3 DEF RetentionTypeOK
<1>12. /\ PastGrace(s)' /\ k.attempts < MaxAttempts
       /\ k.checkpoint >= ARTIFACTS_DELETED => Emptied(s)'
  BY <1>0, <1>2, <1>5 DEF SessionOK, WriterOK, RevokeAccess, At, Advanced
<1>13. RunnerOK(r)'
  <2> HIDE DEF PastGrace, Quiet, Emptied
  <2> QED
    BY <1>2, <1>5, <1>11, <1>12 DEF RunnerOK
<1> QED
  BY <1>3, <1>11, <1>13, <1>4, <1>10, StepSafe

\* A run goes past its barrier only where no writer is left.
LEMMA ListKnownArtifactsSafe ==
  ASSUME RetentionInv, NEW r \in Runners, ListKnownArtifacts(r)
  PROVE  RetentionInv'
<1>0. PICK s \in Sessions :
        /\ runner[r].at = s
        /\ PastGrace(s) /\ runner[r].attempts < MaxAttempts
        /\ runner[r].checkpoint >= ARTIFACTS_DELETED => Emptied(s)
        /\ runner[r].pc \in {"deleting", "retiring"} =>
             /\ runner[r].checkpoint = ACCESS_REVOKED /\ Quiet(s)
             /\ store[s] \subseteq runner[r].keys \cup {"stray"}
        /\ runner[r].pc = "retiring" => runner[r].keys = {}
        /\ RetentionTypeOK /\ session[s] \in SessionRows /\ file[s] \in FileRows
        /\ ledger[s] \subseteq Objects /\ store[s] \subseteq Objects /\ writer[s] \in WriterSteps
        /\ WriterOK(s) /\ SessionOK(s) /\ NamesOK(s) /\ RunOK(s)
        /\ run[s] \in RunRows /\ runner[r] \in RunnerSlots
  <2>1. runner[r].pc # "idle" /\ RunnerOK(r)
    BY DEF ListKnownArtifacts, At, RetentionInv, RunnersInv
  <2>2. RetentionTypeOK /\ runner[r] \in RunnerSlots
    BY DEF RetentionInv, RetentionTypeOK
  <2> HIDE DEF PastGrace, Quiet, Emptied
  <2> QED
    BY <2>1, <2>2, RowsOf DEF RunnerOK
<1>1. CASE Barred(s)
  <2> DEFINE k == [runner[r] EXCEPT !.pc = "deferring"]
  <2>1. /\ k \in RunnerSlots /\ k.pc = "deferring" /\ k.at = s
        /\ k.checkpoint = runner[r].checkpoint /\ k.attempts = runner[r].attempts
    BY <1>0, <1>1 DEF RunnerSlots, RetentionTypeOK
  <2>2. /\ runner' = [runner EXCEPT ![r] = k]
        /\ UNCHANGED <<session, file, ledger, store, writer, run, cleaner, faults>>
    BY <1>0, <1>1 DEF ListKnownArtifacts, At, Goto, Barred, RetentionTypeOK
  <2> HIDE DEF k
  <2>3. RetentionTypeOK'
    BY <1>0, <2>1, <2>2 DEF RetentionTypeOK, WriterSteps, Objects
  <2>4. /\ session'[s] = session[s] /\ file'[s] = file[s] /\ ledger'[s] = ledger[s]
        /\ store'[s] = store[s] /\ writer'[s] = writer[s]
        /\ Others(s)
    BY <1>0, <2>1, <2>2 DEF RetentionTypeOK
  <2>5. PeaceAt(s)
    BY <1>0, <1>1, <2>1, <2>4 DEF PeaceAt, SessionOK, WriterOK, ListKnownArtifacts
  <2>6. WriterOK(s)'
    BY <1>0, <1>1, <2>1, <2>4 DEF SessionOK, WriterOK, ListKnownArtifacts
  <2>7. SessionOK(s)'
    BY <1>0, <1>1, <2>1, <2>4 DEF SessionOK, WriterOK, ListKnownArtifacts
  <2>8. NamesOK(s)'
    BY <1>0, <1>1, <2>1, <2>4 DEF NamesOK, Named, SessionOK, WriterOK, ListKnownArtifacts
  <2>9. Peaceful /\ SessionsInv'
    BY <2>4, <2>5, <2>6, <2>7, <2>8, OneSession
  <2>10. /\ runner'[r] = k
         /\ \A q \in Runners : q # r => runner'[q] = runner[q]
    BY <1>0, <2>2 DEF RetentionTypeOK
  <2>11. /\ PastGrace(s)' /\ k.attempts < MaxAttempts
         /\ k.checkpoint >= ARTIFACTS_DELETED => Emptied(s)'
    BY <1>0, <1>1, <2>1, <2>4 DEF SessionOK, WriterOK, ListKnownArtifacts, At, Goto, Barred
  <2>12. RunnerOK(r)'
    <3> HIDE DEF PastGrace, Quiet, Emptied
    <3> QED
      BY <2>1, <2>4, <2>10, <2>11 DEF RunnerOK
  <2> QED
    BY <2>2, <2>10, <2>12, <2>3, <2>9, StepSafe
<1>2. CASE ~Barred(s)
  <2> DEFINE names == Named(s)
  <2>1. names \in SUBSET Objects
    BY <1>0, <1>2 DEF Named, Objects
  <2> DEFINE k == [runner[r] EXCEPT !.pc = "deleting", !.keys = names]
  <2> HIDE DEF names
  <2>2. /\ k \in RunnerSlots /\ k.pc = "deleting" /\ k.at = s
        /\ k.checkpoint = runner[r].checkpoint /\ k.attempts = runner[r].attempts
        /\ k.keys = names
    BY <1>0, <1>2, <2>1 DEF RunnerSlots, RetentionTypeOK
  <2> USE DEF names
  <2>3. /\ runner' = [runner EXCEPT ![r] = k]
        /\ UNCHANGED <<session, file, ledger, store, writer, run, cleaner, faults>>
    BY <1>0, <1>2 DEF ListKnownArtifacts, At, Goto, Barred, RetentionTypeOK
  <2> HIDE DEF k
  <2>4. RetentionTypeOK'
    BY <1>0, <2>2, <2>3 DEF RetentionTypeOK, WriterSteps, Objects
  <2>5. /\ session'[s] = session[s] /\ file'[s] = file[s] /\ ledger'[s] = ledger[s]
        /\ store'[s] = store[s] /\ writer'[s] = writer[s]
        /\ Others(s)
    BY <1>0, <2>2, <2>3 DEF RetentionTypeOK
  <2>6. PeaceAt(s)
    BY <1>0, <1>2, <2>2, <2>5 DEF PeaceAt, SessionOK, WriterOK, ListKnownArtifacts
  <2>7. WriterOK(s)'
    BY <1>0, <1>2, <2>2, <2>5 DEF SessionOK, WriterOK, ListKnownArtifacts
  <2>8. SessionOK(s)'
    BY <1>0, <1>2, <2>2, <2>5 DEF SessionOK, WriterOK, ListKnownArtifacts
  <2>9. NamesOK(s)'
    BY <1>0, <1>2, <2>2, <2>5 DEF NamesOK, Named, SessionOK, WriterOK, ListKnownArtifacts
  <2>10. Peaceful /\ SessionsInv'
    BY <2>5, <2>6, <2>7, <2>8, <2>9, OneSession
  <2>11. /\ runner'[r] = k
         /\ \A q \in Runners : q # r => runner'[q] = runner[q]
    BY <1>0, <2>3 DEF RetentionTypeOK
  <2>12. /\ PastGrace(s)' /\ k.attempts < MaxAttempts /\ k.checkpoint = ACCESS_REVOKED
         /\ Quiet(s)' /\ store'[s] \subseteq k.keys \cup {"stray"}
    BY <1>0, <1>2, <2>2, <2>5 DEF SessionOK, WriterOK, NamesOK, Named, ListKnownArtifacts, At,
      Goto, Barred
  <2>13. RunnerOK(r)'
    <3> HIDE DEF PastGrace, Quiet, Emptied
    <3> QED
      BY <2>2, <2>5, <2>11, <2>12 DEF RunnerOK
  <2> QED
    BY <2>3, <2>11, <2>13, <2>4, <2>10, StepSafe
<1> QED
  BY <1>0, <1>1, <1>2 DEF ListKnownArtifacts, At, Goto, Barred

\* A deletion that succeeds has left nothing with a name.
LEMMA DeleteKnownArtifactsSafe ==
  ASSUME RetentionInv, NEW r \in Runners, DeleteKnownArtifacts(r)
  PROVE  RetentionInv'
<1>0. PICK s \in Sessions :
        /\ runner[r].at = s
        /\ PastGrace(s) /\ runner[r].attempts < MaxAttempts
        /\ runner[r].checkpoint >= ARTIFACTS_DELETED => Emptied(s)
        /\ runner[r].pc \in {"deleting", "retiring"} =>
             /\ runner[r].checkpoint = ACCESS_REVOKED /\ Quiet(s)
             /\ store[s] \subseteq runner[r].keys \cup {"stray"}
        /\ runner[r].pc = "retiring" => runner[r].keys = {}
        /\ RetentionTypeOK /\ session[s] \in SessionRows /\ file[s] \in FileRows
        /\ ledger[s] \subseteq Objects /\ store[s] \subseteq Objects /\ writer[s] \in WriterSteps
        /\ WriterOK(s) /\ SessionOK(s) /\ NamesOK(s) /\ RunOK(s)
        /\ run[s] \in RunRows /\ runner[r] \in RunnerSlots
  <2>1. runner[r].pc # "idle" /\ RunnerOK(r)
    BY DEF DeleteKnownArtifacts, RetentionInv, RunnersInv
  <2>2. RetentionTypeOK /\ runner[r] \in RunnerSlots
    BY DEF RetentionInv, RetentionTypeOK
  <2> HIDE DEF PastGrace, Quiet, Emptied
  <2> QED
    BY <2>1, <2>2, RowsOf DEF RunnerOK
<1>1. ASSUME Deleted(s, runner[r].keys, TRUE),
             runner' = [runner EXCEPT ![r].pc = "retiring", ![r].keys = {}]
      PROVE  RetentionInv'
  <2>1. /\ store' \in [Sessions -> SUBSET Objects]
        /\ store'[s] \subseteq {"stray"} /\ store'[s] \subseteq store[s]
        /\ \A t \in Sessions : t # s => store'[t] = store[t]
    BY <1>0, <1>1 DEF DeleteKnownArtifacts, Deleted, RetentionTypeOK, Objects
  <2> DEFINE k == [runner[r] EXCEPT !.pc = "retiring", !.keys = {}]
  <2>2. /\ k \in RunnerSlots /\ k.pc = "retiring" /\ k.at = s
        /\ k.checkpoint = runner[r].checkpoint /\ k.attempts = runner[r].attempts
        /\ k.keys = {}
    BY <1>0, <1>1 DEF RunnerSlots, RetentionTypeOK
  <2>3. /\ runner' = [runner EXCEPT ![r] = k]
        /\ UNCHANGED <<session, file, ledger, writer, run, cleaner, faults>>
    BY <1>0, <1>1 DEF DeleteKnownArtifacts, Deleted, RetentionTypeOK
  <2> HIDE DEF k
  <2>4. RetentionTypeOK'
    BY <1>0, <2>1, <2>2, <2>3 DEF RetentionTypeOK, WriterSteps, Objects
  <2>5. /\ session'[s] = session[s] /\ file'[s] = file[s] /\ ledger'[s] = ledger[s]
        /\ writer'[s] = writer[s]
        /\ Others(s)
    BY <1>0, <2>1, <2>2, <2>3 DEF RetentionTypeOK
  <2>6. PeaceAt(s)
    BY <1>0, <1>1, <2>1, <2>2, <2>5 DEF PeaceAt, SessionOK, WriterOK, DeleteKnownArtifacts
  <2>7. WriterOK(s)'
    BY <1>0, <1>1, <2>1, <2>2, <2>5 DEF SessionOK, WriterOK, DeleteKnownArtifacts
  <2>8. SessionOK(s)'
    BY <1>0, <1>1, <2>1, <2>2, <2>5 DEF SessionOK, WriterOK, DeleteKnownArtifacts
  <2>9. NamesOK(s)'
    BY <1>0, <1>1, <2>1, <2>2, <2>5 DEF NamesOK, Named, SessionOK, WriterOK,
      DeleteKnownArtifacts
  <2>10. Peaceful /\ SessionsInv'
    BY <2>5, <2>6, <2>7, <2>8, <2>9, OneSession
  <2>11. /\ runner'[r] = k
         /\ \A q \in Runners : q # r => runner'[q] = runner[q]
    BY <1>0, <2>3 DEF RetentionTypeOK
  <2>12. /\ PastGrace(s)' /\ k.attempts < MaxAttempts /\ k.checkpoint = ACCESS_REVOKED
         /\ Quiet(s)' /\ store'[s] \subseteq k.keys \cup {"stray"}
    BY <1>0, <1>1, <2>1, <2>2, <2>5 DEF SessionOK, WriterOK, NamesOK, Named,
      DeleteKnownArtifacts, Deleted
  <2>13. RunnerOK(r)'
    <3> HIDE DEF PastGrace, Quiet, Emptied
    <3> QED
      BY <2>1, <2>2, <2>5, <2>11, <2>12 DEF RunnerOK
  <2> QED
    BY <2>3, <2>11, <2>13, <2>4, <2>10, StepSafe
<1>2. ASSUME Deleted(s, runner[r].keys, FALSE),
             runner' = [runner EXCEPT ![r].pc = "failing", ![r].keys = {}]
      PROVE  RetentionInv'
  <2>1. /\ store' \in [Sessions -> SUBSET Objects] /\ store'[s] \subseteq store[s]
        /\ \A t \in Sessions : t # s => store'[t] = store[t]
    BY <1>0, <1>2 DEF DeleteKnownArtifacts, Deleted, RetentionTypeOK, Objects
  <2> DEFINE k == [runner[r] EXCEPT !.pc = "failing", !.keys = {}]
  <2>2. /\ k \in RunnerSlots /\ k.pc = "failing" /\ k.at = s
        /\ k.checkpoint = runner[r].checkpoint /\ k.attempts = runner[r].attempts
        /\ k.keys = {}
    BY <1>0, <1>2 DEF RunnerSlots, RetentionTypeOK
  <2>3. /\ runner' = [runner EXCEPT ![r] = k]
        /\ UNCHANGED <<session, file, ledger, writer, run, cleaner, faults>>
    BY <1>0, <1>2 DEF DeleteKnownArtifacts, Deleted, RetentionTypeOK
  <2> HIDE DEF k
  <2>4. RetentionTypeOK'
    BY <1>0, <2>1, <2>2, <2>3 DEF RetentionTypeOK, WriterSteps, Objects
  <2>5. /\ session'[s] = session[s] /\ file'[s] = file[s] /\ ledger'[s] = ledger[s]
        /\ writer'[s] = writer[s]
        /\ Others(s)
    BY <1>0, <2>1, <2>2, <2>3 DEF RetentionTypeOK
  <2>6. PeaceAt(s)
    BY <1>0, <1>2, <2>1, <2>2, <2>5 DEF PeaceAt, SessionOK, WriterOK, DeleteKnownArtifacts
  <2>7. WriterOK(s)'
    BY <1>0, <1>2, <2>1, <2>2, <2>5 DEF SessionOK, WriterOK, DeleteKnownArtifacts
  <2>8. SessionOK(s)'
    BY <1>0, <1>2, <2>1, <2>2, <2>5 DEF SessionOK, WriterOK, DeleteKnownArtifacts
  <2>9. NamesOK(s)'
    BY <1>0, <1>2, <2>1, <2>2, <2>5 DEF NamesOK, Named, SessionOK, WriterOK,
      DeleteKnownArtifacts
  <2>10. Peaceful /\ SessionsInv'
    BY <2>5, <2>6, <2>7, <2>8, <2>9, OneSession
  <2>11. /\ runner'[r] = k
         /\ \A q \in Runners : q # r => runner'[q] = runner[q]
    BY <1>0, <2>3 DEF RetentionTypeOK
  <2>12. /\ PastGrace(s)' /\ k.attempts < MaxAttempts
         /\ k.checkpoint >= ARTIFACTS_DELETED => Emptied(s)'
    BY <1>0, <1>2, <2>1, <2>2, <2>5 DEF SessionOK, WriterOK, DeleteKnownArtifacts, Deleted
  <2>13. RunnerOK(r)'
    <3> HIDE DEF PastGrace, Quiet, Emptied
    <3> QED
      BY <2>1, <2>2, <2>5, <2>11, <2>12 DEF RunnerOK
  <2> QED
    BY <2>3, <2>11, <2>13, <2>4, <2>10, StepSafe
<1> QED
  BY <1>0, <1>1, <1>2 DEF DeleteKnownArtifacts, Deleted

\* The tombstone of a document whose bytes are gone, and its ledger.
LEMMA RetireLedgerSafe ==
  ASSUME RetentionInv, NEW r \in Runners, RetireLedger(r)
  PROVE  RetentionInv'
<1>0. PICK s \in Sessions :
        /\ runner[r].at = s
        /\ PastGrace(s) /\ runner[r].attempts < MaxAttempts
        /\ runner[r].checkpoint >= ARTIFACTS_DELETED => Emptied(s)
        /\ runner[r].pc \in {"deleting", "retiring"} =>
             /\ runner[r].checkpoint = ACCESS_REVOKED /\ Quiet(s)
             /\ store[s] \subseteq runner[r].keys \cup {"stray"}
        /\ runner[r].pc = "retiring" => runner[r].keys = {}
        /\ RetentionTypeOK /\ session[s] \in SessionRows /\ file[s] \in FileRows
        /\ ledger[s] \subseteq Objects /\ store[s] \subseteq Objects /\ writer[s] \in WriterSteps
        /\ WriterOK(s) /\ SessionOK(s) /\ NamesOK(s) /\ RunOK(s)
        /\ run[s] \in RunRows /\ runner[r] \in RunnerSlots
  <2>1. runner[r].pc # "idle" /\ RunnerOK(r)
    BY DEF RetireLedger, RetentionInv, RunnersInv
  <2>2. RetentionTypeOK /\ runner[r] \in RunnerSlots
    BY DEF RetentionInv, RetentionTypeOK
  <2> HIDE DEF PastGrace, Quiet, Emptied
  <2> QED
    BY <2>1, <2>2, RowsOf DEF RunnerOK
<1>1. CASE file[s].status \in Uncleaned
  <2> DEFINE f == [file[s] EXCEPT !.status = "GONE", !.key = FALSE, !.due = {}]
  <2>1. f \in FileRows /\ f.status = "GONE" /\ f.key = FALSE /\ f.due = {}
    BY <1>0 DEF FileRows
  <2>2. file' = [file EXCEPT ![s] = f]
    BY <1>0, <1>1 DEF RetireLedger, Gone, Advanced
  <2> HIDE DEF f
  <2> DEFINE cp == runner[r].checkpoint + 1
  <2>3. cp \in SCHEDULED .. COMPLETED
    BY <1>0, <1>1 DEF RetireLedger, RunnerSlots, RunnerSlots
  <2> DEFINE k == [runner[r] EXCEPT !.pc = "recording", !.checkpoint = cp, !.keys = {}]
  <2> HIDE DEF cp
  <2>4. /\ k \in RunnerSlots /\ k.pc = "recording" /\ k.at = s /\ k.checkpoint = cp
        /\ k.attempts = runner[r].attempts
    BY <1>0, <1>1, <2>3 DEF RunnerSlots, RetentionTypeOK
  <2> USE DEF cp
  <2>5. /\ runner' = [runner EXCEPT ![r] = k]
        /\ ledger' = [ledger EXCEPT ![s] = {}]
        /\ UNCHANGED <<session, store, writer, run, cleaner, faults>>
    BY <1>0, <1>1 DEF RetireLedger, Gone, Advanced, RetentionTypeOK
  <2> HIDE DEF k
  <2>6. RetentionTypeOK'
    BY <1>0, <2>1, <2>2, <2>4, <2>5 DEF RetentionTypeOK, WriterSteps, Objects
  <2>7. /\ session'[s] = session[s] /\ file'[s] = f /\ ledger'[s] = {}
        /\ store'[s] = store[s] /\ writer'[s] = writer[s]
        /\ Others(s)
    BY <1>0, <2>1, <2>2, <2>4, <2>5 DEF RetentionTypeOK
  <2>8. PeaceAt(s)
    BY <1>0, <1>1, <2>1, <2>2, <2>4, <2>7 DEF PeaceAt, SessionOK, WriterOK, RetireLedger
  <2>9. WriterOK(s)'
    BY <1>0, <1>1, <2>1, <2>2, <2>4, <2>7 DEF SessionOK, WriterOK, RetireLedger
  <2>10. SessionOK(s)'
    BY <1>0, <1>1, <2>1, <2>2, <2>4, <2>7 DEF SessionOK, WriterOK, RetireLedger
  <2>11. NamesOK(s)'
    BY <1>0, <1>1, <2>1, <2>2, <2>4, <2>7 DEF NamesOK, Named, SessionOK, WriterOK, RetireLedger
  <2>12. Peaceful /\ SessionsInv'
    BY <2>7, <2>8, <2>9, <2>10, <2>11, OneSession
  <2>13. /\ runner'[r] = k
         /\ \A q \in Runners : q # r => runner'[q] = runner[q]
    BY <1>0, <2>5 DEF RetentionTypeOK
  <2>14. /\ PastGrace(s)' /\ k.attempts < MaxAttempts
         /\ k.checkpoint >= ARTIFACTS_DELETED => Emptied(s)'
    BY <1>0, <1>1, <2>1, <2>2, <2>4, <2>7 DEF SessionOK, WriterOK, RetireLedger, Gone, Advanced
  <2>15. RunnerOK(r)'
    <3> HIDE DEF PastGrace, Quiet, Emptied
    <3> QED
      BY <2>1, <2>2, <2>4, <2>7, <2>13, <2>14 DEF RunnerOK
  <2> QED
    BY <2>5, <2>13, <2>15, <2>6, <2>12, StepSafe
<1>2. CASE file[s].status \notin Uncleaned
  <2> DEFINE cp == runner[r].checkpoint + 1
  <2>1. cp \in SCHEDULED .. COMPLETED
    BY <1>0, <1>2 DEF RetireLedger, RunnerSlots, RunnerSlots
  <2> DEFINE k == [runner[r] EXCEPT !.pc = "recording", !.checkpoint = cp, !.keys = {}]
  <2> HIDE DEF cp
  <2>2. /\ k \in RunnerSlots /\ k.pc = "recording" /\ k.at = s /\ k.checkpoint = cp
        /\ k.attempts = runner[r].attempts
    BY <1>0, <1>2, <2>1 DEF RunnerSlots, RetentionTypeOK
  <2> USE DEF cp
  <2>3. /\ runner' = [runner EXCEPT ![r] = k]
        /\ ledger' = [ledger EXCEPT ![s] = {}]
        /\ UNCHANGED <<session, file, store, writer, run, cleaner, faults>>
    BY <1>0, <1>2 DEF RetireLedger, Gone, Advanced, RetentionTypeOK
  <2> HIDE DEF k
  <2>4. RetentionTypeOK'
    BY <1>0, <2>2, <2>3 DEF RetentionTypeOK, WriterSteps, Objects
  <2>5. /\ session'[s] = session[s] /\ file'[s] = file[s] /\ ledger'[s] = {}
        /\ store'[s] = store[s] /\ writer'[s] = writer[s]
        /\ Others(s)
    BY <1>0, <2>2, <2>3 DEF RetentionTypeOK
  <2>6. PeaceAt(s)
    BY <1>0, <1>2, <2>2, <2>5 DEF PeaceAt, SessionOK, WriterOK, RetireLedger
  <2>7. WriterOK(s)'
    BY <1>0, <1>2, <2>2, <2>5 DEF SessionOK, WriterOK, RetireLedger
  <2>8. SessionOK(s)'
    BY <1>0, <1>2, <2>2, <2>5 DEF SessionOK, WriterOK, RetireLedger
  <2>9. NamesOK(s)'
    BY <1>0, <1>2, <2>2, <2>5 DEF NamesOK, Named, SessionOK, WriterOK, RetireLedger
  <2>10. Peaceful /\ SessionsInv'
    BY <2>5, <2>6, <2>7, <2>8, <2>9, OneSession
  <2>11. /\ runner'[r] = k
         /\ \A q \in Runners : q # r => runner'[q] = runner[q]
    BY <1>0, <2>3 DEF RetentionTypeOK
  <2>12. /\ PastGrace(s)' /\ k.attempts < MaxAttempts
         /\ k.checkpoint >= ARTIFACTS_DELETED => Emptied(s)'
    BY <1>0, <1>2, <2>2, <2>5 DEF SessionOK, WriterOK, RetireLedger, Gone, Advanced
  <2>13. RunnerOK(r)'
    <3> HIDE DEF PastGrace, Quiet, Emptied
    <3> QED
      BY <2>2, <2>5, <2>11, <2>12 DEF RunnerOK
  <2> QED
    BY <2>3, <2>11, <2>13, <2>4, <2>10, StepSafe
<1> QED
  BY <1>0, <1>1, <1>2 DEF RetireLedger, Gone, Advanced

\* Strays go too.
LEMMA ReconcileStorageSafe ==
  ASSUME RetentionInv, NEW r \in Runners, ReconcileStorage(r)
  PROVE  RetentionInv'
<1>0. PICK s \in Sessions :
        /\ runner[r].at = s
        /\ PastGrace(s) /\ runner[r].attempts < MaxAttempts
        /\ runner[r].checkpoint >= ARTIFACTS_DELETED => Emptied(s)
        /\ runner[r].pc \in {"deleting", "retiring"} =>
             /\ runner[r].checkpoint = ACCESS_REVOKED /\ Quiet(s)
             /\ store[s] \subseteq runner[r].keys \cup {"stray"}
        /\ runner[r].pc = "retiring" => runner[r].keys = {}
        /\ RetentionTypeOK /\ session[s] \in SessionRows /\ file[s] \in FileRows
        /\ ledger[s] \subseteq Objects /\ store[s] \subseteq Objects /\ writer[s] \in WriterSteps
        /\ WriterOK(s) /\ SessionOK(s) /\ NamesOK(s) /\ RunOK(s)
        /\ run[s] \in RunRows /\ runner[r] \in RunnerSlots
  <2>1. runner[r].pc # "idle" /\ RunnerOK(r)
    BY DEF ReconcileStorage, At, RetentionInv, RunnersInv
  <2>2. RetentionTypeOK /\ runner[r] \in RunnerSlots
    BY DEF RetentionInv, RetentionTypeOK
  <2> HIDE DEF PastGrace, Quiet, Emptied
  <2> QED
    BY <2>1, <2>2, RowsOf DEF RunnerOK
<1>1. ASSUME Deleted(s, store[s], TRUE) /\ Advanced(r)
      PROVE  RetentionInv'
  <2>1. /\ store' \in [Sessions -> SUBSET Objects] /\ store'[s] \subseteq store[s]
        /\ \A t \in Sessions : t # s => store'[t] = store[t]
    BY <1>0, <1>1 DEF ReconcileStorage, At, Goto, Advanced, Deleted, RetentionTypeOK, Objects
  <2> DEFINE cp == runner[r].checkpoint + 1
  <2>2. cp \in SCHEDULED .. COMPLETED
    BY <1>0, <1>1 DEF ReconcileStorage, At, RunnerSlots
  <2> DEFINE k == [runner[r] EXCEPT !.pc = "recording", !.checkpoint = cp, !.keys = {}]
  <2> HIDE DEF cp
  <2>3. /\ k \in RunnerSlots /\ k.pc = "recording" /\ k.at = s /\ k.checkpoint = cp
        /\ k.attempts = runner[r].attempts
    BY <1>0, <1>1, <2>2 DEF RunnerSlots, RetentionTypeOK
  <2> USE DEF cp
  <2>4. /\ runner' = [runner EXCEPT ![r] = k]
        /\ UNCHANGED <<session, file, ledger, writer, run, cleaner, faults>>
    BY <1>0, <1>1 DEF ReconcileStorage, At, Goto, Advanced, Deleted, RetentionTypeOK
  <2> HIDE DEF k
  <2>5. RetentionTypeOK'
    BY <1>0, <2>1, <2>3, <2>4 DEF RetentionTypeOK, WriterSteps, Objects
  <2>6. /\ session'[s] = session[s] /\ file'[s] = file[s] /\ ledger'[s] = ledger[s]
        /\ writer'[s] = writer[s]
        /\ Others(s)
    BY <1>0, <2>1, <2>3, <2>4 DEF RetentionTypeOK
  <2>7. PeaceAt(s)
    BY <1>0, <1>1, <2>1, <2>3, <2>6 DEF PeaceAt, SessionOK, WriterOK, ReconcileStorage
  <2>8. WriterOK(s)'
    BY <1>0, <1>1, <2>1, <2>3, <2>6 DEF SessionOK, WriterOK, ReconcileStorage
  <2>9. SessionOK(s)'
    BY <1>0, <1>1, <2>1, <2>3, <2>6 DEF SessionOK, WriterOK, ReconcileStorage
  <2>10. NamesOK(s)'
    BY <1>0, <1>1, <2>1, <2>3, <2>6 DEF NamesOK, Named, SessionOK, WriterOK, ReconcileStorage
  <2>11. Peaceful /\ SessionsInv'
    BY <2>6, <2>7, <2>8, <2>9, <2>10, OneSession
  <2>12. /\ runner'[r] = k
         /\ \A q \in Runners : q # r => runner'[q] = runner[q]
    BY <1>0, <2>4 DEF RetentionTypeOK
  <2>13. /\ PastGrace(s)' /\ k.attempts < MaxAttempts
         /\ k.checkpoint >= ARTIFACTS_DELETED => Emptied(s)'
    BY <1>0, <1>1, <2>1, <2>3, <2>6 DEF SessionOK, WriterOK, ReconcileStorage, At, Goto,
      Advanced, Deleted
  <2>14. RunnerOK(r)'
    <3> HIDE DEF PastGrace, Quiet, Emptied
    <3> QED
      BY <2>1, <2>3, <2>6, <2>12, <2>13 DEF RunnerOK
  <2> QED
    BY <2>4, <2>12, <2>14, <2>5, <2>11, StepSafe
<1>2. ASSUME Deleted(s, store[s], FALSE) /\ Goto(r, "failing")
      PROVE  RetentionInv'
  <2>1. /\ store' \in [Sessions -> SUBSET Objects] /\ store'[s] \subseteq store[s]
        /\ \A t \in Sessions : t # s => store'[t] = store[t]
    BY <1>0, <1>2 DEF ReconcileStorage, At, Goto, Advanced, Deleted, RetentionTypeOK, Objects
  <2> DEFINE k == [runner[r] EXCEPT !.pc = "failing"]
  <2>2. /\ k \in RunnerSlots /\ k.pc = "failing" /\ k.at = s
        /\ k.checkpoint = runner[r].checkpoint /\ k.attempts = runner[r].attempts
    BY <1>0, <1>2 DEF RunnerSlots, RetentionTypeOK
  <2>3. /\ runner' = [runner EXCEPT ![r] = k]
        /\ UNCHANGED <<session, file, ledger, writer, run, cleaner, faults>>
    BY <1>0, <1>2 DEF ReconcileStorage, At, Goto, Advanced, Deleted, RetentionTypeOK
  <2> HIDE DEF k
  <2>4. RetentionTypeOK'
    BY <1>0, <2>1, <2>2, <2>3 DEF RetentionTypeOK, WriterSteps, Objects
  <2>5. /\ session'[s] = session[s] /\ file'[s] = file[s] /\ ledger'[s] = ledger[s]
        /\ writer'[s] = writer[s]
        /\ Others(s)
    BY <1>0, <2>1, <2>2, <2>3 DEF RetentionTypeOK
  <2>6. PeaceAt(s)
    BY <1>0, <1>2, <2>1, <2>2, <2>5 DEF PeaceAt, SessionOK, WriterOK, ReconcileStorage
  <2>7. WriterOK(s)'
    BY <1>0, <1>2, <2>1, <2>2, <2>5 DEF SessionOK, WriterOK, ReconcileStorage
  <2>8. SessionOK(s)'
    BY <1>0, <1>2, <2>1, <2>2, <2>5 DEF SessionOK, WriterOK, ReconcileStorage
  <2>9. NamesOK(s)'
    BY <1>0, <1>2, <2>1, <2>2, <2>5 DEF NamesOK, Named, SessionOK, WriterOK, ReconcileStorage
  <2>10. Peaceful /\ SessionsInv'
    BY <2>5, <2>6, <2>7, <2>8, <2>9, OneSession
  <2>11. /\ runner'[r] = k
         /\ \A q \in Runners : q # r => runner'[q] = runner[q]
    BY <1>0, <2>3 DEF RetentionTypeOK
  <2>12. /\ PastGrace(s)' /\ k.attempts < MaxAttempts
         /\ k.checkpoint >= ARTIFACTS_DELETED => Emptied(s)'
    BY <1>0, <1>2, <2>1, <2>2, <2>5 DEF SessionOK, WriterOK, ReconcileStorage, At, Goto,
      Advanced, Deleted
  <2>13. RunnerOK(r)'
    <3> HIDE DEF PastGrace, Quiet, Emptied
    <3> QED
      BY <2>1, <2>2, <2>5, <2>11, <2>12 DEF RunnerOK
  <2> QED
    BY <2>3, <2>11, <2>13, <2>4, <2>10, StepSafe
<1> QED
  BY <1>0, <1>1, <1>2 DEF ReconcileStorage, At, Goto, Advanced, Deleted

\* The last name goes when nothing bears it.
LEMMA ScrubMetadataSafe ==
  ASSUME RetentionInv, NEW r \in Runners, ScrubMetadata(r)
  PROVE  RetentionInv'
<1>0. PICK s \in Sessions :
        /\ runner[r].at = s
        /\ PastGrace(s) /\ runner[r].attempts < MaxAttempts
        /\ runner[r].checkpoint >= ARTIFACTS_DELETED => Emptied(s)
        /\ runner[r].pc \in {"deleting", "retiring"} =>
             /\ runner[r].checkpoint = ACCESS_REVOKED /\ Quiet(s)
             /\ store[s] \subseteq runner[r].keys \cup {"stray"}
        /\ runner[r].pc = "retiring" => runner[r].keys = {}
        /\ RetentionTypeOK /\ session[s] \in SessionRows /\ file[s] \in FileRows
        /\ ledger[s] \subseteq Objects /\ store[s] \subseteq Objects /\ writer[s] \in WriterSteps
        /\ WriterOK(s) /\ SessionOK(s) /\ NamesOK(s) /\ RunOK(s)
        /\ run[s] \in RunRows /\ runner[r] \in RunnerSlots
  <2>1. runner[r].pc # "idle" /\ RunnerOK(r)
    BY DEF ScrubMetadata, At, RetentionInv, RunnersInv
  <2>2. RetentionTypeOK /\ runner[r] \in RunnerSlots
    BY DEF RetentionInv, RetentionTypeOK
  <2> HIDE DEF PastGrace, Quiet, Emptied
  <2> QED
    BY <2>1, <2>2, RowsOf DEF RunnerOK
<1> DEFINE f == [file[s] EXCEPT !.key = FALSE, !.due = {}]
<1>1. f \in FileRows /\ f.status = file[s].status /\ f.key = FALSE /\ f.due = {}
  BY <1>0 DEF FileRows
<1>2. file' = [file EXCEPT ![s] = f]
  BY <1>0 DEF ScrubMetadata, At, Advanced
<1> HIDE DEF f
<1> DEFINE cp == runner[r].checkpoint + 1
<1>3. cp \in SCHEDULED .. COMPLETED
  BY <1>0 DEF ScrubMetadata, At, RunnerSlots
<1> DEFINE k == [runner[r] EXCEPT !.pc = "recording", !.checkpoint = cp, !.keys = {}]
<1> HIDE DEF cp
<1>4. /\ k \in RunnerSlots /\ k.pc = "recording" /\ k.at = s /\ k.checkpoint = cp
      /\ k.attempts = runner[r].attempts
  BY <1>0, <1>3 DEF RunnerSlots, RetentionTypeOK
<1> USE DEF cp
<1>5. /\ runner' = [runner EXCEPT ![r] = k]
      /\ UNCHANGED <<session, ledger, store, writer, run, cleaner, faults>>
  BY <1>0 DEF ScrubMetadata, At, Advanced, RetentionTypeOK
<1> HIDE DEF k
<1>6. RetentionTypeOK'
  BY <1>0, <1>1, <1>2, <1>4, <1>5 DEF RetentionTypeOK, WriterSteps, Objects
<1>7. /\ session'[s] = session[s] /\ file'[s] = f /\ ledger'[s] = ledger[s]
      /\ store'[s] = store[s] /\ writer'[s] = writer[s]
      /\ Others(s)
  BY <1>0, <1>1, <1>2, <1>4, <1>5 DEF RetentionTypeOK
<1>8. PeaceAt(s)
  BY <1>0, <1>1, <1>2, <1>4, <1>7 DEF PeaceAt, SessionOK, WriterOK, ScrubMetadata, At
<1>9. WriterOK(s)'
  BY <1>0, <1>1, <1>2, <1>4, <1>7 DEF SessionOK, WriterOK, ScrubMetadata, At
<1>10. SessionOK(s)'
  BY <1>0, <1>1, <1>2, <1>4, <1>7 DEF SessionOK, WriterOK, ScrubMetadata, At
<1>11. NamesOK(s)'
  BY <1>0, <1>1, <1>2, <1>4, <1>7 DEF NamesOK, Named, SessionOK, WriterOK, ScrubMetadata, At
<1>12. Peaceful /\ SessionsInv'
  BY <1>7, <1>8, <1>9, <1>10, <1>11, OneSession
<1>13. /\ runner'[r] = k
       /\ \A q \in Runners : q # r => runner'[q] = runner[q]
  BY <1>0, <1>5 DEF RetentionTypeOK
<1>14. /\ PastGrace(s)' /\ k.attempts < MaxAttempts
       /\ k.checkpoint >= ARTIFACTS_DELETED => Emptied(s)'
  BY <1>0, <1>1, <1>2, <1>4, <1>7 DEF SessionOK, WriterOK, ScrubMetadata, At, Advanced
<1>15. RunnerOK(r)'
  <2> HIDE DEF PastGrace, Quiet, Emptied
  <2> QED
    BY <1>1, <1>2, <1>4, <1>7, <1>13, <1>14 DEF RunnerOK
<1> QED
  BY <1>5, <1>13, <1>15, <1>6, <1>12, StepSafe

\* What is recorded is what the holder has reached.
LEMMA RecordCheckpointSafe ==
  ASSUME RetentionInv, NEW r \in Runners, RecordCheckpoint(r)
  PROVE  RetentionInv'
<1>0. PICK s \in Sessions :
        /\ runner[r].at = s
        /\ PastGrace(s) /\ runner[r].attempts < MaxAttempts
        /\ runner[r].checkpoint >= ARTIFACTS_DELETED => Emptied(s)
        /\ runner[r].pc \in {"deleting", "retiring"} =>
             /\ runner[r].checkpoint = ACCESS_REVOKED /\ Quiet(s)
             /\ store[s] \subseteq runner[r].keys \cup {"stray"}
        /\ runner[r].pc = "retiring" => runner[r].keys = {}
        /\ RetentionTypeOK /\ session[s] \in SessionRows /\ file[s] \in FileRows
        /\ ledger[s] \subseteq Objects /\ store[s] \subseteq Objects /\ writer[s] \in WriterSteps
        /\ WriterOK(s) /\ SessionOK(s) /\ NamesOK(s) /\ RunOK(s)
        /\ run[s] \in RunRows /\ runner[r] \in RunnerSlots
  <2>1. runner[r].pc # "idle" /\ RunnerOK(r)
    BY DEF RecordCheckpoint, RetentionInv, RunnersInv
  <2>2. RetentionTypeOK /\ runner[r] \in RunnerSlots
    BY DEF RetentionInv, RetentionTypeOK
  <2> HIDE DEF PastGrace, Quiet, Emptied
  <2> QED
    BY <2>1, <2>2, RowsOf DEF RunnerOK
<1>1. CASE Holds(r)
  <2> DEFINE h == [run[s] EXCEPT !.checkpoint = runner[r].checkpoint]
  <2>1. /\ h \in RunRows /\ h.status = run[s].status /\ h.attempts = run[s].attempts
        /\ h.holder = run[s].holder /\ h.checkpoint = runner[r].checkpoint
    BY <1>0, <1>1 DEF RunRows, RetentionTypeOK, RunnerSlots
  <2> DEFINE k == [runner[r] EXCEPT !.pc = "advancing"]
  <2>2. /\ k \in RunnerSlots /\ k.pc = "advancing" /\ k.at = s
        /\ k.checkpoint = runner[r].checkpoint /\ k.attempts = runner[r].attempts
    BY <1>0, <1>1 DEF RunnerSlots, RetentionTypeOK
  <2>3. /\ run' = [run EXCEPT ![s] = h]
        /\ runner' = [runner EXCEPT ![r] = k]
        /\ UNCHANGED <<session, file, ledger, store, writer, cleaner, faults>>
    BY <1>0, <1>1 DEF RecordCheckpoint, Goto, RetentionTypeOK
  <2> HIDE DEF h, k
  <2>4. RetentionTypeOK'
    BY <1>0, <2>1, <2>2, <2>3 DEF RetentionTypeOK, WriterSteps, Objects
  <2>5. /\ session'[s] = session[s] /\ file'[s] = file[s] /\ ledger'[s] = ledger[s]
        /\ store'[s] = store[s] /\ writer'[s] = writer[s]
        /\ Others(s)
    BY <1>0, <2>1, <2>2, <2>3 DEF RetentionTypeOK
  <2>6. PeaceAt(s)
    BY <1>0, <1>1, <2>1, <2>2, <2>5 DEF PeaceAt, SessionOK, WriterOK, RecordCheckpoint
  <2>7. WriterOK(s)'
    BY <1>0, <1>1, <2>1, <2>2, <2>5 DEF SessionOK, WriterOK, RecordCheckpoint
  <2>8. SessionOK(s)'
    BY <1>0, <1>1, <2>1, <2>2, <2>5 DEF SessionOK, WriterOK, RecordCheckpoint
  <2>9. NamesOK(s)'
    BY <1>0, <1>1, <2>1, <2>2, <2>5 DEF NamesOK, Named, SessionOK, WriterOK, RecordCheckpoint
  <2>10. Peaceful /\ SessionsInv'
    BY <2>5, <2>6, <2>7, <2>8, <2>9, OneSession
  <2>11. /\ run'[s] = h
         /\ \A t \in Sessions : t # s => run'[t] = run[t]
    BY <1>0, <2>3 DEF RetentionTypeOK
  <2>12. RunOK(s)'
    BY <1>0, <1>1, <2>1, <2>2, <2>5, <2>11 DEF RunOK, SessionOK, WriterOK, NamesOK, Named,
      RunRows
  <2>13. /\ runner'[r] = k
         /\ \A q \in Runners : q # r => runner'[q] = runner[q]
    BY <1>0, <2>3 DEF RetentionTypeOK
  <2>14. /\ PastGrace(s)' /\ k.attempts < MaxAttempts
         /\ k.checkpoint >= ARTIFACTS_DELETED => Emptied(s)'
    BY <1>0, <1>1, <2>1, <2>2, <2>5 DEF SessionOK, WriterOK, RecordCheckpoint, Goto
  <2>15. RunnerOK(r)'
    <3> HIDE DEF PastGrace, Quiet, Emptied
    <3> QED
      BY <2>1, <2>2, <2>5, <2>13, <2>14 DEF RunnerOK
  <2> QED
    BY <2>3, <2>11, <2>12, <2>13, <2>15, <2>4, <2>10, StepSafe
<1>2. CASE ~Holds(r)
  <2> DEFINE k == [runner[r] EXCEPT !.pc = "failing"]
  <2>1. /\ k \in RunnerSlots /\ k.pc = "failing" /\ k.at = s
        /\ k.checkpoint = runner[r].checkpoint /\ k.attempts = runner[r].attempts
    BY <1>0, <1>2 DEF RunnerSlots, RetentionTypeOK
  <2>2. /\ runner' = [runner EXCEPT ![r] = k]
        /\ UNCHANGED <<session, file, ledger, store, writer, run, cleaner, faults>>
    BY <1>0, <1>2 DEF RecordCheckpoint, Goto, RetentionTypeOK
  <2> HIDE DEF k
  <2>3. RetentionTypeOK'
    BY <1>0, <2>1, <2>2 DEF RetentionTypeOK, WriterSteps, Objects
  <2>4. /\ session'[s] = session[s] /\ file'[s] = file[s] /\ ledger'[s] = ledger[s]
        /\ store'[s] = store[s] /\ writer'[s] = writer[s]
        /\ Others(s)
    BY <1>0, <2>1, <2>2 DEF RetentionTypeOK
  <2>5. PeaceAt(s)
    BY <1>0, <1>2, <2>1, <2>4 DEF PeaceAt, SessionOK, WriterOK, RecordCheckpoint
  <2>6. WriterOK(s)'
    BY <1>0, <1>2, <2>1, <2>4 DEF SessionOK, WriterOK, RecordCheckpoint
  <2>7. SessionOK(s)'
    BY <1>0, <1>2, <2>1, <2>4 DEF SessionOK, WriterOK, RecordCheckpoint
  <2>8. NamesOK(s)'
    BY <1>0, <1>2, <2>1, <2>4 DEF NamesOK, Named, SessionOK, WriterOK, RecordCheckpoint
  <2>9. Peaceful /\ SessionsInv'
    BY <2>4, <2>5, <2>6, <2>7, <2>8, OneSession
  <2>10. /\ runner'[r] = k
         /\ \A q \in Runners : q # r => runner'[q] = runner[q]
    BY <1>0, <2>2 DEF RetentionTypeOK
  <2>11. /\ PastGrace(s)' /\ k.attempts < MaxAttempts
         /\ k.checkpoint >= ARTIFACTS_DELETED => Emptied(s)'
    BY <1>0, <1>2, <2>1, <2>4 DEF SessionOK, WriterOK, RecordCheckpoint, Goto
  <2>12. RunnerOK(r)'
    <3> HIDE DEF PastGrace, Quiet, Emptied
    <3> QED
      BY <2>1, <2>4, <2>10, <2>11 DEF RunnerOK
  <2> QED
    BY <2>2, <2>10, <2>12, <2>3, <2>9, StepSafe
<1> QED
  BY <1>0, <1>1, <1>2 DEF RecordCheckpoint, Goto

\* A session is emptied when its run ends.
LEMMA FinishSafe ==
  ASSUME RetentionInv, NEW r \in Runners, Finish(r)
  PROVE  RetentionInv'
<1>0. PICK s \in Sessions :
        /\ runner[r].at = s
        /\ PastGrace(s) /\ runner[r].attempts < MaxAttempts
        /\ runner[r].checkpoint >= ARTIFACTS_DELETED => Emptied(s)
        /\ runner[r].pc \in {"deleting", "retiring"} =>
             /\ runner[r].checkpoint = ACCESS_REVOKED /\ Quiet(s)
             /\ store[s] \subseteq runner[r].keys \cup {"stray"}
        /\ runner[r].pc = "retiring" => runner[r].keys = {}
        /\ RetentionTypeOK /\ session[s] \in SessionRows /\ file[s] \in FileRows
        /\ ledger[s] \subseteq Objects /\ store[s] \subseteq Objects /\ writer[s] \in WriterSteps
        /\ WriterOK(s) /\ SessionOK(s) /\ NamesOK(s) /\ RunOK(s)
        /\ run[s] \in RunRows /\ runner[r] \in RunnerSlots
  <2>1. runner[r].pc # "idle" /\ RunnerOK(r)
    BY DEF Finish, At, RetentionInv, RunnersInv
  <2>2. RetentionTypeOK /\ runner[r] \in RunnerSlots
    BY DEF RetentionInv, RetentionTypeOK
  <2> HIDE DEF PastGrace, Quiet, Emptied
  <2> QED
    BY <2>1, <2>2, RowsOf DEF RunnerOK
<1>1. CASE Holds(r) /\ Removed(s)
  <2> DEFINE n == [session[s] EXCEPT !.mirror = "DONE", !.deleted = TRUE]
  <2>1. /\ n \in SessionRows /\ n.state = session[s].state /\ n.grace = session[s].grace
        /\ n.mirror = "DONE" /\ n.deleted = TRUE
    BY <1>0, <1>1 DEF SessionRows, RetentionTypeOK
  <2> DEFINE h == [run[s] EXCEPT !.holder = Nobody, !.leased = FALSE, !.status = "DONE",
                              !.checkpoint = COMPLETED]
  <2>2. /\ h \in RunRows /\ h.status = "DONE" /\ h.attempts = run[s].attempts
        /\ h.holder = Nobody /\ h.checkpoint = COMPLETED
    <3>1. run[s] \in RunRows /\ COMPLETED \in SCHEDULED .. COMPLETED
      BY <1>0
    <3> HIDE DEF SCHEDULED, COMPLETED
    <3> QED
      BY <3>1 DEF RunRows
  <2> DEFINE k == Waiting
  <2>3. k \in RunnerSlots /\ k.pc = "idle"
    BY WaitingRow
  <2>4. /\ session' = [session EXCEPT ![s] = n]
        /\ run' = [run EXCEPT ![s] = h]
        /\ runner' = [runner EXCEPT ![r] = k]
        /\ UNCHANGED <<file, ledger, store, writer, cleaner, faults>>
    BY <1>0, <1>1 DEF Finish, At, Released, RetentionTypeOK
  <2> HIDE DEF n, h, k
  <2>5. RetentionTypeOK'
    BY <1>0, <2>1, <2>2, <2>3, <2>4 DEF RetentionTypeOK, WriterSteps, Objects
  <2>6. /\ session'[s] = n /\ file'[s] = file[s] /\ ledger'[s] = ledger[s]
        /\ store'[s] = store[s] /\ writer'[s] = writer[s]
        /\ Others(s)
    BY <1>0, <2>1, <2>2, <2>3, <2>4 DEF RetentionTypeOK
  <2>7. PeaceAt(s)
    BY <1>0, <1>1, <2>1, <2>2, <2>3, <2>6 DEF PeaceAt, SessionOK, WriterOK, Finish, At,
      SessionRows
  <2>8. WriterOK(s)'
    BY <1>0, <1>1, <2>1, <2>2, <2>3, <2>6 DEF SessionOK, WriterOK, Finish, At, SessionRows
  <2>9. SessionOK(s)'
    BY <1>0, <1>1, <2>1, <2>2, <2>3, <2>6 DEF SessionOK, WriterOK, Finish, At, SessionRows
  <2>10. NamesOK(s)'
    BY <1>0, <1>1, <2>1, <2>2, <2>3, <2>6 DEF NamesOK, Named, SessionOK, WriterOK, Finish, At,
      SessionRows
  <2>11. Peaceful /\ SessionsInv'
    BY <2>6, <2>7, <2>8, <2>9, <2>10, OneSession
  <2>12. /\ run'[s] = h
         /\ \A t \in Sessions : t # s => run'[t] = run[t]
    BY <1>0, <2>4 DEF RetentionTypeOK
  <2>13. RunOK(s)'
    BY <1>0, <1>1, <2>1, <2>2, <2>3, <2>6, <2>12 DEF RunOK, Finish, At
  <2>14. /\ runner'[r] = k
         /\ \A q \in Runners : q # r => runner'[q] = runner[q]
    BY <1>0, <2>4 DEF RetentionTypeOK
  <2>15. RunnerOK(r)'
    BY <1>0, <1>1, <2>1, <2>2, <2>3, <2>6, <2>14 DEF RunnerOK, RunOK, SessionOK, WriterOK,
      NamesOK, Named, SessionRows, RunnerSlots
  <2> QED
    BY <2>4, <2>12, <2>13, <2>14, <2>15, <2>5, <2>11, StepSafe
<1>2. CASE Holds(r) /\ ~Removed(s)
  <2> DEFINE k == [runner[r] EXCEPT !.pc = "failing"]
  <2>1. /\ k \in RunnerSlots /\ k.pc = "failing" /\ k.at = s
        /\ k.checkpoint = runner[r].checkpoint /\ k.attempts = runner[r].attempts
    BY <1>0, <1>2 DEF RunnerSlots, RetentionTypeOK
  <2>2. /\ runner' = [runner EXCEPT ![r] = k]
        /\ UNCHANGED <<session, file, ledger, store, writer, run, cleaner, faults>>
    BY <1>0, <1>2 DEF Finish, At, Released, RetentionTypeOK
  <2> HIDE DEF k
  <2>3. RetentionTypeOK'
    BY <1>0, <2>1, <2>2 DEF RetentionTypeOK, WriterSteps, Objects
  <2>4. /\ session'[s] = session[s] /\ file'[s] = file[s] /\ ledger'[s] = ledger[s]
        /\ store'[s] = store[s] /\ writer'[s] = writer[s]
        /\ Others(s)
    BY <1>0, <2>1, <2>2 DEF RetentionTypeOK
  <2>5. PeaceAt(s)
    BY <1>0, <1>2, <2>1, <2>4 DEF PeaceAt, SessionOK, WriterOK, Finish
  <2>6. WriterOK(s)'
    BY <1>0, <1>2, <2>1, <2>4 DEF SessionOK, WriterOK, Finish
  <2>7. SessionOK(s)'
    BY <1>0, <1>2, <2>1, <2>4 DEF SessionOK, WriterOK, Finish
  <2>8. NamesOK(s)'
    BY <1>0, <1>2, <2>1, <2>4 DEF NamesOK, Named, SessionOK, WriterOK, Finish
  <2>9. Peaceful /\ SessionsInv'
    BY <2>4, <2>5, <2>6, <2>7, <2>8, OneSession
  <2>10. /\ runner'[r] = k
         /\ \A q \in Runners : q # r => runner'[q] = runner[q]
    BY <1>0, <2>2 DEF RetentionTypeOK
  <2>11. /\ PastGrace(s)' /\ k.attempts < MaxAttempts
         /\ k.checkpoint >= ARTIFACTS_DELETED => Emptied(s)'
    BY <1>0, <1>2, <2>1, <2>4 DEF SessionOK, WriterOK, Finish, At, Released
  <2>12. RunnerOK(r)'
    <3> HIDE DEF PastGrace, Quiet, Emptied
    <3> QED
      BY <2>1, <2>4, <2>10, <2>11 DEF RunnerOK
  <2> QED
    BY <2>2, <2>10, <2>12, <2>3, <2>9, StepSafe
<1>3. CASE ~Holds(r)
  <2> DEFINE k == Waiting
  <2>1. k \in RunnerSlots /\ k.pc = "idle"
    BY WaitingRow
  <2>2. /\ runner' = [runner EXCEPT ![r] = k]
        /\ UNCHANGED <<session, file, ledger, store, writer, run, cleaner, faults>>
    BY <1>0, <1>3 DEF Finish, At, Released, RetentionTypeOK
  <2> HIDE DEF k
  <2>3. RetentionTypeOK'
    BY <1>0, <2>1, <2>2 DEF RetentionTypeOK, WriterSteps, Objects
  <2>4. /\ session'[s] = session[s] /\ file'[s] = file[s] /\ ledger'[s] = ledger[s]
        /\ store'[s] = store[s] /\ writer'[s] = writer[s]
        /\ Others(s)
    BY <1>0, <2>1, <2>2 DEF RetentionTypeOK
  <2>5. PeaceAt(s)
    BY <1>0, <1>3, <2>1, <2>4 DEF PeaceAt, SessionOK, WriterOK, Finish
  <2>6. WriterOK(s)'
    BY <1>0, <1>3, <2>1, <2>4 DEF SessionOK, WriterOK, Finish
  <2>7. SessionOK(s)'
    BY <1>0, <1>3, <2>1, <2>4 DEF SessionOK, WriterOK, Finish
  <2>8. NamesOK(s)'
    BY <1>0, <1>3, <2>1, <2>4 DEF NamesOK, Named, SessionOK, WriterOK, Finish
  <2>9. Peaceful /\ SessionsInv'
    BY <2>4, <2>5, <2>6, <2>7, <2>8, OneSession
  <2>10. /\ runner'[r] = k
         /\ \A q \in Runners : q # r => runner'[q] = runner[q]
    BY <1>0, <2>2 DEF RetentionTypeOK
  <2>11. RunnerOK(r)'
    BY <1>0, <1>3, <2>1, <2>4, <2>10 DEF RunnerOK, RunOK, SessionOK, WriterOK, NamesOK, Named,
      RunnerSlots
  <2> QED
    BY <2>2, <2>10, <2>11, <2>3, <2>9, StepSafe
<1> QED
  BY <1>0, <1>1, <1>2, <1>3 DEF Finish, At, Released

\* A run that met a barrier waits, with its attempts.
LEMMA DeferRunSafe ==
  ASSUME RetentionInv, NEW r \in Runners, DeferRun(r)
  PROVE  RetentionInv'
<1>0. PICK s \in Sessions :
        /\ runner[r].at = s
        /\ PastGrace(s) /\ runner[r].attempts < MaxAttempts
        /\ runner[r].checkpoint >= ARTIFACTS_DELETED => Emptied(s)
        /\ runner[r].pc \in {"deleting", "retiring"} =>
             /\ runner[r].checkpoint = ACCESS_REVOKED /\ Quiet(s)
             /\ store[s] \subseteq runner[r].keys \cup {"stray"}
        /\ runner[r].pc = "retiring" => runner[r].keys = {}
        /\ RetentionTypeOK /\ session[s] \in SessionRows /\ file[s] \in FileRows
        /\ ledger[s] \subseteq Objects /\ store[s] \subseteq Objects /\ writer[s] \in WriterSteps
        /\ WriterOK(s) /\ SessionOK(s) /\ NamesOK(s) /\ RunOK(s)
        /\ run[s] \in RunRows /\ runner[r] \in RunnerSlots
  <2>1. runner[r].pc # "idle" /\ RunnerOK(r)
    BY DEF DeferRun, RetentionInv, RunnersInv
  <2>2. RetentionTypeOK /\ runner[r] \in RunnerSlots
    BY DEF RetentionInv, RetentionTypeOK
  <2> HIDE DEF PastGrace, Quiet, Emptied
  <2> QED
    BY <2>1, <2>2, RowsOf DEF RunnerOK
<1>1. CASE Holds(r)
  <2> DEFINE n == [session[s] EXCEPT !.mirror = "PENDING"]
  <2>1. /\ n \in SessionRows /\ n.state = session[s].state /\ n.grace = session[s].grace
        /\ n.mirror = "PENDING" /\ n.deleted = session[s].deleted
    BY <1>0, <1>1 DEF SessionRows, RetentionTypeOK
  <2> DEFINE h == [Released(s) EXCEPT !.status = "PENDING"]
  <2>2. /\ h \in RunRows /\ h.status = "PENDING" /\ h.attempts = run[s].attempts
        /\ h.holder = Nobody /\ h.checkpoint = run[s].checkpoint
    BY <1>0, <1>1 DEF RunRows, RetentionTypeOK, Released
  <2> DEFINE k == Waiting
  <2>3. k \in RunnerSlots /\ k.pc = "idle"
    BY WaitingRow
  <2>4. /\ session' = [session EXCEPT ![s] = n]
        /\ run' = [run EXCEPT ![s] = h]
        /\ runner' = [runner EXCEPT ![r] = k]
        /\ UNCHANGED <<file, ledger, store, writer, cleaner, faults>>
    BY <1>0, <1>1 DEF DeferRun, Released, RetentionTypeOK
  <2> HIDE DEF n, h, k
  <2>5. RetentionTypeOK'
    BY <1>0, <2>1, <2>2, <2>3, <2>4 DEF RetentionTypeOK, WriterSteps, Objects
  <2>6. /\ session'[s] = n /\ file'[s] = file[s] /\ ledger'[s] = ledger[s]
        /\ store'[s] = store[s] /\ writer'[s] = writer[s]
        /\ Others(s)
    BY <1>0, <2>1, <2>2, <2>3, <2>4 DEF RetentionTypeOK
  <2>7. PeaceAt(s)
    BY <1>0, <1>1, <2>1, <2>2, <2>3, <2>6 DEF PeaceAt, SessionOK, WriterOK, DeferRun,
      SessionRows
  <2>8. WriterOK(s)'
    BY <1>0, <1>1, <2>1, <2>2, <2>3, <2>6 DEF SessionOK, WriterOK, DeferRun, SessionRows
  <2>9. SessionOK(s)'
    BY <1>0, <1>1, <2>1, <2>2, <2>3, <2>6 DEF SessionOK, WriterOK, DeferRun, SessionRows
  <2>10. NamesOK(s)'
    BY <1>0, <1>1, <2>1, <2>2, <2>3, <2>6 DEF NamesOK, Named, SessionOK, WriterOK, DeferRun,
      SessionRows
  <2>11. Peaceful /\ SessionsInv'
    BY <2>6, <2>7, <2>8, <2>9, <2>10, OneSession
  <2>12. /\ run'[s] = h
         /\ \A t \in Sessions : t # s => run'[t] = run[t]
    BY <1>0, <2>4 DEF RetentionTypeOK
  <2>13. RunOK(s)'
    BY <1>0, <1>1, <2>1, <2>2, <2>6, <2>12, RetentionAssumption DEF RunOK, Holds
  <2>14. /\ runner'[r] = k
         /\ \A q \in Runners : q # r => runner'[q] = runner[q]
    BY <1>0, <2>4 DEF RetentionTypeOK
  <2>15. RunnerOK(r)'
    BY <1>0, <1>1, <2>1, <2>2, <2>3, <2>6, <2>14 DEF RunnerOK, RunOK, SessionOK, WriterOK,
      NamesOK, Named, SessionRows, RunnerSlots
  <2> QED
    BY <2>4, <2>12, <2>13, <2>14, <2>15, <2>5, <2>11, StepSafe
<1>2. CASE ~Holds(r)
  <2> DEFINE k == Waiting
  <2>1. k \in RunnerSlots /\ k.pc = "idle"
    BY WaitingRow
  <2>2. /\ runner' = [runner EXCEPT ![r] = k]
        /\ UNCHANGED <<session, file, ledger, store, writer, run, cleaner, faults>>
    BY <1>0, <1>2 DEF DeferRun, Released, RetentionTypeOK
  <2> HIDE DEF k
  <2>3. RetentionTypeOK'
    BY <1>0, <2>1, <2>2 DEF RetentionTypeOK, WriterSteps, Objects
  <2>4. /\ session'[s] = session[s] /\ file'[s] = file[s] /\ ledger'[s] = ledger[s]
        /\ store'[s] = store[s] /\ writer'[s] = writer[s]
        /\ Others(s)
    BY <1>0, <2>1, <2>2 DEF RetentionTypeOK
  <2>5. PeaceAt(s)
    BY <1>0, <1>2, <2>1, <2>4 DEF PeaceAt, SessionOK, WriterOK, DeferRun
  <2>6. WriterOK(s)'
    BY <1>0, <1>2, <2>1, <2>4 DEF SessionOK, WriterOK, DeferRun
  <2>7. SessionOK(s)'
    BY <1>0, <1>2, <2>1, <2>4 DEF SessionOK, WriterOK, DeferRun
  <2>8. NamesOK(s)'
    BY <1>0, <1>2, <2>1, <2>4 DEF NamesOK, Named, SessionOK, WriterOK, DeferRun
  <2>9. Peaceful /\ SessionsInv'
    BY <2>4, <2>5, <2>6, <2>7, <2>8, OneSession
  <2>10. /\ runner'[r] = k
         /\ \A q \in Runners : q # r => runner'[q] = runner[q]
    BY <1>0, <2>2 DEF RetentionTypeOK
  <2>11. RunnerOK(r)'
    BY <1>0, <1>2, <2>1, <2>4, <2>10 DEF RunnerOK, RunOK, SessionOK, WriterOK, NamesOK, Named,
      RunnerSlots
  <2> QED
    BY <2>2, <2>10, <2>11, <2>3, <2>9, StepSafe
<1> QED
  BY <1>0, <1>1, <1>2 DEF DeferRun, Released

\* A failed run has an attempt less, and gives up with the last.
LEMMA FailRunSafe ==
  ASSUME RetentionInv, NEW r \in Runners, FailRun(r)
  PROVE  RetentionInv'
<1>0. PICK s \in Sessions :
        /\ runner[r].at = s
        /\ PastGrace(s) /\ runner[r].attempts < MaxAttempts
        /\ runner[r].checkpoint >= ARTIFACTS_DELETED => Emptied(s)
        /\ runner[r].pc \in {"deleting", "retiring"} =>
             /\ runner[r].checkpoint = ACCESS_REVOKED /\ Quiet(s)
             /\ store[s] \subseteq runner[r].keys \cup {"stray"}
        /\ runner[r].pc = "retiring" => runner[r].keys = {}
        /\ RetentionTypeOK /\ session[s] \in SessionRows /\ file[s] \in FileRows
        /\ ledger[s] \subseteq Objects /\ store[s] \subseteq Objects /\ writer[s] \in WriterSteps
        /\ WriterOK(s) /\ SessionOK(s) /\ NamesOK(s) /\ RunOK(s)
        /\ run[s] \in RunRows /\ runner[r] \in RunnerSlots
  <2>1. runner[r].pc # "idle" /\ RunnerOK(r)
    BY DEF FailRun, RetentionInv, RunnersInv
  <2>2. RetentionTypeOK /\ runner[r] \in RunnerSlots
    BY DEF RetentionInv, RetentionTypeOK
  <2> HIDE DEF PastGrace, Quiet, Emptied
  <2> QED
    BY <2>1, <2>2, RowsOf DEF RunnerOK
<1>1. CASE Holds(r)
  <2> DEFINE dead == Exhausted(runner[r].attempts)
           status == IF dead THEN "DEAD_LETTER" ELSE "PENDING"
           tries == runner[r].attempts + 1
           asked == run[s].requested /\ ~dead
  <2>1. /\ dead \in BOOLEAN /\ asked \in BOOLEAN
        /\ status \in {"DEAD_LETTER", "PENDING"} /\ tries \in 0 .. MaxAttempts
        /\ status = "PENDING" => tries < MaxAttempts
    BY <1>0, <1>1, RetentionAssumption DEF Exhausted, RunnerSlots, RunRows
  <2> HIDE DEF dead, status, tries, asked
  <2> DEFINE n == [session[s] EXCEPT !.mirror = status]
  <2>2. /\ n \in SessionRows /\ n.state = session[s].state /\ n.grace = session[s].grace
        /\ n.mirror = status /\ n.deleted = session[s].deleted
    BY <1>0, <1>1, <2>1 DEF SessionRows, RetentionTypeOK
  <2> DEFINE h == [Released(s) EXCEPT !.status = status, !.attempts = tries,
                                      !.deadLettered = dead, !.requested = asked]
  <2>3. /\ h \in RunRows /\ h.status = status /\ h.attempts = tries /\ h.holder = Nobody
        /\ h.checkpoint = run[s].checkpoint
    BY <1>0, <1>1, <2>1 DEF RunRows, RetentionTypeOK, Released
  <2> DEFINE k == Waiting
  <2>4. k \in RunnerSlots /\ k.pc = "idle"
    BY WaitingRow
  <2> USE DEF dead, status, tries, asked
  <2>5. /\ session' = [session EXCEPT ![s] = n]
        /\ run' = [run EXCEPT ![s] = h]
        /\ runner' = [runner EXCEPT ![r] = k]
        /\ UNCHANGED <<file, ledger, store, writer, cleaner, faults>>
    BY <1>0, <1>1 DEF FailRun, Released, RetentionTypeOK
  <2> HIDE DEF n, h, k, dead, status, tries, asked
  <2>6. RetentionTypeOK'
    BY <1>0, <2>1, <2>2, <2>3, <2>4, <2>5 DEF RetentionTypeOK, WriterSteps, Objects
  <2>7. /\ session'[s] = n /\ file'[s] = file[s] /\ ledger'[s] = ledger[s]
        /\ store'[s] = store[s] /\ writer'[s] = writer[s]
        /\ Others(s)
    BY <1>0, <2>1, <2>2, <2>3, <2>4, <2>5 DEF RetentionTypeOK
  <2>8. PeaceAt(s)
    BY <1>0, <1>1, <2>1, <2>2, <2>3, <2>4, <2>7 DEF PeaceAt, SessionOK, WriterOK, FailRun,
      SessionRows
  <2>9. WriterOK(s)'
    BY <1>0, <1>1, <2>1, <2>2, <2>3, <2>4, <2>7 DEF SessionOK, WriterOK, FailRun, SessionRows
  <2>10. SessionOK(s)'
    BY <1>0, <1>1, <2>1, <2>2, <2>3, <2>4, <2>7 DEF SessionOK, WriterOK, FailRun, SessionRows
  <2>11. NamesOK(s)'
    BY <1>0, <1>1, <2>1, <2>2, <2>3, <2>4, <2>7 DEF NamesOK, Named, SessionOK, WriterOK,
      FailRun, SessionRows
  <2>12. Peaceful /\ SessionsInv'
    BY <2>7, <2>8, <2>9, <2>10, <2>11, OneSession
  <2>13. /\ run'[s] = h
         /\ \A t \in Sessions : t # s => run'[t] = run[t]
    BY <1>0, <2>5 DEF RetentionTypeOK
  <2>14. RunOK(s)'
    BY <1>0, <1>1, <2>1, <2>2, <2>3, <2>4, <2>7, <2>13 DEF RunOK, SessionOK, WriterOK, NamesOK,
      Named, SessionRows, RunRows
  <2>15. /\ runner'[r] = k
         /\ \A q \in Runners : q # r => runner'[q] = runner[q]
    BY <1>0, <2>5 DEF RetentionTypeOK
  <2>16. RunnerOK(r)'
    BY <1>0, <1>1, <2>1, <2>2, <2>3, <2>4, <2>7, <2>15 DEF RunnerOK, RunOK, SessionOK, WriterOK,
      NamesOK, Named, SessionRows, RunnerSlots
  <2> QED
    BY <2>5, <2>13, <2>14, <2>15, <2>16, <2>6, <2>12, StepSafe
<1>2. CASE ~Holds(r)
  <2> DEFINE k == Waiting
  <2>1. k \in RunnerSlots /\ k.pc = "idle"
    BY WaitingRow
  <2>2. /\ runner' = [runner EXCEPT ![r] = k]
        /\ UNCHANGED <<session, file, ledger, store, writer, run, cleaner, faults>>
    BY <1>0, <1>2 DEF FailRun, Released, RetentionTypeOK
  <2> HIDE DEF k
  <2>3. RetentionTypeOK'
    BY <1>0, <2>1, <2>2 DEF RetentionTypeOK, WriterSteps, Objects
  <2>4. /\ session'[s] = session[s] /\ file'[s] = file[s] /\ ledger'[s] = ledger[s]
        /\ store'[s] = store[s] /\ writer'[s] = writer[s]
        /\ Others(s)
    BY <1>0, <2>1, <2>2 DEF RetentionTypeOK
  <2>5. PeaceAt(s)
    BY <1>0, <1>2, <2>1, <2>4 DEF PeaceAt, SessionOK, WriterOK, FailRun
  <2>6. WriterOK(s)'
    BY <1>0, <1>2, <2>1, <2>4 DEF SessionOK, WriterOK, FailRun
  <2>7. SessionOK(s)'
    BY <1>0, <1>2, <2>1, <2>4 DEF SessionOK, WriterOK, FailRun
  <2>8. NamesOK(s)'
    BY <1>0, <1>2, <2>1, <2>4 DEF NamesOK, Named, SessionOK, WriterOK, FailRun
  <2>9. Peaceful /\ SessionsInv'
    BY <2>4, <2>5, <2>6, <2>7, <2>8, OneSession
  <2>10. /\ runner'[r] = k
         /\ \A q \in Runners : q # r => runner'[q] = runner[q]
    BY <1>0, <2>2 DEF RetentionTypeOK
  <2>11. RunnerOK(r)'
    BY <1>0, <1>2, <2>1, <2>4, <2>10 DEF RunnerOK, RunOK, SessionOK, WriterOK, NamesOK, Named,
      RunnerSlots
  <2> QED
    BY <2>2, <2>10, <2>11, <2>3, <2>9, StepSafe
<1> QED
  BY <1>0, <1>1, <1>2 DEF FailRun, Released

\* A run that is claimed is past the grace and has attempts left.
LEMMA ClaimNextSafe ==
  ASSUME RetentionInv, NEW r \in Runners, NEW s \in Sessions, ClaimNext(r, s)
  PROVE  RetentionInv'
<1>0. /\ RetentionTypeOK /\ session[s] \in SessionRows /\ file[s] \in FileRows
      /\ run[s] \in RunRows
      /\ ledger[s] \subseteq Objects /\ store[s] \subseteq Objects /\ writer[s] \in WriterSteps
      /\ WriterOK(s) /\ SessionOK(s) /\ NamesOK(s) /\ RunOK(s)
  BY RowsOf DEF RetentionInv
<1> DEFINE n == [session[s] EXCEPT !.mirror = "IN_PROGRESS"]
<1>1. /\ n \in SessionRows /\ n.state = session[s].state /\ n.grace = session[s].grace
      /\ n.mirror = "IN_PROGRESS" /\ n.deleted = session[s].deleted
  BY <1>0 DEF SessionRows, RetentionTypeOK
<1> DEFINE h == [run[s] EXCEPT !.status = "IN_PROGRESS", !.holder = r, !.leased = TRUE]
<1>2. /\ h \in RunRows /\ h.status = "IN_PROGRESS" /\ h.attempts = run[s].attempts
      /\ h.checkpoint = run[s].checkpoint
  BY <1>0 DEF RunRows, RetentionTypeOK
<1> DEFINE k == [pc |-> "advancing", at |-> s, checkpoint |-> run[s].checkpoint,
               attempts |-> run[s].attempts, keys |-> {}]
<1>3. /\ k \in RunnerSlots /\ k.pc = "advancing" /\ k.at = s
      /\ k.checkpoint = run[s].checkpoint /\ k.attempts = run[s].attempts
  BY <1>0 DEF RunnerSlots, RetentionTypeOK, RunRows
<1>4. /\ session' = [session EXCEPT ![s] = n]
      /\ run' = [run EXCEPT ![s] = h]
      /\ runner' = [runner EXCEPT ![r] = k]
      /\ UNCHANGED <<file, ledger, store, writer, cleaner, faults>>
  BY <1>0 DEF ClaimNext, Claimable, RunOK, RetentionTypeOK
<1> HIDE DEF n, h, k
<1>5. RetentionTypeOK'
  BY <1>0, <1>1, <1>2, <1>3, <1>4 DEF RetentionTypeOK, WriterSteps, Objects
<1>6. /\ session'[s] = n /\ file'[s] = file[s] /\ ledger'[s] = ledger[s]
      /\ store'[s] = store[s] /\ writer'[s] = writer[s]
      /\ Others(s)
  BY <1>0, <1>1, <1>2, <1>3, <1>4 DEF RetentionTypeOK
<1>7. PeaceAt(s)
  BY <1>0, <1>1, <1>2, <1>3, <1>6 DEF PeaceAt, SessionOK, WriterOK, ClaimNext, Claimable,
    RunOK, SessionRows
<1>8. WriterOK(s)'
  BY <1>0, <1>1, <1>2, <1>3, <1>6 DEF SessionOK, WriterOK, ClaimNext, Claimable, RunOK,
    SessionRows
<1>9. SessionOK(s)'
  BY <1>0, <1>1, <1>2, <1>3, <1>6 DEF SessionOK, WriterOK, ClaimNext, Claimable, RunOK,
    SessionRows
<1>10. NamesOK(s)'
  BY <1>0, <1>1, <1>2, <1>3, <1>6 DEF NamesOK, Named, SessionOK, WriterOK, ClaimNext,
    Claimable, RunOK, SessionRows
<1>11. Peaceful /\ SessionsInv'
  BY <1>6, <1>7, <1>8, <1>9, <1>10, OneSession
<1>12. /\ run'[s] = h
       /\ \A t \in Sessions : t # s => run'[t] = run[t]
  BY <1>0, <1>4 DEF RetentionTypeOK
<1>13. RunOK(s)'
  BY <1>0, <1>1, <1>2, <1>3, <1>6, <1>12 DEF RunOK, ClaimNext, Claimable
<1>14. /\ runner'[r] = k
       /\ \A q \in Runners : q # r => runner'[q] = runner[q]
  BY <1>0, <1>4 DEF RetentionTypeOK
<1>15. /\ PastGrace(s)' /\ k.attempts < MaxAttempts
       /\ k.checkpoint >= ARTIFACTS_DELETED => Emptied(s)'
  BY <1>0, <1>1, <1>2, <1>3, <1>6 DEF SessionOK, WriterOK, ClaimNext, Claimable, RunOK,
    SessionRows
<1>16. RunnerOK(r)'
  <2> HIDE DEF PastGrace, Quiet, Emptied
  <2> QED
    BY <1>1, <1>2, <1>3, <1>6, <1>14, <1>15 DEF RunnerOK
<1> QED
  BY <1>4, <1>12, <1>13, <1>14, <1>16, <1>5, <1>11, StepSafe

\* Somebody asks for a run that gave up.
LEMMA RetryRetentionSafe ==
  ASSUME RetentionInv, NEW s \in Sessions, RetryRetention(s)
  PROVE  RetentionInv'
<1>0. /\ RetentionTypeOK /\ session[s] \in SessionRows /\ file[s] \in FileRows
      /\ run[s] \in RunRows
      /\ ledger[s] \subseteq Objects /\ store[s] \subseteq Objects /\ writer[s] \in WriterSteps
      /\ WriterOK(s) /\ SessionOK(s) /\ NamesOK(s) /\ RunOK(s)
  BY RowsOf DEF RetentionInv
<1> DEFINE h == [run[s] EXCEPT !.requested = TRUE]
<1>1. /\ h \in RunRows /\ h.status = run[s].status /\ h.attempts = run[s].attempts
      /\ h.holder = run[s].holder /\ h.checkpoint = run[s].checkpoint
  BY <1>0 DEF RunRows, RetentionTypeOK
<1>2. /\ run' = [run EXCEPT ![s] = h]
      /\ UNCHANGED <<session, file, ledger, store, writer, cleaner, runner, faults>>
  BY <1>0 DEF RetryRetention, RetentionTypeOK
<1> HIDE DEF h
<1>3. RetentionTypeOK'
  BY <1>0, <1>1, <1>2 DEF RetentionTypeOK, WriterSteps, Objects
<1>4. /\ session'[s] = session[s] /\ file'[s] = file[s] /\ ledger'[s] = ledger[s]
      /\ store'[s] = store[s] /\ writer'[s] = writer[s]
      /\ Others(s)
  BY <1>0, <1>1, <1>2 DEF RetentionTypeOK
<1>5. PeaceAt(s)
  BY <1>0, <1>1, <1>4 DEF PeaceAt, SessionOK, WriterOK, RetryRetention
<1>6. WriterOK(s)'
  BY <1>0, <1>1, <1>4 DEF SessionOK, WriterOK, RetryRetention
<1>7. SessionOK(s)'
  BY <1>0, <1>1, <1>4 DEF SessionOK, WriterOK, RetryRetention
<1>8. NamesOK(s)'
  BY <1>0, <1>1, <1>4 DEF NamesOK, Named, SessionOK, WriterOK, RetryRetention
<1>9. Peaceful /\ SessionsInv'
  BY <1>4, <1>5, <1>6, <1>7, <1>8, OneSession
<1>10. /\ run'[s] = h
       /\ \A t \in Sessions : t # s => run'[t] = run[t]
  BY <1>0, <1>2 DEF RetentionTypeOK
<1>11. RunOK(s)'
  BY <1>0, <1>1, <1>4, <1>10 DEF RunOK, SessionOK, WriterOK, NamesOK, Named, RunRows
<1> QED
  BY <1>2, <1>10, <1>11, <1>3, <1>9, StepSafe

\* A lease runs out.
LEMMA LeaseRunsOutSafe ==
  ASSUME RetentionInv, NEW s \in Sessions, LeaseRunsOut(s)
  PROVE  RetentionInv'
<1>0. /\ RetentionTypeOK /\ session[s] \in SessionRows /\ file[s] \in FileRows
      /\ run[s] \in RunRows
      /\ ledger[s] \subseteq Objects /\ store[s] \subseteq Objects /\ writer[s] \in WriterSteps
      /\ WriterOK(s) /\ SessionOK(s) /\ NamesOK(s) /\ RunOK(s)
  BY RowsOf DEF RetentionInv
<1> DEFINE h == [run[s] EXCEPT !.leased = FALSE]
<1>1. /\ h \in RunRows /\ h.status = run[s].status /\ h.attempts = run[s].attempts
      /\ h.holder = run[s].holder /\ h.checkpoint = run[s].checkpoint
  BY <1>0 DEF RunRows, RetentionTypeOK
<1>2. /\ run' = [run EXCEPT ![s] = h]
      /\ UNCHANGED <<session, file, ledger, store, writer, cleaner, runner>>
      /\ faults' \in 0 .. MaxFaults
  BY <1>0, RetentionAssumption DEF LeaseRunsOut, RetentionTypeOK
<1> HIDE DEF h
<1>3. RetentionTypeOK'
  BY <1>0, <1>1, <1>2 DEF RetentionTypeOK, WriterSteps, Objects
<1>4. /\ session'[s] = session[s] /\ file'[s] = file[s] /\ ledger'[s] = ledger[s]
      /\ store'[s] = store[s] /\ writer'[s] = writer[s]
      /\ Others(s)
  BY <1>0, <1>1, <1>2 DEF RetentionTypeOK
<1>5. PeaceAt(s)
  BY <1>0, <1>1, <1>4 DEF PeaceAt, SessionOK, WriterOK, LeaseRunsOut
<1>6. WriterOK(s)'
  BY <1>0, <1>1, <1>4 DEF SessionOK, WriterOK, LeaseRunsOut
<1>7. SessionOK(s)'
  BY <1>0, <1>1, <1>4 DEF SessionOK, WriterOK, LeaseRunsOut
<1>8. NamesOK(s)'
  BY <1>0, <1>1, <1>4 DEF NamesOK, Named, SessionOK, WriterOK, LeaseRunsOut
<1>9. Peaceful /\ SessionsInv'
  BY <1>4, <1>5, <1>6, <1>7, <1>8, OneSession
<1>10. /\ run'[s] = h
       /\ \A t \in Sessions : t # s => run'[t] = run[t]
  BY <1>0, <1>2 DEF RetentionTypeOK
<1>11. RunOK(s)'
  BY <1>0, <1>1, <1>4, <1>10 DEF RunOK, SessionOK, WriterOK, NamesOK, Named, RunRows
<1> QED
  BY <1>2, <1>10, <1>11, <1>3, <1>9, StepSafe

\* A pass of a worker re-arms what somebody wants retried and begins what is due,
\* which is past its grace.
LEMMA BeginPassSafe ==
  ASSUME RetentionInv, BeginPass
  PROVE  RetentionInv'
<1>1. ASSUME NEW s \in Sessions
      PROVE  /\ run'[s] \in RunRows /\ session'[s] \in SessionRows
             /\ session'[s].state = session[s].state /\ session'[s].grace = session[s].grace
             /\ session'[s].deleted = session[s].deleted
             /\ session'[s].mirror # session[s].mirror => session[s].mirror = "DEAD_LETTER"
             /\ run'[s] = run[s] \/ RunOK(s)'
  <2> DEFINE again == Rearmed(run[s])
             first == [NoRun EXCEPT !.status = "PENDING"]
             told == [session[s] EXCEPT !.mirror = "PENDING"]
  <2>1. /\ session[s] \in SessionRows /\ run[s] \in RunRows /\ SessionOK(s) /\ RunOK(s)
    BY RowsOf
  <2>2. /\ again \in RunRows /\ again.status = "PENDING" /\ again.attempts = 0
        /\ again.holder = Nobody /\ again.checkpoint = run[s].checkpoint
    <3>1. 0 \in 0 .. MaxAttempts
      BY RetentionAssumption
    <3> QED
      BY <2>1, <3>1 DEF Rearmed, RunRows
  <2>3. /\ first \in RunRows /\ first.status = "PENDING" /\ first.attempts = 0
        /\ first.holder = Nobody /\ first.checkpoint = SCHEDULED
    BY NoRunRow DEF RunRows
  <2>4. /\ told \in SessionRows /\ told.state = session[s].state
        /\ told.grace = session[s].grace /\ told.deleted = session[s].deleted
    BY <2>1 DEF SessionRows
  <2>5. /\ \/ Requested(s) /\ run'[s] = again
           \/ /\ run[s].status = "NONE" /\ session[s].mirror = "PENDING" /\ ~InGrace(s)
              /\ run'[s] = first
           \/ run'[s] = run[s]
        /\ \/ session[s].mirror = "DEAD_LETTER" /\ session'[s] = told
           \/ session'[s] = session[s]
        /\ store' = store /\ writer' = writer
    BY DEF BeginPass
  <2> HIDE DEF again, first, told
  <2>6. /\ session'[s].state = session[s].state /\ session'[s].grace = session[s].grace
        /\ session'[s].deleted = session[s].deleted
    BY <2>4, <2>5
  <2>7. CASE Requested(s) /\ run'[s] = again
    BY <2>1, <2>2, <2>4, <2>5, <2>6, <2>7, RetentionAssumption DEF RunOK, Requested
  <2>8. CASE /\ run[s].status = "NONE" /\ session[s].mirror = "PENDING" /\ ~InGrace(s)
             /\ run'[s] = first
    BY <2>1, <2>3, <2>4, <2>5, <2>6, <2>8, RetentionAssumption DEF RunOK, SessionOK
  <2>9. CASE run'[s] = run[s]
    BY <2>1, <2>4, <2>5, <2>6, <2>9
  <2> QED
    BY <2>5, <2>7, <2>8, <2>9
<1>2. RetentionTypeOK'
  <2>1. /\ run' = [s \in Sessions |-> run'[s]] /\ session' = [s \in Sessions |-> session'[s]]
        /\ UNCHANGED <<file, ledger, store, writer, cleaner, runner, faults>>
    BY DEF BeginPass
  <2>2. run' \in [Sessions -> RunRows] /\ session' \in [Sessions -> SessionRows]
    BY <1>1, <2>1
  <2> QED
    BY <2>1, <2>2 DEF RetentionInv, RetentionTypeOK
<1>3. UNCHANGED <<file, ledger, store, writer, cleaner, runner>>
  BY DEF BeginPass
<1>4. Peaceful
  BY <1>1, <1>3 DEF Peaceful, PeaceAt
<1>5. ASSUME NEW s \in Sessions
      PROVE  WriterOK(s)' /\ SessionOK(s)' /\ NamesOK(s)'
  <2>1. WriterOK(s) /\ SessionOK(s) /\ NamesOK(s)
    BY RowsOf
  <2> QED
    BY <1>1, <1>3, <2>1 DEF WriterOK, SessionOK, NamesOK, Named
<1>6. SessionsInv'
  BY <1>5 DEF SessionsInv
<1> QED
  BY <1>1, <1>2, <1>3, <1>4, <1>6, StepSafe

-----------------------------------------------------------------------------
(* Crashes *)

\* A process dies: whatever it was sending has a name, and nobody takes over what
\* it knew.
LEMMA CrashSafe ==
  ASSUME RetentionInv, Crash
  PROVE  RetentionInv'
<1>1. /\ RetentionTypeOK /\ faults' \in 0 .. MaxFaults
      /\ UNCHANGED <<session, file, ledger, run>>
  BY RetentionAssumption DEF RetentionInv, RetentionTypeOK, Crash
<1>2. ASSUME NEW r \in Runners, runner' = [runner EXCEPT ![r] = Waiting],
             UNCHANGED <<store, writer, cleaner>>
      PROVE  RetentionInv'
  <2>1. RetentionTypeOK'
    BY <1>1, <1>2, WaitingRow DEF RetentionTypeOK
  <2>2. Peaceful
    BY <1>1, <1>2 DEF Peaceful, PeaceAt
  <2>3. SessionsInv'
    BY <1>1, <1>2 DEF RetentionInv, SessionsInv, WriterOK, SessionOK, NamesOK, Named
  <2>4. /\ runner'[r] = Waiting
        /\ \A q \in Runners : q # r => runner'[q] = runner[q]
    BY <1>1, <1>2 DEF RetentionTypeOK
  <2>5. RunnerOK(r)'
    BY <2>4, WaitingRow DEF RunnerOK
  <2> QED
    BY <1>1, <1>2, <2>1, <2>2, <2>3, <2>4, <2>5, StepSafe
<1>3. ASSUME NEW c \in Cleaners, cleaner' = [cleaner EXCEPT ![c] = Resting],
             UNCHANGED <<store, writer, runner>>
      PROVE  RetentionInv'
  <2>1. Resting \in CleanerSlots /\ Resting.pc = "idle"
    BY DEF Resting, CleanerSlots
  <2>2. RetentionTypeOK'
    BY <1>1, <1>3, <2>1 DEF RetentionTypeOK
  <2>3. Peaceful
    BY <1>1, <1>3 DEF Peaceful, PeaceAt
  <2>4. SessionsInv'
    BY <1>1, <1>3 DEF RetentionInv, SessionsInv, WriterOK, SessionOK, NamesOK, Named
  <2>5. /\ cleaner'[c] = Resting
        /\ \A d \in Cleaners : d # c => cleaner'[d] = cleaner[d]
    BY <1>1, <1>3 DEF RetentionTypeOK
  <2>6. CleanerOK(c)'
    BY <2>1, <2>5 DEF CleanerOK
  <2> QED
    BY <1>1, <1>3, <2>2, <2>3, <2>4, <2>5, <2>6, StepSafe
<1>4. ASSUME NEW s \in Sessions, Write(s, "idle"), UNCHANGED <<cleaner, runner>>,
             store' \in {store} \cup
               (CASE writer[s] = "putting" -> {[store EXCEPT ![s] = @ \cup {"upload"}]}
                  [] writer[s] = "rendering" -> {[store EXCEPT ![s] = @ \cup {"artifact"}]}
                  [] OTHER -> {})
      PROVE  RetentionInv'
  <2>1. /\ session[s] \in SessionRows /\ file[s] \in FileRows
        /\ ledger[s] \subseteq Objects /\ store[s] \subseteq Objects
        /\ writer[s] \in WriterSteps /\ WriterOK(s) /\ SessionOK(s) /\ NamesOK(s)
    BY RowsOf
  <2>2. /\ writer' = [writer EXCEPT ![s] = "idle"]
        /\ \/ store' = store
           \/ writer[s] = "putting" /\ store' = [store EXCEPT ![s] = @ \cup {"upload"}]
           \/ writer[s] = "rendering" /\ store' = [store EXCEPT ![s] = @ \cup {"artifact"}]
    BY <1>4 DEF Write
  <2>3. /\ store' \in [Sessions -> SUBSET Objects] /\ store[s] \subseteq store'[s]
        /\ \/ store'[s] = store[s]
           \/ writer[s] = "putting" /\ store'[s] = store[s] \cup {"upload"}
           \/ writer[s] = "rendering" /\ store'[s] = store[s] \cup {"artifact"}
        /\ \A t \in Sessions : t # s => store'[t] = store[t]
    BY <1>1, <2>1, <2>2 DEF RetentionTypeOK, Objects
  <2>4. RetentionTypeOK'
    BY <1>1, <1>4, <2>2, <2>3 DEF RetentionTypeOK, WriterSteps
  <2>5. /\ session'[s] = session[s] /\ file'[s] = file[s] /\ ledger'[s] = ledger[s]
        /\ writer'[s] = "idle"
        /\ Others(s)
    BY <1>1, <2>2, <2>3 DEF RetentionTypeOK
  <2>6. PeaceAt(s)
    BY <2>1, <2>3, <2>5 DEF PeaceAt
  <2>7. WriterOK(s)'
    BY <2>5 DEF WriterOK
  <2>8. SessionOK(s)'
    BY <2>1, <2>3, <2>5 DEF SessionOK
  <2>9. NamesOK(s)'
    BY <2>1, <2>3, <2>5 DEF NamesOK, Named, WriterOK
  <2>10. Peaceful /\ SessionsInv'
    BY <2>5, <2>6, <2>7, <2>8, <2>9, OneSession
  <2> QED
    BY <1>1, <1>4, <2>4, <2>10, StepSafe
<1> QED
  BY <1>2, <1>3, <1>4 DEF Crash

-----------------------------------------------------------------------------
(* The invariant *)

\* It holds when nothing has been uploaded yet, ...
LEMMA InitSafe ==
  ASSUME Init
  PROVE  RetentionInv
<1>1. RetentionTypeOK
  <2>1. Resting \in CleanerSlots
    BY DEF Resting, CleanerSlots
  <2>2. NoRun \in RunRows
    BY NoRunRow
  <2>3. [state |-> "OPEN", mirror |-> "NOT_DUE", grace |-> FALSE, deleted |-> FALSE] \in SessionRows
    BY DEF SessionRows
  <2>4. [status |-> "NONE", key |-> FALSE, due |-> {}] \in FileRows
    BY DEF FileRows
  <2> QED
    BY <2>1, <2>2, <2>3, <2>4, WaitingRow, RetentionAssumption
       DEF Init, RetentionTypeOK, WriterSteps
<1>2. SessionsInv
  BY DEF Init, SessionsInv, WriterOK, SessionOK, NamesOK, Named
<1>3. RunsInv
  BY DEF Init, RunsInv, RunOK, NoRun
<1>4. CleanersInv /\ RunnersInv
  BY DEF Init, CleanersInv, CleanerOK, RunnersInv, RunnerOK, Resting, Waiting
<1> QED
  BY <1>1, <1>2, <1>3, <1>4 DEF RetentionInv

\* ... and every step keeps it.
LEMMA NextSafe ==
  ASSUME RetentionInv, [Next]_vars
  PROVE  RetentionInv'
<1>1. CASE UNCHANGED vars
  <2>1. RetentionTypeOK' /\ Peaceful
    BY <1>1 DEF vars, RetentionInv, RetentionTypeOK, Peaceful, PeaceAt
  <2>2. SessionsInv'
    BY <1>1 DEF vars, RetentionInv, SessionsInv, WriterOK, SessionOK, NamesOK, Named
  <2> QED
    BY <1>1, <2>1, <2>2, StepSafe DEF vars
<1>2. ASSUME NEW s \in Sessions, WriterStep(s)
      PROVE  RetentionInv'
  BY <1>2, ArmUploadSafe, PutUploadSafe, FinalizeUploadSafe, RejectUploadSafe,
     DiscardUploadSafe, RecordRejectionSafe, PutArtifactSafe, CompleteDocumentSafe,
     GiveUpDocumentSafe, StaleOwnerStopsSafe
     DEF WriterStep
<1>3. ASSUME NEW s \in Sessions, Customer(s)
      PROVE  RetentionInv'
  BY <1>3, ReserveUploadSafe, ClaimDocumentSafe, RemoveSafe, EndSessionSafe DEF Customer
<1>4. ASSUME NEW s \in Sessions, Time(s)
      PROVE  RetentionInv'
  BY <1>4, GracePassesSafe, BarrierPassesSafe, LeaseRunsOutSafe DEF Time
<1>5. ASSUME NEW s \in Sessions,
             \/ CleanPendingFile(s) \/ MarkInterruptedUpload(s)
             \/ RetryRetention(s) \/ ReconcileOrphans(s) \/ StrayObject(s)
      PROVE  RetentionInv'
  BY <1>5, CleanPendingFileSafe, MarkInterruptedUploadSafe, RetryRetentionSafe,
     ReconcileOrphansSafe, StrayObjectSafe
<1>6. ASSUME NEW c \in Cleaners, CleanerStep(c)
      PROVE  RetentionInv'
  BY <1>6, DeleteObjectKeysSafe, FinishCleanupSafe DEF CleanerStep
<1>7. ASSUME NEW r \in Runners, RunnerStep(r)
      PROVE  RetentionInv'
  BY <1>7, ClaimNextSafe, RevokeAccessSafe, ListKnownArtifactsSafe, DeleteKnownArtifactsSafe,
     RetireLedgerSafe, ReconcileStorageSafe, ScrubMetadataSafe, RecordCheckpointSafe,
     FinishSafe, DeferRunSafe, FailRunSafe
     DEF RunnerStep
<1> QED
  BY <1>1, <1>2, <1>3, <1>4, <1>5, <1>6, <1>7, BeginPassSafe, CrashSafe DEF Next

\* The invariant holds of every behaviour.
LEMMA Invariance == RetentionSpec => []RetentionInv
<1>1. Init => RetentionInv
  BY InitSafe
<1>2. RetentionInv /\ [Next]_vars => RetentionInv'
  BY NextSafe
<1> QED
  BY <1>1, <1>2, PTL DEF RetentionSpec

\* No document is forgotten: an object that an upload or a rendering wrote is named
\* by a row until it is deleted, and a session that says its documents are gone has
\* none (cleanup-session.ts, the barrier in cleanup_due_at), for any number of
\* sessions, workers, attempts and faults.
THEOREM NothingIsLeftBehind == RetentionSpec => []NothingIsForgotten
<1>1. ASSUME RetentionInv
      PROVE  NothingIsForgotten
  <2>1. ASSUME NEW s \in Sessions
        PROVE  /\ store[s] \subseteq Named(s) \cup {"stray"}
               /\ session[s].deleted => store[s] \subseteq {"stray"}
    BY <1>1, RowsOf DEF NamesOK, SessionOK
  <2> QED
    BY <1>1, <2>1 DEF NothingIsForgotten, RetentionInv
<1> QED
  BY <1>1, Invariance, PTL

-----------------------------------------------------------------------------
(* The grace *)

\* The only steps that take bytes away from a session.
LEMMA WhoDeletes ==
  ASSUME RetentionTypeOK, [Next]_vars, NEW s \in Sessions, ~(store[s] \subseteq store'[s])
  PROVE  \/ DiscardUpload(s) \/ CompleteDocument(s) \/ ReconcileOrphans(s)
         \/ \E c \in Cleaners : DeleteObjectKeys(c) /\ cleaner[c].at = s
         \/ \E r \in Runners : /\ DeleteKnownArtifacts(r) \/ ReconcileStorage(r)
                               /\ runner[r].at = s
<1>1. store' # store /\ store \in [Sessions -> SUBSET Objects]
  BY DEF RetentionTypeOK
<1>2. ASSUME NEW t \in Sessions, WriterStep(t)
      PROVE  (DiscardUpload(t) \/ CompleteDocument(t)) /\ t = s
  <2>1. ~PutUpload(t) /\ ~PutArtifact(t)
    BY <1>1 DEF PutUpload, PutArtifact
  <2>2. DiscardUpload(t) \/ CompleteDocument(t)
    BY <1>1, <1>2, <2>1 DEF WriterStep, ArmUpload, FinalizeUpload, RejectUpload, RecordRejection,
                            GiveUpDocument, StaleOwnerStops
  <2>3. \E part : store' = [store EXCEPT ![t] = @ \ part]
    BY <1>1, <2>2 DEF DiscardUpload, CompleteDocument, Deleted
  <2> QED
    BY <1>1, <2>2, <2>3
<1>3. ASSUME NEW t \in Sessions
      PROVE  ~Customer(t) /\ ~Time(t) /\ ~CleanPendingFile(t) /\ ~MarkInterruptedUpload(t)
             /\ ~RetryRetention(t) /\ ~StrayObject(t)
  BY <1>1 DEF Customer, ReserveUpload, ClaimDocument, Remove, EndSession, Time, GracePasses,
              BarrierPasses, LeaseRunsOut, CleanPendingFile, MarkInterruptedUpload,
              RetryRetention, StrayObject
<1>4. ASSUME NEW t \in Sessions, ReconcileOrphans(t)
      PROVE  t = s
  BY <1>1, <1>4 DEF ReconcileOrphans
<1>5. ASSUME NEW c \in Cleaners, CleanerStep(c)
      PROVE  DeleteObjectKeys(c) /\ cleaner[c].at = s
  <2>1. DeleteObjectKeys(c)
    BY <1>1, <1>5 DEF CleanerStep, FinishCleanup
  <2>2. \E part : store' = [store EXCEPT ![cleaner[c].at] = @ \ part]
    BY <2>1 DEF DeleteObjectKeys, Deleted
  <2> QED
    BY <1>1, <2>1, <2>2
<1>6. ASSUME NEW r \in Runners, RunnerStep(r)
      PROVE  (DeleteKnownArtifacts(r) \/ ReconcileStorage(r)) /\ runner[r].at = s
  <2>1. DeleteKnownArtifacts(r) \/ ReconcileStorage(r)
    BY <1>1, <1>6 DEF RunnerStep, ClaimNext, RevokeAccess, ListKnownArtifacts, RetireLedger,
                      ScrubMetadata, RecordCheckpoint, Finish, DeferRun, FailRun
  <2>2. \E part : store' = [store EXCEPT ![runner[r].at] = @ \ part]
    BY <2>1 DEF DeleteKnownArtifacts, ReconcileStorage, Deleted
  <2> QED
    BY <1>1, <2>1, <2>2
<1>7. ~BeginPass
  BY <1>1 DEF BeginPass
<1>8. ~Crash
  BY <1>1 DEF Crash
<1>9. Next
  BY <1>1 DEF vars
<1> QED
  BY <1>2, <1>3, <1>4, <1>5, <1>6, <1>7, <1>8, <1>9 DEF Next

\* A step that takes bytes away from a session in its grace.
LEMMA GraceStep ==
  ASSUME RetentionInv, [Next]_vars, NEW s \in Sessions, InGrace(s),
         ~(store[s] \subseteq store'[s])
  PROVE  \/ \E c \in Cleaners : /\ cleaner[c].pc = "deleting" /\ cleaner[c].at = s
                                /\ cleaner[c].early
         \/ writer[s] \in {"discarding", "rendered"}
<1>1. RetentionTypeOK /\ SessionOK(s)
  BY RowsOf DEF RetentionInv
<1>2. CASE DiscardUpload(s) \/ CompleteDocument(s)
  BY <1>2 DEF DiscardUpload, CompleteDocument
<1>3. ~ReconcileOrphans(s)
  BY <1>1 DEF ReconcileOrphans, SessionOK
<1>4. ASSUME NEW c \in Cleaners, DeleteObjectKeys(c), cleaner[c].at = s
      PROVE  cleaner[c].pc = "deleting" /\ cleaner[c].early
  BY <1>4 DEF DeleteObjectKeys, RetentionInv, CleanersInv, CleanerOK
<1>5. ASSUME NEW r \in Runners, runner[r].at = s
      PROVE  ~DeleteKnownArtifacts(r) /\ ~ReconcileStorage(r)
  BY <1>5 DEF DeleteKnownArtifacts, ReconcileStorage, At, RetentionInv, RunnersInv, RunnerOK
<1> QED
  BY <1>1, <1>2, <1>3, <1>4, <1>5, WhoDeletes

\* Between the end of a print and the end of its grace bytes only go through a
\* deletion that had begun before, or as a writer takes back what it just wrote
\* (uploaded_files_clamp_terminal_cleanup_due, session-cleanup.ts).
THEOREM GraceIsKept == RetentionSpec => GraceIsHonored
<1>1. ASSUME RetentionInv, [Next]_vars
      PROVE  [\A s \in Sessions :
                InGrace(s) /\ ~(store[s] \subseteq store'[s]) =>
                  \/ \E c \in Cleaners : /\ cleaner[c].pc = "deleting" /\ cleaner[c].at = s
                                         /\ cleaner[c].early
                  \/ writer[s] \in {"discarding", "rendered"}]_vars
  BY <1>1, GraceStep
<1> QED
  BY <1>1, Invariance, PTL DEF RetentionSpec, GraceIsHonored
====
