--------------------------- MODULE PrinterAdapters --------------------------
(***************************************************************************)
(* What a printer driver of packages/printer-adapters may say about one    *)
(* operation.  An operation is a set of documents, one device job each.    *)
(* The IPP, the Windows and the mock adapter answer the same three         *)
(* questions (submit, getOperationStatus, cancel) from different evidence: *)
(* the device's queue, a host process with notes of its own, a directory.  *)
(* What they share is the journal, written before the device is touched.   *)
(* The truth an answer is compared with is the paper in the tray.          *)
(*                                                                         *)
(* The device's queue and the Windows host are external.  They may lose    *)
(* what they knew, and they may claim certainty without grounds, but a     *)
(* number of sheets they report as final is the number that came out.      *)
(***************************************************************************)
EXTENDS Integers, Sequences, FiniteSets, Sums
LOCAL INSTANCE FiniteSetsExt

CONSTANTS
  Drivers,       \* subset of {"IPP", "WINDOWS", "MOCK"}
  JobDocuments,  \* how many documents the operation has
  JobSheets,     \* sheets of each document
  Submissions    \* what the runner may hand over, well formed or not

ASSUME PrinterAdaptersAssumption ==
  /\ Drivers \subseteq {"IPP", "WINDOWS", "MOCK"} /\ Drivers # {}
  /\ JobDocuments \in 1..999 /\ JobSheets \in Nat \ {0}

VARIABLES
  driver,    \* the adapter this kiosk was configured with
  counting,  \* whether the device reports the sheets of a job
  scenario,  \* what the mock printer was told to do
  calling,   \* the step the call in progress has reached
  handed,    \* documents handed over by that call
  journal,   \* the local record: "none", "whole" or "torn"
  notes,     \* the Windows host's own record: "none", "known" or "lost"
  marker,    \* the mock's directory: "none", "submitted" or "completed"
  deviceJobs,\* per position, what the device did
  answer,    \* the last answer given about the operation
  tooLate    \* the job's deadline has passed: nobody asks any more

adapterVars == <<driver, counting, scenario, calling, handed, journal, notes,
                 marker, deviceJobs, answer, tooLate>>

Unreported == -1
Positions == 0 .. JobDocuments - 1
OperationStates == {"NOT_SUBMITTED", "SUBMITTED", "PRINTING", "COMPLETED",
                    "FAILED", "CANCELED", "UNKNOWN"}
JobTerminal == {"completed", "aborted", "canceled"}
Listed == JobTerminal \cup {"open"}
Scenarios == {"SUCCESS", "OFFLINE", "PAPER_JAM", "OUT_OF_PAPER", "CANCELED",
              "TIMEOUT", "UNKNOWN_AFTER_SUBMIT"}

-----------------------------------------------------------------------------
\* Answers.  A thrown PrinterAdapterError is an answer too: "REFUSED",
\* certain unless the submission may have reached the device.
operationStatus(state, confidence, sheets) ==
  [state |-> state, confidence |-> confidence, sheets |-> sheets]
unknownStatus == operationStatus("UNKNOWN", "UNCONFIRMED", Unreported)
notSubmitted == operationStatus("NOT_SUBMITTED", "CONFIRMED", 0)
canceledBeforeSubmit == operationStatus("CANCELED", "CONFIRMED", 0)
Thrown(ambiguous) ==
  operationStatus("REFUSED", IF ambiguous THEN "UNCONFIRMED" ELSE "CONFIRMED",
                  Unreported)
NoAnswer == operationStatus("NONE", "UNCONFIRMED", Unreported)
Forgotten == operationStatus("FORGOTTEN", "UNCONFIRMED", Unreported)

Confirmable(status) ==
  IF status.state = "COMPLETED"
  THEN status.sheets > 0
  ELSE status.sheets = 0 /\ status.state \in {"FAILED", "CANCELED", "NOT_SUBMITTED"}

withHonestConfidence(status) ==
  IF status.confidence = "CONFIRMED" /\ ~Confirmable(status)
  THEN [status EXCEPT !.confidence = "UNCONFIRMED"]
  ELSE status

\* A manifest and its artifacts agree, document by document.
assertSubmittable(s) ==
  LET ids == {m.documentId : m \in Range(s.manifest)}
      matches(a, m) == /\ m.documentId = a.documentId /\ m.position = a.position
                       /\ m.sha256 = a.sha256 /\ m.sizeBytes = a.sizeBytes
  IN /\ Len(s.manifest) = Len(s.artifacts) /\ s.artifacts # <<>>
     /\ s.physicalSheets >= 1
     /\ \A i \in DOMAIN s.manifest : s.manifest[i].copies >= 1
     /\ Cardinality(ids) = Len(s.manifest)
     /\ \A i \in DOMAIN s.artifacts :
          /\ \E k \in DOMAIN s.manifest : matches(s.artifacts[i], s.manifest[k])
          /\ s.artifacts[i].sizeBytes >= 1 /\ s.artifacts[i].position \in 0..999
          /\ \A k \in DOMAIN s.artifacts :
               k # i => /\ s.artifacts[k].documentId # s.artifacts[i].documentId
                        /\ s.artifacts[k].position # s.artifacts[i].position

-----------------------------------------------------------------------------
\* The journal.  A torn record is still evidence, but it counts no document.
recordRead == journal # "none"
recordedCount == IF journal = "whole" THEN JobDocuments ELSE 0

Produced == Sum([p \in Positions |-> deviceJobs[p].sheets])
InQueue == {p \in Positions : deviceJobs[p].state \in Listed}
OpenJobs == {p \in Positions : deviceJobs[p].state = "open"}

NoJob == [state |-> "none", sheets |-> 0]
Handed(p) == [deviceJobs EXCEPT ![p] = [state |-> "open", sheets |-> 0]]

\* A listing reports every job the queue still remembers, and may report one
\* of them a second time in the state it had before.
readDeviceJob(p) ==
  [position |-> p, state |-> deviceJobs[p].state,
   documentCount |-> JobDocuments,
   sheets |-> IF counting THEN deviceJobs[p].sheets ELSE Unreported]
Listing(again) ==
  {readDeviceJob(p) : p \in InQueue} \cup
  {[readDeviceJob(p) EXCEPT !.state = "open"] : p \in again}

rankJobState(state) == IF state \in JobTerminal THEN 2 ELSE 1
listOperationJobs(reports) ==
  {r \in reports : \A other \in reports :
     other.position = r.position => rankJobState(other.state) <= rankJobState(r.state)}

aggregateJobs(expected, jobs) ==
  LET Some(state) == \E j \in jobs : j.state = state
      sheets == IF \A j \in jobs : j.sheets # Unreported
                THEN Sum([j \in jobs |-> j.sheets]) ELSE Unreported
      nothing == IF sheets = 0 THEN "CONFIRMED" ELSE "UNCONFIRMED"
  IN CASE Cardinality(jobs) < expected -> unknownStatus
       [] Cardinality(jobs) >= expected /\ Some("open") ->
            operationStatus("PRINTING", "UNCONFIRMED", Unreported)
       [] Cardinality(jobs) >= expected /\ ~Some("open") /\ Some("aborted") ->
            operationStatus("FAILED", nothing, sheets)
       [] Cardinality(jobs) >= expected /\ ~Some("open") /\ ~Some("aborted")
            /\ Some("canceled") -> operationStatus("CANCELED", nothing, sheets)
       [] OTHER -> operationStatus("COMPLETED",
                     IF sheets > 0 THEN "CONFIRMED" ELSE "UNCONFIRMED", sheets)

\* How many documents the operation has: what the journal says, or what the
\* jobs' own names say when the journal cannot.
expectedDocumentsListed(jobs) == Cardinality(jobs)
expectedDocuments(jobs) ==
  Max({recordedCount} \cup {j.documentCount : j \in jobs})

\* What the printer says of itself: readHealth.
readHealth(attributes) ==
  IF attributes.reasons = "stopping" \/ attributes.state \in {"STOPPED", "unsaid"}
  THEN "OFFLINE"
  ELSE IF attributes.reasons = "low" THEN "WARNING" ELSE "READY"
assertReadyForPdf(attributes) ==
  /\ readHealth(attributes) # "OFFLINE" /\ attributes.accepting # FALSE
  /\ attributes.formats = {} \/ "application/pdf" \in attributes.formats
PrinterAttributes ==
  [state : {"IDLE", "STOPPED"}, reasons : {"none", "low", "stopping"},
   accepting : BOOLEAN, formats : {{"application/pdf"}, {"text/plain"}}]

-----------------------------------------------------------------------------
\* submit, in the steps a crash can fall between.
Return(status) == answer' = status /\ calling' = "idle" /\ handed' = 0

\* The runner submits an operation once, or again after a certain "never".
MaySubmit == calling = "idle" /\ ~tooLate /\ answer \in {NoAnswer, notSubmitted}

submit(s) ==
  /\ MaySubmit
  /\ \/ ~assertSubmittable(s) /\ Return(Thrown(FALSE))
     \/ /\ assertSubmittable(s)
        /\ \/ driver = "MOCK" /\ scenario = "OFFLINE" /\ Return(Thrown(FALSE))
           \/ driver # "MOCK"
              /\ \E attributes \in PrinterAttributes :
                   /\ ~(IF driver = "IPP" THEN assertReadyForPdf(attributes)
                        ELSE readHealth(attributes) # "OFFLINE")
                   /\ Return(Thrown(FALSE))
           \/ /\ driver = "MOCK" => scenario # "OFFLINE"
              /\ calling' = "ready" /\ answer' = Forgotten /\ handed' = 0
  /\ UNCHANGED <<driver, counting, scenario, journal, notes, marker, deviceJobs, tooLate>>

\* The intent, before the first device call.
openOperation ==
  /\ calling = "ready" /\ driver # "MOCK"
  /\ journal' = "whole" /\ calling' = "sending"
  /\ UNCHANGED <<driver, counting, scenario, handed, notes, marker, deviceJobs, answer, tooLate>>

ambiguousAfter(sent) == sent > 0

\* IPP: one Print-Job per document, lowest position first.
printJob ==
  /\ calling = "sending" /\ driver = "IPP"
  /\ \/ /\ deviceJobs' = Handed(handed) /\ handed' = handed + 1
        /\ calling' = IF handed + 1 = JobDocuments THEN "polling" ELSE "sending"
        /\ UNCHANGED answer
     \/ \* The artifact is gone, or the device answered with a refusal.
        Return(Thrown(ambiguousAfter(handed))) /\ UNCHANGED deviceJobs
     \/ \* No answer: the device may hold the document.
        /\ Return(Thrown(TRUE))
        /\ deviceJobs' \in {deviceJobs, Handed(handed)}
  /\ UNCHANGED <<driver, counting, scenario, journal, notes, marker, tooLate>>

\* IPP: poll until every job is settled, the device stops answering, or the
\* budget is spent.
awaitCompletion ==
  /\ calling = "polling"
  /\ \/ Return(unknownStatus)
     \/ \E again \in SUBSET InQueue :
          LET jobs == listOperationJobs(Listing(again))
          IN /\ Cardinality(jobs) >= JobDocuments
             /\ \A j \in jobs : j.state \in JobTerminal
             /\ Return(aggregateJobs(JobDocuments, jobs))
  /\ UNCHANGED <<driver, counting, scenario, journal, notes, marker, deviceJobs, tooLate>>

\* The host's own account.  With its notes gone it says "never"; with them it
\* may claim what it likes, but a final number is the true one.
HostReports ==
  IF notes # "known" THEN {notSubmitted}
  ELSE [state : OperationStates \ {"NOT_SUBMITTED"},
        confidence : {"CONFIRMED", "UNCONFIRMED"},
        sheets : {Unreported} \cup IF OpenJobs = {} THEN {Produced} ELSE {}]

\* Windows: the host writes its notes, then spools a document at a time, while
\* the call that started it waits.
hostSpools ==
  /\ calling = "sending" /\ driver = "WINDOWS" /\ handed < JobDocuments
  /\ deviceJobs' = Handed(handed) /\ handed' = handed + 1 /\ notes' = "known"
  /\ UNCHANGED <<driver, counting, scenario, calling, journal, marker, answer, tooLate>>

\* The call ends: a report, a refusal that says whether work was left behind,
\* or the host was killed or spoke nonsense.
readHostResult ==
  /\ calling = "sending" /\ driver = "WINDOWS"
  /\ \/ \E r \in HostReports :
          handed = JobDocuments /\ notes = "known" /\ Return(withHonestConfidence(r))
     \/ Return(Thrown(handed > 0))
     \/ Return(Thrown(TRUE))
  /\ UNCHANGED <<driver, counting, scenario, journal, notes, marker, deviceJobs, tooLate>>

\* The mock writes a marker, the documents one by one, and a marker last.
recordSubmission ==
  /\ calling = "ready" /\ driver = "MOCK"
  /\ \/ /\ marker' = "submitted"
        /\ \/ scenario = "OUT_OF_PAPER" /\ Return(operationStatus("FAILED", "CONFIRMED", 0))
           \/ scenario = "CANCELED" /\ Return(operationStatus("CANCELED", "UNCONFIRMED", 0))
           \/ scenario = "TIMEOUT" /\ Return(unknownStatus)
           \/ /\ scenario \in {"SUCCESS", "PAPER_JAM", "UNKNOWN_AFTER_SUBMIT"}
              /\ calling' = "sending" /\ UNCHANGED <<answer, handed>>
     \/ UNCHANGED marker /\ Return(Thrown(TRUE))
  /\ UNCHANGED <<driver, counting, scenario, journal, notes, deviceJobs, tooLate>>

writeArtifacts ==
  /\ calling = "sending" /\ driver = "MOCK"
  /\ \/ /\ handed < (IF scenario = "PAPER_JAM" THEN 1 ELSE JobDocuments)
        /\ deviceJobs' = [deviceJobs EXCEPT
             ![handed] = [state |-> "completed", sheets |-> JobSheets]]
        /\ handed' = handed + 1 /\ UNCHANGED <<calling, answer, marker>>
     \/ /\ scenario = "PAPER_JAM" /\ handed = 1 /\ UNCHANGED <<marker, deviceJobs>>
        /\ Return(operationStatus("FAILED", "UNCONFIRMED", (JobDocuments * JobSheets) \div 2))
     \/ /\ scenario # "PAPER_JAM" /\ handed = JobDocuments /\ UNCHANGED deviceJobs
        /\ marker' = "completed"
        /\ Return(IF scenario = "UNKNOWN_AFTER_SUBMIT" THEN Thrown(TRUE)
                  ELSE operationStatus("COMPLETED", "CONFIRMED", JobDocuments * JobSheets))
     \/ UNCHANGED <<marker, deviceJobs>> /\ Return(Thrown(TRUE))
  /\ UNCHANGED <<driver, counting, scenario, journal, notes, tooLate>>

-----------------------------------------------------------------------------
\* getOperationStatus: no await of it changes anything, so it is one step.
ippStatus ==
  \/ answer' = IF recordRead THEN unknownStatus ELSE notSubmitted
  \/ \E again \in SUBSET InQueue :
       LET jobs == listOperationJobs(Listing(again))
       IN answer' = IF jobs = {}
                    THEN IF recordRead THEN unknownStatus ELSE notSubmitted
                    ELSE aggregateJobs(expectedDocuments(jobs), jobs)

\* Found by name: still queued and not in trouble means open, not lost.
findQueuedJobs == {{}, OpenJobs}
windowsStatus ==
  \/ answer' = IF recordRead THEN unknownStatus ELSE notSubmitted
  \/ \E r \in HostReports :
       IF r.state = "NOT_SUBMITTED" /\ recordRead
       THEN \E found \in findQueuedJobs :
              answer' = IF found # {} THEN operationStatus("PRINTING", "UNCONFIRMED", Unreported)
                        ELSE unknownStatus
       ELSE answer' = withHonestConfidence(r)

mockStatus ==
  answer' = CASE marker = "completed" -> operationStatus("COMPLETED", "UNCONFIRMED", Unreported)
              [] marker = "submitted" -> unknownStatus
              [] marker = "none" -> notSubmitted

getOperationStatus ==
  /\ calling = "idle" /\ ~tooLate
  /\ CASE driver = "IPP" -> ippStatus
       [] driver = "WINDOWS" -> windowsStatus
       [] driver = "MOCK" -> mockStatus
  /\ UNCHANGED <<driver, counting, scenario, calling, handed, journal, notes, marker, deviceJobs, tooLate>>

\* cancel on IPP: the open jobs listed are asked to stop, some of them do, and
\* the second listing decides; when it fails the first one stands.
ippCancel ==
  \E seen \in {{}, InQueue} : \E stopped \in SUBSET (seen \cap OpenJobs) :
    LET before == {readDeviceJob(p) : p \in seen}
        after == {IF j.position \in stopped THEN [j EXCEPT !.state = "canceled"] ELSE j :
                    j \in {readDeviceJob(p) : p \in InQueue}}
    IN /\ deviceJobs' = [p \in Positions |-> IF p \in stopped
                         THEN [deviceJobs[p] EXCEPT !.state = "canceled"] ELSE deviceJobs[p]]
       /\ IF ~recordRead /\ before = {}
          THEN answer' = canceledBeforeSubmit
          ELSE \E jobs \in {before, after} :
                 LET total == aggregateJobs(expectedDocuments(jobs), jobs)
                 IN answer' = IF jobs = {} THEN unknownStatus
                              ELSE IF total.state \in {"COMPLETED", "CANCELED"} THEN total
                              ELSE operationStatus("CANCELED", "UNCONFIRMED", total.sheets)

\* cancel on Windows: the host removes the jobs it has notes of, some of them in
\* time.  Without notes it says "never", and that certainty is passed on.
windowsCancel ==
  \E stopped \in SUBSET IF notes = "known" THEN OpenJobs ELSE {} :
    /\ deviceJobs' = [p \in Positions |-> IF p \in stopped
                       THEN [deviceJobs[p] EXCEPT !.state = "canceled"] ELSE deviceJobs[p]]
    /\ \/ answer' = IF recordRead THEN unknownStatus ELSE canceledBeforeSubmit
       \/ \E r \in HostReports :
            answer' = IF r.state = "NOT_SUBMITTED" /\ ~recordRead THEN canceledBeforeSubmit
                      ELSE IF r.state = "COMPLETED" THEN withHonestConfidence(r)
                      ELSE withHonestConfidence([r EXCEPT !.state = "CANCELED"])

mockCancel ==
  /\ answer' = CASE marker = "completed" -> operationStatus("COMPLETED", "UNCONFIRMED", Unreported)
                 [] marker = "submitted" -> operationStatus("CANCELED", "UNCONFIRMED", Unreported)
                 [] marker = "none" -> canceledBeforeSubmit
  /\ UNCHANGED deviceJobs

cancelOperation ==
  /\ calling = "idle" /\ ~tooLate
  /\ \/ driver = "IPP" /\ ippCancel
     \/ driver = "WINDOWS" /\ windowsCancel
     \/ driver = "MOCK" /\ mockCancel
  /\ UNCHANGED <<driver, counting, scenario, calling, handed, journal, notes, marker, tooLate>>

-----------------------------------------------------------------------------
\* The process dies: a record being written is torn, what it knew is gone.
agentDies ==
  /\ calling # "idle" /\ calling' = "idle" /\ handed' = 0 /\ answer' = Forgotten
  /\ journal' \in IF driver # "MOCK" /\ calling \in {"ready", "sending"}
                  THEN {journal, "torn"} ELSE {journal}
  /\ UNCHANGED <<driver, counting, scenario, notes, marker, deviceJobs, tooLate>>

hostForgets ==
  /\ notes = "known" /\ notes' = "lost"
  /\ UNCHANGED <<driver, counting, scenario, calling, handed, journal, marker, deviceJobs, answer, tooLate>>

\* Past the deadline the sweep removes what both sides kept.
discardBefore ==
  /\ calling = "idle" /\ tooLate' = TRUE /\ answer' = Forgotten
  /\ journal' = "none" /\ notes' \in {"none", notes} /\ marker' = "none"
  /\ UNCHANGED <<driver, counting, scenario, calling, handed, deviceJobs>>

\* The device: a sheet comes out, a job ends, an ended job is forgotten.
deviceActs(p) ==
  /\ driver # "MOCK"
  /\ \/ /\ deviceJobs[p].state = "open" /\ deviceJobs[p].sheets < JobSheets
        /\ deviceJobs' = [deviceJobs EXCEPT ![p].sheets = @ + 1]
     \/ /\ deviceJobs[p].state = "open" /\ deviceJobs[p].sheets = JobSheets
        /\ deviceJobs' = [deviceJobs EXCEPT ![p].state = "completed"]
     \/ /\ deviceJobs[p].state = "open"
        /\ \E end \in {"aborted", "canceled"} :
             deviceJobs' = [deviceJobs EXCEPT ![p].state = end]
     \/ /\ deviceJobs[p].state \in JobTerminal
        /\ deviceJobs' = [deviceJobs EXCEPT ![p].state = "purged"]
  /\ UNCHANGED <<driver, counting, scenario, calling, handed, journal, notes, marker, answer, tooLate>>

AdaptersInit ==
  /\ driver \in Drivers /\ counting \in BOOLEAN
  /\ scenario \in IF driver = "MOCK" THEN Scenarios ELSE {"SUCCESS"}
  /\ calling = "idle" /\ handed = 0 /\ journal = "none" /\ notes = "none" /\ marker = "none"
  /\ deviceJobs = [p \in Positions |-> NoJob] /\ answer = NoAnswer /\ tooLate = FALSE

AdaptersNext ==
  \/ \E s \in Submissions : submit(s)
  \/ openOperation \/ printJob \/ awaitCompletion
  \/ hostSpools \/ readHostResult \/ recordSubmission \/ writeArtifacts
  \/ getOperationStatus \/ cancelOperation
  \/ agentDies \/ hostForgets \/ discardBefore
  \/ \E p \in Positions : deviceActs(p)

AdaptersSpec == AdaptersInit /\ [][AdaptersNext]_adapterVars

-----------------------------------------------------------------------------
AdaptersTypeOK ==
  /\ driver \in Drivers /\ counting \in BOOLEAN /\ scenario \in Scenarios
  /\ calling \in {"idle", "ready", "sending", "polling"} /\ handed \in 0..JobDocuments
  /\ journal \in {"none", "whole", "torn"} /\ notes \in {"none", "known", "lost"}
  /\ marker \in {"none", "submitted", "completed"} /\ tooLate \in BOOLEAN
  /\ deviceJobs \in [Positions -> [state : Listed \cup {"none", "purged"}, sheets : 0..JobSheets]]
  /\ answer.state \in OperationStates \cup {"REFUSED", "NONE", "FORGOTTEN"}

\* An adapter that is certain is right.  After a refusal it calls unambiguous,
\* a confirmed failure, cancellation or "never submitted", no sheet has come
\* out and no job is left in the queue that could still print one; after a
\* confirmed completion as many sheets have come out as it says, and of every
\* document unless the Windows host was killed between two documents (it then
\* answers for the ones it noted).  (submission.ts: "Only two
\* shapes survive as confirmed"; a purged queue, a torn journal, a host without
\* its notes and a crash at any step do not make the claim wrong.)  One answer is
\* left out: cancel on Windows, of which the host has lost its notes, passes the
\* host's "never" on as a certain cancellation.  Nothing in the agent calls it.
CertaintyIsPaper ==
  /\ AdaptersTypeOK
  /\ answer.confidence = "CONFIRMED"
       /\ ~(driver = "WINDOWS" /\ notes = "lost" /\ answer.state = "CANCELED") =>
       IF answer.state = "COMPLETED"
       THEN /\ answer.sheets = Produced /\ Produced > 0
            /\ driver # "WINDOWS" => Produced = JobDocuments * JobSheets
       ELSE Produced = 0 /\ OpenJobs = {}
=============================================================================
