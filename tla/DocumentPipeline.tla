-------------------------- MODULE DocumentPipeline --------------------------
(***************************************************************************)
(* A document's way through the document processor and back: the workers'  *)
(* client (processor-client.ts), the one request the processor serves at a *)
(* time (app.ts), scan, inspection, rendering and the archive it answers   *)
(* with, and the checks the client makes of that archive.  Either side's   *)
(* deadline may pass at any step; connections break, processes crash, the  *)
(* scanner, the tools and the disk fail, and an answer may arrive damaged. *)
(*                                                                         *)
(* A document is what the checks can tell of it.  Bytes are named by what  *)
(* they render, so equal digests mean equal bytes.                         *)
(***************************************************************************)
EXTENDS Integers, Sequences, FiniteSets
LOCAL INSTANCE SequencesExt

CONSTANTS
  Workers, Documents,
  MaxPages,     \* maxPages, the same on both sides
  MaxRequests,  \* bound on the requests of one worker
  MaxMishaps    \* bound on deadlines, crashes, losses, failures and damage

\* A PDF that inspection passes has a page (pdfinfo's count starts at 1); an image is one.
ASSUME PipelineAssumption ==
  /\ MaxPages \in Nat \ {0}
  /\ \A d \in Documents : IF d.kind = "PDF" THEN d.sound => d.pages \in Nat \ {0} ELSE d.pages = 1

VARIABLES
  tokenRight,  \* both sides hold the same authToken
  up,          \* the processor runs
  task,         \* the request being processed; NoTask: processing = false
  scratch,     \* directories in the processor's scratch
  worker,      \* each worker's call
  responses,   \* directories in the workers' scratch
  mishaps

pipelineVars == <<tokenRight, up, task, scratch, worker, responses, mishaps>>

NoTask == [step |-> "none"]
Mishap == mishaps < MaxMishaps /\ mishaps' = mishaps + 1

-----------------------------------------------------------------------------
\* Errors and their verdicts (errors.ts).
Error(code, retryable) == [code |-> code, retryable |-> retryable, readable |-> TRUE, excuse |-> "none"]
Refusal(code) == Error(code, FALSE)
Trouble(code) == Error(code, TRUE)
\* safeProcessorError: what is thrown when a signal aborts or the disk is full.
TimedOut == [Refusal("PROCESSING_TIMEOUT") EXCEPT !.excuse = "deadline"]
CapacityExhausted == Trouble("PROCESSOR_CAPACITY_EXHAUSTED")

\* The archive: the manifest, the normalized document, a preview of each page.
Bytes(d, page) == [of |-> d, page |-> page]
Entry(path, bytes) == [path |-> path, bytes |-> bytes, fits |-> TRUE]
PageEntry(d, n) == Entry(<<"preview", n>>, Bytes(d, n))
manifestPage(d, n) == [pageNumber |-> n, preview |-> [path |-> <<"preview", n>>, sha256 |-> Bytes(d, n)]]
Manifest(d, pages) ==
  [kind |-> d.kind, pageCount |-> Len(pages),
   normalized |-> [path |-> <<"normalized">>, sha256 |-> Bytes(d, 0)],
   pages |-> [n \in DOMAIN pages |-> manifestPage(d, pages[n])]]
Archive(d, pages) ==
  [manifest |-> <<Manifest(d, pages)>>, whole |-> TRUE, digest |-> TRUE, tar |-> TRUE,
   entries |-> <<Entry(<<"normalized">>, Bytes(d, 0))>> \o [n \in DOMAIN pages |-> PageEntry(d, pages[n])]]

\* Ways an answer can arrive damaged: cut off, altered, or put together wrongly.
Damaged(a) ==
  LET n == Len(a.entries)
      m == a.manifest[1]
  IN {[a EXCEPT !.whole = FALSE, !.entries = Front(@)], [a EXCEPT !.digest = FALSE], [a EXCEPT !.tar = FALSE],
      [a EXCEPT !.entries = Front(@)], [a EXCEPT !.entries = Append(@, a.entries[n])],
      [a EXCEPT !.entries = Append(@, PageEntry(a.entries[1].bytes.of, n))],
      [a EXCEPT !.entries = Append(@, Entry(<<"elsewhere">>, a.entries[1].bytes))],
      [a EXCEPT !.entries[n].bytes = a.entries[1].bytes], [a EXCEPT !.entries[n].fits = FALSE],
      [a EXCEPT !.entries[1].bytes = a.entries[n].bytes],
      [a EXCEPT !.manifest = <<>>], [a EXCEPT !.manifest[1].pageCount = @ + 1],
      [a EXCEPT !.manifest[1].pages = Front(@), !.manifest[1].pageCount = @ - 1],
      [a EXCEPT !.manifest[1].pages = Reverse(@)]} \ {a}

-----------------------------------------------------------------------------
\* The processor answers on the connection its task came in on, if it is still
\* open, and gives the task up.
Waiting(c, conn) == worker[c].step = "sent" /\ worker[c].conn = conn
Reply(answer) ==
  worker' = IF Waiting(task.client, task.conn) THEN [worker EXCEPT ![task.client].answer = <<answer>>] ELSE worker

\* process() failed: its working directory goes before the answer does.
Fails(error) ==
  /\ Reply(error)
  /\ scratch' = {s \in scratch : s.for # "job"}
  /\ task' = [task EXCEPT !.step = "release"]
  /\ UNCHANGED <<tokenRight, up, responses>>
Continues(next) ==
  /\ task' = next
  /\ UNCHANGED <<tokenRight, up, scratch, worker, responses>>
Directory(for, c, conn) == [for |-> for, client |-> c, conn |-> conn]
Runs(step) == up /\ task.step = step

\* validateRequest, and the slot: refused from the headers alone.
validateRequest(d) ==
  CASE ~tokenRight -> <<Refusal("INVALID_AUTHENTICATION")>>
    [] tokenRight /\ d.large -> <<Refusal("REQUEST_TOO_LARGE")>>
    [] OTHER -> <<>>

Busy == task # NoTask

handleRequest(c) ==
  LET d == worker[c].document
      refused == validateRequest(d)
  IN /\ up /\ worker[c].step = "sent" /\ worker[c].answer = <<>>
     /\ ~(IF task = NoTask THEN FALSE ELSE task.client = c /\ task.conn = worker[c].conn)
     /\ \/ /\ refused # <<>> \/ Busy
           /\ worker' = [worker EXCEPT ![c].answer =
                IF refused # <<>> THEN refused ELSE <<Trouble("PROCESSOR_BUSY")>>]
           /\ UNCHANGED <<task, scratch>>
        \/ /\ refused = <<>> /\ ~Busy
           /\ task' = [step |-> "input", client |-> c, conn |-> worker[c].conn, document |-> d,
                      count |-> 0, pages |-> <<>>]
           /\ scratch' = scratch \cup {Directory("job", c, worker[c].conn)}
           /\ UNCHANGED worker
     /\ UNCHANGED <<tokenRight, up, responses, mishaps>>

\* InputInspectionTransform: length and digest are the announced ones.
Intact(d) == d.delivered
hasExpectedSignature(d) == d.signed

\* The body is in: digest, then signature.
receiveInput ==
  /\ Runs("input") /\ UNCHANGED mishaps
  /\ CASE ~Intact(task.document) -> Fails(Refusal("CONTENT_HASH_MISMATCH"))
       [] Intact(task.document) /\ ~hasExpectedSignature(task.document) -> Fails(Refusal("MALFORMED_DOCUMENT"))
       [] OTHER -> Continues([task EXCEPT !.step = "scan"])

\* Mutant of Scanned: any answer that is not FOUND is taken for OK.
ScannedUnlessFound(answer) == answer # "FOUND"
Scanned(answer) == answer = "OK"

\* checkReady: definitions that are too old, or from the future.
assertFresh == Mishap /\ Fails(Trouble("MALWARE_SCANNER_STALE"))
\* A socket that cannot be opened, written or read to the end is an error.
ScannerAnswers(d) == {"ERROR", IF d.infected THEN "FOUND" ELSE "OK"}

\* scan: fresh definitions first, then the whole stream; whatever else happens
\* is the scanner's trouble.
scan ==
  /\ Runs("scan")
  /\ \/ assertFresh
     \/ \E answer \in ScannerAnswers(task.document) :
          /\ IF answer = "ERROR" THEN Mishap ELSE UNCHANGED mishaps
          /\ IF Scanned(answer) THEN Continues([task EXCEPT !.step = "inspect"])
             ELSE Fails(IF answer = "FOUND" THEN Refusal("MALWARE_DETECTED")
                        ELSE Trouble("MALWARE_SCANNER_UNAVAILABLE"))

\* inspectPdf: encryption, structure, page count.  An image is one page.
inspectPdf ==
  LET d == task.document
  IN /\ Runs("inspect") /\ UNCHANGED mishaps
     /\ CASE d.kind # "PDF" -> Continues([task EXCEPT !.step = "render", !.count = 1])
          [] d.kind = "PDF" /\ d.encrypted -> Fails(Refusal("PASSWORD_PROTECTED_PDF"))
          [] d.kind = "PDF" /\ ~d.encrypted /\ ~d.sound -> Fails(Refusal("MALFORMED_DOCUMENT"))
          [] d.kind = "PDF" /\ ~d.encrypted /\ d.sound /\ d.pages > MaxPages ->
               Fails(Refusal("PAGE_LIMIT_EXCEEDED"))
          [] OTHER -> Continues([task EXCEPT !.step = "render", !.count = d.pages])

Rendered == Len(task.pages) = task.count

\* normalizePage: what does not decode within the limits, what comes out too large.
normalizePage(d) ==
  CASE ~d.renders -> <<Refusal("MALFORMED_DOCUMENT")>>
    [] d.renders /\ d.bulky -> <<Refusal("OUTPUT_SIZE_LIMIT_EXCEEDED")>>
    [] OTHER -> <<>>
addPage == [task EXCEPT !.pages = Append(@, Len(@) + 1)]

\* processPdf's loop: rasterize, normalize and append a page; an image goes
\* straight to normalizePage.
normalizeIntoPdf ==
  LET refused == normalizePage(task.document)
  IN /\ Runs("render") /\ ~Rendered /\ UNCHANGED mishaps
     /\ IF refused = <<>> THEN Continues(addPage) ELSE Fails(refused[1])

\* finalize, assertCanonicalPdf, the manifest.
finalize ==
  /\ Runs("render") /\ Rendered /\ UNCHANGED mishaps
  /\ Continues([task EXCEPT !.step = "archive"])

\* sendProcessedDocumentTar: built on disk, then streamed; response- goes when
\* the stream has ended.
buildTar ==
  /\ Runs("archive")
  /\ task' = [task EXCEPT !.step = "stream"]
  /\ scratch' = scratch \cup {Directory("response", task.client, task.conn)}
  /\ UNCHANGED <<tokenRight, up, worker, responses, mishaps>>

streamTar ==
  /\ Runs("stream")
  /\ Reply(Archive(task.document, task.pages))
  /\ scratch' = {s \in scratch : s.for # "response"}
  /\ task' = [task EXCEPT !.step = "release"]
  /\ UNCHANGED <<tokenRight, up, responses, mishaps>>

\* The finally block: cleanup and then the slot.
release ==
  /\ Runs("release")
  /\ scratch' = {s \in scratch : s.for # "job"} /\ task' = NoTask
  /\ UNCHANGED <<tokenRight, up, worker, responses, mishaps>>

\* The processor's deadline or a tool's.  Inside the scan every failure is the
\* scanner's; once the headers are out the response is just destroyed.
processorDeadline ==
  /\ up /\ task.step \in {"input", "scan", "inspect", "render", "archive", "stream"} /\ Mishap
  /\ \/ /\ task.step = "scan" /\ Fails(Trouble("MALWARE_SCANNER_UNAVAILABLE"))
     \/ /\ task.step \in {"input", "inspect", "render"} /\ Fails(TimedOut)
     \/ /\ task.step = "archive"
        /\ Reply(TimedOut) /\ task' = [task EXCEPT !.step = "release"]
        /\ UNCHANGED <<tokenRight, up, scratch, responses>>
     \/ /\ task.step = "stream"
        /\ Reply(Trouble("CONNECTION_RESET")) /\ task' = [task EXCEPT !.step = "release"]
        /\ scratch' = {s \in scratch : s.for # "response"}
        /\ UNCHANGED <<tokenRight, up, responses>>

\* The client hung up: the abort is noticed at the next step that looks, and
\* nobody reads the answer.
requestAborted ==
  /\ up /\ task.step \in {"input", "scan", "inspect", "render", "archive", "stream"}
  /\ ~Waiting(task.client, task.conn)
  /\ task' = [task EXCEPT !.step = "release"]
  /\ scratch' = {s \in scratch : s.for = "job" /\ task.step \in {"archive", "stream"}}
  /\ UNCHANGED <<tokenRight, up, worker, responses, mishaps>>

\* The disk is full, or a native tool is missing; a tool killed from outside is
\* taken for the document's fault (exit code -1).
toolFails ==
  /\ up /\ Mishap
  /\ \/ task.step \in {"input", "render"} /\ Fails(CapacityExhausted)
     \/ /\ task.step \in {"inspect", "render"} /\ task.document.kind = "PDF"
        /\ Fails(Trouble("NATIVE_TOOL_UNAVAILABLE"))
     \/ /\ task.step \in {"inspect", "render"} /\ task.document.kind = "PDF"
        /\ Fails([Refusal("MALFORMED_DOCUMENT") EXCEPT !.excuse = "killed"])

\* The processor dies with its slot and its connections, not with its scratch;
\* a restart clears that (cleanupStaleScratch).
processorCrashes ==
  /\ up /\ Mishap /\ up' = FALSE /\ task' = NoTask
  /\ worker' = [c \in Workers |-> IF worker[c].step = "sent" /\ worker[c].answer = <<>>
                                  THEN [worker[c] EXCEPT !.answer = <<Trouble("CONNECTION_RESET")>>]
                                  ELSE worker[c]]
  /\ UNCHANGED <<tokenRight, scratch, responses>>
cleanupStaleScratch ==
  /\ ~up /\ up' = TRUE /\ scratch' = {}
  /\ UNCHANGED <<tokenRight, task, worker, responses, mishaps>>

-----------------------------------------------------------------------------
\* The client's checks of an archive (extractResponse): each refuses, and every
\* refusal may be retried.
entryByteLimit(e) ==
  /\ e.fits
  /\ e.path = <<"normalized">> \/ (e.path[1] = "preview" /\ e.path[2] <= MaxPages)
parseManifest(m) ==
  /\ m.pageCount \in 1..MaxPages /\ Len(m.pages) = m.pageCount
  /\ m.normalized.path = <<"normalized">>
  /\ \A n \in DOMAIN m.pages :
       m.pages[n].pageNumber = n /\ m.pages[n].preview.path = <<"preview", n>>
assertArtifactMatches(named, entries) ==
  \E i \in DOMAIN entries : entries[i].path = named.path /\ entries[i].bytes = named.sha256
AllReferenced(m, entries) == Len(entries) = Len(m.pages) + 1
extractResponse(a) ==
  /\ a.tar /\ Len(a.entries) <= MaxPages + 1
  /\ \A i, j \in DOMAIN a.entries : a.entries[i].path = a.entries[j].path => i = j
  /\ \A i \in DOMAIN a.entries : entryByteLimit(a.entries[i])
  /\ a.whole /\ a.manifest # <<>> /\ a.digest
  /\ LET m == a.manifest[1]
     IN /\ parseManifest(m)
        /\ assertArtifactMatches(m.normalized, a.entries)
        /\ \A n \in DOMAIN m.pages : assertArtifactMatches(m.pages[n].preview, a.entries)
        /\ AllReferenced(m, a.entries)

\* Mutant of parseProcessorError: an error that cannot be read is final.
parseProcessorErrorAsFinal(e) ==
  IF e.readable THEN e ELSE [e EXCEPT !.code = "DOCUMENT_REJECTED", !.retryable = FALSE]

\* parseProcessorError: an error that cannot be read counts by its status alone.
parseProcessorError(e) ==
  IF e.readable THEN e
  ELSE [e EXCEPT !.code = IF e.retryable THEN "PROCESSOR_UNAVAILABLE" ELSE "DOCUMENT_REJECTED"]

Ours(c) == {r \in responses : r.client = c /\ r.conn = worker[c].conn}
Gives(c, outcome) ==
  /\ worker' = [worker EXCEPT ![c].step = "failed", ![c].answer = <<>>, ![c].outcome = <<outcome>>]
  /\ responses' = responses \ Ours(c)
  /\ UNCHANGED <<tokenRight, up, task, scratch>>

\* process: a directory for the answer, then the request; a worker tries its
\* document again unless it was refused for good.
process(c) ==
  /\ worker[c].step = "idle" \/ (worker[c].step = "failed" /\ worker[c].outcome[1].retryable)
  /\ worker[c].conn < MaxRequests
  /\ worker' = [worker EXCEPT ![c] = [step |-> "sent", document |-> @.document, conn |-> @.conn + 1,
                                      answer |-> <<>>, damaged |-> FALSE, outcome |-> <<>>]]
  /\ responses' = responses \cup {[client |-> c, conn |-> worker[c].conn + 1, orphan |-> FALSE, old |-> FALSE]}
  /\ UNCHANGED <<tokenRight, up, task, scratch, mishaps>>

readResponse(c) ==
  LET a == worker[c].answer[1]
  IN /\ worker[c].step = "sent" /\ worker[c].answer # <<>> /\ UNCHANGED mishaps
     /\ \/ "code" \in DOMAIN a /\ Gives(c, parseProcessorError(a))
        \/ "tar" \in DOMAIN a /\ ~extractResponse(a) /\ Gives(c, Trouble("PROCESSOR_ARCHIVE_INVALID"))
        \/ /\ "tar" \in DOMAIN a /\ extractResponse(a)
           /\ worker' = [worker EXCEPT ![c].step = "bundle"]
           /\ UNCHANGED <<tokenRight, up, task, scratch, responses>>

\* The client's deadline, or its caller's abort: the connection is closed.
clientDeadline(c) ==
  worker[c].step = "sent" /\ Mishap /\ Gives(c, Trouble("PROCESSING_TIMEOUT"))

\* The connection breaks, or the answer arrives damaged in one way.
connectionFails(c) ==
  LET a == worker[c].answer
  IN /\ worker[c].step = "sent" /\ Mishap
     /\ \/ Gives(c, Trouble("PROCESSOR_UNAVAILABLE"))
        \/ /\ a # <<>> /\ ~worker[c].damaged
           /\ \E damaged \in (IF "tar" \in DOMAIN a[1] THEN Damaged(a[1])
                             ELSE {[a[1] EXCEPT !.readable = FALSE]}) :
                worker' = [worker EXCEPT ![c].answer = <<damaged>>, ![c].damaged = TRUE]
           /\ UNCHANGED <<tokenRight, up, task, scratch, responses>>

\* The caller has stored what it wanted and calls cleanup().
cleanup(c) ==
  /\ worker[c].step = "bundle"
  /\ worker' = [worker EXCEPT ![c].step = "stored", ![c].answer = <<>>]
  /\ responses' = responses \ Ours(c)
  /\ UNCHANGED <<tokenRight, up, task, scratch, mishaps>>

workerCrashes(c) ==
  /\ worker[c].step \in {"sent", "bundle"} /\ Mishap
  /\ worker' = [worker EXCEPT ![c].step = "idle", ![c].answer = <<>>]
  /\ responses' = {IF r \in Ours(c) THEN [r EXCEPT !.orphan = TRUE] ELSE r : r \in responses}
  /\ UNCHANGED <<tokenRight, up, task, scratch>>

\* A directory outlives twice the longest request only if its worker is gone or
\* still busy storing the bundle.
growsOld(r) ==
  /\ ~r.old
  /\ r.orphan \/ worker[r.client].step = "bundle"
  /\ responses' = (responses \ {r}) \cup {[r EXCEPT !.old = TRUE]}
  /\ UNCHANGED <<tokenRight, up, task, scratch, worker, mishaps>>
cleanupOrphanedProcessorScratch ==
  /\ \E r \in responses : r.old
  /\ responses' = {r \in responses : ~r.old}
  /\ UNCHANGED <<tokenRight, up, task, scratch, worker, mishaps>>

PipelineInit ==
  /\ tokenRight \in BOOLEAN /\ up = TRUE /\ task = NoTask /\ scratch = {}
  /\ worker \in [Workers -> {[step |-> "idle", document |-> d, conn |-> 0, answer |-> <<>>,
                               damaged |-> FALSE, outcome |-> <<>>] : d \in Documents}]
  /\ responses = {} /\ mishaps \in 0 .. MaxMishaps

PipelineNext ==
  \/ receiveInput \/ scan \/ inspectPdf \/ normalizeIntoPdf \/ finalize \/ buildTar \/ streamTar
  \/ release \/ processorDeadline \/ requestAborted \/ toolFails \/ processorCrashes
  \/ cleanupStaleScratch \/ cleanupOrphanedProcessorScratch
  \/ \E c \in Workers : \/ handleRequest(c) \/ readResponse(c) \/ clientDeadline(c)
                        \/ connectionFails(c) \/ cleanup(c) \/ workerCrashes(c)
                        \/ process(c)
  \/ \E r \in responses : growsOld(r)

PipelineSpec == PipelineInit /\ [][PipelineNext]_pipelineVars

-----------------------------------------------------------------------------
(* What a worker is handed as a bundle is its own document: clean, openable, *)
(* within the limits, every page once and in order, and nothing else in the  *)
(* archive, however answers were damaged, requests crossed or the processor  *)
(* restarted; no parser touches a document the scanner has not passed; and   *)
(* neither side keeps scratch for a request that is over, unless the process *)
(* itself died (document-processor.ts process, processor-client.ts           *)
(* extractResponse, app.ts handleRequest).                                   *)
BundleIsTheDocument ==
  /\ \A c \in Workers : worker[c].step = "bundle" =>
       LET d == worker[c].document
           a == worker[c].answer[1]
       IN /\ tokenRight /\ d.delivered /\ d.signed /\ ~d.infected /\ ~d.large /\ ~d.bulky /\ d.renders
          /\ d.kind = "PDF" => ~d.encrypted /\ d.sound
          /\ a.manifest[1] = Manifest(d, [n \in 1..d.pages |-> n])
          /\ {a.entries[i] : i \in DOMAIN a.entries} =
               {Entry(<<"normalized">>, Bytes(d, 0))} \cup {PageEntry(d, n) : n \in 1..d.pages}
  /\ task.step \in {"inspect", "render", "archive", "stream"} => ~task.document.infected
  /\ up /\ task = NoTask => scratch = {}
  /\ \A r \in responses : ~r.orphan => r \in Ours(r.client) /\ worker[r.client].step \in {"sent", "bundle"}

(* A verdict that is final is deserved: a document a worker may not retry    *)
(* has the defect the code names, or the processor's own deadline passed or  *)
(* one of its tools was killed while on it; everything else that can go      *)
(* wrong on either side, the wire, the scanner and the disk included, may be *)
(* tried again (errors.ts, native-tools.ts, processor-client.ts).            *)
VerdictIsDeserved ==
  \A c \in Workers : worker[c].outcome # <<>> /\ ~worker[c].outcome[1].retryable =>
    LET d == worker[c].document
        e == worker[c].outcome[1]
        Defect ==
          [INVALID_AUTHENTICATION |-> ~tokenRight,
           REQUEST_TOO_LARGE |-> d.large, CONTENT_HASH_MISMATCH |-> ~d.delivered,
           MALWARE_DETECTED |-> d.infected, PASSWORD_PROTECTED_PDF |-> d.encrypted,
           PAGE_LIMIT_EXCEEDED |-> d.pages > MaxPages, OUTPUT_SIZE_LIMIT_EXCEEDED |-> d.bulky,
           MALFORMED_DOCUMENT |-> ~d.signed \/ ~d.sound \/ ~d.renders \/ e.excuse = "killed",
           PROCESSING_TIMEOUT |-> e.excuse = "deadline"]
    IN IF e.code = "DOCUMENT_REJECTED" THEN \E code \in DOMAIN Defect : Defect[code]
       ELSE Defect[e.code]
=============================================================================
