----------------------------- MODULE PrintSystem -----------------------------
(***************************************************************************)
(* One print operation end to end: the control plane of PrintControl, the  *)
(* kiosk agents that lease its command (print/runner.ts), the network      *)
(* between them, the files an agent keeps (ledger, spool) and the printer  *)
(* behind an adapter, with the evidence the adapter journals.              *)
(*                                                                         *)
(* Agents and control plane are assumed to agree on the time.  An agent    *)
(* may stall at any await for any time, may crash, and may see a request   *)
(* time out that the server processes later.                               *)
(***************************************************************************)
EXTENDS PrintControl

CONSTANTS
  Agents,     \* agent instances serving the kiosk, sharing its directories
  Retention,  \* PRINTER_OUTPUT_RETENTION_SECONDS, in ticks
  MaxCrashes  \* bound on agent crashes

ASSUME PrintSystemAssumption ==
  /\ Agents # {}
  /\ Retention \in Nat
  /\ JobTimeout <= Retention   \* the environment schema's cross-check
  /\ MaxCrashes \in Nat

VARIABLES
  agent,      \* per instance: where runOnce is, and what it holds
  net,        \* requests whose sender gave up, which may still be served
  ledger,     \* the SUBMITTING entry of the local ledger
  spool,      \* when the customer's document was spooled, or Null
  device,     \* the adapter's evidence and the printer behind it
  manifestOk, \* whether the delivered manifest hashes to its recorded hash
  crashes     \* agent crashes so far

agentVars == <<agent, net, ledger, spool, device, manifestOk, crashes>>
vars == <<now, job, cmd, queue, session, money, paperUsed,
          agent, net, ledger, spool, device, manifestOk, crashes>>

-----------------------------------------------------------------------------
(* Values *)

Tokens == 1 .. MaxCommandAttempts

\* Where runOnce is.  "preparing", "authorising" and "reporting" await a reply.
PCs == {"idle", "claimed", "asking", "preparing", "fetching", "intending",
        "authorising", "handover", "calling", "reporting"}

OpenDeviceStates == {"SUBMITTED", "PRINTING"}

\* What a device host or queue may say of an operation.
Accounts == [state      : {"PRINTING", "COMPLETED", "FAILED", "CANCELED", "UNKNOWN"},
             confidence : {"CONFIRMED", "UNCONFIRMED"},
             sheets     : {0, PhysicalSheets}] \cup {Unknown}

\* Plausible slip: a fresh process has no sweep scheduled at all.
IdleAgentUnscheduled(sweepAt) ==
  [pc |-> "idle", token |-> Null, redelivered |-> FALSE, result |-> Unknown,
   renewing |-> FALSE, nextSweepAt |-> Null]

\* Between two operations.
IdleAgent(sweepAt) ==
  [pc |-> "idle", token |-> Null, redelivered |-> FALSE, result |-> Unknown,
   renewing |-> FALSE, nextSweepAt |-> sweepAt]

Go(a, pc) == agent' = [agent EXCEPT ![a].pc = pc]
Goto(a, pc, r) == agent' = [agent EXCEPT ![a].pc = pc, ![a].result = r, ![a].renewing = FALSE]

-----------------------------------------------------------------------------
(* The adapter's evidence and its honesty *)

\* withHonestConfidence: only a counted completion and a proved zero survive as
\* confirmed.
WithHonestConfidence(r) ==
  LET confirmable == IF r.state = "COMPLETED" THEN r.sheets > 0
                     ELSE r.sheets = 0 /\ r.state \in {"FAILED", "CANCELED", "NOT_SUBMITTED"}
  IN IF r.confidence = "CONFIRMED" /\ ~confirmable
     THEN [r EXCEPT !.confidence = "UNCONFIRMED"] ELSE r

\* The printer is done with everything it was ever offered.
Quiet == device.calls = {} /\ ~device.busy

\* What the printer may say: no "completed" about work it was never given, and
\* no confirmed zero unless no paper came and none is on its way.
Truthful(r) ==
  /\ r.state \in {"COMPLETED", "PRINTING"} => device.runs # {}
  /\ r.confidence = "CONFIRMED" /\ r.sheets = 0 => Quiet /\ device.sheets = 0

DeviceAccounts == {WithHonestConfidence(r) : r \in {x \in Accounts : Truthful(x)}}

\* Plausible slip: an operation the queue does not remember was never submitted.
AnswersForgettingJournal == IF device.runs # {} THEN DeviceAccounts ELSE {NotSubmitted}

\* getOperationStatus, with askDevice's own answer for a device that cannot be
\* asked.  A journal entry forbids NOT_SUBMITTED; with no entry and no reachable
\* device the adapter says NOT_SUBMITTED.
GetOperationStatus ==
  IF device.journal THEN DeviceAccounts
  ELSE {Unknown, NotSubmitted} \cup (IF device.runs # {} THEN DeviceAccounts ELSE {})

-----------------------------------------------------------------------------
(* The printer *)

\* An offered call is taken: the printer now has the work.
DeviceTakes(token) ==
  /\ token \in device.calls
  /\ device' = [device EXCEPT !.calls = @ \ {token}, !.runs = @ \cup {token}, !.busy = TRUE]
  /\ UNCHANGED <<controlVars, agent, net, ledger, spool, manifestOk, crashes>>

DeviceMarks ==
  /\ device.busy
  /\ device.sheets < PhysicalSheets * Cardinality(device.runs)
  /\ device' = [device EXCEPT !.sheets = @ + 1]
  /\ UNCHANGED <<controlVars, agent, net, ledger, spool, manifestOk, crashes>>

\* Finished, jammed, out of paper or cancelled at the panel.
DeviceStops ==
  /\ device.busy
  /\ device' = [device EXCEPT !.busy = FALSE]
  /\ UNCHANGED <<controlVars, agent, net, ledger, spool, manifestOk, crashes>>

-----------------------------------------------------------------------------
(* runOnce: sweep, then claim *)

\* Plausible slip: evidence swept on the spool's cutoff, without the retention.
SweepEverything(a) ==
  /\ agent[a].pc = "idle"
  /\ agent[a].nextSweepAt <= now
  /\ agent' = [agent EXCEPT ![a].nextSweepAt = now + JobTimeout]
  /\ spool' = IF spool # Null /\ spool < now THEN Null ELSE spool
  /\ device' = IF device.journal /\ device.at < now
               THEN [device EXCEPT !.journal = FALSE] ELSE device
  /\ UNCHANGED <<controlVars, net, ledger, manifestOk, crashes>>

\* Plausible slip: the age test the wrong way round.
SweepFreshSpool(a) ==
  /\ agent[a].pc = "idle"
  /\ agent[a].nextSweepAt <= now
  /\ agent' = [agent EXCEPT ![a].nextSweepAt = now + JobTimeout]
  /\ spool' = IF spool # Null /\ spool > now - JobTimeout THEN Null ELSE spool
  /\ device' = IF device.journal /\ device.at < now - Retention
               THEN [device EXCEPT !.journal = FALSE] ELSE device
  /\ UNCHANGED <<controlVars, net, ledger, manifestOk, crashes>>

\* sweepLocalArtifacts: by age, at most once per job timeout.
SweepLocalArtifacts(a) ==
  /\ agent[a].pc = "idle"
  /\ agent[a].nextSweepAt <= now
  /\ agent' = [agent EXCEPT ![a].nextSweepAt = now + JobTimeout]
  /\ spool' = IF spool # Null /\ spool < now - JobTimeout THEN Null ELSE spool
  /\ device' = IF device.journal /\ device.at < now - Retention
               THEN [device EXCEPT !.journal = FALSE] ELSE device
  /\ UNCHANGED <<controlVars, net, ledger, manifestOk, crashes>>

\* claim: the reply reaches the agent, or is lost with the command leased.
Claim(a) ==
  /\ agent[a].pc = "idle"
  /\ now < agent[a].nextSweepAt
  /\ ClaimOne
  /\ \/ agent' = [agent EXCEPT ![a].pc = "claimed", ![a].token = cmd.attempts + 1,
                               ![a].redelivered = cmd.attempts > 0]
     \/ UNCHANGED agent
  /\ UNCHANGED <<net, ledger, spool, device, manifestOk, crashes>>

-----------------------------------------------------------------------------
(* runOperation up to the submission boundary *)

\* The manifest hash is checked first; a redelivered or already submitted
\* operation is looked up before anything is fetched.
Begin(a) ==
  /\ agent[a].pc = "claimed"
  /\ IF ~manifestOk THEN Goto(a, "reporting", NotSubmitted)
     ELSE IF agent[a].redelivered \/ ledger THEN Go(a, "asking") ELSE Go(a, "preparing")
  /\ UNCHANGED <<controlVars, net, ledger, spool, device, manifestOk, crashes>>

\* askDevice on a redelivery: anything but NOT_SUBMITTED is the result.
Ask(a) ==
  /\ agent[a].pc = "asking"
  /\ \E r \in GetOperationStatus :
       IF r.state = "NOT_SUBMITTED" THEN Go(a, "preparing") ELSE Goto(a, "reporting", r)
  /\ UNCHANGED <<controlVars, net, ledger, spool, device, manifestOk, crashes>>

\* fetchDocuments: each download needs a live lease and must match the manifest.
\* On any failure the local copies go and the job is certainly not submitted.
Fetch(a) ==
  /\ agent[a].pc = "fetching"
  /\ \/ Held(agent[a].token) /\ spool' = now /\ Go(a, "intending")
     \/ spool' = Null /\ Goto(a, "reporting", NotSubmitted)
  /\ UNCHANGED <<controlVars, net, ledger, device, manifestOk, crashes>>

\* The intent is durable before the authorisation is asked for.
RecordIntent(a) ==
  /\ agent[a].pc = "intending"
  /\ ledger' = TRUE
  /\ Go(a, "authorising")
  /\ UNCHANGED <<controlVars, net, spool, device, manifestOk, crashes>>

-----------------------------------------------------------------------------
(* The handover *)

\* Plausible slip: the evidence is written only once the device has answered.
OpenJournalLater(a) ==
  /\ agent[a].pc = "handover"
  /\ spool # Null
  /\ device' = [device EXCEPT !.calls = @ \cup {agent[a].token}]
  /\ Go(a, "calling")
  /\ UNCHANGED <<controlVars, net, ledger, spool, manifestOk, crashes>>

\* adapter.submit: the journal entry is durable, then the device is called.
OpenJournal(a) ==
  /\ agent[a].pc = "handover"
  /\ spool # Null
  /\ device' = [device EXCEPT !.journal = TRUE, !.at = now,
                              !.calls = @ \cup {agent[a].token}]
  /\ Go(a, "calling")
  /\ UNCHANGED <<controlVars, net, ledger, spool, manifestOk, crashes>>

\* adapter.submit refuses before any evidence exists (offline, bad manifest, a
\* document that is gone), or the device answers the call with a refusal.
Refuse(a) ==
  /\ \/ agent[a].pc = "handover" /\ UNCHANGED device
     \/ /\ agent[a].pc = "calling"
        /\ agent[a].token \in device.calls
        /\ device' = [device EXCEPT !.calls = @ \ {agent[a].token}]
  /\ spool' = Null
  /\ Goto(a, "reporting", NotSubmitted)
  /\ UNCHANGED <<controlVars, net, ledger, manifestOk, crashes>>

\* applyMarkerEvidence: the page counter can take a success away, nothing else.
ApplyMarkerEvidence(r) ==
  IF r.state = "COMPLETED" /\ r.confidence = "CONFIRMED"
  THEN {r, [r EXCEPT !.confidence = "UNCONFIRMED", !.sheets = Null]} ELSE {r}

\* awaitDeviceOutcome and resolveAdapterFailure: an open state is waited out, an
\* ambiguous error or the deadline is UNKNOWN, and NOT_SUBMITTED after an
\* ambiguous error is not believed.
Collect(a) ==
  /\ agent[a].pc = "calling"
  /\ \E known \in GetOperationStatus \cup {Unknown} :
       /\ known.state \notin OpenDeviceStates
       /\ \E r \in ApplyMarkerEvidence(IF known.state = "NOT_SUBMITTED" THEN Unknown ELSE known) :
            Goto(a, "reporting", r)
  /\ spool' = Null
  /\ UNCHANGED <<controlVars, net, ledger, device, manifestOk, crashes>>

\* startLeaseRenewal's timer.  A refusal, and just as much a request that fails,
\* ends the renewal.
Renew(a) ==
  /\ agent[a].renewing
  /\ \/ /\ ReportProgress(agent[a].token, "PRINTING")
        /\ agent' = [agent EXCEPT ![a].renewing = Held(agent[a].token)]
     \/ /\ UNCHANGED controlVars
        /\ agent' = [agent EXCEPT ![a].renewing = FALSE]
  /\ UNCHANGED <<net, ledger, spool, device, manifestOk, crashes>>

-----------------------------------------------------------------------------
(* Requests *)

\* The request an agent is waiting on.
Request(a) ==
  CASE agent[a].pc = "preparing"   -> [token |-> agent[a].token, says |-> "PREPARING", result |-> Unknown]
    [] agent[a].pc = "authorising" -> [token |-> agent[a].token, says |-> "SUBMITTED", result |-> Unknown]
    [] OTHER -> [token |-> agent[a].token, says |-> "RESULT", result |-> agent[a].result]

Serve(m) == IF m.says = "RESULT" THEN ReportResult(m.token, m.result)
            ELSE ReportProgress(m.token, m.says)

\* What the agent does with an answer.  Before the boundary a refusal proves
\* that nothing was submitted; after a report the operation is over either way.
Answer(a, accepted) ==
  CASE agent[a].pc = "preparing" /\ accepted -> Go(a, "fetching") /\ UNCHANGED spool
    [] agent[a].pc = "authorising" /\ accepted ->
         /\ agent' = [agent EXCEPT ![a].pc = "handover", ![a].renewing = TRUE]
         /\ UNCHANGED spool
    [] agent[a].pc \in {"preparing", "authorising"} /\ ~accepted ->
         spool' = Null /\ Goto(a, "reporting", NotSubmitted)
    [] OTHER -> agent' = [agent EXCEPT ![a] = IdleAgent(agent[a].nextSweepAt)] /\ spool' = Null

Waiting(a) == agent[a].pc \in {"preparing", "authorising", "reporting"}

\* The request is served and the reply arrives in time.
Exchange(a) ==
  /\ Waiting(a)
  /\ Serve(Request(a))
  /\ Answer(a, Held(agent[a].token))
  /\ UNCHANGED <<net, ledger, device, manifestOk, crashes>>

\* The agent's ten seconds are over; the request may be served later, or never.
GiveUp(a) ==
  /\ Waiting(a)
  /\ Answer(a, FALSE)
  /\ net' = net \cup {Request(a)}
  /\ UNCHANGED <<controlVars, ledger, device, manifestOk, crashes>>

ServeLate(m) ==
  /\ m \in net
  /\ net' = net \ {m}
  /\ Serve(m)
  /\ UNCHANGED <<agent, ledger, spool, device, manifestOk, crashes>>

-----------------------------------------------------------------------------
(* Faults *)

\* The agent process dies and is started again: files and device carry on, and a
\* request on the wire may still arrive.
Crash(a) ==
  /\ crashes < MaxCrashes
  /\ agent[a].pc # "idle"
  /\ agent' = [agent EXCEPT ![a] = IdleAgent(0)]
  /\ net' = IF Waiting(a) THEN net \cup {Request(a)} ELSE net
  /\ crashes' = crashes + 1
  /\ UNCHANGED <<controlVars, ledger, spool, device, manifestOk>>

\* Someone wipes the spool directory of a quiet kiosk, ledger included.
WipeSpool ==
  /\ \A a \in Agents : agent[a].pc = "idle"
  /\ ledger \/ spool # Null
  /\ ledger' = FALSE
  /\ spool' = Null
  /\ UNCHANGED <<controlVars, agent, net, device, manifestOk, crashes>>

-----------------------------------------------------------------------------
(* Specification *)

SystemInit ==
  /\ Init
  /\ agent = [a \in Agents |-> IdleAgent(0)]
  /\ net = {}
  /\ ledger = FALSE
  /\ spool = Null
  /\ device = [journal |-> FALSE, at |-> 0, calls |-> {}, runs |-> {}, sheets |-> 0,
               busy |-> FALSE]
  /\ manifestOk \in BOOLEAN
  /\ crashes = 0

ControlPlane ==
  /\ CreatePrintJob \/ CancelPrintJob \/ Dispatcher \/ Tick
  /\ UNCHANGED agentVars

AgentStep(a) ==
  \/ SweepLocalArtifacts(a) \/ Claim(a)
  \/ Begin(a) \/ Ask(a) \/ Fetch(a) \/ RecordIntent(a)
  \/ OpenJournal(a) \/ Refuse(a) \/ Collect(a) \/ Renew(a)
  \/ Exchange(a) \/ GiveUp(a)

Printer == (\E token \in Tokens : DeviceTakes(token)) \/ DeviceMarks \/ DeviceStops

SystemNext ==
  \/ ControlPlane
  \/ \E a \in Agents : AgentStep(a) \/ Crash(a)
  \/ \E m \in net : ServeLate(m)
  \/ Printer
  \/ WipeSpool

\* The clock and the worker run; a started agent keeps polling and working.
SystemFairness ==
  /\ WF_vars(Tick /\ UNCHANGED agentVars)
  /\ \A a \in Agents : WF_vars(AgentStep(a))

SystemSpec == SystemInit /\ [][SystemNext]_vars

FairSystemSpec == SystemSpec /\ SystemFairness

-----------------------------------------------------------------------------
(* Properties *)

\* Type correctness of the kiosk's side.
SystemTypeOK ==
  /\ TypeOK
  /\ agent \in [Agents -> [pc : PCs, token : Int, redelivered : BOOLEAN, result : Results,
                           renewing : BOOLEAN, nextSweepAt : Nat]]
  /\ net \subseteq [token : Int, says : {"PREPARING", "SUBMITTED", "RESULT"}, result : Results]
  /\ ledger \in BOOLEAN
  /\ spool \in Nat \cup {Null}
  /\ device \in [journal : BOOLEAN, at : Nat, calls : SUBSET Tokens, runs : SUBSET Tokens,
                sheets : Nat, busy : BOOLEAN]
  /\ manifestOk \in BOOLEAN
  /\ crashes \in Nat

\* A printer that has been given the work is never given it again: across
\* redeliveries, crashes, lost replies and a wiped spool (runner.ts).
AtMostOnePrint == Cardinality(device.runs) <= 1

\* The control plane learns of the handover first: whenever the printer may hold
\* the work, the job has crossed the submission boundary, so no timeout can be
\* mistaken for a definite failure.
BoundaryBeforeDevice ==
  device.calls # {} \/ device.busy => job.status \in {"PRINTING", "COMPLETED", "RECOVERY_REQUIRED"}

\* While the job can still be handed out again, a device that may have the work
\* has evidence of it: no sweep takes it away.
EvidenceOutlivesJob ==
  device.runs \cup device.calls # {} /\ now < job.deadline => device.journal

\* A handover is known to the control plane, before it happens, and on the
\* kiosk's disk, for as long as somebody may ask about it.
HandoverIsKnown == BoundaryBeforeDevice /\ EvidenceOutlivesJob

\* A customer's document left on the kiosk's disk by an interrupted print is
\* removed within two job timeouts, if the clock gets that far.
SpoolIsCleared == spool # Null /\ spool + 2 * JobTimeout < MaxTime ~> spool = Null

\* The promise this system implements.
Outcome ==
  CASE job.status = "NONE" -> "none"
    [] job.status \in OpenStatuses -> "open"
    [] job.status = "COMPLETED" -> "delivered"
    [] job.status \in {"FAILED", "CANCELED"} -> "refunded"
    [] OTHER -> "recovery"

Abstract == INSTANCE PaperXorMoney
              WITH outcome <- Outcome, taken <- Cardinality(device.runs),
                   paper <- device.sheets > 0

\* Every behaviour of agents, worker, network and printer keeps the promise.
KeepsPromise == Abstract!Promise
=============================================================================
