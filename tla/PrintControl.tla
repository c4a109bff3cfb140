---------------------------- MODULE PrintControl ----------------------------
(***************************************************************************)
(* The control plane's side of one paid print: the print job row, the      *)
(* command row a kiosk agent leases, the session row and the refund that a *)
(* definite failure owes.  The writers are the HTTP print-job service, the *)
(* agent-command service, the worker's dispatcher and the clock.  Every    *)
(* one of their transactions runs SERIALIZABLE under the session row lock, *)
(* so each is one atomic action here; what happens between transactions is *)
(* left to interleave.                                                     *)
(*                                                                         *)
(* A claim token is a fresh UUID per hand-out; since a command is handed   *)
(* out once per attempt, the attempt number stands for it.                 *)
(***************************************************************************)
EXTENDS Integers, FiniteSets

CONSTANTS
  Lease,               \* PRINT_COMMAND_LEASE_SECONDS, in ticks
  JobTimeout,          \* PRINT_JOB_TIMEOUT_SECONDS, in ticks
  MaxCommandAttempts,  \* PRINT_COMMAND_MAX_ATTEMPTS
  MaxDispatchAttempts, \* PRINT_DISPATCH_MAX_ATTEMPTS
  PhysicalSheets,      \* sheets the paid settings revision needs
  Amounts,             \* possible captured amounts, in minor units
  MaxTime              \* bound on the clock

\* The environment schema's cross-checks on these settings.
ASSUME PrintControlAssumption ==
  /\ Lease \in Nat \ {0}
  /\ JobTimeout \in Nat
  /\ Lease < JobTimeout
  /\ MaxCommandAttempts \in Nat \ {0}
  /\ MaxDispatchAttempts \in Nat \ {0}
  /\ PhysicalSheets \in Nat \ {0}
  /\ Amounts \subseteq Nat
  /\ MaxTime \in Nat

VARIABLES
  now,      \* the database clock
  job,      \* the print_jobs row
  cmd,      \* the agent_commands row
  queue,    \* attempts waiting in the BullMQ dispatch queue
  session,  \* the print_sessions row
  money,    \* the applied capture and the PRINT_FAILED refund
  paperUsed \* sheets deducted from the kiosk's paper estimate

controlVars == <<now, job, cmd, queue, session, money, paperUsed>>

-----------------------------------------------------------------------------
(* Values *)

Null == -1                     \* SQL NULL where a number is stored

OpenStatuses == {"QUEUED", "DISPATCHED", "PRINTING"}
SettledStatuses == {"COMPLETED", "FAILED", "CANCELED", "RECOVERY_REQUIRED"}
DeviceStates == {"NOT_SUBMITTED", "SUBMITTED", "PRINTING", "COMPLETED",
                 "FAILED", "CANCELED", "UNKNOWN"}

\* What an agent may put in a result report.  A count above the job is
\* included: the service must cope with a device it cannot read.
Results == [state      : DeviceStates,
            confidence : {"CONFIRMED", "UNCONFIRMED"},
            sheets     : {Null} \cup 0 .. PhysicalSheets + 1]

NotSubmitted == [state |-> "NOT_SUBMITTED", confidence |-> "CONFIRMED", sheets |-> 0]
Unknown == [state |-> "UNKNOWN", confidence |-> "UNCONFIRMED", sheets |-> Null]
CanceledByCustomer == [state |-> "CANCELED", confidence |-> "CONFIRMED", sheets |-> 0]

ProgressStates == {"PREPARING", "SUBMITTED", "PRINTING"}

MinOf(a, b) == IF a <= b THEN a ELSE b

-----------------------------------------------------------------------------
(* The pure settlement reducer *)

DefiniteFailure(status) ==
  [status |-> status, confidence |-> "CONFIRMED", sheets |-> 0,
   session |-> "FAILED", refundObligation |-> TRUE]

\* Plausible slip: whatever was not delivered is refunded.
RecoveryOwingRefund(r) ==
  [status |-> "RECOVERY_REQUIRED", confidence |-> "UNCONFIRMED", sheets |-> r.sheets,
   session |-> "RECOVERY_REQUIRED", refundObligation |-> TRUE]

Recovery(r) ==
  [status |-> "RECOVERY_REQUIRED", confidence |-> "UNCONFIRMED", sheets |-> r.sheets,
   session |-> "RECOVERY_REQUIRED", refundObligation |-> FALSE]

Completed(r) ==
  [status |-> "COMPLETED", confidence |-> "CONFIRMED", sheets |-> r.sheets,
   session |-> "COMPLETED", refundObligation |-> FALSE]

SettlePrintDeviceResult(r) ==
  LET provedEmpty == r.confidence = "CONFIRMED" /\ r.sheets = 0 IN
  CASE r.state = "COMPLETED" /\ r.confidence = "CONFIRMED" /\ r.sheets > 0 -> Completed(r)
    [] r.state \in {"NOT_SUBMITTED", "FAILED"} /\ provedEmpty -> DefiniteFailure("FAILED")
    [] r.state = "CANCELED" /\ provedEmpty -> DefiniteFailure("CANCELED")
    [] OTHER -> Recovery(r)

\* A count no job of this size can have produced becomes "unknown".
SheetsWithinJob(r) ==
  IF r.sheets > PhysicalSheets THEN [r EXCEPT !.sheets = Null] ELSE r

-----------------------------------------------------------------------------
(* Shared writes *)

IsOpen == job.status \in OpenStatuses

\* Plausible slip: no obligation is written as SQL NULL.
CompensationOrNull(s) == IF s.refundObligation THEN money.amount ELSE Null

\* The refund a definite failure records; a zero capture owes nothing.
CompensationFor(s) == IF s.refundObligation THEN money.amount ELSE money.refund

ClosedCommand(s) ==
  IF cmd.status \in {"PENDING", "CLAIMED"}
  THEN [cmd EXCEPT !.status = IF s.status = "COMPLETED" THEN "COMPLETED" ELSE "FAILED",
                   !.token = Null, !.lease = Null]
  ELSE cmd

\* Plausible slip: the end is announced but upload access stays open.
EndedSessionLeftOpen(s) ==
  IF session.state = "PRINTING"
  THEN [session EXCEPT !.state = s.session, !.version = @ + 1, !.events = @ \cup {s.session}]
  ELSE session

\* The session row, its outbox event, the revoked upload access and the
\* scheduled document cleanup move together, and only out of PRINTING.
EndedSession(s) ==
  IF session.state = "PRINTING"
  THEN [state |-> s.session, version |-> session.version + 1,
        events |-> session.events \cup {s.session}, closed |-> TRUE]
  ELSE session

\* Plausible slip: the settlement forgets the outstanding command.
SettleLeavingCommand(s) ==
  /\ job' = [job EXCEPT !.status = s.status, !.confidence = s.confidence, !.sheets = s.sheets]
  /\ money' = [money EXCEPT !.refund = CompensationFor(s)]
  /\ paperUsed' = IF s.status = "COMPLETED" THEN paperUsed + s.sheets ELSE paperUsed
  /\ session' = EndedSession(s)
  /\ UNCHANGED <<now, cmd, queue>>

\* applyPrintJobSettlement, reached only with the job still open.
ApplyPrintJobSettlement(s) ==
  /\ job' = [job EXCEPT !.status = s.status, !.confidence = s.confidence, !.sheets = s.sheets]
  /\ cmd' = ClosedCommand(s)
  /\ money' = [money EXCEPT !.refund = CompensationFor(s)]
  /\ paperUsed' = IF s.status = "COMPLETED" THEN paperUsed + s.sheets ELSE paperUsed
  /\ session' = EndedSession(s)
  /\ UNCHANGED <<now, queue>>

-----------------------------------------------------------------------------
(* PrintJobService *)

\* POST print-jobs: a paid session gets its one job.  A repeated request
\* finds the job and changes nothing.
CreatePrintJob ==
  /\ job.status = "NONE"
  /\ session.state = "PAID"
  /\ now + JobTimeout <= MaxTime
  /\ job' = [job EXCEPT !.status = "QUEUED", !.deadline = now + JobTimeout]
  /\ session' = [session EXCEPT !.state = "PRINTING", !.version = @ + 1,
                                !.events = @ \cup {"PRINTING"}]
  /\ UNCHANGED <<now, cmd, queue, money, paperUsed>>

\* Plausible slip: only a completed job is refused.
CancelUnlessCompleted ==
  /\ job.status \notin {"NONE", "COMPLETED"}
  /\ \/ /\ job.status = "PRINTING"
        /\ ~job.cancelRequested
        /\ job' = [job EXCEPT !.cancelRequested = TRUE]
        /\ UNCHANGED <<now, cmd, queue, session, money, paperUsed>>
     \/ /\ job.status # "PRINTING"
        /\ ApplyPrintJobSettlement(SettlePrintDeviceResult(CanceledByCustomer))

\* POST cancel: certain before the submission boundary, a request after it.
CancelPrintJob ==
  /\ IsOpen
  /\ \/ /\ job.status = "PRINTING"
        /\ ~job.cancelRequested
        /\ job' = [job EXCEPT !.cancelRequested = TRUE]
        /\ UNCHANGED <<now, cmd, queue, session, money, paperUsed>>
     \/ /\ job.status # "PRINTING"
        /\ ApplyPrintJobSettlement(SettlePrintDeviceResult(CanceledByCustomer))

-----------------------------------------------------------------------------
(* PrintDispatcher *)

\* dispatchOnce reserves an attempt, then tries to put it on the queue; the
\* process may die, or Redis refuse, in between.
DispatchOnce ==
  /\ job.status = "QUEUED"
  /\ job.dispatchAttempts < MaxDispatchAttempts
  /\ job' = [job EXCEPT !.dispatchAttempts = @ + 1]
  /\ queue' \in {queue, queue \cup {job.dispatchAttempts + 1}}
  /\ UNCHANGED <<now, cmd, session, money, paperUsed>>

\* The queue handler.  A stalled delivery runs again, so the attempt may stay
\* queued; only a job still QUEUED gets its command.
IssueCommand(attempt) ==
  /\ attempt \in queue
  /\ queue' \in {queue, queue \ {attempt}}
  /\ IF job.status = "QUEUED"
     THEN /\ cmd' = IF cmd.status = "NONE" THEN [cmd EXCEPT !.status = "PENDING"] ELSE cmd
          /\ job' = [job EXCEPT !.status = "DISPATCHED"]
     ELSE UNCHANGED <<cmd, job>>
  /\ UNCHANGED <<now, session, money, paperUsed>>

\* BullMQ runs a dispatch once (attempts: 1): a handler that throws, or a lost
\* queue, takes the message with it.
LoseDispatch(attempt) ==
  /\ attempt \in queue
  /\ queue' = queue \ {attempt}
  /\ UNCHANGED <<now, job, cmd, session, money, paperUsed>>

\* Plausible slip: an exhausted lease is always a definite failure.
ReleaseLeaseAsFailure ==
  /\ cmd.status = "CLAIMED"
  /\ cmd.lease <= now
  /\ IF cmd.attempts >= MaxCommandAttempts \/ job.deadline <= now
     THEN ApplyPrintJobSettlement(SettlePrintDeviceResult(NotSubmitted))
     ELSE /\ cmd' = [cmd EXCEPT !.status = "PENDING", !.token = Null, !.lease = Null]
          /\ UNCHANGED <<now, job, queue, session, money, paperUsed>>

\* An expired lease goes back to the queue until attempts or time run out; then
\* the submission boundary decides between a failure and an open question.
ReleaseLease ==
  /\ cmd.status = "CLAIMED"
  /\ cmd.lease <= now
  /\ IF cmd.attempts >= MaxCommandAttempts \/ job.deadline <= now
     THEN /\ IsOpen
          /\ ApplyPrintJobSettlement(SettlePrintDeviceResult(
               IF job.status = "PRINTING" THEN Unknown ELSE NotSubmitted))
     ELSE /\ cmd' = [cmd EXCEPT !.status = "PENDING", !.token = Null, !.lease = Null]
          /\ UNCHANGED <<now, job, queue, session, money, paperUsed>>

\* Plausible slip: the overdue sweep skips jobs that are already printing.
SettleOverdueUnlessPrinting ==
  /\ job.status \in {"QUEUED", "DISPATCHED"}
  /\ job.deadline <= now
  /\ ApplyPrintJobSettlement(SettlePrintDeviceResult(NotSubmitted))

\* A job past its own deadline is settled without the device.
SettleOverdue ==
  /\ IsOpen
  /\ job.deadline <= now
  /\ ApplyPrintJobSettlement(SettlePrintDeviceResult(
       IF job.status = "PRINTING" THEN Unknown ELSE NotSubmitted))

-----------------------------------------------------------------------------
(* AgentCommandService *)

\* claimOne: hand the pending command out under a fresh token.
ClaimOne ==
  /\ cmd.status = "PENDING"
  /\ now < job.deadline
  /\ IsOpen
  /\ cmd' = [status |-> "CLAIMED", token |-> cmd.attempts + 1,
             lease |-> MinOf(now + Lease, job.deadline), attempts |-> cmd.attempts + 1]
  /\ UNCHANGED <<now, job, queue, session, money, paperUsed>>

\* renewedLeaseExpiry: does this reporter still hold the command?
Held(token) ==
  /\ cmd.status = "CLAIMED"
  /\ cmd.token = token
  /\ now < cmd.lease
  /\ now < job.deadline

\* reportProgress.  Only a report other than PREPARING crosses the boundary
\* after which a lost result is ambiguous.
ReportProgress(token, state) ==
  IF Held(token)
  THEN /\ cmd' = [cmd EXCEPT !.lease = MinOf(now + Lease, job.deadline)]
       /\ job' = IF state # "PREPARING" /\ job.status \in {"QUEUED", "DISPATCHED"}
                 THEN [job EXCEPT !.status = "PRINTING"]
                 ELSE job
       /\ UNCHANGED <<now, queue, session, money, paperUsed>>
  ELSE UNCHANGED controlVars

\* The request schema refuses a report that contradicts itself.
Reportable(r) ==
  /\ r.state = "NOT_SUBMITTED" => r.confidence = "CONFIRMED" /\ r.sheets = 0
  /\ r.state = "CANCELED" /\ r.confidence = "CONFIRMED" => r.sheets = 0
  /\ r.state = "COMPLETED" /\ r.confidence = "CONFIRMED" => r.sheets > 0

\* reportResult.  A refused report or a lost lease changes nothing.
ReportResult(token, r) ==
  IF Reportable(r) /\ Held(token) /\ IsOpen
  THEN ApplyPrintJobSettlement(SettlePrintDeviceResult(SheetsWithinJob(r)))
  ELSE UNCHANGED controlVars

-----------------------------------------------------------------------------
(* Clock, specification with the most general agent *)

Tick ==
  /\ now < MaxTime
  /\ now' = now + 1
  /\ UNCHANGED <<job, cmd, queue, session, money, paperUsed>>

Init ==
  /\ now = 0
  /\ job = [status |-> "NONE", confidence |-> "UNKNOWN", sheets |-> Null, deadline |-> Null,
            dispatchAttempts |-> 0, cancelRequested |-> FALSE]
  /\ cmd = [status |-> "NONE", token |-> Null, lease |-> Null, attempts |-> 0]
  /\ queue = {}
  /\ session = [state |-> "PAID", version |-> 1, events |-> {}, closed |-> FALSE]
  /\ money \in [amount : Amounts, refund : {0}]
  /\ paperUsed = 0

Dispatcher ==
  \/ DispatchOnce
  \/ \E attempt \in queue : IssueCommand(attempt) \/ LoseDispatch(attempt)
  \/ ReleaseLease
  \/ SettleOverdue

\* An agent that may say anything it likes, under any token ever handed out.
AnyAgent ==
  \/ ClaimOne
  \/ \E token \in 1 .. MaxCommandAttempts :
       \/ \E state \in ProgressStates : ReportProgress(token, state)
       \/ \E r \in Results : ReportResult(token, r)

ControlNext == CreatePrintJob \/ CancelPrintJob \/ Dispatcher \/ AnyAgent \/ Tick

\* The dispatcher's timer and the clock never stop for good; customers and
\* agents may do nothing at all.
ControlFairness == WF_controlVars(SettleOverdue) /\ WF_controlVars(Tick)

ControlSpec == Init /\ [][ControlNext]_controlVars /\ ControlFairness

-----------------------------------------------------------------------------
(* Properties *)

\* Type correctness of the six rows and the clock.
TypeOK ==
  /\ now \in Nat
  /\ job \in [status : {"NONE"} \cup OpenStatuses \cup SettledStatuses,
             confidence : {"UNKNOWN", "CONFIRMED", "UNCONFIRMED"},
             sheets : Int, deadline : Int, dispatchAttempts : Nat,
             cancelRequested : BOOLEAN]
  /\ cmd \in [status : {"NONE", "PENDING", "CLAIMED", "COMPLETED", "FAILED"},
             token : Int, lease : Int, attempts : Nat]
  /\ queue \subseteq Nat
  /\ session \in [state : {"PAID", "PRINTING", "COMPLETED", "FAILED", "RECOVERY_REQUIRED"},
                 version : Nat,
                 events : SUBSET {"PRINTING", "COMPLETED", "FAILED", "RECOVERY_REQUIRED"},
                 closed : BOOLEAN]
  /\ money \in [amount : Nat, refund : Nat]
  /\ paperUsed \in Int

\* A command can be leased only while its job is open and dispatched: a
\* duplicate dispatch, a late claim or a settlement never leaves a live command
\* behind a job that is over (printJobs.ts closes it, issueCommand re-reads).
CommandFollowsJob ==
  /\ cmd.status \in {"PENDING", "CLAIMED"} <=> job.status \in {"DISPATCHED", "PRINTING"}
  /\ cmd.status = "CLAIMED" => /\ cmd.token = cmd.attempts
                               /\ cmd.attempts \in 1 .. MaxCommandAttempts
                               /\ cmd.lease <= job.deadline
  /\ cmd.status = "PENDING" => cmd.attempts < MaxCommandAttempts

SessionStateFor(status) ==
  CASE status = "NONE" -> "PAID"
    [] status \in OpenStatuses -> "PRINTING"
    [] status \in {"FAILED", "CANCELED"} -> "FAILED"
    [] OTHER -> status

\* The session says what the job says, it was closed (access revoked, cleanup
\* scheduled) exactly when it ended, and it announced each move exactly once:
\* racing settlements produce one settlement and one no-op.
SessionFollowsJob ==
  /\ session.state = SessionStateFor(job.status)
  /\ session.closed <=> job.status \in SettledStatuses
  /\ session.version = 1 + Cardinality(session.events)

\* Money is owed back exactly for a definite failure of a non-zero capture, and
\* paper is deducted exactly once, for a confirmed completion.
MoneyFollowsOutcome ==
  /\ money.refund = IF job.status \in {"FAILED", "CANCELED"} THEN money.amount ELSE 0
  /\ paperUsed = IF job.status = "COMPLETED" THEN job.sheets ELSE 0

\* A settled job never changes again, whatever is reported, swept or cancelled
\* afterwards.
SettledForever ==
  [][job.status \in SettledStatuses =>
       /\ job' = job
       /\ session' = session
       /\ money' = money
       /\ cmd'.status = cmd.status]_controlVars

\* Once the submission boundary is crossed, nobody but the current lease holder
\* can turn the job into a definite, refunded failure: not the customer's
\* cancel, not an exhausted lease, not the deadline.
AmbiguityIsNotRefunded ==
  [][job.status = "PRINTING" /\ job'.status \in {"FAILED", "CANCELED"}
       => Held(cmd.token)]_controlVars

\* Every job that was created is settled, even if no agent ever appears: the
\* overdue sweep runs as long as the worker does.
EveryJobSettles == job.status = "QUEUED" ~> job.status \in SettledStatuses
=============================================================================
