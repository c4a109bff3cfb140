--------------------------- MODULE PrintSystemProofs ---------------------------
(***************************************************************************)
(* The print path for every lease, timeout, retention and limit, any       *)
(* number of attempts, sheets and crashes.  First the control plane alone, *)
(* for an agent that may report anything under any token.  Then any number *)
(* of agents: the types, the tokens they hold, and that whatever agents,   *)
(* network and worker do is a behaviour of the control plane.  Last, one   *)
(* agent on the kiosk: the printer is given the work at most once, a       *)
(* handover is known before it happens and can be looked up for as long as *)
(* it matters, and the system implements PaperXorMoney.                    *)
(***************************************************************************)
EXTENDS PrintSystem, FiniteSetTheorems, TLAPS

-----------------------------------------------------------------------------
(* The control plane *)

\* CommandFollowsJob and SessionFollowsJob are not inductive alone: a dispatch
\* must find no old command, and the event count must know which events were
\* published.
CommandIsFresh ==
  /\ job.status \in {"NONE", "QUEUED"} => cmd.status = "NONE"
  /\ cmd.status = "NONE" => cmd.attempts = 0

EventsOf(state) ==
  IF state = "PAID" THEN {} ELSE IF state = "PRINTING" THEN {"PRINTING"} ELSE {"PRINTING", state}

EventsFollowState == session.events = EventsOf(session.state)

\* The inductive invariant.
ControlInv ==
  /\ TypeOK
  /\ CommandFollowsJob
  /\ SessionFollowsJob
  /\ MoneyFollowsOutcome
  /\ CommandIsFresh
  /\ EventsFollowState

-----------------------------------------------------------------------------
(* The reducer *)

\* What every settlement looks like: the session state and the refund follow
\* from the status.
Coherent(s) ==
  /\ s \in [status : SettledStatuses, confidence : {"CONFIRMED", "UNCONFIRMED"}, sheets : Int,
            session : {"COMPLETED", "FAILED", "RECOVERY_REQUIRED"}, refundObligation : BOOLEAN]
  /\ s.session = SessionStateFor(s.status)
  /\ s.refundObligation <=> s.status \in {"FAILED", "CANCELED"}

\* settlePrintDeviceResult maps every report to a coherent settlement.
LEMMA ReducerCoherent ==
  ASSUME NEW r, r.sheets \in Int
  PROVE  Coherent(SettlePrintDeviceResult(r))
<1>1. Coherent(Completed(r))
  BY DEF Coherent, Completed, SessionStateFor, SettledStatuses, OpenStatuses
<1>2. Coherent(DefiniteFailure("FAILED"))
  BY DEF Coherent, DefiniteFailure, SessionStateFor, SettledStatuses, OpenStatuses
<1>3. Coherent(DefiniteFailure("CANCELED"))
  BY DEF Coherent, DefiniteFailure, SessionStateFor, SettledStatuses, OpenStatuses
<1>4. Coherent(Recovery(r))
  BY DEF Coherent, Recovery, SessionStateFor, SettledStatuses, OpenStatuses
<1> QED
  BY <1>1, <1>2, <1>3, <1>4 DEF SettlePrintDeviceResult

\* The stand-in for SQL NULL is a number.
LEMMA NullIsInt == Null \in Int
BY DEF Null

\* The reports the services reduce on their own account are well typed.
LEMMA OwnReports ==
  /\ NotSubmitted.sheets \in Int
  /\ Unknown.sheets \in Int
  /\ CanceledByCustomer.sheets \in Int
BY DEF NotSubmitted, Unknown, CanceledByCustomer, Null

\* sheetsWithinJob leaves a count that is still a number.
LEMMA BoundedReport ==
  ASSUME NEW r \in Results
  PROVE  SheetsWithinJob(r).sheets \in Int
BY PrintControlAssumption DEF SheetsWithinJob, Results, Null

\* How many events each session state has published.
LEMMA EventCount ==
  /\ Cardinality(EventsOf("PAID")) = 0
  /\ Cardinality(EventsOf("PRINTING")) = 1
  /\ \A state \in {"COMPLETED", "FAILED", "RECOVERY_REQUIRED"} :
       Cardinality(EventsOf(state)) = 2
<1>1. Cardinality({}) = 0
  BY FS_EmptySet
<1>2. IsFiniteSet({"PRINTING"}) /\ Cardinality({"PRINTING"}) = 1
  BY FS_Singleton
<1>3. ASSUME NEW state \in {"COMPLETED", "FAILED", "RECOVERY_REQUIRED"}
      PROVE  Cardinality(EventsOf(state)) = 2
  <2>1. state \notin {"PRINTING"} /\ EventsOf(state) = {"PRINTING"} \cup {state}
    BY DEF EventsOf
  <2> QED
    BY <1>2, <2>1, FS_AddElement
<1> QED
  BY <1>1, <1>2, <1>3 DEF EventsOf

-----------------------------------------------------------------------------
(* Steps *)

\* The rows a settlement leaves behind, whoever applies it to an open job.
LEMMA SettlementPreserves ==
  ASSUME ControlInv, IsOpen, NEW s, Coherent(s), ApplyPrintJobSettlement(s)
  PROVE  ControlInv'
<1> USE DEF IsOpen, OpenStatuses, SettledStatuses
<1>1. /\ job'.status = s.status /\ job'.sheets = s.sheets /\ job'.deadline = job.deadline
      /\ job' \in [status : {"NONE"} \cup OpenStatuses \cup SettledStatuses,
             confidence : {"UNKNOWN", "CONFIRMED", "UNCONFIRMED"},
             sheets : Int, deadline : Int, dispatchAttempts : Nat,
             cancelRequested : BOOLEAN]
  BY DEF ControlInv, TypeOK, ApplyPrintJobSettlement, Coherent
<1>2. /\ session.state = "PRINTING"
      /\ session' = [state |-> s.session, version |-> session.version + 1,
                     events |-> session.events \cup {s.session}, closed |-> TRUE]
  BY DEF ControlInv, SessionFollowsJob, SessionStateFor, ApplyPrintJobSettlement, EndedSession
<1>3. /\ cmd'.status \in {"NONE", "COMPLETED", "FAILED"}
      /\ cmd'.attempts = cmd.attempts
      /\ cmd'.status = "NONE" => cmd.status = "NONE"
      /\ cmd' \in [status : {"NONE", "PENDING", "CLAIMED", "COMPLETED", "FAILED"},
                  token : Int, lease : Int, attempts : Nat]
  <2>1. /\ cmd \in [status : {"NONE", "PENDING", "CLAIMED", "COMPLETED", "FAILED"},
                    token : Int, lease : Int, attempts : Nat]
        /\ cmd' = ClosedCommand(s)
    BY DEF ControlInv, TypeOK, ApplyPrintJobSettlement
  <2>2. CASE cmd.status \in {"PENDING", "CLAIMED"}
    <3>1. PICK closed \in {"COMPLETED", "FAILED"} :
            cmd' = [cmd EXCEPT !.status = closed, !.token = Null, !.lease = Null]
      BY <2>1, <2>2 DEF ClosedCommand
    <3>2. cmd'.status = closed /\ cmd'.attempts = cmd.attempts
      BY <2>1, <3>1
    <3>3. cmd' \in [status : {"NONE", "PENDING", "CLAIMED", "COMPLETED", "FAILED"},
                    token : Int, lease : Int, attempts : Nat]
      BY <2>1, <3>1, NullIsInt
    <3> QED
      BY <3>2, <3>3
  <2>3. CASE cmd.status \notin {"PENDING", "CLAIMED"}
    BY <2>1, <2>3 DEF ClosedCommand
  <2> QED
    BY <2>2, <2>3
<1>4. /\ money.refund = 0 /\ paperUsed = 0
      /\ money' = [money EXCEPT !.refund = IF s.status \in {"FAILED", "CANCELED"}
                                           THEN money.amount ELSE 0]
      /\ money' \in [amount : Nat, refund : Nat]
      /\ paperUsed' = IF s.status = "COMPLETED" THEN s.sheets ELSE 0
  BY DEF ControlInv, TypeOK, MoneyFollowsOutcome, ApplyPrintJobSettlement, CompensationFor, Coherent
<1>5. TypeOK'
  BY <1>1, <1>2, <1>3, <1>4 DEF ControlInv, TypeOK, Coherent, ApplyPrintJobSettlement
<1>6. CommandFollowsJob' /\ CommandIsFresh'
  BY <1>1, <1>3 DEF ControlInv, CommandFollowsJob, CommandIsFresh, Coherent
<1>7. EventsFollowState'
  BY <1>2 DEF ControlInv, EventsFollowState, EventsOf, Coherent
<1>8. SessionFollowsJob'
  <2>1. session'.version = 1 + Cardinality(session'.events)
    <3>1. session.version = 2
      BY <1>2, EventCount DEF ControlInv, SessionFollowsJob, EventsFollowState
    <3>2. Cardinality(session'.events) = 2
      BY <1>2, <1>7, EventCount DEF EventsFollowState, Coherent
    <3> QED
      BY <3>1, <3>2, <1>2
  <2> QED
    BY <1>1, <1>2, <2>1 DEF SessionFollowsJob, Coherent, SessionStateFor
<1>9. MoneyFollowsOutcome'
  BY <1>1, <1>4 DEF MoneyFollowsOutcome, ControlInv, TypeOK
<1> QED
  BY <1>5, <1>6, <1>7, <1>8, <1>9 DEF ControlInv

\* The initial rows.
LEMMA InitControlInv == Init => ControlInv
<1> SUFFICES ASSUME Init PROVE ControlInv
  OBVIOUS
<1> USE DEF Init, OpenStatuses, SettledStatuses, Null
<1>1. TypeOK
  <2>1. money \in [amount : Nat, refund : Nat]
    <3>1. PICK m \in [amount : Amounts, refund : {0}] : money = m
      OBVIOUS
    <3>2. m.amount \in Nat /\ m.refund = 0
      BY PrintControlAssumption
    <3> QED
      BY <3>1, <3>2
  <2> QED
    BY <2>1 DEF TypeOK
<1>2. CommandFollowsJob /\ CommandIsFresh
  BY DEF CommandFollowsJob, CommandIsFresh
<1>4. MoneyFollowsOutcome
  <2>1. money.refund = 0 /\ paperUsed = 0
    OBVIOUS
  <2>2. job.status = "NONE"
    OBVIOUS
  <2> QED
    BY <2>1, <2>2 DEF MoneyFollowsOutcome
<1>3. EventsFollowState /\ SessionFollowsJob
  BY EventCount DEF EventsFollowState, EventsOf, SessionFollowsJob, SessionStateFor
<1> QED
  BY <1>1, <1>2, <1>3, <1>4 DEF ControlInv

\* A step that leaves the session, the money and the job's end alone keeps what
\* is said about them.
LEMMA MoneyAndSessionStay ==
  ASSUME ControlInv, session' = session, money' = money, paperUsed' = paperUsed,
         job'.status \in OpenStatuses, job.status \in OpenStatuses
  PROVE  SessionFollowsJob' /\ MoneyFollowsOutcome' /\ EventsFollowState'
<1>1. SessionFollowsJob'
  <2>1. SessionStateFor(job'.status) = "PRINTING" /\ SessionStateFor(job.status) = "PRINTING"
    BY DEF SessionStateFor, OpenStatuses
  <2>2. session.state = "PRINTING" /\ ~session.closed
        /\ session.version = 1 + Cardinality(session.events)
    BY <2>1 DEF ControlInv, TypeOK, SessionFollowsJob, OpenStatuses, SettledStatuses
  <2> QED
    BY <2>1, <2>2 DEF SessionFollowsJob, OpenStatuses, SettledStatuses
<1>2. MoneyFollowsOutcome'
  BY DEF ControlInv, MoneyFollowsOutcome, OpenStatuses
<1>3. EventsFollowState'
  BY DEF ControlInv, EventsFollowState
<1> QED
  BY <1>1, <1>2, <1>3

\* createPrintJob.
LEMMA CreatePreserves == ControlInv /\ CreatePrintJob => ControlInv'
<1> SUFFICES ASSUME ControlInv, CreatePrintJob PROVE ControlInv'
  OBVIOUS
<1> USE DEF CreatePrintJob, OpenStatuses, SettledStatuses
<1>1. /\ job'.status = "QUEUED" /\ job.status = "NONE" /\ session.state = "PAID"
      /\ session'.state = "PRINTING" /\ session'.version = session.version + 1
      /\ session'.events = session.events \cup {"PRINTING"} /\ session'.closed = session.closed
      /\ cmd' = cmd /\ money' = money /\ paperUsed' = paperUsed
  BY DEF ControlInv, TypeOK
<1>2. TypeOK'
  <2>1. now + JobTimeout \in Int /\ now' = now
    BY PrintControlAssumption DEF ControlInv, TypeOK
  <2>2. job' \in [status : {"NONE"} \cup OpenStatuses \cup SettledStatuses,
             confidence : {"UNKNOWN", "CONFIRMED", "UNCONFIRMED"},
             sheets : Int, deadline : Int, dispatchAttempts : Nat,
             cancelRequested : BOOLEAN]
    BY <2>1 DEF ControlInv, TypeOK
  <2>3. session' \in [state : {"PAID", "PRINTING", "COMPLETED", "FAILED", "RECOVERY_REQUIRED"},
                 version : Nat,
                 events : SUBSET {"PRINTING", "COMPLETED", "FAILED", "RECOVERY_REQUIRED"},
                 closed : BOOLEAN]
    <3>1. PICK v \in Nat, e \in SUBSET {"PRINTING", "COMPLETED", "FAILED", "RECOVERY_REQUIRED"} :
            session' = [session EXCEPT !.state = "PRINTING", !.version = v, !.events = e]
      <4>1. session.version + 1 \in Nat
        BY DEF ControlInv, TypeOK
      <4>2. session.events \cup {"PRINTING"}
              \in SUBSET {"PRINTING", "COMPLETED", "FAILED", "RECOVERY_REQUIRED"}
        BY DEF ControlInv, TypeOK
      <4> QED
        BY <4>1, <4>2
    <3> QED
      BY <3>1 DEF ControlInv, TypeOK
  <2> QED
    BY <2>1, <2>2, <2>3 DEF ControlInv, TypeOK
<1>3. CommandFollowsJob' /\ CommandIsFresh'
  BY <1>1 DEF ControlInv, CommandFollowsJob, CommandIsFresh
<1>4. EventsFollowState'
  BY <1>1 DEF ControlInv, EventsFollowState, EventsOf
<1>5. SessionFollowsJob'
  <2>1. session.version = 1 /\ session'.version = 2 /\ ~session.closed
    BY <1>1, EventCount DEF ControlInv, TypeOK, SessionFollowsJob, EventsFollowState
  <2>2. Cardinality(session'.events) = 1
    BY <1>1, <1>4, EventCount DEF EventsFollowState
  <2> QED
    BY <1>1, <2>1, <2>2 DEF SessionFollowsJob, SessionStateFor
<1>6. MoneyFollowsOutcome'
  BY <1>1 DEF ControlInv, MoneyFollowsOutcome
<1> QED
  BY <1>2, <1>3, <1>4, <1>5, <1>6 DEF ControlInv

\* cancelPrintJob: a request once the device may have the work, a settlement
\* before that.
LEMMA CancelPreserves == ControlInv /\ CancelPrintJob => ControlInv'
<1> SUFFICES ASSUME ControlInv, CancelPrintJob PROVE ControlInv'
  OBVIOUS
<1>1. CASE ApplyPrintJobSettlement(SettlePrintDeviceResult(CanceledByCustomer))
  BY <1>1, SettlementPreserves, ReducerCoherent, OwnReports DEF CancelPrintJob
<1>2. CASE /\ job.status = "PRINTING"
           /\ job' = [job EXCEPT !.cancelRequested = TRUE]
           /\ UNCHANGED <<now, cmd, queue, session, money, paperUsed>>
  <2>1. job'.status = job.status /\ job'.deadline = job.deadline /\ TypeOK'
    BY <1>2 DEF ControlInv, TypeOK, OpenStatuses, SettledStatuses
  <2>2. CommandFollowsJob' /\ CommandIsFresh'
    BY <1>2, <2>1 DEF ControlInv, CommandFollowsJob, CommandIsFresh
  <2> QED
    BY <1>2, <2>1, <2>2, MoneyAndSessionStay DEF ControlInv, OpenStatuses
<1> QED
  BY <1>1, <1>2 DEF CancelPrintJob

\* The worker: reserve a dispatch, issue the command, lose a message, release a
\* lease, settle an overdue job.
LEMMA DispatcherPreserves == ControlInv /\ Dispatcher => ControlInv'
<1> SUFFICES ASSUME ControlInv, Dispatcher PROVE ControlInv'
  OBVIOUS
<1> USE DEF OpenStatuses, SettledStatuses
<1>1. CASE DispatchOnce
  <2>1. /\ job'.status = job.status /\ job'.deadline = job.deadline /\ job.status = "QUEUED"
        /\ cmd' = cmd
    BY <1>1 DEF DispatchOnce, ControlInv, TypeOK
  <2>2. TypeOK'
    BY <1>1 DEF DispatchOnce, ControlInv, TypeOK
  <2>3. CommandFollowsJob' /\ CommandIsFresh'
    BY <2>1 DEF ControlInv, CommandFollowsJob, CommandIsFresh
  <2> QED
    BY <1>1, <2>1, <2>2, <2>3, MoneyAndSessionStay DEF DispatchOnce, ControlInv
<1>2. ASSUME NEW attempt \in queue, IssueCommand(attempt)
      PROVE  ControlInv'
  <2>1. TypeOK'
    BY <1>2 DEF IssueCommand, ControlInv, TypeOK
  <2>2. CASE job.status = "QUEUED"
    <3>1. /\ cmd.status = "NONE" /\ cmd.attempts = 0
          /\ cmd'.status = "PENDING" /\ cmd'.attempts = 0 /\ job'.status = "DISPATCHED"
      BY <1>2, <2>2 DEF IssueCommand, ControlInv, CommandIsFresh, TypeOK
    <3>2. CommandFollowsJob' /\ CommandIsFresh'
      BY <3>1, PrintControlAssumption DEF CommandFollowsJob, CommandIsFresh
    <3> QED
      BY <1>2, <2>1, <2>2, <3>1, <3>2, MoneyAndSessionStay DEF IssueCommand, ControlInv
  <2>3. CASE job.status # "QUEUED"
    BY <1>2, <2>1, <2>3 DEF IssueCommand, ControlInv, CommandFollowsJob, CommandIsFresh,
       SessionFollowsJob, MoneyFollowsOutcome, EventsFollowState
  <2> QED
    BY <2>2, <2>3
<1>3. ASSUME NEW attempt \in queue, LoseDispatch(attempt)
      PROVE  ControlInv'
  BY <1>3 DEF LoseDispatch, ControlInv, TypeOK, CommandFollowsJob, CommandIsFresh,
     SessionFollowsJob, MoneyFollowsOutcome, EventsFollowState
<1>4. CASE ReleaseLease
  <2>1. CASE cmd.attempts >= MaxCommandAttempts \/ job.deadline <= now
    BY <1>4, <2>1, SettlementPreserves, ReducerCoherent, OwnReports DEF ReleaseLease
  <2>2. CASE ~(cmd.attempts >= MaxCommandAttempts \/ job.deadline <= now)
    <3>1. /\ cmd.status = "CLAIMED" /\ cmd' = [cmd EXCEPT !.status = "PENDING", !.token = Null, !.lease = Null]
          /\ UNCHANGED <<now, job, queue, session, money, paperUsed>>
      BY <1>4, <2>2 DEF ReleaseLease
    <3>2. TypeOK' /\ cmd'.status = "PENDING" /\ cmd'.attempts = cmd.attempts
      BY <3>1, NullIsInt DEF ControlInv, TypeOK
    <3>3. cmd.attempts < MaxCommandAttempts
      BY <2>2, PrintControlAssumption DEF ControlInv, TypeOK
    <3>4. job.status \in {"DISPATCHED", "PRINTING"}
      BY <3>1 DEF ControlInv, CommandFollowsJob
    <3>5. CommandFollowsJob' /\ CommandIsFresh'
      BY <3>1, <3>2, <3>3, <3>4 DEF CommandFollowsJob, CommandIsFresh
    <3> QED
      BY <3>1, <3>2, <3>4, <3>5, MoneyAndSessionStay DEF ControlInv
  <2> QED
    BY <2>1, <2>2
<1>5. CASE SettleOverdue
  BY <1>5, SettlementPreserves, ReducerCoherent, OwnReports DEF SettleOverdue
<1> QED
  BY <1>1, <1>2, <1>3, <1>4, <1>5 DEF Dispatcher

\* The agent-command service, for any report under any token.
LEMMA AgentPreserves == ControlInv /\ AnyAgent => ControlInv'
<1> SUFFICES ASSUME ControlInv, AnyAgent PROVE ControlInv'
  OBVIOUS
<1> USE DEF OpenStatuses, SettledStatuses
<1>1. ASSUME UNCHANGED controlVars PROVE ControlInv'
  BY <1>1 DEF controlVars, ControlInv, TypeOK, CommandFollowsJob, CommandIsFresh,
     SessionFollowsJob, MoneyFollowsOutcome, EventsFollowState
<1>2. MinOf(now + Lease, job.deadline) \in Int /\ MinOf(now + Lease, job.deadline) <= job.deadline
  BY PrintControlAssumption DEF MinOf, ControlInv, TypeOK
<1>3. CASE ClaimOne
  <2>1. /\ cmd.status = "PENDING" /\ job.status \in {"DISPATCHED", "PRINTING"}
        /\ cmd.attempts < MaxCommandAttempts
        /\ UNCHANGED <<now, job, queue, session, money, paperUsed>>
    BY <1>3 DEF ClaimOne, ControlInv, CommandFollowsJob
  <2>2. /\ cmd'.status = "CLAIMED" /\ cmd'.token = cmd'.attempts
        /\ cmd'.attempts = cmd.attempts + 1 /\ cmd'.lease <= job.deadline
    BY <1>2, <1>3 DEF ClaimOne
  <2>3. TypeOK'
    BY <1>2, <1>3, <2>1 DEF ClaimOne, ControlInv, TypeOK
  <2>4. cmd'.attempts \in 1 .. MaxCommandAttempts
    BY <2>1, <2>2, PrintControlAssumption DEF ControlInv, TypeOK
  <2>5. CommandFollowsJob' /\ CommandIsFresh'
    BY <2>1, <2>2, <2>4 DEF CommandFollowsJob, CommandIsFresh
  <2> QED
    BY <2>1, <2>3, <2>5, MoneyAndSessionStay DEF ControlInv
<1>4. ASSUME NEW token, NEW state, ReportProgress(token, state), Held(token)
      PROVE  ControlInv'
  <2>1. /\ cmd.status = "CLAIMED" /\ job.status \in {"DISPATCHED", "PRINTING"}
        /\ cmd' = [cmd EXCEPT !.lease = MinOf(now + Lease, job.deadline)]
        /\ UNCHANGED <<now, queue, session, money, paperUsed>>
        /\ \/ job' = job
           \/ job' = [job EXCEPT !.status = "PRINTING"]
    BY <1>4 DEF ReportProgress, Held, ControlInv, CommandFollowsJob
  <2>2. /\ cmd'.status = cmd.status /\ cmd'.token = cmd.token /\ cmd'.attempts = cmd.attempts
        /\ cmd'.lease <= job.deadline
        /\ cmd' \in [status : {"NONE", "PENDING", "CLAIMED", "COMPLETED", "FAILED"},
                    token : Int, lease : Int, attempts : Nat]
    BY <1>2, <2>1 DEF ControlInv, TypeOK
  <2>3. /\ job'.status \in {"DISPATCHED", "PRINTING"} /\ job'.deadline = job.deadline
        /\ job' \in [status : {"NONE"} \cup OpenStatuses \cup SettledStatuses,
             confidence : {"UNKNOWN", "CONFIRMED", "UNCONFIRMED"},
             sheets : Int, deadline : Int, dispatchAttempts : Nat,
             cancelRequested : BOOLEAN]
    BY <2>1 DEF ControlInv, TypeOK
  <2>4. TypeOK'
    BY <2>1, <2>2, <2>3 DEF ControlInv, TypeOK
  <2>5. CommandFollowsJob' /\ CommandIsFresh'
    BY <2>1, <2>2, <2>3 DEF ControlInv, CommandFollowsJob, CommandIsFresh
  <2> QED
    BY <2>1, <2>3, <2>4, <2>5, MoneyAndSessionStay DEF ControlInv
<1>5. ASSUME NEW token, NEW state, ReportProgress(token, state)
      PROVE  ControlInv'
  BY <1>1, <1>4, <1>5 DEF ReportProgress
<1>6. ASSUME NEW token, NEW r \in Results, ReportResult(token, r)
      PROVE  ControlInv'
  <2>1. CASE Reportable(r) /\ Held(token) /\ IsOpen
    BY <1>6, <2>1, SettlementPreserves, ReducerCoherent, BoundedReport DEF ReportResult
  <2>2. CASE ~(Reportable(r) /\ Held(token) /\ IsOpen)
    BY <1>1, <1>6, <2>2 DEF ReportResult
  <2> QED
    BY <2>1, <2>2
<1> QED
  BY <1>3, <1>5, <1>6 DEF AnyAgent

\* Every step of worker, API, agent and clock preserves the invariant.
LEMMA StepControlInv == ControlInv /\ [ControlNext]_controlVars => ControlInv'
<1> SUFFICES ASSUME ControlInv, [ControlNext]_controlVars PROVE ControlInv'
  OBVIOUS
<1>1. CASE Tick
  BY <1>1 DEF Tick, ControlInv, TypeOK, CommandFollowsJob, CommandIsFresh,
     SessionFollowsJob, MoneyFollowsOutcome, EventsFollowState
<1>2. CASE UNCHANGED controlVars
  BY <1>2 DEF controlVars, ControlInv, TypeOK, CommandFollowsJob, CommandIsFresh,
     SessionFollowsJob, MoneyFollowsOutcome, EventsFollowState
<1> QED
  BY <1>1, <1>2, CreatePreserves, CancelPreserves, DispatcherPreserves, AgentPreserves
     DEF ControlNext

-----------------------------------------------------------------------------
(* Theorems *)

\* The inductive invariant holds in every reachable state of the control plane.
THEOREM ControlInvariance == ControlSpec => []ControlInv
BY InitControlInv, StepControlInv, PTL DEF ControlSpec

\* The rows always have their types.
THEOREM ControlTypeCorrect == ControlSpec => []TypeOK
BY ControlInvariance, PTL DEF ControlInv

\* A command is live exactly while its job is dispatched and open.
THEOREM CommandSafety == ControlSpec => []CommandFollowsJob
BY ControlInvariance, PTL DEF ControlInv

\* Session state, closure and announced events agree with the job.
THEOREM SessionSafety == ControlSpec => []SessionFollowsJob
BY ControlInvariance, PTL DEF ControlInv

\* The refund and the paper deduction are exactly what the outcome calls for.
THEOREM MoneySafety == ControlSpec => []MoneyFollowsOutcome
BY ControlInvariance, PTL DEF ControlInv

\* What SettledForever and AmbiguityIsNotRefunded say of one step.
StaysSettled ==
  job.status \in SettledStatuses =>
    job' = job /\ session' = session /\ money' = money /\ cmd'.status = cmd.status

OnlyHolderRefunds ==
  job.status = "PRINTING" /\ job'.status \in {"FAILED", "CANCELED"} => Held(cmd.token)

\* With a settled job there is no live command and nothing to settle, so the only
\* steps left are the clock's, the queue's and refused reports.
LEMMA StepStaysSettled == ControlInv /\ [ControlNext]_controlVars => StaysSettled
<1> SUFFICES ASSUME ControlInv, [ControlNext]_controlVars, job.status \in SettledStatuses
             PROVE  job' = job /\ session' = session /\ money' = money /\ cmd'.status = cmd.status
  BY DEF StaysSettled
<1> USE DEF OpenStatuses, SettledStatuses
<1>1. /\ job.status \notin {"NONE", "QUEUED", "DISPATCHED", "PRINTING"}
      /\ cmd.status \notin {"PENDING", "CLAIMED"}
      /\ ~IsOpen
      /\ \A token : ~Held(token)
  BY DEF ControlInv, CommandFollowsJob, IsOpen, Held
<1>2. CASE CreatePrintJob \/ CancelPrintJob
  BY <1>1, <1>2 DEF CreatePrintJob, CancelPrintJob
<1>3. CASE Dispatcher
  BY <1>1, <1>3 DEF Dispatcher, DispatchOnce, IssueCommand, LoseDispatch, ReleaseLease, SettleOverdue
<1>4. CASE AnyAgent
  BY <1>1, <1>4 DEF AnyAgent, ClaimOne, ReportProgress, ReportResult, controlVars
<1>5. CASE Tick
  BY <1>5 DEF Tick
<1>6. CASE UNCHANGED controlVars
  BY <1>6 DEF controlVars
<1> QED
  BY <1>2, <1>3, <1>4, <1>5, <1>6 DEF ControlNext

\* A settlement by lease or deadline of a printing job reduces UNKNOWN, which is
\* never a failure.
LEMMA UnknownIsRecovery == SettlePrintDeviceResult(Unknown).status = "RECOVERY_REQUIRED"
BY DEF SettlePrintDeviceResult, Unknown, Null, Recovery, Completed, DefiniteFailure

\* Of all steps only an accepted report can end a printing job in failure.
LEMMA StepOnlyHolderRefunds == ControlInv /\ [ControlNext]_controlVars => OnlyHolderRefunds
<1> SUFFICES ASSUME ControlInv, [ControlNext]_controlVars, job.status = "PRINTING",
                    job'.status \in {"FAILED", "CANCELED"}
             PROVE  Held(cmd.token)
  BY DEF OnlyHolderRefunds
<1>1. ASSUME ApplyPrintJobSettlement(SettlePrintDeviceResult(Unknown)) PROVE FALSE
  <2>1. job'.status = "RECOVERY_REQUIRED"
    BY <1>1, UnknownIsRecovery DEF ApplyPrintJobSettlement, ControlInv, TypeOK
  <2> QED
    BY <2>1
<1>2. job' # job
  OBVIOUS
<1>3. CASE CreatePrintJob \/ CancelPrintJob
  <2>1. job' = [job EXCEPT !.cancelRequested = TRUE]
    BY <1>3 DEF CreatePrintJob, CancelPrintJob
  <2> QED
    BY <2>1 DEF ControlInv, TypeOK
<1>4. CASE Dispatcher
  BY <1>1, <1>2, <1>4 DEF Dispatcher, DispatchOnce, IssueCommand, LoseDispatch, ReleaseLease,
     SettleOverdue
<1>5. CASE AnyAgent
  <2>1. ASSUME NEW token, NEW state, ReportProgress(token, state) PROVE FALSE
    <3>1. job' = job
      BY <1>2, <2>1 DEF ReportProgress, controlVars
    <3> QED
      BY <1>2, <3>1
  <2>2. ASSUME NEW token, NEW r, ReportResult(token, r) PROVE Held(cmd.token)
    <3>1. Held(token)
      BY <1>2, <2>2 DEF ReportResult, controlVars
    <3> QED
      BY <3>1 DEF Held
  <2>3. ~ClaimOne
    BY <1>2 DEF ClaimOne
  <2> QED
    BY <1>5, <2>1, <2>2, <2>3 DEF AnyAgent
<1> QED
  BY <1>2, <1>3, <1>4, <1>5 DEF ControlNext, Tick, controlVars

\* A settled print stays settled: its outcome, session and refund are final.
THEOREM SettlementIsFinal == ControlSpec => SettledForever
<1>1. ControlInv /\ [ControlNext]_controlVars =>
        [job.status \in SettledStatuses =>
           /\ job' = job
           /\ session' = session
           /\ money' = money
           /\ cmd'.status = cmd.status]_controlVars
  BY StepStaysSettled DEF StaysSettled
<1> QED
  BY <1>1, ControlInvariance, PTL DEF ControlSpec, SettledForever

\* Past the submission boundary only the lease holder's own report can lead to a
\* refunded failure.
THEOREM AmbiguitySafety == ControlSpec => AmbiguityIsNotRefunded
<1>1. ControlInv /\ [ControlNext]_controlVars =>
        [job.status = "PRINTING" /\ job'.status \in {"FAILED", "CANCELED"}
           => Held(cmd.token)]_controlVars
  BY StepOnlyHolderRefunds DEF OnlyHolderRefunds
<1> QED
  BY <1>1, ControlInvariance, PTL DEF ControlSpec, AmbiguityIsNotRefunded


-----------------------------------------------------------------------------
(* Any number of agents *)

\* Nothing is handed out more often than the limit, and nobody holds a token that
\* was not handed out.
AttemptsInv ==
  /\ cmd.attempts <= MaxCommandAttempts
  /\ \A a \in Agents : agent[a].pc # "idle" => agent[a].token \in 1 .. cmd.attempts
  /\ \A a \in Agents : agent[a].renewing => agent[a].pc # "idle"
  /\ \A m \in net : m.token \in 1 .. cmd.attempts

\* A report that says no sheet came out, for certain.
ProvesNothing(r) == r.confidence = "CONFIRMED" /\ r.sheets = 0

\* A report that is true of the printer, for as long as the job's time runs.
True(r) ==
  /\ ProvesNothing(r) /\ now < job.deadline => Quiet /\ device.sheets = 0
  /\ r.state = "COMPLETED" => device.runs # {}

-----------------------------------------------------------------------------
(* What a step of the control plane may do to the job *)

\* Time and the deadline.
ClockMove ==
  /\ now' \in Nat /\ now' >= now
  /\ job'.deadline <= now' + JobTimeout
  /\ job'.deadline = job.deadline \/ cmd.attempts = 0

\* Moves nobody has to report.
Unforced ==
  \/ job'.status = job.status
  \/ job.status = "NONE" /\ job'.status = "QUEUED"
  \/ /\ job.status \in {"QUEUED", "DISPATCHED"}
     /\ job'.status \in {"DISPATCHED", "PRINTING", "FAILED", "CANCELED", "RECOVERY_REQUIRED"}
  \/ job.status = "PRINTING" /\ job'.status = "RECOVERY_REQUIRED"

\* Moves only a true report makes.
Reported ==
  /\ job.status \in OpenStatuses
  /\ \/ job'.status = "COMPLETED" /\ device.runs # {}
     \/ job'.status \in {"FAILED", "CANCELED"} /\ Quiet /\ device.sheets = 0

\* A job's time is limited from its creation on.
DeadlineInv == job.deadline <= now + JobTimeout

\* What the services settle on their own account.
LEMMA OwnSettlements ==
  /\ SettlePrintDeviceResult(NotSubmitted).status = "FAILED"
  /\ SettlePrintDeviceResult(CanceledByCustomer).status = "CANCELED"
  /\ SettlePrintDeviceResult(Unknown).status = "RECOVERY_REQUIRED"
BY DEF SettlePrintDeviceResult, NotSubmitted, CanceledByCustomer, Unknown, Null, Recovery,
   Completed, DefiniteFailure

\* A settlement writes the status and closes the command without a new hand-out.
LEMMA SettlementWrites ==
  ASSUME TypeOK, NEW s, ApplyPrintJobSettlement(s)
  PROVE  /\ job'.status = s.status /\ job'.deadline = job.deadline
         /\ now' = now /\ cmd'.attempts = cmd.attempts
<1>1. job'.status = s.status /\ job'.deadline = job.deadline /\ now' = now
  BY DEF ApplyPrintJobSettlement, TypeOK
<1>2. cmd'.attempts = cmd.attempts
  BY DEF ApplyPrintJobSettlement, ClosedCommand, TypeOK
<1> QED
  BY <1>1, <1>2

\* The customer's requests, the worker and the clock never complete a job and
\* never refund one that has crossed the boundary.
LEMMA PlaneMoves ==
  ASSUME ControlInv, DeadlineInv, CreatePrintJob \/ CancelPrintJob \/ Dispatcher \/ Tick
  PROVE  ClockMove /\ Unforced /\ cmd'.attempts = cmd.attempts
<1> USE DEF DeadlineInv, ClockMove, Unforced
<1>1. TypeOK /\ now \in Nat /\ job.deadline \in Int /\ JobTimeout \in Nat
  BY PrintControlAssumption DEF ControlInv, TypeOK
<1>2. CASE CreatePrintJob
  <2>1. /\ job.status = "NONE" /\ job'.status = "QUEUED" /\ job'.deadline = now + JobTimeout
        /\ now' = now /\ cmd' = cmd
    BY <1>1, <1>2 DEF CreatePrintJob, TypeOK
  <2>2. cmd.attempts = 0
    BY <2>1 DEF ControlInv, CommandIsFresh
  <2> QED
    BY <1>1, <2>1, <2>2
<1>3. CASE CancelPrintJob
  <2>1. CASE job.status # "PRINTING"
    <3>1. ApplyPrintJobSettlement(SettlePrintDeviceResult(CanceledByCustomer))
          /\ job.status \in {"QUEUED", "DISPATCHED"}
      BY <1>3, <2>1 DEF CancelPrintJob, IsOpen, OpenStatuses
    <3> QED
      BY <1>1, <3>1, OwnSettlements, SettlementWrites
  <2>2. CASE job.status = "PRINTING"
    BY <1>1, <1>3, <2>2 DEF CancelPrintJob, TypeOK
  <2> QED
    BY <2>1, <2>2
<1>4. CASE SettleOverdue
  BY <1>1, <1>4, OwnSettlements, SettlementWrites DEF SettleOverdue, IsOpen, OpenStatuses
<1>5. CASE ReleaseLease
  <2>1. CASE cmd.attempts >= MaxCommandAttempts \/ job.deadline <= now
    BY <1>1, <1>5, <2>1, OwnSettlements, SettlementWrites DEF ReleaseLease, IsOpen, OpenStatuses
  <2>2. CASE ~(cmd.attempts >= MaxCommandAttempts \/ job.deadline <= now)
    <3>1. /\ cmd' = [cmd EXCEPT !.status = "PENDING", !.token = Null, !.lease = Null]
          /\ UNCHANGED <<now, job>>
      BY <1>5, <2>2 DEF ReleaseLease
    <3>2. cmd'.attempts = cmd.attempts
      BY <1>1, <3>1 DEF TypeOK
    <3> QED
      BY <1>1, <3>1, <3>2
  <2> QED
    BY <2>1, <2>2
<1>6. CASE DispatchOnce
  BY <1>1, <1>6 DEF DispatchOnce, TypeOK
<1>7. ASSUME NEW attempt \in queue, IssueCommand(attempt) \/ LoseDispatch(attempt)
      PROVE  ClockMove /\ Unforced /\ cmd'.attempts = cmd.attempts
  BY <1>1, <1>7 DEF IssueCommand, LoseDispatch, TypeOK
<1>8. CASE Tick
  BY <1>1, <1>8 DEF Tick
<1> QED
  BY <1>2, <1>3, <1>4, <1>5, <1>6, <1>7, <1>8 DEF Dispatcher

\* A progress report at most crosses the boundary.
LEMMA ProgressMoves ==
  ASSUME ControlInv, DeadlineInv, NEW token, NEW state, ReportProgress(token, state)
  PROVE  /\ ClockMove /\ Unforced /\ cmd'.attempts = cmd.attempts
         /\ Held(token) /\ state # "PREPARING" => job'.status = "PRINTING"
<1> USE DEF DeadlineInv, ClockMove, Unforced
<1>1. TypeOK /\ now \in Nat /\ job.deadline \in Int /\ JobTimeout \in Nat
  BY PrintControlAssumption DEF ControlInv, TypeOK
<1>2. CASE Held(token)
  <2>1. /\ job.status \in {"DISPATCHED", "PRINTING"} /\ now' = now
        /\ cmd' = [cmd EXCEPT !.lease = MinOf(now + Lease, job.deadline)]
        /\ job' = IF state # "PREPARING" /\ job.status \in {"QUEUED", "DISPATCHED"}
                  THEN [job EXCEPT !.status = "PRINTING"] ELSE job
    BY <1>2 DEF ReportProgress, Held, ControlInv, CommandFollowsJob
  <2>2. cmd'.attempts = cmd.attempts
    BY <1>1, <2>1 DEF TypeOK
  <2> QED
    BY <1>1, <2>1, <2>2 DEF TypeOK
<1>3. CASE ~Held(token)
  BY <1>1, <1>3 DEF ReportProgress, controlVars
<1> QED
  BY <1>2, <1>3

\* A result report moves the job only if its sender holds the lease, and a true one
\* only to what is so.
LEMMA ResultMoves ==
  ASSUME ControlInv, DeadlineInv, NEW token, NEW r \in Results, ReportResult(token, r)
  PROVE  /\ ClockMove /\ cmd'.attempts = cmd.attempts
         /\ ~Held(token) => job' = job
         /\ (Held(token) => True(r)) => Unforced \/ Reported
<1> USE DEF DeadlineInv, ClockMove
<1>1. TypeOK /\ now \in Nat /\ job.deadline \in Int /\ JobTimeout \in Nat
  BY PrintControlAssumption DEF ControlInv, TypeOK
<1>2. CASE Reportable(r) /\ Held(token) /\ IsOpen
  <2> DEFINE s == SettlePrintDeviceResult(SheetsWithinJob(r))
  <2>1. ApplyPrintJobSettlement(s)
    BY <1>2 DEF ReportResult
  <2>2. /\ job'.status = s.status /\ job'.deadline = job.deadline
        /\ now' = now /\ cmd'.attempts = cmd.attempts
    BY <1>1, <2>1, SettlementWrites
  <2>3. /\ SheetsWithinJob(r).state = r.state /\ SheetsWithinJob(r).confidence = r.confidence
        /\ SheetsWithinJob(r).sheets = 0 => r.sheets = 0
    BY PrintControlAssumption DEF SheetsWithinJob, Results, Null
  <2>4. \/ s.status = "COMPLETED" /\ r.state = "COMPLETED"
        \/ s.status \in {"FAILED", "CANCELED"} /\ ProvesNothing(r)
        \/ s.status = "RECOVERY_REQUIRED"
    BY <2>3 DEF SettlePrintDeviceResult, Completed, DefiniteFailure, Recovery, ProvesNothing
  <2>5. True(r) => Unforced \/ Reported
    BY <1>2, <2>2, <2>4 DEF True, Unforced, Reported, IsOpen, OpenStatuses, Held
  <2> QED
    BY <1>1, <1>2, <2>2, <2>5
<1>3. CASE ~(Reportable(r) /\ Held(token) /\ IsOpen)
  BY <1>1, <1>3 DEF ReportResult, controlVars, Unforced
<1> QED
  BY <1>2, <1>3
-----------------------------------------------------------------------------
(* Types, for any number of agents *)

AgentRows == [pc : PCs, token : Int, redelivered : BOOLEAN, result : Results,
              renewing : BOOLEAN, nextSweepAt : Nat]
Messages == [token : Int, says : {"PREPARING", "SUBMITTED", "RESULT"}, result : Results]

\* The constant reports.
LEMMA ConstantReports == Unknown \in Results /\ NotSubmitted \in Results
BY PrintControlAssumption DEF Unknown, NotSubmitted, Results, DeviceStates, Null

\* An idle agent.
LEMMA IdleRow ==
  ASSUME NEW n \in Nat
  PROVE  /\ IdleAgent(n) \in AgentRows
         /\ IdleAgent(n).pc = "idle" /\ IdleAgent(n).token = Null
BY ConstantReports DEF IdleAgent, AgentRows, PCs, Null

\* What the adapter says is a report; a device that was asked never says
\* NOT_SUBMITTED, and without a trace of the operation that may be said.
LEMMA AdapterReports ==
  ASSUME NEW r \in GetOperationStatus
  PROVE  /\ r \in Results
         /\ r.state = "NOT_SUBMITTED" => ~device.journal
         /\ r.state = "COMPLETED" => device.runs # {}
         /\ ProvesNothing(r) /\ r.state # "NOT_SUBMITTED" => Quiet /\ device.sheets = 0
<1>1. ASSUME r \in DeviceAccounts
      PROVE  /\ r \in Results /\ r.state # "NOT_SUBMITTED"
             /\ r.state = "COMPLETED" => device.runs # {}
             /\ ProvesNothing(r) => Quiet /\ device.sheets = 0
  <2>1. PICK x \in Accounts : Truthful(x) /\ r = WithHonestConfidence(x)
    BY <1>1 DEF DeviceAccounts
  <2>2. x \in Results /\ x.state # "NOT_SUBMITTED"
    BY PrintControlAssumption, ConstantReports
       DEF Accounts, Results, DeviceStates, Unknown, Null
  <2>3. \/ r = x
        \/ r = [x EXCEPT !.confidence = "UNCONFIRMED"]
    BY <2>1 DEF WithHonestConfidence
  <2>4. r \in Results /\ r.state = x.state
        /\ (ProvesNothing(r) => x.confidence = "CONFIRMED" /\ x.sheets = 0)
    BY <2>2, <2>3 DEF Results, ProvesNothing
  <2> QED
    BY <2>1, <2>2, <2>4 DEF Truthful
<1>2. /\ Unknown.state = "UNKNOWN" /\ ~ProvesNothing(Unknown)
      /\ NotSubmitted.state = "NOT_SUBMITTED"
  BY DEF Unknown, NotSubmitted, ProvesNothing
<1>3. CASE device.journal
  BY <1>1, <1>3 DEF GetOperationStatus
<1>4. CASE ~device.journal
  BY <1>1, <1>2, <1>4, ConstantReports DEF GetOperationStatus
<1> QED
  BY <1>3, <1>4

\* The page counter leaves a report of the same operation and proves nothing new.
LEMMA MarkerReports ==
  ASSUME NEW k \in Results, NEW r \in ApplyMarkerEvidence(k)
  PROVE  r \in Results /\ r.state = k.state /\ (ProvesNothing(r) => ProvesNothing(k))
BY DEF ApplyMarkerEvidence, Results, ProvesNothing

\* What an agent holds after Go, after Goto, and back between two operations.
LEMMA AgentMoves ==
  ASSUME agent \in [Agents -> AgentRows], NEW a \in Agents
  PROVE  /\ \A pc \in PCs : Go(a, pc) =>
              /\ agent' \in [Agents -> AgentRows]
              /\ agent'[a] = [agent[a] EXCEPT !.pc = pc]
              /\ \A b \in Agents \ {a} : agent'[b] = agent[b]
         /\ \A r \in Results : Goto(a, "reporting", r) =>
              /\ agent' \in [Agents -> AgentRows]
              /\ agent'[a] = [agent[a] EXCEPT !.pc = "reporting", !.result = r, !.renewing = FALSE]
              /\ \A b \in Agents \ {a} : agent'[b] = agent[b]
         /\ \A n \in Nat : agent' = [agent EXCEPT ![a] = IdleAgent(n)] =>
              /\ agent' \in [Agents -> AgentRows]
              /\ agent'[a] = IdleAgent(n)
              /\ \A b \in Agents \ {a} : agent'[b] = agent[b]
<1>1. ASSUME NEW row \in AgentRows, agent' = [agent EXCEPT ![a] = row]
      PROVE  /\ agent' \in [Agents -> AgentRows] /\ agent'[a] = row
             /\ \A b \in Agents \ {a} : agent'[b] = agent[b]
  BY <1>1
<1>2. agent[a] \in AgentRows
  OBVIOUS
<1>3. ASSUME NEW pc \in PCs, Go(a, pc)
      PROVE  /\ agent' = [agent EXCEPT ![a] = [agent[a] EXCEPT !.pc = pc]]
             /\ [agent[a] EXCEPT !.pc = pc] \in AgentRows
  BY <1>2, <1>3 DEF Go, AgentRows
<1>4. ASSUME NEW r \in Results, Goto(a, "reporting", r)
      PROVE  /\ agent' = [agent EXCEPT ![a] =
                   [agent[a] EXCEPT !.pc = "reporting", !.result = r, !.renewing = FALSE]]
             /\ [agent[a] EXCEPT !.pc = "reporting", !.result = r, !.renewing = FALSE] \in AgentRows
  BY <1>2, <1>4 DEF Goto, AgentRows, PCs
<1> QED
  BY <1>1, <1>3, <1>4, IdleRow

\* The request an agent waits with.
LEMMA RequestFacts ==
  ASSUME agent \in [Agents -> AgentRows], NEW a \in Agents, Waiting(a)
  PROVE  /\ Request(a) \in Messages
         /\ Request(a).token = agent[a].token
         /\ agent[a].pc = "preparing" => Request(a).says = "PREPARING"
         /\ agent[a].pc = "authorising" => Request(a).says = "SUBMITTED"
         /\ agent[a].pc = "reporting" => /\ Request(a).says = "RESULT"
                                         /\ Request(a).result = agent[a].result
BY ConstantReports DEF Request, Waiting, AgentRows, Messages

\* What an answer makes of the agent and of the spool.
LEMMA AnswerFacts ==
  ASSUME agent \in [Agents -> AgentRows], NEW a \in Agents, Waiting(a),
         NEW accepted \in BOOLEAN, Answer(a, accepted)
  PROVE  /\ agent' \in [Agents -> AgentRows]
         /\ \A b \in Agents \ {a} : agent'[b] = agent[b]
         /\ spool' \in {spool, Null}
         /\ \/ /\ agent[a].pc = "reporting"
               /\ agent'[a].pc = "idle" /\ ~agent'[a].renewing
            \/ /\ agent'[a].token = agent[a].token
               /\ \/ agent[a].pc = "preparing" /\ accepted /\ agent'[a].pc = "fetching"
                  \/ agent[a].pc = "authorising" /\ accepted /\ agent'[a].pc = "handover"
                  \/ /\ agent[a].pc \in {"preparing", "authorising"} /\ ~accepted
                     /\ agent'[a].pc = "reporting" /\ agent'[a].result = NotSubmitted
<1>0. agent[a] \in AgentRows /\ agent[a].nextSweepAt \in Nat
  BY DEF AgentRows
<1>1. CASE agent[a].pc = "preparing" /\ accepted
  <2>1. Go(a, "fetching") /\ spool' = spool
    BY <1>1 DEF Answer
  <2>2. /\ [agent[a] EXCEPT !.pc = "fetching"].pc = "fetching"
        /\ [agent[a] EXCEPT !.pc = "fetching"].token = agent[a].token
    BY <1>0 DEF AgentRows
  <2> QED
    BY <1>1, <2>1, <2>2, AgentMoves DEF PCs
<1>2. CASE agent[a].pc = "authorising" /\ accepted
  <2> DEFINE row == [agent[a] EXCEPT !.pc = "handover", !.renewing = TRUE]
  <2>1. agent' = [agent EXCEPT ![a].pc = "handover", ![a].renewing = TRUE] /\ spool' = spool
    BY <1>2 DEF Answer
  <2>2. /\ agent' = [agent EXCEPT ![a] = row]
        /\ row \in AgentRows /\ row.pc = "handover" /\ row.token = agent[a].token
    BY <1>0, <2>1 DEF AgentRows, PCs
  <2> HIDE DEF row
  <2> QED
    BY <1>2, <2>1, <2>2
<1>3. CASE agent[a].pc \in {"preparing", "authorising"} /\ ~accepted
  <2> DEFINE row == [agent[a] EXCEPT !.pc = "reporting", !.result = NotSubmitted, !.renewing = FALSE]
  <2>1. Goto(a, "reporting", NotSubmitted) /\ spool' = Null
    BY <1>3 DEF Answer
  <2>2. row.pc = "reporting" /\ row.token = agent[a].token /\ row.result = NotSubmitted
    BY <1>0 DEF AgentRows
  <2>3. /\ agent' \in [Agents -> AgentRows] /\ agent'[a] = row
        /\ \A b \in Agents \ {a} : agent'[b] = agent[b]
    BY <2>1, AgentMoves, ConstantReports
  <2> HIDE DEF row
  <2> QED
    BY <1>3, <2>1, <2>2, <2>3
<1>4. CASE agent[a].pc = "reporting"
  <2>1. agent' = [agent EXCEPT ![a] = IdleAgent(agent[a].nextSweepAt)] /\ spool' = Null
    BY <1>4 DEF Answer
  <2>2. IdleAgent(agent[a].nextSweepAt).pc = "idle" /\ ~IdleAgent(agent[a].nextSweepAt).renewing
    BY DEF IdleAgent
  <2> QED
    BY <1>0, <1>4, <2>1, <2>2, AgentMoves
<1> QED
  BY <1>1, <1>2, <1>3, <1>4 DEF Waiting

-----------------------------------------------------------------------------
(* The control plane inside the system *)

\* What holds however many agents there are.
KioskInv == ControlInv /\ SystemTypeOK /\ AttemptsInv /\ DeadlineInv

\* The type invariant by the names used here.
LEMMA KioskTypes ==
  ASSUME SystemTypeOK
  PROVE  /\ agent \in [Agents -> AgentRows] /\ net \subseteq Messages
         /\ \A a \in Agents : agent[a] \in AgentRows
         /\ ledger \in BOOLEAN /\ spool \in Nat \cup {Null} /\ manifestOk \in BOOLEAN
         /\ device.journal \in BOOLEAN /\ device.at \in Nat /\ device.calls \subseteq Tokens
         /\ device.runs \subseteq Tokens /\ device.sheets \in Nat /\ device.busy \in BOOLEAN
         /\ now \in Nat /\ job.deadline \in Int /\ cmd.attempts \in Nat
BY DEF SystemTypeOK, TypeOK, AgentRows, Messages

\* Serving a request is a step of the control plane's most general agent.
LEMMA ServeMoves ==
  ASSUME KioskInv, NEW m \in Messages, m.token \in 1 .. cmd.attempts, Serve(m)
  PROVE  /\ [ControlNext]_controlVars
         /\ ClockMove /\ cmd'.attempts = cmd.attempts
         /\ m.says # "RESULT" => Unforced
         /\ m.says = "SUBMITTED" /\ Held(m.token) => job'.status = "PRINTING"
         /\ m.says = "RESULT" => /\ ~Held(m.token) => job' = job
                                 /\ (Held(m.token) => True(m.result)) => Unforced \/ Reported
<1>1. m.token \in 1 .. MaxCommandAttempts
  BY PrintControlAssumption, KioskTypes DEF KioskInv, AttemptsInv
<1>2. CASE m.says = "RESULT"
  <2>1. ReportResult(m.token, m.result) /\ m.result \in Results
    BY <1>2 DEF Serve, Messages
  <2>2. ControlNext
    BY <1>1, <2>1 DEF ControlNext, AnyAgent
  <2> QED
    BY <1>2, <2>1, <2>2, ResultMoves DEF KioskInv
<1>3. CASE m.says # "RESULT"
  <2>1. ReportProgress(m.token, m.says) /\ m.says \in ProgressStates
    BY <1>3 DEF Serve, Messages, ProgressStates
  <2>2. ControlNext
    BY <1>1, <2>1 DEF ControlNext, AnyAgent
  <2> QED
    BY <1>3, <2>1, <2>2, ProgressMoves DEF KioskInv
<1> QED
  BY <1>2, <1>3

\* The steps of the system, by what of the control plane they move.
ControlStep(a) == Claim(a) \/ Renew(a) \/ Exchange(a)

LocalStep(a) ==
  \/ SweepLocalArtifacts(a) \/ Begin(a) \/ Ask(a) \/ Fetch(a) \/ RecordIntent(a)
  \/ OpenJournal(a) \/ Refuse(a) \/ Collect(a) \/ GiveUp(a) \/ Crash(a)

\* Every step is of one kind.
LEMMA StepKinds ==
  ASSUME [SystemNext]_vars
  PROVE  \/ ControlPlane
         \/ \E a \in Agents : ControlStep(a)
         \/ \E m \in net : ServeLate(m)
         \/ UNCHANGED controlVars /\ \E a \in Agents : LocalStep(a)
         \/ UNCHANGED controlVars /\ (Printer \/ WipeSpool)
         \/ UNCHANGED vars
<1>1. ASSUME NEW a \in Agents, LocalStep(a) PROVE UNCHANGED controlVars
  BY <1>1 DEF LocalStep, SweepLocalArtifacts, Begin, Ask, Fetch, RecordIntent, OpenJournal,
     Refuse, Collect, GiveUp, Crash, controlVars
<1>2. ASSUME Printer \/ WipeSpool PROVE UNCHANGED controlVars
  BY <1>2 DEF Printer, DeviceTakes, DeviceMarks, DeviceStops, WipeSpool, controlVars
<1>3. ASSUME NEW a \in Agents, AgentStep(a) \/ Crash(a) PROVE ControlStep(a) \/ LocalStep(a)
  BY <1>3 DEF AgentStep, ControlStep, LocalStep
<1> QED
  BY <1>1, <1>2, <1>3 DEF SystemNext

\* Claiming hands the command out once more.
LEMMA ClaimMoves ==
  ASSUME KioskInv, ClaimOne
  PROVE  /\ ControlNext /\ ClockMove /\ job' = job /\ now' = now
         /\ cmd'.attempts = cmd.attempts + 1 /\ cmd'.attempts <= MaxCommandAttempts
<1>1. TypeOK /\ CommandFollowsJob /\ cmd.attempts \in Nat
  BY DEF KioskInv, ControlInv, TypeOK
<1>2. cmd'.attempts = cmd.attempts + 1 /\ job' = job /\ now' = now /\ cmd.attempts < MaxCommandAttempts
  BY <1>1 DEF ClaimOne, CommandFollowsJob
<1>3. ControlNext
  BY DEF ControlNext, AnyAgent
<1> QED
  BY <1>1, <1>2, <1>3, PrintControlAssumption DEF ClockMove, KioskInv, DeadlineInv, TypeOK

\* Renewing a lease is a progress report of a token that was handed out.
LEMMA RenewMoves ==
  ASSUME KioskInv, NEW a \in Agents, Renew(a)
  PROVE  /\ [ControlNext]_controlVars /\ ClockMove /\ Unforced /\ cmd'.attempts = cmd.attempts
         /\ agent' \in [Agents -> AgentRows]
         /\ \E go \in BOOLEAN : agent'[a] = [agent[a] EXCEPT !.renewing = go]
         /\ \A b \in Agents \ {a} : agent'[b] = agent[b]
<1>1. agent \in [Agents -> AgentRows] /\ agent[a] \in AgentRows /\ agent[a].renewing
  BY KioskTypes DEF KioskInv, Renew
<1>2. agent[a].token \in 1 .. MaxCommandAttempts
  BY <1>1, PrintControlAssumption, KioskTypes DEF KioskInv, AttemptsInv
<1>3. PICK go \in BOOLEAN : agent' = [agent EXCEPT ![a].renewing = go]
  BY DEF Renew, Held
<1>4. /\ agent' = [agent EXCEPT ![a] = [agent[a] EXCEPT !.renewing = go]]
      /\ [agent[a] EXCEPT !.renewing = go] \in AgentRows
  BY <1>1, <1>3 DEF AgentRows
<1>5. CASE ReportProgress(agent[a].token, "PRINTING")
  <2>1. ControlNext
    BY <1>2, <1>5 DEF ControlNext, AnyAgent, ProgressStates
  <2> QED
    BY <1>1, <1>4, <1>5, <2>1, ProgressMoves DEF KioskInv
<1>6. CASE UNCHANGED controlVars
  <2>1. ClockMove /\ Unforced /\ cmd'.attempts = cmd.attempts
    BY <1>6, KioskTypes DEF controlVars, ClockMove, Unforced, KioskInv, DeadlineInv
  <2> QED
    BY <1>1, <1>4, <1>6, <2>1
<1> QED
  BY <1>5, <1>6 DEF Renew

\* Every step of the system is a step of the control plane of PrintControl, or
\* leaves it alone.
LEMMA ControlMoves ==
  ASSUME KioskInv, [SystemNext]_vars
  PROVE  /\ [ControlNext]_controlVars /\ ClockMove
         /\ cmd'.attempts >= cmd.attempts /\ cmd'.attempts <= MaxCommandAttempts
<1>1. cmd.attempts \in Nat /\ cmd.attempts <= MaxCommandAttempts
  BY KioskTypes DEF KioskInv, AttemptsInv
<1>2. CASE ControlPlane
  BY <1>1, <1>2, PlaneMoves DEF ControlPlane, KioskInv, ControlNext
<1>3. ASSUME NEW a \in Agents, ControlStep(a)
      PROVE  /\ [ControlNext]_controlVars /\ ClockMove
             /\ cmd'.attempts >= cmd.attempts /\ cmd'.attempts <= MaxCommandAttempts
  <2>1. CASE Claim(a)
    BY <1>1, <2>1, ClaimMoves DEF Claim
  <2>2. CASE Renew(a)
    BY <1>1, <2>2, RenewMoves
  <2>3. CASE Exchange(a)
    <3>1. /\ agent \in [Agents -> AgentRows] /\ Waiting(a) /\ Serve(Request(a))
          /\ agent[a].token \in 1 .. cmd.attempts
      BY <2>3, KioskTypes DEF KioskInv, Exchange, AttemptsInv, Waiting
    <3> QED
      BY <1>1, <3>1, RequestFacts, ServeMoves
  <2> QED
    BY <1>3, <2>1, <2>2, <2>3 DEF ControlStep
<1>4. ASSUME NEW m \in net, ServeLate(m)
      PROVE  /\ [ControlNext]_controlVars /\ ClockMove
             /\ cmd'.attempts >= cmd.attempts /\ cmd'.attempts <= MaxCommandAttempts
  <2>1. m \in Messages /\ m.token \in 1 .. cmd.attempts /\ Serve(m)
    BY <1>4, KioskTypes DEF KioskInv, AttemptsInv, ServeLate
  <2> QED
    BY <1>1, <2>1, ServeMoves
<1>5. CASE UNCHANGED controlVars
  BY <1>1, <1>5, KioskTypes DEF controlVars, ClockMove, KioskInv, DeadlineInv
<1>6. CASE UNCHANGED vars
  BY <1>5, <1>6 DEF vars, controlVars
<1> QED
  BY <1>2, <1>3, <1>4, <1>5, <1>6, StepKinds
-----------------------------------------------------------------------------
(* Types and tokens are invariant *)

\* The agents' part of AttemptsInv and SystemTypeOK after a step of one agent.
AgentsFit == agent' \in [Agents -> AgentRows] /\ net' \subseteq Messages

TokensFit ==
  /\ \A a \in Agents : /\ agent'[a].pc # "idle" => agent'[a].token \in 1 .. cmd'.attempts
                       /\ agent'[a].renewing => agent'[a].pc # "idle"
  /\ \A m \in net' : m.token \in 1 .. cmd'.attempts

\* An agent that keeps its token and its work, or drops them, fits.
LEMMA OneFits ==
  ASSUME KioskInv, cmd'.attempts \in Nat, cmd'.attempts >= cmd.attempts, NEW a \in Agents,
         agent' \in [Agents -> AgentRows],
         \A b \in Agents \ {a} : agent'[b] = agent[b],
         \/ agent[a].pc # "idle" /\ agent'[a].pc # "idle" /\ agent'[a].token = agent[a].token
         \/ agent'[a].pc = "idle" /\ ~agent'[a].renewing
         \/ agent'[a].pc # "idle" /\ agent'[a].token = cmd'.attempts /\ cmd'.attempts > 0,
         \/ net' \subseteq net
         \/ Waiting(a) /\ net' = net \cup {Request(a)}
  PROVE  AgentsFit /\ TokensFit
<1>1. /\ agent \in [Agents -> AgentRows] /\ net \subseteq Messages /\ cmd.attempts \in Nat
      /\ \A b \in Agents : agent[b].pc # "idle" => agent[b].token \in 1 .. cmd.attempts
      /\ \A b \in Agents : agent[b].renewing => agent[b].pc # "idle"
      /\ \A m \in net : m.token \in 1 .. cmd.attempts
  BY KioskTypes DEF KioskInv, AttemptsInv
<1>2. \A i \in 1 .. cmd.attempts : i \in 1 .. cmd'.attempts
  BY <1>1
<1>3. \A b \in Agents : /\ agent'[b].pc # "idle" => agent'[b].token \in 1 .. cmd'.attempts
                        /\ agent'[b].renewing => agent'[b].pc # "idle"
  <2> SUFFICES ASSUME NEW b \in Agents
               PROVE  /\ agent'[b].pc # "idle" => agent'[b].token \in 1 .. cmd'.attempts
                      /\ agent'[b].renewing => agent'[b].pc # "idle"
    OBVIOUS
  <2>1. CASE b # a
    BY <1>1, <1>2, <2>1
  <2>2. CASE b = a
    BY <1>1, <1>2, <2>2
  <2> QED
    BY <2>1, <2>2
<1>4. ASSUME Waiting(a)
      PROVE  Request(a) \in Messages /\ Request(a).token \in 1 .. cmd.attempts
  <2>1. agent[a].pc # "idle"
    BY <1>4 DEF Waiting
  <2> QED
    BY <1>1, <1>4, <2>1, RequestFacts
<1>5. net' \subseteq Messages /\ \A m \in net' : m.token \in 1 .. cmd'.attempts
  BY <1>1, <1>2, <1>4
<1> QED
  BY <1>3, <1>5 DEF AgentsFit, TokensFit

\* Local steps of an agent.
LEMMA LocalFits ==
  ASSUME KioskInv, NEW a \in Agents, LocalStep(a), UNCHANGED controlVars
  PROVE  AgentsFit /\ TokensFit
<1>1. /\ agent \in [Agents -> AgentRows] /\ agent[a] \in AgentRows /\ now \in Nat
      /\ cmd' = cmd /\ cmd.attempts \in Nat
      /\ agent[a].renewing => agent[a].pc # "idle"
      /\ JobTimeout \in Nat
  BY KioskTypes, PrintControlAssumption DEF KioskInv, AttemptsInv, controlVars
<1>2. CASE SweepLocalArtifacts(a)
  <2>1. /\ agent' = [agent EXCEPT ![a] = [agent[a] EXCEPT !.nextSweepAt = now + JobTimeout]]
        /\ [agent[a] EXCEPT !.nextSweepAt = now + JobTimeout] \in AgentRows
        /\ agent[a].pc = "idle" /\ net' = net
    BY <1>1, <1>2 DEF SweepLocalArtifacts, AgentRows
  <2>2. /\ agent' \in [Agents -> AgentRows] /\ agent'[a].pc = "idle" /\ ~agent'[a].renewing
        /\ \A b \in Agents \ {a} : agent'[b] = agent[b]
    BY <1>1, <2>1 DEF AgentRows
  <2> QED
    BY <1>1, <2>1, <2>2, OneFits
<1>3. ASSUME NEW pc \in PCs \ {"idle"}, Go(a, pc), agent[a].pc # "idle", net' = net
      PROVE  AgentsFit /\ TokensFit
  <2>1. /\ agent' \in [Agents -> AgentRows]
        /\ agent'[a] = [agent[a] EXCEPT !.pc = pc]
        /\ \A b \in Agents \ {a} : agent'[b] = agent[b]
    BY <1>1, <1>3, AgentMoves
  <2>2. agent'[a].pc = pc /\ agent'[a].token = agent[a].token
    BY <1>1, <2>1 DEF AgentRows
  <2>3. /\ agent[a].pc # "idle" /\ agent'[a].pc # "idle" /\ net' \subseteq net
        /\ cmd'.attempts \in Nat /\ cmd'.attempts >= cmd.attempts
    BY <1>1, <1>3, <2>2
  <2> QED
    BY <2>1, <2>2, <2>3, OneFits
<1>4. ASSUME NEW r \in Results, Goto(a, "reporting", r), agent[a].pc # "idle", net' = net
      PROVE  AgentsFit /\ TokensFit
  <2>1. /\ agent' \in [Agents -> AgentRows]
        /\ agent'[a] = [agent[a] EXCEPT !.pc = "reporting", !.result = r, !.renewing = FALSE]
        /\ \A b \in Agents \ {a} : agent'[b] = agent[b]
    BY <1>1, <1>4, AgentMoves
  <2>2. agent'[a].pc = "reporting" /\ agent'[a].token = agent[a].token
    BY <1>1, <2>1 DEF AgentRows
  <2>3. /\ agent[a].pc # "idle" /\ agent'[a].pc # "idle" /\ net' \subseteq net
        /\ cmd'.attempts \in Nat /\ cmd'.attempts >= cmd.attempts
    BY <1>1, <1>4, <2>2
  <2> QED
    BY <2>1, <2>2, <2>3, OneFits
<1>5. CASE Begin(a)
  BY <1>3, <1>4, <1>5, ConstantReports DEF Begin, PCs
<1>6. CASE Ask(a)
  BY <1>3, <1>4, <1>6, AdapterReports DEF Ask, PCs
<1>7. CASE Fetch(a)
  BY <1>3, <1>4, <1>7, ConstantReports DEF Fetch, PCs
<1>8. CASE RecordIntent(a) \/ OpenJournal(a)
  BY <1>3, <1>8 DEF RecordIntent, OpenJournal, PCs
<1>9. CASE Refuse(a)
  BY <1>4, <1>9, ConstantReports DEF Refuse
<1>10. CASE Collect(a)
  <2>1. PICK known \in GetOperationStatus \cup {Unknown} :
          \E r \in ApplyMarkerEvidence(IF known.state = "NOT_SUBMITTED" THEN Unknown ELSE known) :
            Goto(a, "reporting", r)
    BY <1>10 DEF Collect
  <2>2. known \in Results
    BY AdapterReports, ConstantReports
  <2>3. \A r \in ApplyMarkerEvidence(IF known.state = "NOT_SUBMITTED" THEN Unknown ELSE known) :
          r \in Results
    BY <2>2, MarkerReports, ConstantReports
  <2>4. agent[a].pc # "idle" /\ net' = net
    BY <1>10 DEF Collect
  <2> QED
    BY <1>4, <2>1, <2>3, <2>4
<1>11. CASE GiveUp(a)
  <2>1. Waiting(a) /\ Answer(a, FALSE) /\ net' = net \cup {Request(a)} /\ agent[a].pc # "idle"
    BY <1>11 DEF GiveUp, Waiting
  <2>2. /\ agent' \in [Agents -> AgentRows] /\ \A b \in Agents \ {a} : agent'[b] = agent[b]
        /\ \/ agent'[a].pc # "idle" /\ agent'[a].token = agent[a].token
           \/ agent'[a].pc = "idle" /\ ~agent'[a].renewing
    BY <1>1, <2>1, AnswerFacts
  <2> QED
    BY <1>1, <2>1, <2>2, OneFits
<1>12. CASE Crash(a)
  <2>1. /\ agent' = [agent EXCEPT ![a] = IdleAgent(0)]
        /\ net' = net \/ (Waiting(a) /\ net' = net \cup {Request(a)})
    BY <1>12 DEF Crash
  <2>2. /\ agent' \in [Agents -> AgentRows] /\ agent'[a] = IdleAgent(0)
        /\ \A b \in Agents \ {a} : agent'[b] = agent[b]
    BY <1>1, <2>1, AgentMoves
  <2>3. IdleAgent(0).pc = "idle" /\ ~IdleAgent(0).renewing
    BY DEF IdleAgent
  <2> QED
    BY <1>1, <2>1, <2>2, <2>3, OneFits
<1> QED
  BY <1>2, <1>5, <1>6, <1>7, <1>8, <1>9, <1>10, <1>11, <1>12 DEF LocalStep

\* Every step fits.
LEMMA StepFits ==
  ASSUME KioskInv, [SystemNext]_vars
  PROVE  AgentsFit /\ TokensFit
<1>1. /\ agent \in [Agents -> AgentRows] /\ net \subseteq Messages /\ cmd.attempts \in Nat
      /\ cmd'.attempts >= cmd.attempts /\ cmd'.attempts \in Nat
      /\ AttemptsInv
  <2>1. TypeOK'
    BY ControlMoves, StepControlInv DEF KioskInv, ControlInv
  <2> QED
    BY <2>1, KioskTypes, ControlMoves DEF KioskInv, TypeOK
<1>2. CASE agent' = agent /\ net' \subseteq net
  <2>1. \A i \in 1 .. cmd.attempts : i \in 1 .. cmd'.attempts
    BY <1>1
  <2> QED
    BY <1>1, <1>2, <2>1 DEF AgentsFit, TokensFit, AttemptsInv
<1>3. CASE ControlPlane \/ Printer \/ WipeSpool \/ UNCHANGED vars
  BY <1>2, <1>3 DEF ControlPlane, agentVars, Printer, DeviceTakes, DeviceMarks, DeviceStops,
     WipeSpool, vars
<1>4. ASSUME NEW m \in net, ServeLate(m) PROVE AgentsFit /\ TokensFit
  BY <1>2, <1>4 DEF ServeLate
<1>5. ASSUME NEW a \in Agents, Claim(a) PROVE AgentsFit /\ TokensFit
  <2>1. ClaimOne /\ net' = net
    BY <1>5 DEF Claim
  <2>2. cmd'.attempts = cmd.attempts + 1
    BY <2>1, ClaimMoves
  <2>3. CASE agent' = agent
    BY <1>2, <2>1, <2>3
  <2>4. CASE agent' = [agent EXCEPT ![a].pc = "claimed", ![a].token = cmd.attempts + 1,
                                    ![a].redelivered = cmd.attempts > 0]
    <3> DEFINE again == cmd.attempts > 0
               row == [agent[a] EXCEPT !.pc = "claimed", !.token = cmd.attempts + 1,
                                       !.redelivered = again]
    <3>0. again \in BOOLEAN /\ agent[a] \in AgentRows /\ cmd.attempts + 1 \in Int
      BY <1>1
    <3>2. agent' = [agent EXCEPT ![a] = row]
      BY <2>4
    <3> HIDE DEF again
    <3>1. row \in AgentRows /\ row.pc = "claimed" /\ row.token = cmd.attempts + 1
      BY <3>0 DEF AgentRows, PCs
    <3>3. agent' \in [Agents -> AgentRows] /\ agent'[a] = row
          /\ \A b \in Agents \ {a} : agent'[b] = agent[b]
      BY <1>1, <3>1, <3>2
    <3> HIDE DEF row
    <3> QED
      BY <1>1, <2>1, <2>2, <3>1, <3>3, OneFits
  <2> QED
    BY <1>5, <2>3, <2>4 DEF Claim
<1>6. ASSUME NEW a \in Agents, Renew(a) PROVE AgentsFit /\ TokensFit
  <2>1. /\ agent[a] \in AgentRows /\ agent[a].renewing /\ agent[a].pc # "idle"
        /\ net' = net
    BY <1>1, <1>6 DEF Renew, AttemptsInv
  <2>2. /\ agent' \in [Agents -> AgentRows]
        /\ \E go \in BOOLEAN : agent'[a] = [agent[a] EXCEPT !.renewing = go]
        /\ \A b \in Agents \ {a} : agent'[b] = agent[b]
    BY <1>6, RenewMoves
  <2>3. agent'[a].pc = agent[a].pc /\ agent'[a].token = agent[a].token
    BY <2>1, <2>2 DEF AgentRows
  <2> QED
    BY <1>1, <2>1, <2>2, <2>3, OneFits
<1>7. ASSUME NEW a \in Agents, Exchange(a) PROVE AgentsFit /\ TokensFit
  <2> DEFINE held == Held(agent[a].token)
  <2>1. /\ Waiting(a) /\ net' = net /\ agent[a].pc # "idle" /\ agent[a] \in AgentRows
        /\ Answer(a, held) /\ held \in BOOLEAN
    BY <1>1, <1>7 DEF Exchange, Waiting, Held
  <2> HIDE DEF held
  <2>2. /\ agent' \in [Agents -> AgentRows] /\ \A b \in Agents \ {a} : agent'[b] = agent[b]
        /\ \/ agent'[a].pc # "idle" /\ agent'[a].token = agent[a].token
           \/ agent'[a].pc = "idle" /\ ~agent'[a].renewing
    BY <1>1, <2>1, AnswerFacts
  <2> QED
    BY <1>1, <2>1, <2>2, OneFits
<1>8. ASSUME NEW a \in Agents, LocalStep(a), UNCHANGED controlVars PROVE AgentsFit /\ TokensFit
  BY <1>8, LocalFits
<1> QED
  BY <1>3, <1>4, <1>5, <1>6, <1>7, <1>8, StepKinds DEF ControlStep

\* The kiosk's files and the printer keep their types.
LEMMA StepKeepsFiles ==
  ASSUME KioskInv, [SystemNext]_vars
  PROVE  /\ ledger' \in BOOLEAN /\ spool' \in Nat \cup {Null} /\ manifestOk' = manifestOk
         /\ crashes' \in Nat
         /\ device' \in [journal : BOOLEAN, at : Nat, calls : SUBSET Tokens, runs : SUBSET Tokens,
                         sheets : Nat, busy : BOOLEAN]
<1>1. /\ agent \in [Agents -> AgentRows] /\ ledger \in BOOLEAN /\ spool \in Nat \cup {Null}
      /\ device \in [journal : BOOLEAN, at : Nat, calls : SUBSET Tokens, runs : SUBSET Tokens,
                     sheets : Nat, busy : BOOLEAN]
      /\ crashes \in Nat /\ now \in Nat
  BY KioskTypes DEF KioskInv, SystemTypeOK
<1>2. CASE ControlPlane \/ UNCHANGED vars
  BY <1>1, <1>2 DEF ControlPlane, agentVars, vars
<1>3. CASE Printer \/ WipeSpool
  <2>1. ASSUME NEW token \in Tokens, DeviceTakes(token)
        PROVE  device' \in [journal : BOOLEAN, at : Nat, calls : SUBSET Tokens,
                             runs : SUBSET Tokens, sheets : Nat, busy : BOOLEAN]
    BY <1>1, <2>1 DEF DeviceTakes
  <2>2. CASE DeviceMarks
    BY <1>1, <2>2 DEF DeviceMarks
  <2>3. CASE DeviceStops \/ WipeSpool
    BY <1>1, <2>3 DEF DeviceStops, WipeSpool
  <2> QED
    BY <1>1, <1>3, <2>1, <2>2, <2>3 DEF Printer, DeviceTakes
<1>4. ASSUME NEW m \in net, ServeLate(m)
      PROVE  UNCHANGED <<ledger, spool, device, manifestOk, crashes>>
  BY <1>4 DEF ServeLate
<1>5. ASSUME NEW a \in Agents, ControlStep(a)
      PROVE  /\ UNCHANGED <<ledger, device, manifestOk, crashes>> /\ spool' \in {spool, Null}
  <2>1. CASE Exchange(a)
    BY <1>1, <2>1, AnswerFacts DEF Exchange, Held
  <2> QED
    BY <1>5, <2>1 DEF ControlStep, Claim, Renew
<1>6. ASSUME NEW a \in Agents, LocalStep(a)
      PROVE  /\ ledger' \in BOOLEAN /\ spool' \in Nat \cup {Null} /\ manifestOk' = manifestOk
             /\ crashes' \in Nat
             /\ device' \in [journal : BOOLEAN, at : Nat, calls : SUBSET Tokens,
                             runs : SUBSET Tokens, sheets : Nat, busy : BOOLEAN]
  <2>1. CASE SweepLocalArtifacts(a)
    BY <1>1, <2>1 DEF SweepLocalArtifacts
  <2>2. CASE Begin(a) \/ Ask(a) \/ Fetch(a) \/ RecordIntent(a) \/ Collect(a)
    BY <1>1, <2>2 DEF Begin, Ask, Fetch, RecordIntent, Collect
  <2>3. CASE GiveUp(a)
    BY <1>1, <2>3, AnswerFacts DEF GiveUp
  <2>4. CASE Crash(a)
    BY <1>1, <2>4 DEF Crash
  <2>5. CASE Refuse(a)
    BY <1>1, <2>5 DEF Refuse
  <2>6. CASE OpenJournal(a)
    <3>1. agent[a].token \in Tokens
      BY <2>6, PrintControlAssumption, KioskTypes DEF OpenJournal, KioskInv, AttemptsInv, Tokens
    <3> QED
      BY <1>1, <2>6, <3>1 DEF OpenJournal
  <2> QED
    BY <1>6, <2>1, <2>2, <2>3, <2>4, <2>5, <2>6 DEF LocalStep
<1> QED
  BY <1>1, <1>2, <1>3, <1>4, <1>5, <1>6, StepKinds

\* A kiosk that was just installed.
LEMMA InitKioskInv == SystemInit => KioskInv
<1> SUFFICES ASSUME SystemInit PROVE KioskInv
  OBVIOUS
<1>1. ControlInv
  BY InitControlInv DEF SystemInit
<1>2. /\ cmd.attempts = 0 /\ net = {} /\ job.deadline = Null /\ now = 0
      /\ \A a \in Agents : agent[a] = IdleAgent(0)
      /\ agent \in [Agents -> AgentRows]
  BY IdleRow DEF SystemInit, Init
<1>3. AttemptsInv
  BY <1>2, PrintControlAssumption DEF AttemptsInv, IdleAgent
<1>4. SystemTypeOK
  BY <1>1, <1>2, PrintControlAssumption
     DEF SystemInit, SystemTypeOK, ControlInv, AgentRows
<1>5. DeadlineInv
  BY <1>2, PrintControlAssumption DEF DeadlineInv, Null
<1> QED
  BY <1>1, <1>3, <1>4, <1>5 DEF KioskInv

\* Every step of every agent keeps it.
LEMMA StepKioskInv == KioskInv /\ [SystemNext]_vars => KioskInv'
<1> SUFFICES ASSUME KioskInv, [SystemNext]_vars PROVE KioskInv'
  OBVIOUS
<1>1. ControlInv'
  BY ControlMoves, StepControlInv DEF KioskInv
<1>2. AttemptsInv'
  BY ControlMoves, StepFits DEF TokensFit, AttemptsInv
<1>3. SystemTypeOK'
  BY <1>1, StepFits, StepKeepsFiles, KioskTypes
     DEF AgentsFit, SystemTypeOK, KioskInv, ControlInv, AgentRows, Messages
<1>4. DeadlineInv'
  BY ControlMoves DEF ClockMove, DeadlineInv
<1> QED
  BY <1>1, <1>2, <1>3, <1>4 DEF KioskInv

\* However many agents serve a kiosk, every row, file, message and count keeps its
\* type, and nobody ever holds a token that was not handed out.
THEOREM SystemTypeCorrect == SystemSpec => []SystemTypeOK
<1>1. KioskInv => SystemTypeOK
  BY DEF KioskInv
<1> QED
  BY <1>1, InitKioskInv, StepKioskInv, PTL DEF SystemSpec

\* The agents the system really has, with their crashes and lost requests, are among
\* those the control plane was proved safe against.
THEOREM ControlPlaneIsImplemented == SystemSpec => Init /\ [][ControlNext]_controlVars
<1>1. SystemInit => Init
  BY DEF SystemInit
<1>2. KioskInv /\ [SystemNext]_vars => [ControlNext]_controlVars
  BY ControlMoves
<1> QED
  BY <1>1, <1>2, InitKioskInv, StepKioskInv, PTL DEF SystemSpec

-----------------------------------------------------------------------------
(* One agent on the kiosk *)

\* A kiosk is served by one agent process.  With two sharing its directories each
\* could hand over the work the other is about to hand over.
OneAgent == \A a, b \in Agents : a = b

-----------------------------------------------------------------------------
(* The inductive invariant *)

\* Everything the printer was ever offered.
Offered == device.runs \cup device.calls

\* Offered once at most, in one of the two sets; nothing moves before that.
DeviceInv ==
  /\ device.calls = {} \/ device.runs = {}
  /\ \A s, t \in Offered : s = t
  /\ Offered = {} => device.sheets = 0 /\ ~device.busy
  /\ device.runs = {} => device.sheets = 0 /\ ~device.busy

\* What the control plane knows of it, and for how long the journal remembers.
HandoverInv ==
  /\ job.deadline <= now + JobTimeout
  /\ cmd.attempts = 0 => Offered = {}
  /\ Offered # {} => job.status \in {"PRINTING"} \cup SettledStatuses
  /\ Offered # {} => job.deadline <= device.at + JobTimeout
  /\ Offered # {} /\ now < job.deadline => device.journal
  /\ device.calls # {} \/ device.busy => job.status \in {"PRINTING", "COMPLETED", "RECOVERY_REQUIRED"}
  /\ job.status = "COMPLETED" => device.runs # {}
  /\ job.status \in {"FAILED", "CANCELED"} => device.sheets = 0

\* Where the one agent may be, and what follows for the printer.
ProgressInv ==
  \A a \in Agents :
    /\ agent[a].pc # "idle" => agent[a].token = cmd.attempts
    /\ agent[a].pc = "claimed" /\ ~agent[a].redelivered => Offered = {}
    /\ ~manifestOk => Offered = {} /\ agent[a].pc \in {"idle", "claimed", "reporting"}
    /\ agent[a].pc = "preparing" /\ now < job.deadline => Offered = {}
    /\ agent[a].pc \in {"fetching", "intending", "authorising", "handover"} => Offered = {}
    /\ agent[a].pc \in {"handover", "calling"} => job.status \in {"PRINTING", "RECOVERY_REQUIRED"}

\* A report under the current token is true of the printer.
ReportInv ==
  /\ \A a \in Agents : agent[a].pc = "reporting" => True(agent[a].result)
  /\ \A m \in net : m.says = "RESULT" /\ m.token = cmd.attempts =>
       /\ \A a \in Agents : agent[a].pc = "idle"
       /\ True(m.result)

SystemInv ==
  /\ ControlInv /\ SystemTypeOK /\ AttemptsInv
  /\ DeviceInv /\ HandoverInv /\ ProgressInv /\ ReportInv

-----------------------------------------------------------------------------
(* Steps by what they move *)

\* The facts the steps below rest on.
LEMMA Facts ==
  ASSUME SystemInv
  PROVE  /\ KioskInv
         /\ agent \in [Agents -> AgentRows] /\ net \subseteq Messages
         /\ device.journal \in BOOLEAN /\ device.at \in Nat /\ device.calls \subseteq Tokens
         /\ device.runs \subseteq Tokens /\ device.sheets \in Nat /\ device.busy \in BOOLEAN
         /\ now \in Nat /\ job.deadline \in Int /\ cmd.attempts \in Nat
         /\ JobTimeout \in Nat /\ Retention \in Nat /\ JobTimeout <= Retention
BY KioskTypes, PrintControlAssumption, PrintSystemAssumption
   DEF SystemInv, KioskInv, DeadlineInv, HandoverInv

\* A job that can still be handed out could be before: time does not run back,
\* and only a job nobody was given gets its deadline.
LEMMA TimeRunsOut ==
  ASSUME SystemInv, ClockMove, cmd.attempts # 0
  PROVE  now' < job'.deadline => now < job.deadline
BY Facts DEF ClockMove

\* Whoever holds the lease was handed the command last, and has time left.
LEMMA HolderIsCurrent ==
  ASSUME SystemInv, NEW token, Held(token)
  PROVE  token = cmd.attempts /\ now < job.deadline
BY DEF SystemInv, ControlInv, CommandFollowsJob, Held

\* As long as the printer is left alone and the job moves by itself or by a true
\* report, what is known of the printer stays true.
LEMMA PrinterLeftAlone ==
  ASSUME SystemInv, device' = device, ClockMove, Unforced \/ Reported,
         cmd'.attempts \in Nat, cmd'.attempts >= cmd.attempts
  PROVE  /\ DeviceInv' /\ HandoverInv' /\ Offered' = Offered
         /\ \A r : True(r) /\ cmd.attempts # 0 => True(r)'
<1>1. DeviceInv /\ HandoverInv /\ Offered' = Offered /\ cmd.attempts \in Nat
  BY Facts DEF SystemInv, Offered
<1>2. DeviceInv'
  BY <1>1 DEF DeviceInv
<1>3. \A r : True(r) /\ cmd.attempts # 0 => True(r)'
  BY TimeRunsOut DEF True, ProvesNothing, Quiet
<1>4. Offered # {} => cmd.attempts # 0 /\ job'.deadline = job.deadline
  BY <1>1 DEF HandoverInv, ClockMove
<1>5. device.busy \/ device.sheets # 0 => Offered # {}
  BY <1>1 DEF DeviceInv
<1>6. /\ Offered # {} => job'.status \in {"PRINTING"} \cup SettledStatuses
      /\ job'.status = "COMPLETED" => device.runs # {}
  BY <1>1 DEF HandoverInv, Unforced, Reported, OpenStatuses, SettledStatuses
<1>7. device.calls # {} \/ device.busy =>
        job'.status \in {"PRINTING", "COMPLETED", "RECOVERY_REQUIRED"}
  BY <1>1 DEF HandoverInv, Unforced, Reported, OpenStatuses, Quiet
<1>8. job'.status \in {"FAILED", "CANCELED"} => device.sheets = 0
  BY <1>1, <1>5 DEF HandoverInv, Unforced, Reported, OpenStatuses, SettledStatuses
<1>9. HandoverInv'
  BY <1>1, <1>4, <1>6, <1>7, <1>8, TimeRunsOut DEF HandoverInv, ClockMove
<1> QED
  BY <1>1, <1>2, <1>3, <1>9

\* What the agent may hold next: nothing is offered where it is about to offer, and
\* a report it is about to make is true.
MayHold(pc, result) ==
  /\ pc \in {"asking", "preparing", "fetching", "intending", "authorising", "handover", "reporting"}
  /\ pc = "preparing" /\ now < job.deadline => Offered = {}
  /\ pc \in {"fetching", "intending", "authorising", "handover"} => Offered = {}
  /\ ~manifestOk => pc = "reporting"
  /\ pc = "reporting" => True(result)

\* The agent goes on with its operation.
LEMMA AgentGoesOn ==
  ASSUME SystemInv, OneAgent, NEW a \in Agents, ClockMove, Unforced \/ Reported,
         cmd'.attempts = cmd.attempts, UNCHANGED <<device, manifestOk>>,
         agent[a].pc # "idle", agent'[a].token = agent[a].token,
         MayHold(agent'[a].pc, agent'[a].result),
         agent'[a].pc = "handover" => job'.status = "PRINTING",
         \A m \in net' : m \in net \/ m.says # "RESULT"
  PROVE  DeviceInv' /\ HandoverInv' /\ ProgressInv' /\ ReportInv'
<1>1. /\ cmd.attempts \in Nat /\ cmd.attempts # 0 /\ agent[a].token = cmd.attempts
      /\ \A b \in Agents : b = a
      /\ ~manifestOk => Offered = {}
  BY Facts DEF SystemInv, AttemptsInv, OneAgent, ProgressInv
<1>2. /\ DeviceInv' /\ HandoverInv' /\ Offered' = Offered
      /\ \A r : True(r) => True(r)'
  BY <1>1, PrinterLeftAlone
<1>3. ProgressInv'
  BY <1>1, <1>2, TimeRunsOut DEF ProgressInv, MayHold
<1>4. ReportInv'
  BY <1>1, <1>2 DEF SystemInv, ReportInv, MayHold
<1> QED
  BY <1>2, <1>3, <1>4

\* The agent is done, gives up reporting, or dies.
LEMMA AgentEnds ==
  ASSUME SystemInv, OneAgent, NEW a \in Agents, ClockMove, Unforced \/ Reported,
         cmd'.attempts = cmd.attempts, UNCHANGED <<device, manifestOk>>,
         agent[a].pc # "idle", agent'[a].pc = "idle",
         \A m \in net' : \/ m \in net \/ m.says # "RESULT"
                         \/ agent[a].pc = "reporting" /\ m.result = agent[a].result
  PROVE  DeviceInv' /\ HandoverInv' /\ ProgressInv' /\ ReportInv'
<1>1. /\ cmd.attempts \in Nat /\ cmd.attempts # 0 /\ \A b \in Agents : b = a
      /\ ~manifestOk => Offered = {}
  BY Facts DEF SystemInv, AttemptsInv, OneAgent, ProgressInv
<1>2. /\ DeviceInv' /\ HandoverInv' /\ Offered' = Offered
      /\ \A r : True(r) => True(r)'
  BY <1>1, PrinterLeftAlone
<1>3. ProgressInv'
  BY <1>1, <1>2 DEF ProgressInv
<1>4. ReportInv'
  BY <1>1, <1>2 DEF SystemInv, ReportInv
<1> QED
  BY <1>2, <1>3, <1>4

\* Nobody moves but the control plane.
LEMMA AgentsStay ==
  ASSUME SystemInv, OneAgent, ClockMove,
         Unforced \/ (Reported /\ \A a \in Agents : agent[a].pc \notin {"handover", "calling"}),
         cmd'.attempts = cmd.attempts, UNCHANGED <<device, manifestOk>>, net' \subseteq net,
         \A a \in Agents : /\ agent'[a].pc = agent[a].pc /\ agent'[a].token = agent[a].token
                           /\ agent'[a].redelivered = agent[a].redelivered
                           /\ agent'[a].result = agent[a].result
  PROVE  DeviceInv' /\ HandoverInv' /\ ProgressInv' /\ ReportInv'
<1>1. /\ cmd.attempts \in Nat
      /\ \A a \in Agents : agent[a].pc # "idle" => cmd.attempts # 0
      /\ \A m \in net : cmd.attempts # 0
  BY Facts DEF SystemInv, AttemptsInv
<1>2. /\ DeviceInv' /\ HandoverInv' /\ Offered' = Offered
      /\ \A r : True(r) /\ cmd.attempts # 0 => True(r)'
  BY <1>1, PrinterLeftAlone
<1>3. \A a \in Agents : agent[a].pc \in {"handover", "calling"} =>
                          job'.status \in {"PRINTING", "RECOVERY_REQUIRED"}
  BY DEF SystemInv, ProgressInv, Unforced
<1>4. ProgressInv'
  BY <1>1, <1>2, <1>3, TimeRunsOut DEF SystemInv, ProgressInv
<1>5. ReportInv'
  BY <1>1, <1>2 DEF SystemInv, ReportInv
<1> QED
  BY <1>2, <1>4, <1>5
-----------------------------------------------------------------------------
(* The steps of the agent *)

\* The control plane left alone is a move nobody has to report.
LEMMA ControlLeftAlone ==
  ASSUME SystemInv, UNCHANGED controlVars
  PROVE  ClockMove /\ Unforced /\ cmd'.attempts = cmd.attempts
BY Facts DEF controlVars, ClockMove, Unforced, SystemInv, HandoverInv

\* What the agent holds after Go and after Goto, by fields.
LEMMA Going ==
  ASSUME SystemInv, NEW a \in Agents
  PROVE  /\ \A pc \in PCs : Go(a, pc) =>
              agent'[a].pc = pc /\ agent'[a].token = agent[a].token
         /\ \A r \in Results : Goto(a, "reporting", r) =>
              /\ agent'[a].pc = "reporting" /\ agent'[a].result = r
              /\ agent'[a].token = agent[a].token
<1>1. agent \in [Agents -> AgentRows] /\ agent[a] \in AgentRows
  BY Facts
<1>2. ASSUME NEW pc \in PCs, Go(a, pc)
      PROVE  agent'[a].pc = pc /\ agent'[a].token = agent[a].token
  <2>1. agent'[a] = [agent[a] EXCEPT !.pc = pc]
    BY <1>1, <1>2, AgentMoves
  <2> QED
    BY <1>1, <2>1 DEF AgentRows
<1>3. ASSUME NEW r \in Results, Goto(a, "reporting", r)
      PROVE  /\ agent'[a].pc = "reporting" /\ agent'[a].result = r
             /\ agent'[a].token = agent[a].token
  <2>1. agent'[a] = [agent[a] EXCEPT !.pc = "reporting", !.result = r, !.renewing = FALSE]
    BY <1>1, <1>3, AgentMoves
  <2> QED
    BY <1>1, <2>1 DEF AgentRows
<1> QED
  BY <1>2, <1>3

\* Looking up, fetching, recording, collecting: local steps of an operation that
\* leave the printer alone.
LEMMA LocalSafe ==
  ASSUME SystemInv, OneAgent, NEW a \in Agents,
         \/ Begin(a) \/ Ask(a) \/ Fetch(a) \/ RecordIntent(a) \/ Collect(a)
         \/ Refuse(a) /\ agent[a].pc = "handover",
         UNCHANGED controlVars
  PROVE  DeviceInv' /\ HandoverInv' /\ ProgressInv' /\ ReportInv'
<1>1. /\ ClockMove /\ Unforced /\ cmd'.attempts = cmd.attempts
      /\ ProgressInv /\ DeviceInv /\ HandoverInv
  BY ControlLeftAlone DEF SystemInv
<1>2. Offered = {} => Quiet /\ device.sheets = 0
  BY <1>1 DEF DeviceInv, Quiet, Offered
<1>3. Offered = {} \/ ~(now < job.deadline) => True(NotSubmitted)
  BY <1>2 DEF True, NotSubmitted
<1>4. True(Unknown)
  BY DEF True, ProvesNothing, Unknown
<1>5. net' = net /\ UNCHANGED <<device, manifestOk>> /\ agent[a].pc # "idle"
  BY DEF Begin, Ask, Fetch, RecordIntent, Collect, Refuse
<1>6. ASSUME NEW pc \in PCs \ {"handover"}, Go(a, pc), MayHold(pc, agent'[a].result)
      PROVE  DeviceInv' /\ HandoverInv' /\ ProgressInv' /\ ReportInv'
  <2>1. agent'[a].pc = pc /\ agent'[a].token = agent[a].token
    BY <1>6, Going
  <2> QED
    BY <1>1, <1>5, <1>6, <2>1, AgentGoesOn
<1>7. ASSUME NEW r \in Results, Goto(a, "reporting", r), True(r)
      PROVE  DeviceInv' /\ HandoverInv' /\ ProgressInv' /\ ReportInv'
  <2>1. /\ agent'[a].pc = "reporting" /\ agent'[a].result = r
        /\ agent'[a].token = agent[a].token
    BY <1>7, Going
  <2>2. MayHold(agent'[a].pc, agent'[a].result)
    BY <1>7, <2>1 DEF MayHold
  <2> QED
    BY <1>1, <1>5, <2>1, <2>2, AgentGoesOn
<1>8. CASE Begin(a)
  <2>1. CASE ~manifestOk
    BY <1>1, <1>3, <1>7, <1>8, <2>1, ConstantReports DEF Begin, ProgressInv
  <2>2. CASE manifestOk /\ (agent[a].redelivered \/ ledger)
    BY <1>6, <1>8, <2>2 DEF Begin, MayHold, PCs
  <2>3. CASE manifestOk /\ ~(agent[a].redelivered \/ ledger)
    BY <1>1, <1>6, <1>8, <2>3 DEF Begin, MayHold, PCs, ProgressInv
  <2> QED
    BY <2>1, <2>2, <2>3
<1>9. CASE Ask(a)
  <2>1. PICK r \in GetOperationStatus :
          IF r.state = "NOT_SUBMITTED" THEN Go(a, "preparing") ELSE Goto(a, "reporting", r)
    BY <1>9 DEF Ask
  <2>2. agent[a].pc = "asking"
    BY <1>9 DEF Ask
  <2>3. CASE r.state = "NOT_SUBMITTED"
    BY <1>1, <1>6, <2>1, <2>2, <2>3, AdapterReports
       DEF MayHold, PCs, ProgressInv, HandoverInv
  <2>4. CASE r.state # "NOT_SUBMITTED"
    BY <1>7, <2>1, <2>4, AdapterReports DEF True
  <2> QED
    BY <2>3, <2>4
<1>10. CASE Fetch(a)
  <2>1. agent[a].pc = "fetching" /\ Offered = {} /\ manifestOk
    BY <1>1, <1>10 DEF Fetch, ProgressInv
  <2> QED
    BY <1>3, <1>6, <1>7, <1>10, <2>1, ConstantReports DEF Fetch, MayHold, PCs
<1>11. CASE RecordIntent(a)
  BY <1>1, <1>6, <1>11 DEF RecordIntent, MayHold, PCs, ProgressInv
<1>12. CASE Refuse(a) /\ agent[a].pc = "handover"
  BY <1>1, <1>3, <1>7, <1>12, ConstantReports DEF Refuse, ProgressInv
<1>13. CASE Collect(a)
  <2> DEFINE Believed(known) == IF known.state = "NOT_SUBMITTED" THEN Unknown ELSE known
  <2>1. PICK known \in GetOperationStatus \cup {Unknown} :
          \E r \in ApplyMarkerEvidence(Believed(known)) : Goto(a, "reporting", r)
    BY <1>13 DEF Collect
  <2>2. PICK r \in ApplyMarkerEvidence(Believed(known)) : Goto(a, "reporting", r)
    BY <2>1
  <2>3. Believed(known) \in Results /\ True(Believed(known))
    BY <1>4, AdapterReports, ConstantReports DEF True
  <2> HIDE DEF Believed
  <2>4. r \in Results /\ True(r)
    BY <2>3, MarkerReports DEF True
  <2> QED
    BY <1>7, <2>2, <2>4
<1> QED
  BY <1>8, <1>9, <1>10, <1>11, <1>12, <1>13
\* A request answered at once, given up, or cut off by a crash.
LEMMA RequestSafe ==
  ASSUME SystemInv, OneAgent, NEW a \in Agents,
         \/ Exchange(a)
         \/ (GiveUp(a) \/ Crash(a)) /\ UNCHANGED controlVars
  PROVE  DeviceInv' /\ HandoverInv' /\ ProgressInv' /\ ReportInv'
<1> DEFINE held == Held(agent[a].token)
<1>1. /\ agent \in [Agents -> AgentRows] /\ UNCHANGED <<device, manifestOk>>
      /\ agent[a].pc # "idle" /\ ProgressInv /\ ReportInv /\ DeviceInv
  BY Facts DEF Exchange, GiveUp, Crash, Waiting, SystemInv
<1>2. Offered = {} => True(NotSubmitted)
  BY <1>1 DEF True, NotSubmitted, DeviceInv, Quiet, Offered
<1>3. ~(now < job.deadline) => True(NotSubmitted)
  BY DEF True, NotSubmitted
<1>4. held => now < job.deadline
  BY HolderIsCurrent
<1>5. held \in BOOLEAN
  BY DEF Held
<1> HIDE DEF held
<1>6. ASSUME NEW accepted \in BOOLEAN, Waiting(a), Answer(a, accepted), accepted => held,
             ClockMove, cmd'.attempts = cmd.attempts,
             Unforced \/ (Reported /\ agent[a].pc = "reporting"),
             agent[a].pc = "authorising" /\ accepted => job'.status = "PRINTING",
             \A m \in net' : m \in net \/ m = Request(a)
      PROVE  DeviceInv' /\ HandoverInv' /\ ProgressInv' /\ ReportInv'
  <2>1. /\ agent[a].pc # "reporting" => Request(a).says # "RESULT"
        /\ agent[a].pc = "reporting" => Request(a).result = agent[a].result
    BY <1>1, <1>6, RequestFacts DEF Waiting
  <2>2. CASE agent[a].pc = "reporting"
    <3>1. agent'[a].pc = "idle"
      BY <1>1, <1>6, <2>2, AnswerFacts
    <3> QED
      BY <1>1, <1>6, <2>1, <2>2, <3>1, AgentEnds
  <2>3. CASE agent[a].pc # "reporting"
    <3>1. /\ agent'[a].token = agent[a].token
          /\ \/ agent[a].pc = "preparing" /\ accepted /\ agent'[a].pc = "fetching"
             \/ agent[a].pc = "authorising" /\ accepted /\ agent'[a].pc = "handover"
             \/ /\ agent[a].pc \in {"preparing", "authorising"} /\ ~accepted
                /\ agent'[a].pc = "reporting" /\ agent'[a].result = NotSubmitted
      BY <1>1, <1>6, <2>3, AnswerFacts
    <3>2. MayHold(agent'[a].pc, agent'[a].result)
      BY <1>1, <1>2, <1>3, <1>4, <1>6, <3>1 DEF MayHold, ProgressInv
    <3>3. agent'[a].pc = "handover" => job'.status = "PRINTING"
      BY <1>6, <3>1
    <3> QED
      BY <1>1, <1>6, <2>1, <2>3, <3>1, <3>2, <3>3, AgentGoesOn
  <2> QED
    BY <2>2, <2>3
<1>7. CASE Exchange(a)
  <2>1. /\ Waiting(a) /\ Serve(Request(a)) /\ Answer(a, held) /\ net' = net
        /\ agent[a].token \in 1 .. cmd.attempts /\ KioskInv
    BY <1>1, <1>7, Facts DEF Exchange, held, SystemInv, AttemptsInv
  <2>2. /\ Request(a) \in Messages /\ Request(a).token = agent[a].token
        /\ agent[a].pc = "preparing" => Request(a).says = "PREPARING"
        /\ agent[a].pc = "authorising" => Request(a).says = "SUBMITTED"
        /\ agent[a].pc = "reporting" => /\ Request(a).says = "RESULT"
                                        /\ Request(a).result = agent[a].result
    BY <1>1, <2>1, RequestFacts
  <2>3. /\ ClockMove /\ cmd'.attempts = cmd.attempts
        /\ Request(a).says # "RESULT" => Unforced
        /\ Request(a).says = "SUBMITTED" /\ held => job'.status = "PRINTING"
        /\ Request(a).says = "RESULT" /\ True(Request(a).result) => Unforced \/ Reported
    BY <2>1, <2>2, ServeMoves DEF held
  <2>4. Unforced \/ (Reported /\ agent[a].pc = "reporting")
    BY <1>1, <2>1, <2>2, <2>3 DEF Waiting, ReportInv
  <2> QED
    BY <1>5, <1>6, <2>1, <2>2, <2>3, <2>4
<1>8. CASE GiveUp(a) /\ UNCHANGED controlVars
  <2>1. ClockMove /\ Unforced /\ cmd'.attempts = cmd.attempts
    BY <1>8, ControlLeftAlone
  <2>2. /\ Waiting(a) /\ Answer(a, FALSE) /\ net' = net \cup {Request(a)}
    BY <1>8 DEF GiveUp
  <2> QED
    BY <1>6, <2>1, <2>2
<1>9. CASE Crash(a) /\ UNCHANGED controlVars
  <2>1. ClockMove /\ Unforced /\ cmd'.attempts = cmd.attempts
    BY <1>9, ControlLeftAlone
  <2>2. agent' = [agent EXCEPT ![a] = IdleAgent(0)]
    BY <1>9 DEF Crash
  <2>3. agent'[a].pc = "idle"
    BY <1>1, <2>2 DEF IdleAgent
  <2>4. \A m \in net' : m \in net \/ (Waiting(a) /\ m = Request(a))
    BY <1>9 DEF Crash
  <2>5. Waiting(a) => /\ agent[a].pc # "reporting" => Request(a).says # "RESULT"
                      /\ agent[a].pc = "reporting" => Request(a).result = agent[a].result
    BY <1>1, RequestFacts DEF Waiting
  <2> QED
    BY <1>1, <2>1, <2>3, <2>4, <2>5, AgentEnds
<1> QED
  BY <1>7, <1>8, <1>9

\* Handing the command out: to the agent, or with the reply lost on the way.
LEMMA ClaimSafe ==
  ASSUME SystemInv, OneAgent, NEW a \in Agents, Claim(a)
  PROVE  DeviceInv' /\ HandoverInv' /\ ProgressInv' /\ ReportInv'
<1>1. /\ ClockMove /\ job' = job /\ cmd'.attempts = cmd.attempts + 1 /\ cmd.attempts \in Nat
      /\ UNCHANGED <<net, device, manifestOk>> /\ agent[a].pc = "idle"
      /\ agent \in [Agents -> AgentRows] /\ agent[a] \in AgentRows /\ \A b \in Agents : b = a
      /\ \A m \in net : m.token \in 1 .. cmd.attempts
      /\ ProgressInv /\ HandoverInv
  BY Facts, ClaimMoves DEF Claim, OneAgent, SystemInv, AttemptsInv
<1>2. DeviceInv' /\ HandoverInv' /\ Offered' = Offered
  BY <1>1, PrinterLeftAlone DEF Unforced
<1>3. \A m \in net' : m.token # cmd'.attempts
  BY <1>1
<1>4. CASE agent' = agent
  BY <1>1, <1>2, <1>3, <1>4 DEF ProgressInv, ReportInv
<1>5. CASE agent' = [agent EXCEPT ![a].pc = "claimed", ![a].token = cmd.attempts + 1,
                                  ![a].redelivered = cmd.attempts > 0]
  <2> DEFINE again == cmd.attempts > 0
  <2>1. /\ again \in BOOLEAN /\ (~again => Offered = {})
        /\ agent' = [agent EXCEPT ![a].pc = "claimed", ![a].token = cmd.attempts + 1,
                                  ![a].redelivered = again]
    BY <1>1, <1>5 DEF HandoverInv
  <2> HIDE DEF again
  <2>2. /\ agent'[a].pc = "claimed" /\ agent'[a].token = cmd.attempts + 1
        /\ agent'[a].redelivered = again
    BY <1>1, <2>1 DEF AgentRows
  <2> QED
    BY <1>1, <1>2, <1>3, <2>1, <2>2 DEF ProgressInv, ReportInv
<1> QED
  BY <1>2, <1>4, <1>5 DEF Claim
-----------------------------------------------------------------------------
(* The steps that touch the printer or its evidence *)

\* Sweeping by age: evidence is older than its job by then.
LEMMA SweepSafe ==
  ASSUME SystemInv, OneAgent, NEW a \in Agents, SweepLocalArtifacts(a)
  PROVE  DeviceInv' /\ HandoverInv' /\ ProgressInv' /\ ReportInv'
<1>1. /\ agent \in [Agents -> AgentRows] /\ agent[a] \in AgentRows /\ \A b \in Agents : b = a
      /\ DeviceInv /\ HandoverInv /\ ProgressInv /\ ReportInv
      /\ now \in Nat /\ job.deadline \in Int /\ device.at \in Nat
      /\ JobTimeout \in Nat /\ Retention \in Nat /\ JobTimeout <= Retention
  BY Facts DEF OneAgent, SystemInv
<1>2. /\ UNCHANGED <<now, job, cmd, net, manifestOk>> /\ agent[a].pc = "idle"
  BY DEF SweepLocalArtifacts, controlVars
<1>3. agent'[a].pc = "idle"
  <2>1. agent' = [agent EXCEPT ![a].nextSweepAt = now + JobTimeout]
    BY DEF SweepLocalArtifacts
  <2> QED
    BY <1>1, <1>2, <2>1 DEF AgentRows
<1>4. device' \in {device, [device EXCEPT !.journal = FALSE]}
      /\ (device' # device => device.at < now - Retention)
  BY DEF SweepLocalArtifacts
<1>5. /\ device'.calls = device.calls /\ device'.runs = device.runs /\ device'.at = device.at
      /\ device'.sheets = device.sheets /\ device'.busy = device.busy
  <2>1. device \in [journal : BOOLEAN, at : Nat, calls : SUBSET Tokens, runs : SUBSET Tokens,
                     sheets : Nat, busy : BOOLEAN]
    BY DEF SystemInv, SystemTypeOK
  <2> QED
    BY <1>4, <2>1
<1>6. Offered # {} /\ now < job.deadline => device'.journal
  BY <1>1, <1>4 DEF HandoverInv
<1>7. Offered' = Offered
  BY <1>5 DEF Offered
<1>8. DeviceInv' /\ HandoverInv'
  BY <1>1, <1>2, <1>5, <1>6, <1>7 DEF DeviceInv, HandoverInv
<1>9. \A r : True(r) => True(r)'
  BY <1>2, <1>5 DEF True, Quiet
<1> QED
  BY <1>1, <1>2, <1>3, <1>7, <1>8, <1>9 DEF ProgressInv, ReportInv

\* The device is offered the work, with its evidence already written.
LEMMA OpenJournalSafe ==
  ASSUME SystemInv, OneAgent, NEW a \in Agents, OpenJournal(a)
  PROVE  DeviceInv' /\ HandoverInv' /\ ProgressInv' /\ ReportInv'
<1>1. /\ agent \in [Agents -> AgentRows] /\ \A b \in Agents : b = a
      /\ DeviceInv /\ HandoverInv /\ ProgressInv /\ ReportInv
      /\ now \in Nat /\ job.deadline \in Int /\ JobTimeout \in Nat
  BY Facts DEF OneAgent, SystemInv
<1>2. /\ UNCHANGED <<now, job, cmd, net, manifestOk>> /\ agent[a].pc = "handover"
      /\ Offered = {} /\ manifestOk
      /\ agent[a].token = cmd.attempts /\ cmd.attempts # 0
      /\ job.status \in {"PRINTING", "RECOVERY_REQUIRED"}
  BY <1>1 DEF OpenJournal, controlVars, ProgressInv, SystemInv, AttemptsInv
<1>3. agent'[a].pc = "calling" /\ agent'[a].token = agent[a].token
  BY Going DEF OpenJournal, PCs
<1>4. /\ device'.journal /\ device'.at = now /\ device'.calls = {agent[a].token}
      /\ device'.runs = {} /\ device'.sheets = 0 /\ ~device'.busy
  <2>1. device \in [journal : BOOLEAN, at : Nat, calls : SUBSET Tokens, runs : SUBSET Tokens,
                     sheets : Nat, busy : BOOLEAN]
    BY DEF SystemInv, SystemTypeOK
  <2>2. /\ device' = [device EXCEPT !.journal = TRUE, !.at = now,
                                     !.calls = device.calls \cup {agent[a].token}]
    BY DEF OpenJournal
  <2>3. device.calls = {} /\ device.runs = {} /\ device.sheets = 0 /\ ~device.busy
    BY <1>1, <1>2 DEF DeviceInv, Offered
  <2> QED
    BY <2>1, <2>2, <2>3
<1>5. Offered' = {agent[a].token}
  BY <1>4 DEF Offered
<1>6. DeviceInv'
  BY <1>4, <1>5 DEF DeviceInv
<1>7. HandoverInv'
  BY <1>1, <1>2, <1>4, <1>5 DEF HandoverInv, SettledStatuses
<1>8. ProgressInv'
  BY <1>1, <1>2, <1>3 DEF ProgressInv
<1>9. ReportInv'
  BY <1>1, <1>2, <1>3 DEF ReportInv
<1> QED
  BY <1>6, <1>7, <1>8, <1>9

\* The device turns the offer down.
LEMMA TurnedDownSafe ==
  ASSUME SystemInv, OneAgent, NEW a \in Agents, Refuse(a), agent[a].pc = "calling"
  PROVE  DeviceInv' /\ HandoverInv' /\ ProgressInv' /\ ReportInv'
<1>1. /\ agent \in [Agents -> AgentRows] /\ \A b \in Agents : b = a
      /\ DeviceInv /\ HandoverInv /\ ProgressInv /\ ReportInv
      /\ now \in Nat /\ job.deadline \in Int /\ JobTimeout \in Nat
  BY Facts DEF OneAgent, SystemInv
<1>2. /\ UNCHANGED <<now, job, cmd, net, manifestOk>>
      /\ agent[a].token \in device.calls /\ agent[a].token = cmd.attempts
      /\ Goto(a, "reporting", NotSubmitted)
      /\ device' = [device EXCEPT !.calls = device.calls \ {agent[a].token}]
  BY <1>1 DEF Refuse, controlVars, ProgressInv
<1>3. /\ agent'[a].pc = "reporting" /\ agent'[a].result = NotSubmitted
      /\ agent'[a].token = agent[a].token
  BY <1>2, Going, ConstantReports
<1>4. device.runs = {} /\ device.sheets = 0 /\ ~device.busy /\ \A t \in device.calls : t = agent[a].token
  BY <1>1, <1>2 DEF DeviceInv, Offered
<1>5. /\ device'.calls = {} /\ device'.runs = {} /\ device'.sheets = 0 /\ ~device'.busy
  <2>1. device \in [journal : BOOLEAN, at : Nat, calls : SUBSET Tokens, runs : SUBSET Tokens,
                     sheets : Nat, busy : BOOLEAN]
    BY DEF SystemInv, SystemTypeOK
  <2>2. device.calls \ {agent[a].token} = {}
    BY <1>4
  <2> QED
    BY <1>2, <1>4, <2>1, <2>2
<1>6. Offered' = {} /\ Offered # {}
  BY <1>2, <1>5 DEF Offered
<1>7. DeviceInv' /\ HandoverInv'
  BY <1>1, <1>2, <1>4, <1>5, <1>6 DEF DeviceInv, HandoverInv
<1>8. ProgressInv'
  BY <1>1, <1>2, <1>3, <1>6 DEF ProgressInv
<1>9. True(NotSubmitted)'
  BY <1>5 DEF True, NotSubmitted, Quiet
<1>10. ReportInv'
  <2>1. agent[a].pc # "idle"
    OBVIOUS
  <2>2. \A m \in net' : ~(m.says = "RESULT" /\ m.token = cmd'.attempts)
    BY <1>1, <1>2, <2>1 DEF ReportInv
  <2> QED
    BY <1>1, <1>3, <1>9, <2>2 DEF ReportInv
<1> QED
  BY <1>7, <1>8, <1>10

\* The printer takes what it was offered, marks sheets, and stops.
LEMMA PrinterSafe ==
  ASSUME SystemInv, Printer
  PROVE  DeviceInv' /\ HandoverInv' /\ ProgressInv' /\ ReportInv'
<1>1. /\ DeviceInv /\ HandoverInv /\ ProgressInv /\ ReportInv
      /\ device \in [journal : BOOLEAN, at : Nat, calls : SUBSET Tokens, runs : SUBSET Tokens,
                     sheets : Nat, busy : BOOLEAN]
  BY DEF SystemInv, SystemTypeOK
<1>2. UNCHANGED <<now, job, cmd, agent, net, manifestOk>>
  BY DEF Printer, DeviceTakes, DeviceMarks, DeviceStops, controlVars
<1>3. ASSUME Offered' = Offered, \A r : True(r) => True(r)'
      PROVE  ProgressInv' /\ ReportInv'
  BY <1>1, <1>2, <1>3 DEF ProgressInv, ReportInv
<1>4. ASSUME NEW token \in Tokens, DeviceTakes(token)
      PROVE  DeviceInv' /\ HandoverInv' /\ ProgressInv' /\ ReportInv'
  <2>1. /\ token \in device.calls
        /\ device' = [device EXCEPT !.calls = device.calls \ {token},
                                    !.runs = device.runs \cup {token}, !.busy = TRUE]
    BY <1>4 DEF DeviceTakes
  <2>2. /\ device.runs = {} /\ device.calls = {token} /\ device.sheets = 0
    BY <1>1, <2>1 DEF DeviceInv, Offered
  <2>3. /\ device'.calls = {} /\ device'.runs = {token} /\ device'.sheets = 0
        /\ device'.at = device.at /\ device'.journal = device.journal
    BY <1>1, <2>1, <2>2
  <2>4. Offered' = Offered /\ Offered = {token}
    BY <2>2, <2>3 DEF Offered
  <2>5. \A r : True(r) => True(r)'
    BY <1>2, <2>2, <2>3 DEF True, Quiet
  <2>6. DeviceInv' /\ HandoverInv'
    BY <1>1, <1>2, <2>2, <2>3, <2>4 DEF DeviceInv, HandoverInv
  <2> QED
    BY <1>3, <2>4, <2>5, <2>6
<1>5. CASE DeviceMarks
  <2>1. /\ device.busy /\ device' = [device EXCEPT !.sheets = device.sheets + 1]
    BY <1>5 DEF DeviceMarks
  <2>2. /\ device'.calls = device.calls /\ device'.runs = device.runs /\ device'.busy
        /\ device'.at = device.at /\ device'.journal = device.journal
    BY <1>1, <2>1
  <2>3. Offered' = Offered
    BY <2>2 DEF Offered
  <2>4. \A r : True(r) => True(r)'
    BY <1>2, <2>1, <2>2 DEF True, Quiet
  <2>5. DeviceInv' /\ HandoverInv'
    BY <1>1, <1>2, <2>1, <2>2, <2>3 DEF DeviceInv, HandoverInv
  <2> QED
    BY <1>3, <2>3, <2>4, <2>5
<1>6. CASE DeviceStops
  <2>1. /\ device.busy /\ device' = [device EXCEPT !.busy = FALSE]
    BY <1>6 DEF DeviceStops
  <2>2. /\ device'.calls = device.calls /\ device'.runs = device.runs /\ ~device'.busy
        /\ device'.at = device.at /\ device'.journal = device.journal
        /\ device'.sheets = device.sheets
    BY <1>1, <2>1
  <2>3. Offered' = Offered
    BY <2>2 DEF Offered
  <2>4. \A r : True(r) => True(r)'
    BY <1>2, <2>1, <2>2 DEF True, Quiet
  <2>5. DeviceInv' /\ HandoverInv'
    BY <1>1, <1>2, <2>1, <2>2, <2>3 DEF DeviceInv, HandoverInv
  <2> QED
    BY <1>3, <2>3, <2>4, <2>5
<1> QED
  BY <1>4, <1>5, <1>6 DEF Printer
-----------------------------------------------------------------------------
(* The invariant, and what follows from it *)

\* Every move of the job is one nobody has to report, or a true report's.
LEMMA JobMoves ==
  ASSUME SystemInv, [SystemNext]_vars
  PROVE  Unforced \/ Reported
<1>1. /\ KioskInv /\ agent \in [Agents -> AgentRows] /\ net \subseteq Messages /\ ReportInv
      /\ \A b \in Agents : agent[b].pc # "idle" => agent[b].token \in 1 .. cmd.attempts
      /\ \A x \in net : x.token \in 1 .. cmd.attempts
  BY Facts DEF SystemInv, AttemptsInv
<1>2. CASE ControlPlane
  BY <1>1, <1>2, PlaneMoves DEF ControlPlane, KioskInv
<1>3. ASSUME NEW m \in net, ServeLate(m) PROVE Unforced \/ Reported
  <2>1. m \in Messages /\ m.token \in 1 .. cmd.attempts
    BY <1>1
  <2>0. Serve(m)
    BY <1>3 DEF ServeLate
  <2>2. m.says = "RESULT" /\ Held(m.token) => True(m.result)
    BY <1>1, <1>3, HolderIsCurrent DEF ReportInv
  <2>3. m.says = "RESULT" /\ ~Held(m.token) => Unforced
    BY <1>1, <2>0, <2>1, ServeMoves DEF Unforced
  <2> QED
    BY <1>1, <2>0, <2>1, <2>2, <2>3, ServeMoves
<1>4. ASSUME NEW a \in Agents, ControlStep(a) PROVE Unforced \/ Reported
  <2>1. CASE Claim(a)
    BY <1>1, <2>1, ClaimMoves DEF Claim, Unforced
  <2>2. CASE Renew(a)
    BY <1>1, <2>2, RenewMoves
  <2>3. CASE Exchange(a)
    <3>1. /\ Waiting(a) /\ Serve(Request(a)) /\ agent[a].token \in 1 .. cmd.attempts
      BY <1>1, <2>3 DEF Exchange, Waiting
    <3>2. /\ Request(a) \in Messages /\ Request(a).token = agent[a].token
          /\ agent[a].pc = "preparing" => Request(a).says = "PREPARING"
          /\ agent[a].pc = "authorising" => Request(a).says = "SUBMITTED"
          /\ agent[a].pc = "reporting" => Request(a).result = agent[a].result
      BY <1>1, <3>1, RequestFacts
    <3>3. Request(a).says = "RESULT" => True(Request(a).result)
      BY <1>1, <3>1, <3>2 DEF Waiting, ReportInv
    <3> QED
      BY <1>1, <3>1, <3>2, <3>3, ServeMoves
  <2> QED
    BY <1>4, <2>1, <2>2, <2>3 DEF ControlStep
<1>5. CASE UNCHANGED controlVars \/ UNCHANGED vars
  BY <1>5 DEF controlVars, vars, Unforced
<1> QED
  BY <1>2, <1>3, <1>4, <1>5, StepKinds

\* A fresh kiosk before anything was ordered.
LEMMA InitSystemInv == SystemInit => SystemInv
<1> SUFFICES ASSUME SystemInit PROVE SystemInv
  OBVIOUS
<1>1. KioskInv
  BY InitKioskInv
<1>2. /\ cmd.attempts = 0 /\ net = {} /\ job.status = "NONE" /\ job.deadline = Null /\ now = 0
      /\ device.calls = {} /\ device.runs = {} /\ device.sheets = 0 /\ ~device.busy
      /\ \A a \in Agents : agent[a].pc = "idle"
  BY DEF SystemInit, Init, IdleAgent
<1>3. DeviceInv /\ ReportInv /\ ProgressInv
  BY <1>2 DEF DeviceInv, Offered, ReportInv, ProgressInv
<1>4. HandoverInv
  BY <1>1, <1>2 DEF HandoverInv, Offered, KioskInv, DeadlineInv
<1> QED
  BY <1>1, <1>3, <1>4 DEF SystemInv, KioskInv

\* Every step of the system keeps the invariant.
LEMMA StepSystemInv ==
  ASSUME SystemInv, OneAgent, [SystemNext]_vars
  PROVE  SystemInv'
<1> DEFINE Safe == DeviceInv' /\ HandoverInv' /\ ProgressInv' /\ ReportInv'
<1> SUFFICES Safe
  <2>1. KioskInv /\ [SystemNext]_vars
    BY Facts
  <2>2. KioskInv'
    BY <2>1, StepKioskInv
  <2> QED
    BY <2>2 DEF SystemInv, KioskInv
<1>1. KioskInv /\ KioskInv' /\ (Unforced \/ Reported) /\ ReportInv /\ net \subseteq Messages
      /\ agent \in [Agents -> AgentRows] /\ \A x \in net : x.token \in 1 .. cmd.attempts
  BY Facts, StepKioskInv, JobMoves DEF SystemInv, AttemptsInv
<1>2. CASE ControlPlane
  <2>1. /\ ClockMove /\ Unforced /\ cmd'.attempts = cmd.attempts
        /\ UNCHANGED <<device, manifestOk, net, agent>>
    BY <1>1, <1>2, PlaneMoves DEF ControlPlane, KioskInv, agentVars
  <2> QED
    BY <2>1, AgentsStay
<1>3. ASSUME NEW a \in Agents, ControlStep(a) PROVE Safe
  <2>1. CASE Renew(a)
    <3>1. /\ ClockMove /\ Unforced /\ cmd'.attempts = cmd.attempts
          /\ \E go \in BOOLEAN : agent'[a] = [agent[a] EXCEPT !.renewing = go]
          /\ \A b \in Agents \ {a} : agent'[b] = agent[b]
          /\ UNCHANGED <<device, manifestOk, net>>
      BY <1>1, <2>1, RenewMoves DEF Renew
    <3>2. \A b \in Agents : /\ agent'[b].pc = agent[b].pc /\ agent'[b].token = agent[b].token
                            /\ agent'[b].redelivered = agent[b].redelivered
                            /\ agent'[b].result = agent[b].result
      BY <1>1, <3>1 DEF AgentRows
    <3> QED
      BY <3>1, <3>2, AgentsStay
  <2> QED
    BY <1>3, <2>1, ClaimSafe, RequestSafe DEF ControlStep
<1>4. ASSUME NEW m \in net, ServeLate(m) PROVE Safe
  <2>1. m \in Messages /\ m.token \in 1 .. cmd.attempts /\ Serve(m)
        /\ net' \subseteq net /\ UNCHANGED <<device, manifestOk, agent>>
    BY <1>1, <1>4 DEF ServeLate
  <2>2. ClockMove /\ cmd'.attempts = cmd.attempts
    BY <1>1, <2>1, ServeMoves
  <2>3. Unforced \/ (Reported /\ \A a \in Agents : agent[a].pc \notin {"handover", "calling"})
    <3>1. m.says # "RESULT" \/ ~Held(m.token) => Unforced
      BY <1>1, <2>1, ServeMoves DEF Unforced
    <3>2. m.says = "RESULT" /\ Held(m.token) => \A a \in Agents : agent[a].pc = "idle"
      BY <1>1, <1>4, HolderIsCurrent DEF ReportInv
    <3> QED
      BY <1>1, <3>1, <3>2
  <2> QED
    BY <1>1, <2>1, <2>2, <2>3, AgentsStay
<1>5. ASSUME NEW a \in Agents, LocalStep(a), UNCHANGED controlVars PROVE Safe
  <2>1. Refuse(a) => agent[a].pc \in {"handover", "calling"}
    BY DEF Refuse
  <2> QED
    BY <1>5, <2>1, LocalSafe, RequestSafe, SweepSafe, OpenJournalSafe, TurnedDownSafe DEF LocalStep
<1>6. CASE UNCHANGED controlVars /\ WipeSpool
  <2>1. ClockMove /\ Unforced /\ cmd'.attempts = cmd.attempts
        /\ UNCHANGED <<device, manifestOk, net, agent>>
    BY <1>6, ControlLeftAlone DEF WipeSpool
  <2> QED
    BY <2>1, AgentsStay
<1>7. CASE UNCHANGED vars
  BY <1>7 DEF vars, DeviceInv, HandoverInv, ProgressInv, ReportInv, Offered, True, Quiet,
     SystemInv
<1> QED
  BY <1>1, <1>2, <1>3, <1>4, <1>5, <1>6, <1>7, PrinterSafe, StepKinds
-----------------------------------------------------------------------------
(* Theorems *)

\* The invariant holds on every kiosk with one agent, whatever crashes, is lost, or
\* is served late.
LEMMA SystemInvariance == ASSUME OneAgent PROVE SystemSpec => []SystemInv
<1>1. SystemInv /\ [SystemNext]_vars => SystemInv'
  BY StepSystemInv
<1> QED
  BY <1>1, InitSystemInv, PTL DEF SystemSpec

\* A set all of whose members are equal has at most one.
LEMMA AtMostOneElement ==
  ASSUME NEW S, \A s, t \in S : s = t
  PROVE  Cardinality(S) = IF S = {} THEN 0 ELSE 1
<1>1. CASE S = {}
  BY <1>1, FS_EmptySet
<1>2. CASE S # {}
  <2>1. PICK x : S = {x}
    BY <1>2
  <2> QED
    BY <1>2, <2>1, FS_Singleton
<1> QED
  BY <1>1, <1>2

\* How often the printer was given the work, by count and by set.
LEMMA Runs == SystemInv => Cardinality(device.runs) = IF device.runs = {} THEN 0 ELSE 1
<1> SUFFICES ASSUME SystemInv PROVE \A s, t \in device.runs : s = t
  BY AtMostOneElement
<1> QED
  BY DEF SystemInv, DeviceInv, Offered

\* A kiosk's printer is given the work of a paid job at most once: across
\* redeliveries, crashes, lost replies, late requests and a wiped spool.
THEOREM PrintedAtMostOnce == ASSUME OneAgent PROVE SystemSpec => []AtMostOnePrint
<1>1. SystemInv => AtMostOnePrint
  BY Runs DEF AtMostOnePrint
<1> QED
  BY <1>1, SystemInvariance, PTL

\* A handover is known to the control plane before it happens, and on the kiosk's
\* disk for as long as somebody may ask about it.
THEOREM HandoverSafety == ASSUME OneAgent PROVE SystemSpec => []HandoverIsKnown
<1>1. SystemInv => HandoverIsKnown
  BY DEF SystemInv, HandoverInv, Offered, HandoverIsKnown, BoundaryBeforeDevice,
     EvidenceOutlivesJob
<1> QED
  BY <1>1, SystemInvariance, PTL

\* Every step keeps the promise of PaperXorMoney or does not show in it.
LEMMA StepKeepsPromise ==
  ASSUME SystemInv, SystemInv', [SystemNext]_vars
  PROVE  [Abstract!PromiseNext]_(Abstract!abstractVars)
<1> DEFINE taken == Cardinality(device.runs)
           paper == device.sheets > 0
<1>1. /\ taken = IF device.runs = {} THEN 0 ELSE 1
      /\ taken' = IF device'.runs = {} THEN 0 ELSE 1
      /\ DeviceInv /\ HandoverInv
      /\ device \in [journal : BOOLEAN, at : Nat, calls : SUBSET Tokens, runs : SUBSET Tokens,
                     sheets : Nat, busy : BOOLEAN]
  <2>1. \A s, t \in device'.runs : s = t
    BY DEF SystemInv, DeviceInv, Offered
  <2>2. taken' = IF device'.runs = {} THEN 0 ELSE 1
    BY <2>1, AtMostOneElement
  <2> QED
    BY <2>2, Runs DEF SystemInv, SystemTypeOK
<1>2. ASSUME device'.runs = device.runs, device'.sheets = device.sheets
      PROVE  [Abstract!PromiseNext]_(Abstract!abstractVars)
  <2>1. taken' = taken /\ paper' = paper
    BY <1>2
  <2>2. Unforced \/ Reported
    BY JobMoves
  <2>3. device.sheets # 0 => Offered # {}
    BY <1>1 DEF DeviceInv
  <2>4. \/ Outcome' = Outcome
        \/ Outcome = "none" /\ Outcome' = "open"
        \/ Outcome = "open" /\ Outcome' = "refunded" /\ ~paper
        \/ Outcome = "open" /\ Outcome' = "delivered" /\ taken = 1
        \/ Outcome = "open" /\ Outcome' = "recovery"
    BY <1>1, <2>2, <2>3
       DEF Outcome, Unforced, Reported, HandoverInv, OpenStatuses, SettledStatuses
  <2> HIDE DEF taken, paper
  <2> QED
    BY <2>1, <2>4 DEF taken, paper, Abstract!PromiseNext, Abstract!abstractVars, Abstract!Order,
       Abstract!Deliver, Abstract!Refund, Abstract!Recover
<1>3. ASSUME NEW token \in Tokens, DeviceTakes(token)
      PROVE  [Abstract!PromiseNext]_(Abstract!abstractVars)
  <2>1. /\ token \in device.calls /\ job' = job
        /\ device' = [device EXCEPT !.calls = device.calls \ {token},
                                    !.runs = device.runs \cup {token}, !.busy = TRUE]
    BY <1>3 DEF DeviceTakes, controlVars
  <2>2. device'.runs # {} /\ device'.sheets = device.sheets
    BY <1>1, <2>1
  <2>3. device.runs = {} /\ job.status \in {"PRINTING", "RECOVERY_REQUIRED"}
    BY <1>1, <2>1 DEF DeviceInv, HandoverInv
  <2>4. Outcome' = Outcome /\ Outcome \in {"open", "recovery"}
    BY <2>1, <2>3 DEF Outcome, OpenStatuses
  <2> QED
    BY <1>1, <2>2, <2>3, <2>4 DEF Abstract!PromiseNext, Abstract!Take
<1>4. CASE DeviceMarks
  <2>1. /\ device.busy /\ job' = job
        /\ device' = [device EXCEPT !.sheets = device.sheets + 1]
    BY <1>4 DEF DeviceMarks, controlVars
  <2>2. device'.runs = device.runs /\ device'.sheets > 0
    BY <1>1, <2>1
  <2>3. device.runs # {} /\ job.status \in {"PRINTING", "COMPLETED", "RECOVERY_REQUIRED"}
    BY <1>1, <2>1 DEF DeviceInv, HandoverInv
  <2>4. Outcome' = Outcome /\ Outcome \in {"open", "delivered", "recovery"}
    BY <2>1, <2>3 DEF Outcome, OpenStatuses
  <2> QED
    BY <1>1, <2>2, <2>3, <2>4 DEF Abstract!PromiseNext, Abstract!Emit
<1>5. CASE DeviceStops
  <2>1. device' = [device EXCEPT !.busy = FALSE]
    BY <1>5 DEF DeviceStops
  <2> QED
    BY <1>1, <1>2, <2>1
<1>6. ASSUME NEW a \in Agents, LocalStep(a)
      PROVE  device'.runs = device.runs /\ device'.sheets = device.sheets
  <2>1. CASE SweepLocalArtifacts(a)
    BY <1>1, <2>1 DEF SweepLocalArtifacts
  <2>2. CASE OpenJournal(a)
    BY <1>1, <2>2 DEF OpenJournal
  <2>3. CASE Refuse(a)
    BY <1>1, <2>3 DEF Refuse
  <2> QED
    BY <1>6, <2>1, <2>2, <2>3 DEF LocalStep, Begin, Ask, Fetch, RecordIntent, Collect, GiveUp, Crash
<1>7. CASE ControlPlane \/ WipeSpool \/ UNCHANGED vars \/ \E m \in net : ServeLate(m)
  BY <1>2, <1>7 DEF ControlPlane, agentVars, WipeSpool, vars, ServeLate
<1>8. CASE \E a \in Agents : ControlStep(a)
  BY <1>2, <1>8 DEF ControlStep, Claim, Renew, Exchange
<1> QED
  BY <1>2, <1>3, <1>4, <1>5, <1>6, <1>7, <1>8, StepKinds DEF Printer

\* Every behaviour of control plane, agent, network and printer is one of
\* PaperXorMoney: the work is given to the printer once, a print called delivered was
\* given to it, and money goes back only when no paper came and none will.
THEOREM PromiseIsKept == ASSUME OneAgent PROVE SystemSpec => KeepsPromise
<1>1. ASSUME SystemInit PROVE Abstract!PromiseInit
  <2>1. job.status = "NONE" /\ device.runs = {} /\ device.sheets = 0
    BY <1>1 DEF SystemInit, Init
  <2>2. Outcome = "none"
    BY <2>1 DEF Outcome, OpenStatuses
  <2>3. Cardinality(device.runs) = 0
    BY <2>1, FS_EmptySet
  <2>4. ~(device.sheets > 0)
    BY <2>1
  <2> QED
    BY <2>2, <2>3, <2>4 DEF Abstract!PromiseInit
<1>2. SystemInv /\ SystemInv' /\ [SystemNext]_vars
        => [Abstract!PromiseNext]_(Abstract!abstractVars)
  BY StepKeepsPromise
<1> QED
  BY <1>1, <1>2, SystemInvariance, PTL DEF SystemSpec, KeepsPromise, Abstract!Promise
=============================================================================
