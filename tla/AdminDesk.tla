----------------------------- MODULE AdminDesk ------------------------------
(***************************************************************************)
(* What people change through the control plane: the tariff (changes.ts),  *)
(* the account of a print in recovery and the refund it justifies          *)
(* (operations.ts, refunds.ts), and the paper estimate (operations.ts,     *)
(* database/kiosk-paper.ts).                                               *)
(*                                                                         *)
(* These transactions run at the database's default isolation: each one    *)
(* reads, and later writes under whatever index, trigger or condition the  *)
(* write itself carries.  A clerk's transaction is open between the two.   *)
(* A refusal rolls back, so it is the transaction that changes nothing; a  *)
(* lost answer is the same request made again.  The three desks touch      *)
(* disjoint rows: each has its own next-state relation.  A digest is the   *)
(* value it is taken of.                                                   *)
(***************************************************************************)
EXTENDS Integers, Sequences, FiniteSets, SequencesExt

CONSTANTS
  Clerks,         \* people at the desk
  Operators,      \* those of them who are operators
  MaxVersions,    \* bound on the tariff names in use
  Prices,         \* what a tariff may charge
  Reported,       \* the outcomes people report
  MaxAccounts,    \* bound on records of one print in recovery
  Captured,       \* what the print's payment took
  PaperKeys,      \* request keys of paper changes
  PaperBodies,    \* the paper changes asked for: a kind and a count
  MaxPrints,      \* bound on prints that take paper
  PaperMax        \* PAPER_ESTIMATE_MAX_SHEETS

Outcomes == {"DELIVERED", "PARTIALLY_DELIVERED", "NOT_DELIVERED", "UNRESOLVABLE"}

ASSUME DeskAssumption ==
  /\ IsFiniteSet(Clerks) /\ Operators \subseteq Clerks
  /\ MaxVersions \in Nat /\ Prices \subseteq Nat /\ Prices # {}
  /\ MaxAccounts \in Nat \ {0}
  /\ Reported \subseteq Outcomes
  /\ Captured \in Nat /\ IsFiniteSet(PaperKeys) /\ PaperMax \in Nat
  /\ PaperBodies \subseteq {"REFILL", "CORRECTION"} \X (0..PaperMax)
  /\ MaxPrints \in Nat

VARIABLES
  tariff,      \* the one PUBLISHED rule set
  archive,     \* the ARCHIVED ones
  executions,  \* admin_change_executions, in commit order
  form,        \* per clerk: a previewed change on the screen, or NoForm
  job,         \* the print job's status
  account,     \* its observation and the corrections to it, in commit order
  payouts,     \* its refund authorizations, each with its refund
  scope,       \* operators with a live assignment to the kiosk
  paper,       \* the estimate, or Untracked
  applied,     \* paper requests and deductions, in commit order
  tx           \* per clerk: the open transaction, or NoTx

deskVars == <<tariff, archive, executions, form, job, account, payouts,
              scope, paper, applied, tx>>

NoForm == [payload |-> "none"]
NoTx == [act |-> "none"]
Untracked == -1

tariffVars == <<tariff, archive, executions, form>>
recoveryVars == <<job, account, payouts, scope>>
paperVars == <<paper, applied>>

Tariffs == [version : 0..MaxVersions, price : Prices]
JobStatuses == {"DISPATCHED", "COMPLETED", "RECOVERY_REQUIRED"}

DeskTypeOK ==
  /\ tariff \in Tariffs /\ archive \subseteq Tariffs
  /\ executions \in Seq([by : Clerks, result : Tariffs, baseline : Tariffs])
  /\ \A c \in Clerks : form[c] = NoForm \/
       form[c] \in [payload : Tariffs, shown : Tariffs, baseline : Tariffs]
  /\ job \in JobStatuses /\ scope \subseteq Operators
  /\ account \in Seq([outcome : Outcomes, supersedes : 0..MaxAccounts])
  /\ Len(account) <= MaxAccounts
  /\ payouts \subseteq [amount : 1..Captured, cites : 1..MaxAccounts, by : Clerks]
  /\ paper \in Untracked..PaperMax
  /\ DOMAIN tx = Clerks

DeskInit ==
  /\ tariff = [version |-> 0, price |-> CHOOSE p \in Prices : TRUE]
  /\ archive = {} /\ executions = <<>> /\ form = [c \in Clerks |-> NoForm]
  /\ job = "DISPATCHED" /\ account = <<>> /\ payouts = {} /\ scope = Operators
  /\ paper = Untracked /\ applied = <<>>
  /\ tx = [c \in Clerks |-> NoTx]

Begin(c, t) == tx[c] = NoTx /\ tx' = [tx EXCEPT ![c] = t]
End(c) == tx' = [tx EXCEPT ![c] = NoTx]

-----------------------------------------------------------------------------
(* The tariff *)

\* Prices a change out and hands its two digests to the screen.
preview(c, payload) ==
  /\ tx[c] = NoTx
  /\ form' = [form EXCEPT ![c] =
       [payload |-> payload, shown |-> payload, baseline |-> tariff]]
  /\ UNCHANGED <<tariff, archive, executions, tx>>

\* The form is edited, and confirmed without another preview.
EditForm(c, payload) ==
  /\ form[c] # NoForm /\ tx[c] = NoTx
  /\ form' = [form EXCEPT ![c].payload = payload]
  /\ UNCHANGED <<tariff, archive, executions, tx>>

\* Everything publish reads: CHANGE_NOT_PREVIEWED, CHANGE_BASELINE_MOVED and
\* PRICING_VERSION_TAKEN are the three ways not to get here.
publish(c) ==
  /\ form[c] # NoForm
  /\ form[c].payload = form[c].shown
  /\ form[c].baseline = tariff
  /\ form[c].payload.version # tariff.version
  /\ Begin(c, [act |-> "publish", payload |-> form[c].payload,
               replaces |-> tariff, baseline |-> form[c].baseline])
  /\ UNCHANGED tariffVars

VersionsInUse == {t.version : t \in archive \cup {tariff}}

\* Mutant: the old tariff is archived whatever its status is by now.
publishedUnconditionally(c) ==
  /\ tx[c].act = "publish" /\ End(c)
  /\ IF tx[c].payload.version \notin VersionsInUse
     THEN /\ archive' = archive \cup {tariff}
          /\ tariff' = tx[c].payload
          /\ executions' = Append(executions,
               [by |-> c, result |-> tx[c].payload, baseline |-> tx[c].baseline])
     ELSE UNCHANGED <<tariff, archive, executions>>
  /\ UNCHANGED form

\* The writes: the draft's version is unique, and the archival asks that the
\* tariff which was read is still the published one.
published(c) ==
  /\ tx[c].act = "publish" /\ End(c)
  /\ IF tx[c].payload.version \notin VersionsInUse /\ tx[c].replaces = tariff
     THEN /\ archive' = archive \cup {tariff}
          /\ tariff' = tx[c].payload
          /\ executions' = Append(executions,
               [by |-> c, result |-> tx[c].payload, baseline |-> tx[c].baseline])
     ELSE UNCHANGED <<tariff, archive, executions>>
  /\ UNCHANGED form

TariffNext ==
  /\ \E c \in Clerks \ Operators :
       \/ \E p \in [version : 1..MaxVersions, price : Prices] :
            preview(c, p) \/ EditForm(c, p)
       \/ publish(c) \/ published(c)
  /\ UNCHANGED <<recoveryVars, paperVars>>

-----------------------------------------------------------------------------
(* Recovery: what somebody saw, what somebody corrected, what is owed *)

\* The device's verdict, which the desk cannot change.
JobSettles ==
  /\ job = "DISPATCHED" /\ job' \in {"COMPLETED", "RECOVERY_REQUIRED"}
  /\ UNCHANGED <<account, payouts, scope, tx>>

\* assignKiosk, grantScope and revokeScope: idempotent either way.
assignKiosk(c, o, granted) ==
  /\ c \notin Operators
  /\ scope' = IF granted THEN scope \cup {o} ELSE scope \ {o}
  /\ UNCHANGED <<job, account, payouts, tx>>

mayActOnKiosk(c) == c \in Operators => c \in scope

suggestsRefund(outcome) == outcome \in {"PARTIALLY_DELIVERED", "NOT_DELIVERED"}

\* Follows the corrections from the observation on; its length bounds the walk.
effectiveObservation ==
  LET next(i) == {j \in DOMAIN account : account[j].supersedes = i}
      walk[n \in 0..Len(account)] ==
        IF n = 0 THEN 1
        ELSE IF next(walk[n - 1]) = {} THEN walk[n - 1]
        ELSE CHOOSE j \in next(walk[n - 1]) :
               \A k \in next(walk[n - 1]) : k <= j
  IN walk[Len(account) - 1]

\* The print awaits a decision about money.
Undecided == job = "RECOVERY_REQUIRED" /\ payouts = {} /\ account # <<>>

toRefundQueueCandidate ==
  LET outcome == account[effectiveObservation].outcome
  IN  CASE outcome = "UNRESOLVABLE" -> "unresolvable"
        [] suggestsRefund(outcome) -> "suggested"
        [] OTHER -> "none"

refundQueueEntry == IF Undecided THEN toRefundQueueCandidate ELSE "none"

\* What the totals count the print under: an uncorrected one by what was stored
\* with its observation, a corrected one by its account in force.
refundQueueTotals ==
  IF ~Undecided THEN {}
  ELSE IF Len(account) = 1
  THEN {r \in {"suggested", "unresolvable"} :
          IF r = "suggested" THEN suggestsRefund(account[1].outcome)
          ELSE account[1].outcome = "UNRESOLVABLE"}
  ELSE {toRefundQueueCandidate} \ {"none"}

resolvePrintRecovery(c, outcome) ==
  /\ mayActOnKiosk(c) /\ account = <<>> /\ job = "RECOVERY_REQUIRED"
  /\ Begin(c, [act |-> "resolve", outcome |-> outcome])
  /\ UNCHANGED recoveryVars

\* One observation per print, by index.
printRecoveryResolved(c) ==
  /\ tx[c].act = "resolve" /\ End(c)
  /\ account' = IF account = <<>>
                THEN <<[outcome |-> tx[c].outcome, supersedes |-> 0]>>
                ELSE account
  /\ UNCHANGED <<job, payouts, scope>>

\* The record named is the one on the clerk's screen, however old.
correctPrintRecovery(c, supersedesId, outcome) ==
  /\ c \notin Operators /\ supersedesId \in DOMAIN account
  /\ \A i \in DOMAIN account : account[i].supersedes # supersedesId
  /\ effectiveObservation = supersedesId
  /\ Len(account) < MaxAccounts
  /\ Begin(c, [act |-> "correct", outcome |-> outcome,
               supersedes |-> supersedesId])
  /\ UNCHANGED recoveryVars

\* One correction per record, by index.
printRecoveryCorrected(c) ==
  /\ tx[c].act = "correct" /\ End(c)
  /\ account' = IF \A i \in DOMAIN account :
                     account[i].supersedes # tx[c].supersedes
                THEN Append(account, [outcome |-> tx[c].outcome,
                                      supersedes |-> tx[c].supersedes])
                ELSE account
  /\ UNCHANGED <<job, payouts, scope>>

Owed == IF payouts = {} THEN 0
        ELSE FoldSet(LAMBDA p, sum : p.amount + sum, 0, payouts)

authorizeRefund(c, amount) ==
  /\ c \notin Operators /\ job = "RECOVERY_REQUIRED"
  /\ payouts = {} /\ account # <<>>
  /\ account[effectiveObservation].outcome # "DELIVERED"
  /\ amount <= Captured - Owed
  /\ Begin(c, [act |-> "refund", amount |-> amount,
               cites |-> effectiveObservation])
  /\ UNCHANGED recoveryVars

\* refunds_assert_recovery_bounds, the index on (payment, reason) and the one
\* on the print job.
refundAuthorized(c) ==
  /\ tx[c].act = "refund" /\ End(c)
  /\ payouts' = IF payouts = {} /\ tx[c].amount + Owed <= Captured
                THEN {[amount |-> tx[c].amount, cites |-> tx[c].cites, by |-> c]}
                ELSE payouts
  /\ UNCHANGED <<job, account, scope>>

RecoveryNext ==
  /\ \/ JobSettles
     \/ \E c \in Clerks :
          \/ \E o \in Operators, g \in BOOLEAN : assignKiosk(c, o, g)
          \/ \E o \in Reported :
               \/ resolvePrintRecovery(c, o)
               \/ \E i \in 1..MaxAccounts : correctPrintRecovery(c, i, o)
          \/ \E a \in 1..(Captured + 1) : authorizeRefund(c, a)
          \/ printRecoveryResolved(c) \/ printRecoveryCorrected(c)
          \/ refundAuthorized(c)
  /\ UNCHANGED <<tariffVars, paperVars>>

-----------------------------------------------------------------------------
(* Paper *)

\* The request a key stands for; the same key with anything else is refused.
PaperRequest(k, kind, sheets, c) ==
  [key |-> k, kind |-> kind, sheets |-> sheets, by |-> c]

AlreadyApplied(k) == \E i \in DOMAIN applied : applied[i].key = k

readKioskPaperEstimate == IF paper = Untracked THEN 0 ELSE paper

\* addKioskPaper and correctKioskPaper: the scope, the key, the ceiling.
recordKioskPaperChange(c, k, kind, sheets) ==
  /\ mayActOnKiosk(c) /\ ~AlreadyApplied(k)
  /\ kind = "REFILL" => readKioskPaperEstimate + sheets <= PaperMax
  /\ Begin(c, [act |-> "paper", request |-> PaperRequest(k, kind, sheets, c)])
  /\ UNCHANGED paperVars

Counted(before, r) ==
  CASE r.kind = "REFILL" ->
         (IF before = Untracked THEN 0 ELSE before) + r.sheets
    [] r.kind = "CORRECTION" -> r.sheets
    [] r.kind = "DEDUCTION" ->
         IF before = Untracked \/ before < r.sheets
         THEN (IF before = Untracked THEN Untracked ELSE 0)
         ELSE before - r.sheets

\* One upsert, the claimed key and the check on the column, or nothing.
kioskPaperChanged(c) ==
  /\ tx[c].act = "paper" /\ End(c)
  /\ LET after == Counted(paper, tx[c].request) IN
       IF ~AlreadyApplied(tx[c].request.key) /\ after <= PaperMax
       THEN paper' = after /\ applied' = Append(applied, tx[c].request)
       ELSE UNCHANGED paperVars

\* A confirmed print takes its sheets, under the row's lock.
applyKioskPaperDeduction(sheets) ==
  /\ Len(SelectSeq(applied, LAMBDA r : r.kind = "DEDUCTION")) < MaxPrints
  /\ LET r == [key |-> "print", kind |-> "DEDUCTION", sheets |-> sheets]
     IN paper' = Counted(paper, r) /\ applied' = Append(applied, r)
  /\ UNCHANGED tx

PaperNext ==
  /\ \/ \E c \in Clerks :
          \/ \E k \in PaperKeys, b \in PaperBodies :
               recordKioskPaperChange(c, k, b[1], b[2])
          \/ kioskPaperChanged(c)
     \/ \E n \in 1..2 : applyKioskPaperDeduction(n)
  /\ UNCHANGED <<tariffVars, recoveryVars>>

\* The three desks at once.
DeskNext == TariffNext \/ RecoveryNext \/ PaperNext
DeskSpec == DeskInit /\ [][DeskNext]_deskVars

-----------------------------------------------------------------------------
(* Properties *)

\* Every tariff replaced the very tariff its publisher had been shown, and
\* the chain of publications has no fork and no gap, however many people
\* preview, edit, publish and publish again at once (publish's digests and
\* its conditional archival).
TariffChainUnbroken ==
  /\ \A i \in 2..Len(executions) :
       executions[i].baseline = executions[i - 1].result
  /\ executions # <<>> => executions[Len(executions)].result = tariff
  /\ Cardinality(archive) = Len(executions)

\* The records about a print form one chain: the account in force, which the
\* walk finds, is the last one written, and no two people corrected the same
\* record (correctPrintRecovery, effectiveObservation).
OneAccountInForce ==
  account # <<>> =>
    /\ effectiveObservation = Len(account)
    /\ \A i, j \in DOMAIN account :
         account[i].supersedes = account[j].supersedes => i = j

\* At most one payout per print, within what was captured, and on the strength
\* of a record about this print that does not say it was delivered
\* (authorizeRefund with refunds_recovery_bounds).
PayoutRestsOnEvidence ==
  /\ Cardinality(payouts) <= 1 /\ Owed <= Captured
  /\ \A p \in payouts : p.cites \in DOMAIN account
                        /\ account[p.cites].outcome # "DELIVERED"

\* The worklist leaves nobody out: a print is listed exactly while somebody may
\* authorize a payout for it, and its totals count what it lists
\* (refundQueue, refundQueueTotals).
QueueIsTheWorklist ==
  /\ refundQueueEntry # "none" <=>
       Undecided /\ account[effectiveObservation].outcome # "DELIVERED"
  /\ refundQueueTotals = {refundQueueEntry} \ {"none"}

\* What happened to a print, what is owed for it and what the desk is asked to
\* decide agree, whoever resolves, corrects and authorizes at once.
RecoveryIsAccounted ==
  OneAccountInForce /\ PayoutRestsOnEvidence /\ QueueIsTheWorklist

\* The estimate is the outcome of the recorded changes in the order in which
\* they were committed: a refill that races a print is neither lost nor
\* counted twice, nor is one that is sent again (recordKioskPaperChange).
PaperCountsEachRequestOnce ==
  /\ LET recount[n \in 0..Len(applied)] ==
           IF n = 0 THEN Untracked ELSE Counted(recount[n - 1], applied[n])
     IN paper = recount[Len(applied)]
  /\ \A i, j \in DOMAIN applied :
       applied[i].kind # "DEDUCTION" /\ applied[j].kind # "DEDUCTION"
       /\ applied[i].key = applied[j].key => i = j

\* What the desks keep is what was decided at them, once each, however many
\* people work at them.
DeskIsAccounted ==
  DeskTypeOK /\ TariffChainUnbroken /\ RecoveryIsAccounted /\ PaperCountsEachRequestOnce
=============================================================================
