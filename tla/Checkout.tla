------------------------------ MODULE Checkout ------------------------------
(***************************************************************************)
(* One print session from the first upload to the start of its print job:  *)
(* the customer's documents, the settings revisions that describe them,    *)
(* the quotes that price a revision, the payments that are made against a  *)
(* quote, and the provider callbacks, reconciler and janitor that settle   *)
(* them behind the customer's back.                                        *)
(*                                                                         *)
(* Every transaction of the code locks the session row first, so a         *)
(* transaction is one action here.  What is NOT atomic in the code is not  *)
(* atomic here: deleting a document (transaction, object store,            *)
(* transaction) while the janitor may clean the same document, and the     *)
(* janitor's unlocked read-then-write expiry of quotes.                    *)
(*                                                                         *)
(* State versions, the event and audit ledgers and idempotency replays are *)
(* left out: a stale version or a replay changes nothing.                  *)
(***************************************************************************)
EXTENDS Naturals, Sequences, FiniteSets

CONSTANTS
    Docs,             \* the documents a customer may upload
    SessionTtl,       \* min(idle, hard) lifetime of the session
    QuoteTtl,         \* quoteTtlSeconds
    PaymentTimeout,   \* paymentTimeoutSeconds
    MinWindow,        \* MINIMUM_PAYMENT_WINDOW_SECONDS
    MaxTime,          \* bound on the clock
    MaxLost,          \* bound on documents that fail or are removed
    MaxRevisions,     \* bound on settings revisions
    MaxQuotes,        \* bound on quotes
    MaxPayments       \* bound on payments

ASSUME CheckoutAssumption ==
    /\ IsFiniteSet(Docs)
    /\ SessionTtl \in Nat \ {0} /\ QuoteTtl \in Nat \ {0}
    /\ PaymentTimeout \in Nat \ {0} /\ MinWindow \in Nat \ {0}
    /\ MaxTime \in Nat /\ MaxLost \in Nat /\ MaxRevisions \in Nat
    /\ MaxQuotes \in Nat /\ MaxPayments \in Nat

VARIABLES
    now,
    session,     \* the print_sessions row: state, activeQuote, rev
    docs,        \* uploaded_files.status of each document
    asked,       \* documents with deleteRequestedAt set
    removing,    \* deletions whose API request is between its transactions
    revisions,   \* print_setting_revisions: the documents each describes
    quotes,      \* price_quotes
    doomed,      \* quotes the janitor has read as expired, not yet written
    payments,    \* payments
    inbox,       \* per payment, the capture the provider reported, if any
    refunds      \* refund obligations

documentVars == <<docs, asked, removing>>
moneyVars == <<payments, inbox, refunds>>
vars == <<now, session, docs, asked, removing, revisions, quotes,
          doomed, payments, inbox, refunds>>

-----------------------------------------------------------------------------
NoQuote == 0        \* activeQuoteId = null
NoRevision == 0     \* currentSettingsRevision = null

SessionStates == {"WAITING_FOR_UPLOAD", "FILES_UPLOADED", "CONFIGURING",
                  "AWAITING_PAYMENT", "PAID", "PRINTING", "EXPIRED", "CANCELED"}

UPLOADABLE_SESSION_STATES ==
    {"WAITING_FOR_UPLOAD", "FILES_UPLOADED", "CONFIGURING"}

\* Which state a session may move to, of the states above.
allowedTransitions ==
    [WAITING_FOR_UPLOAD |-> {"FILES_UPLOADED", "CANCELED", "EXPIRED"},
     FILES_UPLOADED |-> {"WAITING_FOR_UPLOAD", "CONFIGURING",
                         "AWAITING_PAYMENT", "CANCELED", "EXPIRED"},
     CONFIGURING |-> {"FILES_UPLOADED", "WAITING_FOR_UPLOAD",
                      "AWAITING_PAYMENT", "CANCELED", "EXPIRED"},
     AWAITING_PAYMENT |-> {"CONFIGURING", "PAID", "CANCELED", "EXPIRED"},
     PAID |-> {"PRINTING"},
     PRINTING |-> {}, EXPIRED |-> {}, CANCELED |-> {}]

EXPIRABLE_STATES == UPLOADABLE_SESSION_STATES \cup {"AWAITING_PAYMENT"}

\* PROCESSING stands for UPLOADING, QUARANTINED and VALIDATING, which the
\* checkout never tells apart (PROCESSING_FILE_STATUSES).
DocumentStates == {"NONE", "PROCESSING", "READY", "DELETE_PENDING", "DELETING",
                   "DELETED", "REJECTED"}

OPEN_STATUSES == {"PENDING", "AUTHORIZED"}
FAILURE_STATUSES == {"DECLINED", "CANCELED", "TIMED_OUT"}

\* An event's amount is the quoted one, another one, or zero.
Amounts == {"QUOTED", "OTHER", "ZERO"}

IsOpen(p) == payments[p].status \in OPEN_STATUSES
Expired == now >= SessionTtl
In(status) == {d \in Docs : docs[d] = status}

\* The bound on documents lost lets this one go.
MayLose(d) ==
    Cardinality({e \in Docs \ {d} : docs[e] \notin {"NONE", "PROCESSING", "READY"}}) < MaxLost

MinOf(a, b) == IF a < b THEN a ELSE b

-----------------------------------------------------------------------------
(***************************************************************************)
(* The helpers the services share.                                         *)
(***************************************************************************)

\* Retire the session's active quote.
InvalidatedQuotes ==
    [q \in DOMAIN quotes |->
        IF quotes[q].status = "ACTIVE"
        THEN [quotes[q] EXCEPT !.status = "INVALIDATED"] ELSE quotes[q]]

\* The session row after its pricing is retired.
Unpriced(s, clearSettingsRevision) ==
    [s EXCEPT !.activeQuote = NoQuote,
              !.rev = IF clearSettingsRevision THEN NoRevision ELSE @]

\* Close the open payment of a session that ends, unless a capture was
\* already applied to it.
ReleasedPayments ==
    IF \E p \in DOMAIN payments : payments[p].applied THEN payments
    ELSE [p \in DOMAIN payments |->
            IF IsOpen(p) THEN [payments[p] EXCEPT !.status = "CANCELED"]
            ELSE payments[p]]

\* Every document of an ended session is marked for deletion, except one that
\* is still uploading (part of PROCESSING), which keeps its own barrier.
ScheduleSessionFilesForCleanup ==
    \E uploading \in SUBSET In("PROCESSING") :
        LET marked == {d \in Docs \ uploading :
                        docs[d] \in {"PROCESSING", "READY", "DELETE_PENDING", "DELETING"}}
        IN  /\ docs' = [d \in Docs |-> IF d \in marked THEN "DELETE_PENDING" ELSE docs[d]]
            /\ asked' = asked \cup marked

EndSession(target) ==
    /\ target \in allowedTransitions[session.state]
    /\ session' = [Unpriced(session, FALSE) EXCEPT !.state = target]
    /\ payments' = ReleasedPayments
    /\ quotes' = InvalidatedQuotes
    /\ ScheduleSessionFilesForCleanup
    /\ UNCHANGED <<now, removing, revisions, doomed, inbox, refunds>>

\* A document left the session: settings and price are retired, and the
\* session steps back to the stage the remaining documents justify.
RetireSessionPricing(remaining) ==
    LET target == IF remaining # {} THEN "FILES_UPLOADED" ELSE "WAITING_FOR_UPLOAD"
        steps == /\ session.state \in {"FILES_UPLOADED", "CONFIGURING"}
                 /\ target \in allowedTransitions[session.state]
    IN  /\ session' = [Unpriced(session, TRUE)
                        EXCEPT !.state = IF steps THEN target ELSE @]
        /\ quotes' = InvalidatedQuotes

-----------------------------------------------------------------------------
(***************************************************************************)
(* Documents.                                                              *)
(***************************************************************************)

ReserveUpload(d) ==
    /\ docs[d] = "NONE"
    /\ session.state \in UPLOADABLE_SESSION_STATES
    /\ ~Expired
    /\ docs' = [docs EXCEPT ![d] = "PROCESSING"]
    /\ UNCHANGED <<now, session, asked, removing, revisions, quotes,
                   doomed, moneyVars>>

\* Mutant of CompleteProcessing: the live price survives a new document.
CompleteKeepingPrice(d) ==
    /\ docs[d] = "PROCESSING"
    /\ session.state \in UPLOADABLE_SESSION_STATES
    /\ ~Expired
    /\ docs' = [docs EXCEPT ![d] = "READY"]
    /\ session' = [session EXCEPT !.state = "FILES_UPLOADED", !.rev = NoRevision]
    /\ UNCHANGED <<now, asked, removing, revisions, quotes, doomed, moneyVars>>

\* The worker's complete(): a newly printable document voids what was
\* configured and priced before it.
CompleteProcessing(d) ==
    /\ docs[d] = "PROCESSING"
    /\ session.state \in UPLOADABLE_SESSION_STATES
    /\ ~Expired
    /\ docs' = [docs EXCEPT ![d] = "READY"]
    /\ session' = [Unpriced(session, TRUE) EXCEPT !.state = "FILES_UPLOADED"]
    /\ quotes' = InvalidatedQuotes
    /\ UNCHANGED <<now, asked, removing, revisions, doomed, moneyVars>>

\* An upload or the processing of a document fails for good, or its session
\* stopped accepting it: it waits for the janitor.
RejectDocument(d) ==
    /\ docs[d] = "PROCESSING"
    /\ MayLose(d)
    /\ docs' = [docs EXCEPT ![d] = "DELETE_PENDING"]
    /\ UNCHANGED <<now, session, asked, removing, revisions, quotes,
                   doomed, moneyVars>>

\* First transaction of a deletion.  It is not guarded by the session's state.
\* A quarantined or ready document, or one whose deletion is due again, is
\* deleted by this request; a validating one is left to the janitor, and so is
\* one whose deletion is under way or not yet due.
RemoveDocument(d) ==
    /\ docs[d] \in {"PROCESSING", "READY", "DELETE_PENDING", "DELETING"}
    /\ d \notin removing
    /\ MayLose(d)
    /\ asked' = asked \cup {d}
    /\ \/ /\ docs[d] = "PROCESSING"
          /\ docs' = [docs EXCEPT ![d] = "DELETE_PENDING"]
          /\ UNCHANGED removing
       \/ /\ docs[d] # "DELETING"
          /\ docs' = [docs EXCEPT ![d] = "DELETING"]
          /\ removing' = removing \cup {d}
       \/ /\ docs[d] \in {"DELETE_PENDING", "DELETING"}
          /\ UNCHANGED <<docs, removing>>
    /\ UNCHANGED <<now, session, revisions, quotes, doomed, moneyVars>>

\* A rejected document has no objects left: one transaction deletes it.
FinalizeRejectedDeletion(d) ==
    /\ docs[d] = "REJECTED"
    /\ docs' = [docs EXCEPT ![d] = "DELETED"]
    /\ RetireSessionPricing(In("READY"))
    /\ UNCHANGED <<now, asked, removing, revisions, doomed, moneyVars>>

\* Second transaction of a deletion, after the objects are gone.  If the
\* janitor finished the document first, there is nothing left to do.
FinalizeDeletion(d) ==
    /\ d \in removing
    /\ removing' = removing \ {d}
    /\ IF docs[d] \in {"DELETING", "DELETE_PENDING"}
       THEN /\ docs' = [docs EXCEPT ![d] = "DELETED"]
            /\ RetireSessionPricing(In("READY"))
       ELSE UNCHANGED <<docs, session, quotes>>
    /\ UNCHANGED <<now, asked, revisions, doomed, moneyVars>>

\* The object store refuses: the document is handed to the janitor.  The
\* request may also die here, leaving the document DELETING.
AbandonDeletion(d) ==
    /\ d \in removing
    /\ removing' = removing \ {d}
    /\ \/ docs' = [docs EXCEPT ![d] = IF @ = "DELETING" THEN "DELETE_PENDING" ELSE @]
       \/ UNCHANGED docs
    /\ UNCHANGED <<now, session, asked, revisions, quotes, doomed, moneyVars>>

\* The janitor's cleanPendingFiles and finishCleanup: a document that is due is
\* gone, or its objects could not be deleted and it stays due.  The session's
\* settings and price are left as they are.  Claim and finish are one step:
\* the claim only turns DELETE_PENDING into DELETING, and the finish checks the
\* row again, so whatever happens between them might as well happen before.
CleanPendingFile(d) ==
    /\ docs[d] \in {"DELETE_PENDING", "DELETING"}
    /\ docs' = [docs EXCEPT ![d] = IF d \in asked THEN "DELETED" ELSE "REJECTED"]
    /\ UNCHANGED <<now, session, asked, removing, revisions, quotes, doomed, moneyVars>>

-----------------------------------------------------------------------------
(***************************************************************************)
(* Settings and quotes.                                                    *)
(***************************************************************************)

\* Mutant of UpdateSettings: the session is pointed past the stored revision.
UpdateSettingsOffByOne ==
    /\ session.state \in {"FILES_UPLOADED", "CONFIGURING"}
    /\ ~Expired
    /\ In("READY") # {}
    /\ Len(revisions) < MaxRevisions
    /\ revisions' = Append(revisions, In("READY"))
    /\ session' = [Unpriced(session, FALSE) EXCEPT !.state = "CONFIGURING",
                                                   !.rev = Len(revisions') + 1]
    /\ quotes' = InvalidatedQuotes
    /\ UNCHANGED <<now, documentVars, doomed, moneyVars>>

\* A saved revision describes every ready document and replaces whatever was
\* priced before it.
UpdateSettings ==
    /\ session.state \in {"FILES_UPLOADED", "CONFIGURING"}
    /\ ~Expired
    /\ In("READY") # {}
    /\ Len(revisions) < MaxRevisions
    /\ revisions' = Append(revisions, In("READY"))
    /\ session' = [Unpriced(session, FALSE) EXCEPT !.state = "CONFIGURING",
                                                   !.rev = Len(revisions) + 1]
    /\ quotes' = InvalidatedQuotes
    /\ UNCHANGED <<now, documentVars, doomed, moneyVars>>

\* The current revision may be priced: nothing is in motion, and it still
\* describes exactly the documents the session holds (assertManifestUnchanged).
Quotable ==
    /\ session.state = "CONFIGURING"
    /\ ~Expired
    /\ session.rev # NoRevision
    /\ In("PROCESSING") = {}
    /\ In("READY") # {}
    /\ revisions[session.rev] = In("READY")

\* An unexpired quote of the same revision is returned again, and the
\* session's pointer repaired; otherwise the active one is superseded.
CreateQuote ==
    /\ Quotable
    /\ LET live == {q \in DOMAIN quotes : /\ quotes[q].status = "ACTIVE"
                                          /\ quotes[q].rev = session.rev
                                          /\ quotes[q].expiresAt > now}
       IN  \/ /\ live # {}
              /\ \E q \in live : session' = [session EXCEPT !.activeQuote = q]
              /\ UNCHANGED quotes
           \/ /\ live = {}
              /\ Len(quotes) < MaxQuotes
              /\ quotes' = Append(InvalidatedQuotes,
                                  [rev |-> session.rev, status |-> "ACTIVE",
                                   expiresAt |-> MinOf(now + QuoteTtl, SessionTtl)])
              /\ session' = [session EXCEPT !.activeQuote = Len(quotes) + 1]
    /\ UNCHANGED <<now, documentVars, revisions, doomed, moneyVars>>

\* expireQuotes reads, without a lock, the expired quotes nobody is paying...
ReadExpiredQuotes ==
    /\ doomed = {}
    /\ doomed' = {q \in DOMAIN quotes :
                    /\ quotes[q].status = "ACTIVE"
                    /\ quotes[q].expiresAt <= now
                    /\ ~\E p \in DOMAIN payments : IsOpen(p) /\ payments[p].quote = q}
    /\ doomed' # {}
    /\ UNCHANGED <<now, session, documentVars, revisions, quotes, moneyVars>>

\* ... and later settles those that are still active.
ExpireQuotes ==
    /\ doomed # {}
    /\ doomed' = {}
    /\ quotes' = [q \in DOMAIN quotes |->
                    IF q \in doomed /\ quotes[q].status = "ACTIVE"
                    THEN [quotes[q] EXCEPT !.status = "EXPIRED"] ELSE quotes[q]]
    /\ session' = [session EXCEPT !.activeQuote = IF @ \in doomed THEN NoQuote ELSE @]
    /\ UNCHANGED <<now, documentVars, revisions, moneyVars>>

-----------------------------------------------------------------------------
(***************************************************************************)
(* Payments.                                                               *)
(***************************************************************************)

\* The earliest of the payment timeout, the quote's and the session's expiry.
PaymentDeadline(quote) ==
    MinOf(now + PaymentTimeout, MinOf(quote.expiresAt, SessionTtl))

\* Create a payment for the session's active quote.  The quote's own expiry is
\* enforced only through the window that is left.
CreatePayment(q) ==
    /\ session.state = "CONFIGURING"
    /\ ~Expired
    /\ ~\E p \in DOMAIN payments : IsOpen(p)
    /\ In("PROCESSING") = {}
    /\ quotes[q].status = "ACTIVE"
    /\ session.activeQuote = q
    /\ session.rev = quotes[q].rev
    /\ PaymentDeadline(quotes[q]) >= now + MinWindow
    /\ Len(payments) < MaxPayments
    /\ \E status \in OPEN_STATUSES :   \* as the provider answers createIntent
         payments' = Append(payments, [quote |-> q, status |-> status, applied |-> FALSE,
                                       expiresAt |-> PaymentDeadline(quotes[q])])
    /\ inbox' = Append(inbox, "NONE")
    /\ session' = [session EXCEPT !.state = "AWAITING_PAYMENT"]
    /\ UNCHANGED <<now, documentVars, revisions, quotes, doomed, refunds>>

\* The provider may answer a confirmation with AUTHORIZED.
ConfirmPayment(p) ==
    /\ payments[p].status = "PENDING"
    /\ now < payments[p].expiresAt
    /\ payments' = [payments EXCEPT ![p].status = "AUTHORIZED"]
    /\ UNCHANGED <<now, session, documentVars, revisions, quotes, doomed, inbox, refunds>>

\* A session that was awaiting a payment which came to nothing.
ReleasedSession ==
    [session EXCEPT !.state = IF @ = "AWAITING_PAYMENT" THEN "CONFIGURING" ELSE @]

\* A capture is final, and a declined payment keeps its status.
RecordCapture(p, applied) ==
    payments' = IF payments[p].status \in {"CAPTURED", "DECLINED"} THEN payments
                ELSE [payments EXCEPT ![p].status = "CAPTURED", ![p].applied = applied]

\* One obligation per payment and reason, none for a capture of nothing.
RecordCompensation(p, reason, amount) ==
    refunds' = IF amount = "ZERO" THEN refunds
               ELSE refunds \cup {[payment |-> p, reason |-> reason]}

\* The provider reports a capture for a payment, any number of times and at
\* any time, and always for the amount it really took.
Reported(p, amount) ==
    /\ inbox[p] \in {"NONE", amount}
    /\ inbox' = [inbox EXCEPT ![p] = amount]

\* The provider settled something other than the quoted total.
CaptureMismatch(p, amount) ==
    /\ amount # "QUOTED"
    /\ Reported(p, amount)
    /\ RecordCapture(p, FALSE)
    /\ RecordCompensation(p, "AMOUNT_MISMATCH", amount)
    /\ session' = ReleasedSession
    /\ UNCHANGED <<now, documentVars, revisions, quotes, doomed>>

\* Mutant of Effective: the payment's own status is not looked at.
EffectiveWhileAwaiting(p) ==
    LET quote == quotes[payments[p].quote]
    IN  /\ session.state = "AWAITING_PAYMENT"
        /\ payments[p].expiresAt > now
        /\ quote.status = "ACTIVE"
        /\ quote.expiresAt > now

\* A capture fulfils the session only if the payment is open and in its
\* window, the session awaits it, and its price is live.
Effective(p) ==
    LET quote == quotes[payments[p].quote]
    IN  /\ IsOpen(p)
        /\ session.state = "AWAITING_PAYMENT"
        /\ payments[p].expiresAt > now
        /\ quote.status = "ACTIVE"
        /\ quote.expiresAt > now

ApplyCapture(p) ==
    /\ Effective(p)
    /\ Reported(p, "QUOTED")
    /\ RecordCapture(p, TRUE)
    /\ quotes' = [quotes EXCEPT ![payments[p].quote].status = "CONSUMED"]
    /\ session' = [session EXCEPT !.state = "PAID"]
    /\ UNCHANGED <<now, documentVars, revisions, doomed, refunds>>

\* Any other capture is money owed back; a repeated one changes nothing.
CompensateCapture(p) ==
    /\ ~Effective(p)
    /\ payments[p].status # "CAPTURED"
    /\ Reported(p, "QUOTED")
    /\ RecordCapture(p, FALSE)
    /\ RecordCompensation(p, "LATE_CAPTURE", "QUOTED")
    /\ session' = ReleasedSession
    /\ UNCHANGED <<now, documentVars, revisions, quotes, doomed>>

\* A decline, cancellation or timeout callback: a settled payment ignores it.
ApplyFailure(p, status) ==
    /\ IsOpen(p)
    /\ payments' = [payments EXCEPT ![p].status = status]
    /\ session' = ReleasedSession
    /\ UNCHANGED <<now, documentVars, revisions, quotes, doomed, inbox, refunds>>

\* The reconciler's timeOut.  The provider was asked before the transaction,
\* so its answer may be stale: nothing but the payment's row is checked again.
TimeOutPayment(p) ==
    /\ IsOpen(p)
    /\ payments[p].expiresAt <= now
    /\ payments' = [payments EXCEPT ![p].status = "TIMED_OUT"]
    /\ session' = ReleasedSession
    /\ UNCHANGED <<now, documentVars, revisions, quotes, doomed, inbox, refunds>>

-----------------------------------------------------------------------------
(***************************************************************************)
(* The end of the session.                                                 *)
(***************************************************************************)

CancelSession ==
    /\ ~Expired
    /\ ~\E p \in DOMAIN payments : payments[p].applied
    /\ EndSession("CANCELED")

\* Mutant of ExpireSession: a session being paid is never expired.
ExpireUnlessPaying ==
    /\ Expired
    /\ session.state \in UPLOADABLE_SESSION_STATES
    /\ EndSession("EXPIRED")

\* The janitor, and a new session at the same kiosk, expire an overdue one.
ExpireSession ==
    /\ Expired
    /\ session.state \in EXPIRABLE_STATES
    /\ EndSession("EXPIRED")

\* The documents the applied capture paid for.
PaidDocuments ==
    UNION {revisions[quotes[payments[p].quote].rev] :
            p \in {i \in DOMAIN payments : payments[i].applied}}

\* A print job is created from the applied capture and exactly the documents
\* it paid for (resolveDocuments refuses anything else).
StartPrinting ==
    /\ session.state = "PAID"
    /\ \A d \in PaidDocuments : docs[d] = "READY"
    /\ session' = [session EXCEPT !.state = "PRINTING"]
    /\ UNCHANGED <<now, documentVars, revisions, quotes, doomed, moneyVars>>

Tick == /\ now < MaxTime
        /\ now' = now + 1
        /\ UNCHANGED <<session, documentVars, revisions, quotes, doomed, moneyVars>>

-----------------------------------------------------------------------------
Init ==
    /\ now = 0
    /\ session = [state |-> "WAITING_FOR_UPLOAD", activeQuote |-> NoQuote, rev |-> NoRevision]
    /\ docs = [d \in Docs |-> "NONE"]
    /\ asked = {} /\ removing = {} /\ doomed = {}
    /\ revisions = <<>> /\ quotes = <<>> /\ payments = <<>> /\ inbox = <<>>
    /\ refunds = {}

\* Once the session has ended or prints, its documents are retention's: what
\* happens to them changes nothing that is modelled here.
DocumentNext ==
    /\ session.state \in EXPIRABLE_STATES \cup {"PAID"}
    /\ \E d \in Docs : \/ ReserveUpload(d) \/ CompleteProcessing(d) \/ RejectDocument(d)
                       \/ RemoveDocument(d) \/ FinalizeRejectedDeletion(d)
                       \/ FinalizeDeletion(d) \/ AbandonDeletion(d)
                       \/ CleanPendingFile(d)

PricingNext == \/ UpdateSettings \/ CreateQuote \/ ReadExpiredQuotes \/ ExpireQuotes
               \/ \E q \in DOMAIN quotes : CreatePayment(q)

PaymentNext ==
    \E p \in DOMAIN payments :
        \/ ConfirmPayment(p) \/ ApplyCapture(p) \/ CompensateCapture(p)
        \/ \E amount \in Amounts : CaptureMismatch(p, amount)
        \/ \E status \in FAILURE_STATUSES : ApplyFailure(p, status)
        \/ TimeOutPayment(p)

Next == \/ DocumentNext \/ PricingNext \/ PaymentNext
        \/ CancelSession \/ ExpireSession \/ StartPrinting \/ Tick

\* The clock runs, and the janitor's timer keeps expiring overdue sessions.
CheckoutSpec ==
    Init /\ [][Next]_vars /\ WF_vars(Tick) /\ WF_vars(ExpireSession)

-----------------------------------------------------------------------------
(***************************************************************************)
(* Properties.                                                             *)
(***************************************************************************)

\* Types of the rows (schema.prisma and its CHECK constraints).
CheckoutTypeOK ==
    /\ now \in 0 .. MaxTime
    /\ session \in [state : SessionStates, activeQuote : 0 .. MaxQuotes,
                    rev : 0 .. MaxRevisions]
    /\ docs \in [Docs -> DocumentStates]
    /\ asked \subseteq Docs /\ removing \subseteq Docs
    /\ revisions \in Seq(SUBSET Docs) /\ Len(revisions) <= MaxRevisions
    /\ quotes \in Seq([rev : 1 .. MaxRevisions,
                       status : {"ACTIVE", "INVALIDATED", "EXPIRED", "CONSUMED"},
                       expiresAt : Nat])
    /\ Len(quotes) <= MaxQuotes
    /\ doomed \subseteq 1 .. MaxQuotes
    /\ payments \in Seq([quote : 1 .. MaxQuotes,
                         status : OPEN_STATUSES \cup FAILURE_STATUSES \cup {"CAPTURED"},
                         applied : BOOLEAN, expiresAt : Nat])
    /\ Len(payments) <= MaxPayments
    /\ inbox \in Seq(Amounts \cup {"NONE"}) /\ Len(inbox) = Len(payments)
    /\ refunds \subseteq [payment : 1 .. MaxPayments,
                          reason : {"LATE_CAPTURE", "AMOUNT_MISMATCH"}]

\* A session is paid exactly when one capture, and only one, was applied to it
\* (payments_one_applied_capture_per_session_idx): captures of older payments,
\* mismatched and repeated callbacks never pay it a second time, and no path
\* loses the capture that did.
PaidByOneCapture ==
    Cardinality({p \in DOMAIN payments : payments[p].applied})
        = IF session.state \in {"PAID", "PRINTING"} THEN 1 ELSE 0

\* Every capture the provider reported for some money either fulfils the
\* session or is owed back, never both and never twice ("a capture that
\* arrives too late becomes money owed back rather than silence").
CaptureIsAppliedOrOwed ==
    \A p \in DOMAIN payments :
        Cardinality({r \in refunds : r.payment = p})
            = IF inbox[p] \in {"NONE", "ZERO"} \/ payments[p].applied THEN 0 ELSE 1

\* A session that ended holds neither an open payment nor a payable price.
EndedSessionOwesNothing ==
    session.state \in {"CANCELED", "EXPIRED"} =>
        /\ \A p \in DOMAIN payments : ~IsOpen(p)
        /\ \A q \in DOMAIN quotes : quotes[q].status # "ACTIVE"

\* Whatever the customer, the provider and the janitor do, and in whatever
\* order, the money that changed hands is accounted for.
MoneyIsAccounted ==
    PaidByOneCapture /\ CaptureIsAppliedOrOwed /\ EndedSessionOwesNothing

\* There is at most one payable price, the session points at no other, and it
\* prices the current settings revision: no order of saves, uploads, quotes
\* and expiries leaves a price for settings the customer has replaced.
PriceFollowsSettings ==
    \A q \in DOMAIN quotes :
        quotes[q].status = "ACTIVE" => session.rev = quotes[q].rev /\ session.activeQuote = q

\* However the customer, the provider, the phone and the janitor behave, the
\* session reaches an end: it never waits for a payment for ever.
SessionEnds == <>(session.state \in {"PAID", "PRINTING", "EXPIRED", "CANCELED"})

\* What the code says of a session that is being paid: while a payment is
\* open, the session is locked in AWAITING_PAYMENT ("once a price is being
\* paid, the set of documents it was quoted for is fixed").
OpenPaymentLocksSession ==
    (\E p \in DOMAIN payments : IsOpen(p)) => session.state = "AWAITING_PAYMENT"

\* What the code says of a paid session: it holds the documents it was priced
\* for ("The document must still be exactly the one that was priced and paid
\* for"), so its print job can be created.
PaidIsPrintable ==
    session.state = "PAID" => \A d \in PaidDocuments : docs[d] = "READY"
=============================================================================
