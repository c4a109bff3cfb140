---------------------------- MODULE KioskScreen ------------------------------
(***************************************************************************)
(* The touchscreen during a visit: the session reducer (model.ts), the     *)
(* hook that prices what is on screen (usePricing.ts), the screens with    *)
(* what they ask and where they lead (ConfigureScreen, CheckoutScreen,     *)
(* StatusScreens), the layout's events, cancellation and idle timer, and   *)
(* the snapshot a reload resumes from (fulfillmentPersistence.ts).         *)
(*                                                                         *)
(* The control plane is here what its answers are: it owns documents, one  *)
(* settings revision, the live quote, payments and the job.  A request is  *)
(* in flight for as long as it likes and is then carried out and answered  *)
(* in one step, or carried out and lost, or never carried out.             *)
(*                                                                         *)
(* A configuration is the function from the printable documents to their   *)
(* choices; a settings revision, a quote and a payment are known by it.    *)
(* The choices of a document (range, exclusions, copies, sides) are one    *)
(* value, 1 being the untouched default.                                   *)
(***************************************************************************)
EXTENDS Integers, Sequences, FiniteSets

CONSTANTS
  Documents,    \* documents a phone may send
  Variants,      \* what a document may be printed as; 1 is the default
  MaxRuns,      \* bound on pricing runs in flight
  MaxQuotes,    \* bound on quotes issued
  MaxPayments,  \* bound on payments
  MaxTurns      \* bound on visits

ASSUME ScreenAssumption ==
  /\ IsFiniteSet(Documents) /\ 1 \in Variants
  /\ MaxRuns \in Nat /\ MaxQuotes \in Nat /\ MaxPayments \in Nat /\ MaxTurns \in Nat

VARIABLES
  plane,   \* the control plane's rows of the current visit
  kiosk,   \* the reducer's state
  page,    \* the route shown
  pricer,  \* usePricing's remembered revision and its runs in flight
  paying,  \* payment requests in flight
  listing  \* a file listing read and not yet shown

screenVars == <<plane, kiosk, page, pricer, paying, listing>>

None == <<>>                              \* no configuration
NoListing == <<>>

FileStatus == {"ABSENT", "VALIDATING", "READY", "REJECTED", "DELETED"}
Settled == {"CAPTURED", "COMPENSATED", "DECLINED", "CANCELED"}
JobSettled == {"COMPLETED", "FAILED", "RECOVERY_REQUIRED"}

-----------------------------------------------------------------------------
(* The reducer *)

ReadyIn(files) == {d \in Documents : files[d] = "READY"}
Shown(k) == [d \in ReadyIn(k.files) |-> k.selections[d]]

canLeaveUpload(files) ==
  /\ ReadyIn(files) # {}
  /\ \A d \in Documents : files[d] \in {"ABSENT", "READY", "DELETED"}

idlePricing == [status |-> "IDLE", for |-> None, quote |-> 0]
idlePayment == [id |-> 0, seen |-> "none", attempt |-> 1, error |-> FALSE]
idlePrint == [seen |-> "none", failure |-> "none"]
initialState ==
  [session |-> FALSE, files |-> [d \in Documents |-> "ABSENT"],
   selections |-> [d \in Documents |-> 1],
   pricing |-> idlePricing, payment |-> idlePayment, print |-> idlePrint]

nextPaymentAttempt(p) ==
  IF p.id = 0 /\ ~p.error THEN p ELSE [idlePayment EXCEPT !.attempt = p.attempt + 1]

\* A document that left, or was not printable before, takes its choices with it.
retainSelections(k, files) ==
  [d \in Documents |->
     IF d \in ReadyIn(files) \cap ReadyIn(k.files) THEN k.selections[d] ELSE 1]

Repriced(k) == [k EXCEPT !.pricing = idlePricing, !.payment = nextPaymentAttempt(@)]

\* FILES_SYNCED
FilesSynced(k, files) ==
  LET kept == [k EXCEPT !.files = files, !.selections = retainSelections(k, files)]
  IN  IF ReadyIn(files) = ReadyIn(k.files) THEN kept ELSE Repriced(kept)

\* FILE_REMOVED
FileRemoved(k, d) ==
  LET files == [k.files EXCEPT ![d] = "ABSENT"]
  IN  Repriced([k EXCEPT !.files = files, !.selections = retainSelections(k, files)])

\* FILE_SELECTION_CHANGED and PAGE_EXCLUSION_CHANGED
SelectionChanged(k, d, c) == Repriced([k EXCEPT !.selections[d] = c])

PricingPending(k) == [k EXCEPT !.pricing.status = "PENDING"]
PricingResolved(k, cfg, q) ==
  [k EXCEPT !.pricing = [status |-> "READY", for |-> cfg, quote |-> q]]
PricingFailed(k) == [k EXCEPT !.pricing = [idlePricing EXCEPT !.status = "FAILED"]]

\* PAYMENT_STARTED and PAYMENT_OBSERVED
PaymentObserved(k, p, status) ==
  [k EXCEPT !.payment = [id |-> p, seen |-> status, attempt |-> @.attempt, error |-> FALSE]]
PrintObserved(k, status) == [k EXCEPT !.print = [seen |-> status, failure |-> "none"]]

-----------------------------------------------------------------------------
(* The routes *)

isQuotePayable(k) == k.pricing.quote # 0 /\ k.pricing.quote \notin plane.late
successful(k) == k.payment.seen = "CAPTURED"

\* Where a screen's guards lead when it cannot show what it is for.
Redirect(k, at) ==
  LET documents == ReadyIn(k.files) # {}
      configure == IF canLeaveUpload(k.files) THEN "/configure" ELSE "/upload"
      checkout == IF ~documents THEN "/upload"
                  ELSE IF k.pricing.for = None \/ ~isQuotePayable(k) THEN configure
                  ELSE "/checkout"
  IN CASE ~k.session -> "/"
       [] at = "/configure" -> configure
       [] at = "/checkout" -> checkout
       [] at = "/payment" /\ documents /\ k.payment.id = 0 -> checkout
       [] at = "/printing" /\ documents /\ ~successful(k) -> checkout
       [] at = "/printing" /\ documents /\ k.print.seen = "COMPLETED" -> "/complete"
       [] at = "/printing" /\ documents /\ k.print.seen \in JobSettled -> "/failure/printer"
       [] at = "/complete" /\ ~documents -> "/"
       [] at \in {"/payment", "/printing", "/failure/payment", "/failure/printer"}
            /\ ~documents -> "/upload"
       [] OTHER -> at

\* Leaving the settings screen takes the hook with it: its remembered revision
\* goes, and a run it started can no longer tell anyone.
PricerAfter(at) ==
  IF page = "/configure" /\ at # "/configure"
  THEN [saved |-> None,
        runs |-> {[r EXCEPT !.mounted = FALSE] : r \in {r \in pricer.runs : r.step = "saving"}}]
  ELSE pricer

\* The screen becomes k and the customer is taken to a page.
Show(k, at) ==
  LET there == Redirect(k, at)
  IN  kiosk' = k /\ page' = there /\ pricer' = PricerAfter(there)

Pages == {"/", "/upload", "/configure", "/checkout", "/payment", "/printing",
          "/failure/payment", "/failure/printer", "/complete"}

-----------------------------------------------------------------------------
(* The control plane's rows *)

Configurations == UNION {[D -> Variants] : D \in SUBSET Documents}
Open == {p \in DOMAIN plane.payments : plane.payments[p].status = "PENDING"}
Paid == \E p \in DOMAIN plane.payments :
          plane.payments[p].status = "CAPTURED" /\ plane.payments[p].visit = plane.visit
Accepting == ~plane.over /\ Open = {} /\ ~Paid

ScreenTypeOK ==
  /\ plane \in [visit : 0..MaxTurns, over : BOOLEAN, files : [Documents -> FileStatus],
                settings : Configurations, active : 0..MaxQuotes,
                quotes : Seq(Configurations), late : SUBSET (1..MaxQuotes),
                payments : Seq([quote : 1..MaxQuotes, attempt : Nat, visit : 1..MaxTurns,
                                status : {"PENDING"} \cup Settled, confirmed : BOOLEAN]),
                job : {"none", "QUEUED"} \cup JobSettled]
  /\ Len(plane.quotes) <= MaxQuotes /\ Len(plane.payments) <= MaxPayments
  /\ kiosk \in [session : BOOLEAN, files : [Documents -> FileStatus],
                selections : [Documents -> Variants],
                pricing : [status : {"IDLE", "PENDING", "READY", "FAILED"},
                           for : Configurations, quote : 0..MaxQuotes],
                payment : [id : 0..MaxPayments, seen : {"none", "PENDING"} \cup Settled,
                           attempt : Nat, error : BOOLEAN],
                print : [seen : {"none", "QUEUED"} \cup JobSettled,
                         failure : {"none", "RETRYABLE", "OPERATOR_REQUIRED"}]]
  /\ page \in Pages
  /\ pricer \in [saved : Configurations,
                 runs : SUBSET [key : Configurations, mounted : BOOLEAN,
                                step : {"saving", "quoting"}]]
  /\ paying \in SUBSET [quote : 1..MaxQuotes, attempt : Nat]
  /\ listing \in Seq([Documents -> FileStatus]) /\ Len(listing) <= 1

ScreenInit ==
  /\ plane = [visit |-> 0, over |-> TRUE, files |-> [d \in Documents |-> "ABSENT"],
              settings |-> None, active |-> 0, quotes |-> <<>>, late |-> {},
              payments |-> <<>>, job |-> "none"]
  /\ kiosk = initialState /\ page = "/"
  /\ pricer = [saved |-> None, runs |-> {}]
  /\ paying = {} /\ listing = NoListing

\* A session that ends takes its open payments and its price with it.
Closed(pl) ==
  [pl EXCEPT !.over = TRUE, !.active = 0,
             !.payments = [p \in DOMAIN @ |->
                 IF @[p].status = "PENDING" THEN [@[p] EXCEPT !.status = "CANCELED"] ELSE @[p]]]

\* A phone's upload, its verdict, and a phone's removal.
Upload(d) ==
  /\ Accepting /\ plane.files[d] = "ABSENT"
  /\ plane' = [plane EXCEPT !.files[d] = "VALIDATING"]
  /\ UNCHANGED <<kiosk, page, pricer, paying, listing>>

Validate(d) ==
  /\ ~plane.over /\ plane.files[d] = "VALIDATING"
  /\ \E verdict \in {"READY", "REJECTED"} :
       /\ verdict = "READY" => Accepting
       /\ plane' = IF verdict = "READY"
                   THEN [plane EXCEPT !.files[d] = "READY", !.settings = None, !.active = 0]
                   ELSE [plane EXCEPT !.files[d] = "REJECTED"]
  /\ UNCHANGED <<kiosk, page, pricer, paying, listing>>

Withdrawn(d) == [plane EXCEPT !.files[d] = "DELETED", !.settings = None, !.active = 0]

RemoveOnPhone(d) ==
  /\ Accepting /\ plane.files[d] \in {"READY", "REJECTED"}
  /\ plane' = Withdrawn(d)
  /\ UNCHANGED <<kiosk, page, pricer, paying, listing>>

QuoteExpires ==
  /\ plane.quotes # <<>> /\ Len(plane.quotes) \notin plane.late
  /\ plane' = [plane EXCEPT !.late = @ \cup {Len(plane.quotes)}]
  /\ UNCHANGED <<kiosk, page, pricer, paying, listing>>

\* The provider settles a payment it was asked to take; a deadline settles any.
SettlePayment(p) ==
  /\ p \in Open
  /\ \E status \in Settled \ {"COMPENSATED"} :
       /\ status # "CANCELED" => plane.payments[p].confirmed
       /\ plane' = [plane EXCEPT !.payments[p].status = status]
  /\ UNCHANGED <<kiosk, page, pricer, paying, listing>>

\* A capture reported for a payment its session had already given up is owed back.
CaptureLate(p) ==
  /\ p \in DOMAIN plane.payments
  /\ plane.payments[p].status = "CANCELED" /\ plane.payments[p].confirmed
  /\ plane' = [plane EXCEPT !.payments[p].status = "COMPENSATED"]
  /\ UNCHANGED <<kiosk, page, pricer, paying, listing>>

\* The job ends, and the visit and its documents with it.
JobEnds ==
  /\ plane.job = "QUEUED"
  /\ \E status \in JobSettled :
       plane' = [plane EXCEPT !.job = status, !.over = TRUE,
                   !.files = [d \in Documents |-> "ABSENT"]]
  /\ UNCHANGED <<kiosk, page, pricer, paying, listing>>

SessionExpires ==
  /\ ~plane.over /\ ~Paid
  /\ plane' = Closed(plane)
  /\ UNCHANGED <<kiosk, page, pricer, paying, listing>>

-----------------------------------------------------------------------------
(* A visit begins, is abandoned, and is reloaded *)

\* A new visit discards one the screen lost; a paid one cannot be discarded.
StartVisit ==
  /\ page = "/" /\ plane.visit < MaxTurns
  /\ plane.over \/ ~Paid
  /\ plane' = [Closed(plane) EXCEPT !.visit = @ + 1, !.over = FALSE, !.settings = None,
                 !.files = [d \in Documents |-> "ABSENT"], !.job = "none"]
  /\ listing' = NoListing
  /\ Show([initialState EXCEPT !.session = TRUE], "/upload")
  /\ UNCHANGED paying

\* The customer's cancellation and the idle timer both close the session; the
\* control plane refuses one that is paid, and the screen stays.
canCancel ==
  /\ page \in {"/upload", "/configure", "/checkout"}
  /\ kiosk.payment.seen \notin {"PENDING", "CAPTURED", "COMPENSATED"}
timerActive ==
  kiosk.session /\ page # "/" /\ kiosk.payment.seen \notin {"PENDING", "CAPTURED"}

CloseVisit ==
  /\ kiosk.session /\ (canCancel \/ timerActive)
  /\ plane.over \/ ~Paid
  /\ plane' = IF plane.over THEN plane ELSE Closed(plane)
  /\ listing' = NoListing
  /\ Show(initialState, "/")
  /\ UNCHANGED paying

\* session.canceled or session.expired arrives.
VisitOverHeard ==
  /\ kiosk.session /\ plane.over /\ plane.job = "none"
  /\ listing' = NoListing
  /\ Show(initialState, "/")
  /\ UNCHANGED <<plane, paying>>

\* The snapshot is kept once there is a payment: the printable documents, the
\* payment and the print, never the choices or the price.
persists(k) == k.session /\ k.payment.id # 0
persistFulfillmentState(k) ==
  [initialState EXCEPT
     !.session = TRUE,
     !.files = [d \in Documents |-> IF k.files[d] = "READY" THEN "READY" ELSE "ABSENT"],
     !.payment = [k.payment EXCEPT !.attempt = 1, !.error = FALSE],
     !.print = k.print]

\* A payment of an earlier session does not parse as this one's.
restored ==
  IF persists(kiosk) /\ plane.payments[kiosk.payment.id].visit = plane.visit
  THEN persistFulfillmentState(kiosk) ELSE initialState

Reload ==
  /\ page # "/"
  /\ kiosk' = restored /\ page' = Redirect(restored, page)
  /\ pricer' = [saved |-> None, runs |-> {}]
  /\ paying' = {} /\ listing' = NoListing
  /\ UNCHANGED plane

-----------------------------------------------------------------------------
(* Documents and choices *)

ListFiles ==
  /\ kiosk.session /\ listing = NoListing
  /\ listing' = <<plane.files>>
  /\ UNCHANGED <<plane, kiosk, page, pricer, paying>>

SyncFiles ==
  /\ listing # NoListing
  /\ Show(FilesSynced(kiosk, listing[1]), page)
  /\ listing' = NoListing
  /\ UNCHANGED <<plane, paying>>

RemoveOnScreen(d) ==
  /\ page = "/configure" /\ d \in ReadyIn(kiosk.files)
  /\ Accepting /\ plane.files[d] = "READY"
  /\ plane' = Withdrawn(d)
  /\ Show(FileRemoved(kiosk, d), IF ReadyIn(kiosk.files) = {d} THEN "/upload" ELSE page)
  /\ UNCHANGED <<paying, listing>>

Choose(d, c) ==
  /\ page = "/configure" /\ d \in ReadyIn(kiosk.files) /\ kiosk.selections[d] # c
  /\ Show(SelectionChanged(kiosk, d, c), page)
  /\ UNCHANGED <<plane, paying, listing>>

\* The buttons that only lead on, and the browser's way back.
Go ==
  /\ \/ page = "/upload" /\ canLeaveUpload(kiosk.files) /\ Show(kiosk, "/configure")
     \/ page = "/configure" /\ isQuotePayable(kiosk) /\ Show(kiosk, "/checkout")
     \/ page = "/checkout" /\ Show(kiosk, "/configure")
     \/ page \in {"/checkout", "/payment", "/printing", "/failure/payment",
                  "/failure/printer"}
        /\ \E back \in {"/upload", "/configure", "/checkout"} \ {page} : Show(kiosk, back)
  /\ UNCHANGED <<plane, paying, listing>>

-----------------------------------------------------------------------------
(* Pricing *)

\* Mutant: a run's answer is applied whatever is on screen by then.
staleIgnored(r) == ~r.mounted

\* A result is only applied while it describes what the customer looks at.
stale(r) == ~r.mounted \/ ~kiosk.session \/ r.key # Shown(kiosk)

StartPricing ==
  /\ page = "/configure" /\ kiosk.pricing.status = "IDLE" /\ ReadyIn(kiosk.files) # {}
  /\ Cardinality(pricer.runs) < MaxRuns
  /\ kiosk' = PricingPending(kiosk)
  /\ pricer' = [pricer EXCEPT !.runs = @ \cup
       {[key |-> Shown(kiosk), mounted |-> TRUE,
         step |-> IF pricer.saved = Shown(kiosk) THEN "quoting" ELSE "saving"]}]
  /\ UNCHANGED <<plane, page, paying, listing>>

\* A run that failed forgets the remembered revision, shown or not.
RunFails(r) ==
  /\ pricer' = [saved |-> IF r.mounted THEN None ELSE pricer.saved,
                runs |-> pricer.runs \ {r}]
  /\ kiosk' = IF stale(r) THEN kiosk ELSE PricingFailed(kiosk)

Saveable(cfg) == Accepting /\ DOMAIN cfg = ReadyIn(plane.files)
                 /\ \A d \in Documents : plane.files[d] # "VALIDATING"

\* saveKioskSettings: a refreshed version and a rotated key included.
SaveSettings(r) ==
  /\ r.step = "saving"
  /\ \/ /\ Saveable(r.key)
        /\ plane' = [plane EXCEPT !.settings = r.key, !.active = 0]
        /\ \/ RunFails(r)
           \/ IF stale(r)
              THEN pricer' = [pricer EXCEPT !.runs = @ \ {r}] /\ UNCHANGED kiosk
              ELSE /\ pricer' = [saved |-> r.key,
                                 runs |-> (pricer.runs \ {r})
                                           \cup {[r EXCEPT !.step = "quoting"]}]
                   /\ UNCHANGED kiosk
     \/ RunFails(r) /\ UNCHANGED plane
  /\ UNCHANGED <<page, paying, listing>>

\* createKioskQuote: only the current revision has a price.
CreateQuote(r) ==
  LET q == Len(plane.quotes) + 1 IN
  /\ r.step = "quoting"
  /\ \/ /\ Accepting /\ plane.settings = r.key /\ q <= MaxQuotes
        /\ plane' = [plane EXCEPT !.quotes = Append(@, r.key), !.active = q]
        /\ \/ RunFails(r)
           \/ /\ pricer' = [pricer EXCEPT !.runs = @ \ {r}]
              /\ kiosk' = IF stale(r) THEN kiosk ELSE PricingResolved(kiosk, r.key, q)
     \/ RunFails(r) /\ UNCHANGED plane
  /\ UNCHANGED <<page, paying, listing>>

\* The hook drops a price that ran out, and the customer asks again.
DropPrice ==
  /\ page = "/configure"
  /\ \/ kiosk.pricing.status = "READY" /\ kiosk.pricing.quote \in plane.late
        /\ UNCHANGED pricer
     \/ kiosk.pricing.status = "FAILED" /\ pricer' = [pricer EXCEPT !.saved = None]
  /\ kiosk' = Repriced(kiosk)
  /\ UNCHANGED <<plane, page, paying, listing>>

-----------------------------------------------------------------------------
(* Paying *)

\* One request at a time: a second press repeats the first one's key.
PressPay ==
  /\ page = "/checkout" /\ paying = {}
  /\ paying' = {[quote |-> kiosk.pricing.quote, attempt |-> kiosk.payment.attempt]}
  /\ UNCHANGED <<plane, kiosk, page, pricer, listing>>

\* The same quote and attempt is the same key, and so the same payment.
startKioskPayment(a) ==
  {p \in DOMAIN plane.payments :
     plane.payments[p].quote = a.quote /\ plane.payments[p].attempt = a.attempt}

\* The answer leads on from whatever page the customer has reached by then.
StartPayment(a) ==
  LET mine == startKioskPayment(a)
      new == Len(plane.payments) + 1
      payable == /\ Accepting /\ plane.active = a.quote /\ a.quote \notin plane.late
      started(p, status) == Show(PaymentObserved(kiosk, p, status), "/payment")
      lost == UNCHANGED <<kiosk, page, pricer>>
  IN /\ paying' = paying \ {a}
     /\ \/ /\ mine # {}
           /\ \/ \E p \in mine : started(p, plane.payments[p].status)
              \/ lost
           /\ UNCHANGED plane
        \/ /\ mine = {} /\ payable /\ new <= MaxPayments
           /\ plane' = [plane EXCEPT !.payments = Append(@,
                [quote |-> a.quote, attempt |-> a.attempt, visit |-> plane.visit,
                 status |-> "PENDING", confirmed |-> FALSE])]
           /\ started(new, "PENDING") \/ lost
        \/ /\ mine = {}
           \* A stale price goes back to be priced; any other refusal stays.
           /\ \/ ~payable /\ Open = {} /\ Show(Repriced(kiosk), "/configure")
              \/ lost
           /\ UNCHANGED plane
     /\ UNCHANGED listing

Mine == kiosk.payment.id
ToFailure(k) == Show([k EXCEPT !.payment.error = TRUE], "/failure/payment")
ObservePayment ==
  LET status == plane.payments[Mine].status
      seen == PaymentObserved(kiosk, Mine, status)
  IN  Show(seen, IF status \notin Settled THEN page
                 ELSE IF status = "CAPTURED" THEN "/printing" ELSE "/failure/payment")

\* The payment screen confirms, then reads until the payment has settled or
\* too many reads failed.
WatchPayment ==
  /\ page = "/payment" /\ Mine # 0
  /\ \/ /\ plane.payments[Mine].status = "PENDING" /\ ~plane.payments[Mine].confirmed
        /\ plane' = [plane EXCEPT !.payments[Mine].confirmed = TRUE]
        /\ UNCHANGED <<kiosk, page, pricer>>
     \/ plane.payments[Mine].status # "PENDING" /\ ObservePayment /\ UNCHANGED plane
     \/ ToFailure(kiosk) /\ UNCHANGED plane
  /\ UNCHANGED <<paying, listing>>

\* Trying again resumes a payment that may still capture and gives up any other.
RetryPayment ==
  /\ page = "/failure/payment"
  /\ IF Mine # 0 /\ kiosk.payment.seen \notin Settled
     THEN Show(kiosk, "/payment")
     ELSE \/ Show([kiosk EXCEPT !.payment = nextPaymentAttempt(@)], "/checkout")
          \/ Show(kiosk, "/checkout")
  /\ UNCHANGED <<plane, paying, listing>>

-----------------------------------------------------------------------------
(* Printing *)

\* The session has one job, whoever asks for it again.
startKioskPrintJob ==
  plane.job = "none" /\ Paid /\ plane' = [plane EXCEPT !.job = "QUEUED"]

\* The printing screen starts the paid job, or resumes the one it knows, and
\* reads it until it settles or is refused.
WatchPrint ==
  /\ page = "/printing" /\ successful(kiosk)
  /\ \/ /\ kiosk.print.seen = "none" /\ startKioskPrintJob
        /\ \/ Show(PrintObserved(kiosk, "QUEUED"), page)
           \/ Show([kiosk EXCEPT !.print.failure = "RETRYABLE"], "/failure/printer")
     \/ /\ plane.job # "none" /\ kiosk.print.seen # plane.job
        /\ Show(PrintObserved(kiosk, plane.job), page)
        /\ UNCHANGED plane
     \/ /\ \E f \in {"RETRYABLE", "OPERATOR_REQUIRED"} :
             Show([kiosk EXCEPT !.print.failure = f], "/failure/printer")
        /\ UNCHANGED plane
  /\ UNCHANGED <<paying, listing>>

\* A print whose outcome is not known is resumed, unless an operator has to.
ResumePrint ==
  /\ page = "/failure/printer" /\ kiosk.print.seen \notin JobSettled
  /\ kiosk.print.failure # "OPERATOR_REQUIRED"
  /\ Show(kiosk, "/printing")
  /\ UNCHANGED <<plane, paying, listing>>

\* A settled print hands the screen to the next customer.
Finish ==
  /\ \/ page = "/complete"
     \/ page = "/failure/printer" /\ kiosk.print.seen \in JobSettled
  /\ Show(initialState, "/")
  /\ listing' = NoListing
  /\ UNCHANGED <<plane, paying>>

ScreenNext ==
  \/ \E d \in Documents : Upload(d) \/ Validate(d) \/ RemoveOnPhone(d) \/ RemoveOnScreen(d)
  \/ \E d \in Documents, c \in Variants : Choose(d, c)
  \/ \E p \in DOMAIN plane.payments : SettlePayment(p) \/ CaptureLate(p)
  \/ \E r \in pricer.runs : SaveSettings(r) \/ CreateQuote(r)
  \/ \E a \in paying : StartPayment(a)
  \/ QuoteExpires \/ JobEnds \/ SessionExpires
  \/ StartVisit \/ CloseVisit \/ VisitOverHeard \/ Reload
  \/ ListFiles \/ SyncFiles \/ Go \/ StartPricing \/ DropPrice
  \/ PressPay \/ WatchPayment \/ RetryPayment
  \/ WatchPrint \/ ResumePrint \/ Finish

ScreenSpec == ScreenInit /\ [][ScreenNext]_screenVars

-----------------------------------------------------------------------------
(* Properties *)

\* Hazard: choices, documents and answers overtake one another.  A price on
\* screen is the control plane's price for exactly the documents and choices on
\* screen (usePricing.ts: "never shows a stale one").
PriceMatchesScreen ==
  /\ ScreenTypeOK
  /\ kiosk.pricing.status = "READY" =>
       /\ kiosk.pricing.for = Shown(kiosk)
       /\ plane.quotes[kiosk.pricing.quote] = Shown(kiosk)
=============================================================================
