-------------------------- MODULE FrontOfficeProofs --------------------------
(***************************************************************************)
(* What the people in front of the kiosk rely on, for every number of      *)
(* documents, phones, tabs, accounts and events: a price on the            *)
(* touchscreen is the price of what is shown, a code claimed once stays    *)
(* with its phone, the console acts as the account it shows, an event the  *)
(* relay heard of is shown or on its way, and what is asked for, priced    *)
(* and printed is one set of pages at one fair price.  Each part has an    *)
(* invariant of its own, kept by every step of its specification.          *)
(***************************************************************************)
EXTENDS PrintRules, SessionEvents, KioskScreen, MobileAccess, AdminConsole, SumTheorems,
        SequenceTheorems, TLAPS

-----------------------------------------------------------------------------
(* The touchscreen: a price on screen is the control plane's price for what *)
(* is on screen.                                                            *)

Payments == [quote : 1..MaxQuotes, attempt : Nat, visit : 1..MaxTurns,
             status : {"PENDING"} \cup Settled, confirmed : BOOLEAN]
Planes ==
  [visit : 0..MaxTurns, over : BOOLEAN, files : [Documents -> FileStatus],
   settings : Configurations, active : 0..MaxQuotes, quotes : Seq(Configurations),
   late : SUBSET (1..MaxQuotes), payments : Seq(Payments), job : {"none", "QUEUED"} \cup JobSettled]
Pricings == [status : {"IDLE", "PENDING", "READY", "FAILED"}, for : Configurations, quote : 0..MaxQuotes]
Attempts == [id : 0..MaxPayments, seen : {"none", "PENDING"} \cup Settled, attempt : Nat, error : BOOLEAN]
Prints == [seen : {"none", "QUEUED"} \cup JobSettled, failure : {"none", "RETRYABLE", "OPERATOR_REQUIRED"}]
Kiosks == [session : BOOLEAN, files : [Documents -> FileStatus], selections : [Documents -> Variants],
           pricing : Pricings, payment : Attempts, print : Prints]
Runs == [key : Configurations, mounted : BOOLEAN, step : {"saving", "quoting"}]
Pricers == [saved : Configurations, runs : SUBSET Runs]
Presses == [quote : 1..MaxQuotes, attempt : Nat]

\* The control plane's rows, and what they bound.
PlaneOK(pl) ==
  /\ pl \in Planes /\ Len(pl.quotes) <= MaxQuotes /\ Len(pl.payments) <= MaxPayments
  /\ ~pl.over => pl.visit > 0
\* What is on screen refers to rows that exist, and a price to what is on screen.
ScreenOK(k, pl) ==
  /\ k \in Kiosks
  /\ k.payment.id # 0 => k.payment.id \in DOMAIN pl.payments
  /\ k.pricing.quote # 0 => k.pricing.quote \in DOMAIN pl.quotes
  /\ k.pricing.status = "READY" =>
       /\ k.pricing.quote # 0
       /\ k.pricing.for = Shown(k) /\ pl.quotes[k.pricing.quote] = Shown(k)
\* A run of the hook can tell only the settings screen, and the checkout has a price.
RoutesOK(at, k, pr) ==
  /\ at \in Pages /\ pr \in Pricers
  /\ \A r \in pr.runs : r.mounted => at = "/configure"
  /\ at = "/checkout" => k.pricing.quote # 0

ScreenInv ==
  /\ PlaneOK(plane) /\ ScreenOK(kiosk, plane) /\ RoutesOK(page, kiosk, pricer)
  /\ paying \in SUBSET Presses
  /\ listing \in Seq([Documents -> FileStatus]) /\ Len(listing) <= 1

\* Rows are added and never withdrawn.
Grows(pl, next) ==
  /\ Len(pl.quotes) <= Len(next.quotes) /\ \A q \in DOMAIN pl.quotes : next.quotes[q] = pl.quotes[q]
  /\ Len(pl.payments) <= Len(next.payments)

LEMMA NoneIsConfiguration == None \in Configurations
<1>1. None \in [{} -> Variants]
  BY DEF None
<1> QED
  BY <1>1 DEF Configurations

LEMMA ShownIsConfiguration == ASSUME NEW k \in Kiosks PROVE Shown(k) \in Configurations
<1>1. Shown(k) \in [ReadyIn(k.files) -> Variants]
  BY DEF Shown, ReadyIn, Kiosks
<1>2. ReadyIn(k.files) \in SUBSET Documents
  BY DEF ReadyIn
<1> QED
  BY <1>1, <1>2 DEF Configurations

LEMMA IdleScreen ==
  /\ idlePricing \in Pricings /\ idlePayment \in Attempts /\ idlePrint \in Prints /\ initialState \in Kiosks
  /\ \A pl : ScreenOK(initialState, pl)
<1>1. 0 \in 0..MaxQuotes /\ 0 \in 0..MaxPayments /\ 1 \in Variants
  BY ScreenAssumption
<1>2. idlePricing \in Pricings /\ idlePayment \in Attempts /\ idlePrint \in Prints
  BY <1>1, NoneIsConfiguration DEF idlePricing, idlePayment, idlePrint, Pricings, Attempts, Prints
<1>3. initialState \in Kiosks
  BY <1>1, <1>2 DEF initialState, Kiosks, FileStatus
<1> QED
  BY <1>2, <1>3 DEF ScreenOK, initialState, idlePricing, idlePayment

LEMMA ScreenOutlivesRows ==
  ASSUME NEW k, NEW pl, NEW next, ScreenOK(k, pl), PlaneOK(pl), PlaneOK(next), Grows(pl, next)
  PROVE  ScreenOK(k, next)
BY DEF ScreenOK, PlaneOK, Grows, Planes

LEMMA RedirectLeads ==
  ASSUME NEW k, NEW at \in Pages
  PROVE  Redirect(k, at) \in Pages /\ (Redirect(k, at) = "/checkout" => k.pricing.quote # 0)
BY DEF Redirect, Pages, isQuotePayable

\* However a screen changes, the run that could tell a screen that is left is cut off.
LEMMA ShowKeepsRoutes ==
  ASSUME NEW k, NEW at \in Pages, RoutesOK(page, kiosk, pricer), Show(k, at)
  PROVE  RoutesOK(page', k, pricer') /\ kiosk' = k
<1>1. page' \in Pages /\ (page' = "/checkout" => k.pricing.quote # 0) /\ kiosk' = k
  BY RedirectLeads DEF Show
<1>2. pricer' = PricerAfter(page')
  BY DEF Show
<1>3. CASE page = "/configure" /\ page' # "/configure"
  <2>1. pricer' = [saved |-> None, runs |-> {[r EXCEPT !.mounted = FALSE] : r \in {r \in pricer.runs : r.step = "saving"}}]
    BY <1>2, <1>3 DEF PricerAfter
  <2>2. ASSUME NEW r \in pricer.runs PROVE [r EXCEPT !.mounted = FALSE] \in Runs /\ ~[r EXCEPT !.mounted = FALSE].mounted
    BY DEF RoutesOK, Pricers, Runs
  <2> QED
    BY <1>1, <2>1, <2>2, NoneIsConfiguration DEF RoutesOK, Pricers
<1>4. CASE ~(page = "/configure" /\ page' # "/configure")
  BY <1>1, <1>2, <1>4 DEF PricerAfter, RoutesOK
<1> QED
  BY <1>3, <1>4

\* Every step that shows a screen shows one that is right.
LEMMA ShowKeepsInv ==
  ASSUME ScreenInv, NEW k, NEW at \in Pages, Show(k, at), PlaneOK(plane'), ScreenOK(k, plane'),
         paying' \in SUBSET Presses, listing' = listing \/ listing' = NoListing
  PROVE  ScreenInv'
<1>1. RoutesOK(page', kiosk', pricer') /\ kiosk' = k
  BY ShowKeepsRoutes DEF ScreenInv
<1>2. listing' \in Seq([Documents -> FileStatus]) /\ Len(listing') <= 1
  <2> <<>> \in Seq([Documents -> FileStatus]) /\ Len(<<>>) = 0
    BY EmptySeq
  <2> listing \in Seq([Documents -> FileStatus]) /\ Len(listing) <= 1
    BY DEF ScreenInv
  <2>1. CASE listing' = <<>>
    BY <2>1
  <2>2. CASE listing' = listing
    BY <2>2
  <2> QED
    BY <2>1, <2>2 DEF NoListing
<1> QED
  BY <1>1, <1>2 DEF ScreenInv

\* A step of the control plane leaves the screen right.
LEMMA PlaneKeepsInv ==
  ASSUME ScreenInv, PlaneOK(plane'), Grows(plane, plane'), UNCHANGED <<kiosk, page, pricer, paying, listing>>
  PROVE  ScreenInv'
BY ScreenOutlivesRows DEF ScreenInv

(* What a screen may become *)

\* A screen that shows the same documents, choices and price is as right.
LEMMA SameScreen ==
  ASSUME NEW k, NEW pl, ScreenOK(k, pl), NEW next \in Kiosks,
         next.files = k.files, next.selections = k.selections, next.pricing = k.pricing,
         next.payment.id # 0 => next.payment.id \in DOMAIN pl.payments
  PROVE  ScreenOK(next, pl)
BY DEF ScreenOK, Shown, ReadyIn

\* A screen without a price is right.
LEMMA UnpricedScreen ==
  ASSUME NEW k \in Kiosks, NEW pl, k.pricing.status # "READY",
         k.payment.id # 0 => k.payment.id \in DOMAIN pl.payments,
         k.pricing.quote # 0 => k.pricing.quote \in DOMAIN pl.quotes
  PROVE  ScreenOK(k, pl)
BY DEF ScreenOK

LEMMA NextAttempt ==
  ASSUME NEW p \in Attempts
  PROVE  nextPaymentAttempt(p) \in Attempts /\ nextPaymentAttempt(p).id = 0
<1>1. 0 \in 0..MaxPayments /\ p.attempt + 1 \in Nat
  BY ScreenAssumption DEF Attempts
<1>2. [idlePayment EXCEPT !.attempt = p.attempt + 1] \in Attempts /\ [idlePayment EXCEPT !.attempt = p.attempt + 1].id = 0
  BY <1>1 DEF idlePayment, Attempts
<1> QED
  BY <1>2 DEF nextPaymentAttempt

LEMMA RepricedScreen ==
  ASSUME NEW k \in Kiosks, NEW pl
  PROVE  ScreenOK(Repriced(k), pl) /\ Repriced(k).session = k.session
<1>1. k.payment \in Attempts
  BY DEF Kiosks
<1>2. Repriced(k) \in Kiosks /\ Repriced(k).pricing = idlePricing /\ Repriced(k).payment = nextPaymentAttempt(k.payment)
      /\ Repriced(k).session = k.session
  BY <1>1, NextAttempt, IdleScreen DEF Repriced, Kiosks
<1> QED
  BY <1>1, <1>2, UnpricedScreen, NextAttempt DEF idlePricing

LEMMA PaidScreen ==
  ASSUME NEW k, NEW pl, ScreenOK(k, pl), PlaneOK(pl), NEW p \in DOMAIN pl.payments
  PROVE  ScreenOK(PaymentObserved(k, p, pl.payments[p].status), pl)
<1>1. p \in 0..MaxPayments /\ pl.payments[p].status \in {"PENDING"} \cup Settled
  <2>1. pl.payments \in Seq(Payments) /\ Len(pl.payments) <= MaxPayments
    BY DEF PlaneOK, Planes
  <2>2. p \in 1..Len(pl.payments) /\ pl.payments[p] \in Payments
    BY <2>1
  <2> QED
    BY <2>1, <2>2, ScreenAssumption DEF Payments
<1> DEFINE now == PaymentObserved(k, p, pl.payments[p].status)
<1>2. now \in Kiosks /\ now.payment.id = p /\ now.files = k.files /\ now.selections = k.selections /\ now.pricing = k.pricing
  <2>1. [id |-> p, seen |-> pl.payments[p].status, attempt |-> k.payment.attempt, error |-> FALSE] \in Attempts
    BY <1>1 DEF ScreenOK, Kiosks, Attempts
  <2> QED
    BY <2>1 DEF PaymentObserved, ScreenOK, Kiosks
<1> QED
  BY <1>2, SameScreen

LEMMA PrintScreen ==
  ASSUME NEW k, NEW pl, ScreenOK(k, pl), NEW pr \in Prints
  PROVE  ScreenOK([k EXCEPT !.print = pr], pl)
<1>1. [k EXCEPT !.print = pr] \in Kiosks
  BY DEF ScreenOK, Kiosks
<1> QED
  BY <1>1, SameScreen DEF ScreenOK, Kiosks

\* Documents read anew keep the price only of what is still shown.
LEMMA SyncedScreen ==
  ASSUME NEW k, NEW pl, ScreenOK(k, pl), NEW files \in [Documents -> FileStatus]
  PROVE  ScreenOK(FilesSynced(k, files), pl)
<1> DEFINE kept == [k EXCEPT !.files = files, !.selections = retainSelections(k, files)]
<1>1. retainSelections(k, files) \in [Documents -> Variants]
  BY ScreenAssumption DEF retainSelections, ScreenOK, Kiosks
<1>2. kept \in Kiosks /\ kept.files = files /\ kept.selections = retainSelections(k, files)
      /\ kept.pricing = k.pricing /\ kept.payment = k.payment
  BY <1>1 DEF ScreenOK, Kiosks
<1>3. CASE ReadyIn(files) = ReadyIn(k.files)
  <2>1. \A d \in ReadyIn(k.files) : kept.selections[d] = k.selections[d]
    BY <1>2, <1>3 DEF retainSelections, ReadyIn
  <2>2. Shown(kept) = Shown(k)
    BY <1>2, <1>3, <2>1 DEF Shown
  <2>3. FilesSynced(k, files) = kept
    BY <1>3 DEF FilesSynced
  <2> HIDE DEF kept
  <2> QED
    BY <1>2, <2>2, <2>3 DEF ScreenOK
<1>4. CASE ReadyIn(files) # ReadyIn(k.files)
  <2>1. FilesSynced(k, files) = Repriced(kept)
    BY <1>4 DEF FilesSynced
  <2> HIDE DEF kept
  <2> QED
    BY <1>2, <2>1, RepricedScreen
<1> QED
  BY <1>3, <1>4

(* What the control plane's rows may become *)

\* A session that ends keeps every payment, and gives up the open ones.
LEMMA ClosedRows ==
  ASSUME NEW pl, PlaneOK(pl)
  PROVE  Closed(pl) \in Planes /\ Len(Closed(pl).quotes) <= MaxQuotes /\ Closed(pl).quotes = pl.quotes
         /\ Len(Closed(pl).payments) = Len(pl.payments) /\ Len(pl.payments) <= MaxPayments
         /\ Closed(pl).over /\ Closed(pl).visit = pl.visit
<1> DEFINE given == [p \in DOMAIN pl.payments |->
                 IF pl.payments[p].status = "PENDING" THEN [pl.payments[p] EXCEPT !.status = "CANCELED"] ELSE pl.payments[p]]
<1>1. pl.payments \in Seq(Payments) /\ Len(pl.payments) \in Nat /\ DOMAIN pl.payments = 1..Len(pl.payments)
  BY DEF PlaneOK, Planes
<1>2. \A p \in DOMAIN pl.payments : given[p] \in Payments
  <2> SUFFICES ASSUME NEW p \in DOMAIN pl.payments PROVE given[p] \in Payments
    OBVIOUS
  <2>1. pl.payments[p] \in Payments
    BY <1>1
  <2> QED
    BY <2>1 DEF Payments, Settled
<1>3. given \in Seq(Payments) /\ Len(given) = Len(pl.payments)
  <2>1. given \in [1..Len(pl.payments) -> Payments]
    BY <1>1, <1>2
  <2> HIDE DEF given
  <2> QED
    BY <1>1, <2>1
<1>4. Closed(pl) = [pl EXCEPT !.over = TRUE, !.active = 0, !.payments = given]
  BY DEF Closed
<1> HIDE DEF given
<1>5. pl \in Planes /\ Len(pl.quotes) <= MaxQuotes /\ Len(pl.payments) <= MaxPayments /\ 0 \in 0..MaxQuotes
  BY ScreenAssumption DEF PlaneOK
<1>6. Closed(pl) \in Planes /\ Closed(pl).payments = given /\ Closed(pl).quotes = pl.quotes
      /\ Closed(pl).over /\ Closed(pl).visit = pl.visit
  BY <1>3, <1>4, <1>5 DEF Planes
<1> QED
  BY <1>3, <1>5, <1>6

\* Rows changed in one payment keep their bounds.
LEMMA PaymentRows ==
  ASSUME NEW pl, PlaneOK(pl), NEW next \in Seq(Payments), Len(next) <= MaxPayments, Len(pl.payments) <= Len(next)
  PROVE  PlaneOK([pl EXCEPT !.payments = next]) /\ Grows(pl, [pl EXCEPT !.payments = next])
<1> DEFINE now == [pl EXCEPT !.payments = next]
<1>1. pl \in Planes /\ Len(pl.quotes) <= MaxQuotes /\ (~pl.over => pl.visit > 0)
  BY DEF PlaneOK
<1>2. now \in Planes /\ now.quotes = pl.quotes /\ now.payments = next /\ now.over = pl.over /\ now.visit = pl.visit
  BY <1>1 DEF Planes
<1>3. Len(pl.quotes) \in Nat
  BY <1>1 DEF Planes
<1> HIDE DEF now
<1>4. PlaneOK(now) /\ Grows(pl, now)
  BY <1>1, <1>2, <1>3 DEF PlaneOK, Grows
<1> QED
  BY <1>4 DEF now

\* Rows that keep the quotes and the payments keep their bounds.
LEMMA OtherRows ==
  ASSUME NEW pl, PlaneOK(pl), NEW next \in Planes, next.quotes = pl.quotes, next.payments = pl.payments,
         ~next.over => next.visit > 0
  PROVE  PlaneOK(next) /\ Grows(pl, next)
<1>1. Len(pl.quotes) \in Nat /\ Len(pl.payments) \in Nat
  BY DEF PlaneOK, Planes
<1> QED
  BY <1>1 DEF PlaneOK, Grows

LEMMA OnePayment ==
  ASSUME NEW pl, PlaneOK(pl), NEW p \in DOMAIN pl.payments, NEW entry \in Payments
  PROVE  [pl.payments EXCEPT ![p] = entry] \in Seq(Payments) /\ Len([pl.payments EXCEPT ![p] = entry]) = Len(pl.payments)
<1>1. pl.payments \in Seq(Payments)
  BY DEF PlaneOK, Planes
<1> QED
  BY <1>1

-----------------------------------------------------------------------------
(* The steps *)

LEMMA FilesStep ==
  ASSUME ScreenInv, NEW d \in Documents, Upload(d) \/ Validate(d) \/ RemoveOnPhone(d)
  PROVE  ScreenInv'
<1>1. plane \in Planes /\ PlaneOK(plane) /\ (~plane.over => plane.visit > 0)
  BY DEF ScreenInv, PlaneOK
<1>2. 0 \in 0..MaxQuotes
  BY ScreenAssumption
<1>3. ASSUME NEW status \in FileStatus PROVE [plane.files EXCEPT ![d] = status] \in [Documents -> FileStatus]
  BY <1>1 DEF Planes
<1>4. \E status \in FileStatus :
         \/ plane' = [plane EXCEPT !.files = [plane.files EXCEPT ![d] = status]]
         \/ plane' = [plane EXCEPT !.files = [plane.files EXCEPT ![d] = status], !.settings = None, !.active = 0]
  BY DEF Upload, Validate, RemoveOnPhone, Withdrawn, FileStatus
<1>5. plane' \in Planes /\ plane'.quotes = plane.quotes /\ plane'.payments = plane.payments
      /\ plane'.over = plane.over /\ plane'.visit = plane.visit
  <2>1. PICK status \in FileStatus :
         \/ plane' = [plane EXCEPT !.files = [plane.files EXCEPT ![d] = status]]
         \/ plane' = [plane EXCEPT !.files = [plane.files EXCEPT ![d] = status], !.settings = None, !.active = 0]
    BY <1>4
  <2> DEFINE files == [plane.files EXCEPT ![d] = status]
  <2>2. files \in [Documents -> FileStatus]
    BY <1>3
  <2>3. plane' = [plane EXCEPT !.files = files] \/ plane' = [plane EXCEPT !.files = files, !.settings = None, !.active = 0]
    BY <2>1
  <2> HIDE DEF files
  <2> QED
    BY <1>1, <1>2, <2>2, <2>3, NoneIsConfiguration DEF Planes
<1>6. UNCHANGED <<kiosk, page, pricer, paying, listing>>
  BY DEF Upload, Validate, RemoveOnPhone
<1> QED
  BY <1>1, <1>5, <1>6, OtherRows, PlaneKeepsInv

LEMMA ClockStep ==
  ASSUME ScreenInv, QuoteExpires \/ JobEnds \/ SessionExpires
  PROVE  ScreenInv'
<1>1. plane \in Planes /\ PlaneOK(plane) /\ (~plane.over => plane.visit > 0)
  BY DEF ScreenInv, PlaneOK
<1>2. UNCHANGED <<kiosk, page, pricer, paying, listing>>
  BY DEF QuoteExpires, JobEnds, SessionExpires
<1>3. CASE QuoteExpires
  <2>1. Len(plane.quotes) \in 1..MaxQuotes
    <3>1. plane.quotes \in Seq(Configurations) /\ plane.quotes # <<>> /\ Len(plane.quotes) <= MaxQuotes
      BY <1>1, <1>3 DEF QuoteExpires, PlaneOK, Planes
    <3>2. Len(plane.quotes) \in Nat \ {0}
      BY <3>1, EmptySeq
    <3> QED
      BY <3>1, <3>2, ScreenAssumption
  <2>2. plane' = [plane EXCEPT !.late = plane.late \cup {Len(plane.quotes)}]
    BY <1>3 DEF QuoteExpires
  <2>3. plane' \in Planes /\ plane'.quotes = plane.quotes /\ plane'.payments = plane.payments
        /\ plane'.over = plane.over /\ plane'.visit = plane.visit
    BY <1>1, <2>1, <2>2 DEF Planes
  <2> QED
    BY <1>1, <1>2, <2>3, OtherRows, PlaneKeepsInv
<1>4. CASE JobEnds
  <2>1. PICK status \in JobSettled :
          plane' = [plane EXCEPT !.job = status, !.over = TRUE, !.files = [d \in Documents |-> "ABSENT"]]
    BY <1>4 DEF JobEnds
  <2>2. [d \in Documents |-> "ABSENT"] \in [Documents -> FileStatus]
    BY DEF FileStatus
  <2>3. plane' \in Planes /\ plane'.quotes = plane.quotes /\ plane'.payments = plane.payments /\ plane'.over
    BY <1>1, <2>1, <2>2 DEF Planes
  <2> QED
    BY <1>1, <1>2, <2>3, OtherRows, PlaneKeepsInv
<1>5. CASE SessionExpires
  <2>1. PlaneOK(plane') /\ Grows(plane, plane')
    <3>1. plane' = Closed(plane)
      BY <1>5 DEF SessionExpires
    <3>2. Len(plane.quotes) \in Nat /\ Len(plane.payments) \in Nat
      BY <1>1 DEF Planes
    <3> QED
      BY <1>1, <3>1, <3>2, ClosedRows DEF PlaneOK, Grows
  <2> QED
    BY <1>2, <2>1, PlaneKeepsInv
<1> QED
  BY <1>3, <1>4, <1>5

LEMMA ProviderStep ==
  ASSUME ScreenInv, NEW p \in DOMAIN plane.payments, SettlePayment(p) \/ CaptureLate(p)
  PROVE  ScreenInv'
<1>1. PlaneOK(plane) /\ plane.payments \in Seq(Payments) /\ plane.payments[p] \in Payments
      /\ Len(plane.payments) \in Nat /\ Len(plane.payments) <= MaxPayments
  BY DEF ScreenInv, PlaneOK, Planes
<1>2. UNCHANGED <<kiosk, page, pricer, paying, listing>>
  BY DEF SettlePayment, CaptureLate
<1>3. PICK status \in Settled : plane' = [plane EXCEPT !.payments[p].status = status]
  BY DEF SettlePayment, CaptureLate, Settled
<1> DEFINE entry == [plane.payments[p] EXCEPT !.status = status]
           rows == [plane.payments EXCEPT ![p] = entry]
<1>4. entry \in Payments
  BY <1>1 DEF Payments
<1>5. rows \in Seq(Payments) /\ Len(rows) = Len(plane.payments)
  BY <1>1, <1>4, OnePayment
<1>6. plane' = [plane EXCEPT !.payments = rows]
  BY <1>3
<1> HIDE DEF rows
<1> QED
  BY <1>1, <1>2, <1>5, <1>6, PaymentRows, PlaneKeepsInv

LEMMA StartVisitStep == ASSUME ScreenInv, StartVisit PROVE ScreenInv'
<1>1. PlaneOK(plane) /\ plane \in Planes /\ plane.visit < MaxTurns
  BY DEF ScreenInv, PlaneOK, StartVisit
<1> DEFINE closed == Closed(plane)
           fresh == [initialState EXCEPT !.session = TRUE]
<1>2. closed \in Planes /\ Len(closed.quotes) <= MaxQuotes /\ Len(closed.payments) <= MaxPayments /\ closed.visit = plane.visit
  BY <1>1, ClosedRows
<1> HIDE DEF closed
<1>3. plane' = [closed EXCEPT !.visit = closed.visit + 1, !.over = FALSE, !.settings = None,
                  !.files = [d \in Documents |-> "ABSENT"], !.job = "none"]
  BY DEF StartVisit, closed
<1>4. PlaneOK(plane')
  <2>1. closed.visit + 1 \in 0..MaxTurns /\ closed.visit + 1 > 0
    BY <1>1, <1>2, ScreenAssumption DEF Planes
  <2>2. [d \in Documents |-> "ABSENT"] \in [Documents -> FileStatus]
    BY DEF FileStatus
  <2>3. plane' \in Planes /\ plane'.quotes = closed.quotes /\ plane'.payments = closed.payments /\ plane'.visit = closed.visit + 1
    BY <1>2, <1>3, <2>1, <2>2, NoneIsConfiguration DEF Planes
  <2> QED
    BY <1>2, <2>1, <2>3 DEF PlaneOK
<1>5. ScreenOK(fresh, plane')
  <2>1. fresh \in Kiosks /\ fresh.pricing = idlePricing /\ fresh.payment = idlePayment
    BY IdleScreen DEF initialState, Kiosks
  <2>2. fresh.pricing.status # "READY" /\ fresh.pricing.quote = 0 /\ fresh.payment.id = 0
    BY <2>1 DEF idlePricing, idlePayment
  <2> HIDE DEF fresh
  <2> QED
    BY <2>1, <2>2, UnpricedScreen
<1>6. Show(fresh, "/upload") /\ paying' = paying /\ listing' = NoListing
  BY DEF StartVisit
<1>7. "/upload" \in Pages /\ paying' \in SUBSET Presses
  BY <1>6 DEF Pages, ScreenInv
<1> HIDE DEF fresh
<1> QED
  BY <1>4, <1>5, <1>6, <1>7, ShowKeepsInv

LEMMA LeaveStep ==
  ASSUME ScreenInv, CloseVisit \/ VisitOverHeard \/ Finish
  PROVE  ScreenInv'
<1>1. PlaneOK(plane')
  <2>1. plane' = plane \/ plane' = Closed(plane)
    BY DEF CloseVisit, VisitOverHeard, Finish
  <2>2. PlaneOK(plane) /\ plane \in Planes
    BY DEF ScreenInv, PlaneOK
  <2> QED
    BY <2>1, <2>2, ClosedRows DEF PlaneOK
<1>2. Show(initialState, "/") /\ paying' = paying /\ listing' = NoListing
  BY DEF CloseVisit, VisitOverHeard, Finish
<1>3. "/" \in Pages /\ paying' \in SUBSET Presses
  BY <1>2 DEF Pages, ScreenInv
<1> QED
  BY <1>1, <1>2, <1>3, IdleScreen, ShowKeepsInv

LEMMA ReloadStep == ASSUME ScreenInv, Reload PROVE ScreenInv'
<1>1. PlaneOK(plane) /\ ScreenOK(kiosk, plane) /\ page \in Pages
  BY DEF ScreenInv, RoutesOK
<1>2. ScreenOK(restored, plane)
  <2>1. CASE restored = initialState
    BY <2>1, IdleScreen
  <2>2. CASE restored = persistFulfillmentState(kiosk)
    <3> DEFINE files == [d \in Documents |-> IF kiosk.files[d] = "READY" THEN "READY" ELSE "ABSENT"]
               payment == [kiosk.payment EXCEPT !.attempt = 1, !.error = FALSE]
    <3>1. files \in [Documents -> FileStatus]
      BY DEF FileStatus
    <3>2. kiosk.payment \in Attempts /\ kiosk.print \in Prints
      BY <1>1 DEF ScreenOK, Kiosks
    <3>3. payment \in Attempts /\ payment.id = kiosk.payment.id
      BY <3>2 DEF Attempts
    <3>4. restored = [initialState EXCEPT !.session = TRUE, !.files = files, !.payment = payment, !.print = kiosk.print]
      BY <2>2 DEF persistFulfillmentState
    <3> HIDE DEF files, payment
    <3>5. restored \in Kiosks /\ restored.pricing = idlePricing /\ restored.payment = payment
      BY <3>1, <3>2, <3>3, <3>4, IdleScreen DEF initialState, Kiosks
    <3> QED
      BY <1>1, <3>3, <3>5, UnpricedScreen DEF ScreenOK, idlePricing
  <2> QED
    BY <2>1, <2>2 DEF restored
<1>3. RoutesOK(page', kiosk', pricer')
  <2>1. kiosk' = restored /\ page' = Redirect(restored, page) /\ pricer' = [saved |-> None, runs |-> {}]
    BY DEF Reload
  <2> QED
    BY <1>1, <2>1, RedirectLeads, NoneIsConfiguration DEF RoutesOK, Pricers
<1>4. plane' = plane /\ kiosk' = restored /\ paying' = {} /\ listing' = NoListing
  BY DEF Reload
<1>5. listing' \in Seq([Documents -> FileStatus]) /\ Len(listing') <= 1
  BY <1>4, EmptySeq DEF NoListing
<1> QED
  BY <1>1, <1>2, <1>3, <1>4, <1>5 DEF ScreenInv

LEMMA ListingStep == ASSUME ScreenInv, ListFiles \/ SyncFiles PROVE ScreenInv'
<1>1. PlaneOK(plane) /\ ScreenOK(kiosk, plane) /\ RoutesOK(page, kiosk, pricer) /\ plane.files \in [Documents -> FileStatus]
  BY DEF ScreenInv, PlaneOK, Planes
<1>2. CASE ListFiles
  <2>1. <<plane.files>> \in Seq([Documents -> FileStatus]) /\ Len(<<plane.files>>) = 1
    BY <1>1
  <2>2. listing' = <<plane.files>> /\ UNCHANGED <<plane, kiosk, page, pricer, paying>>
    BY <1>2 DEF ListFiles
  <2>3. listing' \in Seq([Documents -> FileStatus]) /\ Len(listing') <= 1
    BY <2>1, <2>2
  <2> QED
    BY <2>2, <2>3 DEF ScreenInv
<1>3. CASE SyncFiles
  <2>1. listing[1] \in [Documents -> FileStatus]
    <3>1. listing \in Seq([Documents -> FileStatus]) /\ listing # <<>>
      BY <1>3 DEF SyncFiles, ScreenInv, NoListing
    <3>2. Len(listing) \in Nat \ {0}
      BY <3>1, EmptySeq
    <3>3. 1 \in 1..Len(listing)
      BY <3>2
    <3> QED
      BY <3>1, <3>3
  <2>2. Show(FilesSynced(kiosk, listing[1]), page) /\ plane' = plane /\ paying' = paying /\ listing' = NoListing
    BY <1>3 DEF SyncFiles
  <2>3. ScreenOK(FilesSynced(kiosk, listing[1]), plane')
    BY <1>1, <2>1, <2>2, SyncedScreen
  <2>4. page \in Pages /\ paying' \in SUBSET Presses
    BY <2>2 DEF ScreenInv, RoutesOK
  <2> QED
    BY <1>1, <2>2, <2>3, <2>4, ShowKeepsInv
<1> QED
  BY <1>2, <1>3

LEMMA ChoiceStep ==
  ASSUME ScreenInv, NEW d \in Documents, NEW c \in Variants, RemoveOnScreen(d) \/ Choose(d, c)
  PROVE  ScreenInv'
<1>1. PlaneOK(plane) /\ plane \in Planes /\ kiosk \in Kiosks /\ page \in Pages /\ paying \in SUBSET Presses
  BY DEF ScreenInv, PlaneOK, ScreenOK, RoutesOK
<1>2. CASE RemoveOnScreen(d)
  <2> DEFINE files == [plane.files EXCEPT ![d] = "DELETED"]
             others == [kiosk.files EXCEPT ![d] = "ABSENT"]
             kept == [kiosk EXCEPT !.files = others, !.selections = retainSelections(kiosk, others)]
             at == IF ReadyIn(kiosk.files) = {d} THEN "/upload" ELSE page
  <2>1. plane' = [plane EXCEPT !.files = files, !.settings = None, !.active = 0]
    BY <1>2 DEF RemoveOnScreen, Withdrawn
  <2>2. files \in [Documents -> FileStatus] /\ others \in [Documents -> FileStatus] /\ 0 \in 0..MaxQuotes
    BY <1>1, ScreenAssumption DEF Planes, Kiosks, FileStatus
  <2>3. retainSelections(kiosk, others) \in [Documents -> Variants]
    BY <1>1, ScreenAssumption DEF retainSelections, Kiosks
  <2>4. FileRemoved(kiosk, d) = Repriced(kept)
    BY DEF FileRemoved
  <2>5. Show(FileRemoved(kiosk, d), at) /\ paying' = paying /\ listing' = listing
    BY <1>2 DEF RemoveOnScreen
  <2>6. at \in Pages
    BY <1>1 DEF Pages
  <2> HIDE DEF files, others, at
  <2>7. kept \in Kiosks
    BY <1>1, <2>2, <2>3 DEF Kiosks
  <2> HIDE DEF kept
  <2>8. ScreenOK(FileRemoved(kiosk, d), plane')
    BY <2>4, <2>7, RepricedScreen
  <2>9. PlaneOK(plane')
    <3>1. plane' \in Planes /\ plane'.quotes = plane.quotes /\ plane'.payments = plane.payments
          /\ plane'.over = plane.over /\ plane'.visit = plane.visit
      BY <1>1, <2>1, <2>2, NoneIsConfiguration DEF Planes
    <3> QED
      BY <1>1, <3>1 DEF PlaneOK
  <2> QED
    BY <1>1, <2>5, <2>6, <2>8, <2>9, ShowKeepsInv
<1>3. CASE Choose(d, c)
  <2> DEFINE chosen == [kiosk.selections EXCEPT ![d] = c]
             kept == [kiosk EXCEPT !.selections = chosen]
  <2>1. chosen \in [Documents -> Variants]
    BY <1>1 DEF Kiosks
  <2>2. SelectionChanged(kiosk, d, c) = Repriced(kept)
    BY DEF SelectionChanged
  <2> HIDE DEF chosen
  <2>3. kept \in Kiosks
    BY <1>1, <2>1 DEF Kiosks
  <2> HIDE DEF kept
  <2>4. Show(SelectionChanged(kiosk, d, c), page) /\ plane' = plane /\ paying' = paying /\ listing' = listing
    BY <1>3 DEF Choose
  <2>5. ScreenOK(SelectionChanged(kiosk, d, c), plane')
    BY <2>2, <2>3, RepricedScreen
  <2> QED
    BY <1>1, <2>4, <2>5, ShowKeepsInv
<1> QED
  BY <1>2, <1>3

\* The customer walks on, tries again, or hands the screen back.
LEMMA WalkStep ==
  ASSUME ScreenInv, Go \/ RetryPayment \/ ResumePrint
  PROVE  ScreenInv'
<1>1. PlaneOK(plane) /\ ScreenOK(kiosk, plane) /\ kiosk \in Kiosks /\ paying \in SUBSET Presses
  BY DEF ScreenInv, ScreenOK
<1>2. UNCHANGED <<plane, paying, listing>>
  BY DEF Go, RetryPayment, ResumePrint
<1> DEFINE again == [kiosk EXCEPT !.payment = nextPaymentAttempt(kiosk.payment)]
<1>3. ScreenOK(again, plane)
  <2>1. nextPaymentAttempt(kiosk.payment) \in Attempts /\ nextPaymentAttempt(kiosk.payment).id = 0
    BY <1>1, NextAttempt DEF Kiosks
  <2>2. again \in Kiosks /\ again.files = kiosk.files /\ again.selections = kiosk.selections
        /\ again.pricing = kiosk.pricing /\ again.payment = nextPaymentAttempt(kiosk.payment)
    BY <1>1, <2>1 DEF Kiosks
  <2> HIDE DEF again
  <2> QED
    BY <1>1, <2>1, <2>2, SameScreen
<1>4. \E at \in Pages : Show(kiosk, at) \/ Show(again, at)
  BY DEF Go, RetryPayment, ResumePrint, Pages
<1> HIDE DEF again
<1>5. PICK at \in Pages : Show(kiosk, at) \/ Show(again, at)
  BY <1>4
<1> QED
  BY <1>1, <1>2, <1>3, <1>5, ShowKeepsInv

LEMMA PressPayStep == ASSUME ScreenInv, PressPay PROVE ScreenInv'
<1>1. kiosk.pricing.quote \in 1..MaxQuotes /\ kiosk.payment.attempt \in Nat
  BY ScreenAssumption DEF PressPay, ScreenInv, RoutesOK, ScreenOK, Kiosks, Pricings, Attempts
<1>2. paying' \in SUBSET Presses
  BY <1>1 DEF PressPay, Presses
<1>3. UNCHANGED <<plane, kiosk, page, pricer, listing>>
  BY DEF PressPay
<1> QED
  BY <1>2, <1>3 DEF ScreenInv

\* A run that answers is one the settings screen is still waiting for, or says nothing.
LEMMA AnswerKeepsInv ==
  ASSUME ScreenInv, PlaneOK(plane'), ScreenOK(kiosk', plane'), NEW r \in pricer.runs,
         kiosk' = kiosk \/ ~stale(r), NEW next \in Pricers, pricer' = next,
         \A q \in next.runs : q.mounted => (q \in pricer.runs \/ r.mounted),
         UNCHANGED <<page, paying, listing>>
  PROVE  ScreenInv'
<1>1. RoutesOK(page, kiosk, pricer)
  BY DEF ScreenInv
<1>2. r.mounted => page = "/configure"
  BY <1>1 DEF RoutesOK
<1>3. kiosk' # kiosk => page = "/configure"
  BY <1>2 DEF stale
<1>4. RoutesOK(page', kiosk', pricer')
  <2>1. "/configure" # "/checkout"
    OBVIOUS
  <2> QED
    BY <1>1, <1>2, <1>3, <2>1 DEF RoutesOK
<1> QED
  BY <1>4 DEF ScreenInv

LEMMA RunFailsStep ==
  ASSUME ScreenInv, NEW r \in pricer.runs, RunFails(r), PlaneOK(plane'), Grows(plane, plane'),
         UNCHANGED <<page, paying, listing>>
  PROVE  ScreenInv'
<1>1. PlaneOK(plane) /\ ScreenOK(kiosk, plane) /\ kiosk \in Kiosks /\ pricer \in Pricers
  BY DEF ScreenInv, ScreenOK, RoutesOK
<1> DEFINE next == [saved |-> IF r.mounted THEN None ELSE pricer.saved, runs |-> pricer.runs \ {r}]
           failed == [idlePricing EXCEPT !.status = "FAILED"]
<1>2. next \in Pricers /\ next.runs \subseteq pricer.runs
  BY <1>1, NoneIsConfiguration DEF Pricers
<1>3. ScreenOK(PricingFailed(kiosk), plane')
  <2>1. failed \in Pricings /\ failed.status = "FAILED" /\ failed.quote = 0
    BY NoneIsConfiguration, ScreenAssumption DEF Pricings, idlePricing
  <2>2. PricingFailed(kiosk) = [kiosk EXCEPT !.pricing = failed]
    BY DEF PricingFailed
  <2> HIDE DEF failed
  <2>3. PricingFailed(kiosk) \in Kiosks /\ PricingFailed(kiosk).pricing = failed /\ PricingFailed(kiosk).payment = kiosk.payment
    BY <1>1, <2>1, <2>2 DEF Kiosks
  <2>4. kiosk.payment.id # 0 => kiosk.payment.id \in DOMAIN plane'.payments
    BY <1>1, ScreenOutlivesRows DEF ScreenOK
  <2> QED
    BY <2>1, <2>3, <2>4, UnpricedScreen
<1>4. ScreenOK(kiosk, plane')
  BY <1>1, ScreenOutlivesRows
<1>5. pricer' = next /\ kiosk' = (IF stale(r) THEN kiosk ELSE PricingFailed(kiosk))
  BY DEF RunFails
<1>6. ScreenOK(kiosk', plane') /\ (kiosk' = kiosk \/ ~stale(r))
  BY <1>3, <1>4, <1>5
<1> HIDE DEF next
<1> QED
  BY <1>2, <1>5, <1>6, AnswerKeepsInv

LEMMA SaveSettingsStep ==
  ASSUME ScreenInv, NEW r \in pricer.runs, SaveSettings(r)
  PROVE  ScreenInv'
<1>1. PlaneOK(plane) /\ plane \in Planes /\ ScreenOK(kiosk, plane) /\ pricer \in Pricers /\ r \in Runs
  BY DEF ScreenInv, PlaneOK, RoutesOK, Pricers
<1>2. UNCHANGED <<page, paying, listing>>
  BY DEF SaveSettings
<1>3. PlaneOK(plane') /\ Grows(plane, plane')
  <2>1. plane' = plane \/ plane' = [plane EXCEPT !.settings = r.key, !.active = 0]
    BY DEF SaveSettings
  <2>2. r.key \in Configurations /\ 0 \in 0..MaxQuotes
    BY <1>1, ScreenAssumption DEF Runs
  <2>3. plane' \in Planes /\ plane'.quotes = plane.quotes /\ plane'.payments = plane.payments
        /\ plane'.over = plane.over /\ plane'.visit = plane.visit
    BY <1>1, <2>1, <2>2 DEF Planes
  <2> QED
    BY <1>1, <2>3, OtherRows DEF PlaneOK
<1>4. CASE RunFails(r)
  BY <1>2, <1>3, <1>4, RunFailsStep
<1>5. CASE kiosk' = kiosk /\ (\/ pricer' = [pricer EXCEPT !.runs = pricer.runs \ {r}]
                              \/ ~stale(r) /\ pricer' = [saved |-> r.key, runs |-> (pricer.runs \ {r}) \cup {[r EXCEPT !.step = "quoting"]}])
  <2>1. ScreenOK(kiosk', plane')
    BY <1>1, <1>3, <1>5, ScreenOutlivesRows
  <2>2. CASE pricer' = [pricer EXCEPT !.runs = pricer.runs \ {r}]
    <3>1. pricer' \in Pricers /\ pricer'.runs \subseteq pricer.runs
      BY <1>1, <2>2 DEF Pricers
    <3> QED
      BY <1>2, <1>3, <1>5, <2>1, <3>1, AnswerKeepsInv
  <2>3. CASE ~stale(r) /\ pricer' = [saved |-> r.key, runs |-> (pricer.runs \ {r}) \cup {[r EXCEPT !.step = "quoting"]}]
    <3> DEFINE asking == [r EXCEPT !.step = "quoting"]
    <3>1. asking \in Runs /\ r.key \in Configurations
      BY <1>1 DEF Runs
    <3> HIDE DEF asking
    <3>2. pricer' = [saved |-> r.key, runs |-> (pricer.runs \ {r}) \cup {asking}]
      BY <2>3 DEF asking
    <3>3. pricer' \in Pricers /\ pricer'.runs \subseteq pricer.runs \cup {asking}
      BY <1>1, <3>1, <3>2 DEF Pricers
    <3>4. r.mounted
      BY <2>3 DEF stale
    <3> QED
      BY <1>2, <1>3, <1>5, <2>1, <3>3, <3>4, AnswerKeepsInv
  <2> QED
    BY <1>5, <2>2, <2>3
<1> QED
  BY <1>4, <1>5 DEF SaveSettings

LEMMA CreateQuoteStep ==
  ASSUME ScreenInv, NEW r \in pricer.runs, CreateQuote(r)
  PROVE  ScreenInv'
<1>1. PlaneOK(plane) /\ plane \in Planes /\ ScreenOK(kiosk, plane) /\ kiosk \in Kiosks /\ pricer \in Pricers /\ r \in Runs
  BY DEF ScreenInv, PlaneOK, ScreenOK, RoutesOK, Pricers
<1>2. UNCHANGED <<page, paying, listing>>
  BY DEF CreateQuote
<1> DEFINE q == Len(plane.quotes) + 1
           quotes == Append(plane.quotes, r.key)
<1>3. plane.quotes \in Seq(Configurations) /\ Len(plane.quotes) \in Nat /\ r.key \in Configurations
  BY <1>1 DEF Planes, Runs
<1>4. quotes \in Seq(Configurations) /\ Len(quotes) = q /\ quotes[q] = r.key /\ DOMAIN quotes = 1..q
      /\ \A i \in DOMAIN plane.quotes : quotes[i] = plane.quotes[i]
  BY <1>3
<1>5. CASE RunFails(r) /\ plane' = plane
  BY <1>1, <1>2, <1>5, RunFailsStep DEF Grows, Planes
<1>6. CASE q <= MaxQuotes /\ plane' = [plane EXCEPT !.quotes = quotes, !.active = q]
  <2>1. q \in 0..MaxQuotes /\ q # 0 /\ q \in 1..q
    BY <1>3, <1>6, ScreenAssumption
  <2> HIDE DEF quotes, q
  <2>2. plane' \in Planes /\ plane'.quotes = quotes /\ plane'.payments = plane.payments
        /\ plane'.over = plane.over /\ plane'.visit = plane.visit
    BY <1>1, <1>4, <1>6, <2>1 DEF Planes
  <2>3. PlaneOK(plane') /\ Grows(plane, plane')
    <3>1. Len(plane.quotes) <= q /\ Len(plane.payments) \in Nat
      BY <1>1, <1>3 DEF q, Planes
    <3> QED
      BY <1>1, <1>4, <1>6, <2>2, <3>1 DEF PlaneOK, Grows
  <2>4. CASE RunFails(r)
    BY <1>2, <2>3, <2>4, RunFailsStep
  <2>5. CASE pricer' = [pricer EXCEPT !.runs = pricer.runs \ {r}] /\ kiosk' = (IF stale(r) THEN kiosk ELSE PricingResolved(kiosk, r.key, q))
    <3>1. ScreenOK(kiosk, plane')
      BY <1>1, <2>3, ScreenOutlivesRows
    <3>2. ASSUME ~stale(r) PROVE ScreenOK(PricingResolved(kiosk, r.key, q), plane')
      <4> DEFINE priced == [status |-> "READY", for |-> r.key, quote |-> q]
                 next == [kiosk EXCEPT !.pricing = priced]
      <4>1. priced \in Pricings /\ priced.quote = q /\ priced.for = r.key
        BY <1>3, <2>1 DEF Pricings
      <4> HIDE DEF priced
      <4>2. next \in Kiosks /\ next.files = kiosk.files /\ next.selections = kiosk.selections
            /\ next.pricing = priced /\ next.payment = kiosk.payment
        BY <1>1, <4>1 DEF Kiosks
      <4> HIDE DEF next
      <4>3. Shown(next) = Shown(kiosk) /\ Shown(kiosk) = r.key
        BY <3>2, <4>2 DEF Shown, stale
      <4>4. kiosk.payment.id # 0 => kiosk.payment.id \in DOMAIN plane'.payments
        BY <3>1 DEF ScreenOK
      <4>5. plane'.quotes[q] = r.key /\ q \in DOMAIN plane'.quotes
        BY <1>4, <2>1, <2>2
      <4>6. ScreenOK(next, plane')
        BY <2>1, <4>1, <4>2, <4>3, <4>4, <4>5 DEF ScreenOK
      <4> QED
        BY <4>6 DEF PricingResolved, next, priced
    <3>3. pricer' \in Pricers /\ pricer'.runs \subseteq pricer.runs
      BY <1>1, <2>5 DEF Pricers
    <3>4. ScreenOK(kiosk', plane') /\ (kiosk' = kiosk \/ ~stale(r))
      BY <2>5, <3>1, <3>2
    <3> QED
      BY <1>2, <2>3, <3>3, <3>4, AnswerKeepsInv
  <2>6. RunFails(r) \/ (pricer' = [pricer EXCEPT !.runs = pricer.runs \ {r}] /\ kiosk' = (IF stale(r) THEN kiosk ELSE PricingResolved(kiosk, r.key, q)))
    BY <1>6 DEF CreateQuote, q
  <2> QED
    BY <2>4, <2>5, <2>6
<1> QED
  BY <1>5, <1>6 DEF CreateQuote

LEMMA AskPriceStep ==
  ASSUME ScreenInv, StartPricing \/ DropPrice
  PROVE  ScreenInv'
<1>1. PlaneOK(plane) /\ ScreenOK(kiosk, plane) /\ kiosk \in Kiosks /\ RoutesOK(page, kiosk, pricer) /\ pricer \in Pricers
      /\ page = "/configure" /\ page \in Pages
  BY DEF ScreenInv, ScreenOK, RoutesOK, StartPricing, DropPrice
<1>2. UNCHANGED <<plane, page, paying, listing>>
  BY DEF StartPricing, DropPrice
<1>3. pricer' \in Pricers
  <2>1. CASE StartPricing
    <3> DEFINE begun == [key |-> Shown(kiosk), mounted |-> TRUE, step |-> IF pricer.saved = Shown(kiosk) THEN "quoting" ELSE "saving"]
    <3>1. begun \in Runs
      BY <1>1, ShownIsConfiguration DEF Runs
    <3>2. pricer' = [pricer EXCEPT !.runs = pricer.runs \cup {begun}]
      BY <2>1 DEF StartPricing
    <3> HIDE DEF begun
    <3> QED
      BY <1>1, <3>1, <3>2 DEF Pricers
  <2>2. CASE DropPrice
    BY <1>1, <2>2, NoneIsConfiguration DEF DropPrice, Pricers
  <2> QED
    BY <2>1, <2>2
<1>4. ScreenOK(kiosk', plane)
  <2>1. CASE StartPricing
    <3> DEFINE waiting == [kiosk.pricing EXCEPT !.status = "PENDING"]
    <3>1. waiting \in Pricings /\ waiting.status = "PENDING" /\ waiting.quote = kiosk.pricing.quote
      BY <1>1 DEF Kiosks, Pricings
    <3>2. kiosk' = [kiosk EXCEPT !.pricing = waiting]
      BY <2>1 DEF StartPricing, PricingPending
    <3> HIDE DEF waiting
    <3>3. kiosk' \in Kiosks /\ kiosk'.pricing = waiting /\ kiosk'.payment = kiosk.payment
      BY <1>1, <3>1, <3>2 DEF Kiosks
    <3> QED
      BY <1>1, <3>1, <3>3, UnpricedScreen DEF ScreenOK
  <2>2. CASE DropPrice
    BY <1>1, <2>2, RepricedScreen DEF DropPrice
  <2> QED
    BY <2>1, <2>2
<1>5. RoutesOK(page', kiosk', pricer')
  BY <1>1, <1>2, <1>3 DEF RoutesOK
<1> QED
  BY <1>2, <1>4, <1>5 DEF ScreenInv

LEMMA StartPaymentStep ==
  ASSUME ScreenInv, NEW a \in paying, StartPayment(a)
  PROVE  ScreenInv'
<1>1. PlaneOK(plane) /\ plane \in Planes /\ ScreenOK(kiosk, plane) /\ kiosk \in Kiosks /\ a \in Presses
      /\ Len(plane.payments) \in Nat
  BY DEF ScreenInv, PlaneOK, ScreenOK, Planes
<1>2. paying' \in SUBSET Presses /\ listing' = listing
  BY DEF StartPayment, ScreenInv
<1>3. "/payment" \in Pages /\ "/configure" \in Pages
  BY DEF Pages
<1>4. ASSUME PlaneOK(plane'), Grows(plane, plane'), UNCHANGED <<kiosk, page, pricer>>
      PROVE  ScreenInv'
  <2>1. ScreenOK(kiosk, plane')
    BY <1>1, <1>4, ScreenOutlivesRows
  <2> QED
    BY <1>2, <1>4, <2>1 DEF ScreenInv
<1>5. ASSUME PlaneOK(plane'), Grows(plane, plane'), NEW p \in DOMAIN plane'.payments,
             Show(PaymentObserved(kiosk, p, plane'.payments[p].status), "/payment")
      PROVE  ScreenInv'
  <2>1. ScreenOK(PaymentObserved(kiosk, p, plane'.payments[p].status), plane')
    BY <1>1, <1>5, ScreenOutlivesRows, PaidScreen
  <2> QED
    BY <1>2, <1>3, <1>5, <2>1, ShowKeepsInv
<1>6. PlaneOK(plane) /\ Grows(plane, plane)
  BY <1>1 DEF Grows, Planes
<1>7. CASE plane' = plane /\ UNCHANGED <<kiosk, page, pricer>>
  BY <1>4, <1>6, <1>7
<1>8. CASE plane' = plane /\ \E p \in startKioskPayment(a) : Show(PaymentObserved(kiosk, p, plane.payments[p].status), "/payment")
  <2>1. PICK p \in DOMAIN plane.payments : Show(PaymentObserved(kiosk, p, plane.payments[p].status), "/payment")
    BY <1>8 DEF startKioskPayment
  <2> QED
    BY <1>5, <1>6, <1>8, <2>1
<1>9. CASE plane' = plane /\ Show(Repriced(kiosk), "/configure")
  BY <1>1, <1>2, <1>3, <1>6, <1>9, RepricedScreen, ShowKeepsInv
<1> DEFINE new == Len(plane.payments) + 1
           entry == [quote |-> a.quote, attempt |-> a.attempt, visit |-> plane.visit, status |-> "PENDING", confirmed |-> FALSE]
           rows == Append(plane.payments, entry)
           asked == /\ Accepting /\ new <= MaxPayments /\ plane' = [plane EXCEPT !.payments = rows]
                    /\ Show(PaymentObserved(kiosk, new, "PENDING"), "/payment") \/ UNCHANGED <<kiosk, page, pricer>>
<1>10. CASE asked
  <2>1. entry \in Payments /\ entry.status = "PENDING"
    <3>1. plane.visit \in 1..MaxTurns
      BY <1>1, <1>10, ScreenAssumption DEF Accepting, PlaneOK, Planes
    <3> QED
      BY <1>1, <3>1 DEF Presses, Payments
  <2>2. plane.payments \in Seq(Payments)
    BY <1>1 DEF Planes
  <2> HIDE DEF entry
  <2>3. rows \in Seq(Payments) /\ Len(rows) = new /\ rows[new] = entry /\ new \in DOMAIN rows
    BY <1>1, <2>1, <2>2
  <2>4. new <= MaxPayments /\ Len(plane.payments) <= new
    BY <1>1, <1>10
  <2>5. plane' = [plane EXCEPT !.payments = rows]
        /\ (Show(PaymentObserved(kiosk, new, "PENDING"), "/payment") \/ UNCHANGED <<kiosk, page, pricer>>)
    BY <1>10
  <2> HIDE DEF rows, new
  <2>6. PlaneOK(plane') /\ Grows(plane, plane')
    BY <1>1, <2>3, <2>4, <2>5, PaymentRows
  <2>7. plane'.payments = rows
    BY <1>1, <2>5 DEF Planes
  <2> QED
    BY <1>4, <1>5, <2>1, <2>3, <2>5, <2>6, <2>7
<1>11. \/ plane' = plane /\ UNCHANGED <<kiosk, page, pricer>>
       \/ plane' = plane /\ \E p \in startKioskPayment(a) : Show(PaymentObserved(kiosk, p, plane.payments[p].status), "/payment")
       \/ plane' = plane /\ Show(Repriced(kiosk), "/configure")
       \/ asked
  BY DEF StartPayment
<1> QED
  BY <1>7, <1>8, <1>9, <1>10, <1>11

LEMMA WatchPaymentStep == ASSUME ScreenInv, WatchPayment PROVE ScreenInv'
<1>1. PlaneOK(plane) /\ plane \in Planes /\ ScreenOK(kiosk, plane) /\ kiosk \in Kiosks /\ paying \in SUBSET Presses
      /\ page \in Pages /\ Mine \in DOMAIN plane.payments
  BY DEF ScreenInv, PlaneOK, ScreenOK, RoutesOK, WatchPayment, Mine
<1>2. paying' = paying /\ listing' = listing
  BY DEF WatchPayment
<1>3. CASE plane' = [plane EXCEPT !.payments[Mine].confirmed = TRUE] /\ UNCHANGED <<kiosk, page, pricer>>
  <2> DEFINE entry == [plane.payments[Mine] EXCEPT !.confirmed = TRUE]
             rows == [plane.payments EXCEPT ![Mine] = entry]
  <2>1. plane.payments \in Seq(Payments) /\ Len(plane.payments) \in Nat /\ Len(plane.payments) <= MaxPayments
    BY <1>1 DEF PlaneOK, Planes
  <2>2. plane.payments[Mine] \in Payments
    BY <1>1, <2>1
  <2>3. entry \in Payments
    BY <2>2 DEF Payments
  <2>4. plane' = [plane EXCEPT !.payments = rows] /\ UNCHANGED <<kiosk, page, pricer>>
    BY <1>3
  <2>5. rows \in Seq(Payments) /\ Len(rows) = Len(plane.payments)
    <3> HIDE DEF entry
    <3> QED
      BY <1>1, <2>3, OnePayment
  <2> HIDE DEF rows
  <2>6. Len(rows) <= MaxPayments /\ Len(plane.payments) <= Len(rows)
    BY <2>1, <2>5
  <2>7. PlaneOK(plane') /\ Grows(plane, plane')
    BY <1>1, <2>4, <2>5, <2>6, PaymentRows
  <2> QED
    BY <1>2, <2>4, <2>7, PlaneKeepsInv
<1>4. CASE plane' = plane /\ ObservePayment
  <2>1. PICK at \in Pages : Show(PaymentObserved(kiosk, Mine, plane.payments[Mine].status), at)
    BY <1>1, <1>4 DEF ObservePayment, Pages
  <2>2. ScreenOK(PaymentObserved(kiosk, Mine, plane.payments[Mine].status), plane)
    BY <1>1, PaidScreen
  <2> QED
    BY <1>1, <1>2, <1>4, <2>1, <2>2, ShowKeepsInv
<1>5. CASE plane' = plane /\ ToFailure(kiosk)
  <2> DEFINE failed == [kiosk.payment EXCEPT !.error = TRUE]
             next == [kiosk EXCEPT !.payment = failed]
  <2>1. failed \in Attempts /\ failed.id = kiosk.payment.id
    BY <1>1 DEF Kiosks, Attempts
  <2>2. Show(next, "/failure/payment")
    BY <1>5 DEF ToFailure
  <2> HIDE DEF failed
  <2>3. next \in Kiosks /\ next.files = kiosk.files /\ next.selections = kiosk.selections
        /\ next.pricing = kiosk.pricing /\ next.payment = failed
    BY <1>1, <2>1 DEF Kiosks
  <2> HIDE DEF next
  <2>4. ScreenOK(next, plane)
    BY <1>1, <2>1, <2>3, SameScreen DEF ScreenOK
  <2>5. "/failure/payment" \in Pages
    BY DEF Pages
  <2> QED
    BY <1>1, <1>2, <1>5, <2>2, <2>4, <2>5, ShowKeepsInv
<1> QED
  BY <1>3, <1>4, <1>5 DEF WatchPayment

LEMMA WatchPrintStep == ASSUME ScreenInv, WatchPrint PROVE ScreenInv'
<1>1. PlaneOK(plane) /\ plane \in Planes /\ ScreenOK(kiosk, plane) /\ kiosk \in Kiosks /\ paying \in SUBSET Presses
  BY DEF ScreenInv, PlaneOK, ScreenOK
<1>2. paying' = paying /\ listing' = listing
  BY DEF WatchPrint
<1>3. PlaneOK(plane') /\ Grows(plane, plane')
  <2>1. plane' = plane \/ plane' = [plane EXCEPT !.job = "QUEUED"]
    BY DEF WatchPrint, startKioskPrintJob
  <2>2. plane' \in Planes /\ plane'.quotes = plane.quotes /\ plane'.payments = plane.payments
        /\ plane'.over = plane.over /\ plane'.visit = plane.visit
    BY <1>1, <2>1 DEF Planes
  <2> QED
    BY <1>1, <2>2, OtherRows DEF PlaneOK
<1>4. \E pr \in Prints, at \in Pages : Show([kiosk EXCEPT !.print = pr], at)
  <2>1. page = "/printing" /\ "/printing" \in Pages /\ "/failure/printer" \in Pages
    BY DEF WatchPrint, Pages
  <2>2. ASSUME NEW status \in {"QUEUED", plane.job}, Show(PrintObserved(kiosk, status), page), status # "none"
        PROVE  \E pr \in Prints, at \in Pages : Show([kiosk EXCEPT !.print = pr], at)
    <3>1. [seen |-> status, failure |-> "none"] \in Prints
      BY <1>1, <2>2 DEF Planes, Prints
    <3> QED
      BY <2>1, <2>2, <3>1 DEF PrintObserved
  <2>3. ASSUME NEW f \in {"RETRYABLE", "OPERATOR_REQUIRED"}, Show([kiosk EXCEPT !.print.failure = f], "/failure/printer")
        PROVE  \E pr \in Prints, at \in Pages : Show([kiosk EXCEPT !.print = pr], at)
    <3> DEFINE pr == [kiosk.print EXCEPT !.failure = f]
    <3>1. pr \in Prints
      BY <1>1 DEF Kiosks, Prints
    <3>2. Show([kiosk EXCEPT !.print = pr], "/failure/printer")
      BY <2>3
    <3> QED
      BY <2>1, <3>1, <3>2
  <2> QED
    BY <2>2, <2>3 DEF WatchPrint
<1>5. PICK pr \in Prints, at \in Pages : Show([kiosk EXCEPT !.print = pr], at)
  BY <1>4
<1>6. ScreenOK([kiosk EXCEPT !.print = pr], plane')
  BY <1>1, <1>3, ScreenOutlivesRows, PrintScreen
<1> QED
  BY <1>1, <1>2, <1>3, <1>5, <1>6, ShowKeepsInv

-----------------------------------------------------------------------------
(* The theorem *)

LEMMA ScreenInitially == ScreenInit => ScreenInv
<1> SUFFICES ASSUME ScreenInit PROVE ScreenInv
  OBVIOUS
<1>1. PlaneOK(plane)
  <2>1. plane \in Planes
    <3>1. [d \in Documents |-> "ABSENT"] \in [Documents -> FileStatus] /\ 0 \in 0..MaxTurns /\ 0 \in 0..MaxQuotes
      BY ScreenAssumption DEF FileStatus
    <3>2. <<>> \in Seq(Configurations) /\ <<>> \in Seq(Payments)
      BY EmptySeq
    <3> QED
      BY <3>1, <3>2, NoneIsConfiguration DEF ScreenInit, Planes
  <2>2. Len(plane.quotes) = 0 /\ Len(plane.payments) = 0 /\ plane.over
    BY EmptySeq DEF ScreenInit
  <2> QED
    BY <2>1, <2>2, ScreenAssumption DEF PlaneOK
<1>2. ScreenOK(kiosk, plane)
  BY IdleScreen DEF ScreenInit
<1>3. RoutesOK(page, kiosk, pricer)
  BY NoneIsConfiguration DEF ScreenInit, RoutesOK, Pricers, Pages
<1>4. paying \in SUBSET Presses /\ listing \in Seq([Documents -> FileStatus]) /\ Len(listing) <= 1
  BY EmptySeq DEF ScreenInit, NoListing
<1> QED
  BY <1>1, <1>2, <1>3, <1>4 DEF ScreenInv

LEMMA ScreenStays == ScreenInv /\ UNCHANGED screenVars => ScreenInv'
BY DEF ScreenInv, screenVars

LEMMA InvPricesMatch == ScreenInv => PriceMatchesScreen
BY DEF ScreenInv, PriceMatchesScreen, ScreenTypeOK, PlaneOK, ScreenOK, RoutesOK, Planes, Payments, Kiosks, Pricings,
       Attempts, Prints, Pricers, Runs, Presses

LEMMA ScreenStep == ScreenInv /\ ScreenNext => ScreenInv'
<1> SUFFICES ASSUME ScreenInv, ScreenNext PROVE ScreenInv'
  OBVIOUS
<1>0. 1 \in Variants
  BY ScreenAssumption
<1>1. CASE \E d \in Documents : Upload(d) \/ Validate(d) \/ RemoveOnPhone(d) \/ RemoveOnScreen(d)
  BY <1>0, <1>1, FilesStep, ChoiceStep
<1>2. CASE \E d \in Documents, c \in Variants : Choose(d, c)
  BY <1>2, ChoiceStep
<1>3. CASE \E p \in DOMAIN plane.payments : SettlePayment(p) \/ CaptureLate(p)
  BY <1>3, ProviderStep
<1>4. CASE \E r \in pricer.runs : SaveSettings(r) \/ CreateQuote(r)
  BY <1>4, SaveSettingsStep, CreateQuoteStep
<1>5. CASE \E a \in paying : StartPayment(a)
  BY <1>5, StartPaymentStep
<1>6. CASE QuoteExpires \/ JobEnds \/ SessionExpires
  BY <1>6, ClockStep
<1>7. CASE StartVisit \/ CloseVisit \/ VisitOverHeard \/ Reload
  BY <1>7, StartVisitStep, LeaveStep, ReloadStep
<1>8. CASE ListFiles \/ SyncFiles
  BY <1>8, ListingStep
<1>9. CASE Go \/ RetryPayment \/ ResumePrint
  BY <1>9, WalkStep
<1>10. CASE StartPricing \/ DropPrice
  BY <1>10, AskPriceStep
<1>11. CASE PressPay
  BY <1>11, PressPayStep
<1>12. CASE WatchPayment \/ WatchPrint
  BY <1>12, WatchPaymentStep, WatchPrintStep
<1>13. CASE Finish
  BY <1>13, LeaveStep
<1> QED
  BY <1>1, <1>2, <1>3, <1>4, <1>5, <1>6, <1>7, <1>8, <1>9, <1>10, <1>11, <1>12, <1>13 DEF ScreenNext

\* However choices, documents, runs, answers and reloads interleave, a price on
\* screen is the one the control plane quoted for what is on screen
\* (usePricing.ts: "never shows a stale one").
THEOREM PricesMatchScreens == ScreenSpec => []PriceMatchesScreen
<1>1. ScreenInit => ScreenInv
  BY ScreenInitially
<1>2. ScreenInv /\ [ScreenNext]_screenVars => ScreenInv'
  BY ScreenStep, ScreenStays
<1>3. ScreenInv => PriceMatchesScreen
  BY InvPricesMatch
<1> QED
  BY <1>1, <1>2, <1>3, PTL DEF ScreenSpec


-----------------------------------------------------------------------------
(* The phone's way in: one phone per code, and its claim stays with it.     *)

Visits == [state : VisitStates, version : 1..(MaxVersion + 1), late : BOOLEAN,
           grant : {"ACTIVE", "CLAIMED", "REVOKED", "EXPIRED"}, by : Nonces, key : 1..MaxKeys]
Doors == [stage : {"idle", "posting", "reading", "canceling", "showing"}, pending : 0..MaxKeys, made : 0..MaxKeys,
          again : BOOLEAN, target : 0..MaxVisits, version : 0..(MaxVersion + 1), tries : 0..2, shown : 0..MaxVisits]
Phones == [page : {"away", "opened", "joined", "sending", "closed", "failed"}, at : 0..MaxVisits, token : BOOLEAN,
           nonce : Nonces, stored : [1..MaxVisits -> Nonces], cookies : SUBSET (1..MaxVisits), loads : Nat]

VisitOK(v) ==
  /\ v \in Visits /\ (Live(v) => v.version <= MaxVersion)
  /\ v.grant = "CLAIMED" => v.by # NoNonce
DoorOK(d, vs) ==
  /\ d \in Doors /\ d.shown <= Len(vs) /\ d.target <= Len(vs)
  /\ d.stage = "posting" => d.pending # 0
  /\ d.stage \in {"reading", "canceling"} => d.target # 0
  /\ d.stage = "showing" => d.shown # 0
\* A phone's nonces are its own; the one in memory is the one in storage.
PhoneOK(t, p, vs) ==
  /\ p \in Phones /\ p.at <= Len(vs) /\ \A s \in p.cookies : s <= Len(vs)
  /\ p.page # "away" => p.at # 0
  /\ p.nonce # NoNonce => p.nonce[1] = t /\ (t \in PrivateTabs \/ (p.at # 0 /\ p.stored[p.at] = p.nonce))
  /\ \A s \in 1..MaxVisits : p.stored[s] # NoNonce => p.stored[s][1] = t
\* A session's cookies are where its claim was made.
ClaimOK(t, p, s, v) ==
  /\ s \in p.cookies => v.grant # "ACTIVE" /\ v.by # NoNonce /\ v.by[1] = t
  /\ v.grant = "CLAIMED" /\ v.by[1] = t => s \in p.cookies \/ t \in PrivateTabs \/ v.by = p.stored[s]
MobileInv ==
  /\ visits \in Seq(Visits) /\ Len(visits) <= MaxVisits /\ \A s \in VisitIds : VisitOK(visits[s])
  /\ DoorOK(door, visits)
  /\ tab \in [Tabs -> Phones] /\ \A t \in Tabs : PhoneOK(t, tab[t], visits)
  /\ \A t \in Tabs, s \in VisitIds : ClaimOK(t, tab[t], s, visits[s])

\* What a session may become without its phones: its claim is kept, or given up.
Follows(v, w) ==
  /\ w.by = v.by
  /\ v.grant # "ACTIVE" => w.grant # "ACTIVE"
  /\ w.grant = "CLAIMED" => v.grant = "CLAIMED"

LEMMA NoNonceTyped == NoNonce \in Nonces /\ \A n \in Nonces : n # NoNonce => n[1] \in Tabs
BY DEF Nonces, NoNonce

LEMMA VisitsStep ==
  ASSUME MobileInv, tab' = tab, visits' \in Seq(Visits), Len(visits) <= Len(visits'), Len(visits') <= MaxVisits,
         \A s \in 1..Len(visits) : VisitOK(visits'[s]) /\ Follows(visits[s], visits'[s]),
         \A s \in 1..Len(visits') : s \notin 1..Len(visits) => VisitOK(visits'[s]) /\ visits'[s].grant = "ACTIVE",
         DoorOK(door', visits')
  PROVE  MobileInv'
<1>1. Len(visits) \in Nat /\ Len(visits') \in Nat
  BY DEF MobileInv
<1>2. \A s \in 1..Len(visits') : VisitOK(visits'[s])
  OBVIOUS
<1>3. ASSUME NEW t \in Tabs PROVE PhoneOK(t, tab[t], visits')
  <2>1. PhoneOK(t, tab[t], visits)
    BY DEF MobileInv
  <2> QED
    BY <1>1, <2>1, MobileAssumption DEF PhoneOK, Phones
<1>4. ASSUME NEW t \in Tabs, NEW s \in 1..Len(visits') PROVE ClaimOK(t, tab[t], s, visits'[s])
  <2>1. CASE s \in 1..Len(visits)
    <3>1. ClaimOK(t, tab[t], s, visits[s]) /\ Follows(visits[s], visits'[s])
      BY <2>1 DEF MobileInv, VisitIds
    <3> QED
      BY <3>1 DEF ClaimOK, Follows
  <2>2. CASE s \notin 1..Len(visits)
    <3>1. visits'[s].grant = "ACTIVE"
      BY <2>2
    <3>2. s \notin tab[t].cookies
      BY <1>1, <2>2 DEF MobileInv, PhoneOK
    <3> QED
      BY <3>1, <3>2 DEF ClaimOK
  <2> QED
    BY <2>1, <2>2
<1>5. tab' \in [Tabs -> Phones] /\ (\A t \in Tabs : PhoneOK(t, tab'[t], visits'))
      /\ \A t \in Tabs, s \in 1..Len(visits') : ClaimOK(t, tab'[t], s, visits'[s])
  BY <1>3, <1>4 DEF MobileInv
<1> QED
  BY <1>2, <1>5 DEF MobileInv, VisitIds

\* One session changes where it stands.
LEMMA VisitStep ==
  ASSUME MobileInv, tab' = tab, door' = door, NEW s \in VisitIds, NEW w, VisitOK(w), Follows(visits[s], w),
         visits' = [visits EXCEPT ![s] = w]
  PROVE  MobileInv'
<1>1. visits \in Seq(Visits) /\ w \in Visits /\ Len(visits) <= MaxVisits /\ Len(visits) \in Nat
  BY DEF MobileInv, VisitOK
<1>2. visits' \in Seq(Visits) /\ Len(visits') = Len(visits) /\ s \in 1..Len(visits)
  BY <1>1 DEF VisitIds
<1>3. \A i \in 1..Len(visits) : VisitOK(visits'[i]) /\ Follows(visits[i], visits'[i])
  BY <1>1 DEF MobileInv, VisitIds, Follows
<1>4. DoorOK(door', visits')
  BY <1>2 DEF MobileInv, DoorOK
<1> QED
  BY <1>1, <1>2, <1>3, <1>4, VisitsStep

\* A phone's page changes.
LEMMA PhoneStep ==
  ASSUME MobileInv, UNCHANGED <<visits, door>>, NEW t \in Tabs, NEW p,
         tab' = [tab EXCEPT ![t] = p], PhoneOK(t, p, visits),
         \A s \in VisitIds : ClaimOK(t, p, s, visits[s])
  PROVE  MobileInv'
<1>1. tab' \in [Tabs -> Phones] /\ tab'[t] = p /\ \A u \in Tabs \ {t} : tab'[u] = tab[u]
  BY DEF MobileInv, PhoneOK
<1>2. \A u \in Tabs : PhoneOK(u, tab'[u], visits)
  BY <1>1 DEF MobileInv
<1>3. \A u \in Tabs, s \in VisitIds : ClaimOK(u, tab'[u], s, visits[s])
  BY <1>1 DEF MobileInv
<1> QED
  BY <1>1, <1>2, <1>3 DEF MobileInv, VisitIds

\* A phone's page changes, and neither its nonces nor its cookies with it.
LEMMA PageStep ==
  ASSUME MobileInv, UNCHANGED <<visits, door>>, NEW t \in Tabs, tab[t].at # 0,
         NEW to \in {"away", "opened", "joined", "sending", "closed", "failed"}, tab' = [tab EXCEPT ![t].page = to]
  PROVE  MobileInv'
<1> DEFINE p == [tab[t] EXCEPT !.page = to]
<1>1. PhoneOK(t, tab[t], visits) /\ tab[t] \in Phones
  BY DEF MobileInv, PhoneOK
<1>2. p \in Phones /\ p.at = tab[t].at /\ p.nonce = tab[t].nonce /\ p.stored = tab[t].stored /\ p.cookies = tab[t].cookies
  BY <1>1 DEF Phones
<1>3. tab' = [tab EXCEPT ![t] = p]
  OBVIOUS
<1> HIDE DEF p
<1>4. PhoneOK(t, p, visits)
  BY <1>1, <1>2 DEF PhoneOK
<1>5. \A s \in VisitIds : ClaimOK(t, p, s, visits[s])
  BY <1>2 DEF ClaimOK, MobileInv
<1> QED
  BY <1>3, <1>4, <1>5, PhoneStep

-----------------------------------------------------------------------------
(* The phones' steps *)

LEMMA OpenStep ==
  ASSUME MobileInv, NEW t \in Tabs, captureQrGrant(t) \/ PhoneReloads(t)
  PROVE  MobileInv'
<1>1. PhoneOK(t, tab[t], visits) /\ tab[t] \in Phones /\ tab[t].loads + 1 \in Nat /\ DoorOK(door, visits) /\ Len(visits) \in Nat
  BY DEF MobileInv, PhoneOK, Phones
<1>2. \E at \in 0..MaxVisits, token \in BOOLEAN :
        /\ at # 0 /\ at <= Len(visits)
        /\ tab' = [tab EXCEPT ![t] = [tab[t] EXCEPT !.page = "opened", !.at = at, !.token = token,
                                                   !.nonce = NoNonce, !.loads = tab[t].loads + 1]]
  <2>1. CASE captureQrGrant(t)
    <3>1. door.shown \in 0..MaxVisits /\ door.shown # 0 /\ door.shown <= Len(visits)
      BY <1>1, <2>1 DEF captureQrGrant, DoorOK, Doors
    <3>2. tab' = [tab EXCEPT ![t] = [tab[t] EXCEPT !.page = "opened", !.at = door.shown, !.token = TRUE,
                                                   !.nonce = NoNonce, !.loads = tab[t].loads + 1]]
      BY <2>1 DEF captureQrGrant, MobileInv
    <3> QED
      BY <3>1, <3>2
  <2>2. CASE PhoneReloads(t)
    <3>1. tab[t].at \in 0..MaxVisits /\ tab[t].at # 0 /\ tab[t].at <= Len(visits)
      BY <1>1, <2>2 DEF PhoneReloads, PhoneOK, Phones
    <3>2. tab' = [tab EXCEPT ![t] = [tab[t] EXCEPT !.page = "opened", !.token = FALSE,
                                                   !.nonce = NoNonce, !.loads = tab[t].loads + 1]]
      BY <2>2 DEF PhoneReloads, MobileInv
    <3>3. [tab[t] EXCEPT !.page = "opened", !.token = FALSE, !.nonce = NoNonce, !.loads = tab[t].loads + 1]
          = [tab[t] EXCEPT !.page = "opened", !.at = tab[t].at, !.token = FALSE, !.nonce = NoNonce, !.loads = tab[t].loads + 1]
      BY <1>1 DEF Phones
    <3> QED
      BY <3>1, <3>2, <3>3
  <2> QED
    BY <2>1, <2>2
<1>3. PICK at \in 0..MaxVisits, token \in BOOLEAN :
        /\ at # 0 /\ at <= Len(visits)
        /\ tab' = [tab EXCEPT ![t] = [tab[t] EXCEPT !.page = "opened", !.at = at, !.token = token,
                                                   !.nonce = NoNonce, !.loads = tab[t].loads + 1]]
  BY <1>2
<1> DEFINE p == [tab[t] EXCEPT !.page = "opened", !.at = at, !.token = token, !.nonce = NoNonce, !.loads = tab[t].loads + 1]
<1>4. p \in Phones /\ p.at = at /\ p.nonce = NoNonce /\ p.stored = tab[t].stored /\ p.cookies = tab[t].cookies
  BY <1>1, NoNonceTyped DEF Phones
<1>5. tab' = [tab EXCEPT ![t] = p] /\ UNCHANGED <<visits, door>>
  BY <1>3 DEF captureQrGrant, PhoneReloads
<1> HIDE DEF p
<1>6. PhoneOK(t, p, visits)
  BY <1>1, <1>3, <1>4 DEF PhoneOK
<1>7. \A s \in VisitIds : ClaimOK(t, p, s, visits[s])
  BY <1>4 DEF ClaimOK, MobileInv
<1> QED
  BY <1>5, <1>6, <1>7, PhoneStep

LEMMA LookStep ==
  ASSUME MobileInv, NEW t \in Tabs, PhoneContext(t) \/ verifyAuthoritativeState(t) \/ uploadSelection(t)
  PROVE  MobileInv'
<1>1. tab[t].at # 0
  BY DEF MobileInv, PhoneOK, PhoneContext, verifyAuthoritativeState, uploadSelection
<1>2. \E to \in {"joined", "sending", "closed", "failed"} : tab' = [tab EXCEPT ![t].page = to]
  BY DEF PhoneContext, verifyAuthoritativeState, uploadSelection
<1>3. UNCHANGED <<visits, door>>
  BY DEF PhoneContext, verifyAuthoritativeState, uploadSelection
<1> QED
  BY <1>1, <1>2, <1>3, PageStep

\* A session moves by the table, and its claim stays.
LEMMA MovedVisit ==
  ASSUME NEW v, VisitOK(v), NEW state, canTransitionSession(v.state, state), v.version < MaxVersion \/ state \in TERMINAL
  PROVE  LET w == [v EXCEPT !.state = state, !.version = @ + 1] IN VisitOK(w) /\ Follows(v, w)
<1> DEFINE w == [v EXCEPT !.state = state, !.version = v.version + 1]
<1>1. v \in Visits /\ (v.state \notin TERMINAL => v.version <= MaxVersion)
  BY DEF VisitOK, Live
<1>2. v.state \notin TERMINAL /\ state \in VisitStates
  BY DEF canTransitionSession, TERMINAL, VisitStates, EXPIRABLE, UPLOADABLE
<1>3. v.version + 1 \in 1..(MaxVersion + 1) /\ (state \notin TERMINAL => v.version + 1 <= MaxVersion)
  BY <1>1, <1>2, MobileAssumption DEF Visits
<1>4. w \in Visits /\ w.state = state /\ w.version = v.version + 1 /\ w.by = v.by /\ w.grant = v.grant
  BY <1>1, <1>2, <1>3 DEF Visits
<1> HIDE DEF w
<1>5. VisitOK(w) /\ Follows(v, w)
  BY <1>3, <1>4 DEF VisitOK, Live, Follows
<1> QED
  BY <1>5 DEF w

LEMMA VisitMovesStep ==
  ASSUME MobileInv, NEW s \in VisitIds, TimePasses(s) \/ SessionMoves(s)
  PROVE  MobileInv'
<1>1. VisitOK(visits[s])
  BY DEF MobileInv
<1>2. UNCHANGED <<door, tab>>
  BY DEF TimePasses, SessionMoves
<1>3. CASE TimePasses(s)
  <2> DEFINE w == [visits[s] EXCEPT !.late = TRUE]
  <2>1. VisitOK(w) /\ Follows(visits[s], w)
    BY <1>1 DEF VisitOK, Follows, Visits, Live
  <2>2. visits' = [visits EXCEPT ![s] = w]
    BY <1>3 DEF TimePasses
  <2> HIDE DEF w
  <2> QED
    BY <1>2, <2>1, <2>2, VisitStep
<1>4. ASSUME NEW state, Moved(s, state) PROVE MobileInv'
  <2> DEFINE w == [visits[s] EXCEPT !.state = state, !.version = visits[s].version + 1]
  <2>1. VisitOK(w) /\ Follows(visits[s], w)
    BY <1>1, <1>4, MovedVisit DEF Moved
  <2>2. visits' = [visits EXCEPT ![s] = w]
    BY <1>4 DEF Moved
  <2> HIDE DEF w
  <2> QED
    BY <1>2, <2>1, <2>2, VisitStep
<1> QED
  BY <1>3, <1>4 DEF SessionMoves

LEMMA DocumentStep ==
  ASSUME MobileInv, NEW t \in Tabs, uploadFile(t) \/ removeFile(t)
  PROVE  MobileInv'
<1> DEFINE s == tab[t].at
<1>1. PhoneOK(t, tab[t], visits) /\ tab[t] \in Phones
  BY DEF MobileInv, PhoneOK
<1>2. s # 0 /\ s \in VisitIds
  BY <1>1 DEF PhoneOK, Phones, uploadFile, removeFile, VisitIds, MobileInv
<1>3. door' = door
  BY DEF uploadFile, removeFile
<1>4. \E to \in {"joined", "closed"} : tab' = [tab EXCEPT ![t].page = to]
  <2>1. CASE uploadFile(t)
    BY <2>1 DEF uploadFile
  <2>2. CASE removeFile(t)
    <3>1. tab[t] = [tab[t] EXCEPT !.page = "joined"]
      BY <1>1, <2>2 DEF removeFile, Phones
    <3>2. tab = [tab EXCEPT ![t].page = "joined"]
      BY <3>1 DEF MobileInv
    <3> QED
      BY <2>2, <3>2 DEF removeFile
  <2> QED
    BY <2>1, <2>2
<1>5. visits' = visits \/ \E state : Moved(s, state)
  BY DEF uploadFile, removeFile
<1>6. PICK to \in {"joined", "closed"} : tab' = [tab EXCEPT ![t].page = to]
  BY <1>4
<1> DEFINE p == [tab[t] EXCEPT !.page = to]
<1>7. p \in Phones /\ p.at = s /\ p.nonce = tab[t].nonce /\ p.stored = tab[t].stored /\ p.cookies = tab[t].cookies
  BY <1>1, <1>6 DEF Phones
<1>8. tab' \in [Tabs -> Phones] /\ tab'[t] = p /\ \A u \in Tabs \ {t} : tab'[u] = tab[u]
  <2> HIDE DEF p
  <2>1. tab' = [tab EXCEPT ![t] = p]
    BY <1>6 DEF p
  <2> QED
    BY <1>7, <2>1 DEF MobileInv
<1>9. PICK w : VisitOK(w) /\ Follows(visits[s], w) /\ visits' = [visits EXCEPT ![s] = w]
  <2>1. VisitOK(visits[s])
    BY <1>2 DEF MobileInv
  <2>2. CASE visits' = visits
    <3>1. visits' = [visits EXCEPT ![s] = visits[s]] /\ Follows(visits[s], visits[s])
      BY <2>2 DEF MobileInv, Follows
    <3> QED
      BY <2>1, <3>1
  <2>3. ASSUME NEW state, Moved(s, state)
        PROVE  \E w : VisitOK(w) /\ Follows(visits[s], w) /\ visits' = [visits EXCEPT ![s] = w]
    <3> DEFINE w == [visits[s] EXCEPT !.state = state, !.version = visits[s].version + 1]
    <3>1. VisitOK(w) /\ Follows(visits[s], w)
      BY <2>1, <2>3, MovedVisit DEF Moved
    <3>2. visits' = [visits EXCEPT ![s] = w]
      BY <2>3 DEF Moved
    <3> HIDE DEF w
    <3> QED
      BY <3>1, <3>2
  <2> QED
    BY <1>5, <2>2, <2>3
<1> HIDE DEF s, p
<1>10. visits' \in Seq(Visits) /\ Len(visits') = Len(visits) /\ DOMAIN visits = 1..Len(visits)
  BY <1>2, <1>9 DEF MobileInv, VisitOK, VisitIds
<1>11. \A i \in VisitIds : VisitOK(visits'[i]) /\ Follows(visits[i], visits'[i])
  BY <1>2, <1>9, <1>10 DEF MobileInv, VisitIds, Follows
<1>12. \A u \in Tabs : PhoneOK(u, tab'[u], visits')
  BY <1>1, <1>2, <1>7, <1>8, <1>10 DEF MobileInv, PhoneOK, s
<1>13. \A u \in Tabs, i \in VisitIds : ClaimOK(u, tab'[u], i, visits'[i])
  <2> SUFFICES ASSUME NEW u \in Tabs, NEW i \in VisitIds PROVE ClaimOK(u, tab'[u], i, visits'[i])
    OBVIOUS
  <2>1. ClaimOK(u, tab[u], i, visits[i]) /\ Follows(visits[i], visits'[i])
    BY <1>11 DEF MobileInv
  <2>2. tab'[u].cookies = tab[u].cookies /\ tab'[u].stored = tab[u].stored
    BY <1>7, <1>8
  <2> QED
    BY <2>1, <2>2 DEF ClaimOK, Follows
<1>14. DoorOK(door', visits')
  BY <1>3, <1>10 DEF MobileInv, DoorOK
<1> QED
  BY <1>8, <1>10, <1>11, <1>12, <1>13, <1>14 DEF MobileInv, VisitIds

\* The nonce a phone presents is its own, and the one it has kept.
LEMMA NonceIsOwn ==
  ASSUME MobileInv, NEW t \in Tabs, tab[t].page = "opened"
  PROVE  LET n == getOrCreateNonce(t)  at == tab[t].at IN
         /\ n \in Nonces /\ n # NoNonce /\ n[1] = t
         /\ t \notin PrivateTabs /\ tab[t].stored[at] # NoNonce => n = tab[t].stored[at]
<1>1. PhoneOK(t, tab[t], visits) /\ tab[t] \in Phones /\ tab[t].at \in 1..MaxVisits
  BY MobileAssumption DEF MobileInv, PhoneOK, Phones
<1>2. <<t, tab[t].loads>> \in Nonces /\ <<t, tab[t].loads>> # NoNonce /\ <<t, tab[t].loads>>[1] = t
  BY <1>1 DEF Nonces, NoNonce, Phones
<1>3. tab[t].nonce \in Nonces /\ tab[t].stored[tab[t].at] \in Nonces
  BY <1>1 DEF Phones
<1> QED
  BY <1>1, <1>2, <1>3 DEF getOrCreateNonce, PhoneOK

LEMMA BootstrapStep ==
  ASSUME MobileInv, NEW t \in Tabs, NEW heard \in BOOLEAN, createMobileBootstrap(t, heard)
  PROVE  MobileInv'
<1> DEFINE s == tab[t].at
           n == getOrCreateNonce(t)
           answer == exchange(s, n)
           v == visits[s]
<1>1. PhoneOK(t, tab[t], visits) /\ tab[t] \in Phones /\ tab \in [Tabs -> Phones]
      /\ visits \in Seq(Visits) /\ Len(visits) \in Nat /\ Len(visits) <= MaxVisits
  BY DEF MobileInv, PhoneOK
<1>2. s \in VisitIds /\ s \in 1..MaxVisits /\ s # 0
  BY <1>1, MobileAssumption DEF PhoneOK, Phones, createMobileBootstrap, VisitIds
<1>3. n \in Nonces /\ n # NoNonce /\ n[1] = t
      /\ (t \notin PrivateTabs /\ tab[t].stored[s] # NoNonce => n = tab[t].stored[s])
  BY NonceIsOwn DEF createMobileBootstrap
<1>4. VisitOK(v) /\ v \in Visits
  BY <1>2 DEF MobileInv, VisitOK
<1>5. answer = "joined" => v.grant = "ACTIVE" \/ (v.grant = "CLAIMED" /\ v.by = n)
  BY <1>4 DEF exchange, restoreClaimedExchange, Visits
<1> DEFINE w == IF answer = "joined" THEN [v EXCEPT !.grant = "CLAIMED", !.by = n] ELSE v
           in == [tab[t] EXCEPT !.page = "joined", !.token = FALSE, !.nonce = NoNonce,
                                !.stored = [tab[t].stored EXCEPT ![s] = NoNonce], !.cookies = tab[t].cookies \cup {s}]
           out == [tab[t] EXCEPT !.page = IF heard THEN "failed" ELSE "opened", !.nonce = n,
                                 !.stored = [tab[t].stored EXCEPT ![s] = IF t \in PrivateTabs THEN tab[t].stored[s] ELSE n]]
           joins == heard /\ answer = "joined"
           p == IF joins THEN in ELSE out
<1>6. visits' = [visits EXCEPT ![s] = w]
  <2>1. visits = [visits EXCEPT ![s] = visits[s]]
    BY <1>1
  <2> QED
    BY <2>1 DEF createMobileBootstrap
<1>7. tab' = [tab EXCEPT ![t] = p] /\ door' = door
  <2>1. IF joins
        THEN tab' = [tab EXCEPT ![t].page = "joined", ![t].token = FALSE, ![t].nonce = NoNonce,
                                ![t].stored[s] = NoNonce, ![t].cookies = @ \cup {s}]
        ELSE tab' = [tab EXCEPT ![t].page = IF heard THEN "failed" ELSE "opened", ![t].nonce = n,
                                ![t].stored[s] = IF t \in PrivateTabs THEN @ ELSE n]
    BY Zenon DEF createMobileBootstrap
  <2>2. door' = door
    BY DEF createMobileBootstrap
  <2> HIDE DEF answer, s, n
  <2>3. CASE joins
    <3>1. tab' = [tab EXCEPT ![t].page = "joined", ![t].token = FALSE, ![t].nonce = NoNonce,
                             ![t].stored[s] = NoNonce, ![t].cookies = @ \cup {s}]
      BY <2>1, <2>3
    <3>2. tab' = [tab EXCEPT ![t] = in]
      BY <1>1, <3>1 DEF Phones
    <3> QED
      BY <2>2, <2>3, <3>2
  <2>4. CASE ~joins
    <3>1. tab' = [tab EXCEPT ![t].page = IF heard THEN "failed" ELSE "opened", ![t].nonce = n,
                             ![t].stored[s] = IF t \in PrivateTabs THEN @ ELSE n]
      BY <2>1, <2>4
    <3>2. tab' = [tab EXCEPT ![t] = out]
      BY <1>1, <3>1 DEF Phones
    <3> QED
      BY <2>2, <2>4, <3>2
  <2> QED
    BY <2>3, <2>4
<1>8. VisitOK(w) /\ w \in Visits /\ (answer = "joined" => w.grant = "CLAIMED" /\ w.by = n) /\ (answer # "joined" => w = v)
  BY <1>3, <1>4 DEF VisitOK, Visits, Live
<1> HIDE DEF w, answer
<1>9. in \in Phones /\ in.page = "joined" /\ in.at = s /\ in.nonce = NoNonce /\ in.cookies = tab[t].cookies \cup {s}
      /\ in.stored = [tab[t].stored EXCEPT ![s] = NoNonce]
  BY <1>1, <1>2, NoNonceTyped DEF Phones
<1>10. out \in Phones /\ out.at = s /\ out.nonce = n /\ out.cookies = tab[t].cookies
       /\ out.stored = [tab[t].stored EXCEPT ![s] = IF t \in PrivateTabs THEN tab[t].stored[s] ELSE n]
  BY <1>1, <1>2, <1>3 DEF Phones
<1> HIDE DEF n, s, in, out
<1>11. tab[t].stored \in [1..MaxVisits -> Nonces] /\ \A i \in 1..MaxVisits : tab[t].stored[i] # NoNonce => tab[t].stored[i][1] = t
  BY <1>1 DEF Phones, PhoneOK
<1>12. PhoneOK(t, in, visits) /\ PhoneOK(t, out, visits)
  <2>1. s <= Len(visits) /\ (\A i \in tab[t].cookies : i <= Len(visits))
    BY <1>1, <1>2 DEF VisitIds, PhoneOK
  <2>2. PhoneOK(t, in, visits)
    <3>1. \A i \in 1..MaxVisits : in.stored[i] # NoNonce => in.stored[i][1] = t
      BY <1>2, <1>9, <1>11
    <3> QED
      BY <1>2, <1>9, <2>1, <3>1 DEF PhoneOK
  <2>3. PhoneOK(t, out, visits)
    <3>1. \A i \in 1..MaxVisits : out.stored[i] # NoNonce => out.stored[i][1] = t
      BY <1>2, <1>3, <1>10, <1>11
    <3>2. t \in PrivateTabs \/ out.stored[s] = n
      BY <1>2, <1>10, <1>11
    <3> QED
      BY <1>2, <1>3, <1>10, <2>1, <3>1, <3>2 DEF PhoneOK
  <2> QED
    BY <2>2, <2>3
<1>13. PhoneOK(t, p, visits) /\ p \in Phones
  BY <1>9, <1>10, <1>12
<1>14. visits' \in Seq(Visits) /\ Len(visits') = Len(visits) /\ visits'[s] = w
       /\ \A i \in VisitIds \ {s} : visits'[i] = visits[i]
  BY <1>1, <1>2, <1>6, <1>8 DEF VisitIds
<1>15. ClaimOK(t, p, s, w)
  <2>1. ClaimOK(t, tab[t], s, v)
    BY <1>2 DEF MobileInv
  <2>2. CASE joins
    <3>1. p = in /\ w.grant = "CLAIMED" /\ w.by = n /\ s \in in.cookies
      BY <1>8, <1>9, <2>2
    <3> QED
      BY <1>3, <3>1 DEF ClaimOK
  <2>3. CASE ~joins
    <3>1. p = out
      BY <2>3
    <3>2. s \in tab[t].cookies => w.grant # "ACTIVE" /\ w.by # NoNonce /\ w.by[1] = t
      BY <1>3, <1>8, <2>1 DEF ClaimOK
    <3>3. ASSUME w.grant = "CLAIMED", w.by[1] = t, t \notin PrivateTabs, s \notin tab[t].cookies
          PROVE  w.by = out.stored[s]
      <4>1. out.stored[s] = n
        BY <1>2, <1>10, <1>11, <3>3
      <4>2. CASE answer = "joined"
        BY <1>8, <4>1, <4>2
      <4>3. CASE answer # "joined"
        <5>1. v.by = tab[t].stored[s] /\ v.by # NoNonce
          BY <1>4, <1>8, <2>1, <3>3, <4>3 DEF ClaimOK, VisitOK
        <5> QED
          BY <1>3, <1>8, <3>3, <4>1, <4>3, <5>1
      <4> QED
        BY <4>2, <4>3
    <3> QED
      BY <1>10, <3>1, <3>2, <3>3 DEF ClaimOK
  <2> QED
    BY <2>2, <2>3
<1>16. \A i \in VisitIds \ {s} : ClaimOK(t, p, i, visits[i])
  <2> SUFFICES ASSUME NEW i \in VisitIds \ {s} PROVE ClaimOK(t, p, i, visits[i])
    OBVIOUS
  <2>1. ClaimOK(t, tab[t], i, visits[i])
    BY DEF MobileInv
  <2>2. i \in 1..MaxVisits
    BY <1>1, MobileAssumption DEF VisitIds
  <2>3. (i \in p.cookies <=> i \in tab[t].cookies) /\ p.stored[i] = tab[t].stored[i]
    BY <1>9, <1>10, <1>11, <2>2
  <2> HIDE DEF p
  <2> QED
    BY <2>1, <2>3 DEF ClaimOK
\* Nobody else holds the code the phone has just joined with.
<1>17. ASSUME NEW u \in Tabs \ {t} PROVE ClaimOK(u, tab[u], s, w)
  <2>1. ClaimOK(u, tab[u], s, v)
    BY <1>2 DEF MobileInv
  <2>2. CASE answer = "joined"
    BY <1>3, <1>5, <1>8, <2>1, <2>2 DEF ClaimOK
  <2>3. CASE answer # "joined"
    BY <1>8, <2>1, <2>3
  <2> QED
    BY <2>2, <2>3
<1> HIDE DEF p, v
<1>18. tab' \in [Tabs -> Phones] /\ tab'[t] = p /\ \A u \in Tabs \ {t} : tab'[u] = tab[u]
  BY <1>1, <1>7, <1>13
<1>19. \A u \in Tabs : PhoneOK(u, tab'[u], visits')
  <2>1. \A u \in Tabs : PhoneOK(u, tab'[u], visits)
    BY <1>13, <1>18 DEF MobileInv
  <2> QED
    BY <1>14, <2>1 DEF PhoneOK
<1>20. \A u \in Tabs, i \in VisitIds : ClaimOK(u, tab'[u], i, visits'[i])
  <2> SUFFICES ASSUME NEW u \in Tabs, NEW i \in VisitIds PROVE ClaimOK(u, tab'[u], i, visits'[i])
    OBVIOUS
  <2>1. CASE u = t /\ i = s
    BY <1>14, <1>15, <1>18, <2>1
  <2>2. CASE u = t /\ i # s
    BY <1>14, <1>16, <1>18, <2>2
  <2>3. CASE u # t /\ i = s
    BY <1>14, <1>17, <1>18, <2>3
  <2>4. CASE u # t /\ i # s
    BY <1>14, <1>18, <2>4 DEF MobileInv
  <2> QED
    BY <2>1, <2>2, <2>3, <2>4
<1>21. \A i \in VisitIds : VisitOK(visits'[i])
  BY <1>8, <1>14 DEF MobileInv
<1>22. DoorOK(door', visits')
  BY <1>7, <1>14 DEF MobileInv, DoorOK
<1> QED
  BY <1>1, <1>14, <1>18, <1>19, <1>20, <1>21, <1>22 DEF MobileInv, VisitIds

-----------------------------------------------------------------------------
(* The kiosk's steps *)

LEMMA DoorStep ==
  ASSUME MobileInv, UNCHANGED <<visits, tab>>, DoorOK(door', visits)
  PROVE  MobileInv'
BY DEF MobileInv, VisitIds

LEMMA OverDoor ==
  ASSUME MobileInv, NEW stage \in {"idle", "showing"}, stage = "showing" => door.shown # 0
  PROVE  DoorOK(Over(stage), visits) /\ Over(stage).shown = door.shown /\ Over(stage).made = door.made
<1>1. door \in Doors /\ DoorOK(door, visits) /\ Len(visits) \in Nat
  BY DEF MobileInv, DoorOK
<1>2. Over(stage) = [door EXCEPT !.stage = stage, !.again = FALSE, !.target = 0, !.version = 0, !.tries = 0]
  BY DEF Over
<1>3. 0 \in 0..MaxVisits /\ 0 \in 0..(MaxVersion + 1) /\ 0 \in 0..2
  BY MobileAssumption
<1>4. Over(stage) \in Doors /\ Over(stage).stage = stage /\ Over(stage).target = 0 /\ Over(stage).shown = door.shown
      /\ Over(stage).made = door.made
  BY <1>1, <1>2, <1>3 DEF Doors
<1> QED
  BY <1>1, <1>4 DEF DoorOK

LEMMA FreshKeyDoor ==
  ASSUME MobileInv, door.made < MaxKeys
  PROVE  DoorOK(FreshKey, visits) /\ DoorOK([FreshKey EXCEPT !.again = FALSE], visits) /\ FreshKey.shown = door.shown
         /\ [FreshKey EXCEPT !.again = FALSE].shown = door.shown
<1>1. DoorOK(Failed, visits) /\ Failed \in Doors /\ Failed.shown = door.shown
  BY OverDoor DEF Failed, DoorOK
<1>2. door.made + 1 \in 0..MaxKeys /\ door.made + 1 # 0
  BY MobileAssumption DEF MobileInv, DoorOK, Doors
<1>3. FreshKey \in Doors /\ FreshKey.stage = "posting" /\ FreshKey.pending = door.made + 1
      /\ FreshKey.target = Failed.target /\ FreshKey.shown = Failed.shown
  BY <1>1, <1>2 DEF FreshKey, Doors
<1>4. DoorOK(FreshKey, visits)
  BY <1>1, <1>2, <1>3 DEF DoorOK
<1> DEFINE first == [FreshKey EXCEPT !.again = FALSE]
<1>5. first \in Doors /\ first.stage = "posting" /\ first.pending = door.made + 1
      /\ first.target = Failed.target /\ first.shown = Failed.shown
  BY <1>3 DEF Doors
<1> HIDE DEF first
<1>6. DoorOK(first, visits)
  BY <1>1, <1>2, <1>5 DEF DoorOK
<1> QED
  BY <1>1, <1>3, <1>4, <1>5, <1>6 DEF first

\* Where a removal that was heard, or was not, leaves the kiosk.
LEMMA RemovalDoor ==
  ASSUME MobileInv
  PROVE  /\ Removed.made <= MaxKeys => DoorOK(Removed, visits)
         /\ DoorOK(NotRemoved, visits)
         /\ Removed.shown \in {0, door.shown} /\ NotRemoved.shown \in {0, door.shown}
<1>1. DoorOK(Failed, visits) /\ Failed \in Doors /\ Failed.shown = door.shown /\ Failed.made = door.made
  BY OverDoor DEF Failed, DoorOK
<1>2. DoorOK(NotRemoved, visits) /\ NotRemoved.shown = door.shown
  BY <1>1, OverDoor DEF NotRemoved
<1>3. CASE door.shown = 0
  <2>1. Removed = FreshKey /\ door.made \in Nat
    BY <1>3 DEF Removed, MobileInv, DoorOK, Doors
  <2>2. FreshKey.made = door.made + 1 /\ FreshKey.shown = door.shown
    BY <1>1 DEF FreshKey, Doors
  <2>3. Removed.made <= MaxKeys => door.made < MaxKeys
    BY <2>1, <2>2, MobileAssumption
  <2> QED
    BY <1>2, <2>1, <2>2, <2>3, FreshKeyDoor
<1>4. CASE door.shown # 0
  <2> DEFINE closed == [Failed EXCEPT !.pending = NoKey, !.shown = 0]
  <2> 0 \in 0..MaxKeys /\ 0 \in 0..MaxVisits
    BY MobileAssumption
  <2>1. closed \in Doors /\ closed.stage = Failed.stage /\ closed.target = Failed.target /\ closed.shown = 0
    BY <1>1 DEF Doors, NoKey
  <2>2. Failed.stage = "idle" /\ Failed.target = 0
    BY DEF Failed, Over, MobileInv, DoorOK, Doors
  <2>3. Removed = closed
    BY <1>4 DEF Removed
  <2> HIDE DEF closed
  <2>4. DoorOK(closed, visits)
    BY <2>1, <2>2 DEF DoorOK, MobileInv
  <2> QED
    BY <1>2, <2>1, <2>3, <2>4
<1> QED
  BY <1>3, <1>4

LEMMA BeginStep ==
  ASSUME MobileInv, createKioskSession \/ closeKioskSession \/ KioskReloads
  PROVE  MobileInv' /\ door'.shown \in {0, door.shown}
<1>1. door \in Doors /\ DoorOK(door, visits) /\ Len(visits) \in Nat
  BY DEF MobileInv, DoorOK
<1>2. UNCHANGED <<visits, tab>>
  BY DEF createKioskSession, closeKioskSession, KioskReloads
<1>3. DoorOK(door', visits) /\ door'.shown \in {0, door.shown}
  <2>1. CASE createKioskSession
    <3>1. CASE door.pending # NoKey
      <4>1. door' = [door EXCEPT !.stage = "posting", !.again = FALSE]
        BY <2>1, <3>1 DEF createKioskSession
      <4>2. door' \in Doors /\ door'.stage = "posting" /\ door'.pending = door.pending
            /\ door'.target = door.target /\ door'.shown = door.shown
        BY <1>1, <4>1 DEF Doors
      <4> QED
        BY <1>1, <3>1, <4>2 DEF DoorOK, NoKey
    <3>2. CASE door.pending = NoKey
      BY <2>1, <3>2, FreshKeyDoor DEF createKioskSession
    <3> QED
      BY <3>1, <3>2
  <2>2. CASE closeKioskSession
    <3>1. door.stage = "showing" /\ door' = [door EXCEPT !.stage = "reading", !.target = door.shown, !.tries = 2]
      BY <2>2 DEF closeKioskSession
    <3> door.shown # 0 /\ 2 \in 0..2
      BY <1>1, <3>1 DEF DoorOK
    <3>2. door' \in Doors /\ door'.stage = "reading" /\ door'.target = door.shown /\ door'.shown = door.shown
      BY <1>1, <3>1 DEF Doors
    <3> QED
      BY <1>1, <3>1, <3>2 DEF DoorOK
  <2>3. CASE KioskReloads
    <3>1. DoorOK(Failed, visits) /\ Failed \in Doors /\ Failed.stage = "idle" /\ Failed.target = 0
      BY <1>1, OverDoor DEF Failed, DoorOK, Over, Doors
    <3> 0 \in 0..MaxVisits
      BY MobileAssumption
    <3>2. door' \in Doors /\ door'.stage = "idle" /\ door'.target = 0 /\ door'.shown = 0
      BY <2>3, <3>1 DEF KioskReloads, Doors
    <3> QED
      BY <1>1, <3>2 DEF DoorOK
  <2> QED
    BY <2>1, <2>2, <2>3
<1> QED
  BY <1>2, <1>3, DoorStep

LEMMA ReadStep ==
  ASSUME MobileInv, NEW heard \in BOOLEAN, ReadBeforeCancel(heard)
  PROVE  MobileInv' /\ door'.shown \in {0, door.shown}
<1>1. door \in Doors /\ DoorOK(door, visits) /\ visits \in Seq(Visits) /\ Len(visits) \in Nat
  BY DEF MobileInv, DoorOK
<1> DEFINE next == [door EXCEPT !.stage = "canceling", !.version = visits[door.target].version]
<1>2. DoorOK(next, visits) /\ next.shown = door.shown
  <2>1. door.target \in 1..Len(visits) /\ door.target # 0
    BY <1>1 DEF ReadBeforeCancel, DoorOK, Doors
  <2>2. visits[door.target] \in Visits
    BY <1>1, <2>1
  <2>3. visits[door.target].version \in 0..(MaxVersion + 1)
    BY <2>2, MobileAssumption DEF Visits
  <2>4. next \in Doors /\ next.stage = "canceling" /\ next.target = door.target /\ next.shown = door.shown
    BY <1>1, <2>3 DEF Doors
  <2> HIDE DEF next
  <2> QED
    BY <1>1, <2>1, <2>4 DEF DoorOK
<1>3. UNCHANGED <<visits, tab>> /\ door'.made <= MaxKeys /\ (door' = Removed \/ door' = NotRemoved \/ door' = next)
  BY Zenon DEF ReadBeforeCancel
<1> HIDE DEF next
<1>4. DoorOK(door', visits) /\ door'.shown \in {0, door.shown}
  BY <1>2, <1>3, RemovalDoor
<1> QED
  BY <1>3, <1>4, DoorStep

\* Ending a session gives its claim up.
LEMMA EndedVisit ==
  ASSUME NEW v, VisitOK(v), v.state \notin TERMINAL, NEW state \in TERMINAL, NEW grant \in {"EXPIRED", "REVOKED"}
  PROVE  VisitOK(Ended(v, state, grant)) /\ Follows(v, Ended(v, state, grant))
<1> DEFINE given == IF v.grant \in {"ACTIVE", "CLAIMED"} THEN grant ELSE v.grant
           w == [v EXCEPT !.state = state, !.version = v.version + 1, !.grant = given]
<1>1. v \in Visits /\ v.version + 1 \in 1..(MaxVersion + 1) /\ state \in VisitStates
  BY MobileAssumption DEF VisitOK, Live, Visits, VisitStates
<1>2. given \in {"REVOKED", "EXPIRED"}
  BY <1>1 DEF Visits
<1>3. Ended(v, state, grant) = w
  BY DEF Ended
<1> HIDE DEF given
<1>4. w \in Visits /\ w.by = v.by /\ w.grant = given /\ w.state = state
  BY <1>1, <1>2 DEF Visits
<1> HIDE DEF w
<1>5. VisitOK(w) /\ Follows(v, w)
  BY <1>2, <1>4 DEF VisitOK, Live, Follows
<1> QED
  BY <1>3, <1>5

LEMMA DiscardStep ==
  ASSUME MobileInv, NEW heard \in BOOLEAN, discardBlockingSession(heard)
  PROVE  MobileInv' /\ door'.shown \in {0, door.shown}
<1> DEFINE s == door.target
           next == [door EXCEPT !.stage = "reading", !.tries = 1]
<1>1. door \in Doors /\ DoorOK(door, visits) /\ visits \in Seq(Visits) /\ Len(visits) \in Nat /\ Len(visits) <= MaxVisits
      /\ s \in VisitIds /\ s # 0
  <2>1. door \in Doors /\ DoorOK(door, visits) /\ visits \in Seq(Visits) /\ Len(visits) \in Nat /\ Len(visits) <= MaxVisits
    BY DEF MobileInv, DoorOK
  <2>2. door.stage = "canceling"
    BY DEF discardBlockingSession
  <2>3. s # 0 /\ s <= Len(visits) /\ s \in 0..MaxVisits
    BY <2>1, <2>2 DEF DoorOK, Doors
  <2> QED
    BY <2>1, <2>3, MobileAssumption DEF VisitIds
<1>2. DoorOK(next, visits) /\ next.shown = door.shown
  <2> 1 \in 0..2
    OBVIOUS
  <2>1. next \in Doors /\ next.stage = "reading" /\ next.target = door.target /\ next.shown = door.shown
    BY <1>1 DEF Doors
  <2> HIDE DEF next
  <2> QED
    BY <1>1, <2>1 DEF DoorOK
<1>3. tab' = tab /\ door'.made <= MaxKeys /\ (door' = Removed \/ door' = NotRemoved \/ door' = next)
      /\ visits' = CancelApplied(s, door.version)
  BY Zenon DEF discardBlockingSession
<1> HIDE DEF next
<1>4. DoorOK(door', visits) /\ door'.shown \in {0, door.shown}
  BY <1>2, <1>3, RemovalDoor
<1>5. CASE visits' = visits
  BY <1>3, <1>4, <1>5, DoorStep
<1>6. CASE visits' # visits
  <2> DEFINE w == Ended(visits[s], "CANCELED", "REVOKED")
  <2>1. visits' = [visits EXCEPT ![s] = w] /\ cancel(s, door.version) = "canceled" /\ visits[s].state # "CANCELED"
    BY <1>3, <1>6 DEF CancelApplied
  <2>2. visits[s].state \notin TERMINAL
    BY <2>1 DEF cancel, canTransitionSession, TERMINAL
  <2>3. VisitOK(visits[s]) /\ "CANCELED" \in TERMINAL
    BY <1>1 DEF MobileInv, TERMINAL
  <2>4. VisitOK(w) /\ Follows(visits[s], w)
    BY <2>2, <2>3, EndedVisit
  <2> HIDE DEF w, s
  <2>5. visits' \in Seq(Visits) /\ Len(visits') = Len(visits) /\ DOMAIN visits = 1..Len(visits)
    BY <1>1, <2>1, <2>4 DEF VisitOK, VisitIds
  <2>6. \A i \in 1..Len(visits) : VisitOK(visits'[i]) /\ Follows(visits[i], visits'[i])
    BY <1>1, <2>1, <2>4, <2>5 DEF MobileInv, VisitIds, Follows
  <2>7. DoorOK(door', visits')
    BY <1>4, <2>5 DEF DoorOK
  <2> QED
    BY <1>1, <1>3, <1>4, <2>5, <2>6, <2>7, VisitsStep
<1> QED
  BY <1>5, <1>6

\* A create is answered with a session no phone has entered, or leaves every claim
\* where it was.
LEMMA CreateAnswers ==
  ASSUME MobileInv, NEW key \in 1..MaxKeys, NEW ready \in BOOLEAN
  PROVE  LET r == create(key, ready) IN
         /\ r.after \in Seq(Visits) /\ Len(visits) <= Len(r.after)
         /\ \A s \in 1..Len(visits) : VisitOK(r.after[s]) /\ Follows(visits[s], r.after[s])
         /\ \A s \in 1..Len(r.after) : s \notin 1..Len(visits) => VisitOK(r.after[s]) /\ r.after[s].grant = "ACTIVE"
         /\ r.answer # "refused" => r.session \in 1..Len(r.after) /\ r.session # 0
         /\ r.answer = "created" => r.after[r.session].grant = "ACTIVE"
         /\ r.answer = "blocked" => r.session \in 1..Len(visits)
<1> DEFINE mine == {s \in VisitIds : visits[s].key = key}
           open == {s \in VisitIds : Live(visits[s])}
           in == IF open = {} THEN 0 ELSE CHOOSE s \in open : TRUE
           answer(a, s, after) == [answer |-> a, session |-> s, after |-> after]
           opened(before) == answer("created", Len(before) + 1, Append(before, NewVisit(key)))
           r == create(key, ready)
           Good == /\ r.after \in Seq(Visits) /\ Len(visits) <= Len(r.after)
                   /\ \A s \in 1..Len(visits) : VisitOK(r.after[s]) /\ Follows(visits[s], r.after[s])
                   /\ \A s \in 1..Len(r.after) : s \notin 1..Len(visits) => VisitOK(r.after[s]) /\ r.after[s].grant = "ACTIVE"
                   /\ r.answer # "refused" => r.session \in 1..Len(r.after) /\ r.session # 0
                   /\ r.answer = "created" => r.after[r.session].grant = "ACTIVE"
                   /\ r.answer = "blocked" => r.session \in 1..Len(visits)
<1> SUFFICES Good
  OBVIOUS
<1>1. visits \in Seq(Visits) /\ Len(visits) \in Nat /\ VisitIds = 1..Len(visits) /\ \A s \in VisitIds : VisitOK(visits[s])
  BY DEF MobileInv, VisitIds
<1>2. \A s \in VisitIds : Follows(visits[s], visits[s])
  BY DEF Follows
<1>3. VisitOK(NewVisit(key)) /\ NewVisit(key).grant = "ACTIVE"
  <2>1. 1 \in 1..(MaxVersion + 1) /\ 1 <= MaxVersion
    BY MobileAssumption
  <2> QED
    BY <2>1, NoNonceTyped DEF NewVisit, VisitOK, Visits, VisitStates, EXPIRABLE, UPLOADABLE, Live
<1>4. r = IF mine # {}
          THEN LET s == CHOOSE s \in mine : TRUE IN answer(restoreCreateResponse(visits[s]), s, visits)
          ELSE IF ~ready THEN answer("refused", 0, visits)
          ELSE IF in = 0 THEN opened(visits)
          ELSE IF IsExpired(visits[in]) THEN opened([visits EXCEPT ![in] = expireSession(@)])
          ELSE answer("blocked", in, visits)
  BY Zenon DEF create
<1>5. ASSUME NEW before \in Seq(Visits), Len(before) = Len(visits), r = opened(before),
             \A s \in VisitIds : VisitOK(before[s]) /\ Follows(visits[s], before[s])
      PROVE  Good
  <2> DEFINE n == Len(before) + 1
             after == Append(before, NewVisit(key))
  <2>1. r.after = after /\ r.session = n /\ r.answer = "created"
    BY <1>5
  <2>2. NewVisit(key) \in Visits
    BY <1>3 DEF VisitOK
  <2>3. after \in Seq(Visits) /\ Len(after) = n /\ after[n] = NewVisit(key) /\ \A s \in VisitIds : after[s] = before[s]
    BY <1>1, <1>5, <2>2
  <2>4. n \in Nat /\ n = Len(visits) + 1
    BY <1>1, <1>5
  <2> HIDE DEF n, after, r
  <2> QED
    BY <1>1, <1>3, <1>5, <2>1, <2>3, <2>4
<1>6. CASE mine # {}
  <2> DEFINE s == CHOOSE s \in mine : TRUE
  <2>1. s \in VisitIds
    BY <1>6
  <2> HIDE DEF mine, s
  <2>2. r = answer(restoreCreateResponse(visits[s]), s, visits)
    BY <1>4, <1>6 DEF s
  <2>3. r.after = visits /\ r.session = s /\ r.answer = restoreCreateResponse(visits[s])
    BY <2>2
  <2>4. restoreCreateResponse(visits[s]) = "created" => visits[s].grant = "ACTIVE"
    BY DEF restoreCreateResponse
  <2> HIDE DEF r
  <2> QED
    BY <1>1, <1>2, <2>1, <2>3, <2>4
<1>7. CASE mine = {} /\ ~ready
  <2>1. r = answer("refused", 0, visits)
    BY <1>4, <1>7
  <2>2. r.after = visits /\ r.answer = "refused"
    BY <2>1
  <2> HIDE DEF r
  <2> QED
    BY <1>1, <1>2, <2>2
<1>8. CASE mine = {} /\ ready /\ in = 0
  BY <1>1, <1>2, <1>4, <1>5, <1>8
<1>9. CASE mine = {} /\ ready /\ in # 0
  <2>1. in \in open
    BY <1>9
  <2>2. in \in VisitIds /\ Live(visits[in])
    BY <2>1
  <2> DEFINE w == Ended(visits[in], "EXPIRED", "EXPIRED")
             before == [visits EXCEPT ![in] = w]
  <2> HIDE DEF in, mine
  <2>3. CASE IsExpired(visits[in]) /\ r = opened([visits EXCEPT ![in] = expireSession(@)])
    <3>1. visits[in].state \notin TERMINAL /\ "EXPIRED" \in TERMINAL
      BY <2>2 DEF Live, TERMINAL
    <3>2. VisitOK(w) /\ Follows(visits[in], w) /\ w \in Visits
      BY <1>1, <2>2, <3>1, EndedVisit DEF VisitOK
    <3>3. r = opened(before)
      BY <2>3 DEF expireSession
    <3> HIDE DEF w
    <3>4. before \in Seq(Visits) /\ Len(before) = Len(visits)
      BY <1>1, <2>2, <3>2
    <3>5. \A s \in VisitIds : VisitOK(before[s]) /\ Follows(visits[s], before[s])
      BY <1>1, <1>2, <2>2, <3>2
    <3> HIDE DEF before, r, opened
    <3> QED
      BY <1>5, <3>3, <3>4, <3>5
  <2>4. CASE r = answer("blocked", in, visits)
    <3>1. r.after = visits /\ r.session = in /\ r.answer = "blocked"
      BY <2>4
    <3> HIDE DEF r
    <3> QED
      BY <1>1, <1>2, <2>2, <3>1
  <2> QED
    BY <1>4, <1>9, <2>3, <2>4
<1> QED
  BY <1>6, <1>7, <1>8, <1>9

\* What comes onto the screen is a session no phone has entered.
Unclaimed == door'.shown \notin {0, door.shown} =>
  visits'[door'.shown].grant = "ACTIVE" /\ door'.shown \in 1..Len(visits')

LEMMA PostStep ==
  ASSUME MobileInv, NEW ready \in BOOLEAN, NEW heard \in BOOLEAN, postCreateSession(ready, heard)
  PROVE  MobileInv' /\ Unclaimed
<1> DEFINE r == create(door.pending, ready)
           reading == [door EXCEPT !.stage = "reading", !.target = r.session, !.tries = 1]
           showing == [Over("showing") EXCEPT !.shown = r.session]
<1>1. door \in Doors /\ DoorOK(door, visits) /\ Len(visits) \in Nat
  BY DEF MobileInv, DoorOK
<1>2. door.pending \in 1..MaxKeys
  <2>1. door.pending # 0 /\ door.pending \in 0..MaxKeys
    BY <1>1 DEF postCreateSession, DoorOK, Doors
  <2> QED
    BY <2>1, MobileAssumption
<1>3. /\ r.after \in Seq(Visits) /\ Len(visits) <= Len(r.after)
      /\ \A s \in 1..Len(visits) : VisitOK(r.after[s]) /\ Follows(visits[s], r.after[s])
      /\ \A s \in 1..Len(r.after) : s \notin 1..Len(visits) => VisitOK(r.after[s]) /\ r.after[s].grant = "ACTIVE"
      /\ r.answer # "refused" => r.session \in 1..Len(r.after) /\ r.session # 0
      /\ r.answer = "created" => r.after[r.session].grant = "ACTIVE"
      /\ r.answer = "blocked" => r.session \in 1..Len(visits)
  BY <1>2, CreateAnswers
<1>4. /\ Len(r.after) <= MaxVisits /\ visits' = r.after /\ tab' = tab
      /\ \/ door' = Failed
         \/ r.answer = "created" /\ door' = showing
         \/ door.made < MaxKeys /\ door' = FreshKey
         \/ r.answer = "blocked" /\ door' = reading
  BY DEF postCreateSession
<1> HIDE DEF r
<1>5. Len(visits') \in Nat /\ Len(visits) <= Len(visits') /\ Len(visits') <= MaxVisits
  BY <1>3, <1>4
<1>6. ASSUME NEW d, DoorOK(d, visits) PROVE DoorOK(d, visits')
  BY <1>1, <1>5, <1>6 DEF DoorOK, Doors
<1>7. DoorOK(door', visits') /\ Unclaimed
  <2>1. CASE door' = Failed
    BY <1>6, <2>1, OverDoor DEF Failed, Unclaimed
  <2>2. CASE r.answer = "created" /\ door' = showing
    <3>1. r.session \in 0..MaxVisits /\ r.session # 0 /\ r.session <= Len(visits')
      BY <1>3, <1>4, <1>5, <2>2, MobileAssumption
    <3>2. showing \in Doors /\ showing.shown = r.session /\ showing.target = 0 /\ showing.stage = "showing"
      <4>1. Over("showing") = [door EXCEPT !.stage = "showing", !.again = FALSE, !.target = 0, !.version = 0, !.tries = 0]
        BY DEF Over
      <4>2. 0 \in 0..MaxVisits /\ 0 \in 0..(MaxVersion + 1) /\ 0 \in 0..2
        BY MobileAssumption
      <4>3. Over("showing") \in Doors /\ Over("showing").target = 0 /\ Over("showing").stage = "showing"
        BY <1>1, <4>1, <4>2 DEF Doors
      <4> QED
        BY <3>1, <4>3 DEF Doors
    <3> HIDE DEF showing
    <3> QED
      BY <1>3, <1>4, <1>5, <2>2, <3>1, <3>2 DEF DoorOK, Unclaimed
  <2>3. CASE door.made < MaxKeys /\ door' = FreshKey
    BY <1>6, <2>3, FreshKeyDoor DEF Unclaimed
  <2>4. CASE r.answer = "blocked" /\ door' = reading
    <3>1. r.session \in 0..MaxVisits /\ r.session # 0 /\ r.session <= Len(visits') /\ 1 \in 0..2
      BY <1>1, <1>3, <1>5, <2>4, MobileAssumption
    <3>2. reading \in Doors /\ reading.shown = door.shown /\ reading.target = r.session /\ reading.stage = "reading"
      BY <1>1, <3>1 DEF Doors
    <3>3. door.shown <= Len(visits') /\ door'.shown = door.shown
      BY <1>1, <1>5, <2>4, <3>2 DEF DoorOK, Doors
    <3> HIDE DEF reading
    <3> QED
      BY <2>4, <3>1, <3>2, <3>3 DEF DoorOK, Unclaimed
  <2> QED
    BY <1>4, <2>1, <2>2, <2>3, <2>4
<1>8. MobileInv'
  <2>1. \A s \in 1..Len(visits) : VisitOK(visits'[s]) /\ Follows(visits[s], visits'[s])
    BY <1>3, <1>4
  <2>2. \A s \in 1..Len(visits') : s \notin 1..Len(visits) => VisitOK(visits'[s]) /\ visits'[s].grant = "ACTIVE"
    BY <1>3, <1>4
  <2>3. visits' \in Seq(Visits) /\ tab' = tab
    BY <1>3, <1>4
  <2> QED
    BY <1>5, <1>7, <2>1, <2>2, <2>3, VisitsStep
<1> QED
  BY <1>7, <1>8

-----------------------------------------------------------------------------
(* The theorem *)

LEMMA MobileInitially == MobileInit => MobileInv
<1> SUFFICES ASSUME MobileInit PROVE MobileInv
  OBVIOUS
<1>1. visits = <<>> /\ visits \in Seq(Visits) /\ Len(visits) = 0
  BY EmptySeq DEF MobileInit
<1>2. VisitIds = {}
  BY <1>1 DEF VisitIds
<1>3. 0 \in 0..MaxKeys /\ 0 \in 0..MaxVisits /\ 0 \in 0..(MaxVersion + 1) /\ 0 \in 0..2
  BY MobileAssumption
<1>4. DoorOK(door, visits)
  BY <1>1, <1>3 DEF MobileInit, DoorOK, Doors, NoKey
<1>5. \A t \in Tabs : tab[t] \in Phones /\ PhoneOK(t, tab[t], visits)
  <2> SUFFICES ASSUME NEW t \in Tabs PROVE tab[t] \in Phones /\ PhoneOK(t, tab[t], visits)
    OBVIOUS
  <2> DEFINE none == [s \in 1..MaxVisits |-> NoNonce]
  <2>1. tab[t] = [page |-> "away", at |-> 0, token |-> FALSE, nonce |-> NoNonce, stored |-> none, cookies |-> {}, loads |-> 0]
    BY DEF MobileInit
  <2>2. none \in [1..MaxVisits -> Nonces] /\ \A s \in 1..MaxVisits : none[s] = NoNonce
    BY NoNonceTyped
  <2> HIDE DEF none
  <2>3. tab[t] \in Phones
    BY <1>3, <2>1, <2>2, NoNonceTyped DEF Phones
  <2> QED
    BY <1>1, <2>1, <2>2, <2>3 DEF PhoneOK
<1>6. tab \in [Tabs -> Phones]
  BY <1>5 DEF MobileInit
<1> QED
  BY <1>1, <1>2, <1>4, <1>5, <1>6, MobileAssumption DEF MobileInv

LEMMA MobileStep == MobileInv /\ [MobileNext]_mobileVars => MobileInv' /\ Unclaimed
<1> SUFFICES ASSUME MobileInv, [MobileNext]_mobileVars PROVE MobileInv' /\ Unclaimed
  OBVIOUS
<1>1. CASE UNCHANGED mobileVars
  BY <1>1 DEF MobileInv, VisitIds, mobileVars, Unclaimed
<1>2. CASE createKioskSession \/ closeKioskSession \/ KioskReloads
  BY <1>2, BeginStep DEF Unclaimed
<1>3. CASE \E ready, heard \in BOOLEAN : postCreateSession(ready, heard)
  BY <1>3, PostStep
<1>4. CASE \E heard \in BOOLEAN : ReadBeforeCancel(heard) \/ discardBlockingSession(heard)
  BY <1>4, ReadStep, DiscardStep DEF Unclaimed
<1>5. CASE \E t \in Tabs : captureQrGrant(t) \/ PhoneReloads(t)
  <2>1. door' = door
    BY <1>5 DEF captureQrGrant, PhoneReloads
  <2> QED
    BY <1>5, <2>1, OpenStep DEF Unclaimed
<1>6. CASE \E t \in Tabs : PhoneContext(t) \/ verifyAuthoritativeState(t) \/ uploadSelection(t)
  <2>1. door' = door
    BY <1>6 DEF PhoneContext, verifyAuthoritativeState, uploadSelection
  <2> QED
    BY <1>6, <2>1, LookStep DEF Unclaimed
<1>7. CASE \E t \in Tabs, heard \in BOOLEAN : createMobileBootstrap(t, heard)
  <2>1. door' = door
    BY <1>7 DEF createMobileBootstrap
  <2> QED
    BY <1>7, <2>1, BootstrapStep DEF Unclaimed
<1>8. CASE \E t \in Tabs : uploadFile(t) \/ removeFile(t)
  <2>1. door' = door
    BY <1>8 DEF uploadFile, removeFile
  <2> QED
    BY <1>8, <2>1, DocumentStep DEF Unclaimed
<1>9. CASE \E s \in VisitIds : TimePasses(s) \/ SessionMoves(s)
  <2>1. door' = door
    BY <1>9 DEF TimePasses, SessionMoves
  <2> QED
    BY <1>9, <2>1, VisitMovesStep DEF Unclaimed
<1> QED
  BY <1>1, <1>2, <1>3, <1>4, <1>5, <1>6, <1>7, <1>8, <1>9 DEF MobileNext

LEMMA InvCodesAreKept == MobileInv => MobileTypeOK /\ ClaimStaysWithItsPhone
<1> SUFFICES ASSUME MobileInv PROVE MobileTypeOK /\ ClaimStaysWithItsPhone
  OBVIOUS
<1>1. MobileTypeOK
  BY DEF MobileInv, MobileTypeOK, Visits, DoorOK, Doors, Phones
<1>2. ASSUME NEW s \in VisitIds
      PROVE  Cardinality({t \in Tabs : s \in tab[t].cookies}) <= 1
  <2> DEFINE held == {t \in Tabs : s \in tab[t].cookies}
  <2>1. held \subseteq {visits[s].by[1]}
    BY DEF MobileInv, ClaimOK
  <2>2. IsFiniteSet({visits[s].by[1]}) /\ Cardinality({visits[s].by[1]}) = 1
    BY FS_Singleton
  <2>3. Cardinality(held) <= Cardinality({visits[s].by[1]})
    BY <2>1, <2>2, FS_Subset
  <2> QED
    BY <2>2, <2>3
<1>3. ASSUME NEW s \in VisitIds, visits[s].grant = "CLAIMED"
      PROVE  LET t == visits[s].by[1] IN
             s \in tab[t].cookies \/ t \in PrivateTabs \/ visits[s].by \in {tab[t].nonce, tab[t].stored[s]}
  <2>1. VisitOK(visits[s]) /\ visits[s].by \in Nonces /\ visits[s].by # NoNonce
    BY <1>3 DEF MobileInv, VisitOK, Visits
  <2>2. visits[s].by[1] \in Tabs
    BY <2>1, NoNonceTyped
  <2> QED
    BY <1>3, <2>2 DEF MobileInv, ClaimOK
<1> QED
  BY <1>1, <1>2, <1>3 DEF ClaimStaysWithItsPhone

LEMMA InvFreshScreen ==
  MobileInv' /\ Unclaimed =>
    (door'.shown \notin {0, door.shown} =>
       visits'[door'.shown].grant = "ACTIVE" /\ \A t \in Tabs : door'.shown \notin tab'[t].cookies)
BY DEF Unclaimed, MobileInv, ClaimOK, VisitIds

\* However answers are lost, pages reloaded and codes photographed, one phone holds
\* a session's code, its claim stays where it can be taken up again, and a session
\* that comes onto the screen is one no phone has entered.
THEOREM CodesStayKept == MobileSpec => CodesAreKept
<1>1. MobileInit => MobileInv
  BY MobileInitially
<1>2. MobileInv /\ [MobileNext]_mobileVars => MobileInv'
  BY MobileStep
<1>3. MobileInv /\ MobileInv' /\ [MobileNext]_mobileVars =>
        [door'.shown \notin {0, door.shown} =>
           visits'[door'.shown].grant = "ACTIVE" /\ \A t \in Tabs : door'.shown \notin tab'[t].cookies]_mobileVars
  BY MobileStep, InvFreshScreen
<1>4. MobileInv => MobileTypeOK /\ ClaimStaysWithItsPhone
  BY InvCodesAreKept
<1> QED
  BY <1>1, <1>2, <1>3, <1>4, PTL DEF MobileSpec, CodesAreKept, FreshScreenIsUnclaimed


-----------------------------------------------------------------------------
(* The console: what a tab does and shows is the account's it was signed in *)
(* as.                                                                      *)

People == Accounts \cup {Nobody}
Answers == [is : {"out", "loading", "in", "locked", "lost", "signin", "refused", "active", "stepup", "key", "opened"},
            account : People]
Jars == [account : People, state : {"active", "locked", "gone"}, proved : BOOLEAN]
Refreshes == [kind : {"refresh"}, fresh : BOOLEAN, got : Answers]
Operations ==
  [kind : {"signIn", "unlock", "signOut", "act", "enrol"},
   step : {"new", "confirm", "login", "unlock", "logout", "perform", "begin", "complete", "ceremony", "proof"},
   next : {"none", "logout", "perform", "begin", "stepUp"}, back : {"none", "perform", "begin", "complete"},
   expected : People, owner : People, again : BOOLEAN, fresh : BOOLEAN, got : Answers]

\* A registration that was begun is the account's the tab showed.
OwnedOK(o) == o # Idle /\ (o.step = "complete" \/ o.back = "complete") => o.owner = o.expected
\* A tab that signed out waits for that answer, or has it and shows nobody, and
\* nothing it asked before can show anybody.
LeftOK(s, r, o) ==
  /\ o = Idle \/ o.step = "logout"
  /\ o = Idle => s \in {Out, Loading}
  /\ r = Idle \/ ~r.fresh \/ r.got.is = "signin"
TabsOK ==
  /\ shown \in [ConsoleTabs -> Answers] /\ refreshes \in [ConsoleTabs -> {Idle} \cup Refreshes]
  /\ op \in [ConsoleTabs -> {Idle} \cup Operations]
  /\ \A t \in ConsoleTabs : OwnedOK(op[t])
ConsoleInv ==
  /\ TabsOK /\ jar \in Jars /\ left \subseteq ConsoleTabs /\ EnrolsForShown
  /\ left # {} => jar.state = "gone"
  /\ \A t \in left : LeftOK(shown[t], refreshes[t], op[t])

LEMMA ConsoleWords ==
  /\ Out \in Answers /\ Loading \in Answers /\ Lost \in Answers /\ SignInFirst \in Answers /\ Refused \in Answers
  /\ \A a \in People : In(a) \in Answers /\ Locked(a) \in Answers
  /\ \A o \in Operations : o # Idle
  /\ \A r \in Refreshes : r # Idle
BY DEF Out, Loading, Lost, SignInFirst, Refused, In, Locked, Answers, People, Operations, Refreshes, Idle

LEMMA ServerWords ==
  ASSUME jar \in Jars
  PROVE  me \in Answers /\ Authorized \in Answers /\ me.is \in {"signin", "active", "locked"}
         /\ (jar.state = "gone" => me.is = "signin")
BY DEF Jars, me, Authorized, LiveSession, SignInFirst, Answers, People

\* One tab's request, answer or prompt.
LEMMA TabStep ==
  ASSUME ConsoleInv, NEW t \in ConsoleTabs, NEW s \in Answers, NEW r \in {Idle} \cup Refreshes,
         NEW o \in {Idle} \cup Operations, OwnedOK(o),
         shown' = [shown EXCEPT ![t] = s], refreshes' = [refreshes EXCEPT ![t] = r], op' = [op EXCEPT ![t] = o],
         jar' \in Jars, left' \subseteq left \cup {t}, left' # {} => jar'.state = "gone",
         t \in left' => LeftOK(s, r, o), EnrolsForShown'
  PROVE  ConsoleInv'
<1>1. TabsOK'
  BY DEF ConsoleInv, TabsOK
<1>2. \A u \in left' : LeftOK(shown'[u], refreshes'[u], op'[u])
  BY DEF ConsoleInv, TabsOK
<1>3. left' \subseteq ConsoleTabs
  BY DEF ConsoleInv
<1> QED
  BY <1>1, <1>2, <1>3 DEF ConsoleInv

\* A step of a tab that has something else than a sign-out under way.
LEMMA BusyStep ==
  ASSUME ConsoleInv, NEW t \in ConsoleTabs, op[t] # Idle, op[t].step # "logout",
         NEW s \in Answers, NEW r \in {Idle} \cup Refreshes, NEW o \in {Idle} \cup Operations, OwnedOK(o),
         shown' = [shown EXCEPT ![t] = s], refreshes' = [refreshes EXCEPT ![t] = r], op' = [op EXCEPT ![t] = o],
         UNCHANGED <<jar, left>>, EnrolsForShown'
  PROVE  ConsoleInv'
<1>1. t \notin left /\ jar' \in Jars /\ left' = left /\ (left' # {} => jar'.state = "gone")
  BY DEF ConsoleInv, LeftOK
<1> QED
  BY <1>1, TabStep

LEMMA OperationTyped ==
  ASSUME NEW kind \in {"signIn", "unlock", "signOut", "act", "enrol"}, NEW a \in People
  PROVE  LET o == Operation(kind, a) IN
         o \in Operations /\ OwnedOK(o) /\ o.step = "new" /\ o.back = "none" /\ o.expected = a
BY ConsoleWords DEF Operation, Operations, OwnedOK, People

\* An operation that sends its next request.
LEMMA AskTyped ==
  ASSUME NEW t \in ConsoleTabs, NEW o \in Operations, NEW reply \in Answers,
         NEW step \in {"confirm", "login", "unlock", "logout", "perform", "begin", "complete", "ceremony", "proof"},
         step = "complete" \/ o.back = "complete" => o.owner = o.expected, Ask(t, o, step, reply)
  PROVE  \E n \in Operations : op' = [op EXCEPT ![t] = n] /\ OwnedOK(n) /\ n.step = step
<1>1. PICK got \in {reply, Lost} :
        op' = [op EXCEPT ![t] = [o EXCEPT !.step = step, !.got = got, !.next = IF step = "confirm" THEN o.next ELSE "none"]]
  BY DEF Ask
<1> DEFINE next == IF step = "confirm" THEN o.next ELSE "none"
           n == [o EXCEPT !.step = step, !.got = got, !.next = next]
<1>2. got \in Answers /\ next \in {"none", "logout", "perform", "begin", "stepUp"}
  BY <1>1, ConsoleWords DEF Operations
<1> HIDE DEF next
<1>3. n \in Operations /\ n.step = step /\ n.back = o.back /\ n.owner = o.owner /\ n.expected = o.expected
  BY <1>2 DEF Operations
<1>4. op' = [op EXCEPT ![t] = n]
  BY <1>1 DEF next
<1> HIDE DEF n
<1> QED
  BY <1>3, <1>4 DEF OwnedOK

LEMMA BumpTyped ==
  ASSUME ConsoleInv, NEW t \in ConsoleTabs, Bump(t)
  PROVE  \E r \in {Idle} \cup Refreshes : refreshes' = [refreshes EXCEPT ![t] = r] /\ (r = Idle \/ ~r.fresh)
<1> DEFINE r == IF refreshes[t] = Idle THEN Idle ELSE [refreshes[t] EXCEPT !.fresh = FALSE]
<1>1. refreshes' = [refreshes EXCEPT ![t] = r]
  BY DEF Bump
<1>2. refreshes[t] \in {Idle} \cup Refreshes
  BY DEF ConsoleInv, TabsOK
<1>3. r \in {Idle} \cup Refreshes /\ (r = Idle \/ ~r.fresh)
  BY <1>2 DEF Refreshes
<1> QED
  BY <1>1, <1>3

\* What a tab asks anew is served with the cookie of the moment.
LEMMA RefreshTyped ==
  ASSUME ConsoleInv, NEW t \in ConsoleTabs, NEW flights, flights \in [ConsoleTabs -> {Idle} \cup Refreshes],
         \A u \in ConsoleTabs \ {t} : flights[u] = refreshes[u], refresh(t, flights)
  PROVE  \E r \in {Idle} \cup Refreshes :
           /\ refreshes' = [refreshes EXCEPT ![t] = r]
           /\ r = flights[t] \/ r.got = me
<1> DEFINE r == IF flights[t] # Idle THEN flights[t] ELSE [kind |-> "refresh", fresh |-> TRUE, got |-> me]
<1>1. refreshes \in [ConsoleTabs -> {Idle} \cup Refreshes] /\ me \in Answers
  BY ServerWords DEF ConsoleInv, TabsOK
<1>2. r \in {Idle} \cup Refreshes /\ (r = flights[t] \/ r.got = me)
  BY <1>1 DEF Refreshes
<1>3. refreshes' = [flights EXCEPT ![t] = r]
  BY DEF refresh
<1> HIDE DEF r
<1>4. [flights EXCEPT ![t] = r] = [refreshes EXCEPT ![t] = r]
  BY <1>1
<1> QED
  BY <1>2, <1>3, <1>4

\* A screen, a tab's refresh and its operation, left as they are.
LEMMA Same ==
  ASSUME ConsoleInv, NEW t \in ConsoleTabs
  PROVE  /\ shown[t] \in Answers /\ shown = [shown EXCEPT ![t] = shown[t]]
         /\ refreshes[t] \in {Idle} \cup Refreshes /\ refreshes = [refreshes EXCEPT ![t] = refreshes[t]]
         /\ op[t] \in {Idle} \cup Operations /\ OwnedOK(op[t]) /\ op = [op EXCEPT ![t] = op[t]]
         /\ (op[t] # Idle => op[t] \in Operations)
         /\ jar \in Jars /\ (left # {} => jar.state = "gone") /\ (t \in left => LeftOK(shown[t], refreshes[t], op[t]))
         /\ Idle \in {Idle} \cup Refreshes /\ Idle \in {Idle} \cup Operations /\ OwnedOK(Idle)
BY DEF ConsoleInv, TabsOK, OwnedOK

LEMMA AppliedTyped ==
  ASSUME NEW t \in ConsoleTabs, NEW reply \in Answers, Applied(t, reply)
  PROVE  \E s \in Answers : shown' = [shown EXCEPT ![t] = s]
<1>1. reply.account \in People
  BY DEF Answers
<1>2. (IF reply.is = "locked" THEN Locked(reply.account) ELSE In(reply.account)) \in Answers
  BY <1>1, ConsoleWords
<1> QED
  BY <1>2 DEF Applied

\* A panel's read that failed leaves the tab's requests stale, or asks who is there.
LEMMA HandledTyped ==
  ASSUME ConsoleInv, NEW t \in ConsoleTabs, NEW reply, handleAuthenticationError(t, reply)
  PROVE  \E s \in Answers, r \in {Idle} \cup Refreshes :
           /\ shown' = [shown EXCEPT ![t] = s] /\ refreshes' = [refreshes EXCEPT ![t] = r]
           /\ r = Idle \/ ~r.fresh \/ r.got = me
<1>1. CASE SignedOut(t) /\ Bump(t)
  BY <1>1, BumpTyped, ConsoleWords DEF SignedOut
<1>2. CASE refresh(t, StaleRefreshes(t)) /\ UNCHANGED shown
  <2> DEFINE aged == IF refreshes[t] = Idle THEN Idle ELSE [refreshes[t] EXCEPT !.fresh = FALSE]
  <2>1. refreshes \in [ConsoleTabs -> {Idle} \cup Refreshes]
    BY DEF ConsoleInv, TabsOK
  <2>2. aged \in {Idle} \cup Refreshes /\ (aged = Idle \/ ~aged.fresh)
    BY <2>1 DEF Refreshes
  <2>3. StaleRefreshes(t) = [refreshes EXCEPT ![t] = aged]
    BY DEF StaleRefreshes
  <2> HIDE DEF aged
  <2>4. StaleRefreshes(t) \in [ConsoleTabs -> {Idle} \cup Refreshes] /\ StaleRefreshes(t)[t] = aged
        /\ \A u \in ConsoleTabs \ {t} : StaleRefreshes(t)[u] = refreshes[u]
    BY <2>1, <2>2, <2>3
  <2>5. PICK r \in {Idle} \cup Refreshes : refreshes' = [refreshes EXCEPT ![t] = r] /\ (r = aged \/ r.got = me)
    BY <1>2, <2>4, RefreshTyped
  <2> QED
    BY <1>2, <2>2, <2>5, Same
<1> QED
  BY <1>1, <1>2 DEF handleAuthenticationError

-----------------------------------------------------------------------------
(* The steps *)

LEMMA AskStep ==
  ASSUME ConsoleInv, NEW t \in ConsoleTabs, deed' = NoDeed, Retry(t) \/ RefreshArrives(t)
  PROVE  ConsoleInv'
<1>1. EnrolsForShown'
  BY DEF EnrolsForShown, NoDeed
<1>2. UNCHANGED <<jar, op, left>>
  BY DEF Retry, RefreshArrives
<1>3. CASE Retry(t)
  <2>1. PICK r \in {Idle} \cup Refreshes : refreshes' = [refreshes EXCEPT ![t] = r] /\ (r = refreshes[t] \/ r.got = me)
    BY <1>3, RefreshTyped DEF Retry, ConsoleInv, TabsOK
  <2> DEFINE s == IF shown[t] = Out THEN Loading ELSE shown[t]
  <2>2. shown' = [shown EXCEPT ![t] = s] /\ s \in Answers
    BY <1>3, Same, ConsoleWords DEF Retry
  <2>3. t \in left => LeftOK(s, r, op[t])
    <3>1. jar \in Jars /\ (t \in left => jar.state = "gone")
      BY Same
    <3> QED
      BY <1>3, <2>1, <3>1, Same, ServerWords DEF LeftOK, Retry
  <2> HIDE DEF s
  <2> QED
    BY <1>1, <1>2, <2>1, <2>2, <2>3, Same, TabStep
<1>4. CASE RefreshArrives(t)
  <2>1. refreshes' = [refreshes EXCEPT ![t] = Idle] /\ refreshes[t] \in Refreshes
    BY <1>4, Same DEF RefreshArrives
  <2>2. \E s \in Answers : shown' = [shown EXCEPT ![t] = s] /\ (t \in left => LeftOK(s, Idle, op[t]))
    <3>1. CASE shown' = [shown EXCEPT ![t] = IF shown[t] = Loading THEN Out ELSE shown[t]]
      BY <3>1, Same, ConsoleWords DEF LeftOK
    <3>2. CASE refreshed(t, refreshes[t])
      <4> DEFINE r == refreshes[t]
      <4>1. CASE ~r.fresh /\ UNCHANGED shown
        BY <4>1, Same DEF LeftOK
      <4>2. CASE r.fresh /\ r.got.is \in {"active", "locked"} /\ Applied(t, r.got)
        <5>1. t \notin left
          BY <2>1, <4>2, Same, ConsoleWords DEF LeftOK
        <5>2. r.got \in Answers
          BY <2>1 DEF Refreshes
        <5> QED
          BY <4>2, <5>1, <5>2, AppliedTyped
      <4>3. CASE r.fresh /\ r.got.is = "signin" /\ SignedOut(t)
        BY <4>3, Same, ConsoleWords DEF SignedOut, LeftOK
      <4> QED
        BY <3>2, <4>1, <4>2, <4>3 DEF refreshed
    <3> QED
      BY <1>4, <3>1, <3>2 DEF RefreshArrives
  <2>3. PICK s \in Answers : shown' = [shown EXCEPT ![t] = s] /\ (t \in left => LeftOK(s, Idle, op[t]))
    BY <2>2
  <2> QED
    BY <1>1, <1>2, <2>1, <2>3, Same, TabStep
<1> QED
  BY <1>3, <1>4

LEMMA StaleTyped ==
  ASSUME ConsoleInv, NEW t \in ConsoleTabs
  PROVE  Stale(t) \in {Idle} \cup Operations /\ OwnedOK(Stale(t))
         /\ (op[t] # Idle => Stale(t) # Idle /\ Stale(t).step = op[t].step) /\ (op[t] = Idle => Stale(t) = Idle)
<1>1. CASE op[t] = Idle
  BY <1>1, Same DEF Stale
<1>2. CASE op[t] # Idle
  <2> DEFINE o == [op[t] EXCEPT !.fresh = FALSE]
  <2>1. op[t] \in Operations /\ Stale(t) = o /\ OwnedOK(op[t])
    BY <1>2, Same DEF Stale
  <2>2. o \in Operations /\ o.step = op[t].step /\ o.back = op[t].back /\ o.owner = op[t].owner /\ o.expected = op[t].expected
    BY <2>1 DEF Operations
  <2> HIDE DEF o
  <2> QED
    BY <1>2, <2>1, <2>2, ConsoleWords DEF OwnedOK
<1> QED
  BY <1>1, <1>2

LEMMA PromptStep ==
  ASSUME ConsoleInv, NEW t \in ConsoleTabs, deed' = NoDeed, Poll(t) \/ Expire(t)
  PROVE  ConsoleInv'
<1>1. EnrolsForShown'
  BY DEF EnrolsForShown, NoDeed
<1>2. op' = [op EXCEPT ![t] = Stale(t)] /\ UNCHANGED <<jar, left>> /\ shown[t].is = "in"
  BY DEF Poll, Expire
<1>3. \E s \in Answers, r \in {Idle} \cup Refreshes :
           /\ shown' = [shown EXCEPT ![t] = s] /\ refreshes' = [refreshes EXCEPT ![t] = r]
           /\ r = Idle \/ ~r.fresh \/ r.got = me
  <2>1. CASE Poll(t)
    BY <2>1, HandledTyped DEF Poll
  <2>2. CASE Expire(t)
    BY <2>2, BumpTyped, ConsoleWords DEF Expire, SignedOut
  <2> QED
    BY <2>1, <2>2
<1>4. PICK s \in Answers, r \in {Idle} \cup Refreshes :
           /\ shown' = [shown EXCEPT ![t] = s] /\ refreshes' = [refreshes EXCEPT ![t] = r]
           /\ r = Idle \/ ~r.fresh \/ r.got = me
  BY <1>3
<1>5. t \in left => LeftOK(s, r, Stale(t))
  <2> SUFFICES ASSUME t \in left PROVE LeftOK(s, r, Stale(t))
    OBVIOUS
  <2>1. op[t] # Idle /\ op[t].step = "logout"
    BY <1>2, Same DEF LeftOK, Out, Loading
  <2>2. me.is = "signin"
    BY Same, ServerWords
  <2> QED
    BY <1>4, <2>1, <2>2, StaleTyped DEF LeftOK
<1> QED
  BY <1>1, <1>2, <1>4, <1>5, Same, StaleTyped, TabStep

LEMMA SessionTyped ==
  /\ NoSession \in Jars /\ NoSession.state = "gone"
  /\ \A a \in People : NewSession(a) \in Jars
BY DEF NoSession, NewSession, Jars, People

LEMMA SignInStep ==
  ASSUME ConsoleInv, NEW t \in ConsoleTabs, NEW a \in Accounts, deed' = NoDeed, signIn(t, a)
  PROVE  ConsoleInv'
<1>1. EnrolsForShown' /\ a \in People
  BY DEF EnrolsForShown, NoDeed, People
<1> DEFINE o == Operation("signIn", a)
           reply == [is |-> IF a \in Privileged THEN "key" ELSE "opened", account |-> a]
<1>2. o \in Operations /\ OwnedOK(o) /\ o.back = "none"
  BY <1>1, OperationTyped
<1>3. reply \in Answers
  BY <1>1 DEF Answers
<1>4. Ask(t, o, "login", reply) /\ Bump(t) /\ left' = {} /\ UNCHANGED <<jar, shown>>
  BY DEF signIn
<1> HIDE DEF o, reply
<1>5. PICK n \in Operations : op' = [op EXCEPT ![t] = n] /\ OwnedOK(n)
  BY <1>2, <1>3, <1>4, AskTyped
<1>6. PICK r \in {Idle} \cup Refreshes : refreshes' = [refreshes EXCEPT ![t] = r]
  BY <1>4, BumpTyped
<1> QED
  BY <1>1, <1>4, <1>5, <1>6, Same, TabStep

LEMMA SignedInStep ==
  ASSUME ConsoleInv, NEW t \in ConsoleTabs, deed' = NoDeed, completeLoginWebAuthn(t) \/ signedIn(t)
  PROVE  ConsoleInv'
<1>1. EnrolsForShown'
  BY DEF EnrolsForShown, NoDeed
<1>2. op[t] # Idle /\ op[t] \in Operations /\ op[t].step = "login" /\ op[t].got \in Answers /\ op[t].expected \in People
  BY Same DEF completeLoginWebAuthn, signedIn, Operations
<1>3. CASE completeLoginWebAuthn(t)
  <2>1. \E s \in Answers : shown' = [shown EXCEPT ![t] = s]
    BY <1>3, Same, ConsoleWords DEF completeLoginWebAuthn, SignedOut
  <2>2. \E n \in {Idle} \cup Operations : op' = [op EXCEPT ![t] = n] /\ OwnedOK(n)
    <3> DEFINE reply == [is |-> "opened", account |-> op[t].expected]
    <3>1. reply \in Answers
      BY <1>2 DEF Answers
    <3>2. CASE Ask(t, op[t], "login", reply)
      <4> HIDE DEF reply
      <4> QED
        BY <1>2, <3>1, <3>2, Same, AskTyped DEF OwnedOK
    <3>3. CASE Quit(t)
      BY <3>3, Same DEF Quit
    <3> QED
      BY <1>3, <3>2, <3>3 DEF completeLoginWebAuthn
  <2>3. UNCHANGED <<jar, left>> /\ refreshes' = refreshes
    BY <1>3 DEF completeLoginWebAuthn
  <2>4. PICK s \in Answers : shown' = [shown EXCEPT ![t] = s]
    BY <2>1
  <2>5. PICK n \in {Idle} \cup Operations : op' = [op EXCEPT ![t] = n] /\ OwnedOK(n)
    BY <2>2
  <2>6. op[t].step # "logout"
    BY <1>2
  <2> QED
    BY <1>1, <1>2, <2>3, <2>4, <2>5, <2>6, Same, BusyStep
<1>4. CASE signedIn(t)
  <2>1. op' = [op EXCEPT ![t] = Idle] /\ refreshes' = refreshes
    BY <1>4 DEF signedIn, Quit
  <2>2. CASE op[t].got.is = "opened"
    <3>1. jar' = NewSession(op[t].got.account) /\ left' = {} /\ op[t].got.account \in People
      BY <1>2, <1>4, <2>2 DEF signedIn, Answers
    <3>2. \E s \in Answers : shown' = [shown EXCEPT ![t] = s]
      BY <1>2, <1>4, <2>2, Same, AppliedTyped DEF signedIn
    <3> QED
      BY <1>1, <2>1, <3>1, <3>2, Same, SessionTyped, TabStep
  <2>3. CASE op[t].got.is # "opened"
    <3>1. UNCHANGED <<jar, left>> /\ \E s \in Answers : shown' = [shown EXCEPT ![t] = s]
      BY <1>4, <2>3, Same, ConsoleWords DEF signedIn, SignedOut
    <3> QED
      BY <1>1, <1>2, <2>1, <3>1, Same, BusyStep
  <2> QED
    BY <2>2, <2>3
<1> QED
  BY <1>3, <1>4

LEMMA UnlockStep ==
  ASSUME ConsoleInv, NEW t \in ConsoleTabs, deed' = NoDeed, unlock(t)
  PROVE  ConsoleInv'
<1>1. EnrolsForShown'
  BY DEF EnrolsForShown, NoDeed
<1>2. shown[t].is = "locked" /\ op[t] = Idle /\ UNCHANGED <<shown, refreshes, left>>
  BY DEF unlock
<1>3. t \notin left
  BY <1>2, Same DEF LeftOK, Out, Loading
<1>4. jar.account \in People /\ shown[t].account \in People
  BY Same DEF Jars, Answers
<1>5. \E a \in People, reply \in Answers : Ask(t, Operation("unlock", a), "unlock", reply)
  <2>1. [is |-> "active", account |-> jar.account] \in Answers
    BY <1>4 DEF Answers
  <2> QED
    BY <1>4, <2>1, ConsoleWords DEF unlock
<1>6. PICK a \in People, reply \in Answers : Ask(t, Operation("unlock", a), "unlock", reply)
  BY <1>5
<1>7. PICK n \in Operations : op' = [op EXCEPT ![t] = n] /\ OwnedOK(n)
  BY <1>6, OperationTyped, AskTyped
<1>8. jar' \in Jars /\ (left' # {} => jar'.state = "gone")
  <2>1. CASE me.is = "locked" /\ jar.account = shown[t].account
    <3>1. jar' = NewSession(jar.account)
      BY <2>1 DEF unlock
    <3>2. left = {}
      BY <2>1, Same, ServerWords
    <3> QED
      BY <1>2, <1>4, <3>1, <3>2, SessionTyped
  <2>2. CASE ~(me.is = "locked" /\ jar.account = shown[t].account)
    BY <1>2, <2>2, Same DEF unlock
  <2> QED
    BY <2>1, <2>2
<1> QED
  BY <1>1, <1>2, <1>3, <1>7, <1>8, Same, TabStep

\* A sign-out that is sent leaves no session, and nothing fresh, behind it.
LEMMA LogoutStep ==
  ASSUME ConsoleInv, NEW t \in ConsoleTabs, NEW o \in Operations, OwnedOK(o), Logout(t, o),
         NEW s \in Answers, shown' = [shown EXCEPT ![t] = s], EnrolsForShown'
  PROVE  ConsoleInv'
<1> DEFINE out == [o EXCEPT !.fresh = TRUE]
<1>1. out \in Operations /\ (out.back = "complete" => out.owner = out.expected)
  BY ConsoleWords DEF Operations, OwnedOK
<1>2. PICK reply \in Answers : Ask(t, out, "logout", reply)
  BY ConsoleWords DEF Logout, Out
<1> HIDE DEF out
<1>3. PICK n \in Operations : op' = [op EXCEPT ![t] = n] /\ OwnedOK(n) /\ n.step = "logout"
  BY <1>1, <1>2, AskTyped
<1>4. PICK r \in {Idle} \cup Refreshes : refreshes' = [refreshes EXCEPT ![t] = r] /\ (r = Idle \/ ~r.fresh)
  BY BumpTyped DEF Logout
<1>5. jar' \in Jars /\ jar'.state = "gone" /\ left' = left \cup {t}
  BY Same DEF Logout, LiveSession, Jars
<1>6. LeftOK(s, r, n)
  BY <1>3, <1>4, ConsoleWords DEF LeftOK
<1> QED
  BY <1>3, <1>4, <1>5, <1>6, TabStep

LEMMA ConfirmTyped ==
  ASSUME ConsoleInv, NEW t \in ConsoleTabs, NEW o \in Operations, o.back = "complete" => o.owner = o.expected,
         NEW next \in {"none", "logout", "perform", "begin", "stepUp"}, Confirm(t, o, next)
  PROVE  \E n \in Operations : op' = [op EXCEPT ![t] = n] /\ OwnedOK(n)
<1> DEFINE asked == [o EXCEPT !.next = next]
<1>1. asked \in Operations /\ (asked.back = "complete" => asked.owner = asked.expected)
  BY DEF Operations
<1>2. Ask(t, asked, "confirm", me) /\ me \in Answers
  BY Same, ServerWords DEF Confirm
<1> HIDE DEF asked
<1> QED
  BY <1>1, <1>2, AskTyped

LEMMA SignOutStep ==
  ASSUME ConsoleInv, NEW t \in ConsoleTabs, deed' = NoDeed, signOut(t) \/ signOutConfirmed(t)
  PROVE  ConsoleInv'
<1>1. EnrolsForShown'
  BY DEF EnrolsForShown, NoDeed
<1>2. shown[t].account \in People
  BY Same DEF Answers
<1>3. CASE signOut(t)
  <2> DEFINE o == Operation("signOut", shown[t].account)
  <2>1. o \in Operations /\ OwnedOK(o) /\ o.back = "none"
    BY <1>2, OperationTyped
  <2>2. shown' = shown /\ op[t] = Idle
    BY <1>3 DEF signOut
  <2>3. CASE Logout(t, o)
    <3> HIDE DEF o
    <3> QED
      BY <1>1, <2>1, <2>2, <2>3, Same, LogoutStep
  <2>4. CASE shown[t].is = "in" /\ Confirm(t, o, "logout") /\ UNCHANGED <<jar, refreshes, left>>
    <3>1. t \notin left
      BY <2>2, <2>4, Same DEF LeftOK, Out, Loading
    <3> HIDE DEF o
    <3>2. PICK n \in Operations : op' = [op EXCEPT ![t] = n] /\ OwnedOK(n)
      BY <2>1, <2>4, ConfirmTyped
    <3> QED
      BY <1>1, <2>2, <2>4, <3>1, <3>2, Same, TabStep
  <2> QED
    BY <1>3, <2>3, <2>4 DEF signOut
<1>4. CASE signOutConfirmed(t)
  <2>1. op[t] \in Operations /\ OwnedOK(op[t]) /\ op[t].got \in Answers
    BY <1>4, Same DEF signOutConfirmed, Confirmed, Operations
  <2>2. PICK s \in Answers : shown' = [shown EXCEPT ![t] = s]
    BY <1>4, <2>1, AppliedTyped DEF signOutConfirmed
  <2>3. Logout(t, op[t])
    BY <1>4 DEF signOutConfirmed
  <2> QED
    BY <1>1, <2>1, <2>2, <2>3, LogoutStep
<1> QED
  BY <1>3, <1>4

LEMMA SignedOutStep ==
  ASSUME ConsoleInv, NEW t \in ConsoleTabs, deed' = NoDeed, signedOut(t)
  PROVE  ConsoleInv'
<1>1. EnrolsForShown'
  BY DEF EnrolsForShown, NoDeed
<1>2. op' = [op EXCEPT ![t] = Idle] /\ refreshes' = refreshes /\ (jar' = NoSession \/ jar' = jar)
  BY DEF signedOut, Quit
<1>3. jar' \in Jars /\ (left # {} => jar'.state = "gone")
  BY <1>2, Same, SessionTyped
<1>4. CASE op[t].fresh /\ op[t].got \in {Out, SignInFirst}
  <2>1. shown' = [shown EXCEPT ![t] = Out] /\ left' = left
    BY <1>4 DEF signedOut, SignedOut
  <2>2. t \in left' => LeftOK(Out, refreshes[t], Idle)
    BY <2>1, Same DEF LeftOK
  <2> QED
    BY <1>1, <1>2, <1>3, <2>1, <2>2, Same, ConsoleWords, TabStep
<1>5. CASE ~(op[t].fresh /\ op[t].got \in {Out, SignInFirst})
  <2>1. shown' = shown /\ left' = left \ {t}
    BY <1>5 DEF signedOut
  <2>2. left' \subseteq left \cup {t} /\ t \notin left' /\ (left' # {} => left # {})
    BY <2>1
  <2>3. shown' = [shown EXCEPT ![t] = shown[t]] /\ refreshes' = [refreshes EXCEPT ![t] = refreshes[t]]
    BY <1>2, <2>1, Same
  <2> QED
    BY <1>1, <1>2, <1>3, <2>2, <2>3, Same, TabStep
<1> QED
  BY <1>4, <1>5

\* What a busy tab may show and have under way next: nothing of the browser's
\* session moves.
Busy(t) ==
  /\ op[t] # Idle /\ op[t].step # "logout"
  /\ \E s \in Answers : shown' = [shown EXCEPT ![t] = s]
  /\ \E r \in {Idle} \cup Refreshes : refreshes' = [refreshes EXCEPT ![t] = r]
  /\ \E o \in {Idle} \cup Operations : op' = [op EXCEPT ![t] = o] /\ OwnedOK(o)

LEMMA BusyTab ==
  ASSUME ConsoleInv, NEW t \in ConsoleTabs, Busy(t), jar' \in Jars, left' = left, left # {} => jar'.state = "gone",
         EnrolsForShown'
  PROVE  ConsoleInv'
<1>1. PICK s \in Answers, r \in {Idle} \cup Refreshes, o \in {Idle} \cup Operations :
        /\ shown' = [shown EXCEPT ![t] = s] /\ refreshes' = [refreshes EXCEPT ![t] = r]
        /\ op' = [op EXCEPT ![t] = o] /\ OwnedOK(o)
  BY DEF Busy
<1>2. t \notin left
  BY Same DEF Busy, LeftOK
<1> QED
  BY <1>1, <1>2, TabStep

\* An operation under way has these parts.
LEMMA UnderWay ==
  ASSUME ConsoleInv, NEW t \in ConsoleTabs, op[t] # Idle
  PROVE  /\ op[t] \in Operations /\ OwnedOK(op[t]) /\ op[t].got \in Answers /\ op[t].got.account \in People
         /\ op[t].expected \in People /\ op[t].owner \in People
         /\ (op[t].back = "complete" => op[t].owner = op[t].expected)
         /\ (op[t].step = "complete" => op[t].owner = op[t].expected)
BY Same DEF Operations, OwnedOK, Answers

LEMMA Kept ==
  ASSUME ConsoleInv, NEW t \in ConsoleTabs
  PROVE  /\ shown' = shown => \E s \in Answers : shown' = [shown EXCEPT ![t] = s]
         /\ refreshes' = refreshes => \E r \in {Idle} \cup Refreshes : refreshes' = [refreshes EXCEPT ![t] = r]
         /\ Bump(t) => \E r \in {Idle} \cup Refreshes : refreshes' = [refreshes EXCEPT ![t] = r]
         /\ SignedOut(t) => \E s \in Answers : shown' = [shown EXCEPT ![t] = s]
         /\ Quit(t) => \E o \in {Idle} \cup Operations : op' = [op EXCEPT ![t] = o] /\ OwnedOK(o)
<1>1. shown' = shown => \E s \in Answers : shown' = [shown EXCEPT ![t] = s]
  BY Same
<1>2. refreshes' = refreshes => \E r \in {Idle} \cup Refreshes : refreshes' = [refreshes EXCEPT ![t] = r]
  BY Same
<1>3. Bump(t) => \E r \in {Idle} \cup Refreshes : refreshes' = [refreshes EXCEPT ![t] = r]
  BY BumpTyped
<1>4. SignedOut(t) => \E s \in Answers : shown' = [shown EXCEPT ![t] = s]
  BY ConsoleWords DEF SignedOut
<1>5. Quit(t) => \E o \in {Idle} \cup Operations : op' = [op EXCEPT ![t] = o] /\ OwnedOK(o)
  BY Same DEF Quit
<1> QED
  BY <1>1, <1>2, <1>3, <1>4, <1>5

\* Whatever a busy tab asks next stays owned.
LEMMA Sought ==
  ASSUME ConsoleInv, NEW t \in ConsoleTabs, NEW o \in Operations, NEW reply \in Answers,
         NEW step \in {"confirm", "login", "unlock", "logout", "perform", "begin", "complete", "ceremony", "proof"},
         step = "complete" \/ o.back = "complete" => o.owner = o.expected, Ask(t, o, step, reply)
  PROVE  \E n \in {Idle} \cup Operations : op' = [op EXCEPT ![t] = n] /\ OwnedOK(n)
BY AskTyped

LEMMA UnlockedStep ==
  ASSUME ConsoleInv, NEW t \in ConsoleTabs, deed' = NoDeed, unlocked(t) \/ notConfirmed(t) \/ Unserved(t)
  PROVE  ConsoleInv'
<1>1. EnrolsForShown' /\ UNCHANGED <<jar, left>>
  BY DEF EnrolsForShown, NoDeed, unlocked, notConfirmed, Unserved
<1>2. op[t] # Idle /\ op[t].step # "logout" /\ Quit(t)
  BY DEF unlocked, notConfirmed, Unserved
<1>3. \E s \in Answers : shown' = [shown EXCEPT ![t] = s]
  <2>1. \/ shown' = shown
        \/ SignedOut(t)
        \/ Applied(t, op[t].got)
    BY DEF unlocked, notConfirmed, Unserved
  <2> QED
    BY <1>2, <2>1, Kept, UnderWay, AppliedTyped
<1>4. \E r \in {Idle} \cup Refreshes : refreshes' = [refreshes EXCEPT ![t] = r]
  <2>1. refreshes' = refreshes \/ Bump(t)
    BY DEF unlocked, notConfirmed, Unserved
  <2> QED
    BY <2>1, Kept
<1>5. Busy(t)
  BY <1>2, <1>3, <1>4, Kept DEF Busy
<1> QED
  BY <1>1, <1>5, Same, BusyTab

LEMMA RunStep ==
  ASSUME ConsoleInv, NEW t \in ConsoleTabs, NEW k \in {"act", "enrol"}, deed' = NoDeed, run(t, k)
  PROVE  ConsoleInv'
<1>1. EnrolsForShown' /\ UNCHANGED <<jar, shown, refreshes, left>> /\ shown[t].is = "in" /\ op[t] = Idle
  BY DEF EnrolsForShown, NoDeed, run
<1> DEFINE o == Operation(k, shown[t].account)
<1>2. o \in Operations /\ OwnedOK(o) /\ o.back = "none"
  BY Same, OperationTyped DEF Answers
<1>3. \E next \in {"perform", "begin"} : Confirm(t, o, next)
  BY DEF run
<1> HIDE DEF o
<1>4. PICK n \in Operations : op' = [op EXCEPT ![t] = n] /\ OwnedOK(n)
  BY <1>2, <1>3, ConfirmTyped
<1>5. t \notin left
  BY <1>1, Same DEF LeftOK, Out, Loading
<1>6. /\ shown' = [shown EXCEPT ![t] = shown[t]] /\ refreshes' = [refreshes EXCEPT ![t] = refreshes[t]]
      /\ shown[t] \in Answers /\ refreshes[t] \in {Idle} \cup Refreshes
      /\ jar' \in Jars /\ left' \subseteq left \cup {t} /\ t \notin left' /\ (left' # {} => jar'.state = "gone")
  BY <1>1, <1>5, Same
<1> QED
  BY <1>1, <1>4, <1>6, TabStep

\* A request made, or made again, for the account that was confirmed.
LEMMA ReachedTab ==
  ASSUME ConsoleInv, NEW t \in ConsoleTabs, NEW step \in {"perform", "begin"}, Reached(t, step),
         Ask(t, [op[t] EXCEPT !.again = op[t].step = "proof"], step, Authorized), Redraw(t), refreshes' = refreshes
  PROVE  Busy(t)
<1>1. op[t] # Idle /\ op[t].step # "logout"
  BY DEF Reached, Confirmed, Proved
<1> DEFINE again == op[t].step = "proof"
           o == [op[t] EXCEPT !.again = again]
<1>2. again \in BOOLEAN
  OBVIOUS
<1>3. Ask(t, o, step, Authorized)
  OBVIOUS
<1> HIDE DEF again
<1>4. o \in Operations /\ (o.back = "complete" => o.owner = o.expected)
  BY <1>1, <1>2, UnderWay DEF Operations
<1> HIDE DEF o
<1>5. \E n \in {Idle} \cup Operations : op' = [op EXCEPT ![t] = n] /\ OwnedOK(n)
  BY <1>3, <1>4, Sought, Same, ServerWords
<1>6. \E s \in Answers : shown' = [shown EXCEPT ![t] = s]
  BY <1>1, UnderWay, AppliedTyped, Kept DEF Redraw
<1> QED
  BY <1>1, <1>5, <1>6, Kept DEF Busy

LEMMA PerformStep ==
  ASSUME ConsoleInv, NEW t \in ConsoleTabs, perform(t)
  PROVE  ConsoleInv'
<1>1. EnrolsForShown' /\ UNCHANGED <<jar, refreshes, left>>
  BY DEF EnrolsForShown, NoDeed, Deed, perform
<1>2. Busy(t)
  BY <1>1, ReachedTab DEF perform
<1> QED
  BY <1>1, <1>2, Same, BusyTab

LEMMA BeginEnrolStep ==
  ASSUME ConsoleInv, NEW t \in ConsoleTabs, deed' = NoDeed, beginEnrolment(t)
  PROVE  ConsoleInv'
<1>1. EnrolsForShown' /\ UNCHANGED <<jar, refreshes, left>>
  BY DEF EnrolsForShown, NoDeed, beginEnrolment
<1>2. Busy(t)
  BY <1>1, ReachedTab DEF beginEnrolment
<1> QED
  BY <1>1, <1>2, Same, BusyTab

\* A key is registered with the account that began it, which is the one the tab shows.
LEMMA EnrolStep ==
  ASSUME ConsoleInv, NEW t \in ConsoleTabs, completeEnrolment(t)
  PROVE  ConsoleInv'
<1>1. UNCHANGED <<jar, refreshes, left>> /\ op[t] # Idle /\ op[t].step # "logout"
  BY DEF completeEnrolment, Proved
<1>2. \E owner \in People, again \in BOOLEAN : Enrol(t, owner, again) /\ owner = op[t].expected
  <2>1. CASE op[t].step = "begin" /\ OwnCeremony(op[t]) /\ Enrol(t, op[t].got.account, FALSE)
    <3>1. op[t].got.account \in People /\ op[t].got.account = op[t].expected
      BY <1>1, <2>1, UnderWay DEF OwnCeremony
    <3> QED
      BY <2>1, <3>1
  <2>2. CASE Proved(t, "complete") /\ Enrol(t, op[t].owner, TRUE)
    <3>1. op[t].owner \in People /\ op[t].owner = op[t].expected
      BY <1>1, <2>2, UnderWay DEF Proved
    <3> QED
      BY <2>2, <3>1
  <2> QED
    BY <2>1, <2>2 DEF completeEnrolment
<1>3. PICK owner \in People, again \in BOOLEAN : Enrol(t, owner, again) /\ owner = op[t].expected
  BY <1>2
<1>4. \E s \in Answers : shown' = [shown EXCEPT ![t] = s]
  BY <1>1, UnderWay, AppliedTyped, Kept DEF completeEnrolment, Redraw
<1> DEFINE reply == IF Authorized.is = "active" /\ jar.account # owner THEN Refused ELSE Authorized
           o == [op[t] EXCEPT !.owner = owner, !.again = again]
<1>5. reply \in Answers
  BY Same, ServerWords, ConsoleWords
<1>6. o \in Operations /\ o.owner = o.expected
  BY <1>1, <1>3, UnderWay DEF Operations
<1>7. Ask(t, o, "complete", reply) /\ deed' = IF reply.is = "active" THEN Deed("enrol", op[t]) ELSE NoDeed
  BY <1>3 DEF Enrol
<1>8. EnrolsForShown'
  <2>1. reply.is = "active" => jar.account = owner
    BY DEF Refused
  <2> HIDE DEF reply
  <2> QED
    BY <1>3, <1>7, <2>1 DEF EnrolsForShown, Deed, NoDeed
<1> HIDE DEF o, reply
<1>9. \E n \in {Idle} \cup Operations : op' = [op EXCEPT ![t] = n] /\ OwnedOK(n)
  BY <1>5, <1>6, <1>7, Sought
<1>10. Busy(t)
  BY <1>1, <1>4, <1>9, Kept DEF Busy
<1> QED
  BY <1>1, <1>8, <1>10, Same, BusyTab

\* A request's answer: presence is proved and it is made again, or it is over.
LEMMA ReturnedStep ==
  ASSUME ConsoleInv, NEW t \in ConsoleTabs, deed' = NoDeed, returned(t)
  PROVE  ConsoleInv'
<1>1. EnrolsForShown' /\ UNCHANGED <<jar, left>> /\ op[t] # Idle /\ op[t].step \in {"perform", "begin", "complete"}
  BY DEF EnrolsForShown, NoDeed, returned
<1>2. CASE Confirm(t, [op[t] EXCEPT !.back = op[t].step], "stepUp") /\ UNCHANGED <<shown, refreshes>>
  <2> DEFINE o == [op[t] EXCEPT !.back = op[t].step]
  <2>1. o \in Operations /\ (o.back = "complete" => o.owner = o.expected)
    BY <1>1, UnderWay DEF Operations
  <2>2. Confirm(t, o, "stepUp")
    BY <1>2
  <2> HIDE DEF o
  <2>3. \E n \in {Idle} \cup Operations : op' = [op EXCEPT ![t] = n] /\ OwnedOK(n)
    BY <2>1, <2>2, ConfirmTyped
  <2>4. Busy(t)
    BY <1>1, <1>2, <2>3, Kept DEF Busy
  <2> QED
    BY <1>1, <2>4, Same, BusyTab
<1>3. CASE Confirm(t, op[t], "none") /\ UNCHANGED <<shown, refreshes>>
  <2>1. \E n \in {Idle} \cup Operations : op' = [op EXCEPT ![t] = n] /\ OwnedOK(n)
    BY <1>1, <1>3, UnderWay, ConfirmTyped
  <2>2. Busy(t)
    BY <1>1, <1>3, <2>1, Kept DEF Busy
  <2> QED
    BY <1>1, <2>2, Same, BusyTab
<1>4. CASE Quit(t) /\ UNCHANGED <<shown, refreshes>>
  <2>1. Busy(t)
    BY <1>1, <1>4, Kept DEF Busy
  <2> QED
    BY <1>1, <2>1, Same, BusyTab
<1>5. CASE Quit(t) /\ handleAuthenticationError(t, op[t].got)
  <2>1. PICK s \in Answers, r \in {Idle} \cup Refreshes :
          shown' = [shown EXCEPT ![t] = s] /\ refreshes' = [refreshes EXCEPT ![t] = r]
    BY <1>5, HandledTyped
  <2>2. Busy(t)
    BY <1>1, <1>5, <2>1, Kept DEF Busy
  <2> QED
    BY <1>1, <2>2, Same, BusyTab
<1> QED
  BY <1>2, <1>3, <1>4, <1>5 DEF returned

LEMMA StepUpStep ==
  ASSUME ConsoleInv, NEW t \in ConsoleTabs, deed' = NoDeed, stepUp(t)
  PROVE  ConsoleInv'
<1>1. EnrolsForShown' /\ UNCHANGED <<jar, left>> /\ op[t] # Idle /\ op[t].step = "confirm"
  BY DEF EnrolsForShown, NoDeed, stepUp, Confirmed
<1>2. \E n \in {Idle} \cup Operations : op' = [op EXCEPT ![t] = n] /\ OwnedOK(n)
  <2>1. CASE Ask(t, op[t], "ceremony", me)
    BY <1>1, <2>1, UnderWay, Same, ServerWords, Sought
  <2>2. CASE op' = [op EXCEPT ![t].step = "ceremony", ![t].got = op[t].got]
    <3> DEFINE n == [op[t] EXCEPT !.step = "ceremony", !.got = op[t].got]
    <3>1. n \in Operations /\ n.step = "ceremony" /\ n.back = op[t].back /\ n.owner = op[t].owner
          /\ n.expected = op[t].expected
      BY <1>1, UnderWay DEF Operations
    <3>2. op' = [op EXCEPT ![t] = n]
      BY <2>2 DEF ConsoleInv, TabsOK
    <3> HIDE DEF n
    <3>3. OwnedOK(n)
      BY <1>1, <3>1, UnderWay DEF OwnedOK
    <3> QED
      BY <3>1, <3>2, <3>3
  <2> QED
    BY <2>1, <2>2 DEF stepUp
<1>3. Busy(t)
  <2>1. \E s \in Answers : shown' = [shown EXCEPT ![t] = s]
    BY <1>1, UnderWay, AppliedTyped DEF stepUp
  <2>2. Bump(t)
    BY DEF stepUp
  <2> QED
    BY <1>1, <1>2, <2>1, <2>2, Kept DEF Busy
<1> QED
  BY <1>1, <1>3, Same, BusyTab

LEMMA ProveStep ==
  ASSUME ConsoleInv, NEW t \in ConsoleTabs, deed' = NoDeed, proveIt(t)
  PROVE  ConsoleInv'
<1>1. EnrolsForShown' /\ UNCHANGED <<shown, refreshes, left>> /\ op[t] # Idle /\ op[t].step = "ceremony"
  BY DEF EnrolsForShown, NoDeed, proveIt
<1>2. \E reply \in Answers : Ask(t, op[t], "proof", reply)
  BY Same, ServerWords, ConsoleWords DEF proveIt
<1>3. jar' \in Jars /\ jar'.state = jar.state
  BY Same DEF proveIt, Jars
<1>4. Busy(t)
  BY <1>1, <1>2, UnderWay, Sought, Kept DEF Busy
<1> QED
  BY <1>1, <1>3, <1>4, Same, BusyTab

LEMMA NotProvedStep ==
  ASSUME ConsoleInv, NEW t \in ConsoleTabs, deed' = NoDeed, notProved(t)
  PROVE  ConsoleInv'
<1>1. EnrolsForShown' /\ UNCHANGED <<jar, left>> /\ op[t] # Idle /\ op[t].step # "logout"
  BY DEF EnrolsForShown, NoDeed, notProved
<1>2. \E n \in {Idle} \cup Operations : op' = [op EXCEPT ![t] = n] /\ OwnedOK(n)
  <2>1. Confirm(t, op[t], "none") \/ Quit(t)
    BY DEF notProved
  <2> QED
    BY <1>1, <2>1, Kept, UnderWay, ConfirmTyped
<1>3. \/ UNCHANGED <<shown, refreshes>>
      \/ SignedOut(t) /\ UNCHANGED refreshes
      \/ refresh(t, refreshes) /\ UNCHANGED shown
  BY Zenon DEF notProved
<1>4. \E s \in Answers : shown' = [shown EXCEPT ![t] = s]
  BY <1>3, Kept
<1>5. \E r \in {Idle} \cup Refreshes : refreshes' = [refreshes EXCEPT ![t] = r]
  <2>1. CASE refresh(t, refreshes)
    BY <2>1, RefreshTyped DEF ConsoleInv, TabsOK
  <2> QED
    BY <1>3, <2>1, Kept
<1>6. Busy(t)
  BY <1>1, <1>2, <1>4, <1>5 DEF Busy
<1> QED
  BY <1>1, <1>6, Same, BusyTab

\* Time and the other tabs move the session in the jar only.
LEMMA ElsewhereStep ==
  ASSUME ConsoleInv, deed' = NoDeed, HolderMoves \/ OtherTab
  PROVE  ConsoleInv'
<1>1. EnrolsForShown' /\ UNCHANGED <<shown, refreshes, op>> /\ (left' = {} \/ left' = left)
  BY DEF EnrolsForShown, NoDeed, HolderMoves, OtherTab
<1>2. jar \in Jars /\ jar.account \in People /\ (left # {} => jar.state = "gone")
  BY DEF ConsoleInv, Jars
<1>3. jar' \in Jars
  <2>1. CASE HolderMoves
    BY <1>2, <2>1 DEF HolderMoves, Jars
  <2>2. CASE OtherTab
    BY <1>2, <2>2, SessionTyped DEF OtherTab, People
  <2> QED
    BY <2>1, <2>2
<1>4. left' # {} => jar'.state = "gone"
  <2>1. CASE left' = {}
    BY <2>1
  <2>2. CASE left' = left
    BY <1>2, <2>2, SessionTyped DEF HolderMoves, OtherTab, LiveSession
  <2> QED
    BY <1>1, <2>1, <2>2
<1>5. TabsOK'
  BY <1>1 DEF ConsoleInv, TabsOK
<1> QED
  BY <1>1, <1>3, <1>4, <1>5 DEF ConsoleInv

LEMMA ConsoleStep ==
  ASSUME ConsoleInv, [ConsoleNext]_consoleVars
  PROVE  ConsoleInv'
<1>1. CASE UNCHANGED consoleVars
  BY <1>1 DEF consoleVars, ConsoleInv, TabsOK, LeftOK, EnrolsForShown
<1>2. CASE \E t \in ConsoleTabs : perform(t) \/ completeEnrolment(t)
  BY <1>2, PerformStep, EnrolStep
<1>3. ASSUME deed' = NoDeed, HolderMoves \/ OtherTab
      PROVE  ConsoleInv'
  BY <1>3, ElsewhereStep
<1>4. ASSUME deed' = NoDeed, NEW t \in ConsoleTabs,
             \/ Retry(t) \/ RefreshArrives(t) \/ Poll(t) \/ Expire(t)
             \/ \E a \in Accounts : signIn(t, a)
             \/ completeLoginWebAuthn(t) \/ signedIn(t) \/ unlock(t) \/ unlocked(t)
             \/ signOut(t) \/ signOutConfirmed(t) \/ signedOut(t) \/ notConfirmed(t)
             \/ \E k \in {"act", "enrol"} : run(t, k)
             \/ beginEnrolment(t) \/ returned(t)
             \/ stepUp(t) \/ proveIt(t) \/ notProved(t) \/ Unserved(t)
      PROVE  ConsoleInv'
  BY <1>4, AskStep, PromptStep, SignInStep, SignedInStep, UnlockStep, UnlockedStep, SignOutStep, SignedOutStep,
     RunStep, BeginEnrolStep, ReturnedStep, StepUpStep, ProveStep, NotProvedStep
<1> QED
  BY <1>1, <1>2, <1>3, <1>4 DEF ConsoleNext

LEMMA ConsoleStart == ConsoleInit => ConsoleInv
<1> SUFFICES ASSUME ConsoleInit PROVE ConsoleInv
  OBVIOUS
<1>1. jar \in Jars /\ left = {} /\ EnrolsForShown
  BY SessionTyped DEF ConsoleInit, EnrolsForShown, NoDeed
<1>2. TabsOK
  BY ConsoleWords DEF ConsoleInit, TabsOK, OwnedOK
<1> QED
  BY <1>1, <1>2 DEF ConsoleInv

LEMMA ConsoleSays == ConsoleInv => ConsoleIsItsPersons
<1> SUFFICES ASSUME ConsoleInv PROVE ConsoleIsItsPersons
  OBVIOUS
<1>1. ConsoleTypeOK
  BY DEF ConsoleInv, TabsOK, ConsoleTypeOK, Jars, Answers, People
<1>2. SignedOutStaysOut
  BY DEF ConsoleInv, LeftOK, SignedOutStaysOut
<1> QED
  BY <1>1, <1>2 DEF ConsoleInv, ConsoleIsItsPersons

\* Whichever tab signs in, out or proves presence as whom, and whichever
\* answers are lost or late: a key is registered with the account its tab was
\* showing, and a tab that signed out shows nobody until somebody signs in
\* (SessionProvider's generations, the owner a registration is bound to).
THEOREM ConsoleKeepsItsPersons == ConsoleSpec => []ConsoleIsItsPersons
<1>1. ConsoleInit => ConsoleInv
  BY ConsoleStart
<1>2. ConsoleInv /\ [ConsoleNext]_consoleVars => ConsoleInv'
  BY ConsoleStep
<1>3. ConsoleInv => ConsoleIsItsPersons
  BY ConsoleSays
<1> QED
  BY <1>1, <1>2, <1>3, PTL DEF ConsoleSpec

-----------------------------------------------------------------------------
(* The inductive invariant *)

\* An event was counted before it was claimed, stored before it was queued, and
\* is delivered only as stored.
OutboxInv ==
  /\ sequence \in 0..MaxEvents
  /\ row \in [EventIds -> [status : {"none", "PENDING", "PROCESSING", "PUBLISHED", "FAILED"}, claims : Nat]]
  /\ \A e \in EventIds : row[e].status # "none" => e <= sequence
  /\ \A p \in Publishers : publisher[p] = Resting \/ publisher[p] \in Work
  /\ \A p \in Publishers : publisher[p] # Resting => publisher[p].event <= sequence
  /\ \A p \in Publishers : publisher[p].stage \in {"stored", "queued"} => publisher[p].event \in stored
  /\ DOMAIN publisher = Publishers
  /\ stored \subseteq 1..sequence
  /\ jobs \in [EventIds -> {"none", "waiting", "done"}]
  /\ \A e \in EventIds : jobs[e] # "none" => e \in stored
  /\ socket \in BOOLEAN /\ wire \subseteq EventIds /\ drops \in 0..MaxDrops

\* The stream holds what the relay has passed on and the screen has not read.
Between(i, j) == [k \in 1..(j - i) |-> i + k]
StreamInv ==
  /\ screen \in 0..sequence
  /\ sub = NoSubscription => stream = <<>>
  /\ sub # NoSubscription =>
       /\ sub \in Subscription /\ sub.cursor \in screen..sequence
       /\ stream = Between(screen, sub.cursor)
       /\ sub.stage = "answered" => sub.page \subseteq stored

\* What the relay is still going to ask for or to pass on.
Coming(s, e) ==
  \/ s.stage \in {"asked", "counted"} \/ s.resyncRequested \/ s.retryTimer
  \/ s.stage = "answered" /\ (e \in s.page \/ s.hasMore)

\* An event that was delivered while the relay was connected, and heard, is known to
\* it or coming.
WakeInv ==
  /\ sub.stage = "idle" => ~sub.resyncRequested
  /\ socket /\ sub # NoSubscription =>
       \A e \in EventIds \ wire : jobs[e] = "done" /\ e > sub.cursor => Coming(sub, e)

EventsInv == OutboxInv /\ StreamInv /\ WakeInv

-----------------------------------------------------------------------------
(* Maxima, pages and streams *)

LOCAL INSTANCE FiniteSetsExt  \* CursorAfter's Max

\* Max is the greatest member of a set of naturals that is bounded (CursorAfter).
LEMMA Greatest ==
  ASSUME NEW S, NEW n \in Nat, S \subseteq 0..n, S # {}
  PROVE  Max(S) \in S /\ \A y \in S : Max(S) >= y
<1> DEFINE T == {n - x : x \in S}
<1>1. T \subseteq Nat OBVIOUS
<1>2. PICK s \in S : TRUE OBVIOUS
<1>3. n - s \in T BY <1>2
<1>4. T # {} BY <1>3
<1>5. PICK t \in T : \A y \in T : t <= y BY <1>1, <1>4, LeastNatural
<1>6. PICK x \in S : t = n - x OBVIOUS
<1>7. \A y \in S : x >= y
  <2> TAKE y \in S
  <2>1. n - y \in T OBVIOUS
  <2> QED BY <2>1, <1>5, <1>6
<1> QED BY <1>7 DEF Max

\* A page that is not the last is full, and one that is the last holds every event
\* after the cursor (the replay route's limit).
LEMMA FullPage ==
  ASSUME NEW n \in Nat, NEW S, S \subseteq 0..n
  PROVE  /\ FirstOf(S, PageSize) \subseteq S
         /\ (Cardinality(S) > PageSize) \in BOOLEAN
         /\ ~(Cardinality(S) > PageSize) => FirstOf(S, PageSize) = S
<1>1. IsFiniteSet(S) BY FS_Interval, FS_Subset, 0 \in Int, n \in Int
<1>2. Cardinality(S) \in Nat BY <1>1, FS_CardinalityType
<1>3. PageSize \in Nat BY EventsAssumption
<1>4. FirstOf(S, PageSize) \subseteq S BY DEF FirstOf
<1>5. ASSUME ~(Cardinality(S) > PageSize), NEW e \in S PROVE e \in FirstOf(S, PageSize)
  <2> DEFINE before == {f \in S : f < e}
  <2>1. before \subseteq S /\ e \notin before OBVIOUS
  <2>2. IsFiniteSet(before) /\ Cardinality(before) <= Cardinality(S)
        /\ Cardinality(before) # Cardinality(S)
    BY <2>1, <1>1, FS_Subset
  <2>3. Cardinality(before) \in Nat BY <2>2, FS_CardinalityType
  <2>4. Cardinality(before) < PageSize
    <3> HIDE DEF before
    <3> QED BY <2>2, <2>3, <1>2, <1>3, <1>5
  <2> QED BY <2>4 DEF FirstOf
<1> QED BY <1>2, <1>3, <1>4, <1>5

\* What the screen has not read, when more is passed on and when it reads.
LEMMA StreamGrows ==
  ASSUME NEW i \in Nat, NEW j \in Nat, NEW k \in Nat, i <= j, j <= k
  PROVE  /\ Between(i, j) \o [m \in 1..(k - j) |-> j + m] = Between(i, k)
         /\ Between(i, i) = << >>
         /\ Between(i, j) # << >> => i < j /\ Head(Between(i, j)) = i + 1
                                     /\ Tail(Between(i, j)) = Between(i + 1, j)
<1>1. Between(i, j) \in Seq(Nat) /\ Len(Between(i, j)) = j - i
  BY DEF Between
<1>2. [m \in 1..(k - j) |-> j + m] \in Seq(Nat) /\ Len([m \in 1..(k - j) |-> j + m]) = k - j
  OBVIOUS
<1>3. Between(i, k) \in Seq(Nat) /\ Len(Between(i, k)) = k - i BY DEF Between
<1>4. Between(i, j) \o [m \in 1..(k - j) |-> j + m] = Between(i, k)
  BY <1>1, <1>2, <1>3, ConcatProperties, SeqEqual DEF Between
<1>5. Between(i, i) = << >> BY EmptySeq DEF Between
<1>6. ASSUME Between(i, j) # << >>
      PROVE  i < j /\ Head(Between(i, j)) = i + 1 /\ Tail(Between(i, j)) = Between(i + 1, j)
  <2>1. Len(Between(i, j)) # 0 BY <1>1, <1>6, EmptySeq
  <2>2. i < j BY <1>1, <2>1
  <2>3. Head(Between(i, j)) = i + 1 BY <2>2, <1>1 DEF Between
  <2>4. Between(i + 1, j) \in Seq(Nat) /\ Len(Between(i + 1, j)) = j - (i + 1)
    BY <2>2 DEF Between
  <2>5. Tail(Between(i, j)) \in Seq(Nat) /\ Len(Tail(Between(i, j))) = (j - i) - 1
        /\ \A m \in 1..((j - i) - 1) : Tail(Between(i, j))[m] = Between(i, j)[m + 1]
    BY <1>1, <1>6, HeadTailProperties
  <2>6. \A m \in 1..((j - i) - 1) : Between(i, j)[m + 1] = Between(i + 1, j)[m]
    BY <2>2 DEF Between
  <2>7. Tail(Between(i, j)) = Between(i + 1, j)
    <3> DEFINE a == Tail(Between(i, j))  b == Between(i + 1, j)
    <3>1. Len(a) = Len(b) /\ \A m \in 1..Len(a) : a[m] = b[m] BY <2>2, <2>4, <2>5, <2>6
    <3> QED BY <3>1, <2>4, <2>5, SeqEqual
  <2> QED BY <2>2, <2>3, <2>7
<1> QED BY <1>4, <1>5, <1>6

LEMMA EventsAreFinite == MaxEvents \in Nat /\ EventIds = 1..MaxEvents
<1> QED BY EventsAssumption, LenProperties DEF MaxEvents, EventIds

-----------------------------------------------------------------------------
(* The session, the publisher, the gateway and the socket *)

\* What the publisher's processes do leaves the outbox sound and tells the relay nothing.
PublisherStep(p) ==
  \/ claimNext(p) \/ claimed(p) \/ materialize(p) \/ queueAdd(p)
  \/ publishNext(p) \/ releaseFailure(p) \/ PublisherCrashes(p)

\* To the relay nothing happened: no event was delivered or heard.
RelayUndisturbed ==
  /\ sequence <= sequence' /\ sequence' \in Nat /\ stored \subseteq stored'
  /\ \A e \in EventIds : jobs'[e] = "done" => jobs[e] = "done"
  /\ UNCHANGED <<socket, wire, sub, stream, screen>>

LEMMA UndisturbedKeeps ==
  ASSUME EventsInv, RelayUndisturbed PROVE StreamInv' /\ WakeInv'
<1>1. StreamInv'
  <2>1. sequence \in Nat /\ screen \in 0..sequence BY EventsAreFinite DEF EventsInv, OutboxInv, StreamInv
  <2>2. sequence <= sequence' /\ sequence' \in Nat /\ stored \subseteq stored'
        /\ screen' = screen /\ sub' = sub /\ stream' = stream
    BY DEF RelayUndisturbed
  <2>3. \A k : k \in screen..sequence => k \in screen..sequence'
    BY <2>1, <2>2
  <2>4. screen' \in 0..sequence' BY <2>1, <2>2
  <2>5. sub' # NoSubscription =>
          /\ sub' \in Subscription /\ sub'.cursor \in screen'..sequence'
          /\ stream' = Between(screen', sub'.cursor)
          /\ sub'.stage = "answered" => sub'.page \subseteq stored'
    BY <2>2, <2>3, Zenon DEF EventsInv, StreamInv
  <2> QED BY <2>2, <2>4, <2>5 DEF EventsInv, StreamInv, Subscription
<1>2. WakeInv'
  BY DEF EventsInv, WakeInv, RelayUndisturbed, Coming
<1> QED BY <1>1, <1>2

LEMMA SessionChangesKeepsEvents == ASSUME EventsInv, SessionChanges PROVE EventsInv'
<1> USE EventsAreFinite
<1>1. sequence \in 0..MaxEvents /\ sequence < MaxEvents BY DEF EventsInv, OutboxInv, SessionChanges
<1>2. sequence' = sequence + 1 /\ sequence + 1 \in EventIds BY <1>1 DEF SessionChanges
<1>3. OutboxInv'
  <2>1. row' \in [EventIds -> [status : {"none", "PENDING", "PROCESSING", "PUBLISHED", "FAILED"}, claims : Nat]]
    BY <1>2 DEF EventsInv, OutboxInv, SessionChanges
  <2>2. \A e \in EventIds : row'[e].status # "none" => e <= sequence'
    BY <1>1, <1>2 DEF EventsInv, OutboxInv, SessionChanges
  <2>3. \A p \in Publishers : publisher'[p] # Resting => publisher'[p].event <= sequence'
    BY <1>1, <1>2 DEF EventsInv, OutboxInv, SessionChanges, Work
  <2> QED BY <1>1, <1>2, <2>1, <2>2, <2>3 DEF EventsInv, OutboxInv, SessionChanges
<1>4. RelayUndisturbed BY <1>1, <1>2 DEF RelayUndisturbed, SessionChanges, relayVars
<1> QED BY <1>3, <1>4, UndisturbedKeeps DEF EventsInv

LEMMA PublisherKeepsEvents ==
  ASSUME EventsInv, NEW p \in Publishers, PublisherStep(p) PROVE EventsInv'
<1> USE EventsAreFinite
<1> DEFINE Rows == [EventIds -> [status : {"none", "PENDING", "PROCESSING", "PUBLISHED", "FAILED"},
                                 claims : Nat]]
<1>1. UNCHANGED <<sequence, socket, wire, sub, stream, screen, drops>>
  BY DEF PublisherStep, claimNext, claimed, materialize, queueAdd, publishNext, releaseFailure,
         PublisherCrashes, relayVars
<1>2. sequence \in 0..MaxEvents /\ row \in Rows /\ stored \subseteq 1..sequence
      /\ DOMAIN publisher = Publishers
  BY DEF EventsInv, OutboxInv
<1>3. publisher[p] # Resting =>
        /\ publisher[p] \in Work /\ publisher[p].event \in EventIds
        /\ publisher[p].event <= sequence
        /\ publisher[p].stage \in {"stored", "queued"} => publisher[p].event \in stored
  BY DEF EventsInv, OutboxInv, Work
<1>4. publisher[p].stage # "resting" => publisher[p] # Resting BY DEF Resting
\* A row that is touched was counted; a counted row keeps a status.
<1>5. row' \in Rows /\ \A e \in EventIds : row'[e].status # "none" => e <= sequence
  <2>1. CASE UNCHANGED row BY <2>1, <1>2 DEF EventsInv, OutboxInv
  <2>2. CASE claimed(p)
    <3>1. publisher[p].event \in EventIds /\ publisher[p].event <= sequence
      BY <2>2, <1>3, <1>4 DEF claimed
    <3> DEFINE e == publisher[p].event
    <3>2. row' = row \/ row' = [row EXCEPT ![e] = [status |-> "PROCESSING", claims |-> row[e].claims + 1]]
      BY <2>2 DEF claimed
    <3>3. [status |-> "PROCESSING", claims |-> row[e].claims + 1]
            \in [status : {"none", "PENDING", "PROCESSING", "PUBLISHED", "FAILED"}, claims : Nat]
      BY <3>1, <1>2
    <3> QED BY <3>1, <3>2, <3>3, <1>2 DEF EventsInv, OutboxInv
  <2>3. CASE publishNext(p) \/ releaseFailure(p)
    <3>1. publisher[p].event \in EventIds /\ publisher[p].event <= sequence
      BY <2>3, <1>3, <1>4 DEF publishNext, releaseFailure
    <3>2. row' = row \/ \E st \in {"PUBLISHED", "FAILED", "PENDING"} :
                           row' = [row EXCEPT ![publisher[p].event].status = st]
      BY <2>3, Zenon DEF publishNext, releaseFailure
    <3> QED BY <3>1, <3>2, <1>2 DEF EventsInv, OutboxInv
  <2>4. UNCHANGED row \/ claimed(p) \/ publishNext(p) \/ releaseFailure(p)
    BY DEF PublisherStep, claimNext, claimed, materialize, queueAdd, publishNext, releaseFailure,
           PublisherCrashes, outboxVars
  <2> QED BY <2>1, <2>2, <2>3, <2>4
<1>6. stored \subseteq stored' /\ stored' \subseteq 1..sequence
  <2>1. CASE materialize(p)
    <3>1. stored' = stored \cup {publisher[p].event} BY <2>1 DEF materialize
    <3>2. publisher[p].event \in EventIds /\ publisher[p].event <= sequence
      BY <2>1, <1>3, <1>4 DEF materialize
    <3>3. publisher[p].event \in 1..sequence BY <3>2, <1>2
    <3> QED BY <3>1, <3>3, <1>2
  <2>2. UNCHANGED stored \/ materialize(p)
    BY DEF PublisherStep, claimNext, claimed, materialize, queueAdd, publishNext, releaseFailure,
           PublisherCrashes
  <2> QED BY <2>1, <2>2, <1>2
<1>7. /\ jobs' \in [EventIds -> {"none", "waiting", "done"}]
      /\ \A e \in EventIds : jobs'[e] # "none" => e \in stored'
      /\ \A e \in EventIds : jobs'[e] = "done" => jobs[e] = "done"
  <2>1. CASE queueAdd(p)
    <3>1. publisher[p].event \in stored /\ publisher[p].event \in EventIds
      BY <2>1, <1>3, <1>4 DEF queueAdd
    <3>2. jobs \in [EventIds -> {"none", "waiting", "done"}] BY DEF EventsInv, OutboxInv
    <3>3. \/ jobs' = [jobs EXCEPT ![publisher[p].event] = "waiting"] /\ jobs[publisher[p].event] = "none"
          \/ jobs' = [jobs EXCEPT ![publisher[p].event] = jobs[publisher[p].event]]
      BY <2>1 DEF queueAdd
    <3> QED BY <3>1, <3>2, <3>3, <1>6 DEF EventsInv, OutboxInv
  <2>2. UNCHANGED jobs \/ queueAdd(p)
    BY DEF PublisherStep, claimNext, claimed, materialize, queueAdd, publishNext, releaseFailure,
           PublisherCrashes
  <2> QED BY <2>1, <2>2, <1>6 DEF EventsInv, OutboxInv
<1>8. \E w : /\ publisher' = [publisher EXCEPT ![p] = w]
             /\ w = Resting \/ w \in Work
             /\ w # Resting => w.event <= sequence
             /\ w.stage \in {"stored", "queued"} => w.event \in stored'
  <2>1. CASE claimNext(p)
    <3>1. PICK e \in EventIds :
            /\ Claimable(e)
            /\ publisher' = [publisher EXCEPT ![p] =
                 [stage |-> "looked", event |-> e, attempts |-> row[e].claims + 1, token |-> 0]]
      BY <2>1, Zenon DEF claimNext
    <3> DEFINE w == [stage |-> "looked", event |-> e, attempts |-> row[e].claims + 1, token |-> 0]
    <3>2. row[e].claims \in Nat /\ e <= sequence
      BY <3>1, <1>2 DEF Claimable, EventsInv, OutboxInv
    <3>3. w \in Work /\ w.event <= sequence /\ w.stage \notin {"stored", "queued"}
      BY <3>2 DEF Work
    <3> QED BY <3>1, <3>3
  <2>2. CASE publishNext(p) \/ releaseFailure(p) \/ PublisherCrashes(p)
    <3>1. publisher' = [publisher EXCEPT ![p] = Resting]
      BY <2>2 DEF publishNext, releaseFailure, PublisherCrashes
    <3>2. Resting.stage \notin {"stored", "queued"} BY DEF Resting
    <3> QED BY <3>1, <3>2
  <2>3. CASE claimed(p)
    <3> DEFINE v == publisher[p]
               w == [v EXCEPT !.stage = "claimed", !.token = row[v.event].claims + 1]
    <3>1. v \in Work /\ v.event \in EventIds /\ v.event <= sequence
      BY <2>3, <1>3, <1>4 DEF claimed
    <3>2. \/ publisher' = [publisher EXCEPT ![p] = Resting]
          \/ publisher' = [publisher EXCEPT ![p] = w]
      BY <2>3, <1>2 DEF claimed
    <3>5. row[v.event].claims + 1 \in Nat
      <4> HIDE DEF v
      <4> QED BY <3>1, <1>2
    <3>6. PICK k \in Nat : w = [v EXCEPT !.stage = "claimed", !.token = k] BY <3>5
    <3>3. w \in Work /\ w.event = v.event /\ w.stage = "claimed"
      <4> HIDE DEF v, w
      <4> QED BY <3>1, <3>6 DEF Work
    <3>4. Resting.stage \notin {"stored", "queued"} BY DEF Resting
    <3> HIDE DEF w, v
    <3> QED BY <3>1, <3>2, <3>3, <3>4
  <2>4. CASE materialize(p) \/ queueAdd(p)
    <3> DEFINE v == publisher[p]
               w(st) == [v EXCEPT !.stage = st]
    <3>1. v \in Work /\ v.event <= sequence
      BY <2>4, <1>3, <1>4 DEF materialize, queueAdd
    <3>2. v.event \in stored'
      BY <2>4, <1>3, <1>4 DEF materialize, queueAdd
    <3>3. PICK st \in {"stored", "queued"} : publisher' = [publisher EXCEPT ![p] = w(st)]
      BY <2>4, <1>2 DEF materialize, queueAdd
    <3>4. w(st) \in Work /\ w(st).event = v.event BY <3>1 DEF Work
    <3> HIDE DEF w, v
    <3> QED BY <3>1, <3>2, <3>3, <3>4
  <2> QED BY <2>1, <2>2, <2>3, <2>4 DEF PublisherStep
<1>9. PICK w : /\ publisher' = [publisher EXCEPT ![p] = w]
               /\ w = Resting \/ w \in Work
               /\ w # Resting => w.event <= sequence
               /\ w.stage \in {"stored", "queued"} => w.event \in stored'
  BY <1>8
<1>10. OutboxInv'
  <2>1. \A q \in Publishers : publisher'[q] = IF q = p THEN w ELSE publisher[q]
    BY <1>9, <1>2
  <2>2. DOMAIN publisher' = Publishers BY <1>9, <1>2
  <2>3. \A q \in Publishers : publisher'[q] = Resting \/ publisher'[q] \in Work
    BY <2>1, <1>9 DEF EventsInv, OutboxInv
  <2>4. \A q \in Publishers : publisher'[q] # Resting => publisher'[q].event <= sequence'
    BY <2>1, <1>9, <1>1 DEF EventsInv, OutboxInv
  <2>5. \A q \in Publishers : publisher'[q].stage \in {"stored", "queued"} => publisher'[q].event \in stored'
    BY <2>1, <1>9, <1>6 DEF EventsInv, OutboxInv
  <2> QED BY <1>1, <1>2, <1>5, <1>6, <1>7, <2>2, <2>3, <2>4, <2>5 DEF EventsInv, OutboxInv
<1>11. RelayUndisturbed BY <1>1, <1>2, <1>6, <1>7 DEF RelayUndisturbed
<1> QED BY <1>10, <1>11, UndisturbedKeeps DEF EventsInv

\* The gateway delivers what is stored; when the connection is lost the relay asks
\* again before it counts on the socket.
LEMMA DeliveryKeepsEvents ==
  ASSUME EventsInv, NEW e \in EventIds, deliveryWorker(e) PROVE EventsInv'
<1>1. jobs[e] = "waiting" /\ jobs' = [jobs EXCEPT ![e] = "done"]
      /\ wire' = (IF socket THEN wire \cup {e} ELSE wire)
  BY DEF deliveryWorker
<1>2. UNCHANGED <<sequence, row, publisher, stored, socket, sub, stream, screen, drops>>
  BY DEF deliveryWorker, outboxVars, relayVars
<1>3. jobs' \in [EventIds -> {"none", "waiting", "done"}]
      /\ \A f \in EventIds : jobs'[f] = IF f = e THEN "done" ELSE jobs[f]
  BY <1>1 DEF EventsInv, OutboxInv
<1>4. OutboxInv'
  <2>1. \A f \in EventIds : jobs'[f] # "none" => f \in stored
    BY <1>1, <1>3 DEF EventsInv, OutboxInv
  <2>2. wire' \subseteq EventIds BY <1>1 DEF EventsInv, OutboxInv
  <2> QED BY <1>2, <1>3, <2>1, <2>2 DEF EventsInv, OutboxInv
<1>5. StreamInv' BY <1>2 DEF EventsInv, StreamInv
<1>6. WakeInv'
  BY <1>1, <1>2, <1>3 DEF EventsInv, WakeInv, Coming
<1> QED BY <1>4, <1>5, <1>6 DEF EventsInv

LEMMA SocketDropsKeepsEvents == ASSUME EventsInv, SocketDrops PROVE EventsInv'
<1>1. socket' = FALSE /\ wire' = {} /\ drops' = drops + 1 /\ drops < MaxDrops
      /\ UNCHANGED <<sequence, row, publisher, stored, jobs, sub, stream, screen>>
  BY DEF SocketDrops, outboxVars, relayVars
<1>2. OutboxInv'
  <2>1. drops' \in 0..MaxDrops BY <1>1, EventsAssumption DEF EventsInv, OutboxInv
  <2> QED BY <1>1, <2>1 DEF EventsInv, OutboxInv
<1>3. StreamInv' BY <1>1 DEF EventsInv, StreamInv
<1>4. WakeInv' BY <1>1 DEF EventsInv, WakeInv
<1> QED BY <1>2, <1>3, <1>4 DEF EventsInv

-----------------------------------------------------------------------------
(* The relay and the screen *)

\* The relay's subscription after a prompt, and after a replay.
LEMMA NoSubscriptionIsNone == NoSubscription \notin Subscription
<1> QED BY DEF NoSubscription, Subscription

LEMMA AskedFields ==
  ASSUME NEW c \in 0..MaxEvents
  PROVE  /\ Asked(c) \in Subscription /\ Asked(c).cursor = c /\ Asked(c).stage = "asked"
         /\ Asked(c).page = {} /\ Asked(c).resyncRequested = FALSE
<1> QED BY EventsAreFinite DEF Asked, Subscription

LEMMA SynchronizeAsks ==
  ASSUME NEW s \in Subscription
  PROVE  /\ synchronize(s) \in Subscription /\ synchronize(s).cursor = s.cursor
         /\ synchronize(s).stage # "idle"
         /\ synchronize(s).stage = "answered" => s.stage = "answered" /\ synchronize(s).page = s.page
         /\ synchronize(s).stage = "asked" \/ synchronize(s).resyncRequested
<1>1. s # NoSubscription BY NoSubscriptionIsNone
<1>2. CASE s.stage = "idle"
  <2>1. synchronize(s) = Asked(s.cursor) BY <1>1, <1>2 DEF synchronize
  <2>2. s.cursor \in 0..MaxEvents BY DEF Subscription
  <2> QED BY <2>1, <2>2, AskedFields
<1>3. CASE s.stage # "idle"
  <2>1. synchronize(s) = [s EXCEPT !.resyncRequested = TRUE] BY <1>1, <1>3 DEF synchronize
  <2> QED BY <2>1, <1>3 DEF Subscription
<1> QED BY <1>2, <1>3

LEMMA SettleFields ==
  ASSUME NEW s \in Subscription, NEW retry \in BOOLEAN
  PROVE  /\ Settle(s, retry) \in Subscription /\ Settle(s, retry).cursor = s.cursor
         /\ s.resyncRequested => Settle(s, retry).stage = "asked"
         /\ ~s.resyncRequested => /\ Settle(s, retry).stage = "idle"
                                  /\ Settle(s, retry).retryTimer = (s.retryTimer \/ retry)
                                  /\ Settle(s, retry).resyncRequested = FALSE
<1>1. s.cursor \in 0..MaxEvents /\ s.retryTimer \in BOOLEAN BY DEF Subscription
<1>2. CASE s.resyncRequested BY <1>1, <1>2, AskedFields DEF Settle
<1>3. CASE ~s.resyncRequested
  <2> DEFINE a == Asked(s.cursor)
  <2>1. Settle(s, retry) = [a EXCEPT !.stage = "idle", !.retryTimer = s.retryTimer \/ retry]
    BY <1>3 DEF Settle
  <2>2. a \in Subscription /\ a.cursor = s.cursor /\ a.resyncRequested = FALSE BY <1>1, AskedFields
  <2>3. PICK t \in BOOLEAN : t = (s.retryTimer \/ retry) BY <1>1
  <2>4. Settle(s, retry) = [a EXCEPT !.stage = "idle", !.retryTimer = t] BY <2>1, <2>3
  <2> HIDE DEF a
  <2>5. Settle(s, retry) \in Subscription /\ Settle(s, retry).cursor = s.cursor
        /\ Settle(s, retry).stage = "idle" /\ Settle(s, retry).retryTimer = t
        /\ Settle(s, retry).resyncRequested = FALSE
    BY <2>2, <2>4 DEF Subscription
  <2> QED BY <1>3, <2>3, <2>5
<1> QED BY <1>2, <1>3

\* A step of the relay that leaves the outbox, the stream and the screen alone, and the
\* cursor where it is.
RelayStep ==
  /\ UNCHANGED <<sequence, row, publisher, stored, jobs, stream, screen>>
  /\ socket' \in BOOLEAN /\ wire' \subseteq EventIds /\ drops' \in 0..MaxDrops
  /\ sub # NoSubscription /\ sub' \in Subscription /\ sub'.cursor = sub.cursor
  /\ sub'.stage = "answered" => sub'.page \subseteq stored

LEMMA RelayStepKeeps == ASSUME EventsInv, RelayStep PROVE OutboxInv' /\ StreamInv'
<1>1. OutboxInv' BY DEF EventsInv, OutboxInv, RelayStep
<1>2. StreamInv'
  <2>1. /\ screen' = screen /\ sequence' = sequence /\ stream' = stream /\ stored' = stored
        /\ sub # NoSubscription /\ sub' \in Subscription /\ sub'.cursor = sub.cursor
        /\ sub'.stage = "answered" => sub'.page \subseteq stored
    BY DEF RelayStep
  <2>2. screen \in 0..sequence /\ sub.cursor \in screen..sequence
        /\ stream = Between(screen, sub.cursor)
    BY <2>1 DEF EventsInv, StreamInv
  <2>3. sub' # NoSubscription BY <2>1, NoSubscriptionIsNone
  <2>4. Between(screen', sub'.cursor) = Between(screen, sub.cursor) BY <2>1
  <2>5. sub'.cursor \in screen'..sequence' BY <2>1, <2>2
  <2> QED BY <2>1, <2>2, <2>3, <2>4, <2>5, Zenon DEF StreamInv
<1> QED BY <1>1, <1>2

\* A prompt: the connection is made, or an event past the cursor is heard.
LEMMA PromptKeepsEvents ==
  ASSUME EventsInv, CloudRealtimeConnection \/ \E e \in EventIds : accept(e)
  PROVE  EventsInv'
<1>1. UNCHANGED <<sequence, row, publisher, stored, jobs, stream, screen, drops>>
      /\ socket' \in BOOLEAN /\ wire' \subseteq EventIds
  BY DEF CloudRealtimeConnection, accept, outboxVars, EventsInv, OutboxInv
<1>2. CASE sub' = synchronize(sub) /\ sub # NoSubscription
  <2>1. sub \in Subscription BY <1>2 DEF EventsInv, StreamInv
  <2>2. /\ sub' \in Subscription /\ sub'.cursor = sub.cursor /\ sub'.stage # "idle"
        /\ sub'.stage = "answered" => sub.stage = "answered" /\ sub'.page = sub.page
        /\ sub'.stage = "asked" \/ sub'.resyncRequested
    BY <1>2, <2>1, SynchronizeAsks
  <2>3. RelayStep BY <1>1, <1>2, <2>2 DEF RelayStep, EventsInv, OutboxInv, StreamInv
  <2>4. WakeInv' BY <2>2 DEF WakeInv, Coming
  <2> QED BY <2>3, <2>4, RelayStepKeeps DEF EventsInv
<1>3. CASE sub' = sub /\ sub = NoSubscription
  <2>1. OutboxInv' BY <1>1 DEF EventsInv, OutboxInv
  <2>2. StreamInv' BY <1>1, <1>3 DEF EventsInv, StreamInv
  <2>3. WakeInv' BY <1>3 DEF EventsInv, WakeInv, NoSubscription
  <2> QED BY <2>1, <2>2, <2>3 DEF EventsInv
<1>4. CASE sub' = sub /\ sub # NoSubscription /\ socket' = socket
           /\ \E e \in EventIds : wire' = wire \ {e} /\ ~(e > sub.cursor)
  <2>1. OutboxInv' BY <1>1 DEF EventsInv, OutboxInv
  <2>2. StreamInv' BY <1>1, <1>4 DEF EventsInv, StreamInv
  <2>3. WakeInv' BY <1>1, <1>4 DEF EventsInv, WakeInv, Coming
  <2> QED BY <2>1, <2>2, <2>3 DEF EventsInv
<1>5. CASE CloudRealtimeConnection
  <2>1. sub' = synchronize(sub) BY <1>5 DEF CloudRealtimeConnection, synchronizeAll
  <2> QED BY <2>1, <1>2, <1>3 DEF synchronize
<1>6. CASE \E e \in EventIds : accept(e)
  <2>1. PICK e \in EventIds : accept(e) BY <1>6
  <2>2. /\ wire' = wire \ {e} /\ socket' = socket
        /\ sub' = IF sub # NoSubscription /\ e > sub.cursor THEN synchronize(sub) ELSE sub
    BY <2>1 DEF accept
  <2> QED BY <2>2, <1>2, <1>3, <1>4
<1> QED BY <1>5, <1>6

LEMMA ReplayKeepsEvents ==
  ASSUME EventsInv, ReplayCounts \/ ReplayReads \/ fetchReplayFails \/ scheduleRetry
  PROVE  EventsInv'
<1>1. UNCHANGED <<sequence, row, publisher, stored, jobs, socket, wire, stream, screen>>
  BY DEF ReplayCounts, ReplayReads, fetchReplayFails, scheduleRetry, outboxVars
<1>2. sub # NoSubscription
  <2>1. sub.stage \in {"asked", "counted", "answered"} \/ sub # NoSubscription
    BY Zenon DEF ReplayCounts, ReplayReads, fetchReplayFails, scheduleRetry
  <2> QED BY <2>1 DEF NoSubscription
<1>3. sub \in Subscription /\ sub.cursor \in 0..MaxEvents
  BY <1>2 DEF EventsInv, StreamInv, Subscription
<1>4. socket \in BOOLEAN /\ wire \subseteq EventIds /\ drops \in 0..MaxDrops
      /\ sequence \in 0..MaxEvents
  BY DEF EventsInv, OutboxInv
<1>5. sub.stage = "idle" => ~sub.resyncRequested BY DEF EventsInv, WakeInv
<1>6. CASE ReplayCounts
  <2>1. sub.stage = "asked" /\ sub' = [sub EXCEPT !.stage = "counted", !.latest = sequence]
        /\ drops' = drops
    BY <1>6 DEF ReplayCounts
  <2>2. sub' \in Subscription /\ sub'.cursor = sub.cursor /\ sub'.stage = "counted"
    BY <2>1, <1>3, <1>4 DEF Subscription
  <2>3. RelayStep BY <1>1, <1>2, <1>4, <2>1, <2>2 DEF RelayStep
  <2>4. WakeInv' BY <2>2 DEF WakeInv, Coming
  <2> QED BY <2>3, <2>4, RelayStepKeeps DEF EventsInv
<1>7. CASE ReplayReads
  <2> DEFINE later == {e \in stored : e > sub.cursor}
             batch == FirstOf(later, PageSize)
             more == Cardinality(later) > PageSize
  <2>8. stored \subseteq 1..sequence BY DEF EventsInv, OutboxInv
  <2>10. later \subseteq stored OBVIOUS
  <2> HIDE DEF later, batch, more
  <2>9. stored \subseteq EventIds BY <2>8, <1>4, EventsAreFinite
  <2>11. EventIds \subseteq 0..MaxEvents BY EventsAreFinite
  <2>1. later \subseteq 0..MaxEvents /\ later \subseteq stored /\ stored \subseteq EventIds
    BY <2>9, <2>10, <2>11
  <2> USE DEF later, batch, more
  <2>2. batch \subseteq later /\ more \in BOOLEAN /\ (~more => batch = later)
    <3> HIDE DEF later
    <3> QED BY <2>1, FullPage, EventsAreFinite
  <2>3. sub' = [sub EXCEPT !.stage = "answered", !.page = batch, !.hasMore = more]
        /\ drops' = drops
    BY <1>7, Zenon DEF ReplayReads
  <2>4. \A e \in stored : e > sub.cursor => e \in later OBVIOUS
  <2> HIDE DEF later, batch, more
  <2>5. sub' \in Subscription /\ sub'.cursor = sub.cursor /\ sub'.stage = "answered"
        /\ sub'.page = batch /\ sub'.hasMore = more
    <3>1. batch \in SUBSET EventIds BY <2>1, <2>2
    <3>2. PICK h \in BOOLEAN : h = more BY <2>2
    <3>3. sub' = [sub EXCEPT !.stage = "answered", !.page = batch, !.hasMore = h] BY <2>3, <3>2
    <3>4. sub' \in Subscription /\ sub'.cursor = sub.cursor /\ sub'.stage = "answered"
          /\ sub'.page = batch /\ sub'.hasMore = h
      BY <3>1, <3>3, <1>3 DEF Subscription
    <3> QED BY <3>2, <3>4
  <2>6. RelayStep BY <1>1, <1>2, <1>4, <2>1, <2>2, <2>3, <2>5 DEF RelayStep
  <2>7. WakeInv'
    <3>1. \A e \in EventIds : jobs[e] = "done" => e \in stored
      BY DEF EventsInv, OutboxInv
    <3>2. \A e \in EventIds : jobs[e] = "done" /\ e > sub.cursor => e \in batch \/ more
      BY <3>1, <2>2, <2>4
    <3> QED BY <3>2, <2>5, <1>1 DEF WakeInv, Coming
  <2> QED BY <2>6, <2>7, RelayStepKeeps DEF EventsInv
<1>8. CASE fetchReplayFails
  <2>1. sub' = Settle(sub, TRUE) /\ drops' = drops + 1 /\ drops < MaxDrops
    BY <1>8 DEF fetchReplayFails
  <2>2. drops' \in 0..MaxDrops BY <2>1, <1>4, EventsAssumption
  <2>3. /\ sub' \in Subscription /\ sub'.cursor = sub.cursor
        /\ sub'.stage = "asked" \/ sub'.retryTimer
        /\ sub'.stage = "idle" => sub'.resyncRequested = FALSE
        /\ sub'.stage # "answered"
    BY <2>1, <1>3, SettleFields
  <2>4. RelayStep BY <1>1, <1>2, <1>4, <2>2, <2>3 DEF RelayStep
  <2>5. WakeInv' BY <2>3 DEF WakeInv, Coming
  <2> QED BY <2>4, <2>5, RelayStepKeeps DEF EventsInv
<1>9. CASE scheduleRetry
  <2> DEFINE s == [sub EXCEPT !.retryTimer = FALSE]
  <2>1. s \in Subscription /\ s.cursor = sub.cursor /\ s.stage = sub.stage /\ s.page = sub.page
    BY <1>3 DEF Subscription
  <2>2. sub' = synchronize(s) /\ drops' = drops BY <1>9 DEF scheduleRetry
  <2> HIDE DEF s
  <2>3. /\ sub' \in Subscription /\ sub'.cursor = sub.cursor /\ sub'.stage # "idle"
        /\ sub'.stage = "answered" => sub.stage = "answered" /\ sub'.page = sub.page
        /\ sub'.stage = "asked" \/ sub'.resyncRequested
    BY <2>1, <2>2, SynchronizeAsks
  <2>4. RelayStep BY <1>1, <1>2, <1>4, <2>2, <2>3 DEF RelayStep, EventsInv, StreamInv
  <2>5. WakeInv' BY <2>3 DEF WakeInv, Coming
  <2> QED BY <2>4, <2>5, RelayStepKeeps DEF EventsInv
<1> QED BY <1>6, <1>7, <1>8, <1>9

\* The cursor moves over events of the page only, and never back.
LEMMA CursorMoves ==
  ASSUME EventsInv, NEW s \in Subscription, s.cursor \in 0..sequence, s.page \subseteq stored
  PROVE  CursorAfter(s) \in s.cursor..sequence
<1>1. sequence \in Nat /\ stored \subseteq 1..sequence
  BY EventsAreFinite DEF EventsInv, OutboxInv
<1> DEFINE S == {s.cursor} \cup {e \in s.page : \A f \in (s.cursor + 1)..e : f \in s.page}
<1>2. S \subseteq 0..sequence /\ s.cursor \in S
  <2>1. S \subseteq {s.cursor} \cup s.page /\ s.cursor \in S OBVIOUS
  <2>2. s.page \subseteq 0..sequence
    <3>1. \A e \in s.page : e \in 1..sequence BY <1>1
    <3> HIDE DEF S
    <3> QED BY <3>1, <1>1
  <2> HIDE DEF S
  <2> QED BY <2>1, <2>2
<1>3. CursorAfter(s) = Max(S) BY DEF CursorAfter
<1> HIDE DEF S
<1>4. Max(S) \in S /\ \A y \in S : Max(S) >= y BY <1>1, <1>2, Greatest
<1>5. CursorAfter(s) \in 0..sequence /\ CursorAfter(s) >= s.cursor BY <1>2, <1>3, <1>4
<1> QED BY <1>1, <1>5

LEMMA AppliedKeepsEvents == ASSUME EventsInv, ReplayApplied PROVE EventsInv'
<1> DEFINE c == CursorAfter(sub)
           gap == \E e \in sub.page : e > c
           read == [sub EXCEPT !.cursor = c]
           late == c < sub.latest
<1>1. UNCHANGED <<sequence, row, publisher, stored, jobs, socket, wire, screen, drops>>
      /\ sub.stage = "answered"
      /\ stream' = stream \o [i \in 1..(c - sub.cursor) |-> sub.cursor + i]
  BY DEF ReplayApplied, outboxVars
<1>2. sub' = IF ~gap /\ sub.hasMore
             THEN [Asked(c) EXCEPT !.resyncRequested = sub.resyncRequested]
             ELSE Settle(read, gap \/ late)
  BY DEF ReplayApplied
<1>3. /\ sub # NoSubscription /\ sub \in Subscription
      /\ screen \in 0..sequence /\ sub.cursor \in screen..sequence
      /\ stream = Between(screen, sub.cursor) /\ sub.page \subseteq stored
      /\ sequence \in 0..MaxEvents
  <2>1. sub # NoSubscription BY <1>1 DEF NoSubscription
  <2> QED BY <1>1, <2>1 DEF EventsInv, OutboxInv, StreamInv
<1>4. c \in sub.cursor..sequence /\ c \in 0..MaxEvents
  <2>1. sub.cursor \in 0..sequence BY <1>3, EventsAreFinite
  <2>2. c \in sub.cursor..sequence BY <1>3, <2>1, CursorMoves
  <2> HIDE DEF c
  <2> QED BY <1>3, <2>1, <2>2, EventsAreFinite
<1>5. \A e \in sub.page : e > c => gap OBVIOUS
<1>6. read \in Subscription /\ read.cursor = c
      /\ read.resyncRequested = sub.resyncRequested /\ read.retryTimer = sub.retryTimer
  <2> HIDE DEF c
  <2> QED BY <1>3, <1>4 DEF Subscription
<1>7. gap \in BOOLEAN /\ late \in BOOLEAN OBVIOUS
<1> HIDE DEF c, gap, read, late
\* What was Coming and lies past the page's end still is.
<1>8. /\ sub' \in Subscription /\ sub'.cursor = c /\ sub'.stage # "answered"
      /\ sub'.stage = "idle" => /\ ~sub'.resyncRequested /\ ~sub.resyncRequested
                                /\ gap \/ ~sub.hasMore
                                /\ sub'.retryTimer = (sub.retryTimer \/ (gap \/ late))
  <2>1. CASE ~gap /\ sub.hasMore
    <3> DEFINE a == Asked(c)
    <3>1. sub' = [a EXCEPT !.resyncRequested = sub.resyncRequested] BY <1>2, <2>1
    <3>2. a \in Subscription /\ a.cursor = c /\ a.stage = "asked" BY <1>4, AskedFields
    <3>3. PICK r \in BOOLEAN : r = sub.resyncRequested BY <1>3 DEF Subscription
    <3>4. sub' = [a EXCEPT !.resyncRequested = r] BY <3>1, <3>3
    <3> HIDE DEF a
    <3>5. sub' \in Subscription /\ sub'.cursor = c /\ sub'.stage = "asked"
      BY <3>2, <3>4 DEF Subscription
    <3> QED BY <3>5
  <2>2. CASE ~(~gap /\ sub.hasMore)
    <3>1. PICK r \in BOOLEAN : r = (gap \/ late) BY <1>7
    <3>2. sub' = Settle(read, r) BY <1>2, <2>2, <3>1
    <3>3. /\ sub' \in Subscription /\ sub'.cursor = c
          /\ sub.resyncRequested => sub'.stage = "asked"
          /\ ~sub.resyncRequested => /\ sub'.stage = "idle"
                                     /\ sub'.retryTimer = (sub.retryTimer \/ r)
                                     /\ sub'.resyncRequested = FALSE
      <4>1. /\ Settle(read, r) \in Subscription /\ Settle(read, r).cursor = read.cursor
            /\ read.resyncRequested => Settle(read, r).stage = "asked"
            /\ ~read.resyncRequested => /\ Settle(read, r).stage = "idle"
                                        /\ Settle(read, r).retryTimer = (read.retryTimer \/ r)
                                        /\ Settle(read, r).resyncRequested = FALSE
        BY <1>6, SettleFields
      <4> QED BY <3>2, <4>1, <1>6
    <3>4. sub.resyncRequested \in BOOLEAN BY <1>3 DEF Subscription
    <3> QED BY <3>1, <3>3, <3>4, <2>2
  <2> QED BY <2>1, <2>2
<1>9. OutboxInv' BY <1>1 DEF EventsInv, OutboxInv
<1>10. StreamInv'
  <2>1. sub' # NoSubscription BY <1>8, NoSubscriptionIsNone
  <2>2. screen \in Nat /\ sub.cursor \in Nat /\ c \in Nat /\ screen <= sub.cursor /\ sub.cursor <= c
        /\ c \in screen..sequence
    BY <1>3, <1>4, EventsAreFinite
  <2>3. stream' = Between(screen, c) BY <1>1, <1>3, <2>2, StreamGrows
  <2> QED BY <1>1, <1>3, <1>8, <2>1, <2>2, <2>3 DEF StreamInv
<1>11. WakeInv'
  <2>1. ASSUME socket, NEW e \in EventIds \ wire, jobs[e] = "done", e > c, sub'.stage = "idle"
        PROVE  sub'.retryTimer
    <3>1. e > sub.cursor BY <2>1, <1>3, <1>4, EventsAreFinite
    <3>2. Coming(sub, e) BY <2>1, <3>1, <1>3 DEF EventsInv, WakeInv
    <3>3. sub.retryTimer \/ e \in sub.page \/ sub.hasMore
      BY <3>2, <1>1, <1>8, <2>1 DEF Coming
    <3> QED BY <3>3, <1>5, <1>8, <2>1
  <2>2. sub'.stage \in {"idle", "asked", "counted"} BY <1>8 DEF Subscription
  <2> QED BY <2>1, <2>2, <1>1, <1>8 DEF WakeInv, Coming
<1> QED BY <1>9, <1>10, <1>11 DEF EventsInv

\* The browser opens and closes its stream, and reads it.
LEMMA ScreenKeepsEvents ==
  ASSUME EventsInv, subscribe \/ unsubscribe \/ onmessage PROVE EventsInv'
<1>1. UNCHANGED <<sequence, row, publisher, stored, jobs, socket, wire>>
  BY DEF subscribe, unsubscribe, onmessage, outboxVars
<1>2. drops' \in 0..MaxDrops
  BY EventsAssumption DEF subscribe, unsubscribe, onmessage, EventsInv, OutboxInv
<1>3. OutboxInv' BY <1>1, <1>2 DEF EventsInv, OutboxInv
<1>4. screen \in 0..sequence /\ sequence \in 0..MaxEvents
  BY DEF EventsInv, OutboxInv, StreamInv
<1>5. CASE subscribe
  <2>1. sub = NoSubscription /\ sub' = Asked(screen) /\ stream' = stream /\ screen' = screen
    BY <1>5 DEF subscribe
  <2>2. sub' \in Subscription /\ sub'.cursor = screen /\ sub'.stage = "asked"
    <3>1. screen \in 0..MaxEvents BY <1>4, EventsAreFinite
    <3> QED BY <3>1, <2>1, AskedFields
  <2>3. sub' # NoSubscription BY <2>2, NoSubscriptionIsNone
  <2>4. stream = << >> BY <2>1 DEF EventsInv, StreamInv
  <2>5. Between(screen, screen) = << >> BY <1>4, EventsAreFinite, StreamGrows
  <2>6. screen \in screen..sequence BY <1>4, EventsAreFinite
  <2>7. StreamInv' BY <1>1, <1>4, <2>1, <2>2, <2>3, <2>4, <2>5, <2>6 DEF StreamInv
  <2>8. WakeInv' BY <2>2 DEF WakeInv, Coming
  <2> QED BY <1>3, <2>7, <2>8 DEF EventsInv
<1>6. CASE unsubscribe
  <2>1. sub' = NoSubscription /\ stream' = << >> /\ screen' = screen BY <1>6 DEF unsubscribe
  <2>2. StreamInv' BY <1>1, <1>4, <2>1 DEF StreamInv
  <2>3. WakeInv' BY <2>1 DEF WakeInv, NoSubscription
  <2> QED BY <1>3, <2>2, <2>3 DEF EventsInv
<1>7. CASE onmessage
  <2>1. stream # << >> /\ stream' = Tail(stream) /\ sub' = sub
        /\ screen' = IF Head(stream) = screen + 1 THEN screen + 1 ELSE screen
    BY <1>7 DEF onmessage
  <2>2. /\ sub # NoSubscription /\ sub \in Subscription /\ sub.cursor \in screen..sequence
        /\ stream = Between(screen, sub.cursor)
        /\ sub.stage = "answered" => sub.page \subseteq stored
    BY <2>1 DEF EventsInv, StreamInv
  <2>3. screen < sub.cursor /\ Head(stream) = screen + 1
        /\ Tail(stream) = Between(screen + 1, sub.cursor)
    <3>1. screen \in Nat /\ sub.cursor \in Nat /\ screen <= sub.cursor /\ sub.cursor <= sub.cursor
      BY <1>4, <2>2, EventsAreFinite
    <3>2. Between(screen, sub.cursor) # << >> =>
            /\ screen < sub.cursor /\ Head(Between(screen, sub.cursor)) = screen + 1
            /\ Tail(Between(screen, sub.cursor)) = Between(screen + 1, sub.cursor)
      BY <3>1, StreamGrows
    <3> QED BY <2>1, <2>2, <3>2
  <2>4. screen' = screen + 1 /\ screen + 1 \in 0..sequence
        /\ sub.cursor \in (screen + 1)..sequence
    BY <1>4, <2>1, <2>2, <2>3, EventsAreFinite
  <2>5. StreamInv' BY <1>1, <2>1, <2>2, <2>3, <2>4 DEF StreamInv
  <2>6. WakeInv' BY <1>1, <2>1 DEF EventsInv, WakeInv, Coming
  <2> QED BY <1>3, <2>5, <2>6 DEF EventsInv
<1> QED BY <1>5, <1>6, <1>7

\* When all is quiet nothing is coming, so the cursor has passed every event and the
\* screen has read what the cursor has passed.
LEMMA EventsInvGivesCaughtUp == ASSUME EventsInv PROVE QuietMeansCaughtUp
<1>1. sequence \in 0..MaxEvents /\ screen \in 0..MaxEvents /\ stored \subseteq EventIds
  <2>1. sequence \in 0..MaxEvents /\ stored \subseteq 1..sequence BY DEF EventsInv, OutboxInv
  <2>2. screen \in 0..sequence BY DEF EventsInv, StreamInv
  <2>3. 1..sequence \subseteq 1..MaxEvents /\ 0..sequence \subseteq 0..MaxEvents
    BY <2>1, EventsAreFinite
  <2> QED BY <2>1, <2>2, <2>3, EventsAreFinite
<1>2. sub = NoSubscription \/ sub \in Subscription BY DEF EventsInv, StreamInv
<1>3. stream \in Seq(EventIds)
  <2>1. CASE sub = NoSubscription
    <3>1. stream = << >> BY <2>1 DEF EventsInv, StreamInv
    <3> QED BY <3>1, EmptySeq
  <2>2. CASE sub # NoSubscription
    <3>1. sub.cursor \in screen..sequence /\ stream = Between(screen, sub.cursor)
      BY <2>2 DEF EventsInv, StreamInv
    <3>2. \A k \in 1..(sub.cursor - screen) : screen + k \in EventIds
      BY <1>1, <3>1, EventsAreFinite
    <3>3. sub.cursor - screen \in Nat BY <1>1, <3>1, EventsAreFinite
    <3> QED BY <3>1, <3>2, <3>3 DEF Between
  <2> QED BY <2>1, <2>2
<1>4. EventsTypeOK BY <1>1, <1>2, <1>3 DEF EventsTypeOK, EventsInv, OutboxInv
<1>5. ASSUME Quiet PROVE screen = sequence
  <2>1. /\ \A e \in 1..sequence : jobs[e] = "done"
        /\ socket /\ wire = {} /\ stream = << >> /\ sub.stage = "idle" /\ ~sub.retryTimer
    BY <1>5 DEF Quiet
  <2>2. sub # NoSubscription BY <2>1 DEF NoSubscription
  <2>3. sub.cursor \in screen..sequence /\ stream = Between(screen, sub.cursor)
        /\ ~sub.resyncRequested
    BY <2>1, <2>2 DEF EventsInv, StreamInv, WakeInv
  <2>4. screen = sub.cursor
    <3>1. sub.cursor - screen \in Nat BY <1>1, <2>3, EventsAreFinite
    <3>2. Len(Between(screen, sub.cursor)) = sub.cursor - screen BY <3>1 DEF Between
    <3>3. sub.cursor - screen = 0 BY <2>1, <2>3, <3>2, EmptySeq
    <3> QED BY <1>1, <2>3, <3>3, EventsAreFinite
  <2>5. \A e \in EventIds : e <= sequence => ~(e > sub.cursor)
    <3> SUFFICES ASSUME NEW e \in EventIds, e <= sequence, e > sub.cursor PROVE FALSE OBVIOUS
    <3>1. jobs[e] = "done" /\ e \notin wire BY <1>1, <2>1, EventsAreFinite
    <3>2. Coming(sub, e) BY <2>1, <2>2, <3>1 DEF EventsInv, WakeInv
    <3> QED BY <2>1, <2>3, <3>2 DEF Coming
  <2>6. ~(sequence > sub.cursor)
    <3>1. sequence > sub.cursor => sequence \in EventIds BY <1>1, <2>3, EventsAreFinite
    <3> QED BY <1>1, <2>5, <3>1, EventsAreFinite
  <2> QED BY <1>1, <2>3, <2>4, <2>6, EventsAreFinite
<1> QED BY <1>4, <1>5 DEF QuietMeansCaughtUp

-----------------------------------------------------------------------------
(* The theorem *)

LEMMA EventsInvInit == EventsInit => EventsInv
<1> SUFFICES ASSUME EventsInit PROVE EventsInv OBVIOUS
<1>1. OutboxInv
  <2>1. 0 \in 0..MaxEvents /\ 0 \in 0..MaxDrops BY EventsAreFinite, EventsAssumption
  <2>2. \A p \in Publishers : publisher[p] = Resting BY DEF EventsInit
  <2>3. Resting.stage \notin {"stored", "queued"} BY DEF Resting
  <2>4. row \in [EventIds -> [status : {"none", "PENDING", "PROCESSING", "PUBLISHED", "FAILED"}, claims : Nat]]
        /\ \A e \in EventIds : row[e].status = "none"
    BY DEF EventsInit, NoRow
  <2> QED BY <2>1, <2>2, <2>3, <2>4 DEF OutboxInv, EventsInit
<1>2. StreamInv BY DEF StreamInv, EventsInit
<1>3. WakeInv BY DEF WakeInv, EventsInit, NoSubscription
<1> QED BY <1>1, <1>2, <1>3 DEF EventsInv

LEMMA EventsInvStep == ASSUME EventsInv, [EventsNext]_eventsVars PROVE EventsInv'
<1>1. CASE EventsNext
  <2>1. CASE \E p \in Publishers : PublisherStep(p) BY <2>1, PublisherKeepsEvents
  <2>2. CASE \E e \in EventIds : deliveryWorker(e) BY <2>2, DeliveryKeepsEvents
  <2>3. EventsNext =>
          \/ SessionChanges \/ SocketDrops \/ CloudRealtimeConnection
          \/ \E p \in Publishers : PublisherStep(p)
          \/ \E e \in EventIds : deliveryWorker(e)
          \/ \E e \in EventIds : accept(e)
          \/ ReplayCounts \/ ReplayReads \/ fetchReplayFails \/ ReplayApplied \/ scheduleRetry
          \/ subscribe \/ unsubscribe \/ onmessage
    BY Zenon DEF EventsNext, PublisherStep
  <2> QED BY <1>1, <2>1, <2>2, <2>3, SessionChangesKeepsEvents, SocketDropsKeepsEvents,
             PromptKeepsEvents, ReplayKeepsEvents, AppliedKeepsEvents, ScreenKeepsEvents
<1>2. CASE UNCHANGED eventsVars
  BY <1>2 DEF EventsInv, OutboxInv, StreamInv, WakeInv, Coming, eventsVars
<1> QED BY <1>1, <1>2

\* No wake-up is lost (events.ts synchronize, publish-outbox.ts publishNext, gateway.ts):
\* for any number of publishers, events, claims, lost connections and any page size, when
\* everything is quiet the screen has read every event the session counted.
THEOREM QuietIsCaughtUp == EventsSpec => []QuietMeansCaughtUp
<1>1. EventsSpec => []EventsInv
  BY EventsInvInit, EventsInvStep, PTL DEF EventsSpec
<1>2. EventsInv => QuietMeansCaughtUp BY EventsInvGivesCaughtUp
<1> QED BY <1>1, <1>2, PTL

-----------------------------------------------------------------------------
LOCAL INSTANCE SequencesExt  \* mergePageRanges' Last and Front

(* Page ranges: what the parser makes of a text are the maximal runs of the *)
(* pages it names.                                                          *)

Ranges == Int \X Int
InOrder(s) == \A i, j \in DOMAIN s : i < j => ~Before(s[j], s[i])

\* By first page and then by last is an order (mergePageRanges' comparison).
LEMMA BeforeOrders ==
  \A a, b, c \in Ranges :
    /\ ~Before(a, a)
    /\ Before(a, b) => ~Before(b, a)
    /\ Before(a, b) /\ Before(b, c) => Before(a, c)
    /\ ~Before(a, b) => a = b \/ Before(b, a)
BY DEF Before, Ranges

\* p arranges the first n members of s.
Arranges(p, s, n) ==
  p \in [1..n -> 1..n] /\ IsInjective(p) /\ \A i, j \in 1..n : i < j => ~Before(s[p[j]], s[p[i]])

\* Any ranges can be arranged, by inserting one after the other.
LEMMA SomeArrangement ==
  ASSUME NEW n \in Nat, NEW s, \A i \in 1..n : s[i] \in Ranges
  PROVE  \E p : Arranges(p, s, n)
<1> DEFINE T == {m \in 0..n : ~\E p : Arranges(p, s, m)}
<1>1. SUFFICES ASSUME T # {} PROVE FALSE
  BY DEF T
<1>2. PICK k \in T : \A y \in T : k <= y
  <2>1. T \subseteq Nat OBVIOUS
  <2> QED BY <1>1, <2>1, LeastNatural
<1>3. k # 0
  <2>1. Arranges(<<>>, s, 0) BY DEF Arranges, IsInjective
  <2> QED BY <1>2, <2>1
<1>4. k \in 1..n /\ k - 1 \in 0..n /\ k - 1 \notin T BY <1>2, <1>3
<1>5. PICK p : Arranges(p, s, k - 1) BY <1>4
<1>6. p \in [1..k-1 -> 1..k-1] /\ IsInjective(p)
      /\ \A i, j \in 1..k-1 : i < j => ~Before(s[p[j]], s[p[i]])
  BY <1>5 DEF Arranges
<1> DEFINE C == {i \in 1..k-1 : Before(s[k], s[p[i]])} \cup {k}
<1>7. PICK c \in C : \A y \in C : c <= y
  <2>1. C \subseteq Nat /\ C # {} BY <1>4
  <2> HIDE DEF C
  <2> QED BY <2>1, LeastNatural
<1>8. /\ c \in 1..k /\ (c < k => Before(s[k], s[p[c]]))
      /\ \A i \in 1..k-1 : i < c => ~Before(s[k], s[p[i]])
  BY <1>4, <1>7
<1> HIDE DEF C, T
<1> DEFINE q == [i \in 1..k |-> IF i < c THEN p[i] ELSE IF i = c THEN k ELSE p[i-1]]
<1>9. /\ \A i \in 1..k : i < c => q[i] = p[i] /\ i \in 1..k-1 /\ p[i] \in 1..k-1
      /\ q[c] = k
      /\ \A i \in 1..k : i > c => q[i] = p[i-1] /\ i - 1 \in 1..k-1 /\ p[i-1] \in 1..k-1
  BY <1>4, <1>6, <1>8
<1>10. q \in [1..k -> 1..k] BY <1>4, <1>6, <1>8
<1> HIDE DEF q
<1>11. IsInjective(q)
  <2>1. ASSUME NEW i \in 1..k, NEW j \in 1..k, i < j PROVE q[i] # q[j]
    <3>1. \A a, b \in 1..k-1 : p[a] = p[b] => a = b BY <1>6 DEF IsInjective
    <3>2. CASE j < c BY <1>4, <1>8, <1>9, <2>1, <3>1, <3>2
    <3>3. CASE j = c BY <1>4, <1>8, <1>9, <2>1, <3>3
    <3>4. CASE j > c /\ i < c BY <1>4, <1>8, <1>9, <2>1, <3>1, <3>4
    <3>5. CASE j > c /\ i = c BY <1>4, <1>8, <1>9, <2>1, <3>5
    <3>6. CASE j > c /\ i > c BY <1>4, <1>8, <1>9, <2>1, <3>1, <3>6
    <3> QED BY <1>4, <1>8, <3>2, <3>3, <3>4, <3>5, <3>6
  <2>2. \A i, j \in 1..k : i < j \/ i = j \/ j < i BY <1>4
  <2>3. DOMAIN q = 1..k BY <1>10
  <2> QED BY <2>1, <2>2, <2>3 DEF IsInjective
<1>12. ASSUME NEW i \in 1..k, NEW j \in 1..k, i < j PROVE ~Before(s[q[j]], s[q[i]])
  <2>1. s[k] \in Ranges /\ \A a \in 1..k-1 : s[p[a]] \in Ranges BY <1>4, <1>6
  <2>2. CASE j < c BY <1>4, <1>6, <1>8, <1>9, <1>12, <2>2
  <2>3. CASE j = c BY <1>4, <1>8, <1>9, <1>12, <2>3
  <2>4. CASE j > c /\ i < c
    <3>1. i < j - 1 BY <1>4, <1>8, <1>12, <2>4
    <3> QED BY <1>6, <1>9, <2>4, <3>1
  <2>5. CASE j > c /\ i = c
    <3>1. Before(s[k], s[p[c]]) /\ c \in 1..k-1 BY <1>4, <1>8, <2>5
    <3>2. j - 1 = c \/ ~Before(s[p[j-1]], s[p[c]]) BY <1>6, <1>9, <2>5, <3>1
    <3>3. ~Before(s[p[j-1]], s[k]) BY <1>9, <2>1, <2>5, <3>1, <3>2, BeforeOrders
    <3> QED BY <1>9, <2>5, <3>3
  <2>6. CASE j > c /\ i > c
    <3>1. i - 1 < j - 1 BY <1>4, <1>12
    <3> QED BY <1>6, <1>9, <2>6, <3>1
  <2> QED BY <1>4, <1>8, <2>2, <2>3, <2>4, <2>5, <2>6
<1>13. Arranges(q, s, k) BY <1>10, <1>11, <1>12 DEF Arranges
<1> QED BY <1>2, <1>13 DEF T

\* Sorting arranges: the same ranges in order.
LEMMA ArrangedRanges ==
  ASSUME NEW r \in Seq(Ranges)
  PROVE  LET s == Arranged(r, Before)
         IN /\ s \in Seq(Ranges) /\ Len(s) = Len(r) /\ InOrder(s)
            /\ {s[i] : i \in DOMAIN s} = {r[i] : i \in DOMAIN r}
<1> DEFINE n == Len(r)
           IsOrder(p) == IsInjective(p) /\ \A i, j \in DOMAIN r : i < j => ~Before(r[p[j]], r[p[i]])
           o == CHOOSE p \in [DOMAIN r -> DOMAIN r] : IsOrder(p)
           s == Arranged(r, Before)
<1>1. n \in Nat /\ DOMAIN r = 1..n /\ \A i \in 1..n : r[i] \in Ranges OBVIOUS
<1>2. o \in [DOMAIN r -> DOMAIN r] /\ IsOrder(o)
  <2>1. PICK p : Arranges(p, r, n) BY <1>1, SomeArrangement
  <2>2. p \in [DOMAIN r -> DOMAIN r] /\ IsOrder(p) BY <1>1, <2>1 DEF Arranges
  <2> HIDE DEF IsOrder
  <2> QED BY <2>2
<1>3. s = [i \in DOMAIN r |-> r[o[i]]] BY DEF Arranged
<1> HIDE DEF o, s
<1>4. o \in Surjection(1..n, 1..n)
  <2>1. o \in Injection(1..n, 1..n) BY <1>1, <1>2 DEF Injection, IsInjective
  <2>2. IsFiniteSet(1..n) BY <1>1, FS_Interval, 1 \in Int
  <2> QED BY <2>1, <2>2, FS_Injection
<1>5. o \in [1..n -> 1..n] /\ \A k \in 1..n : \E i \in 1..n : o[i] = k
  BY <1>4 DEF Surjection
<1>6. s \in [1..n -> Ranges] /\ \A i \in 1..n : s[i] = r[o[i]] BY <1>1, <1>3, <1>5
<1> HIDE DEF n
<1>7. s \in Seq(Ranges) /\ Len(s) = n /\ DOMAIN s = 1..n BY <1>1, <1>6
<1>8. InOrder(s)
  <2>1. \A i, j \in 1..n : i < j => ~Before(r[o[j]], r[o[i]]) BY <1>1, <1>2
  <2> QED BY <1>6, <1>7, <2>1 DEF InOrder
<1>9. {s[i] : i \in DOMAIN s} = {r[i] : i \in DOMAIN r}
  <2>1. \A i \in 1..n : o[i] \in 1..n BY <1>5
  <2>2. ASSUME NEW i \in 1..n PROVE s[i] \in {r[m] : m \in 1..n} BY <1>6, <2>1
  <2>3. ASSUME NEW m \in 1..n PROVE r[m] \in {s[i] : i \in 1..n}
    <3>1. PICK i \in 1..n : o[i] = m BY <1>5
    <3>2. s[i] = r[m] BY <1>6, <3>1
    <3> QED BY <3>2
  <2>4. {s[i] : i \in 1..n} = {r[m] : m \in 1..n} BY <2>2, <2>3
  <2> QED BY <1>1, <1>7, <2>4
<1> QED BY <1>7, <1>8, <1>9 DEF n, s

\* A rearrangement of 1..n that keeps the order is none.
LEMMA OrderKeepsPlace ==
  ASSUME NEW n \in Nat, NEW p \in [1..n -> 1..n], \A i, j \in 1..n : i < j => p[i] < p[j]
  PROVE  \A i \in 1..n : p[i] = i
<1> DEFINE Low == {i \in 1..n : p[i] < i}
           High == {n - i : i \in {k \in 1..n : p[k] > k}}
<1>1. ASSUME Low # {} PROVE FALSE
  <2>1. PICK i \in Low : \A y \in Low : i <= y
    <3>1. Low \subseteq Nat OBVIOUS
    <3> HIDE DEF Low
    <3> QED BY <1>1, <3>1, LeastNatural
  <2>2. i \in 1..n /\ p[i] < i /\ p[i] \in 1..n OBVIOUS
  <2>3. i - 1 \in 1..n /\ i - 1 \notin Low BY <2>1, <2>2
  <2>4. p[i-1] >= i - 1 /\ p[i-1] < p[i] BY <2>2, <2>3
  <2> QED BY <2>2, <2>3, <2>4
<1>2. ASSUME High # {} PROVE FALSE
  <2>1. PICK h \in High : \A y \in High : h <= y
    <3>1. High \subseteq Nat OBVIOUS
    <3> HIDE DEF High
    <3> QED BY <1>2, <3>1, LeastNatural
  <2>2. PICK i \in 1..n : p[i] > i /\ h = n - i OBVIOUS
  <2>3. p[i] \in 1..n /\ i + 1 \in 1..n BY <2>2
  <2>4. p[i+1] > p[i] /\ p[i+1] \in 1..n BY <2>3
  <2>5. n - (i + 1) \in High BY <2>2, <2>3, <2>4
  <2> HIDE DEF High
  <2> QED BY <2>1, <2>2, <2>5
<1>3. \A i \in 1..n : ~(p[i] < i) /\ ~(p[i] > i) BY <1>1, <1>2
<1> QED BY <1>3

\* Ranges in strict order are left as they are.
LEMMA SortedRangesStay ==
  ASSUME NEW r \in Seq(Ranges), \A i, j \in DOMAIN r : i < j => Before(r[i], r[j])
  PROVE  Arranged(r, Before) = r
<1> DEFINE n == Len(r)
           IsOrder(p) == IsInjective(p) /\ \A i, j \in DOMAIN r : i < j => ~Before(r[p[j]], r[p[i]])
           o == CHOOSE p \in [DOMAIN r -> DOMAIN r] : IsOrder(p)
<1>1. n \in Nat /\ DOMAIN r = 1..n /\ \A i \in 1..n : r[i] \in Ranges OBVIOUS
<1>2. o \in [DOMAIN r -> DOMAIN r] /\ IsOrder(o)
  <2>1. PICK p : Arranges(p, r, n) BY <1>1, SomeArrangement
  <2>2. p \in [DOMAIN r -> DOMAIN r] /\ IsOrder(p) BY <1>1, <2>1 DEF Arranges
  <2> HIDE DEF IsOrder
  <2> QED BY <2>2
<1>3. Arranged(r, Before) = [i \in DOMAIN r |-> r[o[i]]] BY DEF Arranged
<1> HIDE DEF o
<1>4. ASSUME NEW i \in 1..n, NEW j \in 1..n, i < j PROVE o[i] < o[j]
  <2>1. o[i] \in 1..n /\ o[j] \in 1..n /\ o[i] # o[j] BY <1>1, <1>2, <1>4 DEF IsInjective
  <2>2. ~Before(r[o[j]], r[o[i]]) BY <1>1, <1>2, <1>4
  <2>3. \A a, b \in 1..n : a < b => Before(r[a], r[b]) BY <1>1
  <2> HIDE DEF n
  <2>4. \A a, b \in 1..n : a < b \/ a = b \/ b < a BY <1>1
  <2> QED BY <2>1, <2>2, <2>3, <2>4
<1>5. \A i \in 1..n : o[i] = i BY <1>1, <1>2, <1>4, OrderKeepsPlace
<1> QED BY <1>1, <1>3, <1>5

-----------------------------------------------------------------------------
(* Merging *)

Merging(s, n, m) == m = [k \in 0..n |-> IF k = 0 THEN <<>> ELSE appendRange(m[k - 1], s[k])]

LEMMA SomeMerging == ASSUME NEW s, NEW n \in Nat PROVE \E m : Merging(s, n, m)
<1> DEFINE T == {k \in 0..n : ~\E m : Merging(s, k, m)}
<1>1. SUFFICES ASSUME T # {} PROVE FALSE
  BY DEF T
<1>2. PICK k \in T : \A y \in T : k <= y
  <2>1. T \subseteq Nat OBVIOUS
  <2> HIDE DEF T
  <2> QED BY <1>1, <2>1, LeastNatural
<1>3. k # 0
  <2> DEFINE m == [i \in 0..0 |-> <<>>]
  <2>1. Merging(s, 0, m) BY DEF Merging
  <2> QED BY <1>2, <2>1
<1>4. k \in 1..n /\ k - 1 \in 0..n /\ k - 1 \notin T BY <1>2, <1>3
<1>5. PICK m : Merging(s, k - 1, m) BY <1>4
<1> DEFINE q == [i \in 0..k |-> IF i = k THEN appendRange(m[k - 1], s[k]) ELSE m[i]]
<1>6. \A i \in 0..k-1 : m[i] = IF i = 0 THEN <<>> ELSE appendRange(m[i - 1], s[i])
  BY <1>5 DEF Merging
<1>7. \A i \in 0..k : q[i] = IF i = 0 THEN <<>> ELSE appendRange(q[i - 1], s[i])
  <2> TAKE i \in 0..k
  <2>1. CASE i = k
    <3>1. q[k - 1] = m[k - 1] /\ q[k] = appendRange(m[k - 1], s[k]) BY <1>4
    <3> HIDE DEF q
    <3> QED BY <1>4, <2>1, <3>1
  <2>2. CASE i # k
    <3>1. i \in 0..k-1 /\ q[i] = m[i] BY <1>4, <2>2
    <3>2. i # 0 => i - 1 \in 0..k /\ q[i - 1] = m[i - 1] BY <1>4, <2>2
    <3> HIDE DEF q
    <3> QED BY <1>6, <3>1, <3>2
  <2> QED BY <2>1, <2>2
<1>8. q = [i \in 0..k |-> IF i = 0 THEN <<>> ELSE appendRange(q[i - 1], s[i])]
  <2>1. q = [i \in 0..k |-> q[i]] OBVIOUS
  <2> HIDE DEF q
  <2> QED BY <1>7, <2>1
<1>9. Merging(s, k, q)
  <2> HIDE DEF q
  <2> QED BY <1>8 DEF Merging
<1> QED BY <1>2, <1>9 DEF T

LEMMA MergeUnfolds ==
  ASSUME NEW r \in Seq(Ranges)
  PROVE  LET s == Arranged(r, Before)
         IN \E m : /\ mergePageRanges(r) = m[Len(s)] /\ m[0] = <<>>
                   /\ \A k \in 1 .. Len(s) : m[k] = appendRange(m[k - 1], s[k])
<1> DEFINE s == Arranged(r, Before)
           n == Len(s)
           m == CHOOSE g : g = [k \in 0..n |-> IF k = 0 THEN <<>> ELSE appendRange(g[k - 1], s[k])]
<1>1. mergePageRanges(r) = m[n] BY DEF mergePageRanges
<1>2. n \in Nat BY ArrangedRanges
<1> HIDE DEF s, n
<1>3. \E g : g = [k \in 0..n |-> IF k = 0 THEN <<>> ELSE appendRange(g[k - 1], s[k])]
  BY <1>2, SomeMerging DEF Merging
<1>4. m = [k \in 0..n |-> IF k = 0 THEN <<>> ELSE appendRange(m[k - 1], s[k])] BY <1>3
<1> HIDE DEF m
<1>5. m[0] = <<>> /\ \A k \in 1..n : m[k] = appendRange(m[k - 1], s[k]) BY <1>2, <1>4
<1> QED BY <1>1, <1>5 DEF n, s

\* Appending to what comes before the last, with another last, replaces it.
LEMMA LastReplaced ==
  ASSUME NEW q \in Seq(Ranges), q # <<>>, NEW x \in Ranges
  PROVE  LET t == Append(Front(q), x)
         IN /\ t \in Seq(Ranges) /\ Len(t) = Len(q) /\ t[Len(q)] = x
            /\ \A i \in 1 .. Len(q) - 1 : t[i] = q[i]
<1> DEFINE n == Len(q)
           f == SubSeq(q, 1, n - 1)
<1>1. n \in Nat /\ n >= 1 BY EmptySeq
<1>2. f \in Seq(Ranges) /\ Len(f) = n - 1 /\ \A i \in 1 .. n - 1 : f[i] = q[i]
  BY <1>1, SubSeqProperties
<1> HIDE DEF f, n
<1>3. Append(f, x) \in Seq(Ranges) /\ Len(Append(f, x)) = n /\ Append(f, x)[n] = x
      /\ \A i \in 1 .. n - 1 : Append(f, x)[i] = f[i]
  BY <1>1, <1>2
<1> QED BY <1>2, <1>3 DEF Front, f, n

LEMMA LargerOfTwo ==
  \A a, b \in Int : Max({a, b}) = IF a < b THEN b ELSE a
BY DEF Max

appendsRange(q, x) ==
  IF q # <<>> /\ x[1] <= q[Len(q)][2] + 1
  THEN LET t == appendRange(q, x)
       IN /\ t \in Seq(Ranges) /\ Len(t) = Len(q) /\ \A i \in 1 .. Len(q) - 1 : t[i] = q[i]
          /\ t[Len(q)] = <<q[Len(q)][1], IF q[Len(q)][2] < x[2] THEN x[2] ELSE q[Len(q)][2]>>
  ELSE appendRange(q, x) = Append(q, x)

LEMMA RangeAppended ==
  ASSUME NEW q \in Seq(Ranges), NEW x \in Ranges PROVE appendsRange(q, x)
<1>1. CASE q # <<>> /\ x[1] <= q[Len(q)][2] + 1
  <2> DEFINE y == <<q[Len(q)][1], Max({q[Len(q)][2], x[2]})>>
  <2>1. q[Len(q)] \in Ranges BY <1>1
  <2>2. q[Len(q)][1] \in Int /\ q[Len(q)][2] \in Int /\ x[2] \in Int BY <2>1 DEF Ranges
  <2>3. y = <<q[Len(q)][1], IF q[Len(q)][2] < x[2] THEN x[2] ELSE q[Len(q)][2]>>
    BY <2>2, LargerOfTwo
  <2>4. y \in Ranges BY <2>2, <2>3 DEF Ranges
  <2>5. appendRange(q, x) = Append(Front(q), y) BY <1>1 DEF appendRange, Last
  <2> HIDE DEF y
  <2> QED BY <1>1, <2>3, <2>4, <2>5, LastReplaced DEF appendsRange
<1>2. CASE ~(q # <<>> /\ x[1] <= q[Len(q)][2] + 1)
  BY <1>2 DEF appendsRange, appendRange, Last
<1> QED BY <1>1, <1>2

-----------------------------------------------------------------------------
(* Runs: ranges with a page missing between any two.                       *)

AreRuns(r) ==
  /\ \A i \in DOMAIN r : r[i][1] <= r[i][2]
  /\ \A i \in 1 .. Len(r) - 1 : r[i][2] + 1 < r[i + 1][1]
Names(r, p) == \E i \in DOMAIN r : r[i][1] <= p /\ p <= r[i][2]

LEMMA RangesTyped ==
  ASSUME NEW r \in Seq(Ranges)
  PROVE  \A i \in DOMAIN r : r[i] \in Ranges /\ r[i][1] \in Int /\ r[i][2] \in Int
<1>1. \A i \in DOMAIN r : r[i] \in Ranges OBVIOUS
<1>2. \A x \in Ranges : x[1] \in Int /\ x[2] \in Int BY DEF Ranges
<1> QED BY <1>1, <1>2

LEMMA PagesOfRanges ==
  ASSUME NEW r \in Seq(Ranges)
  PROVE  UNION {r[i][1] .. r[i][2] : i \in DOMAIN r} = {p \in Int : Names(r, p)}
<1>1. \A i \in DOMAIN r : r[i][1] \in Int /\ r[i][2] \in Int BY DEF Ranges
<1>2. \A p : p \in UNION {r[i][1] .. r[i][2] : i \in DOMAIN r}
             <=> \E i \in DOMAIN r : p \in r[i][1] .. r[i][2]
  OBVIOUS
<1>3. \A p : \A i \in DOMAIN r : p \in r[i][1] .. r[i][2] <=> p \in Int /\ r[i][1] <= p /\ p <= r[i][2]
  BY <1>1
<1> QED BY <1>2, <1>3 DEF Names

\* The gap between neighbours is between any two.
LEMMA GapsAreGlobal ==
  ASSUME NEW r \in Seq(Ranges), AreRuns(r)
  PROVE  \A i, j \in DOMAIN r : i < j => r[i][2] + 1 < r[j][1]
<1> DEFINE n == Len(r)
           Bad == {j \in 1..n : \E i \in 1..n : i < j /\ ~(r[i][2] + 1 < r[j][1])}
<1>1. n \in Nat /\ DOMAIN r = 1..n OBVIOUS
<1>2. \A i \in 1..n : r[i][1] \in Int /\ r[i][2] \in Int /\ r[i][1] <= r[i][2]
  BY <1>1 DEF Ranges, AreRuns
<1>3. \A i \in 1..n-1 : r[i][2] + 1 < r[i + 1][1] BY DEF AreRuns
<1> HIDE DEF n
<1>4. ASSUME Bad # {} PROVE FALSE
  <2>1. PICK j \in Bad : \A y \in Bad : j <= y
    <3>1. Bad \subseteq Nat OBVIOUS
    <3> HIDE DEF Bad
    <3> QED BY <1>4, <3>1, LeastNatural
  <2>2. PICK i \in 1..n : j \in 1..n /\ i < j /\ ~(r[i][2] + 1 < r[j][1]) OBVIOUS
  <2>3. j - 1 \in 1..n /\ j - 1 \in 1..n-1 /\ j - 1 \notin Bad BY <1>1, <2>1, <2>2
  <2>4. r[j - 1][2] + 1 < r[j][1] BY <1>3, <2>2, <2>3
  <2>5. i # j - 1 BY <2>2, <2>4
  <2>6. i < j - 1 BY <2>2, <2>5
  <2>7. r[i][2] + 1 < r[j - 1][1] BY <2>3, <2>6
  <2>8. r[i][2] \in Int /\ r[j - 1][1] \in Int /\ r[j - 1][2] \in Int /\ r[j][1] \in Int
        /\ r[j - 1][1] <= r[j - 1][2]
    BY <1>2, <2>2, <2>3
  <2> DEFINE a == r[i][2]
             b == r[j - 1][1]
             c == r[j - 1][2]
             d == r[j][1]
  <2>9. ~(a + 1 < d) /\ c + 1 < d /\ a + 1 < b BY <2>2, <2>4, <2>7
  <2>10. a \in Int /\ b \in Int /\ c \in Int /\ d \in Int /\ b <= c BY <2>8
  <2> HIDE DEF Bad, a, b, c, d
  <2> QED BY <2>9, <2>10
<1> QED BY <1>1, <1>4

\* A merge keeps, of the first k ranges, the runs of what they name.
MergeOK(s, k, q) ==
  /\ q \in Seq(Ranges) /\ Len(q) <= k /\ AreRuns(q)
  /\ k > 0 => q # <<>> /\ q[Len(q)][1] <= s[k][1]
  /\ \A p \in Int : Names(q, p) <=> \E i \in 1..k : s[i][1] <= p /\ p <= s[i][2]

LEMMA MergeKeepsOK ==
  ASSUME NEW s \in Seq(Ranges), InOrder(s), \A i \in DOMAIN s : s[i][1] <= s[i][2],
         NEW k \in Nat, k + 1 <= Len(s), NEW q, MergeOK(s, k, q)
  PROVE  MergeOK(s, k + 1, appendRange(q, s[k + 1]))
<1> DEFINE x == s[k + 1]
           n == Len(q)
           t == appendRange(q, x)
<1>1. q \in Seq(Ranges) /\ n \in Nat /\ n <= k /\ AreRuns(q) /\ DOMAIN q = 1..n BY DEF MergeOK
<1>2. x \in Ranges /\ x[1] \in Int /\ x[2] \in Int /\ x[1] <= x[2] BY DEF Ranges
<1>3. \A i \in 1..n : q[i] \in Ranges /\ q[i][1] \in Int /\ q[i][2] \in Int /\ q[i][1] <= q[i][2]
  <2>1. \A i \in 1..n : q[i] \in Ranges /\ q[i][1] \in Int /\ q[i][2] \in Int
    BY <1>1, RangesTyped
  <2>2. \A i \in 1..n : q[i][1] <= q[i][2] BY <1>1 DEF AreRuns
  <2> QED BY <2>1, <2>2
<1>4. \A i \in 1..n-1 : q[i][2] + 1 < q[i + 1][1] BY <1>1 DEF AreRuns
<1>5. \A p \in Int : (\E i \in 1..n : q[i][1] <= p /\ p <= q[i][2])
                     <=> \E i \in 1..k : s[i][1] <= p /\ p <= s[i][2]
  BY <1>1 DEF MergeOK, Names
<1>6. \A p : (\E i \in 1..k+1 : s[i][1] <= p /\ p <= s[i][2])
             <=> (\E i \in 1..k : s[i][1] <= p /\ p <= s[i][2]) \/ (x[1] <= p /\ p <= x[2])
  OBVIOUS
<1>7. q = <<>> <=> n = 0 BY <1>1, EmptySeq
<1>8. n > 0 => q[n][1] <= x[1]
  <2>1. SUFFICES ASSUME n > 0 PROVE q[n][1] <= x[1]
    OBVIOUS
  <2>2. k > 0 /\ k \in DOMAIN s /\ k + 1 \in DOMAIN s /\ k < k + 1 BY <1>1, <2>1
  <2>3. ~Before(x, s[k]) BY <2>2 DEF InOrder
  <2>4. s[k] \in Ranges BY <2>2
  <2>5. s[k][1] \in Int /\ s[k][1] <= x[1] BY <1>2, <2>3, <2>4 DEF Before, Ranges
  <2>6. q[n][1] <= s[k][1] BY <2>2 DEF MergeOK
  <2>7. q[n][1] \in Int BY <1>1, <1>3, <2>1
  <2> QED BY <1>2, <2>5, <2>6, <2>7
<1>9. appendsRange(q, x) BY <1>1, <1>2, RangeAppended
<1> HIDE DEF x, n, t
<1>10. CASE n > 0 /\ x[1] <= q[n][2] + 1
  <2> DEFINE e == IF q[n][2] < x[2] THEN x[2] ELSE q[n][2]
  <2>1. /\ t \in Seq(Ranges) /\ Len(t) = n /\ \A i \in 1..n-1 : t[i] = q[i]
        /\ t[n] = <<q[n][1], e>>
    BY <1>1, <1>7, <1>9, <1>10 DEF appendsRange, n, t
  <2>2. n \in 1..n /\ q[n][1] \in Int /\ q[n][2] \in Int /\ q[n][1] <= q[n][2] /\ q[n][1] <= x[1]
    BY <1>1, <1>3, <1>8, <1>10
  <2>3. e \in Int /\ e >= q[n][2] /\ e >= x[2] /\ (e = q[n][2] \/ e = x[2]) BY <1>2, <2>2
  <2>4. DOMAIN t = 1..n /\ t[n][1] = q[n][1] /\ t[n][2] = e BY <2>1
  <2>5. \A i \in 1..n : i = n \/ i \in 1..n-1 BY <1>1
  <2>6. AreRuns(t)
    <3>1. \A i \in 1..n : t[i][1] = q[i][1] /\ t[i][1] <= t[i][2]
      BY <1>2, <1>3, <2>1, <2>2, <2>3, <2>4, <2>5
    <3>2. \A i \in 1..n-1 : i \in 1..n /\ i + 1 \in 1..n /\ t[i][2] = q[i][2] BY <1>1, <2>1
    <3>3. \A i \in 1..n-1 : t[i][2] + 1 < t[i + 1][1] BY <1>4, <3>1, <3>2
    <3> QED BY <2>1, <2>4, <3>1, <3>3 DEF AreRuns
  <2>7. \A p \in Int : (t[n][1] <= p /\ p <= t[n][2])
                       <=> (q[n][1] <= p /\ p <= q[n][2]) \/ (x[1] <= p /\ p <= x[2])
    BY <1>2, <1>10, <2>2, <2>3, <2>4
  <2>8. ASSUME NEW p \in Int
        PROVE  Names(t, p) <=> \E i \in 1..k+1 : s[i][1] <= p /\ p <= s[i][2]
    <3>1. Names(t, p) <=> \E i \in 1..n : t[i][1] <= p /\ p <= t[i][2] BY <2>4 DEF Names
    <3>2. (\E i \in 1..n : t[i][1] <= p /\ p <= t[i][2])
          <=> (\E i \in 1..n-1 : q[i][1] <= p /\ p <= q[i][2]) \/ (t[n][1] <= p /\ p <= t[n][2])
      <4>1. (\E i \in 1..n : t[i][1] <= p /\ p <= t[i][2])
            <=> (\E i \in 1..n-1 : t[i][1] <= p /\ p <= t[i][2]) \/ (t[n][1] <= p /\ p <= t[n][2])
        <5>1. \A i \in 1..n-1 : i \in 1..n BY <1>1
        <5> QED BY <2>2, <2>5, <5>1
      <4>2. (\E i \in 1..n-1 : t[i][1] <= p /\ p <= t[i][2])
            <=> \E i \in 1..n-1 : q[i][1] <= p /\ p <= q[i][2]
        BY <2>1
      <4> QED BY <4>1, <4>2
    <3>3. (\E i \in 1..n : q[i][1] <= p /\ p <= q[i][2])
          <=> (\E i \in 1..n-1 : q[i][1] <= p /\ p <= q[i][2]) \/ (q[n][1] <= p /\ p <= q[n][2])
      BY <1>1, <2>2, <2>5
    <3> QED BY <1>5, <1>6, <2>7, <3>1, <3>2, <3>3
  <2>9. t # <<>> /\ t[Len(t)][1] <= x[1] /\ Len(t) <= k + 1
    BY <1>1, <1>10, <2>1, <2>2, <2>4, EmptySeq
  <2> QED BY <2>1, <2>6, <2>8, <2>9 DEF MergeOK, t, x
<1>11. CASE ~(n > 0 /\ x[1] <= q[n][2] + 1)
  <2>1. t = Append(q, x) BY <1>1, <1>7, <1>9, <1>11 DEF appendsRange, n, t
  <2>2. t \in Seq(Ranges) /\ Len(t) = n + 1 /\ DOMAIN t = 1..n+1 /\ t[n + 1] = x
        /\ \A i \in 1..n : t[i] = q[i]
    BY <1>1, <1>2, <2>1 DEF n
  <2>3. \A i \in 1..n+1 : i = n + 1 \/ i \in 1..n BY <1>1
  <2>4. AreRuns(t)
    <3>1. \A i \in 1..n+1 : t[i][1] <= t[i][2] BY <1>2, <1>3, <2>2, <2>3
    <3>2. ASSUME NEW i \in 1..n PROVE t[i][2] + 1 < t[i + 1][1]
      <4>1. CASE i = n
        <5>1. n > 0 /\ i \in 1..n /\ q[n][2] \in Int BY <1>1, <1>3, <3>2, <4>1
        <5> QED BY <1>2, <1>11, <2>2, <4>1, <5>1
      <4>2. CASE i # n
        <5>1. i \in 1..n-1 /\ i + 1 \in 1..n BY <1>1, <3>2, <4>2
        <5> QED BY <1>4, <2>2, <5>1
      <4> QED BY <4>1, <4>2
    <3>3. Len(t) - 1 = n BY <1>1, <2>2
    <3> QED BY <2>2, <3>1, <3>2, <3>3 DEF AreRuns
  <2>5. ASSUME NEW p \in Int
        PROVE  Names(t, p) <=> \E i \in 1..k+1 : s[i][1] <= p /\ p <= s[i][2]
    <3>1. Names(t, p) <=> \E i \in 1..n+1 : t[i][1] <= p /\ p <= t[i][2] BY <2>2 DEF Names
    <3>2. (\E i \in 1..n+1 : t[i][1] <= p /\ p <= t[i][2])
          <=> (\E i \in 1..n : q[i][1] <= p /\ p <= q[i][2]) \/ (x[1] <= p /\ p <= x[2])
      BY <1>1, <2>2, <2>3
    <3> QED BY <1>5, <1>6, <3>1, <3>2
  <2>6. t # <<>> /\ t[Len(t)][1] <= x[1] /\ Len(t) <= k + 1 BY <1>1, <1>2, <2>2, EmptySeq
  <2> QED BY <2>2, <2>4, <2>5, <2>6 DEF MergeOK, t, x
<1> QED BY <1>10, <1>11 DEF t, x

\* The parser's ranges are runs, and name the pages the segments name.
LEMMA MergedRuns ==
  ASSUME NEW r \in Seq(Ranges), \A i \in DOMAIN r : r[i][1] <= r[i][2]
  PROVE  LET q == mergePageRanges(r)
         IN /\ q \in Seq(Ranges) /\ Len(q) <= Len(r) /\ AreRuns(q)
            /\ r # <<>> => q # <<>>
            /\ \A p \in Int : Names(q, p) <=> Names(r, p)
<1> DEFINE s == Arranged(r, Before)
           n == Len(s)
<1>1. /\ s \in Seq(Ranges) /\ n = Len(r) /\ n \in Nat /\ InOrder(s)
      /\ {s[i] : i \in DOMAIN s} = {r[i] : i \in DOMAIN r}
  <2>1. s \in Seq(Ranges) /\ Len(s) = Len(r) /\ InOrder(s) BY ArrangedRanges
  <2>2. {s[i] : i \in DOMAIN s} = {r[i] : i \in DOMAIN r} BY ArrangedRanges
  <2> HIDE DEF s
  <2> QED BY <2>1, <2>2
<1>2. PICK m : /\ mergePageRanges(r) = m[n] /\ m[0] = <<>>
               /\ \A k \in 1..n : m[k] = appendRange(m[k - 1], s[k])
  BY MergeUnfolds
<1> HIDE DEF s
<1>3. \A i \in DOMAIN s : s[i][1] <= s[i][2]
  <2>1. ASSUME NEW i \in DOMAIN s PROVE s[i][1] <= s[i][2]
    <3>1. \E j \in DOMAIN r : r[j] = s[i] BY <1>1
    <3> QED BY <3>1
  <2> QED BY <2>1
<1> DEFINE T == {k \in 0..n : ~MergeOK(s, k, m[k])}
<1>4. ASSUME T # {} PROVE FALSE
  <2>1. PICK k \in T : \A y \in T : k <= y
    <3>1. T \subseteq Nat OBVIOUS
    <3> HIDE DEF T
    <3> QED BY <1>4, <3>1, LeastNatural
  <2>2. k # 0
    <3>1. MergeOK(s, 0, <<>>)
      BY EmptySeq DEF MergeOK, AreRuns, Names
    <3> QED BY <1>2, <2>1, <3>1
  <2>3. k \in 1..n /\ k - 1 \in Nat /\ k - 1 \in 0..n /\ k - 1 \notin T BY <1>1, <2>1, <2>2
  <2>4. MergeOK(s, k - 1, m[k - 1]) BY <2>3
  <2>5. (k - 1) + 1 = k /\ k <= n BY <2>3
  <2>6. MergeOK(s, k, appendRange(m[k - 1], s[k])) BY <1>1, <1>3, <2>3, <2>4, <2>5, MergeKeepsOK
  <2>7. m[k] = appendRange(m[k - 1], s[k]) BY <1>2, <2>3
  <2> QED BY <2>1, <2>6, <2>7
<1>5. MergeOK(s, n, mergePageRanges(r)) BY <1>1, <1>2, <1>4
<1> HIDE DEF T, n
<1> DEFINE q == mergePageRanges(r)
<1>6. /\ q \in Seq(Ranges) /\ Len(q) <= n /\ AreRuns(q) /\ (n > 0 => q # <<>>)
      /\ \A p \in Int : Names(q, p) <=> \E i \in 1..n : s[i][1] <= p /\ p <= s[i][2]
  BY <1>5 DEF MergeOK
<1>7. \A p : (\E i \in 1..n : s[i][1] <= p /\ p <= s[i][2]) <=> Names(r, p)
  <2>1. DOMAIN s = 1..n BY <1>1 DEF n
  <2>2. ASSUME NEW p, NEW i \in 1..n, s[i][1] <= p, p <= s[i][2] PROVE Names(r, p)
    <3>1. \E j \in DOMAIN r : r[j] = s[i] BY <1>1, <2>1
    <3> QED BY <2>2, <3>1 DEF Names
  <2>3. ASSUME NEW p, Names(r, p) PROVE \E i \in 1..n : s[i][1] <= p /\ p <= s[i][2]
    <3>1. PICK j \in DOMAIN r : r[j][1] <= p /\ p <= r[j][2] BY <2>3 DEF Names
    <3>2. \E i \in DOMAIN s : s[i] = r[j] BY <1>1
    <3> QED BY <2>1, <3>1, <3>2
  <2> QED BY <2>2, <2>3
<1>8. r # <<>> => n > 0 BY <1>1, EmptySeq
<1> QED BY <1>1, <1>6, <1>7, <1>8

\* Runs are what they were merged to.
LEMMA RunsStay ==
  ASSUME NEW r \in Seq(Ranges), AreRuns(r)
  PROVE  mergePageRanges(r) = r
<1> DEFINE n == Len(r)
<1>1. n \in Nat /\ DOMAIN r = 1..n OBVIOUS
<1>2. \A i \in 1..n : r[i] \in Ranges /\ r[i][1] \in Int /\ r[i][2] \in Int /\ r[i][1] <= r[i][2]
  BY <1>1, RangesTyped DEF AreRuns
<1>3. \A i, j \in DOMAIN r : i < j => Before(r[i], r[j])
  <2>1. \A i, j \in DOMAIN r : i < j => r[i][2] + 1 < r[j][1] BY GapsAreGlobal
  <2> QED BY <1>1, <1>2, <2>1 DEF Before
<1>4. Arranged(r, Before) = r BY <1>3, SortedRangesStay
<1>5. PICK m : /\ mergePageRanges(r) = m[n] /\ m[0] = <<>>
               /\ \A k \in 1..n : m[k] = appendRange(m[k - 1], r[k])
  BY <1>4, MergeUnfolds
<1>6. \A i \in 1..n-1 : r[i][2] + 1 < r[i + 1][1] BY DEF AreRuns
<1> HIDE DEF n
<1> DEFINE KeptRanges(k) == m[k] \in Seq(Ranges) /\ Len(m[k]) = k /\ \A i \in 1..k : m[k][i] = r[i]
           T == {k \in 0..n : ~KeptRanges(k)}
<1>7. ASSUME T # {} PROVE FALSE
  <2>1. PICK k \in T : \A y \in T : k <= y
    <3>1. T \subseteq Nat OBVIOUS
    <3> HIDE DEF T
    <3> QED BY <1>7, <3>1, LeastNatural
  <2>2. k # 0
    <3>1. KeptRanges(0) BY <1>5, EmptySeq
    <3> QED BY <2>1, <3>1
  <2>3. k \in 1..n /\ k - 1 \in 0..n /\ k - 1 \notin T BY <1>1, <2>1, <2>2
  <2> DEFINE q == m[k - 1]
             x == r[k]
  <2>4. q \in Seq(Ranges) /\ Len(q) = k - 1 /\ \A i \in 1..k-1 : q[i] = r[i] BY <2>3
  <2>5. m[k] = appendRange(q, x) /\ x \in Ranges BY <1>2, <1>5, <2>3
  <2>6. appendsRange(q, x) BY <2>4, <2>5, RangeAppended
  <2> HIDE DEF q
  <2>7. ~(q # <<>> /\ x[1] <= q[Len(q)][2] + 1)
    <3>1. SUFFICES ASSUME q # <<>> PROVE ~(x[1] <= q[Len(q)][2] + 1)
      OBVIOUS
    <3>2. k - 1 \in 1..n-1 /\ k - 1 \in 1..n /\ k - 1 \in 1..k-1 BY <1>1, <2>3, <2>4, <3>1, EmptySeq
    <3>3. q[Len(q)] = r[k - 1] BY <2>4, <3>2
    <3>4. r[k - 1][2] + 1 < r[(k - 1) + 1][1] /\ (k - 1) + 1 = k BY <1>6, <2>3, <3>2
    <3>5. r[k - 1][2] \in Int /\ x[1] \in Int BY <1>2, <2>3, <3>2
    <3> DEFINE a == r[k - 1][2]
               b == x[1]
    <3>6. a + 1 < b /\ a \in Int /\ b \in Int BY <3>4, <3>5
    <3>7. ~(b <= a + 1)
      <4> HIDE DEF a, b
      <4> QED BY <3>6
    <3> QED BY <3>3, <3>7
  <2>8. m[k] = Append(q, x) BY <2>5, <2>6, <2>7 DEF appendsRange
  <2>9. m[k] \in Seq(Ranges) /\ Len(m[k]) = k /\ m[k][k] = x /\ \A i \in 1..k-1 : m[k][i] = q[i]
    BY <2>3, <2>4, <2>5, <2>8
  <2>10. \A i \in 1..k : i = k \/ i \in 1..k-1 BY <2>3
  <2>11. KeptRanges(k) BY <2>4, <2>9, <2>10
  <2> QED BY <2>1, <2>11
<1>8. KeptRanges(n) BY <1>1, <1>7
<1> HIDE DEF T
<1>9. m[n] \in Seq(Ranges) /\ DOMAIN m[n] = 1..n /\ \A i \in 1..n : m[n][i] = r[i] BY <1>1, <1>8
<1>10. m[n] = r BY <1>1, <1>9
<1> QED BY <1>5, <1>10

\* Runs hold as many pages as are counted.
LEMMA RunsAreCounted ==
  ASSUME NEW r \in Seq(Ranges), AreRuns(r)
  PROVE  /\ Cardinality(UNION {r[i][1] .. r[i][2] : i \in DOMAIN r}) = countSelectedPages(r)
         /\ countSelectedPages(r) \in Nat
         /\ r # <<>> => countSelectedPages(r) >= 1
<1> DEFINE n == Len(r)
           f == [i \in DOMAIN r |-> r[i][2] - r[i][1] + 1]
           U(k) == UNION {r[i][1] .. r[i][2] : i \in 1..k}
           Counted(k) == IsFiniteSet(U(k)) /\ Cardinality(U(k)) = SumOver(f, 1..k)
           T == {k \in 0..n : ~Counted(k)}
<1>1. n \in Nat /\ DOMAIN r = 1..n OBVIOUS
<1>2. \A i \in 1..n : r[i][1] \in Int /\ r[i][2] \in Int /\ r[i][1] <= r[i][2]
  BY <1>1, RangesTyped DEF AreRuns
<1>3. \A i \in 1..n : f[i] = r[i][2] - r[i][1] + 1 /\ f[i] \in Nat /\ f[i] >= 1 BY <1>1, <1>2
<1>4. DOMAIN f = 1..n /\ countSelectedPages(r) = SumOver(f, 1..n)
  BY <1>1 DEF countSelectedPages, Sum
<1>5. \A i, j \in 1..n : i < j => r[i][2] + 1 < r[j][1] BY <1>1, GapsAreGlobal
<1> HIDE DEF f, n, Counted, U
<1>6. ASSUME T # {} PROVE FALSE
  <2>1. PICK k \in T : \A y \in T : k <= y
    <3>1. T \subseteq Nat OBVIOUS
    <3> HIDE DEF T
    <3> QED BY <1>6, <3>1, LeastNatural
  <2>2. k # 0
    <3>1. U(0) = {} /\ 1..0 = {} BY DEF U
    <3>2. Counted(0) BY <3>1, FS_EmptySet, SumOfNothing DEF Counted
    <3> QED BY <2>1, <3>2
  <2>3. k \in 1..n /\ k - 1 \in 0..n /\ k - 1 \notin T BY <1>1, <2>1, <2>2
  <2>4. Counted(k - 1) BY <2>3
  <2> DEFINE I == r[k][1] .. r[k][2]
  <2>5. U(k) = U(k - 1) \cup I
    <3>1. 1..k = (1..k-1) \cup {k} BY <2>3
    <3> QED BY <3>1 DEF U
  <2>6. IsFiniteSet(I) /\ Cardinality(I) = f[k]
    <3>1. r[k][1] \in Int /\ r[k][2] \in Int /\ r[k][1] <= r[k][2] BY <1>2, <2>3
    <3>2. f[k] = r[k][2] - r[k][1] + 1 BY <1>3, <2>3
    <3> DEFINE a == r[k][1]
               b == r[k][2]
    <3>3. a \in Int /\ b \in Int /\ a <= b /\ I = a..b /\ f[k] = b - a + 1 BY <3>1, <3>2
    <3> HIDE DEF a, b, I
    <3>4. IsFiniteSet(a..b) /\ Cardinality(a..b) = b - a + 1
      <4>1. ~(a > b) BY <3>3
      <4> QED BY <3>3, <4>1, FS_Interval
    <3> QED BY <3>3, <3>4
  <2>7. U(k - 1) \cap I = {}
    <3>1. ASSUME NEW i \in 1..k-1 PROVE (r[i][1] .. r[i][2]) \cap I = {}
      <4>1. i \in 1..n /\ i < k BY <1>1, <2>3, <3>1
      <4>2. r[i][2] + 1 < r[k][1] BY <1>5, <2>3, <4>1
      <4>3. r[i][2] \in Int /\ r[k][1] \in Int BY <1>2, <2>3, <4>1
      <4> DEFINE a == r[i][2]
                 b == r[k][1]
      <4>4. a + 1 < b /\ a \in Int /\ b \in Int BY <4>2, <4>3
      <4>5. \A y \in Int : ~(y <= a /\ b <= y)
        <5> HIDE DEF a, b
        <5> QED BY <4>4
      <4> QED BY <4>5
    <3> QED BY <3>1 DEF U
  <2> HIDE DEF I
  <2>8. IsFiniteSet(U(k)) /\ Cardinality(U(k)) = Cardinality(U(k - 1)) + f[k]
    <3>1. Cardinality(U(k - 1) \cap I) = 0 /\ IsFiniteSet(U(k - 1)) BY <2>4, <2>7, FS_EmptySet DEF Counted
    <3>2. Cardinality(U(k - 1)) \in Nat BY <3>1, FS_CardinalityType
    <3>3. f[k] \in Nat BY <1>3, <2>3
    <3> DEFINE u == U(k - 1)
               w == U(k)
    <3>4. /\ w = u \cup I /\ IsFiniteSet(u) /\ Cardinality(u \cap I) = 0 /\ Cardinality(u) \in Nat
          /\ IsFiniteSet(I) /\ Cardinality(I) = f[k]
      BY <2>5, <2>6, <3>1, <3>2
    <3>5. IsFiniteSet(w) /\ Cardinality(w) = Cardinality(u) + f[k]
      <4> HIDE DEF u, w
      <4>1. Cardinality(u \cup I) = Cardinality(u) + Cardinality(I) - Cardinality(u \cap I)
            /\ IsFiniteSet(u \cup I)
        BY <3>4, FS_Union
      <4> QED BY <3>3, <3>4, <4>1
    <3> QED BY <3>5
  <2>9. SumOver(f, 1..k) = f[k] + SumOver(f, 1..k-1)
    <3>1. IsFiniteSet(1..k) BY <2>3, FS_Interval
    <3>2. k \in 1..k /\ (1..k) \ {k} = 1..k-1 BY <2>3
    <3>3. \A i \in 1..k : f[i] \in Int BY <1>1, <1>3, <2>3
    <3> QED BY <3>1, <3>2, <3>3, SumTakesOut
  <2>10. SumOver(f, 1..k-1) \in Nat
    <3>1. IsFiniteSet(U(k - 1)) /\ Cardinality(U(k - 1)) = SumOver(f, 1..k-1) BY <2>4 DEF Counted
    <3> QED BY <3>1, FS_CardinalityType
  <2>11. f[k] \in Nat BY <1>3, <2>3
  <2>12. Counted(k)
    <3>1. Cardinality(U(k - 1)) = SumOver(f, 1..k-1) BY <2>4 DEF Counted
    <3> QED BY <2>8, <2>9, <2>10, <2>11, <3>1 DEF Counted
  <2> QED BY <2>1, <2>12
<1>7. Counted(n) BY <1>1, <1>6
<1>8. IsFiniteSet(1..n) BY <1>1, FS_Interval
<1>9. /\ SumOver(f, 1..n) \in Nat
      /\ \A x \in 1..n : f[x] <= SumOver(f, 1..n)
  BY <1>3, <1>8, SumOfNaturals
<1>10. r # <<>> => 1 \in 1..n BY <1>1, EmptySeq DEF n
<1>11. r # <<>> => SumOver(f, 1..n) >= 1
  <2>1. SUFFICES ASSUME r # <<>> PROVE SumOver(f, 1..n) >= 1
    OBVIOUS
  <2>2. f[1] \in Nat /\ f[1] >= 1 /\ f[1] <= SumOver(f, 1..n) BY <1>3, <1>9, <1>10, <2>1
  <2> QED BY <1>9, <2>2
<1>12. Cardinality(UNION {r[i][1] .. r[i][2] : i \in DOMAIN r}) = SumOver(f, 1..n)
  BY <1>1, <1>7 DEF Counted, U
<1> QED BY <1>4, <1>9, <1>11, <1>12

-----------------------------------------------------------------------------
(* The parser of page ranges.                                              *)

Texts(text) == text \in Seq(Seq(Nat)) /\ \A k \in DOMAIN text : Len(text[k]) <= 2
\* A row's ranges.
RowRanges(r, pageCount) ==
  /\ r \in Seq(Ranges) /\ AreRuns(r) /\ r # <<>> /\ Len(r) <= MaxSegments
  /\ \A i \in DOMAIN r : 1 <= r[i][1] /\ r[i][2] <= pageCount

SegmentErrors == {"none", "PAGE_RANGE_INVALID", "PAGE_RANGE_OUT_OF_BOUNDS"}
LEMMA SegmentErrorsAre ==
  ASSUME NEW s, NEW pc PROVE segmentError(s, pc) \in SegmentErrors
BY DEF segmentError, SegmentErrors

LEMMA ParseErrorsAre ==
  ASSUME NEW text, NEW pc PROVE parsePageRangeText(text, pc).error \in SegmentErrors
<1> DEFINE wrong == {i \in DOMAIN text : segmentError(text[i], pc) # "none"}
<1>1. segmentError(text[Min(wrong)], pc) \in SegmentErrors BY SegmentErrorsAre
<1>2. "none" \in SegmentErrors /\ "PAGE_RANGE_INVALID" \in SegmentErrors BY DEF SegmentErrors
<1> HIDE DEF SegmentErrors
<1> QED BY <1>1, <1>2 DEF parsePageRangeText

LEMMA SegmentIsSound ==
  ASSUME NEW s \in Seq(Nat), Len(s) <= 2, NEW pc \in Nat
  PROVE  segmentError(s, pc) = "none"
         <=> /\ s # <<>> /\ SegmentStart(s) \in Nat /\ SegmentEnd(s) \in Nat /\ 1 <= SegmentStart(s)
             /\ SegmentStart(s) <= SegmentEnd(s) /\ SegmentEnd(s) <= pc
<1>1. CASE s = <<>>
  BY <1>1 DEF segmentError, Unreadable
<1>2. CASE s # <<>>
  <2>0. Len(s) \in Nat /\ DOMAIN s = 1 .. Len(s) /\ Len(s) # 0 BY <1>2, EmptySeq
  <2>1. Len(s) \in 1..2 /\ 1 \in DOMAIN s /\ Len(s) \in DOMAIN s BY <2>0
  <2>2. SegmentStart(s) \in Nat /\ SegmentEnd(s) \in Nat BY <2>1 DEF SegmentStart, SegmentEnd
  <2> QED BY <1>2, <2>2 DEF segmentError, Unreadable
<1> QED BY <1>1, <1>2

\* The least of the wrong segments is one of them.
LEMMA LeastOfIndices ==
  ASSUME NEW S, S \subseteq Nat, S # {} PROVE Min(S) \in S /\ \A y \in S : Min(S) <= y
<1>1. \E x \in S : \A y \in S : x <= y BY LeastNatural
<1> QED BY <1>1 DEF Min

WrongSegments(text, pc) == {i \in DOMAIN text : segmentError(text[i], pc) # "none"}
LEMMA ParseUnfolds ==
  ASSUME NEW text, NEW pc, text # <<>>, Len(text) \in Nat
  PROVE  /\ Len(text) > MaxSegments => parsePageRangeText(text, pc).error = "PAGE_RANGE_INVALID"
         /\ ~(Len(text) > MaxSegments) /\ Len(text) <= MaxSegments /\ WrongSegments(text, pc) # {} =>
              parsePageRangeText(text, pc).error = segmentError(text[Min(WrongSegments(text, pc))], pc)
         /\ ~(Len(text) > MaxSegments) /\ WrongSegments(text, pc) = {} =>
              parsePageRangeText(text, pc) =
                [ranges |-> mergePageRanges([i \in DOMAIN text |->
                                             <<SegmentStart(text[i]), SegmentEnd(text[i])>>]),
                 error |-> "none"]
<1> DEFINE m == mergePageRanges([i \in DOMAIN text |-> <<SegmentStart(text[i]), SegmentEnd(text[i])>>])
           long == Len(text) > MaxSegments
           short == Len(text) <= MaxSegments
           w == WrongSegments(text, pc)
           e == segmentError(text[Min(w)], pc)
<1>1. parsePageRangeText(text, pc) =
        CASE text = <<>> -> [ranges |-> <<<<1, pc>>>>, error |-> "none"]
          [] long -> [ranges |-> <<>>, error |-> "PAGE_RANGE_INVALID"]
          [] text # <<>> /\ short /\ w # {} -> [ranges |-> <<>>, error |-> e]
          [] OTHER -> [ranges |-> m, error |-> "none"]
  BY DEF parsePageRangeText, WrongSegments
<1> DEFINE v == parsePageRangeText(text, pc)
<1>2. v =
        CASE text = <<>> -> [ranges |-> <<<<1, pc>>>>, error |-> "none"]
          [] long -> [ranges |-> <<>>, error |-> "PAGE_RANGE_INVALID"]
          [] text # <<>> /\ short /\ w # {} -> [ranges |-> <<>>, error |-> e]
          [] OTHER -> [ranges |-> m, error |-> "none"]
  BY <1>1
<1>3. long \in BOOLEAN /\ short \in BOOLEAN /\ ~(long /\ short)
  <2>1. MaxSegments \in Nat BY PrintRulesAssumption
  <2> QED BY <2>1
<1> SUFFICES /\ long => v.error = "PAGE_RANGE_INVALID"
             /\ ~long /\ short /\ w # {} => v.error = e
             /\ ~long /\ w = {} => v = [ranges |-> m, error |-> "none"]
  OBVIOUS
<1> HIDE DEF m, long, short, w, e, v
<1> QED BY <1>2, <1>3

LEMMA ParsedText ==
  ASSUME NEW text, Texts(text), NEW pc \in Nat \ {0}, parsePageRangeText(text, pc).error = "none"
  PROVE  LET r == parsePageRangeText(text, pc).ranges
         IN RowRanges(r, pc) /\ IsRuns(r, PagesAsked(text, pc))
<1> DEFINE wrong == {i \in DOMAIN text : segmentError(text[i], pc) # "none"}
           r == parsePageRangeText(text, pc).ranges
           s == [i \in DOMAIN text |-> <<SegmentStart(text[i]), SegmentEnd(text[i])>>]
<1>1. MaxSegments \in Nat /\ MaxSegments >= 1 BY PrintRulesAssumption
<1>2. text \in Seq(Seq(Nat)) /\ \A k \in DOMAIN text : Len(text[k]) <= 2 BY DEF Texts
<1>3. CASE text = <<>>
  <2>1. r = <<<<1, pc>>>> BY <1>3 DEF parsePageRangeText
  <2>2. r \in Seq(Ranges) /\ Len(r) = 1 /\ DOMAIN r = {1} /\ r[1][1] = 1 /\ r[1][2] = pc
    BY <2>1 DEF Ranges
  <2>3. r # <<>> BY <2>1
  <2> HIDE DEF r
  <2>4. AreRuns(r) BY <2>2 DEF AreRuns
  <2>5. UNION {r[i][1] .. r[i][2] : i \in DOMAIN r} = 1..pc BY <2>2
  <2>6. IsRuns(r, PagesAsked(text, pc)) BY <1>3, <2>4, <2>5 DEF IsRuns, PagesAsked, AreRuns
  <2> QED BY <1>1, <2>2, <2>3, <2>4, <2>6 DEF RowRanges, r
<1>4. CASE text # <<>>
  <2>1. Len(text) <= MaxSegments /\ ~(Len(text) > MaxSegments)
    <3>1. Len(text) \in Nat BY <1>2
    <3>2. ~(Len(text) > MaxSegments) BY <1>4, <3>1, ParseUnfolds
    <3> QED BY <1>1, <3>1, <3>2
  <2>2. wrong = {}
    <3>1. SUFFICES ASSUME wrong # {} PROVE FALSE
      OBVIOUS
    <3>0. Len(text) \in Nat BY <1>2
    <3>2. segmentError(text[Min(wrong)], pc) = "none" BY <1>4, <2>1, <3>0, <3>1, ParseUnfolds DEF WrongSegments
    <3>3. wrong \subseteq Nat BY <1>2
    <3>4. Min(wrong) \in wrong
      <4> HIDE DEF wrong
      <4> QED BY <3>1, <3>3, LeastOfIndices
    <3> QED BY <3>2, <3>4
  <2>3. r = mergePageRanges(s)
    <3>1. Len(text) \in Nat BY <1>2
    <3>2. WrongSegments(text, pc) = {} BY <2>2 DEF WrongSegments
    <3>3. parsePageRangeText(text, pc) = [ranges |-> mergePageRanges(s), error |-> "none"]
      BY <1>4, <2>1, <3>1, <3>2, ParseUnfolds
    <3> DEFINE m == mergePageRanges(s)
    <3> HIDE DEF s, m
    <3>4. parsePageRangeText(text, pc) = [ranges |-> m, error |-> "none"] BY <3>3 DEF m
    <3>5. r = m BY <3>4
    <3> QED BY <3>5 DEF m
  <2>4. \A i \in DOMAIN text :
          LET a == SegmentStart(text[i])
              b == SegmentEnd(text[i])
          IN a \in Nat /\ b \in Nat /\ 1 <= a /\ a <= b /\ b <= pc
    <3>1. ASSUME NEW i \in DOMAIN text PROVE segmentError(text[i], pc) = "none" BY <2>2
    <3>2. \A i \in DOMAIN text : text[i] \in Seq(Nat) /\ Len(text[i]) <= 2 BY <1>2
    <3> QED BY <3>1, <3>2, SegmentIsSound
  <2>5. \A i \in DOMAIN text : s[i] = <<SegmentStart(text[i]), SegmentEnd(text[i])>> /\ s[i] \in Ranges
    BY <2>4 DEF Ranges
  <2>6. s \in Seq(Ranges) /\ Len(s) = Len(text) /\ DOMAIN s = DOMAIN text
    <3>1. DOMAIN text = 1 .. Len(text) /\ Len(text) \in Nat BY <1>2
    <3>2. s \in [1 .. Len(text) -> Ranges] BY <2>5, <3>1
    <3> HIDE DEF s
    <3> QED BY <3>1, <3>2
  <2>7. \A i \in DOMAIN s : /\ s[i][1] = SegmentStart(text[i]) /\ s[i][2] = SegmentEnd(text[i])
                            /\ s[i][1] \in Int /\ s[i][2] \in Int
                            /\ 1 <= s[i][1] /\ s[i][1] <= s[i][2] /\ s[i][2] <= pc
    <3>1. \A i \in DOMAIN s : s[i][1] = SegmentStart(text[i]) /\ s[i][2] = SegmentEnd(text[i])
      BY <2>5, <2>6
    <3> HIDE DEF s
    <3> QED BY <2>4, <2>6, <3>1
  <2>8. s # <<>> BY <1>2, <1>4, <2>6, EmptySeq
  <2> HIDE DEF s, r, wrong
  <2>9. /\ r \in Seq(Ranges) /\ Len(r) <= Len(s) /\ AreRuns(r) /\ r # <<>>
        /\ \A p \in Int : Names(r, p) <=> Names(s, p)
    BY <2>3, <2>6, <2>7, <2>8, MergedRuns
  <2>10. ASSUME NEW i \in DOMAIN r PROVE 1 <= r[i][1] /\ r[i][2] <= pc
    <3>1. r[i][1] \in Int /\ r[i][2] \in Int /\ r[i][1] <= r[i][2] BY <2>9, RangesTyped DEF AreRuns
    <3>2. Names(r, r[i][1]) /\ Names(r, r[i][2])
      <4>1. r[i][1] <= r[i][1] /\ r[i][2] <= r[i][2] BY <3>1
      <4> QED BY <3>1, <4>1 DEF Names
    <3>3. Names(s, r[i][1]) /\ Names(s, r[i][2]) BY <2>9, <3>1, <3>2
    <3> DEFINE a == r[i][1]
               b == r[i][2]
    <3>4. a \in Int /\ b \in Int /\ Names(s, a) /\ Names(s, b) BY <3>1, <3>3
    <3> HIDE DEF a, b
    <3>5. 1 <= a
      <4>1. PICK k \in DOMAIN s : s[k][1] <= a BY <3>4 DEF Names
      <4> QED BY <2>7, <3>4, <4>1
    <3>6. b <= pc
      <4>1. PICK k \in DOMAIN s : b <= s[k][2] BY <3>4 DEF Names
      <4> QED BY <2>7, <3>4, <4>1
    <3> QED BY <3>5, <3>6 DEF a, b
  <2>11. Len(r) <= MaxSegments
    <3>1. Len(r) \in Nat /\ Len(text) \in Nat BY <1>2, <2>9
    <3> QED BY <1>1, <2>1, <2>6, <2>9, <3>1
  <2>12. PagesAsked(text, pc) = UNION {r[i][1] .. r[i][2] : i \in DOMAIN r}
    <3>1. PagesAsked(text, pc) = UNION {s[i][1] .. s[i][2] : i \in DOMAIN s}
      BY <1>4, <2>6, <2>7 DEF PagesAsked
    <3>2. UNION {s[i][1] .. s[i][2] : i \in DOMAIN s} = {p \in Int : Names(s, p)} BY <2>6, PagesOfRanges
    <3>3. UNION {r[i][1] .. r[i][2] : i \in DOMAIN r} = {p \in Int : Names(r, p)} BY <2>9, PagesOfRanges
    <3> QED BY <2>9, <3>1, <3>2, <3>3
  <2>13. IsRuns(r, PagesAsked(text, pc)) BY <2>9, <2>12 DEF IsRuns, AreRuns
  <2> QED BY <2>9, <2>10, <2>11, <2>13 DEF RowRanges, r
<1> QED BY <1>3, <1>4

\* A row's ranges, written and read again, are the row's ranges.
LEMMA RangesReread ==
  ASSUME NEW pc \in Nat \ {0}, NEW r, RowRanges(r, pc)
  PROVE  /\ parsePageRangeText(formatPageRanges(r), pc).ranges = r
         /\ parsePageRangeText(formatPageRanges(r), pc).error = "none"
<1> DEFINE t == formatPageRanges(r)
           wrong == {i \in DOMAIN t : segmentError(t[i], pc) # "none"}
           s == [i \in DOMAIN t |-> <<SegmentStart(t[i]), SegmentEnd(t[i])>>]
<1>1. /\ r \in Seq(Ranges) /\ AreRuns(r) /\ r # <<>> /\ Len(r) <= MaxSegments
      /\ \A i \in DOMAIN r : 1 <= r[i][1] /\ r[i][2] <= pc
  BY DEF RowRanges
<1>2. \A i \in DOMAIN r : /\ r[i] \in Ranges /\ r[i][1] \in Int /\ r[i][2] \in Int
                          /\ r[i] = <<r[i][1], r[i][2]>> /\ r[i][1] <= r[i][2]
                          /\ 1 <= r[i][1] /\ r[i][2] <= pc
  <2>1. \A x \in Ranges : x = <<x[1], x[2]>> BY DEF Ranges
  <2> QED BY <1>1, <2>1, RangesTyped DEF AreRuns
<1>3. DOMAIN t = DOMAIN r /\ DOMAIN r = 1 .. Len(r) /\ Len(r) \in Nat
  BY <1>1 DEF formatPageRanges
<1>4. \A i \in DOMAIN r : t[i] = IF r[i][1] = r[i][2] THEN <<r[i][1]>> ELSE <<r[i][1], r[i][2]>>
  BY <1>2 DEF formatPageRanges
<1> HIDE DEF t
<1>5. ASSUME NEW i \in DOMAIN r
      PROVE  /\ t[i] \in Seq(Nat) /\ Len(t[i]) <= 2 /\ t[i] # <<>>
             /\ SegmentStart(t[i]) = r[i][1] /\ SegmentEnd(t[i]) = r[i][2]
  <2> DEFINE a == r[i][1]
             b == r[i][2]
  <2>1. a \in Nat /\ b \in Nat BY <1>2
  <2>2. t[i] = IF a = b THEN <<a>> ELSE <<a, b>> BY <1>4
  <2> HIDE DEF a, b
  <2>3. CASE a = b
    <3>1. t[i] = <<a>> BY <2>2, <2>3
    <3>2. t[i] \in Seq(Nat) /\ Len(t[i]) = 1 /\ t[i][1] = a /\ t[i] # <<>> BY <2>1, <3>1
    <3> QED BY <2>3, <3>2 DEF SegmentStart, SegmentEnd, a, b
  <2>4. CASE a # b
    <3>1. t[i] = <<a, b>> BY <2>2, <2>4
    <3>2. t[i] \in Seq(Nat) /\ Len(t[i]) = 2 /\ t[i][1] = a /\ t[i][2] = b /\ t[i] # <<>>
      BY <2>1, <3>1
    <3> QED BY <3>2 DEF SegmentStart, SegmentEnd, a, b
  <2> QED BY <2>3, <2>4
<1>6. \A i \in DOMAIN t : segmentError(t[i], pc) = "none"
  BY <1>2, <1>3, <1>5, SegmentIsSound
<1>7. wrong = {} BY <1>6
<1>8. t # <<>> /\ Len(t) = Len(r)
  <2>1. t = [i \in 1 .. Len(r) |-> t[i]] BY <1>3 DEF formatPageRanges, t
  <2>2. t \in Seq(Seq(Nat)) BY <1>3, <1>5, <2>1
  <2>3. Len(t) = Len(r) BY <1>3, <2>2
  <2> QED BY <1>1, <1>3, <2>2, <2>3, EmptySeq
<1>9. s = r
  <2>1. \A i \in DOMAIN r : s[i] = r[i] BY <1>2, <1>3, <1>5
  <2>2. r = [i \in DOMAIN r |-> r[i]] BY <1>1
  <2>3. s = [i \in DOMAIN r |-> s[i]] BY <1>3
  <2> HIDE DEF s
  <2> QED BY <2>1, <2>2, <2>3
<1>10. mergePageRanges(s) = r BY <1>1, <1>9, RunsStay
<1>11. parsePageRangeText(t, pc) = [ranges |-> mergePageRanges(s), error |-> "none"]
  <2>1. ~(Len(t) > MaxSegments) BY <1>1, <1>3, <1>8, PrintRulesAssumption
  <2> QED BY <1>3, <1>7, <1>8, <2>1, ParseUnfolds DEF WrongSegments
<1> HIDE DEF s
<1>12. parsePageRangeText(t, pc).ranges = r /\ parsePageRangeText(t, pc).error = "none"
  BY <1>10, <1>11
<1> QED BY <1>12 DEF t

-----------------------------------------------------------------------------
(* Settings, normalized.                                                   *)

Files(f) == IsFiniteSet(DOMAIN f) /\ \A id \in DOMAIN f : f[id] \in Nat \ {0}
WrongFiles(input, files, caps) ==
  {i \in DOMAIN input.order : selectionError(input, input.order[i], files, caps) # "none"}
SettingsRows(input, files) == [i \in DOMAIN input.order |-> normalizedFile(input, i - 1, files)]
RowTotal(rows, field) == Sum([i \in DOMAIN rows |-> rows[i][field]])
\* What a settings request must satisfy to become a revision, and the revision.
Listing(input, files) ==
  /\ Len(input.order) = Cardinality(DOMAIN files) /\ IsInjective(input.order)
  /\ Len(input.selections) = Len(input.order)
  /\ Cardinality(Ids(input.selections)) = Len(input.selections)
Accepted(input, files, caps) ==
  /\ input.paperSize \in caps.paperSizes /\ "MONOCHROME" \in caps.colorModes
  /\ Listing(input, files) /\ WrongFiles(input, files, caps) = {}
  /\ ~(RowTotal(SettingsRows(input, files), "selectedPages") > MaxSelectedPages)
  /\ ~(RowTotal(SettingsRows(input, files), "sides") > MaxPrintedSides)
RevisionOf(input, files, caps) ==
  LET rows == SettingsRows(input, files)
  IN [stored |-> TRUE, error |-> "none", paperSize |-> input.paperSize, files |-> rows,
      selectedPages |-> RowTotal(rows, "selectedPages"), sides |-> RowTotal(rows, "sides"),
      sheets |-> RowTotal(rows, "sheets"), manifest |-> buildSettingsManifest(input, rows, caps)]

SelectionErrors ==
  SegmentErrors \cup {"FILE_ORDER_INVALID", "FILE_SELECTION_INVALID", "UNSUPPORTED_PRINT_SETTING",
                      "COPIES_OUT_OF_RANGE"}
SettingsErrors ==
  SelectionErrors \cup {"SELECTED_PAGE_LIMIT_EXCEEDED", "PRINTED_SIDE_LIMIT_EXCEEDED"}

LEMMA SelectionIsSound ==
  ASSUME NEW input, NEW id, NEW files, NEW caps
  PROVE  LET s == Selection(input, id)
             e == selectionError(input, id, files, caps)
         IN /\ e \in SelectionErrors
            /\ e = "none" <=> /\ id \in DOMAIN files /\ id \in Ids(input.selections)
                              /\ s.duplex \in caps.duplexModes /\ s.copies \in 1 .. caps.maxCopies
                              /\ parsePageRangeText(s.text, files[id]).error = "none"
<1> DEFINE s == Selection(input, id)
           e == selectionError(input, id, files, caps)
           p == parsePageRangeText(s.text, files[id]).error
           known == id \in DOMAIN files
           selected == id \in Ids(input.selections)
           sided == s.duplex \in caps.duplexModes
           counted == s.copies \in 1 .. caps.maxCopies
<1>1. e = CASE ~known -> "FILE_ORDER_INVALID"
            [] known /\ ~selected -> "FILE_SELECTION_INVALID"
            [] known /\ selected /\ ~sided -> "UNSUPPORTED_PRINT_SETTING"
            [] known /\ selected /\ sided /\ ~counted -> "COPIES_OUT_OF_RANGE"
            [] OTHER -> p
  BY DEF selectionError
<1>2. p \in SegmentErrors BY ParseErrorsAre
<1>3. known \in BOOLEAN /\ selected \in BOOLEAN /\ sided \in BOOLEAN /\ counted \in BOOLEAN OBVIOUS
<1> SUFFICES e \in SelectionErrors /\ (e = "none" <=> known /\ selected /\ sided /\ counted /\ p = "none")
  OBVIOUS
<1> HIDE DEF e, p, known, selected, sided, counted
<1> QED BY <1>1, <1>2, <1>3 DEF SelectionErrors, SegmentErrors

\* normalizePrintSettings: a revision when everything is in order, and an error of its
\* own otherwise.
LEMMA NormalizeUnfolds ==
  ASSUME NEW input, NEW files, NEW caps
  PROVE  LET n == normalizePrintSettings(input, files, caps)
         IN /\ Accepted(input, files, caps) => n = RevisionOf(input, files, caps)
            /\ ~Accepted(input, files, caps) => \E e \in SettingsErrors : n = RuleRefused(e)
<1> DEFINE n == normalizePrintSettings(input, files, caps)
           v == RevisionOf(input, files, caps)
           wrong == WrongFiles(input, files, caps)
           e == selectionError(input, input.order[Min(wrong)], files, caps)
           paper == input.paperSize \notin caps.paperSizes \/ "MONOCHROME" \notin caps.colorModes
           order == Len(input.order) # Cardinality(DOMAIN files) \/ ~IsInjective(input.order)
           listed == Len(input.selections) # Len(input.order)
                     \/ Cardinality(Ids(input.selections)) # Len(input.selections)
           pages == RowTotal(SettingsRows(input, files), "selectedPages") > MaxSelectedPages
           sides == RowTotal(SettingsRows(input, files), "sides") > MaxPrintedSides
<1>1. n = IF paper THEN RuleRefused("UNSUPPORTED_PRINT_SETTING")
          ELSE IF order THEN RuleRefused("FILE_ORDER_INVALID")
          ELSE IF listed THEN RuleRefused("FILE_SELECTION_INVALID")
          ELSE IF wrong # {} THEN RuleRefused(e)
          ELSE IF pages THEN RuleRefused("SELECTED_PAGE_LIMIT_EXCEEDED")
          ELSE IF sides THEN RuleRefused("PRINTED_SIDE_LIMIT_EXCEEDED")
          ELSE v
  BY DEF normalizePrintSettings, WrongFiles, SettingsRows, RowTotal, RevisionOf
<1>2. Accepted(input, files, caps) <=> ~paper /\ ~order /\ ~listed /\ wrong = {} /\ ~pages /\ ~sides
  BY DEF Accepted, Listing
<1>3. e \in SelectionErrors BY SelectionIsSound
<1>4. /\ e \in SettingsErrors /\ "UNSUPPORTED_PRINT_SETTING" \in SettingsErrors
      /\ "FILE_ORDER_INVALID" \in SettingsErrors /\ "FILE_SELECTION_INVALID" \in SettingsErrors
      /\ "SELECTED_PAGE_LIMIT_EXCEEDED" \in SettingsErrors
      /\ "PRINTED_SIDE_LIMIT_EXCEEDED" \in SettingsErrors
  BY <1>3 DEF SettingsErrors, SelectionErrors
<1> SUFFICES /\ Accepted(input, files, caps) => n = v
             /\ ~Accepted(input, files, caps) => \E x \in SettingsErrors : n = RuleRefused(x)
  OBVIOUS
<1> HIDE DEF n, v, wrong, e, paper, order, listed, pages, sides
<1> QED BY <1>1, <1>2, <1>4

\* What a stored row is, and how it came about.
StoredRow(settingsRow) ==
  /\ settingsRow.pageCount \in Nat \ {0} /\ settingsRow.copies \in Nat \ {0}
  /\ RowRanges(settingsRow.ranges, settingsRow.pageCount) /\ settingsRow.text = formatPageRanges(settingsRow.ranges)
  /\ settingsRow.selectedPages = countSelectedPages(settingsRow.ranges)
  /\ settingsRow.sides = countSelectedPages(settingsRow.ranges) * settingsRow.copies
  /\ settingsRow.sheets = calculateSheetUsage(countSelectedPages(settingsRow.ranges), settingsRow.duplex).sheets * settingsRow.copies
RowFrom(settingsRow, input, i, files, caps) ==
  LET id == input.order[i]
      s == Selection(input, id)
  IN /\ settingsRow.fileId = id /\ settingsRow.position = i - 1 /\ id \in DOMAIN files /\ settingsRow.pageCount = files[id]
     /\ settingsRow.copies = s.copies /\ settingsRow.duplex = s.duplex /\ s.duplex \in caps.duplexModes
     /\ s.copies \in 1 .. caps.maxCopies
     /\ IsRuns(settingsRow.ranges, PagesAsked(s.text, files[id]))

LEMMA SelectionIsOne ==
  ASSUME NEW input, NEW id \in Ids(input.selections)
  PROVE  \E i \in DOMAIN input.selections :
           Selection(input, id) = input.selections[i] /\ input.selections[i].fileId = id
<1>1. \E i \in DOMAIN input.selections : input.selections[i].fileId = id BY DEF Ids
<1> QED BY <1>1 DEF Selection

LEMMA RowsAreStored ==
  ASSUME NEW input, SettingsRequest(input), NEW files, Files(files), NEW caps, caps.maxCopies \in Int,
         WrongFiles(input, files, caps) = {}, NEW i \in DOMAIN input.order
  PROVE  LET settingsRow == SettingsRows(input, files)[i]
         IN StoredRow(settingsRow) /\ RowFrom(settingsRow, input, i, files, caps)
<1> DEFINE id == input.order[i]
           s == Selection(input, id)
           p == parsePageRangeText(s.text, files[id])
           u == calculateSheetUsage(countSelectedPages(p.ranges), s.duplex)
           settingsRow == SettingsRows(input, files)[i]
<1>1. selectionError(input, id, files, caps) = "none" BY DEF WrongFiles
<1>2. /\ id \in DOMAIN files /\ id \in Ids(input.selections) /\ s.duplex \in caps.duplexModes
      /\ s.copies \in 1 .. caps.maxCopies /\ p.error = "none"
  BY <1>1, SelectionIsSound
<1>3. PICK k \in DOMAIN input.selections : s = input.selections[k] BY <1>2, SelectionIsOne
<1>4. Texts(s.text) BY <1>3 DEF SettingsRequest, Texts
<1>5. files[id] \in Nat \ {0} BY <1>2 DEF Files
<1>6. RowRanges(p.ranges, files[id]) /\ IsRuns(p.ranges, PagesAsked(s.text, files[id]))
  BY <1>2, <1>4, <1>5, ParsedText
<1>7. i \in Int /\ (i - 1) + 1 = i BY DEF SettingsRequest, Listed
<1>8. settingsRow = [fileId |-> id, position |-> i - 1, pageCount |-> files[id],
             ranges |-> p.ranges, text |-> formatPageRanges(p.ranges),
             selectedPages |-> u.sides, copies |-> s.copies, duplex |-> s.duplex,
             sides |-> u.sides * s.copies, sheets |-> u.sheets * s.copies]
  BY <1>7 DEF SettingsRows, normalizedFile
<1>9. u.sides = countSelectedPages(p.ranges) BY DEF calculateSheetUsage
<1>10. s.copies \in Nat \ {0} BY <1>2
<1> DEFINE c == countSelectedPages(p.ranges)
           d == s.duplex
           k1 == s.copies
<1>11. /\ settingsRow.fileId = id /\ settingsRow.position = i - 1 /\ settingsRow.pageCount = files[id]
       /\ settingsRow.ranges = p.ranges /\ settingsRow.text = formatPageRanges(p.ranges)
       /\ settingsRow.selectedPages = u.sides /\ settingsRow.copies = k1 /\ settingsRow.duplex = d
       /\ settingsRow.sides = u.sides * k1 /\ settingsRow.sheets = u.sheets * k1
  <2> HIDE DEF settingsRow, u, id, p, s
  <2> QED BY <1>8
<1>12. u = calculateSheetUsage(c, d) OBVIOUS
<1> SUFFICES StoredRow(settingsRow) /\ RowFrom(settingsRow, input, i, files, caps)
  OBVIOUS
<1>13. RowFrom(settingsRow, input, i, files, caps)
  BY <1>2, <1>6, <1>11 DEF RowFrom
<1>14. StoredRow(settingsRow)
  <2> HIDE DEF settingsRow, p, u, id, s
  <2> QED BY <1>5, <1>6, <1>9, <1>10, <1>11, <1>12 DEF StoredRow
<1> QED BY <1>13, <1>14

LEMMA ProductKeepsOrder ==
  ASSUME NEW a \in Nat, NEW b \in Nat, NEW c \in Nat, a <= b
  PROVE  a * c \in Nat /\ b * c \in Nat /\ a * c <= b * c
OBVIOUS

PagesOf(settingsRow) == UNION {settingsRow.ranges[k][1] .. settingsRow.ranges[k][2] : k \in DOMAIN settingsRow.ranges}

\* A sheet has two sides: a row's sheets are at least half its sides, and no more.
LEMMA RowNumbers ==
  ASSUME NEW settingsRow, StoredRow(settingsRow)
  PROVE  /\ settingsRow.selectedPages \in Nat /\ settingsRow.sides \in Nat /\ settingsRow.sheets \in Nat
         /\ 1 <= settingsRow.sides /\ 1 <= settingsRow.sheets /\ settingsRow.sheets <= settingsRow.sides /\ settingsRow.sides <= settingsRow.sheets * 2
         /\ settingsRow.sides = Cardinality(PagesOf(settingsRow)) * settingsRow.copies
<1> DEFINE c == countSelectedPages(settingsRow.ranges)
           k == settingsRow.copies
           h == calculateSheetUsage(c, settingsRow.duplex).sheets
<1>1. c \in Nat /\ c >= 1 /\ c = Cardinality(PagesOf(settingsRow))
  BY RunsAreCounted DEF StoredRow, RowRanges, PagesOf
<1>2. k \in Nat /\ k >= 1 /\ settingsRow.selectedPages = c /\ settingsRow.sides = c * k /\ settingsRow.sheets = h * k
  BY DEF StoredRow
<1>3. h \in Nat /\ 1 <= h /\ h <= c /\ c <= h * 2
  <2>1. h = IF settingsRow.duplex = "SIMPLEX" THEN c ELSE (c + 1) \div 2 BY DEF calculateSheetUsage
  <2> HIDE DEF h, c
  <2>2. CASE settingsRow.duplex = "SIMPLEX" BY <1>1, <2>1, <2>2
  <2>3. CASE settingsRow.duplex # "SIMPLEX"
    <3>1. h = (c + 1) \div 2 BY <2>1, <2>3
    <3> QED BY <1>1, <3>1
  <2> QED BY <2>2, <2>3
<1> HIDE DEF c, k, h
<1>4. 1 * k <= h * k /\ h * k <= c * k /\ c * k <= (h * 2) * k /\ c * k \in Nat /\ h * k \in Nat
  <2>1. 1 * k <= h * k BY <1>1, <1>2, <1>3, ProductKeepsOrder
  <2>2. h * k <= c * k /\ c * k \in Nat /\ h * k \in Nat BY <1>1, <1>2, <1>3, ProductKeepsOrder
  <2>3. c * k <= (h * 2) * k
    <3>1. h * 2 \in Nat BY <1>3
    <3> QED BY <1>1, <1>2, <1>3, <3>1, ProductKeepsOrder
  <2> QED BY <2>1, <2>2, <2>3
<1>5. (h * 2) * k = (h * k) * 2 /\ 1 * k = k BY <1>2, <1>3
<1>6. c * k = Cardinality(PagesOf(settingsRow)) * settingsRow.copies BY <1>1 DEF k
<1> DEFINE ck == c * k
           hk == h * k
<1>7. k <= hk /\ hk <= ck /\ ck <= hk * 2 /\ ck \in Nat /\ hk \in Nat BY <1>4, <1>5
<1>8. settingsRow.sides = ck /\ settingsRow.sheets = hk /\ settingsRow.selectedPages \in Nat BY <1>1, <1>2
<1>9. 1 <= hk /\ 1 <= ck
  <2> HIDE DEF ck, hk
  <2> QED BY <1>2, <1>7
<1> QED BY <1>6, <1>7, <1>8, <1>9

StoredRows(rows) ==
  \E n \in Nat \ {0} : /\ DOMAIN rows = 1..n /\ \A i \in 1..n : StoredRow(rows[i])

\* The totals of a revision are those of the sets of pages.
LEMMA TotalsAreSound ==
  ASSUME NEW rows, StoredRows(rows)
  PROVE  /\ RowTotal(rows, "sides") = SidesOf(rows)
         /\ RowTotal(rows, "sides") \in Nat /\ RowTotal(rows, "sheets") \in Nat
         /\ 1 <= RowTotal(rows, "sheets") /\ RowTotal(rows, "sheets") <= RowTotal(rows, "sides")
         /\ RowTotal(rows, "sides") <= RowTotal(rows, "sheets") * 2
<1>1. PICK n \in Nat \ {0} : DOMAIN rows = 1..n /\ \A i \in 1..n : StoredRow(rows[i])
  BY DEF StoredRows
<1> DEFINE S == 1..n
           f == [i \in S |-> rows[i]["sides"]]
           g == [i \in S |-> rows[i]["sheets"]]
           h == [i \in S |-> g[i] * 2]
           c == [i \in S |-> Cardinality(PagesOf(rows[i])) * rows[i].copies]
<1>2. IsFiniteSet(S) BY <1>1, FS_Interval
<1>3. \A i \in S : /\ rows[i].sides \in Nat /\ rows[i].sheets \in Nat /\ 1 <= rows[i].sheets
                   /\ rows[i].sheets <= rows[i].sides /\ rows[i].sides <= rows[i].sheets * 2
                   /\ rows[i].sides = Cardinality(PagesOf(rows[i])) * rows[i].copies
  BY <1>1, RowNumbers
<1>4. RowTotal(rows, "sides") = SumOver(f, S) /\ RowTotal(rows, "sheets") = SumOver(g, S)
  BY <1>1 DEF RowTotal, Sum
<1>5. SidesOf(rows) = SumOver(c, S)
  BY <1>1 DEF SidesOf, Sum, PagesOf
<1>6. \A i \in S : /\ f[i] \in Nat /\ g[i] \in Nat /\ 1 <= g[i] /\ g[i] <= f[i] /\ f[i] <= h[i]
                   /\ f[i] = c[i] /\ h[i] = g[i] * 2 /\ h[i] \in Nat
  BY <1>3
<1>7. 1 \in S BY <1>1
<1> HIDE DEF f, g, h, c, S
<1>8. \A i \in S : f[i] \in Int /\ g[i] \in Int /\ h[i] \in Int BY <1>6
<1>9. SumOver(f, S) = SumOver(c, S) BY <1>2, <1>6, SumsAgree
<1>10. SumOver(g, S) <= SumOver(f, S) BY <1>2, <1>6, <1>8, SumIsMonotone
<1>11. SumOver(f, S) <= SumOver(h, S) BY <1>2, <1>6, <1>8, SumIsMonotone
<1>12. SumOver(h, S) = SumOver(g, S) * 2
  <2>1. 2 \in Int OBVIOUS
  <2> QED BY <1>2, <1>6, <1>8, <2>1, SumOfMultiples
<1>13. SumOver(f, S) \in Nat BY <1>2, <1>6, SumOfNaturals
<1>14. SumOver(g, S) \in Nat /\ g[1] <= SumOver(g, S) BY <1>2, <1>6, <1>7, SumOfNaturals
<1>15. g[1] \in Nat /\ 1 <= g[1] BY <1>6, <1>7
<1>16. 1 <= SumOver(g, S) BY <1>14, <1>15
<1> QED BY <1>4, <1>5, <1>9, <1>10, <1>11, <1>12, <1>13, <1>14, <1>16

-----------------------------------------------------------------------------
(* Revisions.                                                              *)

CameFrom(n, input, files, caps) ==
  /\ SettingsRequest(input) /\ Files(files) /\ caps.maxCopies \in Int
  /\ n = normalizePrintSettings(input, files, caps) /\ n.stored

LEMMA RevisionIs ==
  ASSUME NEW n, NEW input, NEW files, NEW caps, CameFrom(n, input, files, caps)
  PROVE  Accepted(input, files, caps) /\ n = RevisionOf(input, files, caps)
<1>1. Accepted(input, files, caps)
  <2>1. SUFFICES ASSUME ~Accepted(input, files, caps) PROVE FALSE
    OBVIOUS
  <2>2. PICK e \in SettingsErrors : n = RuleRefused(e) BY <2>1, NormalizeUnfolds DEF CameFrom
  <2>3. n.stored = FALSE BY <2>2 DEF RuleRefused
  <2> QED BY <2>3 DEF CameFrom
<1>2. n = RevisionOf(input, files, caps) BY <1>1, NormalizeUnfolds DEF CameFrom
<1> QED BY <1>1, <1>2

LEMMA RevisionUnfolds ==
  ASSUME NEW n, NEW input, NEW files, NEW caps, CameFrom(n, input, files, caps)
  PROVE  /\ Accepted(input, files, caps)
         /\ n.stored = TRUE /\ n.error = "none" /\ n.paperSize = input.paperSize /\ n.files = SettingsRows(input, files)
         /\ n.sides = RowTotal(n.files, "sides") /\ n.sheets = RowTotal(n.files, "sheets")
         /\ n.manifest = buildSettingsManifest(input, n.files, caps)
<1>1. Accepted(input, files, caps) BY RevisionIs
<1>2. n = RevisionOf(input, files, caps) BY RevisionIs
<1> DEFINE r == SettingsRows(input, files)
           a == RowTotal(r, "selectedPages")
           b == RowTotal(r, "sides")
           c == RowTotal(r, "sheets")
           m == buildSettingsManifest(input, r, caps)
<1>3. n = [stored |-> TRUE, error |-> "none", paperSize |-> input.paperSize, files |-> r,
           selectedPages |-> a, sides |-> b, sheets |-> c, manifest |-> m]
  BY <1>2 DEF RevisionOf
<1>4. /\ n.stored = TRUE /\ n.error = "none" /\ n.paperSize = input.paperSize /\ n.files = r
      /\ n.sides = b /\ n.sheets = c /\ n.manifest = m
  <2> HIDE DEF r, a, b, c, m
  <2> QED BY <1>3
<1> QED BY <1>1, <1>2, <1>4

LEMMA RevisionRows ==
  ASSUME NEW n, NEW input, NEW files, NEW caps, CameFrom(n, input, files, caps)
  PROVE  /\ DOMAIN n.files = DOMAIN input.order /\ Len(input.order) \in Nat \ {0}
         /\ DOMAIN input.order = 1 .. Len(input.order)
         /\ StoredRows(n.files)
         /\ \A i \in DOMAIN input.order :
              StoredRow(n.files[i]) /\ RowFrom(n.files[i], input, i, files, caps)
         /\ n.files = [i \in DOMAIN input.order |-> n.files[i]]
<1>1. Accepted(input, files, caps) /\ n.files = SettingsRows(input, files) BY RevisionUnfolds
<1>2. DOMAIN n.files = DOMAIN input.order /\ n.files = [i \in DOMAIN input.order |-> n.files[i]]
  BY <1>1 DEF SettingsRows
<1>3. DOMAIN input.order = 1 .. Len(input.order) /\ Len(input.order) \in Nat \ {0}
  <2> DEFINE o == input.order
             S == {o[i] : i \in DOMAIN o}
  <2>1. o \in Seq(S) /\ o # <<>>
    BY DEF CameFrom, SettingsRequest, Listed
  <2>2. DOMAIN o = 1 .. Len(o) /\ Len(o) \in Nat \ {0}
    <3> HIDE DEF o, S
    <3> QED BY <2>1, EmptySeq
  <2> QED BY <2>2
<1>4. \A i \in DOMAIN input.order :
        StoredRow(n.files[i]) /\ RowFrom(n.files[i], input, i, files, caps)
  BY <1>1, RowsAreStored DEF CameFrom, Accepted
<1>5. StoredRows(n.files) BY <1>2, <1>3, <1>4 DEF StoredRows
<1> QED BY <1>2, <1>3, <1>4, <1>5

\* The totals of a revision; and the pricing takes the usage it is given.
RevisionNumbers(n) ==
  /\ n.sides = SidesOf(n.files) /\ n.sides \in Nat /\ n.sheets \in Nat
  /\ 1 <= n.sheets /\ n.sheets <= n.sides /\ n.sides <= n.sheets * 2
LEMMA RevisionIsSound ==
  ASSUME NEW n, NEW input, NEW files, NEW caps, CameFrom(n, input, files, caps)
  PROVE  RevisionNumbers(n) /\ assertUsage(usageOf(n))
<1>1. n.sides = RowTotal(n.files, "sides") /\ n.sheets = RowTotal(n.files, "sheets") BY RevisionUnfolds
<1>2. StoredRows(n.files) BY RevisionRows
<1>3. RevisionNumbers(n) BY <1>1, <1>2, TotalsAreSound DEF RevisionNumbers
<1>4. PICK k \in Nat \ {0} : DOMAIN n.files = 1..k /\ \A i \in 1..k : StoredRow(n.files[i])
  BY <1>2 DEF StoredRows
<1> DEFINE u == usageOf(n)
           d == [i \in 1..k |-> [duplex |-> n.files[i].duplex # "SIMPLEX", sides |-> n.files[i].sides]]
<1>5. u.documents = d /\ u.sides = n.sides /\ u.sheets = n.sheets
  BY <1>4 DEF usageOf, readStoredDocumentUsage
<1>6. DOMAIN d = 1..k /\ \A i \in 1..k : d[i].sides = n.files[i].sides OBVIOUS
<1>7. \A i \in 1..k : n.files[i].sides \in Nat /\ 1 <= n.files[i].sides BY <1>4, RowNumbers
<1>8. d # <<>>
  <2>1. 1 \in DOMAIN d BY <1>4, <1>6
  <2>2. DOMAIN <<>> = {} OBVIOUS
  <2> HIDE DEF d
  <2> QED BY <2>1, <2>2
<1>9. Sum([i \in DOMAIN d |-> d[i].sides]) = RowTotal(n.files, "sides")
  <2>1. [i \in DOMAIN d |-> d[i].sides] = [i \in DOMAIN n.files |-> n.files[i]["sides"]]
    BY <1>4, <1>6
  <2> QED BY <2>1 DEF RowTotal
<1> HIDE DEF u, d
<1>10. assertUsage(u)
  <2>1. u.sides >= 1 /\ u.sheets \in 1 .. u.sides
    BY <1>3, <1>5 DEF RevisionNumbers
  <2>2. \A i \in DOMAIN u.documents : u.documents[i].sides >= 1 BY <1>5, <1>6, <1>7
  <2>3. Sum([i \in DOMAIN u.documents |-> u.documents[i].sides]) = u.sides
    BY <1>1, <1>5, <1>9
  <2> QED BY <1>5, <1>8, <2>1, <2>2, <2>3 DEF assertUsage
<1> QED BY <1>3, <1>10 DEF u

RowOf(id, position, pageCount, ranges, copies, duplex) ==
  LET usage == calculateSheetUsage(countSelectedPages(ranges), duplex)
  IN [fileId |-> id, position |-> position, pageCount |-> pageCount,
      ranges |-> ranges, text |-> formatPageRanges(ranges),
      selectedPages |-> usage.sides, copies |-> copies, duplex |-> duplex,
      sides |-> usage.sides * copies, sheets |-> usage.sheets * copies]
LEMMA RowUnfolds ==
  ASSUME NEW input, NEW files, DOMAIN input.order \subseteq Int, NEW i \in DOMAIN input.order
  PROVE  LET id == input.order[i]
             s == Selection(input, id)
         IN SettingsRows(input, files)[i] =
              RowOf(id, i - 1, files[id], parsePageRangeText(s.text, files[id]).ranges, s.copies, s.duplex)
<1>1. (i - 1) + 1 = i OBVIOUS
<1>2. SettingsRows(input, files)[i] = normalizedFile(input, i - 1, files) BY DEF SettingsRows
<1> QED BY <1>1, <1>2 DEF normalizedFile, RowOf

LEMMA CountTo == ASSUME NEW k \in Nat \ {0} PROVE IsFiniteSet(1..k) /\ Cardinality(1..k) = k
<1>1. Cardinality(1..k) = IF 1 > k THEN 0 ELSE k - 1 + 1
  <2>1. 1 \in Int /\ k \in Int OBVIOUS
  <2> QED BY <2>1, FS_Interval
<1>2. ~(1 > k) /\ k - 1 + 1 = k OBVIOUS
<1>3. IsFiniteSet(1..k) BY FS_Interval
<1> QED BY <1>1, <1>2, <1>3

LEMMA SelectionsReread ==
  ASSUME NEW n, NEW input, NEW files, NEW caps, CameFrom(n, input, files, caps)
  PROVE  LET again == readSelections(n)
         IN /\ again.order = input.order /\ again.paperSize = input.paperSize
            /\ Len(again.selections) = Len(input.order)
            /\ DOMAIN again.selections = DOMAIN input.order
            /\ \A i \in DOMAIN input.order :
                 LET s == again.selections[i]
                     settingsRow == n.files[i]
                 IN s.fileId = input.order[i] /\ s.text = settingsRow.text /\ s.copies = settingsRow.copies /\ s.duplex = settingsRow.duplex
<1> DEFINE again == readSelections(n)
           o == input.order
           k == Len(o)
           rows == n.files
           sel == [i \in 1..k |-> [fileId |-> rows[i].fileId, text |-> rows[i].text,
                                   copies |-> rows[i].copies, duplex |-> rows[i].duplex]]
<1>1. DOMAIN rows = 1..k /\ DOMAIN o = 1..k /\ k \in Nat /\ \A i \in 1..k : rows[i].fileId = o[i]
  <2>1. /\ DOMAIN n.files = DOMAIN input.order /\ Len(input.order) \in Nat
        /\ DOMAIN input.order = 1 .. Len(input.order)
    BY RevisionRows
  <2>2. \A i \in DOMAIN input.order : RowFrom(n.files[i], input, i, files, caps) BY RevisionRows
  <2>3. \A i \in DOMAIN input.order : n.files[i].fileId = input.order[i] BY <2>2 DEF RowFrom
  <2> QED BY <2>1, <2>3
<1>2. o = [i \in 1..k |-> o[i]]
  <2> DEFINE T == {o[i] : i \in DOMAIN o}
  <2>1. o \in Seq(T) BY DEF CameFrom, SettingsRequest, Listed
  <2> HIDE DEF T, o
  <2>2. o \in [1 .. Len(o) -> T] BY <2>1
  <2>3. o = [i \in 1 .. Len(o) |-> o[i]] BY <2>2
  <2> QED BY <2>3 DEF k
<1>3. n.paperSize = input.paperSize BY RevisionUnfolds
<1>4. again = [order |-> [i \in 1..k |-> rows[i].fileId], paperSize |-> n.paperSize, selections |-> sel]
  BY <1>1 DEF readSelections
<1>5. [i \in 1..k |-> rows[i].fileId] = o
  <2> HIDE DEF rows, o, k
  <2> QED BY <1>1, <1>2
<1>6. again.order = o /\ again.paperSize = input.paperSize /\ again.selections = sel
  <2> HIDE DEF again, sel, o, rows, k
  <2> QED BY <1>3, <1>4, <1>5
<1>7. Len(sel) = k /\ DOMAIN sel = 1..k BY <1>1
<1>8. \A i \in 1..k : /\ sel[i].fileId = o[i] /\ sel[i].text = rows[i].text
                      /\ sel[i].copies = rows[i].copies /\ sel[i].duplex = rows[i].duplex
  <2> HIDE DEF rows, o, k
  <2> QED BY <1>1
<1> HIDE DEF sel
<1> QED BY <1>1, <1>6, <1>7, <1>8

\* While nothing has changed, a revision read back is the revision.
LEMMA RevisionReread ==
  ASSUME NEW n, NEW input, NEW files, NEW caps, CameFrom(n, input, files, caps)
  PROVE  normalizePrintSettings(readSelections(n), files, caps) = n
<1> DEFINE again == readSelections(n)
           o == input.order
           k == Len(o)
           rows == n.files
<1>1. /\ DOMAIN rows = 1..k /\ DOMAIN o = 1..k /\ k \in Nat \ {0}
      /\ \A i \in 1..k : StoredRow(rows[i]) /\ RowFrom(rows[i], input, i, files, caps)
      /\ rows = [i \in 1..k |-> rows[i]]
  BY RevisionRows
<1>2. /\ again.order = o /\ again.paperSize = input.paperSize /\ Len(again.selections) = k
      /\ DOMAIN again.selections = 1..k
      /\ \A i \in 1..k : /\ again.selections[i].fileId = o[i] /\ again.selections[i].text = rows[i].text
                         /\ again.selections[i].copies = rows[i].copies
                         /\ again.selections[i].duplex = rows[i].duplex
  BY <1>1, SelectionsReread
<1>3. Accepted(input, files, caps) /\ n = RevisionOf(input, files, caps) /\ rows = SettingsRows(input, files)
  <2>1. Accepted(input, files, caps) BY RevisionUnfolds
  <2>2. n = RevisionOf(input, files, caps) BY RevisionIs
  <2>3. rows = SettingsRows(input, files) BY RevisionUnfolds
  <2> QED BY <2>1, <2>2, <2>3
<1>4. IsInjective(o) /\ k = Cardinality(DOMAIN files) BY <1>3 DEF Accepted, Listing
<1>5. \A i, j \in 1..k : o[i] = o[j] => i = j BY <1>1, <1>4 DEF IsInjective
<1> HIDE DEF again, k, o, rows
<1>6. Cardinality(Ids(again.selections)) = k
  <2>1. Ids(again.selections) = {o[i] : i \in 1..k} BY <1>2 DEF Ids
  <2>2. IsFiniteSet(1..k) /\ Cardinality(1..k) = k
    BY <1>1, CountTo
  <2>3. Cardinality({o[i] : i \in 1..k}) = k
    <3> DEFINE S == 1..k
    <3>1. IsFiniteSet(S) /\ Cardinality(S) = k /\ \A i, j \in S : o[i] = o[j] => i = j BY <1>5, <2>2
    <3>2. Cardinality({o[i] : i \in S}) = Cardinality(S)
      <4> HIDE DEF S
      <4> QED BY <3>1, ImageIsAsLarge
    <3> QED BY <3>1, <3>2
  <2> QED BY <2>1, <2>3
<1>7. Listing(again, files) BY <1>2, <1>4, <1>6 DEF Listing, o, k
<1>8. ASSUME NEW i \in 1..k
      PROVE  LET id == o[i]
                 s == Selection(again, id)
             IN /\ id \in Ids(again.selections) /\ s = again.selections[i]
                /\ id \in DOMAIN files /\ s.duplex \in caps.duplexModes /\ s.copies \in 1 .. caps.maxCopies
                /\ parsePageRangeText(s.text, files[id]).error = "none"
                /\ parsePageRangeText(s.text, files[id]).ranges = rows[i].ranges
                /\ s.copies = rows[i].copies /\ s.duplex = rows[i].duplex /\ files[id] = rows[i].pageCount
  <2> DEFINE id == o[i]
             s == Selection(again, id)
  <2>1. id \in Ids(again.selections) BY <1>2 DEF Ids
  <2>2. PICK j \in DOMAIN again.selections : s = again.selections[j] /\ again.selections[j].fileId = id
    BY <2>1, SelectionIsOne
  <2>3. j = i BY <1>2, <1>5, <2>2
  <2>4. s = again.selections[i] /\ s.text = rows[i].text /\ s.copies = rows[i].copies /\ s.duplex = rows[i].duplex
    BY <1>2, <2>2, <2>3
  <2>5. /\ id \in DOMAIN files /\ rows[i].pageCount = files[id] /\ rows[i].duplex \in caps.duplexModes
        /\ rows[i].copies \in 1 .. caps.maxCopies
    BY <1>1 DEF RowFrom, o
  <2>6. /\ RowRanges(rows[i].ranges, rows[i].pageCount) /\ rows[i].text = formatPageRanges(rows[i].ranges)
        /\ rows[i].pageCount \in Nat \ {0}
    BY <1>1 DEF StoredRow
  <2>7. /\ parsePageRangeText(rows[i].text, rows[i].pageCount).ranges = rows[i].ranges
        /\ parsePageRangeText(rows[i].text, rows[i].pageCount).error = "none"
    BY <2>6, RangesReread
  <2> HIDE DEF s
  <2> QED BY <2>1, <2>4, <2>5, <2>7 DEF s
<1>9. WrongFiles(again, files, caps) = {}
  <2>1. ASSUME NEW i \in 1..k PROVE selectionError(again, o[i], files, caps) = "none"
    BY <1>8, SelectionIsSound
  <2> QED BY <1>1, <1>2, <2>1 DEF WrongFiles
<1>10. SettingsRows(again, files) = rows
  <2>1. ASSUME NEW i \in 1..k PROVE SettingsRows(again, files)[i] = rows[i]
    <3> DEFINE id == o[i]
               s == Selection(again, id)
               t == Selection(input, id)
               r == parsePageRangeText(t.text, files[id]).ranges
    <3>1. DOMAIN o \subseteq Int /\ i \in DOMAIN o BY <1>1
    <3>2. rows[i] = RowOf(id, i - 1, files[id], r, t.copies, t.duplex)
      BY <1>3, <3>1, RowUnfolds DEF o
    <3>3. SettingsRows(again, files)[i] =
            RowOf(id, i - 1, files[id], parsePageRangeText(s.text, files[id]).ranges, s.copies, s.duplex)
      BY <1>2, <3>1, RowUnfolds
    <3>4. rows[i].ranges = r /\ rows[i].copies = t.copies /\ rows[i].duplex = t.duplex
      <4> HIDE DEF r, t, id
      <4> QED BY <3>2 DEF RowOf
    <3>5. /\ parsePageRangeText(s.text, files[id]).ranges = rows[i].ranges
          /\ s.copies = rows[i].copies /\ s.duplex = rows[i].duplex
      BY <1>8
    <3> HIDE DEF r, s, t, id
    <3> QED BY <3>2, <3>3, <3>4, <3>5
  <2>2. SettingsRows(again, files) = [i \in 1..k |-> SettingsRows(again, files)[i]] BY <1>1, <1>2 DEF SettingsRows
  <2> QED BY <1>1, <2>1, <2>2
<1>11. Accepted(again, files, caps)
  BY <1>2, <1>3, <1>7, <1>9, <1>10 DEF Accepted
<1>12. RevisionOf(again, files, caps) = RevisionOf(input, files, caps)
  BY <1>2, <1>3, <1>10 DEF RevisionOf, buildSettingsManifest
<1>13. normalizePrintSettings(again, files, caps) = n
  BY <1>3, <1>11, <1>12, NormalizeUnfolds
<1> QED BY <1>13 DEF again

-----------------------------------------------------------------------------
(* Rounding.                                                               *)

Roundings == {"HALF_UP", "HALF_EVEN", "AWAY_FROM_ZERO", "TOWARD_ZERO"}
RoundsUp(m, rounding) ==
  \/ rounding = "AWAY_FROM_ZERO" /\ m % Scale > 0
  \/ rounding = "HALF_UP" /\ (m % Scale) * 2 >= Scale
  \/ rounding = "HALF_EVEN" /\ \/ (m % Scale) * 2 > Scale
                               \/ (m % Scale) * 2 = Scale /\ (m \div Scale) % 2 = 1
Rounded(m, rounding) == m \div Scale + IF RoundsUp(m, rounding) THEN 1 ELSE 0

\* What each rounding promises of a magnitude.
RoundedWell(m, rounding, r) ==
  /\ rounding = "TOWARD_ZERO" => r * Scale <= m /\ m < r * Scale + Scale
  /\ rounding = "AWAY_FROM_ZERO" => m <= r * Scale /\ r * Scale < m + Scale
  /\ rounding = "HALF_UP" =>
       2 * m < 2 * (r * Scale) + Scale /\ 2 * (r * Scale) <= 2 * m + Scale
  /\ rounding = "HALF_EVEN" =>
       /\ 2 * m <= 2 * (r * Scale) + Scale /\ 2 * (r * Scale) <= 2 * m + Scale
       /\ 2 * m = 2 * (r * Scale) + Scale => r % 2 = 0
       /\ 2 * (r * Scale) = 2 * m + Scale => r % 2 = 0

LEMMA MagnitudeRounds ==
  ASSUME NEW m \in Nat, NEW rounding \in Roundings
  PROVE  Rounded(m, rounding) \in Nat /\ RoundedWell(m, rounding, Rounded(m, rounding))
<1> DEFINE q == m \div 10000
           e == m % 10000
<1>1. q \in Nat /\ e \in 0..9999 /\ m = q * 10000 + e OBVIOUS
<1>2. q % 2 = 0 \/ q % 2 = 1 BY <1>1
<1>3. q % 2 = 1 => (q + 1) % 2 = 0 BY <1>1
<1>4. Rounded(m, rounding) = q + IF RoundsUp(m, rounding) THEN 1 ELSE 0 BY DEF Rounded, Scale
<1>5. RoundsUp(m, rounding) <=>
        \/ rounding = "AWAY_FROM_ZERO" /\ e > 0
        \/ rounding = "HALF_UP" /\ e * 2 >= 10000
        \/ rounding = "HALF_EVEN" /\ (e * 2 > 10000 \/ (e * 2 = 10000 /\ q % 2 = 1))
  BY DEF RoundsUp, Scale
<1> HIDE DEF q, e
<1>6. CASE rounding = "TOWARD_ZERO"
  <2>1. Rounded(m, rounding) = q BY <1>1, <1>4, <1>5, <1>6
  <2> QED BY <1>1, <1>6, <2>1 DEF RoundedWell, Scale
<1>7. CASE rounding = "AWAY_FROM_ZERO"
  <2>1. Rounded(m, rounding) = IF e > 0 THEN q + 1 ELSE q BY <1>1, <1>4, <1>5, <1>7
  <2> QED BY <1>1, <1>7, <2>1 DEF RoundedWell, Scale
<1>8. CASE rounding = "HALF_UP"
  <2>1. Rounded(m, rounding) = IF e * 2 >= 10000 THEN q + 1 ELSE q BY <1>1, <1>4, <1>5, <1>8
  <2> QED BY <1>1, <1>8, <2>1 DEF RoundedWell, Scale
<1>9. CASE rounding = "HALF_EVEN"
  <2>1. Rounded(m, rounding) = IF e * 2 > 10000 \/ (e * 2 = 10000 /\ q % 2 = 1) THEN q + 1 ELSE q
    BY <1>1, <1>4, <1>5, <1>9
  <2> QED BY <1>1, <1>2, <1>3, <1>9, <2>1 DEF RoundedWell, Scale
<1> QED BY <1>6, <1>7, <1>8, <1>9 DEF Roundings

LEMMA RoundingIsMonotone ==
  ASSUME NEW m \in Nat, NEW n \in Nat, m <= n, NEW rounding \in Roundings
  PROVE  Rounded(m, rounding) <= Rounded(n, rounding)
<1> DEFINE r == Rounded(m, rounding)
           s == Rounded(n, rounding)
<1>1. /\ r \in Nat /\ s \in Nat
      /\ RoundedWell(m, rounding, r) /\ RoundedWell(n, rounding, s)
  BY MagnitudeRounds
<1>2. m = n => r = s OBVIOUS
<1> HIDE DEF r, s
<1> SUFFICES ASSUME s < r, m < n PROVE FALSE
  BY <1>1, <1>2 DEF r, s
<1>3. s * 10000 + 10000 <= r * 10000 BY <1>1
<1> DEFINE a == r * 10000
           b == s * 10000
<1>4. a \in Int /\ b \in Int /\ b + 10000 <= a BY <1>1, <1>3
<1>5. CASE rounding = "TOWARD_ZERO"
  <2>1. a <= m /\ n < b + 10000 BY <1>1, <1>5 DEF RoundedWell, Scale
  <2> HIDE DEF a, b
  <2> QED BY <1>4, <2>1
<1>6. CASE rounding = "AWAY_FROM_ZERO"
  <2>1. n <= b /\ a < m + 10000 BY <1>1, <1>6 DEF RoundedWell, Scale
  <2> HIDE DEF a, b
  <2> QED BY <1>4, <2>1
<1>7. CASE rounding = "HALF_UP"
  <2>1. 2 * n < 2 * b + 10000 /\ 2 * a <= 2 * m + 10000 BY <1>1, <1>7 DEF RoundedWell, Scale
  <2> HIDE DEF a, b
  <2> QED BY <1>4, <2>1
<1>8. CASE rounding = "HALF_EVEN"
  <2>1. 2 * n <= 2 * b + 10000 /\ 2 * a <= 2 * m + 10000 BY <1>1, <1>8 DEF RoundedWell, Scale
  <2> HIDE DEF a, b
  <2> QED BY <1>4, <2>1
<1> QED BY <1>5, <1>6, <1>7, <1>8 DEF Roundings

\* Less than u more, in whole amounts, is rounded to no more than u more.
LEMMA RoundingAddsNoMore ==
  ASSUME NEW m \in Nat, NEW v \in Nat, NEW u \in Nat, v < u * Scale, NEW rounding \in Roundings
  PROVE  Rounded(m + v, rounding) <= Rounded(m, rounding) + u
<1> DEFINE r == Rounded(m, rounding)
           s == Rounded(m + v, rounding)
           n == m + v
<1>1. /\ r \in Nat /\ s \in Nat /\ n \in Nat
      /\ RoundedWell(m, rounding, r) /\ RoundedWell(n, rounding, s)
  BY MagnitudeRounds
<1> DEFINE a == r * 10000
           b == s * 10000
           c == u * 10000
<1>2. v < c BY DEF Scale
<1> SUFFICES ASSUME r + u < s PROVE FALSE
  BY <1>1
<1> HIDE DEF r, s
<1>3. a \in Int /\ b \in Int /\ c \in Int /\ a + c + 10000 <= b BY <1>1
<1>4. n = m + v OBVIOUS
<1>5. CASE rounding = "TOWARD_ZERO"
  <2>1. b <= n /\ m < a + 10000 BY <1>1, <1>5 DEF RoundedWell, Scale
  <2> HIDE DEF a, b, c, n
  <2> QED BY <1>1, <1>2, <1>3, <1>4, <2>1
<1>6. CASE rounding = "AWAY_FROM_ZERO"
  <2>1. m <= a /\ b < n + 10000 BY <1>1, <1>6 DEF RoundedWell, Scale
  <2> HIDE DEF a, b, c, n
  <2> QED BY <1>1, <1>2, <1>3, <1>4, <2>1
<1>7. CASE rounding = "HALF_UP"
  <2>1. 2 * m < 2 * a + 10000 /\ 2 * b <= 2 * n + 10000 BY <1>1, <1>7 DEF RoundedWell, Scale
  <2> HIDE DEF a, b, c, n
  <2> QED BY <1>1, <1>2, <1>3, <1>4, <2>1
<1>8. CASE rounding = "HALF_EVEN"
  <2>1. 2 * m <= 2 * a + 10000 /\ 2 * b <= 2 * n + 10000 BY <1>1, <1>8 DEF RoundedWell, Scale
  <2> HIDE DEF a, b, c, n
  <2> QED BY <1>1, <1>2, <1>3, <1>4, <2>1
<1> QED BY <1>5, <1>6, <1>7, <1>8 DEF Roundings

LEMMA WholeAmountsStay ==
  ASSUME NEW k \in Nat, NEW rounding \in Roundings PROVE Rounded(k * Scale, rounding) = k
<1> DEFINE m == k * Scale
           r == Rounded(m, rounding)
<1>1. m \in Nat /\ m = k * 10000 BY DEF Scale
<1> HIDE DEF m
<1>2. r \in Nat /\ RoundedWell(m, rounding, r) BY <1>1, MagnitudeRounds
<1> HIDE DEF r
<1>3. CASE rounding = "TOWARD_ZERO"
  <2>1. r * 10000 <= m /\ m < r * 10000 + 10000 BY <1>2, <1>3 DEF RoundedWell, Scale
  <2>2. r = k BY <1>1, <1>2, <2>1
  <2> QED BY <2>2 DEF r, m
<1>4. CASE rounding = "AWAY_FROM_ZERO"
  <2>1. m <= r * 10000 /\ r * 10000 < m + 10000 BY <1>2, <1>4 DEF RoundedWell, Scale
  <2>2. r = k BY <1>1, <1>2, <2>1
  <2> QED BY <2>2 DEF r, m
<1>5. CASE rounding = "HALF_UP"
  <2>1. 2 * m < 2 * (r * 10000) + 10000 /\ 2 * (r * 10000) <= 2 * m + 10000
    BY <1>2, <1>5 DEF RoundedWell, Scale
  <2>2. r = k BY <1>1, <1>2, <2>1
  <2> QED BY <2>2 DEF r, m
<1>6. CASE rounding = "HALF_EVEN"
  <2>1. 2 * m <= 2 * (r * 10000) + 10000 /\ 2 * (r * 10000) <= 2 * m + 10000
    BY <1>2, <1>6 DEF RoundedWell, Scale
  <2>2. r = k BY <1>1, <1>2, <2>1
  <2> QED BY <2>2 DEF r, m
<1> QED BY <1>3, <1>4, <1>5, <1>6 DEF Roundings

LEMMA AppliedUnfolds ==
  ASSUME NEW amount \in Int, NEW points \in Int, NEW rounding \in Roundings
  PROVE  LET product == amount * points
         IN /\ product \in Int
            /\ product >= 0 => applyBasisPoints(amount, points, rounding) = Rounded(product, rounding)
            /\ product < 0 => /\ -product \in Nat
                              /\ applyBasisPoints(amount, points, rounding) = -Rounded(-product, rounding)
<1> DEFINE product == amount * points
           x == applyBasisPoints(amount, points, rounding)
           v == Rounded(Magnitude(product), rounding)
<1>1. x = (IF product < 0 THEN -1 ELSE 1) * v
  BY DEF applyBasisPoints, Rounded, RoundsUp
<1>2. product \in Int OBVIOUS
<1> HIDE DEF product
<1>3. Magnitude(product) = IF product < 0 THEN -product ELSE product BY DEF Magnitude
<1>4. Magnitude(product) \in Nat BY <1>2, <1>3
<1>5. v \in Nat BY <1>4, MagnitudeRounds
<1>6. x = IF product < 0 THEN -v ELSE v
  <2> HIDE DEF v, x
  <2> QED BY <1>1, <1>2, <1>5
<1> HIDE DEF x
<1>7. product >= 0 => x = Rounded(product, rounding) BY <1>2, <1>3, <1>6
<1>8. product < 0 => -product \in Nat /\ x = -Rounded(-product, rounding) BY <1>2, <1>3, <1>6
<1> QED BY <1>2, <1>7, <1>8 DEF product, x

LEMMA OfMagnitude ==
  \A x \in Int : /\ Magnitude(x) \in Nat /\ Magnitude(-x) = Magnitude(x) /\ (x >= 0 => Magnitude(x) = x)
                 /\ (x <= 0 => Magnitude(x) = -x)
BY DEF Magnitude

\* The code's rounding is the contract's.
LEMMA AppliedIsRounded ==
  ASSUME NEW amount \in Int, NEW points \in Int, NEW rounding \in Roundings
  PROVE  RoundedTo(amount * points, rounding, applyBasisPoints(amount, points, rounding))
<1> DEFINE product == amount * points
           x == applyBasisPoints(amount, points, rounding)
           m == IF product < 0 THEN -product ELSE product
           r == Rounded(m, rounding)
           a == r * 10000
<1>1. product \in Int OBVIOUS
<1>2. m \in Nat /\ (product >= 0 => m = product) /\ (product < 0 => m = -product) BY <1>1
<1>3. (product >= 0 => x = r) /\ (product < 0 => x = -r) BY <1>1, <1>2, AppliedUnfolds
<1>4. r \in Nat /\ RoundedWell(m, rounding, r) BY <1>2, MagnitudeRounds
<1> SUFFICES RoundedTo(product, rounding, x)
  OBVIOUS
<1> HIDE DEF product, x, m, r
<1>5. a \in Nat BY <1>4
<1> DEFINE off == Magnitude(product - x * Scale)
           outward == Magnitude(x * Scale) >= Magnitude(product)
<1>6. off = Magnitude(m - a) /\ (outward <=> a >= m)
  <2>1. CASE product >= 0
    <3>1. x = r /\ m = product /\ x * Scale = a BY <1>2, <1>3, <2>1 DEF Scale
    <3> QED BY <1>2, <1>5, <3>1, OfMagnitude
  <2>2. CASE product < 0
    <3>1. x = -r /\ m = -product /\ x * Scale = -a BY <1>2, <1>3, <1>4, <2>2 DEF Scale
    <3> HIDE DEF a
    <3>2. product - x * Scale = -(m - a) /\ m - a \in Int /\ product = -m BY <1>1, <1>2, <1>5, <3>1
    <3>3. Magnitude(x * Scale) = a /\ Magnitude(product) = m BY <1>2, <1>5, <3>1, <3>2, OfMagnitude
    <3> QED BY <3>2, <3>3, OfMagnitude
  <2> QED BY <1>1, <2>1, <2>2
<1>7. (m >= a => off = m - a) /\ (m < a => off = a - m)
  <2> HIDE DEF a, off
  <2>1. m - a \in Int BY <1>2, <1>5
  <2> QED BY <1>2, <1>5, <1>6, <2>1 DEF Magnitude
<1>8. r % 2 = 0 => x % 2 = 0 BY <1>1, <1>3, <1>4
<1>9. /\ rounding = "TOWARD_ZERO" => a <= m /\ m < a + 10000
      /\ rounding = "AWAY_FROM_ZERO" => m <= a /\ a < m + 10000
      /\ rounding = "HALF_UP" => 2 * m < 2 * a + 10000 /\ 2 * a <= 2 * m + 10000
      /\ rounding = "HALF_EVEN" => /\ 2 * m <= 2 * a + 10000 /\ 2 * a <= 2 * m + 10000
                                   /\ 2 * m = 2 * a + 10000 => r % 2 = 0
                                   /\ 2 * a = 2 * m + 10000 => r % 2 = 0
  BY <1>4 DEF RoundedWell, Scale
<1>10. RoundedTo(product, rounding, x) <=>
         /\ rounding = "TOWARD_ZERO" => off < 10000 /\ (off > 0 => ~outward)
         /\ rounding = "AWAY_FROM_ZERO" => off < 10000 /\ outward
         /\ rounding \in {"HALF_UP", "HALF_EVEN"} => 2 * off <= 10000
         /\ rounding = "HALF_UP" /\ 2 * off = 10000 => outward
         /\ rounding = "HALF_EVEN" /\ 2 * off = 10000 => x % 2 = 0
  BY DEF RoundedTo, Scale
<1> HIDE DEF a, off, outward
<1>11. m >= a \/ m < a BY <1>2, <1>5
<1>12. off \in Int BY <1>2, <1>5, <1>7, <1>11
<1>13. rounding = "TOWARD_ZERO" => off < 10000 /\ (off > 0 => ~outward)
  BY <1>2, <1>5, <1>6, <1>7, <1>9, <1>11
<1>14. rounding = "AWAY_FROM_ZERO" => off < 10000 /\ outward
  BY <1>2, <1>5, <1>6, <1>7, <1>9, <1>11
<1>15. rounding \in {"HALF_UP", "HALF_EVEN"} => 2 * off <= 10000
  BY <1>2, <1>5, <1>7, <1>9, <1>11
<1>16. rounding = "HALF_UP" /\ 2 * off = 10000 => outward
  BY <1>2, <1>5, <1>6, <1>7, <1>9, <1>11
<1>17. rounding = "HALF_EVEN" /\ 2 * off = 10000 => x % 2 = 0
  BY <1>2, <1>5, <1>7, <1>8, <1>9, <1>11
<1> QED BY <1>10, <1>13, <1>14, <1>15, <1>16, <1>17

\* A share of an amount: no more than the amount, and of more no less than it would be
\* of the rest alone.
LEMMA TaxIsMonotone ==
  ASSUME NEW a \in Nat, NEW b \in Nat, a <= b, NEW points \in Nat, NEW rounding \in Roundings
  PROVE  LET x == applyBasisPoints(a, points, rounding)
             y == applyBasisPoints(b, points, rounding)
         IN x \in Nat /\ y \in Nat /\ x <= y
<1>1. a * points \in Nat /\ b * points \in Nat /\ a * points <= b * points BY ProductKeepsOrder
<1>2. /\ applyBasisPoints(a, points, rounding) = Rounded(a * points, rounding)
      /\ applyBasisPoints(b, points, rounding) = Rounded(b * points, rounding)
  BY <1>1, AppliedUnfolds
<1> DEFINE p == a * points
           q == b * points
<1>3. p \in Nat /\ q \in Nat /\ p <= q BY <1>1
<1>4. Rounded(p, rounding) \in Nat /\ Rounded(q, rounding) \in Nat
      /\ Rounded(p, rounding) <= Rounded(q, rounding)
  <2> HIDE DEF p, q
  <2> QED BY <1>3, MagnitudeRounds, RoundingIsMonotone
<1> QED BY <1>2, <1>4

LEMMA DiscountIsBounded ==
  ASSUME NEW a \in Nat, NEW u \in Nat, NEW points \in -Scale .. Scale, NEW rounding \in Roundings
  PROVE  LET x == applyBasisPoints(a, points, rounding)
             y == applyBasisPoints(a + u, points, rounding)
         IN x \in Int /\ y \in Int /\ Magnitude(x) <= a /\ x - u <= y
<1> DEFINE x == applyBasisPoints(a, points, rounding)
           y == applyBasisPoints(a + u, points, rounding)
           d == IF points < 0 THEN -points ELSE points
           p == a * d
           q == (a + u) * d
           v == u * d
<1>1. points \in Int /\ d \in Nat /\ d <= 10000 BY DEF Scale
<1>2. (points >= 0 => points = d) /\ (points < 0 => points = -d /\ d > 0) BY <1>1
<1> HIDE DEF d
<1>3. p \in Nat /\ q \in Nat /\ v \in Nat /\ q = p + v BY <1>1
<1>4. p <= a * 10000 /\ v <= u * 10000 /\ a * 10000 \in Nat /\ u * 10000 \in Nat
  <2>1. d * a <= 10000 * a /\ d * u <= 10000 * u BY <1>1, ProductKeepsOrder
  <2> QED BY <1>1, <2>1
<1>5. (points >= 0 => a * points = p /\ (a + u) * points = q)
      /\ (points < 0 => a * points = -p /\ (a + u) * points = -q)
  BY <1>1, <1>2
<1> DEFINE r == Rounded(p, rounding)
           s == Rounded(q, rounding)
<1>6. Rounded(0, rounding) = 0
  <2>1. 0 * Scale = 0 BY DEF Scale
  <2> QED BY <2>1, WholeAmountsStay
<1>7. (points >= 0 => x = r /\ y = s) /\ (points < 0 => x = -r /\ y = -s)
  <2>0. a + u \in Int /\ a \in Int OBVIOUS
  <2>1. /\ a * points >= 0 => x = Rounded(a * points, rounding)
        /\ a * points < 0 => x = -Rounded(-(a * points), rounding)
    BY <1>1, <2>0, AppliedUnfolds
  <2>2. /\ (a + u) * points >= 0 => y = Rounded((a + u) * points, rounding)
        /\ (a + u) * points < 0 => y = -Rounded(-((a + u) * points), rounding)
    BY <1>1, <2>0, AppliedUnfolds
  <2> DEFINE ap == a * points
             aq == (a + u) * points
  <2>3. /\ ap >= 0 => x = Rounded(ap, rounding)
        /\ ap < 0 => x = -Rounded(-ap, rounding)
        /\ aq >= 0 => y = Rounded(aq, rounding)
        /\ aq < 0 => y = -Rounded(-aq, rounding)
    BY <2>1, <2>2
  <2>4. (points >= 0 => ap = p /\ aq = q) /\ (points < 0 => ap = -p /\ aq = -q) BY <1>5
  <2> HIDE DEF ap, aq, x, y, p, q
  <2>5. CASE points >= 0 BY <1>1, <1>3, <2>3, <2>4, <2>5
  <2>6. CASE points < 0
    <3>1. ap = -p /\ aq = -q BY <2>4, <2>6
    <3>2. x = -r
      <4>1. CASE p <= 0
        <5>1. ap <= 0 /\ ap >= 0 /\ ap \in Int /\ p >= 0 BY <1>3, <3>1, <4>1
        <5>2. ap = 0 /\ p = 0 BY <1>3, <4>1, <5>1
        <5>3. x = 0 /\ r = 0 BY <1>6, <2>3, <5>1, <5>2
        <5> HIDE DEF r
        <5>4. r <= 0 /\ 0 <= r /\ r \in Int /\ x <= 0 /\ 0 <= x /\ x \in Int BY <5>3
        <5> QED BY <5>4
      <4>2. CASE p > 0
        <5>1. ap < 0 /\ -ap = p BY <1>3, <3>1, <4>2
        <5>2. Rounded(-ap, rounding) = Rounded(p, rounding) BY <5>1
        <5> QED BY <2>3, <5>1, <5>2
      <4> QED BY <1>3, <4>1, <4>2
    <3>3. y = -s
      <4>1. CASE q <= 0
        <5>1. aq <= 0 /\ aq >= 0 /\ aq \in Int /\ q >= 0 BY <1>3, <3>1, <4>1
        <5>2. aq = 0 /\ q = 0 BY <1>3, <4>1, <5>1
        <5>3. y = 0 /\ s = 0 BY <1>6, <2>3, <5>1, <5>2
        <5> HIDE DEF s
        <5>4. s <= 0 /\ 0 <= s /\ s \in Int /\ y <= 0 /\ 0 <= y /\ y \in Int BY <5>3
        <5> QED BY <5>4
      <4>2. CASE q > 0
        <5>1. aq < 0 /\ -aq = q BY <1>3, <3>1, <4>2
        <5>2. Rounded(-aq, rounding) = Rounded(q, rounding) BY <5>1
        <5> QED BY <2>3, <5>1, <5>2
      <4> QED BY <1>3, <4>1, <4>2
    <3> QED BY <1>1, <2>6, <3>2, <3>3
  <2> QED BY <1>1, <2>5, <2>6
<1>8. r \in Nat /\ s \in Nat /\ r <= a
  <2>1. Rounded(a * Scale, rounding) = a BY WholeAmountsStay
  <2>2. p <= a * Scale /\ a * Scale \in Nat BY <1>4 DEF Scale
  <2> HIDE DEF p, q
  <2> QED BY <1>3, <2>1, <2>2, MagnitudeRounds, RoundingIsMonotone
<1>9. r <= s
  <2>1. p <= q BY <1>3
  <2> HIDE DEF p, q
  <2> QED BY <1>3, <2>1, RoundingIsMonotone
<1>10. s <= r + u
  <2>1. CASE d = 10000
    <3>1. p = a * Scale /\ q = (a + u) * Scale BY <2>1 DEF Scale
    <3>2. a + u \in Nat OBVIOUS
    <3>3. r = a /\ s = a + u BY <3>1, <3>2, WholeAmountsStay
    <3> QED BY <3>3
  <2>2. CASE d < 10000 /\ u = 0
    <3>1. q = p BY <1>1, <2>2
    <3> QED BY <1>8, <2>2, <3>1
  <2>3. CASE d < 10000 /\ u > 0
    <3>1. v < u * Scale
      <4>1. v <= u * 9999
        <5>1. d \in Nat /\ d <= 9999 BY <1>1, <2>3
        <5>2. d * u <= 9999 * u BY <5>1, ProductKeepsOrder
        <5> QED BY <1>1, <5>2
      <4>2. u * 9999 < u * 10000 BY <2>3
      <4> QED BY <1>3, <4>1, <4>2 DEF Scale
    <3> HIDE DEF p, q, v
    <3> QED BY <1>3, <3>1, RoundingAddsNoMore
  <2> QED BY <1>1, <2>1, <2>2, <2>3
<1> HIDE DEF x, y, r, s
<1>11. x \in Int /\ y \in Int /\ Magnitude(x) <= a /\ x - u <= y
  <2>1. CASE points >= 0
    <3>1. x = r /\ y = s BY <1>7, <2>1
    <3>2. Magnitude(x) = r BY <1>8, <3>1, OfMagnitude
    <3> QED BY <1>8, <1>9, <3>1, <3>2
  <2>2. CASE points < 0
    <3>1. x = -r /\ y = -s BY <1>7, <2>2
    <3>2. Magnitude(x) = r BY <1>8, <3>1, OfMagnitude
    <3> QED BY <1>8, <1>10, <3>1, <3>2
  <2> QED BY <1>1, <2>1, <2>2
<1> QED BY <1>11 DEF x, y

-----------------------------------------------------------------------------
(* Prices.                                                                 *)

\* In a finite set something is largest.
LEMMA SomethingIsLargest ==
  ASSUME NEW S, IsFiniteSet(S), S # {}, NEW f, \A x \in S : f[x] \in Int
  PROVE  \E x \in S : \A y \in S : f[y] <= f[x]
<1> DEFINE Bad == {s \in SUBSET S : s # {} /\ ~\E x \in s : \A y \in s : f[y] <= f[x]}
<1>1. ASSUME Bad # {} PROVE FALSE
  <2>1. PICK s \in Bad : \A x \in s : s \ {x} \notin Bad
    <3>1. Bad \subseteq SUBSET S OBVIOUS
    <3> HIDE DEF Bad
    <3> QED BY <1>1, <3>1, LeastSubset
  <2>2. s \subseteq S /\ s # {} /\ ~\E x \in s : \A y \in s : f[y] <= f[x] OBVIOUS
  <2>3. PICK x \in s : TRUE BY <2>2
  <2>4. f[x] \in Int BY <2>2
  <2>5. CASE s \ {x} = {}
    <3>1. \A y \in s : y = x BY <2>5
    <3>2. f[x] <= f[x] BY <2>4
    <3> QED BY <2>2, <3>1, <3>2
  <2>6. CASE s \ {x} # {}
    <3>1. s \ {x} \in SUBSET S /\ s \ {x} \notin Bad BY <2>1, <2>2
    <3>2. PICK z \in s \ {x} : \A y \in s \ {x} : f[y] <= f[z] BY <2>6, <3>1
    <3>3. f[z] \in Int /\ \A y \in s : f[y] \in Int BY <2>2
    <3>4. \A y \in s : y = x \/ f[y] <= f[z] BY <3>2
    <3>5. CASE f[x] <= f[z]
      <4>1. \A y \in s : f[y] <= f[z] BY <3>4, <3>5
      <4> QED BY <2>2, <4>1
    <3>6. CASE f[z] < f[x]
      <4>1. \A y \in s : f[y] <= f[x] BY <2>4, <3>3, <3>4, <3>6
      <4> QED BY <2>2, <4>1
    <3> QED BY <2>4, <3>3, <3>5, <3>6
  <2> QED BY <2>5, <2>6
<1> QED BY <1>1

HasRule(t, paperSize) == ~\A i \in DOMAIN t.rules : t.rules[i].paperSize # paperSize

LEMMA RuleIsListed ==
  ASSUME NEW t, PricingRuleSet(t), NEW paper, HasRule(t, paper)
  PROVE  PricingRule(selectPricingRule(t, paper))
<1> DEFINE M == {i \in DOMAIN t.rules : t.rules[i].paperSize = paper}
           top == {i \in M : \A k \in M : t.rules[k].priority <= t.rules[i].priority}
           f == [i \in M |-> t.rules[i].priority]
<1>1. /\ \A i \in DOMAIN t.rules : PricingRule(t.rules[i])
      /\ DOMAIN t.rules = 1 .. Len(t.rules) /\ Len(t.rules) \in Nat
  <2>1. t.rules \in Seq({t.rules[i] : i \in DOMAIN t.rules}) BY DEF PricingRuleSet, Listed
  <2> QED BY <2>1 DEF PricingRuleSet
<1>2. M # {} BY DEF HasRule
<1>3. M \subseteq 1 .. Len(t.rules) BY <1>1
<1>4. IsFiniteSet(M)
  <2>1. IsFiniteSet(1 .. Len(t.rules))
    <3>1. 1 \in Int /\ Len(t.rules) \in Int BY <1>1
    <3> QED BY <3>1, FS_Interval
  <2> HIDE DEF M
  <2> QED BY <1>3, <2>1, FS_Subset
<1>5. \A i \in M : f[i] = t.rules[i].priority /\ f[i] \in Int BY <1>1 DEF PricingRule
<1>6. \E i \in M : \A k \in M : f[k] <= f[i]
  <2> HIDE DEF M, f
  <2> QED BY <1>2, <1>4, <1>5, SomethingIsLargest
<1>7. top # {}
  <2> HIDE DEF f, M
  <2> QED BY <1>5, <1>6
<1>8. top \subseteq Nat BY <1>1
<1>9. Min(top) \in top
  <2> HIDE DEF top
  <2> QED BY <1>7, <1>8, LeastOfIndices
<1>10. Min(top) \in DOMAIN t.rules BY <1>9
<1>11. selectPricingRule(t, paper) = t.rules[Min(top)] BY DEF selectPricingRule
<1> QED BY <1>1, <1>10, <1>11

\* The parts of a price.
RuleFor(t, u) == selectPricingRule(t, u.paperSize)
Early(t) == t.minimumApplication = "BEFORE_TAX"
Printed(t, u) == u.sides * RuleFor(t, u).unit
Adjusted(t, u) == duplexAdjustment(t, RuleFor(t, u), u)
Floored(t, u) == Max({Printed(t, u) + Adjusted(t, u) + RuleFor(t, u).fee, 0})
Subtotal(t, u) == IF Early(t) THEN Max({Floored(t, u), RuleFor(t, u).minimum}) ELSE Floored(t, u)
Taxed(t, u) == applyBasisPoints(Subtotal(t, u), RuleFor(t, u).taxPoints, t.rounding)
Totalled(t, u) ==
  IF Early(t) THEN Subtotal(t, u) + Taxed(t, u)
  ELSE Max({Subtotal(t, u) + Taxed(t, u), RuleFor(t, u).minimum})

LEMMA QuoteUnfolds ==
  ASSUME NEW t, NEW u
  PROVE  LET q == calculateQuote(t, u)
         IN /\ q.stored \in BOOLEAN
            /\ ~q.stored => /\ q.error \in {"PRICING_USAGE_INVALID", "PRICING_RULE_NOT_FOUND",
                                            "PRICING_AMOUNT_LIMIT_EXCEEDED"}
                            /\ assertUsage(u) => q.error # "PRICING_USAGE_INVALID"
            /\ q.stored =>
                 /\ assertUsage(u) /\ HasRule(t, u.paperSize)
                 /\ q.print = Printed(t, u) /\ q.duplex = Adjusted(t, u) /\ q.fee = RuleFor(t, u).fee
                 /\ q.minimum = IF Early(t) THEN Subtotal(t, u) - Floored(t, u)
                                ELSE Totalled(t, u) - (Subtotal(t, u) + Taxed(t, u))
                 /\ q.subtotal = Subtotal(t, u) /\ q.tax = Taxed(t, u) /\ q.total = Totalled(t, u)
<1> DEFINE q == calculateQuote(t, u)
           print == Printed(t, u)
           duplex == Adjusted(t, u)
           fee == RuleFor(t, u).fee
           floored == Floored(t, u)
           subtotal == Subtotal(t, u)
           tax == Taxed(t, u)
           total == Totalled(t, u)
           minimum == IF Early(t) THEN subtotal - floored ELSE total - (subtotal + tax)
           found == HasRule(t, u.paperSize)
           used == assertUsage(u)
           large == print > MaxQuoteAmount \/ total > MaxQuoteAmount
<1>1. q = IF ~used THEN RuleRefused("PRICING_USAGE_INVALID")
          ELSE IF ~found THEN RuleRefused("PRICING_RULE_NOT_FOUND")
          ELSE IF large THEN RuleRefused("PRICING_AMOUNT_LIMIT_EXCEEDED")
          ELSE [stored |-> TRUE, error |-> "none", print |-> print, duplex |-> duplex, fee |-> fee,
                minimum |-> minimum, subtotal |-> subtotal, tax |-> tax, total |-> total]
  BY DEF calculateQuote, RuleFor, Early, Printed, Adjusted, Floored, Subtotal, Taxed, Totalled, HasRule
<1> SUFFICES /\ q.stored \in BOOLEAN
             /\ ~q.stored => /\ q.error \in {"PRICING_USAGE_INVALID", "PRICING_RULE_NOT_FOUND",
                                             "PRICING_AMOUNT_LIMIT_EXCEEDED"}
                             /\ used => q.error # "PRICING_USAGE_INVALID"
             /\ q.stored => /\ used /\ found /\ q.print = print /\ q.duplex = duplex /\ q.fee = fee
                            /\ q.minimum = minimum /\ q.subtotal = subtotal /\ q.tax = tax /\ q.total = total
  OBVIOUS
<1> HIDE DEF q, print, duplex, fee, floored, subtotal, tax, total, minimum, found, used, large
<1> QED BY <1>1 DEF RuleRefused

\* The usage of a revision, and what is adjusted of it.
Usage(u) ==
  /\ u.sides \in Nat
  /\ \E k \in Nat : /\ DOMAIN u.documents = 1..k
                    /\ \A i \in 1..k : u.documents[i].sides \in Nat
DoubleSided(u) == {i \in DOMAIN u.documents : u.documents[i].duplex}
DuplexSides(u) == Sum([i \in DoubleSided(u) |-> u.documents[i].sides])
Adjustment(t, rule, document) ==
  IF document.duplex THEN applyBasisPoints(document.sides * rule.unit, rule.duplexPoints, t.rounding) ELSE 0

LEMMA AdjustmentIsBounded ==
  ASSUME NEW t, NEW rule, PricingRule(rule), t.rounding \in Roundings, NEW d, d.sides \in Nat
  PROVE  LET x == Adjustment(t, rule, d)
             cost == d.sides * rule.unit
         IN x \in Int /\ cost \in Nat /\ x <= cost /\ -cost <= x
<1> DEFINE cost == d.sides * rule.unit
           x == Adjustment(t, rule, d)
           y == applyBasisPoints(cost, rule.duplexPoints, t.rounding)
<1>1. rule.unit \in Nat /\ rule.duplexPoints \in -Scale .. Scale BY DEF PricingRule
<1>2. cost \in Nat BY <1>1
<1>3. y \in Int /\ Magnitude(y) <= cost
  <2>1. 0 \in Nat OBVIOUS
  <2> HIDE DEF cost
  <2> QED BY <1>1, <1>2, <2>1, DiscountIsBounded
<1>4. x = IF d.duplex THEN y ELSE 0 BY DEF Adjustment
<1> HIDE DEF x, y, cost
<1>5. y <= cost /\ -cost <= y BY <1>2, <1>3 DEF Magnitude
<1>6. x \in Int /\ x <= cost /\ -cost <= x
  <2>1. CASE x = y BY <1>3, <1>5, <2>1
  <2>2. CASE x = 0 BY <1>2, <2>2
  <2> QED BY <1>4, <2>1, <2>2
<1> QED BY <1>2, <1>6 DEF x, cost

LEMMA AdjustedUnfolds ==
  ASSUME NEW t, NEW u, Usage(u), PricingRule(RuleFor(t, u)), t.rounding \in Roundings
  PROVE  LET S == DOMAIN u.documents
             f == [i \in S |-> Adjustment(t, RuleFor(t, u), u.documents[i])]
         IN /\ IsFiniteSet(S) /\ \A i \in S : f[i] \in Int /\ u.documents[i].sides \in Nat
            /\ Adjusted(t, u) = SumOver(f, S) /\ Adjusted(t, u) \in Int
            /\ Adjusted(t, u) = SumOver(f, DoubleSided(u))
<1> DEFINE S == DOMAIN u.documents
           f == [i \in S |-> Adjustment(t, RuleFor(t, u), u.documents[i])]
           D == DoubleSided(u)
<1>1. PICK k \in Nat : S = 1..k /\ \A i \in 1..k : u.documents[i].sides \in Nat BY DEF Usage
<1>2. IsFiniteSet(S)
  <2>1. 1 \in Int /\ k \in Int OBVIOUS
  <2> QED BY <1>1, <2>1, FS_Interval
<1>3. \A i \in S : f[i] \in Int /\ u.documents[i].sides \in Nat
  BY <1>1, AdjustmentIsBounded
<1>4. Adjusted(t, u) = SumOver(f, S)
  BY DEF Adjusted, duplexAdjustment, Adjustment, Sum
<1>5. D \subseteq S BY DEF DoubleSided
<1>6. \A i \in S \ D : f[i] = 0 BY DEF DoubleSided, Adjustment
<1> HIDE DEF f, S, D
<1>7. SumOver(f, S) \in Int BY <1>2, <1>3, SumIsInt
<1>8. SumOver(f, S) = SumOver(f, D) BY <1>2, <1>3, <1>5, <1>6, SumSkipsNothings
<1> QED BY <1>2, <1>3, <1>4, <1>7, <1>8 DEF f, S, D

\* Only double-sided documents are adjusted, by no more than they cost; one alone is
\* adjusted and rounded as the tariff says.
LEMMA AdjustmentIsFair ==
  ASSUME NEW t, NEW u, Usage(u), PricingRule(RuleFor(t, u)), t.rounding \in Roundings
  PROVE  /\ DuplexSides(u) \in Nat
         /\ Magnitude(Adjusted(t, u)) <= DuplexSides(u) * RuleFor(t, u).unit
         /\ Cardinality(DoubleSided(u)) = 1 =>
              RoundedTo(DuplexSides(u) * RuleFor(t, u).unit * RuleFor(t, u).duplexPoints, t.rounding,
                        Adjusted(t, u))
<1> DEFINE S == DOMAIN u.documents
           D == DoubleSided(u)
           rule == RuleFor(t, u)
           c == rule.unit
           f == [i \in S |-> Adjustment(t, rule, u.documents[i])]
           g == [i \in D |-> u.documents[i].sides]
           h == [i \in D |-> g[i] * c]
           l == [i \in D |-> g[i] * (-c)]
<1>1. /\ IsFiniteSet(S) /\ \A i \in S : f[i] \in Int /\ u.documents[i].sides \in Nat
      /\ Adjusted(t, u) = SumOver(f, D) /\ Adjusted(t, u) \in Int
  BY AdjustedUnfolds
<1>2. c \in Nat /\ -c \in Int /\ rule.duplexPoints \in Int BY DEF PricingRule
<1>3. D \subseteq S /\ \A i \in D : u.documents[i].duplex BY DEF DoubleSided
<1>4. IsFiniteSet(D)
  <2> HIDE DEF S, D, f
  <2> QED BY <1>1, <1>3, FS_Subset
<1>5. DuplexSides(u) = SumOver(g, D) BY DEF DuplexSides, Sum
<1>6. \A i \in D : /\ g[i] \in Nat /\ g[i] \in Int /\ f[i] \in Int
                   /\ h[i] = g[i] * c /\ l[i] = g[i] * (-c) /\ h[i] \in Int /\ l[i] \in Int
                   /\ f[i] <= h[i] /\ l[i] <= f[i]
  <2> TAKE i \in D
  <2>1. i \in S /\ u.documents[i].sides \in Nat /\ f[i] \in Int BY <1>1, <1>3
  <2>2. f[i] = Adjustment(t, rule, u.documents[i]) BY <2>1
  <2>3. LET x == Adjustment(t, rule, u.documents[i])
            cost == u.documents[i].sides * rule.unit
        IN x \in Int /\ cost \in Nat /\ x <= cost /\ -cost <= x
    BY <2>1, AdjustmentIsBounded
  <2>4. g[i] = u.documents[i].sides /\ h[i] = g[i] * c /\ l[i] = g[i] * (-c) OBVIOUS
  <2>5. g[i] * (-c) = -(g[i] * c) /\ g[i] * c \in Nat BY <1>2, <2>1, <2>4
  <2> HIDE DEF f, g, h, l
  <2>6. f[i] <= g[i] * c /\ -(g[i] * c) <= f[i] BY <2>2, <2>3, <2>4
  <2>7. h[i] \in Int /\ l[i] \in Int BY <2>4, <2>5
  <2> QED BY <2>1, <2>4, <2>5, <2>6, <2>7
<1> HIDE DEF f, g, h, l, S
<1>7. SumOver(h, D) = SumOver(g, D) * c /\ SumOver(l, D) = SumOver(g, D) * (-c)
  <2>1. c \in Int BY <1>2
  <2> HIDE DEF c, D
  <2>2. SumOver(h, D) = SumOver(g, D) * c BY <1>4, <1>6, <2>1, SumOfMultiples
  <2>3. SumOver(l, D) = SumOver(g, D) * (-c) BY <1>2, <1>4, <1>6, SumOfMultiples
  <2> QED BY <2>2, <2>3
<1>8. SumOver(f, D) <= SumOver(h, D) BY <1>4, <1>6, SumIsMonotone
<1>9. SumOver(l, D) <= SumOver(f, D) BY <1>4, <1>6, SumIsMonotone
<1>10. SumOver(g, D) \in Nat BY <1>4, <1>6, SumOfNaturals
<1>11. Magnitude(Adjusted(t, u)) <= DuplexSides(u) * c
  <2> DEFINE a == Adjusted(t, u)
             s == DuplexSides(u)
             sc == s * c
  <2>1. a \in Int /\ s \in Nat /\ a <= sc /\ s * (-c) <= a BY <1>1, <1>5, <1>7, <1>8, <1>9, <1>10
  <2>2. sc \in Nat /\ s * (-c) = -sc BY <1>2, <2>1
  <2>3. -sc <= a BY <2>1, <2>2
  <2>4. Magnitude(a) <= sc
    <3> HIDE DEF a, sc
    <3> QED BY <2>1, <2>2, <2>3 DEF Magnitude
  <2> QED BY <2>4
<1>12. ASSUME Cardinality(D) = 1
       PROVE  RoundedTo(DuplexSides(u) * c * rule.duplexPoints, t.rounding, Adjusted(t, u))
  <2>1. PICK i : D = {i}
    <3> HIDE DEF D
    <3> QED BY <1>4, <1>12, FS_Singleton
  <2>2. i \in D /\ D \ {i} = {} BY <2>1
  <2>3. SumOver(f, D) = f[i] + SumOver(f, D \ {i}) /\ SumOver(g, D) = g[i] + SumOver(g, D \ {i})
    <3> HIDE DEF D
    <3> QED BY <1>4, <1>6, <2>2, SumTakesOut
  <2>4. SumOver(f, D) = f[i] /\ SumOver(g, D) = g[i]
    <3> HIDE DEF D
    <3>1. SumOver(f, D \ {i}) = 0 /\ SumOver(g, D \ {i}) = 0 BY <2>2, SumOfNothing
    <3>2. f[i] \in Int /\ g[i] \in Int BY <1>6, <2>2
    <3> QED BY <2>3, <3>1, <3>2
  <2>5. i \in S /\ u.documents[i].duplex /\ u.documents[i].sides = g[i] BY <1>3, <2>2 DEF g
  <2>6. f[i] = applyBasisPoints(g[i] * c, rule.duplexPoints, t.rounding)
    BY <2>5 DEF f, Adjustment
  <2>7. g[i] * c \in Int BY <1>2, <1>6, <2>2
  <2>8. RoundedTo(g[i] * c * rule.duplexPoints, t.rounding, f[i])
    <3> DEFINE gc == g[i] * c
    <3>1. gc \in Int /\ f[i] = applyBasisPoints(gc, rule.duplexPoints, t.rounding) BY <2>6, <2>7
    <3>2. RoundedTo(gc * rule.duplexPoints, t.rounding, f[i])
      <4> HIDE DEF gc, rule
      <4> QED BY <1>2, <3>1, AppliedIsRounded DEF rule
    <3> QED BY <3>2
  <2> QED BY <1>1, <1>5, <2>4, <2>8
<1> QED BY <1>5, <1>10, <1>11, <1>12

\* A side more of one document.
LEMMA OneMoreAdjusted ==
  ASSUME NEW t, NEW u, Usage(u), PricingRule(RuleFor(t, u)), t.rounding \in Roundings,
         NEW w, Usage(w), w.paperSize = u.paperSize, DOMAIN w.documents = DOMAIN u.documents,
         NEW i \in DOMAIN u.documents,
         w.documents[i].duplex = u.documents[i].duplex,
         w.documents[i].sides = u.documents[i].sides + 1,
         \A j \in DOMAIN u.documents : j # i => w.documents[j] = u.documents[j]
  PROVE  Adjusted(t, w) \in Int /\ Adjusted(t, u) - RuleFor(t, u).unit <= Adjusted(t, w)
<1> DEFINE S == DOMAIN u.documents
           rule == RuleFor(t, u)
           f == [j \in S |-> Adjustment(t, rule, u.documents[j])]
           g == [j \in S |-> Adjustment(t, rule, w.documents[j])]
<1>1. RuleFor(t, w) = rule BY DEF RuleFor
<1>2. /\ IsFiniteSet(S) /\ \A j \in S : f[j] \in Int /\ u.documents[j].sides \in Nat
      /\ Adjusted(t, u) = SumOver(f, S) /\ Adjusted(t, u) \in Int
  BY AdjustedUnfolds
<1>3. /\ \A j \in S : g[j] \in Int
      /\ Adjusted(t, w) = SumOver(g, S) /\ Adjusted(t, w) \in Int
  <2>1. PricingRule(RuleFor(t, w)) BY <1>1
  <2> QED BY <1>1, <2>1, AdjustedUnfolds
<1>4. \A j \in S \ {i} : g[j] = f[j] OBVIOUS
<1>5. f[i] - rule.unit <= g[i]
  <2> DEFINE a == u.documents[i].sides * rule.unit
             b == w.documents[i].sides * rule.unit
             x == applyBasisPoints(a, rule.duplexPoints, t.rounding)
             y == applyBasisPoints(b, rule.duplexPoints, t.rounding)
  <2>1. rule.unit \in Nat /\ rule.duplexPoints \in -Scale .. Scale BY DEF PricingRule
  <2>2. a \in Nat /\ b = a + rule.unit
    <3> DEFINE s == u.documents[i].sides
               c == rule.unit
    <3>1. s \in Nat /\ c \in Nat /\ w.documents[i].sides = s + 1 BY <1>2, <2>1
    <3> HIDE DEF s, c
    <3>2. (s + 1) * c = s * c + c /\ s * c \in Nat BY <3>1
    <3>3. a = s * c /\ b = (s + 1) * c BY <3>1 DEF s, c
    <3> QED BY <3>2, <3>3 DEF c
  <2>3. f[i] = (IF u.documents[i].duplex THEN x ELSE 0) /\ g[i] = (IF u.documents[i].duplex THEN y ELSE 0)
    BY DEF Adjustment
  <2>4. x - rule.unit <= y
    <3> HIDE DEF a, b, rule
    <3> QED BY <2>1, <2>2, DiscountIsBounded
  <2>5. (f[i] = x /\ g[i] = y) \/ (f[i] = 0 /\ g[i] = 0)
    <3> HIDE DEF x, y, f, g, rule
    <3> QED BY <2>3
  <2>6. ASSUME NEW c \in Nat PROVE 0 - c <= 0 OBVIOUS
  <2> HIDE DEF x, y, f, g, rule
  <2> QED BY <2>1, <2>4, <2>5, <2>6
<1>6. rule.unit \in Int BY DEF PricingRule
<1> HIDE DEF f, g, S, rule
<1>7. i \in S /\ f[i] \in Int /\ g[i] \in Int BY <1>2, <1>3 DEF S
<1>8. SumOver(f, S) = f[i] + SumOver(f, S \ {i}) BY <1>2, <1>7, SumTakesOut
<1>9. SumOver(g, S) = g[i] + SumOver(g, S \ {i}) BY <1>2, <1>3, <1>7, SumTakesOut
<1>10. IsFiniteSet(S \ {i}) BY <1>2, FS_Subset
<1>11. SumOver(f, S \ {i}) = SumOver(g, S \ {i}) BY <1>4, <1>10, SumsAgree
<1>12. SumOver(f, S \ {i}) \in Int BY <1>2, <1>10, SumIsInt
<1> DEFINE z == SumOver(f, S \ {i})
<1>13. Adjusted(t, u) = f[i] + z /\ Adjusted(t, w) = g[i] + z /\ z \in Int
  BY <1>2, <1>3, <1>8, <1>9, <1>11, <1>12
<1>14. Adjusted(t, u) - rule.unit <= Adjusted(t, w)
  <2> HIDE DEF z
  <2> QED BY <1>5, <1>6, <1>7, <1>13
<1> QED BY <1>3, <1>14 DEF rule

LEMMA PartsAreNumbers ==
  ASSUME NEW t, PricingRuleSet(t), NEW u, Usage(u), HasRule(t, u.paperSize)
  PROVE  /\ PricingRule(RuleFor(t, u)) /\ t.rounding \in Roundings
         /\ Printed(t, u) \in Nat /\ Adjusted(t, u) \in Int /\ Floored(t, u) \in Nat
         /\ Floored(t, u) = LET x == Printed(t, u) + Adjusted(t, u) + RuleFor(t, u).fee
                            IN IF x < 0 THEN 0 ELSE x
         /\ Subtotal(t, u) \in Nat /\ Floored(t, u) <= Subtotal(t, u)
         /\ Early(t) => RuleFor(t, u).minimum <= Subtotal(t, u)
         /\ ~Early(t) => Subtotal(t, u) = Floored(t, u)
         /\ Taxed(t, u) \in Nat /\ Totalled(t, u) \in Nat
         /\ Subtotal(t, u) + Taxed(t, u) <= Totalled(t, u) /\ RuleFor(t, u).minimum <= Totalled(t, u)
         /\ Early(t) => Totalled(t, u) = Subtotal(t, u) + Taxed(t, u)
<1> DEFINE rule == RuleFor(t, u)
           x == Printed(t, u) + Adjusted(t, u) + rule.fee
<1>1. PricingRule(rule) BY RuleIsListed DEF RuleFor
<1>2. t.rounding \in Roundings BY DEF PricingRuleSet, Roundings
<1>3. rule.unit \in Nat /\ rule.fee \in Nat /\ rule.minimum \in Nat /\ rule.taxPoints \in Nat
  BY <1>1 DEF PricingRule
<1>4. Adjusted(t, u) \in Int BY <1>1, <1>2, AdjustedUnfolds
<1>5. u.sides \in Nat BY DEF Usage
<1>6. Printed(t, u) \in Nat BY <1>3, <1>5 DEF Printed
<1>7. x \in Int BY <1>3, <1>4, <1>6
<1>8. Floored(t, u) = IF x < 0 THEN 0 ELSE x
  <2>1. Floored(t, u) = Max({x, 0}) BY DEF Floored
  <2> HIDE DEF x
  <2> QED BY <1>7, <2>1, LargerOfTwo
<1> HIDE DEF x, rule
<1>9. Floored(t, u) \in Nat BY <1>7, <1>8
<1>10. Subtotal(t, u) = IF Early(t) /\ Floored(t, u) < rule.minimum THEN rule.minimum ELSE Floored(t, u)
  <2>1. Max({Floored(t, u), rule.minimum}) = IF Floored(t, u) < rule.minimum THEN rule.minimum ELSE Floored(t, u)
    BY <1>3, <1>9, LargerOfTwo
  <2> QED BY <2>1 DEF Subtotal, rule
<1>11. /\ Subtotal(t, u) \in Nat /\ Floored(t, u) <= Subtotal(t, u)
       /\ Early(t) => rule.minimum <= Subtotal(t, u)
       /\ ~Early(t) => Subtotal(t, u) = Floored(t, u)
  BY <1>3, <1>9, <1>10
<1>12. Taxed(t, u) \in Nat
  <2>1. Taxed(t, u) = applyBasisPoints(Subtotal(t, u), rule.taxPoints, t.rounding) BY DEF Taxed, rule
  <2>2. Subtotal(t, u) <= Subtotal(t, u) BY <1>11
  <2> QED BY <1>2, <1>3, <1>11, <2>1, <2>2, TaxIsMonotone
<1> DEFINE y == Subtotal(t, u) + Taxed(t, u)
<1>13. y \in Nat BY <1>11, <1>12
<1>14. Totalled(t, u) = IF ~Early(t) /\ y < rule.minimum THEN rule.minimum ELSE y
  <2>1. Max({y, rule.minimum}) = IF y < rule.minimum THEN rule.minimum ELSE y
    <3> HIDE DEF y
    <3> QED BY <1>3, <1>13, LargerOfTwo
  <2> QED BY <2>1 DEF Totalled, rule
<1>15. /\ Totalled(t, u) \in Nat /\ y <= Totalled(t, u) /\ rule.minimum <= Totalled(t, u)
       /\ Early(t) => Totalled(t, u) = y
  <2>1. Early(t) => rule.minimum <= y
    <3>1. Early(t) => rule.minimum <= Subtotal(t, u) BY <1>11
    <3> QED BY <1>3, <1>11, <1>12, <3>1
  <2> HIDE DEF y
  <2>2. CASE Early(t) BY <1>3, <1>13, <1>14, <2>1, <2>2
  <2>3. CASE ~Early(t) BY <1>3, <1>13, <1>14, <2>3
  <2> QED BY <2>2, <2>3
<1> QED BY <1>1, <1>2, <1>4, <1>6, <1>8, <1>9, <1>11, <1>12, <1>15 DEF rule, x

\* The usage of a revision, as the pricing reads it.
RevisionUsage(n, k) ==
  /\ k \in Nat /\ DOMAIN n.files = 1..k /\ n.sides \in Nat
  /\ \A i \in 1..k : n.files[i].sides \in Nat
LEMMA UsageOfRevision ==
  ASSUME NEW n, NEW k, RevisionUsage(n, k)
  PROVE  LET u == usageOf(n)
         IN /\ Usage(u) /\ DOMAIN u.documents = 1..k /\ u.sides = n.sides /\ u.paperSize = n.paperSize
            /\ \A i \in 1..k : LET w == WithOneMore(u, i)
                               IN /\ Usage(w) /\ w.paperSize = u.paperSize /\ w.sides = u.sides + 1
                                  /\ DOMAIN w.documents = 1..k
                                  /\ w.documents[i].duplex = u.documents[i].duplex
                                  /\ w.documents[i].sides = u.documents[i].sides + 1
                                  /\ \A j \in 1..k : j # i => w.documents[j] = u.documents[j]
<1> DEFINE u == usageOf(n)
           d == [i \in 1..k |-> [duplex |-> n.files[i].duplex # "SIMPLEX", sides |-> n.files[i].sides]]
<1>1. u = [paperSize |-> n.paperSize, documents |-> d, sides |-> n.sides, sheets |-> n.sheets]
  BY DEF usageOf, readStoredDocumentUsage, RevisionUsage
<1>2. DOMAIN d = 1..k /\ \A i \in 1..k : DOMAIN d[i] = {"duplex", "sides"} /\ d[i].sides \in Nat
  BY DEF RevisionUsage
<1> HIDE DEF u, d
<1>3. u.documents = d /\ u.sides = n.sides /\ u.paperSize = n.paperSize BY <1>1
<1>4. Usage(u) BY <1>2, <1>3 DEF Usage, RevisionUsage
<1>5. ASSUME NEW i \in 1..k
      PROVE  LET w == WithOneMore(u, i)
             IN /\ Usage(w) /\ w.paperSize = u.paperSize /\ w.sides = u.sides + 1
                /\ DOMAIN w.documents = 1..k
                /\ w.documents[i].duplex = u.documents[i].duplex
                /\ w.documents[i].sides = u.documents[i].sides + 1
                /\ \A j \in 1..k : j # i => w.documents[j] = u.documents[j]
  <2> DEFINE w == WithOneMore(u, i)
             e == [d EXCEPT ![i].sides = @ + 1]
  <2>0. DOMAIN u = {"paperSize", "documents", "sides", "sheets"} BY <1>1
  <2>1. w.documents = e /\ w.sides = n.sides + 1 /\ w.paperSize = n.paperSize
    <3>1. w.documents = [u.documents EXCEPT ![i].sides = @ + 1] BY <2>0 DEF WithOneMore
    <3>2. w.sides = u.sides + 1 BY <2>0 DEF WithOneMore
    <3>3. w.paperSize = u.paperSize BY <2>0 DEF WithOneMore
    <3> QED BY <1>3, <3>1, <3>2, <3>3
  <2>2. /\ DOMAIN e = 1..k /\ e[i].duplex = d[i].duplex /\ e[i].sides = d[i].sides + 1
        /\ \A j \in 1..k : j # i => e[j] = d[j]
    BY <1>2
  <2> HIDE DEF e, w
  <2>3. w.documents = e /\ w.sides = n.sides + 1 /\ w.paperSize = n.paperSize BY <2>1
  <2>4. \A j \in 1..k : e[j].sides \in Nat
    <3> TAKE j \in 1..k
    <3>1. d[i].sides \in Nat /\ d[j].sides \in Nat BY <1>2
    <3>2. CASE j = i BY <2>2, <3>1, <3>2
    <3>3. CASE j # i BY <2>2, <3>1, <3>3
    <3> QED BY <3>2, <3>3
  <2>5. Usage(w)
    <3>1. n.sides + 1 \in Nat BY DEF RevisionUsage
    <3> QED BY <2>2, <2>3, <2>4, <3>1 DEF Usage, RevisionUsage
  <2> QED BY <1>3, <2>2, <2>3, <2>5 DEF w
<1> QED BY <1>2, <1>3, <1>4, <1>5 DEF u

\* What PriceIsFair says of one quote.
Fair(t, u, price) ==
  LET rule == RuleFor(t, u)
  IN /\ price.subtotal = Max({price.print + price.duplex + price.fee, 0})
          + IF Early(t) THEN price.minimum ELSE 0
     /\ price.total = price.subtotal + price.tax
          + IF t.minimumApplication = "AFTER_TAX" THEN price.minimum ELSE 0
     /\ price.minimum >= 0 /\ price.total >= rule.minimum
     /\ RoundedTo(price.subtotal * rule.taxPoints, t.rounding, price.tax)
     /\ Magnitude(price.duplex) <= DuplexSides(u) * rule.unit
     /\ Cardinality(DoubleSided(u)) = 1 =>
          RoundedTo(DuplexSides(u) * rule.unit * rule.duplexPoints, t.rounding, price.duplex)

LEMMA QuoteIsFair ==
  ASSUME NEW t, PricingRuleSet(t), NEW u, Usage(u), calculateQuote(t, u).stored
  PROVE  Fair(t, u, calculateQuote(t, u))
<1> DEFINE q == calculateQuote(t, u)
           rule == RuleFor(t, u)
           floored == Floored(t, u)
           subtotal == Subtotal(t, u)
           tax == Taxed(t, u)
           total == Totalled(t, u)
           after == t.minimumApplication = "AFTER_TAX"
           early == Early(t)
<1>1. /\ assertUsage(u) /\ HasRule(t, u.paperSize)
      /\ q.print = Printed(t, u) /\ q.duplex = Adjusted(t, u) /\ q.fee = rule.fee
      /\ q.minimum = IF early THEN subtotal - floored ELSE total - (subtotal + tax)
      /\ q.subtotal = subtotal /\ q.tax = tax /\ q.total = total
  BY QuoteUnfolds
<1>2. /\ PricingRule(rule) /\ t.rounding \in Roundings /\ Adjusted(t, u) \in Int
      /\ floored \in Nat /\ subtotal \in Nat /\ floored <= subtotal
      /\ ~early => subtotal = floored
      /\ tax \in Nat /\ total \in Nat
      /\ subtotal + tax <= total /\ rule.minimum <= total
      /\ early => total = subtotal + tax
  BY <1>1, PartsAreNumbers
<1>3. after <=> ~early BY DEF PricingRuleSet, Early
<1>4. floored = Max({q.print + q.duplex + q.fee, 0}) BY <1>1 DEF Floored
<1>5. rule.minimum \in Nat /\ rule.taxPoints \in Int /\ subtotal \in Int BY <1>2 DEF PricingRule
<1>6. RoundedTo(subtotal * rule.taxPoints, t.rounding, tax)
  <2>1. tax = applyBasisPoints(subtotal, rule.taxPoints, t.rounding) BY DEF Taxed
  <2> HIDE DEF subtotal, rule, tax
  <2> QED BY <1>2, <1>5, <2>1, AppliedIsRounded
<1>7. /\ Magnitude(q.duplex) <= DuplexSides(u) * rule.unit
      /\ Cardinality(DoubleSided(u)) = 1 =>
          RoundedTo(DuplexSides(u) * rule.unit * rule.duplexPoints, t.rounding, q.duplex)
  BY <1>1, <1>2, AdjustmentIsFair
<1> HIDE DEF q, rule, floored, subtotal, tax, total, after, early
<1>8. q.subtotal = floored + IF early THEN q.minimum ELSE 0
  BY <1>1, <1>2
<1>9. q.total = q.subtotal + q.tax + IF after THEN q.minimum ELSE 0
  BY <1>1, <1>2, <1>3
<1>10. q.minimum >= 0 /\ q.total >= rule.minimum
  BY <1>1, <1>2, <1>5
<1>11. RoundedTo(q.subtotal * rule.taxPoints, t.rounding, q.tax) BY <1>1, <1>6
<1>12. q.subtotal = Max({q.print + q.duplex + q.fee, 0}) + IF early THEN q.minimum ELSE 0
  BY <1>4, <1>8
<1> QED BY <1>7, <1>9, <1>10, <1>11, <1>12 DEF Fair, q, rule, after, early

\* One side more never lowers the total.
LEMMA MoreCostsNoLess ==
  ASSUME NEW t, PricingRuleSet(t), NEW n, NEW k, RevisionUsage(n, k), calculateQuote(t, usageOf(n)).stored,
         NEW i \in 1..k, calculateQuote(t, WithOneMore(usageOf(n), i)).stored
  PROVE  calculateQuote(t, WithOneMore(usageOf(n), i)).total >= calculateQuote(t, usageOf(n)).total
<1> DEFINE u == usageOf(n)
           w == WithOneMore(u, i)
           rule == RuleFor(t, u)
<1>1. /\ Usage(u) /\ DOMAIN u.documents = 1..k
      /\ Usage(w) /\ w.paperSize = u.paperSize /\ w.sides = u.sides + 1
      /\ DOMAIN w.documents = 1..k
      /\ w.documents[i].duplex = u.documents[i].duplex
      /\ w.documents[i].sides = u.documents[i].sides + 1
      /\ \A j \in 1..k : j # i => w.documents[j] = u.documents[j]
  BY UsageOfRevision
<1>2. /\ calculateQuote(t, u).total = Totalled(t, u) /\ HasRule(t, u.paperSize)
      /\ calculateQuote(t, w).total = Totalled(t, w) /\ HasRule(t, w.paperSize)
  BY QuoteUnfolds
<1> HIDE DEF u, w, rule
<1>3. RuleFor(t, w) = rule /\ RuleFor(t, u) = rule BY <1>1 DEF RuleFor, rule
<1> DEFINE x == Printed(t, u) + Adjusted(t, u) + rule.fee
           y == Printed(t, w) + Adjusted(t, w) + rule.fee
<1>4. /\ PricingRule(rule) /\ t.rounding \in Roundings
      /\ Printed(t, u) \in Nat /\ Adjusted(t, u) \in Int /\ Floored(t, u) \in Nat
      /\ Floored(t, u) = IF x < 0 THEN 0 ELSE x
  BY <1>1, <1>2, <1>3, PartsAreNumbers
<1>5. /\ Printed(t, w) \in Nat /\ Adjusted(t, w) \in Int /\ Floored(t, w) \in Nat
      /\ Floored(t, w) = IF y < 0 THEN 0 ELSE y
  BY <1>1, <1>2, <1>3, PartsAreNumbers
<1>6. rule.unit \in Nat /\ rule.fee \in Nat /\ rule.minimum \in Nat /\ rule.taxPoints \in Nat
  BY <1>4 DEF PricingRule
<1>7. Adjusted(t, u) - rule.unit <= Adjusted(t, w)
  BY <1>1, <1>3, <1>4, OneMoreAdjusted
<1>8. Printed(t, w) = Printed(t, u) + rule.unit
  <2> DEFINE s == u.sides
             c == rule.unit
  <2>1. s \in Nat /\ c \in Nat /\ w.sides = s + 1 BY <1>1, <1>6 DEF Usage
  <2>2. Printed(t, u) = s * c /\ Printed(t, w) = (s + 1) * c BY <1>3, <2>1 DEF Printed
  <2> HIDE DEF s, c
  <2>3. (s + 1) * c = s * c + c BY <2>1
  <2> QED BY <2>2, <2>3 DEF c
<1>9. Floored(t, u) <= Floored(t, w)
  <2>1. x \in Int /\ y \in Int /\ x <= y BY <1>4, <1>5, <1>6, <1>7, <1>8
  <2> HIDE DEF x, y
  <2> QED BY <1>4, <1>5, <2>1
<1>10. Subtotal(t, u) \in Nat /\ Subtotal(t, w) \in Nat BY <1>1, <1>2, PartsAreNumbers
<1>11. Subtotal(t, u) <= Subtotal(t, w)
  <2> DEFINE a == Floored(t, u)
             b == Floored(t, w)
             m == rule.minimum
  <2>1. /\ Subtotal(t, u) = IF Early(t) THEN Max({a, m}) ELSE a
        /\ Subtotal(t, w) = IF Early(t) THEN Max({b, m}) ELSE b
    BY <1>3 DEF Subtotal
  <2>2. a \in Int /\ b \in Int /\ m \in Int /\ a <= b BY <1>4, <1>5, <1>6, <1>9
  <2> HIDE DEF a, b, m
  <2>3. Max({a, m}) = (IF a < m THEN m ELSE a) /\ Max({b, m}) = (IF b < m THEN m ELSE b)
    BY <2>2, LargerOfTwo
  <2>4. CASE Early(t)
    <3>1. Subtotal(t, u) = (IF a < m THEN m ELSE a) /\ Subtotal(t, w) = (IF b < m THEN m ELSE b)
      BY <2>1, <2>3, <2>4
    <3> QED BY <2>2, <3>1
  <2>5. CASE ~Early(t) BY <2>1, <2>2, <2>5
  <2> QED BY <2>4, <2>5
<1>12. /\ Taxed(t, u) \in Nat /\ Taxed(t, w) \in Nat /\ Taxed(t, u) <= Taxed(t, w)
  BY <1>3, <1>4, <1>6, <1>10, <1>11, TaxIsMonotone DEF Taxed
<1>13. Totalled(t, u) <= Totalled(t, w)
  <2> DEFINE a == Subtotal(t, u) + Taxed(t, u)
             b == Subtotal(t, w) + Taxed(t, w)
             m == rule.minimum
  <2>1. /\ Totalled(t, u) = IF Early(t) THEN a ELSE Max({a, m})
        /\ Totalled(t, w) = IF Early(t) THEN b ELSE Max({b, m})
    BY <1>3 DEF Totalled
  <2>2. a \in Int /\ b \in Int /\ m \in Int /\ a <= b BY <1>6, <1>10, <1>11, <1>12
  <2> HIDE DEF a, b, m
  <2>3. Max({a, m}) = (IF a < m THEN m ELSE a) /\ Max({b, m}) = (IF b < m THEN m ELSE b)
    BY <2>2, LargerOfTwo
  <2>4. CASE ~Early(t)
    <3>1. Totalled(t, u) = (IF a < m THEN m ELSE a) /\ Totalled(t, w) = (IF b < m THEN m ELSE b)
      BY <2>1, <2>3, <2>4
    <3> QED BY <2>2, <3>1
  <2>5. CASE Early(t) BY <2>1, <2>2, <2>5
  <2> QED BY <2>4, <2>5
<1>14. Totalled(t, u) \in Nat /\ Totalled(t, w) \in Nat BY <1>1, <1>2, PartsAreNumbers
<1>15. calculateQuote(t, w).total >= calculateQuote(t, u).total BY <1>2, <1>13, <1>14
<1> QED BY <1>15 DEF u, w

-----------------------------------------------------------------------------
(* The steps.                                                              *)

\* Rows already in place are printed as they are stored.
LEMMA FilesStayInPlace ==
  ASSUME NEW s, NEW n \in Nat, DOMAIN s = 1..n, s = [i \in 1..n |-> s[i]],
         \A i \in 1..n : s[i].position = i - 1
  PROVE  Arranged(s, ByPosition) = s
<1> DEFINE IsOrder(p) == IsInjective(p) /\ \A i, j \in DOMAIN s : i < j => ~ByPosition(s[p[j]], s[p[i]])
           o == CHOOSE p \in [DOMAIN s -> DOMAIN s] : IsOrder(p)
           id == [i \in 1..n |-> i]
<1>1. id \in [DOMAIN s -> DOMAIN s] /\ IsOrder(id)
  <2>1. \A i \in 1..n : id[i] = i OBVIOUS
  <2>2. id \in [1..n -> 1..n] OBVIOUS
  <2> HIDE DEF id
  <2>3. IsInjective(id) BY <2>1, <2>2 DEF IsInjective
  <2>4. ASSUME NEW i \in 1..n, NEW j \in 1..n, i < j PROVE ~ByPosition(s[id[j]], s[id[i]])
    <3>1. ~(j - 1 < i - 1) BY <2>4
    <3> QED BY <2>1, <3>1 DEF ByPosition
  <2> QED BY <2>2, <2>3, <2>4
<1>2. o \in [DOMAIN s -> DOMAIN s] /\ IsOrder(o)
  <2> HIDE DEF IsOrder, id
  <2> QED BY <1>1
<1>3. Arranged(s, ByPosition) = [i \in DOMAIN s |-> s[o[i]]] BY DEF Arranged
<1> HIDE DEF o, id
<1>4. o \in [1..n -> 1..n] BY <1>2
<1>5. ASSUME NEW i \in 1..n, NEW j \in 1..n, i < j PROVE o[i] < o[j]
  <2>1. o[i] \in 1..n /\ o[j] \in 1..n BY <1>4
  <2>2. o[i] # o[j] BY <1>2, <1>4, <1>5 DEF IsInjective
  <2>3. ~ByPosition(s[o[j]], s[o[i]]) BY <1>2, <1>5
  <2>4. ~(o[j] - 1 < o[i] - 1) BY <2>1, <2>3 DEF ByPosition
  <2> DEFINE a == o[i]
             b == o[j]
  <2>5. a \in Int /\ b \in Int /\ a # b /\ ~(b - 1 < a - 1) BY <2>1, <2>2, <2>4
  <2>6. a < b
    <3> HIDE DEF a, b
    <3> QED BY <2>5
  <2> QED BY <2>6
<1>6. \A i \in 1..n : o[i] = i BY <1>4, <1>5, OrderKeepsPlace
<1>7. Arranged(s, ByPosition) = [i \in 1..n |-> s[i]]
  <2>1. \A i \in 1..n : s[o[i]] = s[i] BY <1>6
  <2> QED BY <1>3, <2>1
<1> QED BY <1>7

LEMMA OfferedCopies == ASSUME declared \in Declarations PROVE Offered.maxCopies \in Int
<1>1. declared.maxCopies \in Int /\ MaxCopies \in Int BY PrintRulesAssumption
<1>2. mapDeviceCapabilities(declared).maxCopies \in Int
  BY <1>1 DEF mapDeviceCapabilities, Smaller
<1> QED BY <1>1, <1>2 DEF Offered, readPrinterCapabilities, Smaller

\* Both sides are offered only if the device said it can.
LEMMA OfferedSides ==
  ASSUME "LONG_EDGE" \in Offered.duplexModes
  PROVE  declared.duplexUnit \/ "two_sided_long_edge" \in declared.sides
<1> DEFINE sides == mapTerms(declared.sides, SideTerms)
           modes == mapDeviceCapabilities(declared).duplexModes
<1>1. "LONG_EDGE" \in modes BY DEF Offered, readPrinterCapabilities
<1>2. modes = IF sides # {} THEN sides
              ELSE {"SIMPLEX"} \cup IF declared.duplexUnit THEN {"LONG_EDGE"} ELSE {}
  BY DEF mapDeviceCapabilities
<1>3. "LONG_EDGE" \in sides => "two_sided_long_edge" \in declared.sides
  <2>1. DOMAIN SideTerms = {"one_sided", "two_sided_long_edge"} BY DEF SideTerms
  <2>2. SideTerms["one_sided"] = "SIMPLEX" BY DEF SideTerms
  <2> QED BY <2>1, <2>2 DEF mapTerms
<1> HIDE DEF sides, modes
<1> QED BY <1>1, <1>2, <1>3

\* What holds of the world, of the settings, of the request just accepted, of
\* the quote, of the job and of the last refusal.  A revision is what the
\* normalisation made of some request, for the documents and the device of then;
\* while nothing has changed, those are the ones of now.
WorldHolds ==
  /\ declared \in Declarations /\ version \in Nat /\ moved \in 0..MaxWorldChanges
  /\ updates \in 0..MaxUpdates /\ Files(documents)
SettingsHold ==
  /\ settings.stored \in BOOLEAN
  /\ settings.stored => \E r \in Requests : \E f, c : CameFrom(settings, r, f, c)
  /\ settings.stored /\ moved = 0 => \E r \in Requests : CameFrom(settings, r, documents, Offered)
RequestHolds ==
  request # NotStored => request \in Requests /\ CameFrom(settings, request, documents, Offered)
QuoteHolds ==
  /\ quote.stored \in BOOLEAN
  /\ quote.stored => /\ settings.stored /\ quote.tariff \in RuleSets /\ quote.price.stored
                     /\ quote.price = calculateQuote(quote.tariff, usageOf(settings))
JobHolds ==
  /\ job.stored \in BOOLEAN
  /\ job.stored => /\ settings.stored /\ job.documents = settings.files /\ job.sides = settings.sides
                   /\ Ids(settings.files) \subseteq DOMAIN documents
RefusalHolds == refusal \in RulesAnswers /\ refusal # "PRICING_USAGE_INVALID"
RulesInv == WorldHolds /\ SettingsHold /\ RequestHolds /\ QuoteHolds /\ JobHolds /\ RefusalHolds

LEMMA NothingHolds == NotStored.stored = FALSE BY DEF NotStored

LEMMA RulesInvInit == ASSUME RulesInit PROVE RulesInv
<1>1. /\ declared \in Declarations /\ version = 1 /\ documents \in FileSets /\ moved = 0 /\ updates = 0
      /\ request = NotStored /\ settings = NotStored /\ quote = NotStored /\ job = NotStored
      /\ refusal = "none"
  BY DEF RulesInit
<1>2. Files(documents) BY <1>1, PrintRulesAssumption DEF Files
<1>3. 0 \in 0..MaxWorldChanges /\ 0 \in 0..MaxUpdates BY PrintRulesAssumption
<1>4. WorldHolds BY <1>1, <1>2, <1>3 DEF WorldHolds
<1>5. SettingsHold BY <1>1, NothingHolds DEF SettingsHold
<1>6. RequestHolds BY <1>1 DEF RequestHolds
<1>7. QuoteHolds BY <1>1, NothingHolds DEF QuoteHolds
<1>8. JobHolds BY <1>1, NothingHolds DEF JobHolds
<1>9. RefusalHolds BY <1>1 DEF RefusalHolds, RulesAnswers
<1> QED BY <1>4, <1>5, <1>6, <1>7, <1>8, <1>9 DEF RulesInv

\* A refusal leaves what holds.
LEMMA RefusalKeeps ==
  ASSUME RulesInv, NEW code \in RulesAnswers, code # "PRICING_USAGE_INVALID", Refuse(code),
         updates' \in 0..MaxUpdates
  PROVE  RulesInv'
<1>1. UNCHANGED <<declared, version, documents, settings, quote, job, moved>>
      /\ refusal' = code /\ request' = NotStored
  BY DEF Refuse
<1>2. Offered' = Offered BY <1>1 DEF Offered
<1>3. WorldHolds' BY <1>1 DEF WorldHolds, RulesInv
<1>4. SettingsHold' BY <1>1, <1>2 DEF SettingsHold, RulesInv
<1>5. RequestHolds' BY <1>1 DEF RequestHolds
<1>6. QuoteHolds' BY <1>1 DEF QuoteHolds, RulesInv
<1>7. JobHolds' BY <1>1 DEF JobHolds, RulesInv
<1>8. RefusalHolds' BY <1>1 DEF RefusalHolds, RulesAnswers
<1> QED BY <1>3, <1>4, <1>5, <1>6, <1>7, <1>8 DEF RulesInv

\* updateSettings: what is stored is what the normalisation made of the request.
LEMMA UpdateKeeps ==
  ASSUME RulesInv, NEW input \in Requests, updateSettings(input)
  PROVE  RulesInv'
<1> DEFINE n == normalizePrintSettings(input, documents, Offered)
<1>1. /\ ~job.stored /\ updates < MaxUpdates /\ updates' = updates + 1
      /\ \/ ~n.stored /\ Refuse(n.error)
         \/ /\ n.stored /\ settings' = n /\ request' = input
            /\ quote' = NotStored /\ refusal' = "none" /\ moved' = 0
            /\ UNCHANGED <<declared, version, documents, job>>
  BY DEF updateSettings
<1>2. updates' \in 0..MaxUpdates
  BY <1>1, PrintRulesAssumption DEF RulesInv, WorldHolds
<1>3. \/ n.stored = TRUE
      \/ \E e \in SettingsErrors : n = RuleRefused(e)
  <2>1. CASE Accepted(input, documents, Offered)
    <3>1. n = RevisionOf(input, documents, Offered) BY <2>1, NormalizeUnfolds
    <3> QED BY <3>1 DEF RevisionOf
  <2>2. CASE ~Accepted(input, documents, Offered) BY <2>2, NormalizeUnfolds
  <2> QED BY <2>1, <2>2
<1>4. SettingsRequest(input) /\ Files(documents) /\ Offered.maxCopies \in Int
  BY PrintRulesAssumption, OfferedCopies DEF RulesInv, WorldHolds
<1>5. ASSUME ~n.stored, Refuse(n.error) PROVE RulesInv'
  <2>1. PICK e \in SettingsErrors : n = RuleRefused(e) BY <1>3, <1>5
  <2>2. n.error = e BY <2>1 DEF RuleRefused
  <2>3. e \in RulesAnswers /\ e # "PRICING_USAGE_INVALID"
    BY DEF SettingsErrors, SelectionErrors, SegmentErrors, RulesAnswers
  <2>4. Refuse(e) BY <1>5, <2>2
  <2> QED BY <1>2, <2>3, <2>4, RefusalKeeps
<1>6. ASSUME n.stored, settings' = n, request' = input, quote' = NotStored, refusal' = "none", moved' = 0,
             UNCHANGED <<declared, version, documents, job>>
      PROVE  RulesInv'
  <2>1. Offered' = Offered BY <1>6 DEF Offered
  <2>2. CameFrom(n, input, documents, Offered) BY <1>4, <1>6 DEF CameFrom
  <2>3. n.stored = TRUE
    <3>1. SUFFICES ASSUME NEW e, n = RuleRefused(e) PROVE FALSE BY <1>3
    <3>2. n.stored = FALSE BY <3>1 DEF RuleRefused
    <3> QED BY <3>2, <1>6
  <2> HIDE DEF n
  <2>4. WorldHolds'
    <3>1. 0 \in 0..MaxWorldChanges BY PrintRulesAssumption
    <3> QED BY <3>1, <1>2, <1>6 DEF RulesInv, WorldHolds
  <2>5. SettingsHold'
    <3>1. CameFrom(settings', input, documents', Offered') BY <2>1, <2>2, <1>6
    <3>2. settings'.stored \in BOOLEAN BY <2>3, <1>6
    <3> QED BY <3>1, <3>2 DEF SettingsHold
  <2>6. RequestHolds' BY <2>1, <2>2, <1>6 DEF RequestHolds
  <2>7. QuoteHolds' BY <1>6, NothingHolds DEF QuoteHolds
  <2>8. JobHolds' BY <1>1, <1>6 DEF JobHolds, RulesInv
  <2>9. RefusalHolds' BY <1>6 DEF RefusalHolds, RulesAnswers
  <2> QED BY <2>4, <2>5, <2>6, <2>7, <2>8, <2>9 DEF RulesInv
<1> HIDE DEF n
<1> QED BY <1>1, <1>5, <1>6

\* createQuote: the price is the one the usage of the current revision has.
LEMMA QuoteKeeps ==
  ASSUME RulesInv, NEW ruleSet \in RuleSets, createQuote(ruleSet)
  PROVE  RulesInv'
<1> DEFINE u == usageOf(settings)
           q == calculateQuote(ruleSet, u)
           new == [stored |-> TRUE, tariff |-> ruleSet, manifest |-> settings.manifest, price |-> q]
<1>1. /\ settings.stored /\ ~quote.stored /\ request' = NotStored /\ UNCHANGED updates
      /\ \/ Refuse("DOCUMENTS_CHANGED")
         \/ ~q.stored /\ Refuse(q.error)
         \/ /\ q.stored /\ quote' = new /\ refusal' = "none"
            /\ UNCHANGED <<declared, version, documents, settings, job, moved>>
  BY DEF createQuote
<1>2. updates' \in 0..MaxUpdates BY <1>1 DEF RulesInv, WorldHolds
<1>3. PICK r \in Requests : \E f, c : CameFrom(settings, r, f, c)
  BY <1>1 DEF RulesInv, SettingsHold
<1>4. PICK f, c : CameFrom(settings, r, f, c) BY <1>3
<1>5. assertUsage(u) BY <1>4, RevisionIsSound
<1>6. ~q.stored => q.error \in RulesAnswers /\ q.error # "PRICING_USAGE_INVALID"
  <2> HIDE DEF u
  <2>1. ~q.stored => /\ q.error \in {"PRICING_USAGE_INVALID", "PRICING_RULE_NOT_FOUND",
                                     "PRICING_AMOUNT_LIMIT_EXCEEDED"}
                     /\ q.error # "PRICING_USAGE_INVALID"
    BY <1>5, QuoteUnfolds
  <2> HIDE DEF q
  <2> QED BY <2>1 DEF RulesAnswers
<1> HIDE DEF q
<1>7. ASSUME q.stored, quote' = new, refusal' = "none",
             UNCHANGED <<declared, version, documents, settings, job, moved>>
      PROVE  RulesInv'
  <2>1. Offered' = Offered BY <1>7 DEF Offered
  <2>2. WorldHolds' BY <1>2, <1>7 DEF RulesInv, WorldHolds
  <2>3. SettingsHold' BY <2>1, <1>7 DEF SettingsHold, RulesInv
  <2>4. RequestHolds' BY <1>1 DEF RequestHolds
  <2>5. QuoteHolds'
    <3>1. usageOf(settings') = u BY <1>7
    <3>2. quote'.stored = TRUE /\ quote'.tariff = ruleSet /\ quote'.price = q BY <1>7
    <3> HIDE DEF u, new
    <3>3. quote'.price = calculateQuote(quote'.tariff, usageOf(settings')) BY <3>1, <3>2 DEF q
    <3> QED BY <3>2, <3>3, <1>1, <1>7 DEF QuoteHolds
  <2>6. JobHolds' BY <1>7 DEF JobHolds, RulesInv
  <2>7. RefusalHolds' BY <1>7 DEF RefusalHolds, RulesAnswers
  <2> QED BY <2>2, <2>3, <2>4, <2>5, <2>6, <2>7 DEF RulesInv
<1>8. ASSUME Refuse("DOCUMENTS_CHANGED") PROVE RulesInv' BY <1>2, <1>8, RefusalKeeps DEF RulesAnswers
<1>9. ASSUME ~q.stored, Refuse(q.error) PROVE RulesInv' BY <1>2, <1>6, <1>9, RefusalKeeps
<1> HIDE DEF new
<1> QED BY <1>1, <1>7, <1>8, <1>9

\* createPrintJob: the rows are printed as the revision stores them.
LEMMA JobKeeps ==
  ASSUME RulesInv, createPrintJob
  PROVE  RulesInv'
<1> DEFINE new == [stored |-> TRUE, sides |-> settings.sides, sheets |-> settings.sheets,
                   documents |-> Arranged(settings.files, ByPosition)]
<1>1. /\ quote.stored /\ ~job.stored /\ request' = NotStored /\ UNCHANGED updates
      /\ \/ Refuse("PRINT_ARTIFACT_UNAVAILABLE")
         \/ /\ resolveDocuments /\ job' = new /\ refusal' = "none"
            /\ UNCHANGED <<declared, version, documents, settings, quote, moved>>
  BY DEF createPrintJob
<1>2. updates' \in 0..MaxUpdates BY <1>1 DEF RulesInv, WorldHolds
<1>3. settings.stored BY <1>1 DEF RulesInv, QuoteHolds
<1>4. PICK r \in Requests : \E f, c : CameFrom(settings, r, f, c)
  BY <1>3 DEF RulesInv, SettingsHold
<1>5. PICK f, c : CameFrom(settings, r, f, c) BY <1>4
<1>6. Arranged(settings.files, ByPosition) = settings.files
  <2> DEFINE k == Len(r.order)
             s == settings.files
  <2>1. /\ DOMAIN s = 1..k /\ k \in Nat /\ s = [i \in 1..k |-> s[i]]
        /\ \A i \in 1..k : RowFrom(s[i], r, i, f, c)
    BY <1>5, RevisionRows
  <2>2. \A i \in 1..k : s[i].position = i - 1 BY <2>1 DEF RowFrom
  <2> HIDE DEF k, s
  <2>3. Arranged(s, ByPosition) = s BY <2>1, <2>2, FilesStayInPlace
  <2> QED BY <2>3 DEF s
<1>7. ASSUME resolveDocuments, job' = new, refusal' = "none",
             UNCHANGED <<declared, version, documents, settings, quote, moved>>
      PROVE  RulesInv'
  <2>1. Offered' = Offered BY <1>7 DEF Offered
  <2>2. WorldHolds' BY <1>2, <1>7 DEF RulesInv, WorldHolds
  <2>3. SettingsHold' BY <2>1, <1>7 DEF SettingsHold, RulesInv
  <2>4. RequestHolds' BY <1>1 DEF RequestHolds
  <2>5. QuoteHolds' BY <1>7 DEF QuoteHolds, RulesInv
  <2>6. JobHolds'
    <3>1. Ids(settings.files) \subseteq DOMAIN documents BY <1>7 DEF Ids, resolveDocuments
    <3>2. job'.stored = TRUE /\ job'.documents = settings.files /\ job'.sides = settings.sides
      BY <1>6, <1>7
    <3> QED BY <3>1, <3>2, <1>3, <1>7 DEF JobHolds
  <2>7. RefusalHolds' BY <1>7 DEF RefusalHolds, RulesAnswers
  <2> QED BY <2>2, <2>3, <2>4, <2>5, <2>6, <2>7 DEF RulesInv
<1>8. ASSUME Refuse("PRINT_ARTIFACT_UNAVAILABLE") PROVE RulesInv' BY <1>2, <1>8, RefusalKeeps DEF RulesAnswers
<1> HIDE DEF new
<1> QED BY <1>1, <1>7, <1>8

\* The device declares something else: the revision is no longer the one of now.
LEMMA ReportKeeps ==
  ASSUME RulesInv, NEW d \in Declarations, reportCapabilities(d)
  PROVE  RulesInv'
<1>1. /\ moved < MaxWorldChanges /\ ~job.stored /\ declared' = d /\ moved' = moved + 1
      /\ request' = NotStored /\ UNCHANGED <<documents, settings, quote, job, refusal, updates>>
  BY DEF reportCapabilities
<1>2. version' \in Nat
  BY DEF reportCapabilities, RulesInv, WorldHolds
<1>3. moved' \in 0..MaxWorldChanges /\ moved' # 0
  BY <1>1, PrintRulesAssumption DEF RulesInv, WorldHolds
<1>4. WorldHolds' BY <1>1, <1>2, <1>3 DEF RulesInv, WorldHolds
<1>5. SettingsHold' BY <1>1, <1>3 DEF SettingsHold, RulesInv
<1>6. RequestHolds' BY <1>1 DEF RequestHolds
<1>7. QuoteHolds' BY <1>1 DEF QuoteHolds, RulesInv
<1>8. JobHolds' BY <1>1 DEF JobHolds, RulesInv
<1>9. RefusalHolds' BY <1>1 DEF RefusalHolds, RulesInv
<1> QED BY <1>4, <1>5, <1>6, <1>7, <1>8, <1>9 DEF RulesInv

\* A document goes: no job names it yet.
LEMMA DeleteKeeps ==
  ASSUME RulesInv, NEW id \in DOMAIN documents, deleteDocument(id)
  PROVE  RulesInv'
<1>1. /\ moved < MaxWorldChanges /\ ~job.stored /\ moved' = moved + 1 /\ request' = NotStored
      /\ documents' = [other \in DOMAIN documents \ {id} |-> documents[other]]
      /\ UNCHANGED <<declared, version, settings, quote, job, refusal, updates>>
  BY DEF deleteDocument
<1>2. moved' \in 0..MaxWorldChanges /\ moved' # 0
  BY <1>1, PrintRulesAssumption DEF RulesInv, WorldHolds
<1>3. Files(documents')
  <2>1. IsFiniteSet(DOMAIN documents) /\ \A x \in DOMAIN documents : documents[x] \in Nat \ {0}
    BY DEF RulesInv, WorldHolds, Files
  <2>2. DOMAIN documents' = DOMAIN documents \ {id} BY <1>1
  <2>3. IsFiniteSet(DOMAIN documents')
    <3>1. DOMAIN documents' \subseteq DOMAIN documents BY <2>2
    <3> QED BY <2>1, <3>1, FS_Subset
  <2>4. \A x \in DOMAIN documents' : documents'[x] \in Nat \ {0} BY <1>1, <2>1, <2>2
  <2> QED BY <2>3, <2>4 DEF Files
<1>4. WorldHolds' BY <1>1, <1>2, <1>3 DEF RulesInv, WorldHolds
<1>5. SettingsHold' BY <1>1, <1>2 DEF SettingsHold, RulesInv
<1>6. RequestHolds' BY <1>1 DEF RequestHolds
<1>7. QuoteHolds' BY <1>1 DEF QuoteHolds, RulesInv
<1>8. JobHolds' BY <1>1 DEF JobHolds, RulesInv
<1>9. RefusalHolds' BY <1>1 DEF RefusalHolds, RulesInv
<1> QED BY <1>4, <1>5, <1>6, <1>7, <1>8, <1>9 DEF RulesInv

\* The settings and their price are retired together.
LEMMA RetireKeeps ==
  ASSUME RulesInv, retireSessionPricing
  PROVE  RulesInv'
<1>1. /\ ~job.stored /\ settings' = NotStored /\ quote' = NotStored /\ request' = NotStored
      /\ UNCHANGED <<declared, version, documents, job, refusal, moved, updates>>
  BY DEF retireSessionPricing
<1>2. WorldHolds' BY <1>1 DEF RulesInv, WorldHolds
<1>3. SettingsHold' BY <1>1, NothingHolds DEF SettingsHold
<1>4. RequestHolds' BY <1>1 DEF RequestHolds
<1>5. QuoteHolds' BY <1>1, NothingHolds DEF QuoteHolds
<1>6. JobHolds' BY <1>1 DEF JobHolds, RulesInv
<1>7. RefusalHolds' BY <1>1 DEF RefusalHolds, RulesInv
<1> QED BY <1>2, <1>3, <1>4, <1>5, <1>6, <1>7 DEF RulesInv

\* The invariant is kept by every step.
LEMMA RulesInvStep == ASSUME RulesInv, [RulesNext]_rulesVars PROVE RulesInv'
<1>1. ASSUME NEW input \in Requests, updateSettings(input) PROVE RulesInv' BY <1>1, UpdateKeeps
<1>2. ASSUME NEW ruleSet \in RuleSets, createQuote(ruleSet) PROVE RulesInv' BY <1>2, QuoteKeeps
<1>3. ASSUME createPrintJob PROVE RulesInv' BY <1>3, JobKeeps
<1>4. ASSUME NEW d \in Declarations, reportCapabilities(d) PROVE RulesInv' BY <1>4, ReportKeeps
<1>5. ASSUME NEW id \in DOMAIN documents, deleteDocument(id) PROVE RulesInv' BY <1>5, DeleteKeeps
<1>6. ASSUME retireSessionPricing PROVE RulesInv' BY <1>6, RetireKeeps
<1>7. ASSUME UNCHANGED rulesVars PROVE RulesInv'
  <2>1. UNCHANGED <<declared, version, documents, request, settings, quote, job, refusal, moved, updates>>
    BY <1>7 DEF rulesVars
  <2>2. Offered' = Offered BY <2>1 DEF Offered
  <2>3. WorldHolds' BY <2>1 DEF RulesInv, WorldHolds
  <2>4. SettingsHold' BY <2>1, <2>2 DEF SettingsHold, RulesInv
  <2>5. RequestHolds' BY <2>1, <2>2 DEF RequestHolds, RulesInv
  <2>6. QuoteHolds' BY <2>1 DEF QuoteHolds, RulesInv
  <2>7. JobHolds' BY <2>1 DEF JobHolds, RulesInv
  <2>8. RefusalHolds' BY <2>1 DEF RefusalHolds, RulesInv
  <2> QED BY <2>3, <2>4, <2>5, <2>6, <2>7, <2>8 DEF RulesInv
<1>8. CASE RulesNext BY <1>1, <1>2, <1>3, <1>4, <1>5, <1>6, <1>8 DEF RulesNext
<1> QED BY <1>7, <1>8

\* A revision's ranges are the runs of what the request accepted asked for.
LEMMA AskedIsStored ==
  ASSUME RulesInv, request # NotStored, NEW i \in DOMAIN settings.files
  PROVE  LET settingsRow == settings.files[i]
         IN IsRuns(settingsRow.ranges, PagesAsked(Selection(request, settingsRow.fileId).text, settingsRow.pageCount))
<1>1. CameFrom(settings, request, documents, Offered) BY DEF RulesInv, RequestHolds
<1>2. i \in DOMAIN request.order BY <1>1, RevisionRows
<1>3. RowFrom(settings.files[i], request, i, documents, Offered) BY <1>1, <1>2, RevisionRows
<1> QED BY <1>3 DEF RowFrom

\* While nothing has changed, the stored text reads back as the same manifest.
LEMMA NothingIsStale ==
  ASSUME RulesInv, settings.stored, moved = 0
  PROVE  assertManifestUnchanged(settings)
<1>1. PICK r \in Requests : CameFrom(settings, r, documents, Offered)
  BY DEF RulesInv, SettingsHold
<1>2. normalizePrintSettings(readSelections(settings), documents, Offered) = settings
  BY <1>1, RevisionReread
<1> QED BY <1>2 DEF assertManifestUnchanged

\* A job's rows are in their places, of documents that are there, each printed
\* the way the device can.
LEMMA JobIsAsPriced ==
  ASSUME RulesInv, job.stored
  PROVE  /\ SidesOf(job.documents) = job.sides
         /\ \A i \in DOMAIN job.documents :
              /\ job.documents[i].position = i - 1
              /\ job.documents[i].fileId \in DOMAIN documents
              /\ moved = 0 /\ job.documents[i].duplex = "LONG_EDGE" =>
                   declared.duplexUnit \/ "two_sided_long_edge" \in declared.sides
<1>1. /\ settings.stored /\ job.documents = settings.files /\ job.sides = settings.sides
      /\ Ids(settings.files) \subseteq DOMAIN documents
  BY DEF RulesInv, JobHolds
<1>2. PICK r \in Requests : \E f, c : CameFrom(settings, r, f, c)
  BY <1>1 DEF RulesInv, SettingsHold
<1>3. PICK f, c : CameFrom(settings, r, f, c) BY <1>2
<1>4. settings.sides = SidesOf(settings.files) BY <1>3, RevisionIsSound DEF RevisionNumbers
<1>5. ASSUME NEW i \in DOMAIN settings.files
      PROVE  settings.files[i].position = i - 1 /\ settings.files[i].fileId \in DOMAIN documents
  <2>1. RowFrom(settings.files[i], r, i, f, c) BY <1>3, RevisionRows
  <2>2. settings.files[i].position = i - 1 BY <2>1 DEF RowFrom
  <2>3. settings.files[i].fileId \in Ids(settings.files) BY DEF Ids
  <2> QED BY <1>1, <2>2, <2>3
<1>6. ASSUME NEW i \in DOMAIN settings.files, moved = 0, settings.files[i].duplex = "LONG_EDGE"
      PROVE  declared.duplexUnit \/ "two_sided_long_edge" \in declared.sides
  <2>1. PICK q \in Requests : CameFrom(settings, q, documents, Offered)
    BY <1>1, <1>6 DEF RulesInv, SettingsHold
  <2>2. RowFrom(settings.files[i], q, i, documents, Offered) BY <2>1, RevisionRows
  <2>3. "LONG_EDGE" \in Offered.duplexModes BY <1>6, <2>2 DEF RowFrom
  <2> QED BY <2>3, OfferedSides
<1> QED BY <1>1, <1>4, <1>5, <1>6

LEMMA InvCountsOnce == ASSUME RulesInv PROVE PagesAreCountedOnce
<1>1. ASSUME request # NotStored, NEW i \in DOMAIN settings.files
      PROVE  LET settingsRow == settings.files[i]
             IN IsRuns(settingsRow.ranges, PagesAsked(Selection(request, settingsRow.fileId).text, settingsRow.pageCount))
  BY <1>1, AskedIsStored
<1>2. ASSUME settings.stored
      PROVE  /\ moved = 0 => assertManifestUnchanged(settings)
             /\ settings.sides = SidesOf(settings.files)
             /\ 2 * settings.sheets >= settings.sides /\ settings.sheets <= settings.sides
  <2>1. PICK r \in Requests : \E f, c : CameFrom(settings, r, f, c)
    BY <1>2 DEF RulesInv, SettingsHold
  <2>2. RevisionNumbers(settings) BY <2>1, RevisionIsSound
  <2>3. moved = 0 => assertManifestUnchanged(settings) BY <1>2, NothingIsStale
  <2>4. 2 * settings.sheets >= settings.sides BY <2>2 DEF RevisionNumbers
  <2> QED BY <2>2, <2>3, <2>4 DEF RevisionNumbers
<1>3. refusal # "PRICING_USAGE_INVALID" BY DEF RulesInv, RefusalHolds
<1> QED BY <1>1, <1>2, <1>3, JobIsAsPriced DEF PagesAreCountedOnce

LEMMA InvIsFair == ASSUME RulesInv PROVE PriceIsFair
<1>1. SUFFICES ASSUME quote.stored PROVE PriceIsFair
  BY DEF PriceIsFair
<1> DEFINE u == usageOf(settings)
           t == quote.tariff
<1>2. settings.stored /\ t \in RuleSets /\ quote.price.stored /\ quote.price = calculateQuote(t, u)
  BY <1>1 DEF RulesInv, QuoteHolds
<1>3. PricingRuleSet(t) BY <1>2, PrintRulesAssumption
<1>4. PICK r \in Requests : \E f, c : CameFrom(settings, r, f, c)
  BY <1>2 DEF RulesInv, SettingsHold
<1>5. PICK f, c : CameFrom(settings, r, f, c) BY <1>4
<1> DEFINE k == Len(r.order)
<1>6. RevisionUsage(settings, k)
  <2>1. /\ DOMAIN settings.files = 1..k /\ k \in Nat
        /\ \A i \in 1..k : StoredRow(settings.files[i])
    BY <1>5, RevisionRows
  <2>2. settings.sides \in Nat BY <1>5, RevisionIsSound DEF RevisionNumbers
  <2>3. \A i \in 1..k : settings.files[i].sides \in Nat BY <2>1, RowNumbers
  <2> HIDE DEF k
  <2> QED BY <2>1, <2>2, <2>3 DEF RevisionUsage
<1> HIDE DEF k
<1>7. Usage(u) /\ DOMAIN u.documents = 1..k BY <1>6, UsageOfRevision
<1> HIDE DEF u, t
<1>8. Fair(t, u, quote.price)
  BY <1>2, <1>3, <1>7, QuoteIsFair
<1>9. ASSUME NEW i \in DOMAIN u.documents, calculateQuote(t, WithOneMore(u, i)).stored
      PROVE  calculateQuote(t, WithOneMore(u, i)).total >= quote.price.total
  <2>1. i \in 1..k BY <1>7, <1>9
  <2> QED BY <1>2, <1>3, <1>6, <1>9, <2>1, MoreCostsNoLess DEF u
<1> QED BY <1>8, <1>9 DEF PriceIsFair, Fair, RuleFor, Early, DoubleSided, DuplexSides, u, t

\* RULES.  Whatever the device declares, the customer sends and the tariff says:
\* what is asked for, stored, priced and printed is one set of pages, and its
\* price is fair.
THEOREM PrintsAreAsPriced == RulesSpec => []PrintsAsPriced
<1>1. RulesInit => RulesInv BY RulesInvInit
<1>2. RulesInv /\ [RulesNext]_rulesVars => RulesInv' BY RulesInvStep
<1>3. RulesInv => PrintsAsPriced
  <2>1. RulesInv => RulesTypeOK
    BY DEF RulesInv, WorldHolds, SettingsHold, QuoteHolds, JobHolds, RefusalHolds, RulesTypeOK
  <2> QED BY <2>1, InvCountsOnce, InvIsFair DEF PrintsAsPriced
<1> QED BY <1>1, <1>2, <1>3, PTL DEF RulesSpec
=============================================================================
