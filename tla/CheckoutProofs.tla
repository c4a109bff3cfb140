---------------------------- MODULE CheckoutProofs ----------------------------
(***************************************************************************)
(* The money and the price of one print session, for every set of          *)
(* documents, every lifetime and timeout, and any number of revisions,     *)
(* quotes and payments: types, one payable price that follows the          *)
(* settings, and every capture either applied once or owed back once.      *)
(***************************************************************************)
EXTENDS Checkout, SequenceTheorems, FiniteSetTheorems, TLAPS

Quotes == [rev : 1 .. MaxRevisions,
           status : {"ACTIVE", "INVALIDATED", "EXPIRED", "CONSUMED"}, expiresAt : Nat]
Payments == [quote : 1 .. MaxQuotes,
             status : OPEN_STATUSES \cup FAILURE_STATUSES \cup {"CAPTURED"},
             applied : BOOLEAN, expiresAt : Nat]
Sessions == [state : SessionStates, activeQuote : 0 .. MaxQuotes, rev : 0 .. MaxRevisions]
Obligations == [payment : 1 .. MaxPayments, reason : {"LATE_CAPTURE", "AMOUNT_MISMATCH"}]

PaidStates == {"PAID", "PRINTING"}
EndedStates == {"CANCELED", "EXPIRED"}

-----------------------------------------------------------------------------
(* The inductive invariant *)

\* Only a reported capture of the quoted total is applied, and a payment whose
\* capture was reported is never open again.
CaptureInv ==
  \A p \in DOMAIN payments :
    /\ payments[p].applied => payments[p].status = "CAPTURED" /\ inbox[p] = "QUOTED"
    /\ inbox[p] # "NONE" => payments[p].status \in {"CAPTURED", "DECLINED"}

\* One payment fulfils the session, and only it.
AppliedInv ==
  /\ \A p \in DOMAIN payments : payments[p].applied => session.state \in PaidStates
  /\ \A p, q \in DOMAIN payments : payments[p].applied /\ payments[q].applied => p = q
  /\ session.state \in PaidStates => \E p \in DOMAIN payments : payments[p].applied

\* What is owed back, and why.
Owed(p) == inbox[p] \in {"QUOTED", "OTHER"} /\ ~payments[p].applied
Reason(p) == IF inbox[p] = "OTHER" THEN "AMOUNT_MISMATCH" ELSE "LATE_CAPTURE"

RefundInv ==
  /\ \A r \in refunds : /\ r.payment \in DOMAIN payments
                        /\ Owed(r.payment) /\ r.reason = Reason(r.payment)
  /\ \A p \in DOMAIN payments :
       Owed(p) => [payment |-> p, reason |-> Reason(p)] \in refunds

CheckoutInv ==
  /\ CheckoutTypeOK /\ PriceFollowsSettings
  /\ CaptureInv /\ AppliedInv /\ RefundInv /\ EndedSessionOwesNothing

-----------------------------------------------------------------------------
(* Rows *)

\* A finite function on an initial segment of the naturals is a sequence.
LEMMA Segments ==
  ASSUME NEW S, NEW n \in Nat, NEW f \in [1 .. n -> S]
  PROVE  f \in Seq(S) /\ Len(f) = n /\ DOMAIN f = 1 .. n
OBVIOUS

\* Writing one row of a table.
LEMMA OneRow ==
  ASSUME NEW S, NEW s \in Seq(S), NEW p \in DOMAIN s, NEW row \in S
  PROVE  /\ [s EXCEPT ![p] = row] \in Seq(S)
         /\ Len([s EXCEPT ![p] = row]) = Len(s)
         /\ DOMAIN [s EXCEPT ![p] = row] = DOMAIN s
         /\ [s EXCEPT ![p] = row][p] = row
         /\ \A i \in DOMAIN s \ {p} : [s EXCEPT ![p] = row][i] = s[i]
BY LenProperties, ExceptSeq

\* Adding a row to a table.
LEMMA NewRow ==
  ASSUME NEW S, NEW s \in Seq(S), NEW row \in S
  PROVE  /\ Append(s, row) \in Seq(S)
         /\ Len(Append(s, row)) = Len(s) + 1 /\ Len(s) \in Nat
         /\ DOMAIN Append(s, row) = DOMAIN s \cup {Len(s) + 1}
         /\ Len(s) + 1 \notin DOMAIN s
         /\ Append(s, row)[Len(s) + 1] = row
         /\ \A i \in DOMAIN s : Append(s, row)[i] = s[i]
<1>1. Append(s, row) \in Seq(S) /\ Len(Append(s, row)) = Len(s) + 1
      /\ DOMAIN s = 1 .. Len(s) /\ Len(s) \in Nat
  BY LenProperties, AppendProperties
<1>2. DOMAIN Append(s, row) = 1 .. Len(s) + 1
  BY <1>1, LenProperties
<1> QED
  BY <1>1, <1>2, AppendProperties

\* The tables by the names used here.
LEMMA Tables ==
  ASSUME CheckoutTypeOK
  PROVE  /\ quotes \in Seq(Quotes) /\ quotes \in [1 .. Len(quotes) -> Quotes]
         /\ Len(quotes) \in Nat /\ DOMAIN quotes = 1 .. Len(quotes)
         /\ payments \in Seq(Payments) /\ payments \in [1 .. Len(payments) -> Payments]
         /\ Len(payments) \in Nat /\ DOMAIN payments = 1 .. Len(payments)
         /\ DOMAIN inbox = DOMAIN payments
         /\ inbox \in Seq(Amounts \cup {"NONE"}) /\ Len(inbox) = Len(payments)
         /\ session \in Sessions /\ refunds \subseteq Obligations
         /\ now \in Nat
         /\ Len(quotes) <= MaxQuotes /\ Len(payments) <= MaxPayments
         /\ MaxQuotes \in Nat /\ MaxPayments \in Nat /\ MaxRevisions \in Nat
<1>1. /\ quotes \in Seq(Quotes) /\ payments \in Seq(Payments)
      /\ inbox \in Seq(Amounts \cup {"NONE"}) /\ Len(inbox) = Len(payments)
  BY DEF CheckoutTypeOK, Quotes, Payments
<1>2. /\ session \in Sessions /\ refunds \subseteq Obligations /\ now \in Nat
      /\ Len(quotes) <= MaxQuotes /\ Len(payments) <= MaxPayments
  BY CheckoutAssumption DEF CheckoutTypeOK, Sessions, Obligations
<1>3. /\ Len(quotes) \in Nat /\ quotes \in [1 .. Len(quotes) -> Quotes]
      /\ DOMAIN quotes = 1 .. Len(quotes)
  BY <1>1, LenProperties
<1>4. /\ Len(payments) \in Nat /\ payments \in [1 .. Len(payments) -> Payments]
      /\ DOMAIN payments = 1 .. Len(payments)
  BY <1>1, LenProperties
<1>5. DOMAIN inbox = 1 .. Len(inbox)
  BY <1>1, LenProperties
<1> QED
  BY <1>1, <1>2, <1>3, <1>4, <1>5, CheckoutAssumption

\* Which sessions may still end.
LEMMA Transitions ==
  ASSUME NEW s \in SessionStates, NEW t \in EndedStates, t \in allowedTransitions[s]
  PROVE  s \in EXPIRABLE_STATES
BY DEF SessionStates, EndedStates, allowedTransitions, EXPIRABLE_STATES, UPLOADABLE_SESSION_STATES

\* Retiring the active quote.
LEMMA Invalidated ==
  ASSUME CheckoutTypeOK
  PROVE  /\ InvalidatedQuotes \in Seq(Quotes) /\ Len(InvalidatedQuotes) = Len(quotes)
         /\ DOMAIN InvalidatedQuotes = DOMAIN quotes
         /\ \A q \in DOMAIN quotes : /\ InvalidatedQuotes[q].status # "ACTIVE"
                                     /\ InvalidatedQuotes[q].rev = quotes[q].rev
<1>1. /\ quotes \in [1 .. Len(quotes) -> Quotes] /\ Len(quotes) \in Nat
      /\ DOMAIN quotes = 1 .. Len(quotes)
  BY Tables
<1>2. ASSUME NEW q \in DOMAIN quotes
      PROVE  LET r == IF quotes[q].status = "ACTIVE"
                      THEN [quotes[q] EXCEPT !.status = "INVALIDATED"] ELSE quotes[q]
             IN r \in Quotes /\ r.status # "ACTIVE" /\ r.rev = quotes[q].rev
  BY <1>1 DEF Quotes
<1>3. InvalidatedQuotes \in [1 .. Len(quotes) -> Quotes]
  BY <1>1, <1>2 DEF InvalidatedQuotes
<1>4. InvalidatedQuotes \in Seq(Quotes) /\ Len(InvalidatedQuotes) = Len(quotes)
      /\ DOMAIN InvalidatedQuotes = DOMAIN quotes
  BY <1>1, <1>3, Segments
<1> QED
  BY <1>2, <1>4 DEF InvalidatedQuotes

\* Closing the open payments of a session that was not paid.
LEMMA Released ==
  ASSUME CheckoutTypeOK, \A p \in DOMAIN payments : ~payments[p].applied
  PROVE  /\ ReleasedPayments \in Seq(Payments) /\ Len(ReleasedPayments) = Len(payments)
         /\ DOMAIN ReleasedPayments = DOMAIN payments
         /\ \A p \in DOMAIN payments :
              /\ ReleasedPayments[p].status \notin OPEN_STATUSES
              /\ ~ReleasedPayments[p].applied
              /\ ~IsOpen(p) => ReleasedPayments[p] = payments[p]
<1>1. /\ payments \in [1 .. Len(payments) -> Payments] /\ Len(payments) \in Nat
      /\ DOMAIN payments = 1 .. Len(payments)
  BY Tables
<1> DEFINE Row(p) == IF IsOpen(p) THEN [payments[p] EXCEPT !.status = "CANCELED"] ELSE payments[p]
<1>2. ReleasedPayments = [p \in DOMAIN payments |-> Row(p)]
  BY DEF ReleasedPayments
<1>3. ASSUME NEW p \in DOMAIN payments
      PROVE  /\ Row(p) \in Payments /\ Row(p).status \notin OPEN_STATUSES
             /\ Row(p).applied = payments[p].applied
             /\ ~IsOpen(p) => Row(p) = payments[p]
  BY <1>1 DEF Payments, IsOpen, OPEN_STATUSES, FAILURE_STATUSES
<1> HIDE DEF Row
<1>4. ReleasedPayments \in [1 .. Len(payments) -> Payments]
  BY <1>1, <1>2, <1>3
<1>5. /\ ReleasedPayments \in Seq(Payments) /\ Len(ReleasedPayments) = Len(payments)
      /\ DOMAIN ReleasedPayments = DOMAIN payments
  BY <1>1, <1>4, Segments
<1> QED
  BY <1>2, <1>3, <1>5
-----------------------------------------------------------------------------
(* Steps that leave the payments alone *)

\* A session stays where it is, moves between the stages before a payment, or
\* starts to print.
StateMoves ==
  \/ session'.state = session.state
  \/ {session.state, session'.state} \subseteq UPLOADABLE_SESSION_STATES
  \/ session.state = "PAID" /\ session'.state = "PRINTING"

\* The price is retired, or nobody touches it.
PriceMoves ==
  \/ quotes' = InvalidatedQuotes
  \/ quotes' = quotes /\ session'.rev = session.rev /\ session'.activeQuote = session.activeQuote

\* What the rest of the rows must keep to.
RestOK ==
  /\ now' \in 0 .. MaxTime /\ docs' \in [Docs -> DocumentStates]
  /\ asked' \subseteq Docs /\ removing' \subseteq Docs
  /\ revisions' \in Seq(SUBSET Docs) /\ Len(revisions') <= MaxRevisions
  /\ doomed' \subseteq 1 .. MaxQuotes

\* Without a move of the payments, the money stays accounted for.
LEMMA MoneyLeftAlone ==
  ASSUME CheckoutInv, UNCHANGED moneyVars,
         session.state \in PaidStates <=> session'.state \in PaidStates
  PROVE  CaptureInv' /\ AppliedInv' /\ RefundInv'
<1>1. payments' = payments /\ inbox' = inbox /\ refunds' = refunds
  BY DEF moneyVars
<1> QED
  BY <1>1 DEF CheckoutInv, CaptureInv, AppliedInv, RefundInv, Owed, Reason

\* A step that moves neither the payments nor, but for retiring it, the price.
LEMMA QuietStep ==
  ASSUME CheckoutInv, UNCHANGED moneyVars, RestOK, session' \in Sessions,
         StateMoves, PriceMoves
  PROVE  CheckoutInv'
<1>1. /\ CheckoutTypeOK /\ PriceFollowsSettings /\ EndedSessionOwesNothing
      /\ payments' = payments /\ inbox' = inbox /\ refunds' = refunds
  BY DEF CheckoutInv, moneyVars
<1>2. /\ quotes' \in Seq(Quotes) /\ Len(quotes') = Len(quotes)
      /\ DOMAIN quotes' = DOMAIN quotes
      /\ \A q \in DOMAIN quotes : quotes'[q].status = "ACTIVE" =>
           /\ quotes[q].status = "ACTIVE" /\ quotes'[q] = quotes[q]
           /\ session'.rev = session.rev /\ session'.activeQuote = session.activeQuote
  BY <1>1, Tables, Invalidated DEF PriceMoves
<1>3. CheckoutTypeOK'
  BY <1>1, <1>2 DEF RestOK, CheckoutTypeOK, Quotes, Sessions
<1>4. PriceFollowsSettings'
  BY <1>1, <1>2 DEF PriceFollowsSettings
<1>5. EndedSessionOwesNothing'
  <2>1. session'.state \in EndedStates => session.state \in EndedStates
    BY DEF StateMoves, EndedStates, UPLOADABLE_SESSION_STATES
  <2> QED
    BY <1>1, <1>2, <2>1 DEF EndedSessionOwesNothing, IsOpen, EndedStates
<1>6. session.state \in PaidStates <=> session'.state \in PaidStates
  BY DEF StateMoves, PaidStates, UPLOADABLE_SESSION_STATES
<1> QED
  BY <1>3, <1>4, <1>5, <1>6, MoneyLeftAlone DEF CheckoutInv

\* A session row after its pricing is retired.
LEMMA UnpricedRow ==
  ASSUME session \in Sessions, NEW clear \in BOOLEAN
  PROVE  /\ Unpriced(session, clear) \in Sessions
         /\ Unpriced(session, clear).state = session.state
         /\ \A s \in SessionStates : /\ [Unpriced(session, clear) EXCEPT !.state = s] \in Sessions
                                     /\ [Unpriced(session, clear) EXCEPT !.state = s].state = s
<1> DEFINE revision == IF clear THEN NoRevision ELSE session.rev
           row == [session EXCEPT !.activeQuote = NoQuote, !.rev = revision]
<1>1. Unpriced(session, clear) = row
  BY DEF Unpriced
<1>2. revision \in 0 .. MaxRevisions /\ NoQuote \in 0 .. MaxQuotes
  BY CheckoutAssumption DEF Sessions, NoRevision, NoQuote
<1> HIDE DEF revision
<1>3. row \in Sessions /\ row.state = session.state
  BY <1>2 DEF Sessions
<1> HIDE DEF row
<1>4. \A s \in SessionStates : [row EXCEPT !.state = s] \in Sessions /\ [row EXCEPT !.state = s].state = s
  BY <1>3 DEF Sessions
<1> QED
  BY <1>1, <1>3, <1>4

\* A document that left takes price and settings with it.
LEMMA Retired ==
  ASSUME session \in Sessions, NEW remaining, RetireSessionPricing(remaining)
  PROVE  session' \in Sessions /\ StateMoves /\ PriceMoves
<1> DEFINE target == IF remaining # {} THEN "FILES_UPLOADED" ELSE "WAITING_FOR_UPLOAD"
           steps == /\ session.state \in {"FILES_UPLOADED", "CONFIGURING"}
                    /\ target \in allowedTransitions[session.state]
           next == IF steps THEN target ELSE session.state
<1>1. /\ session' = [Unpriced(session, TRUE) EXCEPT !.state = next]
      /\ quotes' = InvalidatedQuotes
  BY UnpricedRow DEF RetireSessionPricing
<1>2. next \in SessionStates /\ (next = session.state \/ {session.state, next} \subseteq UPLOADABLE_SESSION_STATES)
  BY DEF Sessions, SessionStates, UPLOADABLE_SESSION_STATES
<1> HIDE DEF next
<1> QED
  BY <1>1, <1>2, UnpricedRow DEF StateMoves, PriceMoves

\* Uploads, removals and the janitor's cleaning.
LEMMA DocumentSafe == ASSUME CheckoutInv, DocumentNext PROVE CheckoutInv'
<1>1. /\ CheckoutTypeOK /\ session \in Sessions
      /\ now \in 0 .. MaxTime /\ docs \in [Docs -> DocumentStates]
      /\ asked \subseteq Docs /\ removing \subseteq Docs
      /\ revisions \in Seq(SUBSET Docs) /\ Len(revisions) <= MaxRevisions
      /\ doomed \subseteq 1 .. MaxQuotes
  BY Tables DEF CheckoutInv, CheckoutTypeOK
<1>2. \A s \in DocumentStates : \A d \in Docs : [docs EXCEPT ![d] = s] \in [Docs -> DocumentStates]
  BY <1>1
<1>3. {"PROCESSING", "READY", "DELETE_PENDING", "DELETING", "DELETED", "REJECTED"} \subseteq DocumentStates
  BY DEF DocumentStates
<1>4. UNCHANGED <<session, quotes>> => session' \in Sessions /\ StateMoves /\ PriceMoves
  BY <1>1 DEF StateMoves, PriceMoves
<1> SUFFICES ASSUME NEW d \in Docs,
                    \/ ReserveUpload(d) \/ CompleteProcessing(d) \/ RejectDocument(d)
                    \/ RemoveDocument(d) \/ FinalizeRejectedDeletion(d)
                    \/ FinalizeDeletion(d) \/ AbandonDeletion(d) \/ CleanPendingFile(d)
             PROVE  CheckoutInv'
  BY DEF DocumentNext
<1>5. CASE ReserveUpload(d) \/ RejectDocument(d)
  BY <1>1, <1>2, <1>3, <1>4, <1>5, QuietStep DEF ReserveUpload, RejectDocument, RestOK
<1>6. CASE CompleteProcessing(d)
  <2>1. /\ session' = [Unpriced(session, TRUE) EXCEPT !.state = "FILES_UPLOADED"]
        /\ quotes' = InvalidatedQuotes /\ session.state \in UPLOADABLE_SESSION_STATES
    BY <1>6 DEF CompleteProcessing
  <2>2. session' \in Sessions /\ StateMoves /\ PriceMoves
    BY <1>1, <2>1, UnpricedRow DEF StateMoves, PriceMoves, SessionStates, UPLOADABLE_SESSION_STATES
  <2>3. RestOK /\ UNCHANGED moneyVars
    BY <1>1, <1>2, <1>3, <1>6 DEF CompleteProcessing, RestOK
  <2> QED
    BY <2>2, <2>3, QuietStep
<1>7. CASE RemoveDocument(d)
  <2>1. docs' \in [Docs -> DocumentStates] /\ asked' \subseteq Docs /\ removing' \subseteq Docs
    BY <1>1, <1>2, <1>3, <1>7 DEF RemoveDocument
  <2>2. UNCHANGED <<now, session, revisions, quotes, doomed, moneyVars>>
    BY <1>7 DEF RemoveDocument
  <2> QED
    BY <1>1, <1>4, <2>1, <2>2, QuietStep DEF RestOK
<1>8. CASE FinalizeRejectedDeletion(d)
  <2>1. RestOK /\ UNCHANGED moneyVars
    BY <1>1, <1>2, <1>3, <1>8 DEF FinalizeRejectedDeletion, RestOK
  <2>2. RetireSessionPricing(In("READY"))
    BY <1>8 DEF FinalizeRejectedDeletion
  <2> QED
    BY <1>1, <2>1, <2>2, Retired, QuietStep
<1>9. CASE FinalizeDeletion(d)
  <2>1. RestOK /\ UNCHANGED moneyVars
    BY <1>1, <1>2, <1>3, <1>9 DEF FinalizeDeletion, RestOK
  <2>2. RetireSessionPricing(In("READY")) \/ UNCHANGED <<session, quotes>>
    BY <1>9 DEF FinalizeDeletion
  <2> QED
    BY <1>1, <1>4, <2>1, <2>2, Retired, QuietStep
<1>10. CASE AbandonDeletion(d)
  <2>1. docs' \in [Docs -> DocumentStates]
    BY <1>1, <1>2, <1>3, <1>10 DEF AbandonDeletion
  <2> QED
    BY <1>1, <1>4, <1>10, <2>1, QuietStep DEF AbandonDeletion, RestOK
<1>11. CASE CleanPendingFile(d)
  <2>1. docs' \in [Docs -> DocumentStates]
    BY <1>1, <1>2, <1>3, <1>11 DEF CleanPendingFile
  <2> QED
    BY <1>1, <1>4, <1>11, <2>1, QuietStep DEF CleanPendingFile, RestOK
<1> QED
  BY <1>5, <1>6, <1>7, <1>8, <1>9, <1>10, <1>11
-----------------------------------------------------------------------------
(* Settings and quotes *)

\* Saving settings retires the price; reading expired quotes changes none.
LEMMA SettingsSafe == ASSUME CheckoutInv, UpdateSettings \/ ReadExpiredQuotes PROVE CheckoutInv'
<1>1. /\ CheckoutTypeOK /\ session \in Sessions /\ DOMAIN quotes = 1 .. Len(quotes)
      /\ Len(quotes) \in Nat /\ Len(quotes) <= MaxQuotes /\ MaxQuotes \in Nat
      /\ now \in 0 .. MaxTime /\ docs \in [Docs -> DocumentStates]
      /\ asked \subseteq Docs /\ removing \subseteq Docs
      /\ revisions \in Seq(SUBSET Docs) /\ Len(revisions) <= MaxRevisions
      /\ Len(revisions) \in Nat /\ MaxRevisions \in Nat
      /\ doomed \subseteq 1 .. MaxQuotes
  BY Tables, LenProperties DEF CheckoutInv, CheckoutTypeOK
<1>2. CASE UpdateSettings
  <2>1. In("READY") \in SUBSET Docs
    BY DEF In
  <2>2. revisions' \in Seq(SUBSET Docs) /\ Len(revisions') = Len(revisions) + 1
        /\ Len(revisions) + 1 \in 0 .. MaxRevisions
    BY <1>1, <1>2, <2>1, AppendProperties DEF UpdateSettings
  <2>3. /\ session' = [Unpriced(session, FALSE) EXCEPT !.state = "CONFIGURING",
                                                       !.rev = Len(revisions) + 1]
        /\ quotes' = InvalidatedQuotes /\ session.state \in {"FILES_UPLOADED", "CONFIGURING"}
        /\ UNCHANGED <<now, documentVars, doomed, moneyVars>>
    BY <1>2 DEF UpdateSettings
  <2>4. Unpriced(session, FALSE) \in Sessions
    BY <1>1, UnpricedRow
  <2>5. session' \in Sessions /\ session'.state = "CONFIGURING"
    BY <2>2, <2>3, <2>4 DEF Sessions, SessionStates
  <2>6. StateMoves /\ PriceMoves
    BY <2>3, <2>5 DEF StateMoves, PriceMoves, UPLOADABLE_SESSION_STATES
  <2>7. RestOK
    BY <1>1, <2>2, <2>3 DEF RestOK, documentVars
  <2> QED
    BY <2>3, <2>5, <2>6, <2>7, QuietStep
<1>3. CASE ReadExpiredQuotes
  <2>1. doomed' \subseteq 1 .. MaxQuotes /\ UNCHANGED <<now, session, documentVars, revisions, quotes, moneyVars>>
    BY <1>1, <1>3 DEF ReadExpiredQuotes
  <2> QED
    BY <1>1, <2>1, QuietStep DEF RestOK, documentVars, StateMoves, PriceMoves
<1> QED
  BY <1>2, <1>3

\* A quote is returned again, or a new one replaces the active one.
LEMMA CreateQuoteSafe == ASSUME CheckoutInv, CreateQuote PROVE CheckoutInv'
<1> DEFINE live == {q \in DOMAIN quotes : /\ quotes[q].status = "ACTIVE"
                                          /\ quotes[q].rev = session.rev
                                          /\ quotes[q].expiresAt > now}
<1>1. /\ CheckoutTypeOK /\ session \in Sessions /\ PriceFollowsSettings
      /\ EndedSessionOwesNothing /\ now \in Nat
      /\ MaxQuotes \in Nat /\ Len(quotes) \in Nat /\ DOMAIN quotes = 1 .. Len(quotes)
  BY Tables DEF CheckoutInv
<1>2. /\ session.state = "CONFIGURING" /\ session.rev \in 1 .. MaxRevisions
      /\ UNCHANGED <<now, docs, asked, removing, revisions, doomed, moneyVars>>
      /\ payments' = payments /\ inbox' = inbox /\ refunds' = refunds
  BY <1>1 DEF CreateQuote, Quotable, documentVars, Sessions, NoRevision, moneyVars
<1>3. RestOK
  BY <1>1, <1>2 DEF RestOK, CheckoutTypeOK
<1>4. CASE live # {}
  <2>1. PICK q \in live : session' = [session EXCEPT !.activeQuote = q]
    BY <1>4 DEF CreateQuote
  <2>2. quotes' = quotes
    BY <1>4 DEF CreateQuote
  <2>3. session' = session
    BY <1>1, <2>1 DEF PriceFollowsSettings, Sessions
  <2> QED
    BY <1>1, <1>2, <1>3, <2>2, <2>3, QuietStep DEF StateMoves, PriceMoves
<1>5. CASE live = {}
  <2> DEFINE expiry == MinOf(now + QuoteTtl, SessionTtl)
             row == [rev |-> session.rev, status |-> "ACTIVE", expiresAt |-> expiry]
             n == Len(quotes) + 1
  <2>1. /\ quotes' = Append(InvalidatedQuotes, row) /\ Len(quotes) < MaxQuotes
        /\ session' = [session EXCEPT !.activeQuote = n]
    BY <1>5 DEF CreateQuote
  <2>2. expiry \in Nat
    BY <1>1, CheckoutAssumption DEF MinOf
  <2> HIDE DEF expiry
  <2>3. row \in Quotes /\ row.status = "ACTIVE" /\ row.rev = session.rev
    BY <1>2, <2>2 DEF Quotes
  <2> HIDE DEF row
  <2>4. /\ InvalidatedQuotes \in Seq(Quotes) /\ Len(InvalidatedQuotes) = Len(quotes)
        /\ DOMAIN InvalidatedQuotes = DOMAIN quotes
        /\ \A q \in DOMAIN quotes : InvalidatedQuotes[q].status # "ACTIVE"
    BY <1>1, Invalidated
  <2>5. /\ quotes' \in Seq(Quotes) /\ Len(quotes') = Len(quotes) + 1
        /\ DOMAIN quotes' = DOMAIN quotes \cup {n} /\ quotes'[n] = row
        /\ \A q \in DOMAIN quotes : quotes'[q].status # "ACTIVE"
    BY <2>1, <2>3, <2>4, NewRow
  <2>6. n \in 0 .. MaxQuotes
    BY <1>1, <2>1
  <2> HIDE DEF n
  <2>7. /\ session' \in Sessions /\ session'.state = session.state
        /\ session'.rev = session.rev /\ session'.activeQuote = n
    BY <1>1, <2>1, <2>6 DEF Sessions
  <2>8. CheckoutTypeOK'
    BY <1>1, <1>2, <1>3, <2>1, <2>5, <2>7
       DEF RestOK, CheckoutTypeOK, Quotes, Sessions
  <2>9. PriceFollowsSettings'
    BY <2>3, <2>5, <2>7 DEF PriceFollowsSettings
  <2>10. EndedSessionOwesNothing'
    BY <1>2, <2>7 DEF EndedSessionOwesNothing
  <2>11. CaptureInv' /\ AppliedInv' /\ RefundInv'
    BY <1>2, <2>7, MoneyLeftAlone
  <2> QED
    BY <2>8, <2>9, <2>10, <2>11 DEF CheckoutInv
<1> QED
  BY <1>4, <1>5

\* The janitor settles the quotes it read as expired, those still active.
LEMMA ExpireQuotesSafe == ASSUME CheckoutInv, ExpireQuotes PROVE CheckoutInv'
<1>1. /\ CheckoutTypeOK /\ session \in Sessions /\ PriceFollowsSettings
      /\ EndedSessionOwesNothing /\ MaxQuotes \in Nat
      /\ quotes \in [1 .. Len(quotes) -> Quotes] /\ Len(quotes) \in Nat
      /\ DOMAIN quotes = 1 .. Len(quotes)
  BY Tables DEF CheckoutInv
<1> DEFINE Row(q) == IF q \in doomed /\ quotes[q].status = "ACTIVE"
                     THEN [quotes[q] EXCEPT !.status = "EXPIRED"] ELSE quotes[q]
           pointer == IF session.activeQuote \in doomed THEN NoQuote ELSE session.activeQuote
<1>2. /\ quotes' = [q \in DOMAIN quotes |-> Row(q)] /\ doomed' = {}
      /\ session' = [session EXCEPT !.activeQuote = pointer]
      /\ UNCHANGED <<now, docs, asked, removing, revisions, moneyVars>>
      /\ payments' = payments /\ inbox' = inbox /\ refunds' = refunds
  BY DEF ExpireQuotes, documentVars, moneyVars
<1>3. ASSUME NEW q \in DOMAIN quotes
      PROVE  /\ Row(q) \in Quotes /\ Row(q).rev = quotes[q].rev
             /\ Row(q).status = "ACTIVE" => quotes[q].status = "ACTIVE" /\ q \notin doomed
  BY <1>1 DEF Quotes
<1> HIDE DEF Row
<1>4. quotes' \in [1 .. Len(quotes) -> Quotes]
  BY <1>1, <1>2, <1>3
<1>5. quotes' \in Seq(Quotes) /\ Len(quotes') = Len(quotes) /\ DOMAIN quotes' = DOMAIN quotes
  BY <1>1, <1>4, Segments
<1>6. /\ session' \in Sessions /\ session'.state = session.state
      /\ session'.rev = session.rev /\ session'.activeQuote = pointer
  <2>1. pointer \in 0 .. MaxQuotes
    BY <1>1 DEF Sessions, NoQuote
  <2> HIDE DEF pointer
  <2> QED
    BY <1>1, <1>2, <2>1 DEF Sessions
<1>7. RestOK
  BY <1>1, <1>2 DEF RestOK, CheckoutTypeOK
<1>8. CheckoutTypeOK'
  BY <1>1, <1>2, <1>5, <1>6, <1>7 DEF RestOK, CheckoutTypeOK, Quotes, Sessions
<1>9. PriceFollowsSettings'
  BY <1>1, <1>2, <1>3, <1>5, <1>6 DEF PriceFollowsSettings
<1>10. EndedSessionOwesNothing'
  BY <1>1, <1>2, <1>3, <1>5, <1>6 DEF EndedSessionOwesNothing, IsOpen
<1>11. CaptureInv' /\ AppliedInv' /\ RefundInv'
  BY <1>2, <1>6, MoneyLeftAlone
<1> QED
  BY <1>8, <1>9, <1>10, <1>11 DEF CheckoutInv

\* The clock, and the start of the print.
LEMMA ClockSafe == ASSUME CheckoutInv, Tick \/ StartPrinting PROVE CheckoutInv'
<1>1. CheckoutTypeOK /\ session \in Sessions /\ now \in 0 .. MaxTime /\ MaxTime \in Nat
  BY Tables, CheckoutAssumption DEF CheckoutInv, CheckoutTypeOK
<1>2. CASE Tick
  BY <1>1, <1>2, QuietStep
     DEF Tick, documentVars, RestOK, CheckoutTypeOK, StateMoves, PriceMoves
<1>3. CASE StartPrinting
  <2>1. session' = [session EXCEPT !.state = "PRINTING"] /\ session.state = "PAID"
    BY <1>3 DEF StartPrinting
  <2>2. /\ session' \in Sessions /\ session'.state = "PRINTING"
        /\ session'.rev = session.rev /\ session'.activeQuote = session.activeQuote
    BY <1>1, <2>1 DEF Sessions, SessionStates
  <2> QED
    BY <1>1, <1>3, <2>1, <2>2, QuietStep
       DEF StartPrinting, documentVars, RestOK, CheckoutTypeOK, StateMoves, PriceMoves
<1> QED
  BY <1>2, <1>3
-----------------------------------------------------------------------------
(* Payments *)

\* The rows a payment's steps leave alone.
LEMMA UntouchedRows ==
  ASSUME CheckoutInv, UNCHANGED <<now, docs, asked, removing, revisions, doomed>>
  PROVE  RestOK
BY DEF RestOK, CheckoutInv, CheckoutTypeOK

\* Types after a step that keeps the number of payments and the quotes' types.
LEMMA TypesKept ==
  ASSUME CheckoutInv, RestOK, session' \in Sessions,
         quotes' \in Seq(Quotes), Len(quotes') = Len(quotes),
         payments' \in Seq(Payments), Len(payments') = Len(payments),
         inbox' \in Seq(Amounts \cup {"NONE"}), Len(inbox') = Len(inbox),
         refunds' \subseteq Obligations
  PROVE  CheckoutTypeOK'
BY DEF CheckoutInv, CheckoutTypeOK, RestOK, Quotes, Payments, Sessions, Obligations

\* The session that stops waiting for a payment.
LEMMA ReleasedRow ==
  ASSUME session \in Sessions
  PROVE  /\ ReleasedSession \in Sessions
         /\ ReleasedSession.rev = session.rev /\ ReleasedSession.activeQuote = session.activeQuote
         /\ ReleasedSession.state \in PaidStates <=> session.state \in PaidStates
         /\ ReleasedSession.state \in EndedStates => session.state \in EndedStates
<1> DEFINE next == IF session.state = "AWAITING_PAYMENT" THEN "CONFIGURING" ELSE session.state
<1>1. /\ next \in SessionStates
      /\ next \in PaidStates <=> session.state \in PaidStates
      /\ next \in EndedStates => session.state \in EndedStates
  BY DEF Sessions, SessionStates, PaidStates, EndedStates
<1>2. ReleasedSession = [session EXCEPT !.state = next]
  BY DEF ReleasedSession
<1> HIDE DEF next
<1> QED
  BY <1>1, <1>2 DEF Sessions

\* A new payment for the active quote.
LEMMA CreatePaymentSafe ==
  ASSUME CheckoutInv, NEW q \in DOMAIN quotes, CreatePayment(q)
  PROVE  CheckoutInv'
<1> DEFINE deadline == PaymentDeadline(quotes[q])
           n == Len(payments) + 1
<1>1. /\ CheckoutTypeOK /\ session \in Sessions /\ PriceFollowsSettings
      /\ CaptureInv /\ AppliedInv /\ RefundInv
      /\ quotes \in [1 .. Len(quotes) -> Quotes] /\ quotes \in Seq(Quotes) /\ q \in 1 .. MaxQuotes
      /\ payments \in Seq(Payments) /\ DOMAIN inbox = DOMAIN payments
      /\ inbox \in Seq(Amounts \cup {"NONE"}) /\ Len(inbox) = Len(payments)
      /\ MaxPayments \in Nat /\ Len(payments) \in Nat /\ DOMAIN payments = 1 .. Len(payments)
      /\ now \in Nat /\ refunds \subseteq Obligations
  BY Tables DEF CheckoutInv
<1>2. PICK status \in OPEN_STATUSES :
        payments' = Append(payments, [quote |-> q, status |-> status, applied |-> FALSE,
                                      expiresAt |-> deadline])
  BY DEF CreatePayment
<1>3. /\ session.state = "CONFIGURING" /\ Len(payments) < MaxPayments
      /\ inbox' = Append(inbox, "NONE") /\ session' = [session EXCEPT !.state = "AWAITING_PAYMENT"]
      /\ quotes' = quotes /\ refunds' = refunds
      /\ UNCHANGED <<now, docs, asked, removing, revisions, doomed>>
  BY DEF CreatePayment, documentVars
<1> DEFINE row == [quote |-> q, status |-> status, applied |-> FALSE, expiresAt |-> deadline]
<1>4. deadline \in Nat
  <2>1. quotes[q] \in Quotes
    BY <1>1
  <2> QED
    BY <1>1, <2>1, CheckoutAssumption DEF PaymentDeadline, MinOf, Quotes
<1> HIDE DEF deadline
<1>5. row \in Payments /\ ~row.applied
  BY <1>1, <1>4 DEF Payments
<1> HIDE DEF row
<1>6. /\ payments' \in Seq(Payments) /\ Len(payments') = n
      /\ DOMAIN payments' = DOMAIN payments \cup {n} /\ n \notin DOMAIN payments
      /\ payments'[n] = row /\ \A p \in DOMAIN payments : payments'[p] = payments[p]
  BY <1>1, <1>2, <1>5, NewRow DEF row
<1>7. /\ inbox' \in Seq(Amounts \cup {"NONE"}) /\ Len(inbox') = n
      /\ inbox'[n] = "NONE" /\ \A p \in DOMAIN payments : inbox'[p] = inbox[p]
  BY <1>1, <1>3, NewRow
<1> HIDE DEF n
<1>8. /\ session' \in Sessions /\ session'.state = "AWAITING_PAYMENT"
      /\ session'.rev = session.rev /\ session'.activeQuote = session.activeQuote
  BY <1>1, <1>3 DEF Sessions, SessionStates
<1>9. CheckoutTypeOK'
  <2>1. n <= MaxPayments
    BY <1>1, <1>3 DEF n
  <2>2. RestOK
    BY <1>3, UntouchedRows
  <2> QED
    BY <1>1, <1>3, <1>6, <1>7, <1>8, <2>1, <2>2
       DEF RestOK, CheckoutTypeOK, Quotes, Payments, Sessions, Obligations
<1>10. PriceFollowsSettings' /\ EndedSessionOwesNothing'
  BY <1>1, <1>3, <1>8 DEF PriceFollowsSettings, EndedSessionOwesNothing
<1>11. CaptureInv' /\ AppliedInv'
  BY <1>1, <1>3, <1>5, <1>6, <1>7, <1>8 DEF CaptureInv, AppliedInv, PaidStates
<1>12. RefundInv'
  BY <1>1, <1>3, <1>6, <1>7 DEF RefundInv, Owed, Reason
<1> QED
  BY <1>9, <1>10, <1>11, <1>12 DEF CheckoutInv

\* An open payment moves on, fails, or runs out.
LEMMA StatusSafe ==
  ASSUME CheckoutInv, NEW p \in DOMAIN payments,
         \/ ConfirmPayment(p) \/ TimeOutPayment(p)
         \/ \E status \in FAILURE_STATUSES : ApplyFailure(p, status)
  PROVE  CheckoutInv'
<1>1. /\ CheckoutTypeOK /\ session \in Sessions /\ PriceFollowsSettings
      /\ CaptureInv /\ AppliedInv /\ RefundInv /\ EndedSessionOwesNothing
      /\ payments \in Seq(Payments) /\ payments[p] \in Payments
      /\ quotes \in Seq(Quotes) /\ inbox \in Seq(Amounts \cup {"NONE"})
      /\ refunds \subseteq Obligations
  BY Tables DEF CheckoutInv
<1>2. PICK s \in OPEN_STATUSES \cup FAILURE_STATUSES :
        payments' = [payments EXCEPT ![p].status = s]
  BY DEF ConfirmPayment, TimeOutPayment, ApplyFailure, OPEN_STATUSES, FAILURE_STATUSES
<1>3. /\ IsOpen(p) /\ session' \in {session, ReleasedSession}
      /\ quotes' = quotes /\ refunds' = refunds /\ inbox' = inbox
      /\ UNCHANGED <<now, docs, asked, removing, revisions, doomed>>
  BY DEF ConfirmPayment, TimeOutPayment, ApplyFailure, IsOpen, OPEN_STATUSES, documentVars
<1> DEFINE row == [payments[p] EXCEPT !.status = s]
<1>4. row \in Payments /\ row.applied = payments[p].applied
  BY <1>1 DEF Payments
<1>5. payments' = [payments EXCEPT ![p] = row]
  BY <1>2
<1> HIDE DEF row
<1>6. /\ payments' \in Seq(Payments) /\ Len(payments') = Len(payments)
      /\ DOMAIN payments' = DOMAIN payments /\ payments'[p] = row
      /\ \A i \in DOMAIN payments \ {p} : payments'[i] = payments[i]
  BY <1>1, <1>4, <1>5, OneRow
<1>7. inbox[p] = "NONE" /\ ~payments[p].applied /\ session.state \notin EndedStates
  BY <1>1, <1>3 DEF CaptureInv, IsOpen, OPEN_STATUSES, EndedSessionOwesNothing, EndedStates
<1>8. /\ session' \in Sessions
      /\ session'.rev = session.rev /\ session'.activeQuote = session.activeQuote
      /\ session'.state \in PaidStates <=> session.state \in PaidStates
      /\ session'.state \notin EndedStates
  BY <1>1, <1>3, <1>7, ReleasedRow
<1>9. CheckoutTypeOK'
  BY <1>1, <1>3, <1>6, <1>8, UntouchedRows, TypesKept
<1>10. PriceFollowsSettings' /\ EndedSessionOwesNothing'
  BY <1>1, <1>3, <1>8 DEF PriceFollowsSettings, EndedSessionOwesNothing, EndedStates
<1>11. CaptureInv' /\ AppliedInv'
  BY <1>1, <1>3, <1>4, <1>6, <1>7, <1>8 DEF CaptureInv, AppliedInv
<1>12. RefundInv'
  BY <1>1, <1>3, <1>4, <1>6, <1>7 DEF RefundInv, Owed, Reason
<1> QED
  BY <1>9, <1>10, <1>11, <1>12 DEF CheckoutInv

\* What a reported capture writes to the payment's row and to the inbox.
LEMMA CaptureWrites ==
  ASSUME CheckoutInv, NEW p \in DOMAIN payments, NEW amount \in Amounts,
         NEW applied \in BOOLEAN, Reported(p, amount), RecordCapture(p, applied)
  PROVE  /\ payments' \in Seq(Payments) /\ Len(payments') = Len(payments)
         /\ DOMAIN payments' = DOMAIN payments
         /\ payments'[p].status \in {"CAPTURED", "DECLINED"}
         /\ payments[p].status \in {"CAPTURED", "DECLINED"} => payments' = payments
         /\ payments[p].status \notin {"CAPTURED", "DECLINED"} =>
              payments'[p].status = "CAPTURED" /\ payments'[p].applied = applied
         /\ \A i \in DOMAIN payments \ {p} : payments'[i] = payments[i] /\ inbox'[i] = inbox[i]
         /\ inbox' \in Seq(Amounts \cup {"NONE"}) /\ Len(inbox') = Len(inbox)
         /\ inbox'[p] = amount /\ inbox[p] \in {"NONE", amount}
<1>1. /\ payments \in Seq(Payments) /\ payments[p] \in Payments
      /\ inbox \in Seq(Amounts \cup {"NONE"}) /\ DOMAIN inbox = DOMAIN payments
  BY Tables DEF CheckoutInv
<1>2. /\ inbox' \in Seq(Amounts \cup {"NONE"}) /\ Len(inbox') = Len(inbox)
      /\ inbox'[p] = amount /\ inbox[p] \in {"NONE", amount}
      /\ \A i \in DOMAIN payments \ {p} : inbox'[i] = inbox[i]
  BY <1>1, OneRow DEF Reported
<1>3. CASE payments[p].status \in {"CAPTURED", "DECLINED"}
  BY <1>1, <1>2, <1>3 DEF RecordCapture
<1>4. CASE payments[p].status \notin {"CAPTURED", "DECLINED"}
  <2> DEFINE row == [payments[p] EXCEPT !.status = "CAPTURED", !.applied = applied]
  <2>1. payments' = [payments EXCEPT ![p] = row]
    BY <1>4 DEF RecordCapture
  <2>2. row \in Payments /\ row.status = "CAPTURED" /\ row.applied = applied
    BY <1>1 DEF Payments
  <2> HIDE DEF row
  <2>3. /\ payments' \in Seq(Payments) /\ Len(payments') = Len(payments)
        /\ DOMAIN payments' = DOMAIN payments /\ payments'[p] = row
        /\ \A i \in DOMAIN payments \ {p} : payments'[i] = payments[i]
    BY <1>1, <2>1, <2>2, OneRow
  <2> QED
    BY <1>2, <1>4, <2>2, <2>3
<1> QED
  BY <1>3, <1>4
\* A capture that does not fulfil the session is money owed back, once.
LEMMA CompensationSafe ==
  ASSUME CheckoutInv, NEW p \in DOMAIN payments,
         CompensateCapture(p) \/ \E amount \in Amounts : CaptureMismatch(p, amount)
  PROVE  CheckoutInv'
<1>1. /\ CheckoutTypeOK /\ session \in Sessions /\ PriceFollowsSettings
      /\ CaptureInv /\ AppliedInv /\ RefundInv /\ EndedSessionOwesNothing
      /\ quotes \in Seq(Quotes) /\ refunds \subseteq Obligations
      /\ p \in 1 .. MaxPayments
  BY Tables DEF CheckoutInv
<1>2. PICK amount \in Amounts :
        /\ Reported(p, amount) /\ RecordCapture(p, FALSE)
        /\ RecordCompensation(p, IF amount = "QUOTED" THEN "LATE_CAPTURE" ELSE "AMOUNT_MISMATCH",
                              amount)
        /\ amount = "QUOTED" => payments[p].status # "CAPTURED"
  BY DEF CompensateCapture, CaptureMismatch, Amounts
<1>3. /\ session' = ReleasedSession /\ quotes' = quotes
      /\ UNCHANGED <<now, docs, asked, removing, revisions, doomed>>
  BY DEF CompensateCapture, CaptureMismatch, documentVars
<1>4. /\ payments' \in Seq(Payments) /\ Len(payments') = Len(payments)
      /\ DOMAIN payments' = DOMAIN payments
      /\ payments'[p].status \in {"CAPTURED", "DECLINED"}
      /\ payments[p].status \in {"CAPTURED", "DECLINED"} => payments' = payments
      /\ payments[p].status \notin {"CAPTURED", "DECLINED"} => ~payments'[p].applied
      /\ \A i \in DOMAIN payments \ {p} : payments'[i] = payments[i] /\ inbox'[i] = inbox[i]
      /\ inbox' \in Seq(Amounts \cup {"NONE"}) /\ Len(inbox') = Len(inbox)
      /\ inbox'[p] = amount /\ inbox[p] \in {"NONE", amount}
  BY <1>2, CaptureWrites
<1>5. ~payments[p].applied /\ ~payments'[p].applied
  <2>1. ~payments[p].applied
    BY <1>1, <1>2, <1>4 DEF CaptureInv
  <2> QED
    BY <1>4, <2>1
<1>6. /\ session' \in Sessions
      /\ session'.rev = session.rev /\ session'.activeQuote = session.activeQuote
      /\ session'.state \in PaidStates <=> session.state \in PaidStates
      /\ session'.state \in EndedStates => session.state \in EndedStates
  BY <1>1, <1>3, ReleasedRow
<1>7. refunds' = IF amount = "ZERO" THEN refunds
                 ELSE refunds \cup {[payment |-> p, reason |-> IF amount = "QUOTED"
                                       THEN "LATE_CAPTURE" ELSE "AMOUNT_MISMATCH"]}
  BY <1>2 DEF RecordCompensation
<1>8. CheckoutTypeOK'
  <2>1. refunds' \subseteq Obligations
    BY <1>1, <1>7 DEF Obligations
  <2> QED
    BY <1>1, <1>3, <1>4, <1>6, <2>1, UntouchedRows, TypesKept
<1>9. PriceFollowsSettings' /\ EndedSessionOwesNothing'
  <2>1. \A i \in DOMAIN payments : IsOpen(i)' => IsOpen(i)
    BY <1>4 DEF IsOpen, OPEN_STATUSES
  <2> QED
    BY <1>1, <1>3, <1>4, <1>6, <2>1 DEF PriceFollowsSettings, EndedSessionOwesNothing, EndedStates
<1>10. CaptureInv' /\ AppliedInv'
  BY <1>1, <1>4, <1>5, <1>6 DEF CaptureInv, AppliedInv
<1>11. RefundInv'
  <2>1. \A i \in DOMAIN payments \ {p} : /\ Owed(i)' <=> Owed(i)
                                         /\ Reason(i)' = Reason(i)
    BY <1>4 DEF Owed, Reason
  <2>2. /\ Owed(p)' <=> amount # "ZERO"
        /\ amount # "ZERO" => Reason(p)' = IF amount = "QUOTED" THEN "LATE_CAPTURE" ELSE "AMOUNT_MISMATCH"
    BY <1>4, <1>5 DEF Owed, Reason, Amounts
  <2>3. Owed(p) => inbox[p] = amount /\ amount # "ZERO" /\ Reason(p) = Reason(p)'
    BY <1>4 DEF Owed, Reason
  <2>4. ASSUME NEW r \in refunds'
        PROVE  /\ r.payment \in DOMAIN payments'
               /\ Owed(r.payment)' /\ r.reason = Reason(r.payment)'
    <3>1. CASE r \in refunds
      <4>1. r.payment \in DOMAIN payments /\ Owed(r.payment) /\ r.reason = Reason(r.payment)
        BY <1>1, <3>1 DEF RefundInv
      <4>2. CASE r.payment = p
        BY <1>4, <2>2, <2>3, <4>1, <4>2
      <4>3. CASE r.payment # p
        BY <1>4, <2>1, <4>1, <4>3
      <4> QED
        BY <4>2, <4>3
    <3>2. CASE r \notin refunds
      <4>1. amount # "ZERO" /\ r = [payment |-> p, reason |-> IF amount = "QUOTED"
                                      THEN "LATE_CAPTURE" ELSE "AMOUNT_MISMATCH"]
        BY <1>7, <2>4, <3>2
      <4> QED
        BY <1>4, <2>2, <4>1
    <3> QED
      BY <3>1, <3>2
  <2>5. ASSUME NEW i \in DOMAIN payments', Owed(i)'
        PROVE  [payment |-> i, reason |-> Reason(i)'] \in refunds'
    <3>1. CASE i = p
      BY <1>7, <2>2, <2>5, <3>1
    <3>2. CASE i # p
      BY <1>1, <1>4, <1>7, <2>1, <2>5, <3>2 DEF RefundInv
    <3> QED
      BY <3>1, <3>2
  <2> QED
    BY <2>4, <2>5 DEF RefundInv
<1> QED
  BY <1>8, <1>9, <1>10, <1>11 DEF CheckoutInv

\* The capture that fulfils the session.
LEMMA ApplySafe ==
  ASSUME CheckoutInv, NEW p \in DOMAIN payments, ApplyCapture(p)
  PROVE  CheckoutInv'
<1>1. /\ CheckoutTypeOK /\ session \in Sessions /\ PriceFollowsSettings
      /\ CaptureInv /\ AppliedInv /\ RefundInv /\ EndedSessionOwesNothing
      /\ quotes \in Seq(Quotes) /\ quotes \in [1 .. Len(quotes) -> Quotes]
      /\ DOMAIN quotes = 1 .. Len(quotes) /\ refunds \subseteq Obligations
      /\ payments[p] \in Payments
  BY Tables DEF CheckoutInv
<1> DEFINE q == payments[p].quote
<1>2. /\ IsOpen(p) /\ session.state = "AWAITING_PAYMENT" /\ quotes[q].status = "ACTIVE"
      /\ Reported(p, "QUOTED") /\ RecordCapture(p, TRUE)
      /\ quotes' = [quotes EXCEPT ![q].status = "CONSUMED"]
      /\ session' = [session EXCEPT !.state = "PAID"] /\ refunds' = refunds
      /\ UNCHANGED <<now, docs, asked, removing, revisions, doomed>>
  BY DEF ApplyCapture, Effective, documentVars
<1> HIDE DEF q
<1>3. payments[p].status \notin {"CAPTURED", "DECLINED"} /\ "QUOTED" \in Amounts
  BY <1>2 DEF IsOpen, OPEN_STATUSES, Amounts
<1>4. /\ payments' \in Seq(Payments) /\ Len(payments') = Len(payments)
      /\ DOMAIN payments' = DOMAIN payments
      /\ payments'[p].status = "CAPTURED" /\ payments'[p].applied = TRUE
      /\ \A i \in DOMAIN payments \ {p} : payments'[i] = payments[i] /\ inbox'[i] = inbox[i]
      /\ inbox' \in Seq(Amounts \cup {"NONE"}) /\ Len(inbox') = Len(inbox)
      /\ inbox'[p] = "QUOTED"
  BY <1>2, <1>3, CaptureWrites
<1>5. inbox[p] = "NONE" /\ \A i \in DOMAIN payments : ~payments[i].applied
  BY <1>1, <1>2, <1>3 DEF CaptureInv, AppliedInv, PaidStates
<1>6. /\ session' \in Sessions /\ session'.state = "PAID"
      /\ session'.rev = session.rev /\ session'.activeQuote = session.activeQuote
  BY <1>1, <1>2 DEF Sessions, SessionStates
<1>7. /\ quotes' \in Seq(Quotes) /\ Len(quotes') = Len(quotes) /\ DOMAIN quotes' = DOMAIN quotes
      /\ \A i \in DOMAIN quotes : quotes'[i].status = "ACTIVE" => quotes'[i] = quotes[i]
  <2>1. CASE q \in DOMAIN quotes
    <3> DEFINE row == [quotes[q] EXCEPT !.status = "CONSUMED"]
    <3>1. row \in Quotes /\ row.status = "CONSUMED"
      BY <1>1, <2>1 DEF Quotes
    <3>2. quotes' = [quotes EXCEPT ![q] = row]
      BY <1>2
    <3> HIDE DEF row
    <3>3. /\ quotes' \in Seq(Quotes) /\ Len(quotes') = Len(quotes)
          /\ DOMAIN quotes' = DOMAIN quotes /\ quotes'[q] = row
          /\ \A i \in DOMAIN quotes \ {q} : quotes'[i] = quotes[i]
      BY <1>1, <2>1, <3>1, <3>2, OneRow
    <3> QED
      BY <3>1, <3>3
  <2>2. CASE q \notin DOMAIN quotes
    <3>1. quotes' = quotes
      BY <1>1, <1>2, <2>2
    <3> QED
      BY <1>1, <3>1
  <2> QED
    BY <2>1, <2>2
<1>8. CheckoutTypeOK'
  BY <1>1, <1>2, <1>4, <1>6, <1>7, UntouchedRows, TypesKept
<1>9. PriceFollowsSettings' /\ EndedSessionOwesNothing'
  BY <1>1, <1>6, <1>7 DEF PriceFollowsSettings, EndedSessionOwesNothing
<1>10. CaptureInv' /\ AppliedInv'
  BY <1>1, <1>4, <1>5, <1>6 DEF CaptureInv, AppliedInv, PaidStates
<1>11. RefundInv'
  <2>1. ~Owed(p) /\ ~Owed(p)'
    BY <1>4, <1>5 DEF Owed
  <2>2. \A i \in DOMAIN payments \ {p} : (Owed(i)' <=> Owed(i)) /\ Reason(i)' = Reason(i)
    BY <1>4 DEF Owed, Reason
  <2> QED
    BY <1>1, <1>2, <1>4, <2>1, <2>2 DEF RefundInv
<1> QED
  BY <1>8, <1>9, <1>10, <1>11 DEF CheckoutInv

\* Ending a session closes what is open.
LEMMA EndSafe == ASSUME CheckoutInv, CancelSession \/ ExpireSession PROVE CheckoutInv'
<1>1. /\ CheckoutTypeOK /\ session \in Sessions
      /\ CaptureInv /\ AppliedInv /\ RefundInv
      /\ inbox \in Seq(Amounts \cup {"NONE"}) /\ refunds \subseteq Obligations
  BY Tables DEF CheckoutInv
<1>2. PICK target \in EndedStates : EndSession(target)
  BY DEF CancelSession, ExpireSession, EndedStates
<1>3. /\ session' = [Unpriced(session, FALSE) EXCEPT !.state = target]
      /\ payments' = ReleasedPayments /\ quotes' = InvalidatedQuotes
      /\ ScheduleSessionFilesForCleanup
      /\ UNCHANGED <<now, removing, revisions, doomed, inbox, refunds>>
      /\ target \in allowedTransitions[session.state]
  BY <1>2 DEF EndSession
<1>4. session.state \in EXPIRABLE_STATES
  BY <1>1, <1>3, Transitions DEF Sessions
<1>5. \A p \in DOMAIN payments : ~payments[p].applied
  BY <1>1, <1>4 DEF AppliedInv, EXPIRABLE_STATES, UPLOADABLE_SESSION_STATES, PaidStates
<1>6. /\ payments' \in Seq(Payments) /\ Len(payments') = Len(payments)
      /\ DOMAIN payments' = DOMAIN payments
      /\ \A p \in DOMAIN payments : /\ payments'[p].status \notin OPEN_STATUSES
                                    /\ ~payments'[p].applied
                                    /\ ~IsOpen(p) => payments'[p] = payments[p]
  BY <1>1, <1>3, <1>5, Released
<1>7. /\ quotes' \in Seq(Quotes) /\ Len(quotes') = Len(quotes) /\ DOMAIN quotes' = DOMAIN quotes
      /\ \A q \in DOMAIN quotes : quotes'[q].status # "ACTIVE"
  BY <1>1, <1>3, Invalidated
<1>8. session' \in Sessions /\ session'.state = target
  BY <1>1, <1>3, UnpricedRow DEF EndedStates, SessionStates
<1>9. RestOK
  <2>1. /\ docs \in [Docs -> DocumentStates] /\ asked \subseteq Docs /\ "DELETE_PENDING" \in DocumentStates
    BY DEF CheckoutInv, CheckoutTypeOK, DocumentStates
  <2>2. docs' \in [Docs -> DocumentStates] /\ asked' \subseteq Docs
    BY <1>3, <2>1 DEF ScheduleSessionFilesForCleanup
  <2> QED
    BY <1>1, <1>3, <2>2 DEF RestOK, CheckoutTypeOK
<1>10. CheckoutTypeOK'
  BY <1>1, <1>3, <1>6, <1>7, <1>8, <1>9, TypesKept
<1>11. PriceFollowsSettings' /\ EndedSessionOwesNothing'
  BY <1>6, <1>7 DEF PriceFollowsSettings, EndedSessionOwesNothing, IsOpen
<1>12. CaptureInv' /\ AppliedInv'
  BY <1>1, <1>3, <1>6, <1>8
     DEF CaptureInv, AppliedInv, PaidStates, EndedStates, IsOpen, OPEN_STATUSES
<1>13. RefundInv'
  <2>1. \A i \in DOMAIN payments : (Owed(i)' <=> Owed(i)) /\ Reason(i)' = Reason(i)
    BY <1>3, <1>5, <1>6 DEF Owed, Reason
  <2> QED
    BY <1>1, <1>3, <1>6, <2>1 DEF RefundInv
<1> QED
  BY <1>10, <1>11, <1>12, <1>13 DEF CheckoutInv

-----------------------------------------------------------------------------
(* Theorems *)

\* An empty session.
LEMMA InitCheckoutInv == Init => CheckoutInv
<1> SUFFICES ASSUME Init PROVE CheckoutInv
  OBVIOUS
<1>1. /\ quotes = <<>> /\ payments = <<>> /\ inbox = <<>> /\ revisions = <<>> /\ refunds = {}
      /\ session.state = "WAITING_FOR_UPLOAD"
  BY DEF Init
<1>2. CheckoutTypeOK
  BY <1>1, CheckoutAssumption
     DEF Init, CheckoutTypeOK, SessionStates, DocumentStates, NoQuote, NoRevision
<1>3. PriceFollowsSettings /\ EndedSessionOwesNothing /\ CaptureInv /\ AppliedInv /\ RefundInv
  BY <1>1 DEF PriceFollowsSettings, EndedSessionOwesNothing, CaptureInv, AppliedInv, RefundInv,
     PaidStates
<1> QED
  BY <1>2, <1>3 DEF CheckoutInv

\* Every step of customer, phone, provider, reconciler and janitor keeps it.
LEMMA StepCheckoutInv == CheckoutInv /\ [Next]_vars => CheckoutInv'
<1> SUFFICES ASSUME CheckoutInv, [Next]_vars PROVE CheckoutInv'
  OBVIOUS
<1>1. CASE UNCHANGED vars
  <2>1. RestOK /\ UNCHANGED moneyVars /\ session' \in Sessions /\ StateMoves /\ PriceMoves
    BY <1>1, Tables DEF vars, moneyVars, RestOK, CheckoutInv, CheckoutTypeOK, StateMoves, PriceMoves
  <2> QED
    BY <2>1, QuietStep
<1>2. CASE PricingNext
  BY <1>2, SettingsSafe, CreateQuoteSafe, ExpireQuotesSafe, CreatePaymentSafe DEF PricingNext
<1>3. CASE PaymentNext
  BY <1>3, StatusSafe, ApplySafe, CompensationSafe DEF PaymentNext
<1> QED
  BY <1>1, <1>2, <1>3, DocumentSafe, EndSafe, ClockSafe DEF Next

\* CheckoutInv is an invariant of every behaviour.
LEMMA CheckoutInvariance == CheckoutSpec => []CheckoutInv
BY InitCheckoutInv, StepCheckoutInv, PTL DEF CheckoutSpec

\* The rows of a session keep their types.
THEOREM CheckoutTypeCorrect == CheckoutSpec => []CheckoutTypeOK
<1>1. CheckoutInv => CheckoutTypeOK
  BY DEF CheckoutInv
<1> QED
  BY <1>1, CheckoutInvariance, PTL

\* A session has at most one payable price, and it is of its current settings.
THEOREM PriceSafety == CheckoutSpec => []PriceFollowsSettings
<1>1. CheckoutInv => PriceFollowsSettings
  BY DEF CheckoutInv
<1> QED
  BY <1>1, CheckoutInvariance, PTL

\* All members of a set being equal, it counts one or none.
LEMMA CountOfAlikes ==
  ASSUME NEW S, \A s, t \in S : s = t
  PROVE  Cardinality(S) = IF S = {} THEN 0 ELSE 1
<1>1. CASE S = {}
  BY <1>1, FS_EmptySet
<1>2. CASE S # {}
  <2>1. PICK x : S = {x}
    BY <1>2
  <2> QED
    BY <1>2, <2>1, FS_Singleton
<1> QED
  BY <1>1, <1>2

\* Whatever customer, provider and janitor do, and in whatever order: a session is
\* paid by exactly one capture, every other reported capture is owed back exactly
\* once, and a session that ended holds nothing payable.
THEOREM MoneyIsSafe == CheckoutSpec => []MoneyIsAccounted
<1>1. ASSUME CheckoutInv PROVE MoneyIsAccounted
  <2>1. /\ AppliedInv /\ RefundInv /\ CaptureInv /\ EndedSessionOwesNothing
        /\ refunds \subseteq Obligations
        /\ \A p \in DOMAIN payments : inbox[p] \in Amounts \cup {"NONE"}
    BY <1>1, Tables, ElementOfSeq DEF CheckoutInv
  <2>2. PaidByOneCapture
    <3> DEFINE S == {p \in DOMAIN payments : payments[p].applied}
    <3>1. Cardinality(S) = IF S = {} THEN 0 ELSE 1
      BY <2>1, CountOfAlikes DEF AppliedInv
    <3>2. S # {} <=> session.state \in {"PAID", "PRINTING"}
      BY <2>1 DEF AppliedInv, PaidStates
    <3> QED
      BY <3>1, <3>2 DEF PaidByOneCapture
  <2>3. CaptureIsAppliedOrOwed
    <3> SUFFICES ASSUME NEW p \in DOMAIN payments
                 PROVE  Cardinality({r \in refunds : r.payment = p})
                          = IF inbox[p] \in {"NONE", "ZERO"} \/ payments[p].applied THEN 0 ELSE 1
      BY DEF CaptureIsAppliedOrOwed
    <3> DEFINE S == {r \in refunds : r.payment = p}
    <3>1. \A r \in S : r = [payment |-> p, reason |-> Reason(p)]
      BY <2>1 DEF RefundInv, Obligations
    <3>2. Cardinality(S) = IF S = {} THEN 0 ELSE 1
      BY <3>1, CountOfAlikes
    <3>a. ASSUME S # {} PROVE Owed(p)
      BY <2>1, <3>a DEF RefundInv
    <3>b. ASSUME Owed(p) PROVE S # {}
      <4> DEFINE r == [payment |-> p, reason |-> Reason(p)]
      <4>1. r \in refunds
        BY <2>1, <3>b DEF RefundInv
      <4>2. r.payment = p
        OBVIOUS
      <4> HIDE DEF r
      <4> QED
        BY <4>1, <4>2
    <3>3. S # {} <=> Owed(p)
      BY <3>a, <3>b
    <3>4. Owed(p) <=> ~(inbox[p] \in {"NONE", "ZERO"} \/ payments[p].applied)
      BY <2>1 DEF Owed, Amounts
    <3> QED
      BY <3>2, <3>3, <3>4
  <2> QED
    BY <2>1, <2>2, <2>3 DEF MoneyIsAccounted
<1> QED
  BY <1>1, CheckoutInvariance, PTL
=============================================================================
