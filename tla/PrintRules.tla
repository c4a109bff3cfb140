----------------------------- MODULE PrintRules -----------------------------
(***************************************************************************)
(* From what a device declares and what a customer types to what is priced *)
(* and printed: printer capabilities, page ranges, sheets, the quote's     *)
(* arithmetic and the manifest of the print job.  The steps are those of   *)
(* the settings, quote and print-job services; between them the device may *)
(* declare something else and a document may be deleted.                   *)
(*                                                                         *)
(* A page-range text is a sequence of segments: <<3>> for "3", <<2, 5>>    *)
(* for "2-5", Unreadable for anything the parser's pattern refuses.  A     *)
(* manifest stands for its hash.  Scaling, orientation and collation are   *)
(* carried along unchanged and are left out; the first two have one value. *)
(***************************************************************************)
EXTENDS Integers, Sequences, FiniteSets, Sums
LOCAL INSTANCE SequencesExt
LOCAL INSTANCE FiniteSetsExt

CONSTANTS
  Declarations,    \* what the device may declare
  FileSets,        \* the documents a session may hold: id -> page count
  Requests,        \* settings a customer may send
  RuleSets,        \* tariffs that may be in force
  MaxCopies,       \* deployment ceilings: copies, pages, sides, money
  MaxSelectedPages,
  MaxPrintedSides,
  MaxQuoteAmount,
  MaxSegments,     \* MAX_PAGE_RANGE_SEGMENTS
  MaxWorldChanges, \* bound on what changes under the customer
  MaxUpdates       \* bound on the settings a customer sends

Scale == 10000    \* BASIS_POINT_SCALE

\* What the schemas of the three requests and assertRule let through.
Listed(seq) == seq \in Seq({seq[i] : i \in DOMAIN seq})
SettingsRequest(r) ==
  /\ Listed(r.order) /\ r.order # <<>> /\ Listed(r.selections)
  /\ \A i \in DOMAIN r.selections :
       LET s == r.selections[i]
       IN s.copies \in Int /\ s.text \in Seq(Seq(Nat)) /\ \A k \in DOMAIN s.text : Len(s.text[k]) <= 2
PricingRule(rule) ==
  /\ {rule.unit, rule.fee, rule.minimum, rule.taxPoints} \subseteq Nat
  /\ rule.duplexPoints \in -Scale .. Scale /\ rule.priority \in Int
PricingRuleSet(t) ==
  /\ t.rounding \in {"HALF_UP", "HALF_EVEN", "AWAY_FROM_ZERO", "TOWARD_ZERO"}
  /\ t.minimumApplication \in {"BEFORE_TAX", "AFTER_TAX"}
  /\ Listed(t.rules) /\ \A i \in DOMAIN t.rules : PricingRule(t.rules[i])

ASSUME PrintRulesAssumption ==
  /\ {MaxCopies, MaxSelectedPages, MaxPrintedSides, MaxQuoteAmount, MaxSegments} \subseteq Nat \ {0}
  /\ {MaxWorldChanges, MaxUpdates} \subseteq Nat
  /\ \A d \in Declarations : d.maxCopies \in Int
  /\ \A f \in FileSets : IsFiniteSet(DOMAIN f) /\ \A id \in DOMAIN f : f[id] \in Nat \ {0}
  /\ \A r \in Requests : SettingsRequest(r)
  /\ \A t \in RuleSets : PricingRuleSet(t)

VARIABLES
  declared,   \* the device's last declaration
  version,    \* capabilitiesVersion of the kiosk row
  documents,  \* the documents that are READY: id -> page count
  request,    \* the settings just accepted, until the next step
  settings,   \* the current settings revision
  quote,      \* the active quote
  job,        \* the print job's manifest
  refusal,    \* what the last refused call answered
  moved,      \* changes since the settings were accepted
  updates     \* settings sent

rulesVars ==
  <<declared, version, documents, request, settings, quote, job, refusal, moved, updates>>

Unreadable == <<>>
NotStored == [stored |-> FALSE]
RuleRefused(code) == [stored |-> FALSE, error |-> code]

\* A sort by comparison: a rearrangement in which nothing comes before what
\* precedes it.
Arranged(s, before(_, _)) ==
  LET order == CHOOSE p \in [DOMAIN s -> DOMAIN s] :
        IsInjective(p) /\ \A i, j \in DOMAIN s : i < j => ~before(s[p[j]], s[p[i]])
  IN [i \in DOMAIN s |-> s[order[i]]]

-----------------------------------------------------------------------------
\* Capabilities: what the device says, in its vocabulary, becomes what the
\* agent reports, and that what the API offers.
mapTerms(terms, vocabulary) == {vocabulary[t] : t \in terms \cap DOMAIN vocabulary}
PaperTerms == [iso_a4_210x297mm |-> "A4"]
SideTerms == [one_sided |-> "SIMPLEX", two_sided_long_edge |-> "LONG_EDGE"]
ColorTerms == [monochrome |-> "MONOCHROME"]

Smaller(a, b) == IF a < b THEN a ELSE b

mapDeviceCapabilities(d) ==
  LET sides == mapTerms(d.sides, SideTerms)
  IN [paperSizes |-> mapTerms(d.media, PaperTerms),
      colorModes |-> mapTerms(d.colors, ColorTerms),
      duplexModes |-> IF sides # {} THEN sides
                      ELSE {"SIMPLEX"} \cup IF d.duplexUnit THEN {"LONG_EDGE"} ELSE {},
      maxCopies |-> IF d.maxCopies > 0 THEN Smaller(d.maxCopies, MaxCopies) ELSE MaxCopies]

readPrinterCapabilities(snapshot, at) ==
  LET duplex == snapshot.duplexModes \cap {"SIMPLEX", "LONG_EDGE"}
  IN [version |-> at,
      paperSizes |-> IF snapshot.paperSizes # {} THEN snapshot.paperSizes ELSE {"A4"},
      colorModes |-> snapshot.colorModes,
      duplexModes |-> IF duplex # {} THEN duplex ELSE {"SIMPLEX"},
      maxCopies |-> Smaller(snapshot.maxCopies, MaxCopies)]

Offered == readPrinterCapabilities(mapDeviceCapabilities(declared), version)

-----------------------------------------------------------------------------
\* Page ranges.
SegmentStart(s) == s[1]
SegmentEnd(s) == s[Len(s)]
segmentError(s, pageCount) ==
  CASE s = Unreadable -> "PAGE_RANGE_INVALID"
    [] s # Unreadable /\ (SegmentStart(s) < 1 \/ SegmentEnd(s) < SegmentStart(s)) ->
         "PAGE_RANGE_INVALID"
    [] s # Unreadable /\ SegmentStart(s) >= 1 /\ SegmentEnd(s) >= SegmentStart(s)
         /\ SegmentEnd(s) > pageCount -> "PAGE_RANGE_OUT_OF_BOUNDS"
    [] OTHER -> "none"

Before(left, right) == left[1] < right[1] \/ (left[1] = right[1] /\ left[2] < right[2])

appendOverlapping(merged, range) ==
  IF merged # <<>> /\ range[1] <= Last(merged)[2]
  THEN Append(Front(merged), <<Last(merged)[1], Max({Last(merged)[2], range[2]})>>)
  ELSE Append(merged, range)
\* A range that overlaps or touches the last one extends it.
appendRange(merged, range) ==
  IF merged # <<>> /\ range[1] <= Last(merged)[2] + 1
  THEN Append(Front(merged), <<Last(merged)[1], Max({Last(merged)[2], range[2]})>>)
  ELSE Append(merged, range)

mergePageRanges(ranges) ==
  LET ordered == Arranged(ranges, Before)
      merged[n \in 0 .. Len(ordered)] ==
        IF n = 0 THEN <<>> ELSE appendRange(merged[n - 1], ordered[n])
  IN merged[Len(ordered)]

\* The first segment that fails names the error.
parsePageRangeText(text, pageCount) ==
  LET wrong == {i \in DOMAIN text : segmentError(text[i], pageCount) # "none"}
  IN CASE text = <<>> -> [ranges |-> <<<<1, pageCount>>>>, error |-> "none"]
       [] Len(text) > MaxSegments -> [ranges |-> <<>>, error |-> "PAGE_RANGE_INVALID"]
       [] text # <<>> /\ Len(text) <= MaxSegments /\ wrong # {} ->
            [ranges |-> <<>>, error |-> segmentError(text[Min(wrong)], pageCount)]
       [] OTHER -> [ranges |-> mergePageRanges(
                       [i \in DOMAIN text |-> <<SegmentStart(text[i]), SegmentEnd(text[i])>>]),
                    error |-> "none"]

formatPageRanges(ranges) ==
  [i \in DOMAIN ranges |-> IF ranges[i][1] = ranges[i][2] THEN <<ranges[i][1]>> ELSE ranges[i]]
countSelectedPages(ranges) == Sum([i \in DOMAIN ranges |-> ranges[i][2] - ranges[i][1] + 1])

calculateSheetUsage(pages, duplex) ==
  [sides |-> pages, sheets |-> IF duplex = "SIMPLEX" THEN pages ELSE (pages + 1) \div 2]

-----------------------------------------------------------------------------
\* normalizePrintSettings: the checks in the code's order, the first to fail
\* naming the error; then one row per document and the job's totals.
Selection(input, id) == input.selections[CHOOSE i \in DOMAIN input.selections :
                                           input.selections[i].fileId = id]
Ids(seq) == {seq[i].fileId : i \in DOMAIN seq}

selectionError(input, id, files, caps) ==
  LET s == Selection(input, id)
  IN CASE id \notin DOMAIN files -> "FILE_ORDER_INVALID"
       [] id \in DOMAIN files /\ id \notin Ids(input.selections) -> "FILE_SELECTION_INVALID"
       [] id \in DOMAIN files \cap Ids(input.selections) /\ s.duplex \notin caps.duplexModes ->
            "UNSUPPORTED_PRINT_SETTING"
       [] id \in DOMAIN files \cap Ids(input.selections) /\ s.duplex \in caps.duplexModes
            /\ s.copies \notin 1..caps.maxCopies -> "COPIES_OUT_OF_RANGE"
       [] OTHER -> parsePageRangeText(s.text, files[id]).error

normalizedFile(input, position, files) ==
  LET id == input.order[position + 1]
      s == Selection(input, id)
      ranges == parsePageRangeText(s.text, files[id]).ranges
      usage == calculateSheetUsage(countSelectedPages(ranges), s.duplex)
  IN [fileId |-> id, position |-> position, pageCount |-> files[id],
      ranges |-> ranges, text |-> formatPageRanges(ranges),
      selectedPages |-> usage.sides, copies |-> s.copies, duplex |-> s.duplex,
      sides |-> usage.sides * s.copies, sheets |-> usage.sheets * s.copies]

\* Everything that is priced and later printed, document by document (a READY
\* document's bytes never change: its id stands for them).
buildSettingsManifest(input, rows, caps) ==
  [paperSize |-> input.paperSize, capabilityVersion |-> caps.version,
   files |-> [i \in DOMAIN rows |->
     [fileId |-> rows[i].fileId, pageCount |-> rows[i].pageCount, ranges |-> rows[i].ranges,
      copies |-> rows[i].copies, duplex |-> rows[i].duplex]]]

normalizePrintSettings(input, files, caps) ==
  LET order == input.order
      wrong == {i \in DOMAIN order : selectionError(input, order[i], files, caps) # "none"}
      rows == [i \in DOMAIN order |-> normalizedFile(input, i - 1, files)]
      Total(field) == Sum([i \in DOMAIN rows |-> rows[i][field]])
  IN IF input.paperSize \notin caps.paperSizes \/ "MONOCHROME" \notin caps.colorModes
     THEN RuleRefused("UNSUPPORTED_PRINT_SETTING")
     ELSE IF Len(order) # Cardinality(DOMAIN files) \/ ~IsInjective(order)
     THEN RuleRefused("FILE_ORDER_INVALID")
     ELSE IF Len(input.selections) # Len(order)
             \/ Cardinality(Ids(input.selections)) # Len(input.selections)
     THEN RuleRefused("FILE_SELECTION_INVALID")
     ELSE IF wrong # {} THEN RuleRefused(selectionError(input, order[Min(wrong)], files, caps))
     ELSE IF Total("selectedPages") > MaxSelectedPages
     THEN RuleRefused("SELECTED_PAGE_LIMIT_EXCEEDED")
     ELSE IF Total("sides") > MaxPrintedSides THEN RuleRefused("PRINTED_SIDE_LIMIT_EXCEEDED")
     ELSE [stored |-> TRUE, error |-> "none", paperSize |-> input.paperSize, files |-> rows,
           selectedPages |-> Total("selectedPages"), sides |-> Total("sides"),
           sheets |-> Total("sheets"), manifest |-> buildSettingsManifest(input, rows, caps)]

\* What a stored revision would be asked for again.
readSelections(revision) ==
  [order |-> [i \in DOMAIN revision.files |-> revision.files[i].fileId],
   paperSize |-> revision.paperSize,
   selections |-> [i \in DOMAIN revision.files |->
     [fileId |-> revision.files[i].fileId, text |-> revision.files[i].text,
      copies |-> revision.files[i].copies, duplex |-> revision.files[i].duplex]]]

assertManifestUnchanged(revision) ==
  LET again == normalizePrintSettings(readSelections(revision), documents, Offered)
  IN again.stored /\ again.manifest = revision.manifest

-----------------------------------------------------------------------------
\* Pricing.  Every division rounds once, on the magnitude.
Magnitude(n) == IF n < 0 THEN -n ELSE n
applyBasisPoints(amount, points, rounding) ==
  LET product == amount * points
      quotient == Magnitude(product) \div Scale
      remainder == Magnitude(product) % Scale
      up == \/ rounding = "AWAY_FROM_ZERO" /\ remainder > 0
            \/ rounding = "HALF_UP" /\ remainder * 2 >= Scale
            \/ rounding = "HALF_EVEN" /\ \/ remainder * 2 > Scale
                                         \/ remainder * 2 = Scale /\ quotient % 2 = 1
  IN (IF product < 0 THEN -1 ELSE 1) * (quotient + IF up THEN 1 ELSE 0)

selectPricingRule(ruleSet, paperSize) ==
  LET matching == {i \in DOMAIN ruleSet.rules : ruleSet.rules[i].paperSize = paperSize}
      top == {i \in matching : \A k \in matching : ruleSet.rules[k].priority <= ruleSet.rules[i].priority}
  IN ruleSet.rules[Min(top)]

assertUsage(usage) ==
  /\ usage.sides >= 1 /\ usage.sheets \in 1..usage.sides
  /\ usage.documents # <<>> /\ \A i \in DOMAIN usage.documents : usage.documents[i].sides >= 1
  /\ Sum([i \in DOMAIN usage.documents |-> usage.documents[i].sides]) = usage.sides

\* Each document printed on both sides is adjusted, and rounded, on its own.
duplexAdjustment(ruleSet, rule, usage) ==
  Sum([i \in DOMAIN usage.documents |->
        IF usage.documents[i].duplex
        THEN applyBasisPoints(usage.documents[i].sides * rule.unit, rule.duplexPoints,
                              ruleSet.rounding)
        ELSE 0])

calculateQuote(ruleSet, usage) ==
  LET rule == selectPricingRule(ruleSet, usage.paperSize)
      print == usage.sides * rule.unit
      duplex == duplexAdjustment(ruleSet, rule, usage)
      floored == Max({print + duplex + rule.fee, 0})
      early == ruleSet.minimumApplication = "BEFORE_TAX"
      subtotal == IF early THEN Max({floored, rule.minimum}) ELSE floored
      tax == applyBasisPoints(subtotal, rule.taxPoints, ruleSet.rounding)
      total == IF early THEN subtotal + tax ELSE Max({subtotal + tax, rule.minimum})
  IN IF ~assertUsage(usage) THEN RuleRefused("PRICING_USAGE_INVALID")
     ELSE IF \A i \in DOMAIN ruleSet.rules : ruleSet.rules[i].paperSize # usage.paperSize
     THEN RuleRefused("PRICING_RULE_NOT_FOUND")
     ELSE IF print > MaxQuoteAmount \/ total > MaxQuoteAmount
     THEN RuleRefused("PRICING_AMOUNT_LIMIT_EXCEEDED")
     ELSE [stored |-> TRUE, error |-> "none", print |-> print, duplex |-> duplex, fee |-> rule.fee,
           minimum |-> IF early THEN subtotal - floored ELSE total - (subtotal + tax),
           subtotal |-> subtotal, tax |-> tax, total |-> total]

\* The usage a quote is built from: what the stored revision recorded.
readStoredDocumentUsage(revision) ==
  [i \in DOMAIN revision.files |->
     [duplex |-> revision.files[i].duplex # "SIMPLEX", sides |-> revision.files[i].sides]]
usageOf(revision) ==
  [paperSize |-> revision.paperSize, documents |-> readStoredDocumentUsage(revision),
   sides |-> revision.sides, sheets |-> revision.sheets]

-----------------------------------------------------------------------------
Refuse(code) ==
  /\ refusal' = code /\ request' = NotStored
  /\ UNCHANGED <<declared, version, documents, settings, quote, job, moved>>

\* PUT settings: a new revision, and no price for it yet.
updateSettings(input) ==
  LET normalized == normalizePrintSettings(input, documents, Offered)
  IN /\ ~job.stored /\ updates < MaxUpdates /\ updates' = updates + 1
     /\ \/ ~normalized.stored /\ Refuse(normalized.error)
        \/ /\ normalized.stored /\ settings' = normalized /\ request' = input
           /\ quote' = NotStored /\ refusal' = "none" /\ moved' = 0
           /\ UNCHANGED <<declared, version, documents, job>>

\* POST quotes: only for material that is still what the revision described.
\* (Asked again, the service returns the quote it has.)
createQuote(ruleSet) ==
  LET priced == calculateQuote(ruleSet, usageOf(settings))
  IN /\ settings.stored /\ ~quote.stored /\ request' = NotStored /\ UNCHANGED updates
     /\ \/ ~assertManifestUnchanged(settings) /\ Refuse("DOCUMENTS_CHANGED")
        \/ assertManifestUnchanged(settings) /\ ~priced.stored /\ Refuse(priced.error)
        \/ /\ assertManifestUnchanged(settings) /\ priced.stored
           /\ quote' = [stored |-> TRUE, tariff |-> ruleSet, manifest |-> settings.manifest, price |-> priced]
           /\ refusal' = "none"
           /\ UNCHANGED <<declared, version, documents, settings, job, moved>>

\* POST print-jobs, once the quote is paid: the documents must still be the ones
\* that were priced, and each row travels with its own settings.
resolveDocuments ==
  \A i \in DOMAIN settings.files :
    LET row == settings.files[i]
    IN row.fileId \in DOMAIN documents /\ documents[row.fileId] = row.pageCount
ByPosition(a, b) == a.position < b.position
createPrintJob ==
  /\ quote.stored /\ ~job.stored /\ request' = NotStored /\ UNCHANGED updates
  /\ \/ ~(settings.manifest = quote.manifest /\ resolveDocuments)
          /\ Refuse("PRINT_ARTIFACT_UNAVAILABLE")
     \/ /\ settings.manifest = quote.manifest /\ resolveDocuments
        /\ job' = [stored |-> TRUE, sides |-> settings.sides, sheets |-> settings.sheets,
                   documents |-> Arranged(settings.files, ByPosition)]
        /\ refusal' = "none"
        /\ UNCHANGED <<declared, version, documents, settings, quote, moved>>

\* (Changes before the settings are another beginning.)
\* The device declares something else; the kiosk's version moves with its hash.
reportCapabilities(d) ==
  /\ settings.stored /\ moved < MaxWorldChanges /\ ~job.stored
  /\ declared' = d /\ moved' = moved + 1 /\ request' = NotStored
  /\ version' = version +
       IF mapDeviceCapabilities(d) = mapDeviceCapabilities(declared) THEN 0 ELSE 1
  /\ UNCHANGED <<documents, settings, quote, job, refusal, updates>>

\* DELETE files: a first transaction takes the document away, and a second one,
\* once its bytes are gone, retires the settings and the price that named it.
deleteDocument(id) ==
  /\ settings.stored /\ moved < MaxWorldChanges /\ ~job.stored
  /\ documents' = [other \in DOMAIN documents \ {id} |-> documents[other]]
  /\ moved' = moved + 1 /\ request' = NotStored
  /\ UNCHANGED <<declared, version, settings, quote, job, refusal, updates>>

retireSessionPricing ==
  /\ settings.stored /\ ~job.stored /\ ~(Ids(settings.files) \subseteq DOMAIN documents)
  /\ settings' = NotStored /\ quote' = NotStored /\ request' = NotStored
  /\ UNCHANGED <<declared, version, documents, job, refusal, moved, updates>>

RulesInit ==
  /\ declared \in Declarations /\ version = 1
  /\ documents \in FileSets
  /\ request = NotStored /\ settings = NotStored /\ quote = NotStored /\ job = NotStored
  /\ refusal = "none" /\ moved = 0 /\ updates = 0

RulesNext ==
  \/ \E input \in Requests : updateSettings(input)
  \/ \E ruleSet \in RuleSets : createQuote(ruleSet)
  \/ createPrintJob
  \/ \E d \in Declarations : reportCapabilities(d)
  \/ \E id \in DOMAIN documents : deleteDocument(id)
  \/ retireSessionPricing

RulesSpec == RulesInit /\ [][RulesNext]_rulesVars

-----------------------------------------------------------------------------
\* What the three calls may answer.
RulesAnswers ==
  {"none", "UNSUPPORTED_PRINT_SETTING", "FILE_ORDER_INVALID", "FILE_SELECTION_INVALID",
   "COPIES_OUT_OF_RANGE", "PAGE_RANGE_INVALID", "PAGE_RANGE_OUT_OF_BOUNDS",
   "SELECTED_PAGE_LIMIT_EXCEEDED", "PRINTED_SIDE_LIMIT_EXCEEDED", "DOCUMENTS_CHANGED",
   "PRICING_USAGE_INVALID", "PRICING_RULE_NOT_FOUND", "PRICING_AMOUNT_LIMIT_EXCEEDED",
   "PRINT_ARTIFACT_UNAVAILABLE"}
RulesTypeOK ==
  /\ declared \in Declarations /\ version \in Nat /\ moved \in 0..MaxWorldChanges
  /\ updates \in 0..MaxUpdates
  /\ settings.stored \in BOOLEAN /\ quote.stored \in BOOLEAN /\ job.stored \in BOOLEAN
  /\ refusal \in RulesAnswers

\* The pages a text asks for, as a set.
PagesAsked(text, pageCount) ==
  IF text = <<>> THEN 1..pageCount
  ELSE UNION {SegmentStart(text[i]) .. SegmentEnd(text[i]) : i \in DOMAIN text}

\* A set of pages as its maximal runs, in order.
IsRuns(ranges, pages) ==
  /\ pages = UNION {ranges[i][1] .. ranges[i][2] : i \in DOMAIN ranges}
  /\ \A i \in DOMAIN ranges : ranges[i][1] <= ranges[i][2]
  /\ \A i \in 1 .. Len(ranges) - 1 : ranges[i][2] + 1 < ranges[i + 1][1]

SidesOf(rows) == Sum([i \in DOMAIN rows |-> Cardinality(
  UNION {rows[i].ranges[k][1] .. rows[i].ranges[k][2] : k \in DOMAIN rows[i].ranges}) * rows[i].copies])

\* A page is counted once however it is asked for.  A revision's ranges are the
\* maximal runs of the set of pages the customer's text names, so texts that name
\* the same pages share a manifest and a price; while nothing has changed, the
\* stored text is read back as the same manifest, so the price is not refused as
\* stale; the totals are those of the sets; a count the pricing would refuse
\* never reaches it; and the print job that is paid for makes the priced number
\* of sides of the very documents that were priced, each the way the device
\* declared it can.  One promise is not kept and left out: a device that declares
\* no A4 at all is still offered as an A4 printer (readPrinterCapabilities).
PagesAreCountedOnce ==
  /\ request # NotStored => \A i \in DOMAIN settings.files :
       LET row == settings.files[i]
       IN IsRuns(row.ranges, PagesAsked(Selection(request, row.fileId).text, row.pageCount))
  /\ settings.stored => /\ moved = 0 => assertManifestUnchanged(settings)
                        /\ settings.sides = SidesOf(settings.files)
                        /\ 2 * settings.sheets >= settings.sides /\ settings.sheets <= settings.sides
  /\ refusal # "PRICING_USAGE_INVALID"
  /\ job.stored => /\ SidesOf(job.documents) = job.sides
                   /\ \A i \in DOMAIN job.documents :
                        /\ job.documents[i].position = i - 1
                        /\ job.documents[i].fileId \in DOMAIN documents
                        /\ moved = 0 /\ job.documents[i].duplex = "LONG_EDGE" =>
                             declared.duplexUnit \/ "two_sided_long_edge" \in declared.sides

\* Rounding as the contract states it, without computing it.
RoundedTo(product, rounding, result) ==
  LET off == Magnitude(product - result * Scale)
      outward == Magnitude(result * Scale) >= Magnitude(product)
  IN /\ rounding = "TOWARD_ZERO" => off < Scale /\ (off > 0 => ~outward)
     /\ rounding = "AWAY_FROM_ZERO" => off < Scale /\ outward
     /\ rounding \in {"HALF_UP", "HALF_EVEN"} => 2 * off <= Scale
     /\ rounding = "HALF_UP" /\ 2 * off = Scale => outward
     /\ rounding = "HALF_EVEN" /\ 2 * off = Scale => result % 2 = 0

\* One more side of one document.
WithOneMore(usage, i) ==
  [usage EXCEPT !.sides = @ + 1, !.sheets = @ + 1, !.documents[i].sides = @ + 1]

\* The price is explained by its parts and nobody pays less for more.  The
\* breakdown adds up to the total, tax and every duplex adjustment are rounded as
\* the tariff says, the total is never negative nor below the published minimum,
\* only double-sided documents are adjusted, by no more than they cost; and
\* adding a side to any document never lowers the total, whatever the tariff, the
\* discount and the rounding (duplex discounts up to the whole price, with each
\* document rounded on its own, and a minimum before or after tax).
PriceIsFair ==
  quote.stored =>
    LET usage == usageOf(settings)
        ruleSet == quote.tariff
        rule == selectPricingRule(ruleSet, usage.paperSize)
        doubleSided == {i \in DOMAIN usage.documents : usage.documents[i].duplex}
        duplexSides == Sum([i \in doubleSided |-> usage.documents[i].sides])
        price == quote.price
    IN /\ price.subtotal = Max({price.print + price.duplex + price.fee, 0})
            + IF ruleSet.minimumApplication = "BEFORE_TAX" THEN price.minimum ELSE 0
       /\ price.total = price.subtotal + price.tax
            + IF ruleSet.minimumApplication = "AFTER_TAX" THEN price.minimum ELSE 0
       /\ price.minimum >= 0 /\ price.total >= rule.minimum
       /\ RoundedTo(price.subtotal * rule.taxPoints, ruleSet.rounding, price.tax)
       /\ Magnitude(price.duplex) <= duplexSides * rule.unit
       /\ Cardinality(doubleSided) = 1 =>
            RoundedTo(duplexSides * rule.unit * rule.duplexPoints, ruleSet.rounding, price.duplex)
       /\ \A i \in DOMAIN usage.documents :
            LET more == calculateQuote(ruleSet, WithOneMore(usage, i))
            IN more.stored => more.total >= price.total

\* What is asked for, priced and printed is one thing, at one fair price.
PrintsAsPriced == RulesTypeOK /\ PagesAreCountedOnce /\ PriceIsFair
=============================================================================
