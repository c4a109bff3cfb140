-------------------------- MODULE MachineRoomProofs --------------------------
(***************************************************************************)
(* What holds of the machinery behind the counter for every value of its   *)
(* constants.  The parts keep separate state and are proved one by one,    *)
(* each from its own specification.                                        *)
(***************************************************************************)
EXTENDS DevicePlane, PrinterAdapters, CounterWatch, ObjectStore, DocumentPipeline, Deployment,
        SumTheorems, SequenceTheorems, TLAPS
LOCAL INSTANCE SequencesExt

-----------------------------------------------------------------------------
(* The page counter: any job, any other jobs, any patience that is longer   *)
(* before the first mark than after it.                                     *)

Engines == [count : Nat, printed : 0 .. Expected, foreign : 0 .. MaxForeign,
            fault : BOOLEAN, flat : Nat]
Watches == [step : {"before", "printing", "watching", "done"}, before : Int, latest : Int,
            highest : Int, still : Nat, silent : 0 .. SilentReads, polls : 0 .. MaxPolls]

Marks == engine.printed + engine.foreign
Cleared == engine.count < Baseline

\* Until it is cleared the counter is its start plus every mark made, and it is
\* cleared once at most.
EngineInv ==
  /\ ~Cleared => engine.count = Baseline + Marks
  /\ Cleared => engine.count <= Marks

\* The baseline was read before any page of this job was marked.
BaselineInv ==
  watch.before # NoReading => watch.before >= Baseline /\ watch.before <= Baseline + engine.foreign

\* The readings counted as still were taken of a flat counter, and the one that saw
\* the last mark came before them; a later mark makes the next reading a move.
PatienceInv ==
  /\ watch.before <= watch.highest /\ watch.highest <= Baseline + Marks
  /\ \/ Cleared
     \/ engine.count > watch.highest
     \/ watch.still + (IF Started(watch.highest) THEN 1 ELSE 0) <= engine.flat

CounterInv ==
  /\ engine \in Engines /\ watch \in Watches
  /\ evidence \in {"none", "SHORTFALL", "SUFFICIENT", "UNKNOWN"}
  /\ result \in {"none", "CONFIRMED", "UNCONFIRMED"}
  /\ EngineInv
  /\ watch.step = "before" =>
       ~Cleared /\ engine.printed = 0 /\ watch.before = NoReading
  /\ watch.step \in {"before", "printing"} =>
       watch.still = 0 /\ watch.silent = 0 /\ watch.polls = 0 /\ watch.highest = watch.before
  /\ BaselineInv
  /\ watch.step = "watching" => watch.before # NoReading /\ PatienceInv

\* A cleared counter and what it can still count stay below every baseline.
LEMMA CounterBounds ==
  /\ Expected \in Nat /\ Expected > 0 /\ MaxForeign \in Nat /\ MaxPolls \in Nat
  /\ StillReads \in Nat /\ StillReads > 0 /\ StartupReads \in Nat /\ StartupReads > StillReads
  /\ SilentReads \in Nat /\ SilentReads > 0
  /\ Baseline \in Nat /\ Baseline = Expected + MaxForeign + 1
BY CounterWatchAssumption DEF Baseline

LEMMA InitCounterInv == CounterInit => CounterInv
BY CounterBounds DEF CounterInit, CounterInv, Engines, Watches, EngineInv, BaselineInv, Marks,
   Cleared, NoReading

\* The invariant on numbers instead of records.
LEMMA CounterNumbers ==
  ASSUME CounterInv
  PROVE  /\ engine.count \in Nat /\ engine.printed \in Nat /\ engine.foreign \in Nat
         /\ engine.printed <= Expected /\ engine.foreign <= MaxForeign
         /\ engine.fault \in BOOLEAN /\ engine.flat \in Nat
         /\ watch.before \in Int /\ watch.highest \in Int /\ watch.still \in Nat
         /\ watch.silent \in 0 .. SilentReads /\ watch.polls \in 0 .. MaxPolls
BY CounterBounds DEF CounterInv, Engines, Watches

\* One step of the reader that takes no reading.
LEMMA ReaderKeepsInv ==
  ASSUME CounterInv,
         readMarker \/ confirmAgainstMarker \/ readNothing \/ observationExpires
  PROVE  CounterInv'
<1> USE CounterBounds, CounterNumbers
<1>1. CASE readMarker
  <2>1. PICK seen \in {NoReading, engine.count} :
          watch' = [watch EXCEPT !.step = "printing", !.before = seen, !.highest = seen]
    BY <1>1 DEF readMarker
  <2>2. watch.step = "before" /\ UNCHANGED <<engine, evidence, result>>
    BY <1>1 DEF readMarker
  <2>3. seen \in Int
    BY <2>1 DEF NoReading
  <2>4. /\ watch' \in Watches /\ watch'.step = "printing" /\ watch'.before = seen
        /\ watch'.highest = seen /\ watch'.still = 0 /\ watch'.silent = 0 /\ watch'.polls = 0
    BY <2>1, <2>2, <2>3 DEF CounterInv, Watches
  <2>5. engine.count = Baseline + Marks /\ engine.printed = 0
    BY <2>2 DEF CounterInv, EngineInv
  <2>6. seen # NoReading => seen >= Baseline /\ seen <= Baseline + engine.foreign
    BY <2>1, <2>5 DEF Marks
  <2> QED
    BY <2>2, <2>4, <2>6 DEF CounterInv, EngineInv, BaselineInv, Marks, Cleared
<1>2. CASE confirmAgainstMarker
  <2>1. /\ watch.step = "printing" /\ engine' = engine
        /\ \/ watch' = [watch EXCEPT !.step = "done"] /\ evidence' = "UNKNOWN"
           \/ watch' = [watch EXCEPT !.step = "watching"] /\ evidence' = evidence /\ watch.before # NoReading
        /\ result' \in {"CONFIRMED", "UNCONFIRMED"}
    BY <1>2 DEF confirmAgainstMarker
  <2>2. /\ watch' \in Watches /\ watch'.step \in {"watching", "done"} /\ watch'.before = watch.before
        /\ watch'.highest = watch.highest /\ watch'.still = watch.still
        /\ watch'.step = "watching" => watch.before # NoReading
    BY <2>1 DEF CounterInv, Watches
  <2>3. /\ watch.still = 0 /\ watch.highest = watch.before
        /\ watch.before # NoReading => watch.before <= Baseline + Marks
    BY <2>1 DEF CounterInv, BaselineInv, Marks
  <2> QED
    BY <2>1, <2>2, <2>3 DEF CounterInv, EngineInv, BaselineInv, PatienceInv, Started, Marks, Cleared
<1>3. CASE readNothing \/ observationExpires
  <2>1. /\ watch.step = "watching" /\ engine' = engine
        /\ \/ watch' = [watch EXCEPT !.step = "done"] /\ evidence' = "UNKNOWN"
           \/ /\ watch' = [watch EXCEPT !.silent = @ + 1, !.polls = @ + 1] /\ evidence' = evidence
              /\ watch.polls < MaxPolls /\ watch.silent + 1 < SilentReads
        /\ result' = result
    BY <1>3 DEF readNothing, observationExpires, InTime, Conclude, MoreSilent, applyMarkerEvidence
  <2>2. /\ watch' \in Watches /\ watch'.step \in {"watching", "done"} /\ watch'.before = watch.before
        /\ watch'.highest = watch.highest /\ watch'.still = watch.still
    <3>1. CASE watch' = [watch EXCEPT !.step = "done"]
      BY <3>1 DEF CounterInv, Watches
    <3>2. CASE /\ watch' = [watch EXCEPT !.silent = @ + 1, !.polls = @ + 1]
               /\ watch.polls < MaxPolls /\ watch.silent + 1 < SilentReads
      <4>1. watch.polls + 1 \in 0 .. MaxPolls /\ watch.silent + 1 \in 0 .. SilentReads
        BY <3>2
      <4> QED
        BY <2>1, <3>2, <4>1 DEF CounterInv, Watches
    <3> QED
      BY <2>1, <3>1, <3>2
  <2> QED
    BY <2>1, <2>2 DEF CounterInv, EngineInv, BaselineInv, PatienceInv, Started, Marks, Cleared
<1> QED
  BY <1>1, <1>2, <1>3

\* The engine marks paper, which makes the next reading a move, or is cleared, after
\* which no reading is short.
LEMMA EngineKeepsInv ==
  ASSUME CounterInv, enginePrints \/ foreignPrint \/ faultChanges \/ counterCleared
  PROVE  CounterInv'
<1> USE CounterBounds, CounterNumbers
<1>1. CASE enginePrints \/ foreignPrint
  <2>1. /\ \/ /\ watch.step # "before" /\ engine.printed < Expected
              /\ engine' = [engine EXCEPT !.count = @ + 1, !.printed = @ + 1, !.flat = 0]
           \/ /\ engine.foreign < MaxForeign
              /\ engine' = [engine EXCEPT !.count = @ + 1, !.foreign = @ + 1, !.flat = 0]
        /\ UNCHANGED <<watch, evidence, result>>
    BY <1>1 DEF enginePrints, foreignPrint
  <2>2. /\ engine' \in Engines /\ engine'.count = engine.count + 1
        /\ engine'.printed + engine'.foreign = Marks + 1
        /\ engine'.foreign \in Nat /\ engine'.foreign >= engine.foreign
        /\ watch.step = "before" => engine'.printed = engine.printed
    <3>1. CASE /\ watch.step # "before" /\ engine.printed < Expected
               /\ engine' = [engine EXCEPT !.count = @ + 1, !.printed = @ + 1, !.flat = 0]
      <4>1. engine.printed + 1 \in 0 .. Expected /\ engine.count + 1 \in Nat
        BY <3>1
      <4>2. engine \in Engines
        BY DEF CounterInv
      <4>3. engine' \in Engines
        BY <3>1, <4>1, <4>2 DEF Engines
      <4>4. /\ engine'.count = engine.count + 1
            /\ engine'.printed = engine.printed + 1
            /\ engine'.foreign = engine.foreign
        BY <3>1, <4>2 DEF Engines
      <4> QED
        BY <3>1, <4>3, <4>4 DEF Marks
    <3>2. CASE /\ engine.foreign < MaxForeign
               /\ engine' = [engine EXCEPT !.count = @ + 1, !.foreign = @ + 1, !.flat = 0]
      <4>1. engine.foreign + 1 \in 0 .. MaxForeign /\ engine.count + 1 \in Nat
        BY <3>2
      <4>2. engine \in Engines
        BY DEF CounterInv
      <4>3. engine' \in Engines
        BY <3>2, <4>1, <4>2 DEF Engines
      <4>4. /\ engine'.count = engine.count + 1
            /\ engine'.printed = engine.printed
            /\ engine'.foreign = engine.foreign + 1
        BY <3>2, <4>2 DEF Engines
      <4> QED
        BY <3>2, <4>3, <4>4 DEF Marks
    <3> QED
      BY <2>1, <3>1, <3>2
  <2>3. Marks \in Nat /\ Marks + 1 < Baseline
    BY <2>1 DEF Marks
  <2>4. EngineInv' /\ (Cleared' <=> Cleared)
    BY <2>2, <2>3 DEF CounterInv, EngineInv, Marks, Cleared
  <2>5. BaselineInv'
    BY <2>1, <2>2 DEF CounterInv, BaselineInv
  <2>6. watch.step = "watching" => PatienceInv'
    BY <2>1, <2>2, <2>3, <2>4 DEF CounterInv, EngineInv, PatienceInv, Marks, Cleared
  <2> QED
    BY <2>1, <2>2, <2>4, <2>5, <2>6 DEF CounterInv
<1>2. CASE faultChanges
  <2>1. engine' = [engine EXCEPT !.fault = ~@] /\ UNCHANGED <<watch, evidence, result>>
    BY <1>2 DEF faultChanges
  <2>2. /\ engine' \in Engines /\ engine'.count = engine.count /\ engine'.printed = engine.printed
        /\ engine'.foreign = engine.foreign /\ engine'.flat = engine.flat
    BY <2>1 DEF CounterInv, Engines
  <2> QED
    BY <2>1, <2>2 DEF CounterInv, EngineInv, BaselineInv, PatienceInv, Started, Marks, Cleared
<1>3. CASE counterCleared
  <2>1. /\ watch.step # "before" /\ UNCHANGED <<watch, evidence, result>>
        /\ engine' = [engine EXCEPT !.count = 0]
    BY <1>3 DEF counterCleared
  <2>2. /\ engine' \in Engines /\ engine'.count = 0 /\ engine'.printed = engine.printed
        /\ engine'.foreign = engine.foreign
    BY <2>1 DEF CounterInv, Engines
  <2> QED
    BY <2>1, <2>2 DEF CounterInv, EngineInv, BaselineInv, PatienceInv, Started, Marks, Cleared
<1> QED
  BY <1>1, <1>2, <1>3

\* A reading either ends the watch with a verdict or goes on with one flat reading
\* more, or none.
LEMMA ObservationKeepsInv ==
  ASSUME CounterInv, observeMarker
  PROVE  CounterInv'
<1> USE CounterBounds, CounterNumbers
<1> PICK sameUnit \in BOOLEAN :
     LET moved == engine.count > watch.highest
         highest == IF moved THEN engine.count ELSE watch.highest
         still == IF moved THEN 0 ELSE watch.still + 1
         verdict == readMarkerEvidence(watch.before, engine.count, sameUnit)
     IN IF verdict # "SHORTFALL" \/ stoppedShort(highest, still)
        THEN Conclude(verdict)
        ELSE /\ watch' = [watch EXCEPT !.latest = engine.count, !.highest = highest,
                            !.still = still, !.silent = 0, !.polls = @ + 1]
             /\ UNCHANGED <<evidence, result>>
  BY DEF observeMarker
<1> DEFINE verdict == readMarkerEvidence(watch.before, engine.count, sameUnit)
<1>1. verdict \in {"UNKNOWN", "SHORTFALL", "SUFFICIENT"}
  BY DEF readMarkerEvidence
<1>2. watch.step = "watching" /\ watch.polls < MaxPolls /\ engine' = [engine EXCEPT !.flat = @ + 1]
  BY DEF observeMarker, InTime
<1>3. /\ engine' \in Engines /\ engine'.count = engine.count /\ engine'.printed = engine.printed
      /\ engine'.foreign = engine.foreign /\ engine'.flat = engine.flat + 1
  BY <1>2 DEF CounterInv, Engines
<1>4. EngineInv' /\ (Cleared' <=> Cleared) /\ Marks' = Marks
  BY <1>3 DEF CounterInv, EngineInv, Cleared, Marks
<1>5. CASE Conclude(verdict)
  <2> HIDE DEF verdict
  <2>1. watch' \in Watches /\ watch'.step = "done" /\ watch'.before = watch.before
    BY <1>5 DEF Conclude, CounterInv, Watches
  <2>2. BaselineInv'
    BY <2>1, <1>3 DEF CounterInv, BaselineInv
  <2> QED
    BY <1>1, <1>3, <1>4, <1>5, <2>1, <2>2 DEF CounterInv, Conclude, applyMarkerEvidence
<1>6. CASE ~Conclude(verdict)
  <2>1. verdict = "SHORTFALL" /\ UNCHANGED <<evidence, result>>
    BY <1>6
  <2> DEFINE h == IF engine.count > watch.highest THEN engine.count ELSE watch.highest
             n == IF engine.count > watch.highest THEN 0 ELSE watch.still + 1
  <2>2. watch' = [watch EXCEPT !.latest = engine.count, !.highest = h,
                               !.still = n, !.silent = 0, !.polls = @ + 1]
    BY <1>6
  <2>3. /\ h \in Int /\ n \in Nat
        /\ \/ engine.count > watch.highest /\ h = engine.count /\ n = 0
           \/ engine.count <= watch.highest /\ h = watch.highest /\ n = watch.still + 1
    OBVIOUS
  <2> HIDE DEF h, n
  <2>4. /\ watch' \in Watches /\ watch'.step = "watching" /\ watch'.before = watch.before
        /\ watch'.highest = h /\ watch'.still = n
    <3>1. /\ engine.count \in Int /\ n \in Nat /\ 0 \in 0 .. SilentReads
          /\ watch.polls + 1 \in 0 .. MaxPolls
      BY <1>2, <2>3
    <3> QED
      BY <1>2, <2>2, <2>3, <3>1 DEF CounterInv, Watches
  <2>5. BaselineInv'
    BY <2>4, <1>3 DEF CounterInv, BaselineInv
  <2>6. watch.before # NoReading /\ PatienceInv
    BY <1>2 DEF CounterInv
  <2>7. Cleared => engine.count <= Marks
    BY DEF CounterInv, EngineInv
  <2>8. ~Cleared => engine.count = Baseline + Marks
    BY DEF CounterInv, EngineInv
  <2>9. watch.before <= h /\ h <= Baseline + Marks
    BY <2>3, <2>6, <2>7, <2>8 DEF PatienceInv, Cleared, Marks
  <2>10. Cleared \/ n + (IF h > watch.before THEN 1 ELSE 0) <= engine.flat + 1
    BY <2>3, <2>6, <2>8 DEF PatienceInv, Cleared, Marks, Started
  <2>11. PatienceInv'
    BY <1>3, <1>4, <2>4, <2>9, <2>10 DEF PatienceInv, Started
  <2> QED
    BY <1>3, <1>4, <2>1, <2>4, <2>5, <2>6, <2>11 DEF CounterInv
<1> QED
  BY <1>5, <1>6

LEMMA StepCounterInv == CounterInv /\ [CounterNext]_counterVars => CounterInv'
<1> SUFFICES ASSUME CounterInv, [CounterNext]_counterVars PROVE CounterInv'
  OBVIOUS
<1>1. CASE UNCHANGED counterVars
  BY <1>1 DEF counterVars, CounterInv, EngineInv, BaselineInv, PatienceInv, Marks, Cleared, Started
<1>2. CASE CounterNext
  BY <1>2, ReaderKeepsInv, EngineKeepsInv, ObservationKeepsInv DEF CounterNext
<1> QED
  BY <1>1, <1>2

\* What a concluded verdict says of the paper.
PaperStep ==
  evidence' # evidence =>
    /\ evidence' = "SHORTFALL" =>
         /\ engine.printed < Expected /\ result' = "UNCONFIRMED"
         /\ engine'.flat >= PatienceOwed
    /\ evidence' = "SUFFICIENT" /\ engine.foreign = 0 => engine.printed = Expected

LEMMA VerdictIsOfPaper == ASSUME CounterInv, [CounterNext]_counterVars PROVE PaperStep
<1> USE CounterBounds
<1>1. CASE ~observeMarker
  <2>1. evidence' = evidence \/ evidence' = "UNKNOWN"
    BY <1>1 DEF CounterNext, counterVars, readMarker, confirmAgainstMarker, readNothing, Conclude,
       observationExpires, enginePrints, foreignPrint, faultChanges, counterCleared
  <2> QED
    BY <2>1 DEF PaperStep
<1>2. CASE observeMarker
  <2> PICK sameUnit \in BOOLEAN :
       LET moved == engine.count > watch.highest
           highest == IF moved THEN engine.count ELSE watch.highest
           still == IF moved THEN 0 ELSE watch.still + 1
           verdict == readMarkerEvidence(watch.before, engine.count, sameUnit)
       IN IF verdict # "SHORTFALL" \/ stoppedShort(highest, still)
          THEN Conclude(verdict)
          ELSE /\ watch' = [watch EXCEPT !.latest = engine.count, !.highest = highest,
                              !.still = still, !.silent = 0, !.polls = @ + 1]
               /\ UNCHANGED <<evidence, result>>
    BY <1>2 DEF observeMarker
  <2> DEFINE moved == engine.count > watch.highest
             highest == IF moved THEN engine.count ELSE watch.highest
             still == IF moved THEN 0 ELSE watch.still + 1
             verdict == readMarkerEvidence(watch.before, engine.count, sameUnit)
  <2>1. engine'.flat = engine.flat + 1 /\ watch.step = "watching" /\ watch.before # NoReading
    BY <1>2 DEF observeMarker, InTime, CounterInv, Engines
  <2>2. CASE evidence' = evidence
    BY <2>2 DEF PaperStep
  <2>3. CASE evidence' # evidence
    <3>1. Conclude(verdict) /\ (verdict # "SHORTFALL" \/ stoppedShort(highest, still))
      BY <2>3
    <3>2. evidence' = verdict /\ result' = applyMarkerEvidence(result, verdict)
      BY <3>1 DEF Conclude
    <3>3. CASE verdict = "SHORTFALL"
      <4>1. engine.count - watch.before \in 0 .. Expected - 1
        BY <3>3 DEF readMarkerEvidence
      <4>2. /\ engine.count = Baseline + Marks
            /\ watch.before >= Baseline /\ watch.before <= Baseline + engine.foreign
        BY <4>1, <2>1 DEF CounterInv, EngineInv, BaselineInv, Engines, Watches, Cleared, Marks
      <4>3. engine.printed < Expected
        BY <4>1, <4>2 DEF CounterInv, Engines, Watches, Marks
      <4>4. engine.flat + 1 >= PatienceOwed
        <5>1. stoppedShort(highest, still)
          BY <3>1, <3>3
        <5>2. still \in Nat /\ highest \in Int /\ engine.flat \in Nat
          BY DEF CounterInv, Engines, Watches
        <5>3. still + (IF Started(highest) THEN 1 ELSE 0) <= engine.flat + 1
          BY <2>1, <4>2 DEF CounterInv, PatienceInv, Cleared, Started, Engines, Watches, Marks
        <5>4. Marks = 0 => ~Started(highest)
          BY <2>1, <4>2 DEF CounterInv, PatienceInv, Started, Engines, Watches, Marks
        <5> HIDE DEF still, highest
        <5>5. engine.fault \in BOOLEAN
          BY DEF CounterInv, Engines
        <5> QED
          BY <5>1, <5>2, <5>3, <5>4, <5>5 DEF stoppedShort, PatienceOwed, engineHasStopped, Marks
      <4> QED
        BY <2>1, <3>2, <3>3, <4>3, <4>4 DEF PaperStep, applyMarkerEvidence
    <3>4. CASE verdict = "SUFFICIENT"
      <4>1. engine.count - watch.before >= Expected
        BY <3>4, <2>1 DEF readMarkerEvidence, CounterInv, Engines, Watches
      <4>2. engine.foreign = 0 => engine.printed = Expected
        BY <4>1, <2>1 DEF CounterInv, EngineInv, BaselineInv, Engines, Watches, Cleared, Marks
      <4> QED
        BY <3>2, <3>4, <4>2 DEF PaperStep
    <3>5. CASE verdict = "UNKNOWN"
      BY <3>2, <3>5 DEF PaperStep
    <3> QED
      BY <3>3, <3>4, <3>5 DEF readMarkerEvidence
  <2> QED
    BY <2>2, <2>3
<1> QED
  BY <1>1, <1>2

\* The page counter only ever takes a success away from a job that is short of
\* paper, after the patience it is owed, and a counter found sufficient means that
\* every page was marked (print/marker.ts), for any job and any patience that is
\* longer before the first mark than after it.
THEOREM VerdictTellsPaper == CounterSpec => CounterTellsPaper
<1>1. CounterSpec => []CounterInv
  BY InitCounterInv, StepCounterInv, PTL DEF CounterSpec
<1>2. CounterInv => CounterTypeOK
  BY CounterBounds DEF CounterInv, CounterTypeOK, Engines, Watches, EngineInv, Marks, Cleared
<1>3. CounterInv /\ [CounterNext]_counterVars => [PaperStep]_counterVars
  BY VerdictIsOfPaper
<1> QED
  BY <1>1, <1>2, <1>3, PTL DEF CounterSpec, CounterTellsPaper, PaperStep

-----------------------------------------------------------------------------
(* The device plane: any device, any losses, any order of polls and beats   *)

Devices == [condition : Conditions, driver : {"READY", "OFFLINE"}, caps : Capabilities,
            link : {"PINNED", "OTHER", "NONE"}, bound : BOOLEAN, moves : 0 .. MaxMoves]
Sources == [latest : Verdicts, failures : 0 .. FAILURES_BEFORE_UNAVAILABLE,
            stale : BOOLEAN, old : BOOLEAN]
Reporters == [step : {"idle", "read", "heartbeat", "report"}, timer : {"soon", "interval"},
              nudged : BOOLEAN, registered : BOOLEAN, reported : Digests \cup {"nothing"},
              sent : BOOLEAN, reading : Readings]
Registries == [known : BOOLEAN, printers : {<<>>} \cup {<<row>> : row \in Rows},
               caps : Digests, version : 0 .. MaxReports, overtaken : BOOLEAN]
Lates == [report : Reports, version : {n \in 0 .. MaxReports : n < MaxReports}]

PlaneTypes ==
  /\ device \in Devices /\ source \in Sources /\ reporter \in Reporters
  /\ registry \in Registries /\ late \in SUBSET Lates

\* A stored row the gate does not sell on.
Blocked(row) == ~row.approved \/ row.silent \/ row.health = "OFFLINE"
BlockedIn(r) == r.printers # <<>> => Blocked(r.printers[1])

\* What the beat was made of is what the source holds, or the beat will be repeated.
UpToDate(r) == healthSignature(r.reading.verdict) = healthSignature(source.latest)

\* Only a beat that was delivered says so, and what it said of a blocked printer the
\* gate knows.
BeatInv ==
  /\ reporter.step = "idle" => ~reporter.nudged
  /\ reporter.sent => reporter.step \in {"report", "idle"}
  /\ reporter.step # "idle" /\ ~reporter.nudged => UpToDate(reporter)
  /\ reporter.step = "idle" /\ reporter.sent => reporter.timer = "interval" /\ UpToDate(reporter)
  /\ reporter.sent /\ reporter.reading.health = "OFFLINE" /\ registry.known /\ ~registry.overtaken =>
       BlockedIn(registry)

DeviceInv == PlaneTypes /\ BeatInv

LEMMA OneRow ==
  ASSUME NEW r \in Registries, r.printers # <<>>
  PROVE  /\ r.printers[1] \in Rows /\ r.printers = <<r.printers[1]>>
         /\ \A x : [r.printers EXCEPT ![1] = x] = <<x>>
<1>1. PICK row \in Rows : r.printers = <<row>>
  BY DEF Registries
<1>2. \A x : [<<row>> EXCEPT ![1] = x] = <<x>>
  OBVIOUS
<1> QED
  BY <1>1, <1>2

\* The fold answers one of its two inputs.
LEMMA FoldTyped ==
  ASSUME NEW d \in {"READY", "OFFLINE"}, NEW v
  PROVE  applyPrinterTelemetry(d, v) \in Healths
<1> DEFINE other == CASE v.kind = "UNAVAILABLE" -> IF Required /\ v.sustained THEN "OFFLINE" ELSE "READY"
             [] v.paper = "EMPTY" -> "OFFLINE"
             [] v.faults = FaultsUnreported -> "READY"
             [] v.faults \cap BLOCKING_FAULTS # {} -> "OFFLINE"
             [] v.faults \cap ADVISORY_FAULTS # {} -> "WARNING"
             [] OTHER -> "READY"
<1>1. other \in Healths
  BY DEF Healths
<1>2. applyPrinterTelemetry(d, v) = worst(d, other)
  BY DEF applyPrinterTelemetry
<1> HIDE DEF other
<1> QED
  BY <1>1, <1>2 DEF worst, Healths

\* The empty reading, and one look at the machine.
LEMMA NothingReadTyped == NothingRead \in Readings /\ Unavailable(0) \in Verdicts
<1>1. \A n : Unavailable(n) \in Verdicts
  BY DEF Unavailable, Verdicts
<1> QED
  BY <1>1 DEF NothingRead, Readings, Healths, Digests

LEMMA ReadDeviceTyped ==
  ASSUME PlaneTypes
  PROVE  readDevice \in Readings /\ readDevice.verdict = source.latest
<1> DEFINE seen == [NothingRead EXCEPT !.verdict = source.latest, !.old = source.old]
<1>1. source.latest \in Verdicts /\ source.old \in BOOLEAN /\ device.caps \in Digests
      /\ device.driver \in {"READY", "OFFLINE"}
  BY DEF PlaneTypes, Sources, Devices, Digests
<1>2. seen \in Readings /\ seen.verdict = source.latest
  BY <1>1, NothingReadTyped DEF Readings
<1> DEFINE h == applyPrinterTelemetry(device.driver, current)
<1>3. h \in Healths
  BY <1>1, FoldTyped
<1> HIDE DEF seen, h
<1>4. [seen EXCEPT !.approved = TRUE, !.hash = device.caps, !.health = h] \in Readings
  BY <1>1, <1>2, <1>3 DEF Readings
<1>5. [seen EXCEPT !.approved = TRUE, !.hash = device.caps, !.health = h].verdict = source.latest
  BY <1>2 DEF Readings
<1>6. readDevice = IF ~device.bound THEN seen
                   ELSE [seen EXCEPT !.approved = TRUE, !.hash = device.caps, !.health = h]
  BY DEF readDevice, seen, h
<1> QED
  BY <1>2, <1>4, <1>5, <1>6

\* The end of a beat.
LEMMA BeatOverTyped ==
  ASSUME NEW r \in Reporters
  PROVE  /\ BeatOver(r) \in Reporters
         /\ BeatOver(r).step = "idle" /\ ~BeatOver(r).nudged
         /\ BeatOver(r).sent => /\ r.sent /\ ~r.nudged /\ BeatOver(r).timer = "interval"
                                /\ BeatOver(r).reading.verdict = r.reading.verdict
                                /\ BeatOver(r).reading.health = r.reading.health
<1> DEFINE said == [NothingRead EXCEPT !.verdict = r.reading.verdict, !.health = r.reading.health]
<1>1. r.reading \in Readings /\ r.sent \in BOOLEAN /\ r.nudged \in BOOLEAN
  BY DEF Reporters
<1>2. /\ said \in Readings /\ said.verdict = r.reading.verdict /\ said.health = r.reading.health
  BY <1>1, NothingReadTyped DEF Readings
<1> HIDE DEF said
<1> DEFINE t == IF r.nudged THEN "soon" ELSE "interval"
           s == r.sent /\ ~r.nudged
           b == IF r.sent /\ ~r.nudged THEN said ELSE NothingRead
<1>3. t \in {"soon", "interval"} /\ s \in BOOLEAN /\ b \in Readings
  BY <1>1, <1>2, NothingReadTyped
<1>4. BeatOver(r) = [r EXCEPT !.step = "idle", !.nudged = FALSE, !.timer = t, !.sent = s, !.reading = b]
  BY DEF BeatOver, said
<1>5. s => r.sent /\ ~r.nudged /\ t = "interval" /\ b = said
  OBVIOUS
<1> HIDE DEF t, s, b
<1>6. /\ BeatOver(r).step = "idle" /\ BeatOver(r).nudged = FALSE /\ BeatOver(r).timer = t
      /\ BeatOver(r).sent = s /\ BeatOver(r).reading = b
  BY <1>4 DEF Reporters
<1>7. BeatOver(r) \in Reporters
  BY <1>3, <1>4 DEF Reporters
<1> QED
  BY <1>2, <1>5, <1>6, <1>7

\* What a heartbeat stores keeps the registry's types, and what it says of a blocked
\* printer blocks the gate.
LEMMA HeartbeatStores ==
  ASSUME NEW b \in Readings, registry \in Registries
  PROVE  /\ heartbeatStored(b) \in Registries
         /\ heartbeatStored(b).known = registry.known
         /\ b.health = "OFFLINE" => BlockedIn(heartbeatStored(b))
<1>1. CASE ApprovedRow
  <2>1. registry.printers # <<>>
    BY <1>1 DEF ApprovedRow
  <2> DEFINE row == [registry.printers[1] EXCEPT !.health = b.health, !.silent = FALSE, !.old = b.old]
  <2>2. row \in Rows /\ row.health = b.health
    BY <2>1, OneRow DEF Rows, Readings
  <2>3. [registry.printers EXCEPT ![1] = row] = <<row>>
    BY <2>1, OneRow
  <2>4. heartbeatStored(b) = [registry EXCEPT !.printers = [registry.printers EXCEPT ![1] = row],
                                              !.overtaken = FALSE]
    BY <1>1 DEF heartbeatStored
  <2> HIDE DEF row
  <2>5. heartbeatStored(b) = [registry EXCEPT !.printers = <<row>>, !.overtaken = FALSE]
    BY <2>3, <2>4
  <2>6. /\ heartbeatStored(b) \in Registries
        /\ heartbeatStored(b).known = registry.known /\ heartbeatStored(b).printers = <<row>>
    BY <2>2, <2>5 DEF Registries
  <2> QED
    BY <2>2, <2>6 DEF BlockedIn, Blocked
<1>2. CASE ~ApprovedRow
  <2>1. heartbeatStored(b) = registry
    BY <1>2 DEF heartbeatStored
  <2>2. BlockedIn(registry)
    BY <1>2 DEF ApprovedRow, BlockedIn, Blocked
  <2> QED
    BY <2>1, <2>2
<1> QED
  BY <1>1, <1>2

\* The same of a report, taken now or late.
LEMMA ReportStores ==
  ASSUME registry \in Registries,
         NEW b, b.approved \in BOOLEAN, b.health \in Healths, b.hash \in Digests,
         NEW version \in 0 .. MaxReports, version < MaxReports
  PROVE  /\ reportPrinters(b, version) \in Registries
         /\ reportPrinters(b, version).known = registry.known
         /\ b.health = "OFFLINE" => BlockedIn(reportPrinters(b, version))
<1> DEFINE row == [approved |-> b.approved, health |-> b.health,
                   hash |-> b.hash, silent |-> FALSE, old |-> FALSE]
           was == IF ApprovedRow THEN registry.printers[1].hash ELSE NoCapabilities
           kept == registry.printers # <<>> /\ registry.printers[1].old
           stored == IF b.approved THEN [row EXCEPT !.old = kept]
                     ELSE IF registry.printers = <<>> THEN row
                     ELSE [registry.printers[1] EXCEPT !.approved = FALSE, !.hash = NoCapabilities,
                                                       !.health = "OFFLINE"]
           updated == b.approved /\ was # b.hash
           caps == IF updated THEN b.hash ELSE registry.caps
           number == IF updated THEN version + 1 ELSE registry.version
<1>1. reportPrinters(b, version) =
        [registry EXCEPT !.printers = <<stored>>, !.overtaken = FALSE, !.caps = caps, !.version = number]
  BY DEF reportPrinters
<1>2. row \in Rows
  BY DEF Rows
<1>3. kept \in BOOLEAN
  OBVIOUS
<1>4. stored \in Rows /\ (b.health = "OFFLINE" => Blocked(stored))
  <2>1. CASE b.approved
    <3>1. stored = [row EXCEPT !.old = kept]
      BY <2>1
    <3> HIDE DEF kept, stored
    <3> QED
      BY <3>1, <1>2, <1>3 DEF Rows, Blocked
  <2>2. CASE ~b.approved /\ registry.printers = <<>>
    BY <2>2, <1>2 DEF Blocked
  <2>3. CASE ~b.approved /\ registry.printers # <<>>
    <3>1. stored = [registry.printers[1] EXCEPT !.approved = FALSE, !.hash = NoCapabilities,
                                                !.health = "OFFLINE"]
      BY <2>3
    <3>2. registry.printers[1] \in Rows
      BY <2>3, OneRow
    <3> HIDE DEF stored
    <3> QED
      BY <3>1, <3>2 DEF Rows, Blocked, Healths, Digests
  <2> QED
    BY <2>1, <2>2, <2>3
<1>5. registry.caps \in Digests /\ registry.version \in 0 .. MaxReports
  BY DEF Registries
<1>6. version + 1 \in 0 .. MaxReports
  BY DeviceAssumption
<1>7. caps \in Digests /\ number \in 0 .. MaxReports
  BY <1>5, <1>6
<1> HIDE DEF stored, caps, number
<1>8. /\ reportPrinters(b, version) \in Registries
      /\ reportPrinters(b, version).known = registry.known
      /\ reportPrinters(b, version).printers = <<stored>>
  BY <1>1, <1>4, <1>7 DEF Registries
<1> QED
  BY <1>4, <1>8 DEF BlockedIn

\* A nudge wakes an idle reporter, and is remembered by a busy one.
LEMMA NudgeTyped ==
  ASSUME NEW r \in Reporters
  PROVE  /\ nudge(r) \in Reporters /\ nudge(r).step = r.step
         /\ r.step = "idle" => ~nudge(r).sent /\ nudge(r).nudged = r.nudged
         /\ r.step # "idle" => nudge(r).nudged /\ nudge(r).sent = r.sent /\ nudge(r).reading = r.reading
BY NothingReadTyped DEF nudge, Reporters

-----------------------------------------------------------------------------
(* The steps of the device plane *)

LEMMA InitDeviceInv == DeviceInit => DeviceInv
<1> SUFFICES ASSUME DeviceInit PROVE DeviceInv
  OBVIOUS
<1>1. device \in Devices
  <2>1. 0 \in 0 .. MaxMoves
    BY DeviceAssumption
  <2> QED
    BY <2>1 DEF DeviceInit, Devices
<1>2. source \in Sources
  BY DeviceAssumption, NothingReadTyped DEF DeviceInit, Sources
<1>3. reporter \in Reporters
  BY NothingReadTyped DEF DeviceInit, Reporters
<1>4. registry \in Registries
  BY DeviceAssumption DEF DeviceInit, Registries, Digests
<1> QED
  BY <1>1, <1>2, <1>3, <1>4 DEF DeviceInit, DeviceInv, PlaneTypes, BeatInv

LEMMA DeviceMovesKeepsInv == ASSUME DeviceInv, DeviceMoves PROVE DeviceInv'
<1>0. device \in Devices
  BY DEF DeviceInv, PlaneTypes
<1>1. device.moves + 1 \in 0 .. MaxMoves
  <2>1. device.moves \in 0 .. MaxMoves /\ device.moves < MaxMoves
    BY <1>0 DEF Devices, DeviceMoves
  <2> QED
    BY <2>1, DeviceAssumption
<1>2. device' \in Devices
  BY <1>0, <1>1 DEF Devices, DeviceMoves
<1> QED
  BY <1>2 DEF DeviceMoves, DeviceInv, PlaneTypes, BeatInv, UpToDate

LEMMA TimePassesKeepsInv == ASSUME DeviceInv, DeviceTimePasses PROVE DeviceInv'
<1>0. device \in Devices
  BY DEF DeviceInv, PlaneTypes
<1>1. device.moves + 1 \in 0 .. MaxMoves
  <2>1. device.moves \in 0 .. MaxMoves /\ device.moves < MaxMoves
    BY <1>0 DEF Devices, DeviceTimePasses
  <2> QED
    BY <2>1, DeviceAssumption
<1>2. device' \in Devices /\ UNCHANGED <<reporter, late>>
  BY <1>0, <1>1 DEF Devices, DeviceTimePasses
<1>3. CASE source' = [source EXCEPT !.stale = TRUE, !.old = TRUE] /\ registry' = registry
  <2>1. source' \in Sources /\ source'.latest = source.latest
    BY <1>3 DEF DeviceInv, PlaneTypes, Sources
  <2> QED
    BY <1>2, <1>3, <2>1 DEF DeviceInv, PlaneTypes, BeatInv, UpToDate
<1>4. CASE /\ registry.printers # <<>> /\ source' = source
           /\ registry' = [registry EXCEPT !.printers[1].silent = TRUE, !.printers[1].old = TRUE]
  <2>0. registry \in Registries
    BY DEF DeviceInv, PlaneTypes
  <2> DEFINE once == [registry.printers[1] EXCEPT !.silent = TRUE]
             row == [once EXCEPT !.old = TRUE]
  <2>1. once \in Rows /\ row \in Rows /\ row.silent = TRUE
    BY <1>4, <2>0, OneRow DEF Rows
  <2> DEFINE first == [registry EXCEPT !.printers = [registry.printers EXCEPT ![1] = once]]
  <2>2. [registry.printers EXCEPT ![1] = once] = <<once>>
    BY <1>4, <2>0, OneRow
  <2>3. first \in Registries /\ first.printers = <<once>>
    BY <2>0, <2>1, <2>2 DEF Registries
  <2>4. registry' = [first EXCEPT !.printers = [first.printers EXCEPT ![1] = [first.printers[1] EXCEPT !.old = TRUE]]]
    BY <1>4
  <2>5. first.printers[1] = once
    BY <2>3
  <2>6. [first.printers EXCEPT ![1] = row] = <<row>>
    BY <2>3
  <2>7. registry' = [first EXCEPT !.printers = <<row>>]
    BY <2>4, <2>5, <2>6
  <2> HIDE DEF once, row
  <2>8. first.known = registry.known /\ first.overtaken = registry.overtaken
    BY <2>0 DEF Registries
  <2> HIDE DEF first
  <2>9. /\ registry' \in Registries /\ registry'.printers = <<row>>
        /\ registry'.known = registry.known /\ registry'.overtaken = registry.overtaken
    BY <2>1, <2>3, <2>7, <2>8 DEF Registries
  <2>10. BlockedIn(registry')
    BY <2>1, <2>9 DEF BlockedIn, Blocked
  <2> QED
    BY <1>2, <1>4, <2>9, <2>10 DEF DeviceInv, PlaneTypes, BeatInv, UpToDate
<1> QED
  BY <1>3, <1>4 DEF DeviceTimePasses

\* A poll that changes what the fold can say wakes the reporter, at once or after
\* the beat it is in.
LEMMA RecordedKeepsInv ==
  ASSUME DeviceInv, NEW v \in Verdicts, NEW failures \in 0 .. FAILURES_BEFORE_UNAVAILABLE,
         Recorded(v, failures)
  PROVE  DeviceInv'
<1>1. source'.latest = v /\ source' \in Sources /\ UNCHANGED <<device, registry, late>>
  BY DEF Recorded, DeviceInv, PlaneTypes, Sources
<1>2. reporter \in Reporters
  BY DEF DeviceInv, PlaneTypes
<1>3. CASE healthSignature(v) = healthSignature(source.latest)
  <2>1. reporter' = reporter
    BY <1>3 DEF Recorded
  <2> QED
    BY <1>1, <1>3, <2>1 DEF DeviceInv, PlaneTypes, BeatInv, UpToDate
<1>4. CASE healthSignature(v) # healthSignature(source.latest)
  <2>1. reporter' = nudge(reporter)
    BY <1>4 DEF Recorded
  <2> QED
    BY <1>1, <1>2, <2>1, NudgeTyped DEF DeviceInv, PlaneTypes, BeatInv
<1> QED
  BY <1>3, <1>4

LEMMA SnapshotsTyped == ASSUME DeviceInv PROVE Snapshots \subseteq Verdicts
<1>1. device.condition \in [paper : {"PRESENT", "EMPTY", "UNKNOWN"}, faults : SUBSET Faults]
  BY ConditionsAssumption DEF DeviceInv, PlaneTypes, Devices
<1>2. ASSUME NEW columns PROVE buildSnapshot(device.condition, columns) \in Verdicts
  <2> DEFINE paper == IF "inputCurrentLevel" \in columns THEN device.condition.paper ELSE "UNKNOWN"
             faults == IF "errorState" \in columns THEN device.condition.faults ELSE FaultsUnreported
  <2>1. paper \in {"PRESENT", "EMPTY", "UNKNOWN"} /\ faults \in (SUBSET Faults) \cup {FaultsUnreported}
    BY <1>1
  <2>2. buildSnapshot(device.condition, columns) = Snapshot(paper, faults)
    BY DEF buildSnapshot
  <2> HIDE DEF paper, faults
  <2> QED
    BY <2>1, <2>2 DEF Snapshot, Verdicts
<1> QED
  BY <1>2 DEF Snapshots

LEMMA PollKeepsInv == ASSUME DeviceInv, PollTelemetry \/ ReadNow PROVE DeviceInv'
<1>1. source.failures \in 0 .. FAILURES_BEFORE_UNAVAILABLE
  BY DEF DeviceInv, PlaneTypes, Sources
<1>2. ASSUME NEW v \in Snapshots, Recorded(v, 0) \/ Recorded(v, source.failures)
      PROVE  DeviceInv'
  <2>1. v \in Verdicts /\ 0 \in 0 .. FAILURES_BEFORE_UNAVAILABLE
    BY SnapshotsTyped, DeviceAssumption
  <2> QED
    BY <1>1, <1>2, <2>1, RecordedKeepsInv
<1>3. ASSUME NEW n \in 0 .. FAILURES_BEFORE_UNAVAILABLE, Recorded(Unavailable(n), n)
      PROVE  DeviceInv'
  <2>1. Unavailable(n) \in Verdicts
    BY DEF Unavailable, Verdicts
  <2> QED
    BY <1>3, <2>1, RecordedKeepsInv
<1>4. ASSUME PollTelemetry
      PROVE  \/ \E v \in Snapshots : Recorded(v, 0)
             \/ \E n \in 0 .. FAILURES_BEFORE_UNAVAILABLE : Recorded(Unavailable(n), n)
  <2> DEFINE n == IF source.failures < FAILURES_BEFORE_UNAVAILABLE THEN source.failures + 1
                  ELSE source.failures
  <2>1. n \in 0 .. FAILURES_BEFORE_UNAVAILABLE
    BY <1>1, DeviceAssumption
  <2>2. (\E v \in Snapshots : Recorded(v, 0)) \/ Recorded(Unavailable(n), n)
    BY <1>4 DEF PollTelemetry
  <2> HIDE DEF n
  <2> QED
    BY <2>1, <2>2
<1> QED
  BY <1>2, <1>3, <1>4 DEF ReadNow

LEMMA StartBeatKeepsInv == ASSUME DeviceInv, StartBeat PROVE DeviceInv'
<1>1. reporter.step = "idle" /\ UNCHANGED <<device, source, registry, late>>
  BY DEF StartBeat
<1>2. reporter' = [reporter EXCEPT !.step = "read", !.sent = FALSE, !.reading = readDevice]
  BY DEF StartBeat
<1>3. /\ reporter' \in Reporters /\ reporter'.step = "read" /\ reporter'.sent = FALSE
      /\ reporter'.reading = readDevice
  BY <1>2, ReadDeviceTyped DEF DeviceInv, PlaneTypes, Reporters
<1>4. UpToDate(reporter)'
  BY <1>1, <1>3, ReadDeviceTyped DEF UpToDate, DeviceInv
<1> QED
  BY <1>1, <1>3, <1>4 DEF DeviceInv, PlaneTypes, BeatInv

\* A beat that ends without having been delivered owes nothing.
LEMMA BeatEndsUndelivered ==
  ASSUME DeviceInv, NEW r \in Reporters, ~r.sent, reporter' = BeatOver(r), source' = source
  PROVE  reporter' \in Reporters /\ BeatInv'
BY BeatOverTyped DEF BeatInv

LEMMA RegisterKeepsInv == ASSUME DeviceInv, Register PROVE DeviceInv'
<1>1. /\ reporter.step = "read" /\ UNCHANGED <<device, source, late>>
      /\ registry' = registry \/ registry' = registered
  BY DEF Register
<1>2. registry' \in Registries
  BY <1>1 DEF registered, DeviceInv, PlaneTypes, Registries
<1>3. ~reporter.sent /\ reporter \in Reporters
  BY <1>1 DEF DeviceInv, BeatInv, PlaneTypes
<1>4. CASE reporter' = BeatOver(reporter)
  BY <1>1, <1>2, <1>3, <1>4, BeatEndsUndelivered DEF DeviceInv, PlaneTypes
<1>5. CASE \/ reporter' = [reporter EXCEPT !.step = "heartbeat"]
           \/ reporter' = [reporter EXCEPT !.step = "heartbeat", !.registered = TRUE, !.reported = "nothing"]
  <2>1. /\ reporter' \in Reporters /\ reporter'.step = "heartbeat" /\ ~reporter'.sent
        /\ reporter'.nudged = reporter.nudged /\ reporter'.reading = reporter.reading
    BY <1>3, <1>5 DEF Reporters
  <2> QED
    BY <1>1, <1>2, <2>1 DEF DeviceInv, PlaneTypes, BeatInv, UpToDate
<1> QED
  BY <1>4, <1>5 DEF Register

\* A delivered heartbeat has told the registry of a blocked printer before it says it
\* was delivered.
LEMMA HeartbeatKeepsInv == ASSUME DeviceInv, Heartbeat PROVE DeviceInv'
<1> DEFINE b == reporter.reading
<1>1. /\ reporter.step = "heartbeat" /\ UNCHANGED <<device, source, late>>
      /\ reporter \in Reporters /\ registry \in Registries /\ b \in Readings
  BY DEF Heartbeat, DeviceInv, PlaneTypes, Reporters
<1>2. ~reporter.sent /\ (~reporter.nudged => UpToDate(reporter))
  BY <1>1 DEF DeviceInv, BeatInv
<1> DEFINE told == [reporter EXCEPT !.sent = TRUE]
<1>3. /\ told \in Reporters /\ told.nudged = reporter.nudged /\ told.reading = b
  BY <1>1 DEF Reporters
<1>4. CASE /\ registry.known /\ registry' = heartbeatStored(b)
           /\ reporter' = [told EXCEPT !.step = "report"] \/ reporter' = BeatOver(told)
  <2>1. registry' \in Registries /\ (b.health = "OFFLINE" => BlockedIn(registry'))
    BY <1>1, <1>4, HeartbeatStores
  <2>2. CASE reporter' = [told EXCEPT !.step = "report"]
    <3>1. /\ reporter' \in Reporters /\ reporter'.step = "report" /\ reporter'.reading = b
          /\ reporter'.nudged = reporter.nudged
      BY <1>3, <2>2 DEF Reporters
    <3> QED
      BY <1>1, <1>2, <2>1, <3>1 DEF DeviceInv, PlaneTypes, BeatInv, UpToDate
  <2>3. CASE reporter' = BeatOver(told)
    <3>1. /\ reporter' \in Reporters /\ reporter'.step = "idle" /\ ~reporter'.nudged
          /\ reporter'.sent => /\ ~reporter.nudged /\ reporter'.timer = "interval"
                               /\ reporter'.reading.verdict = b.verdict
                               /\ reporter'.reading.health = b.health
      BY <1>3, <2>3, BeatOverTyped
    <3> HIDE DEF b
    <3>2. reporter'.sent => UpToDate(reporter)'
      BY <1>1, <1>2, <3>1 DEF UpToDate, b
    <3> QED
      BY <1>1, <2>1, <3>1, <3>2 DEF DeviceInv, PlaneTypes, BeatInv
  <2> QED
    BY <1>4, <2>2, <2>3
<1>5. CASE /\ ~registry.known /\ registry' = registry
           /\ reporter' = [Unregistered(reporter) EXCEPT !.step = "report"]
  <2>1. /\ reporter' \in Reporters /\ reporter'.step = "report" /\ reporter'.reading = b
        /\ reporter'.nudged = reporter.nudged /\ ~reporter'.sent
    BY <1>1, <1>2, <1>5 DEF Reporters, Unregistered
  <2> QED
    BY <1>1, <1>2, <1>5, <2>1 DEF DeviceInv, PlaneTypes, BeatInv, UpToDate
<1>6. CASE /\ registry' \in {registry, heartbeatStored(b)}
           /\ reporter' = [reporter EXCEPT !.step = "report"] \/ reporter' = BeatOver(reporter)
  <2>1. registry' \in Registries
    BY <1>1, <1>6, HeartbeatStores
  <2>2. CASE reporter' = [reporter EXCEPT !.step = "report"]
    <3>1. /\ reporter' \in Reporters /\ reporter'.step = "report" /\ reporter'.reading = b
          /\ reporter'.nudged = reporter.nudged /\ ~reporter'.sent
      BY <1>1, <1>2, <2>2 DEF Reporters
    <3> QED
      BY <1>1, <1>2, <2>1, <3>1 DEF DeviceInv, PlaneTypes, BeatInv, UpToDate
  <2>3. CASE reporter' = BeatOver(reporter)
    BY <1>1, <1>2, <2>1, <2>3, BeatEndsUndelivered DEF DeviceInv, PlaneTypes
  <2> QED
    BY <1>6, <2>2, <2>3
<1>7. \/ /\ registry.known /\ registry' = heartbeatStored(b)
         /\ reporter' = [told EXCEPT !.step = "report"] \/ reporter' = BeatOver(told)
      \/ /\ ~registry.known /\ registry' = registry
         /\ reporter' = [Unregistered(reporter) EXCEPT !.step = "report"]
      \/ /\ registry' \in {registry, heartbeatStored(b)}
         /\ reporter' = [reporter EXCEPT !.step = "report"] \/ reporter' = BeatOver(reporter)
  BY DEF Heartbeat
<1> QED
  BY <1>4, <1>5, <1>6, <1>7

LEMMA ReportKeepsInv == ASSUME DeviceInv, Report PROVE DeviceInv'
<1> DEFINE b == reporter.reading
<1>1. /\ reporter.step = "report" /\ UNCHANGED <<device, source>>
      /\ reporter \in Reporters /\ registry \in Registries /\ late \in SUBSET Lates
      /\ b.approved \in BOOLEAN /\ b.health \in Healths /\ b.hash \in Digests
  BY DEF Report, DeviceInv, PlaneTypes, Reporters, Readings
<1>2. ~reporter.nudged => UpToDate(reporter)
  BY <1>1 DEF DeviceInv, BeatInv
\* However the beat ends, what the reporter then holds is what it sent.
<1>3. ASSUME NEW r \in Reporters, r.sent = reporter.sent, r.nudged = reporter.nudged,
             r.reading = reporter.reading, reporter' = BeatOver(r)
      PROVE  /\ reporter' \in Reporters /\ reporter'.step = "idle" /\ ~reporter'.nudged
             /\ reporter'.sent => /\ reporter.sent /\ reporter'.timer = "interval"
                                  /\ reporter'.reading.health = b.health
                                  /\ UpToDate(reporter)'
  <2>1. /\ reporter' \in Reporters /\ reporter'.step = "idle" /\ ~reporter'.nudged
        /\ reporter'.sent => /\ r.sent /\ ~r.nudged /\ reporter'.timer = "interval"
                             /\ reporter'.reading.verdict = r.reading.verdict
                             /\ reporter'.reading.health = r.reading.health
    BY <1>3, BeatOverTyped
  <2> QED
    BY <1>1, <1>2, <1>3, <2>1 DEF UpToDate
<1>4. CASE /\ registry.known /\ registry.version < MaxReports
           /\ registry' = reportPrinters(b, registry.version)
           /\ reporter' = BeatOver([reporter EXCEPT !.reported = b.hash]) /\ late' = late
  <2> DEFINE r == [reporter EXCEPT !.reported = b.hash]
  <2>1. r \in Reporters /\ r.sent = reporter.sent /\ r.nudged = reporter.nudged /\ r.reading = reporter.reading
    BY <1>1 DEF Reporters
  <2>2. registry.version \in 0 .. MaxReports
    BY <1>1 DEF Registries
  <2>3. registry' \in Registries /\ (b.health = "OFFLINE" => BlockedIn(registry'))
    <3>1. registry.version < MaxReports /\ registry' = reportPrinters(b, registry.version)
      BY <1>4
    <3> HIDE DEF b, r
    <3>2. /\ reportPrinters(b, registry.version) \in Registries
          /\ b.health = "OFFLINE" => BlockedIn(reportPrinters(b, registry.version))
      BY <1>1, <2>2, <3>1, ReportStores
    <3> QED
      BY <3>1, <3>2
  <2> HIDE DEF r, b
  <2>4. reporter' = BeatOver(r)
    BY <1>4 DEF r
  <2> QED
    BY <1>1, <1>3, <1>4, <2>1, <2>3, <2>4 DEF DeviceInv, PlaneTypes, BeatInv
<1>5. CASE /\ reporter' = BeatOver(Unregistered(reporter)) \/ reporter' = BeatOver(reporter)
           /\ registry' = registry
  <2>1. late' \in SUBSET Lates
    <3>1. CASE late' = late
      BY <1>1, <3>1
    <3>2. CASE /\ registry.version < MaxReports
               /\ late' = late \cup {[report |-> ReportOf(b), version |-> registry.version]}
      <4>1. registry.version \in 0 .. MaxReports
        BY <1>1 DEF Registries
      <4>2. ReportOf(b) \in Reports
        BY <1>1 DEF ReportOf, Reports
      <4>3. [report |-> ReportOf(b), version |-> registry.version] \in Lates
        BY <3>2, <4>1, <4>2 DEF Lates
      <4> QED
        BY <1>1, <3>2, <4>3
    <3> QED
      BY <3>1, <3>2 DEF Report
  <2>2. LET u == Unregistered(reporter)
        IN  /\ u \in Reporters /\ u.sent = reporter.sent /\ u.nudged = reporter.nudged
            /\ u.reading = reporter.reading
    BY <1>1 DEF Reporters, Unregistered
  <2>3. /\ reporter' \in Reporters /\ reporter'.step = "idle" /\ ~reporter'.nudged
        /\ reporter'.sent => /\ reporter.sent /\ reporter'.timer = "interval"
                             /\ reporter'.reading.health = b.health
                             /\ UpToDate(reporter)'
    BY <1>1, <1>3, <1>5, <2>2
  <2> QED
    BY <1>1, <1>5, <2>1, <2>3 DEF DeviceInv, PlaneTypes, BeatInv
<1> QED
  BY <1>4, <1>5 DEF Report

\* A late report changes what is stored, and is remembered to have done so.
LEMMA LateReportKeepsInv == ASSUME DeviceInv, LateReport PROVE DeviceInv'
<1>1. PICK l \in late :
        /\ registry' = [reportPrinters(l.report, l.version) EXCEPT !.overtaken = TRUE]
        /\ late' = late \ {l}
  BY DEF LateReport
<1>2. l \in Lates /\ registry \in Registries /\ UNCHANGED <<device, source, reporter>>
  BY <1>1 DEF DeviceInv, PlaneTypes, LateReport
<1>3. /\ l.report.approved \in BOOLEAN /\ l.report.health \in Healths /\ l.report.hash \in Digests
      /\ l.version \in 0 .. MaxReports /\ l.version < MaxReports
  BY <1>2 DEF Lates, Reports
<1>4. reportPrinters(l.report, l.version) \in Registries
  BY <1>2, <1>3, ReportStores
<1>5. registry' \in Registries /\ registry'.overtaken = TRUE
  BY <1>1, <1>4 DEF Registries
<1> QED
  BY <1>1, <1>2, <1>5 DEF DeviceInv, PlaneTypes, BeatInv, UpToDate

LEMMA RestartKeepsInv == ASSUME DeviceInv, AgentRestarts \/ RegistryRebuilt PROVE DeviceInv'
<1>0. device \in Devices /\ reporter \in Reporters /\ registry \in Registries
  BY DEF DeviceInv, PlaneTypes
<1>1. device' = [device EXCEPT !.moves = @ + 1] /\ device.moves < MaxMoves
  BY DEF AgentRestarts, RegistryRebuilt
<1>2. device.moves + 1 \in 0 .. MaxMoves
  <2>1. device.moves \in 0 .. MaxMoves
    BY <1>0 DEF Devices
  <2> QED
    BY <1>1, <2>1, DeviceAssumption
<1>3. device' \in Devices
  BY <1>0, <1>1, <1>2 DEF Devices
<1>4. CASE AgentRestarts
  <2>1. source' \in Sources
    <3>1. 0 \in 0 .. FAILURES_BEFORE_UNAVAILABLE
      BY DeviceAssumption
    <3> QED
      BY <1>4, <3>1, NothingReadTyped DEF AgentRestarts, Sources
  <2>2. reporter' \in Reporters /\ reporter'.step = "idle" /\ ~reporter'.sent /\ ~reporter'.nudged
    BY <1>0, <1>4 DEF AgentRestarts, Reporters
  <2> QED
    BY <1>3, <1>4, <2>1, <2>2 DEF AgentRestarts, DeviceInv, PlaneTypes, BeatInv
<1>5. CASE RegistryRebuilt
  <2>1. registry' \in Registries /\ registry'.known = FALSE
    BY <1>0, <1>5 DEF RegistryRebuilt, Registries
  <2> QED
    BY <1>3, <1>5, <2>1 DEF RegistryRebuilt, DeviceInv, PlaneTypes, BeatInv, UpToDate
<1> QED
  BY <1>4, <1>5

LEMMA StepDeviceInv == DeviceInv /\ [DeviceNext]_deviceVars => DeviceInv'
<1> SUFFICES ASSUME DeviceInv, [DeviceNext]_deviceVars PROVE DeviceInv'
  OBVIOUS
<1>1. CASE UNCHANGED deviceVars
  BY <1>1 DEF deviceVars, DeviceInv, PlaneTypes, BeatInv, UpToDate
<1>2. CASE DeviceNext
  BY <1>2, DeviceMovesKeepsInv, TimePassesKeepsInv, PollKeepsInv, StartBeatKeepsInv, RegisterKeepsInv,
     HeartbeatKeepsInv, ReportKeepsInv, LateReportKeepsInv, RestartKeepsInv DEF DeviceNext
<1> QED
  BY <1>1, <1>2

\* No change of paper or faults waits for the schedule once a beat was delivered, and
\* the gate does not sell on a printer that beat called blocked (reporter.ts nudge,
\* tick; readiness.ts), for any device, any losses and any number of late reports.
THEOREM NoChangeIsForgotten == DeviceSpec => []NoChangeForgotten
<1>1. ASSUME DeviceInv PROVE NoChangeForgotten
  <2>1. DeviceTypeOK
    <3>1. registry.printers \in {<<>>} \cup Seq(Rows) /\ Len(registry.printers) <= 1
      BY <1>1 DEF DeviceInv, PlaneTypes, Registries
    <3>2. registry \in [known : BOOLEAN, printers : {<<>>} \cup Seq(Rows),
                        caps : Digests, version : 0..MaxReports, overtaken : BOOLEAN]
      BY <1>1, <3>1 DEF DeviceInv, PlaneTypes, Registries
    <3>3. late \in SUBSET [report : Reports, version : 0..MaxReports]
      BY <1>1 DEF DeviceInv, PlaneTypes, Lates
    <3> QED
      BY <1>1, <3>1, <3>2, <3>3 DEF DeviceInv, PlaneTypes, Devices, Sources, Reporters, DeviceTypeOK
  <2>2. registry.printers # <<>> /\ BlockedIn(registry) => ~assertReady(FALSE)
    BY DEF BlockedIn, Blocked, assertReady, classifyPrinterReadiness
  <2> QED
    BY <1>1, <2>1, <2>2 DEF DeviceInv, BeatInv, UpToDate, NoChangeForgotten
<1> QED
  BY <1>1, InitDeviceInv, StepDeviceInv, PTL DEF DeviceSpec

-----------------------------------------------------------------------------
(* The document processor: every error carries what deserves it from where  *)
(* it is raised to the worker that is told it.                              *)

Codes == {"INVALID_AUTHENTICATION", "REQUEST_TOO_LARGE", "CONTENT_HASH_MISMATCH", "MALWARE_DETECTED",
          "PASSWORD_PROTECTED_PDF", "PAGE_LIMIT_EXCEEDED", "OUTPUT_SIZE_LIMIT_EXCEEDED",
          "MALFORMED_DOCUMENT", "PROCESSING_TIMEOUT"}

\* What deserves an error that may not be tried again.
Deserved(code, d, excuse) ==
  \/ code = "INVALID_AUTHENTICATION" /\ ~tokenRight
  \/ code = "REQUEST_TOO_LARGE" /\ d.large
  \/ code = "CONTENT_HASH_MISMATCH" /\ ~d.delivered
  \/ code = "MALWARE_DETECTED" /\ d.infected
  \/ code = "PASSWORD_PROTECTED_PDF" /\ d.encrypted
  \/ code = "PAGE_LIMIT_EXCEEDED" /\ d.pages > MaxPages
  \/ code = "OUTPUT_SIZE_LIMIT_EXCEEDED" /\ d.bulky
  \/ code = "MALFORMED_DOCUMENT" /\ (~d.signed \/ ~d.sound \/ ~d.renders \/ excuse = "killed")
  \/ code = "PROCESSING_TIMEOUT" /\ excuse = "deadline"

IsError(e) ==
  /\ DOMAIN e = {"code", "retryable", "readable", "excuse"}
  /\ e.retryable \in BOOLEAN
ErrorSound(d, e) == IsError(e) /\ (~e.retryable => Deserved(e.code, d, e.excuse))
OutcomeSound(d, o) ==
  /\ IsError(o)
  /\ ~o.retryable => \/ Deserved(o.code, d, o.excuse)
                     \/ o.code = "DOCUMENT_REJECTED" /\ \E code \in Codes : Deserved(code, d, o.excuse)
IsArchive(a) == "tar" \in DOMAIN a /\ "code" \notin DOMAIN a
AnswerSound(d, x) == ErrorSound(d, x) \/ IsArchive(x)

IsCall(w) == DOMAIN w = {"step", "document", "conn", "answer", "damaged", "outcome"}
CallSound(w) ==
  /\ IsCall(w)
  /\ w.answer # <<>> => AnswerSound(w.document, w.answer[1])
  /\ w.outcome # <<>> => OutcomeSound(w.document, w.outcome[1])
CallsSound == worker = [c \in Workers |-> worker[c]] /\ \A c \in Workers : CallSound(worker[c])
IsTask(t) == DOMAIN t = {"step", "client", "conn", "document", "count", "pages"}
TaskSound ==
  task # NoTask =>
    /\ IsTask(task)
    /\ task.client \in Workers /\ task.document = worker[task.client].document
VerdictInv == CallsSound /\ TaskSound

\* Nobody's document changes and no token.
Steady == tokenRight' = tokenRight /\ \A c \in Workers : worker'[c].document = worker[c].document

LEMMA RefusalSound ==
  ASSUME NEW d, NEW code, Deserved(code, d, "none")
  PROVE  ErrorSound(d, Refusal(code))
BY DEF ErrorSound, IsError, Refusal, Error, Deserved

LEMMA TroubleSound ==
  ASSUME NEW d, NEW code
  PROVE  ErrorSound(d, Trouble(code))
BY DEF ErrorSound, IsError, Trouble, Error

LEMMA ExcusedSound ==
  ASSUME NEW d
  PROVE  /\ ErrorSound(d, TimedOut) /\ ErrorSound(d, CapacityExhausted)
         /\ ErrorSound(d, [Refusal("MALFORMED_DOCUMENT") EXCEPT !.excuse = "killed"])
<1>0. ASSUME NEW k, NEW x
      PROVE  LET e == [Refusal(k) EXCEPT !.excuse = x]
             IN  /\ DOMAIN e = {"code", "retryable", "readable", "excuse"}
                 /\ e.code = k /\ e.excuse = x /\ e.retryable \in BOOLEAN
  BY DEF Refusal, Error
<1>2. ErrorSound(d, CapacityExhausted)
  BY TroubleSound DEF CapacityExhausted
<1>3. ASSUME NEW k, NEW x, Deserved(k, d, x)
      PROVE  ErrorSound(d, [Refusal(k) EXCEPT !.excuse = x])
  BY <1>0, <1>3 DEF ErrorSound, IsError
<1>4. Deserved("PROCESSING_TIMEOUT", d, "deadline") /\ Deserved("MALFORMED_DOCUMENT", d, "killed")
  BY DEF Deserved
<1> QED
  BY <1>2, <1>3, <1>4 DEF TimedOut

\* One worker's call changes, and stays sound.
LEMMA CallKeepsInv ==
  ASSUME VerdictInv, NEW c \in Workers, NEW w, CallSound(w), w.document = worker[c].document,
         worker' = [worker EXCEPT ![c] = w], UNCHANGED tokenRight
  PROVE  CallsSound' /\ Steady
<1>1. /\ worker' = [i \in Workers |-> worker'[i]]
      /\ \A i \in Workers : worker'[i] = IF i = c THEN w ELSE worker[i]
  BY DEF VerdictInv, CallsSound
<1>2. ASSUME NEW v, CallSound(v) PROVE CallSound(v)'
  BY <1>2 DEF CallSound, IsCall, AnswerSound, OutcomeSound, ErrorSound, Deserved, IsError, IsArchive
<1> QED
  BY <1>1, <1>2 DEF VerdictInv, CallsSound, Steady

LEMMA ReplyKeepsInv ==
  ASSUME VerdictInv, task # NoTask, NEW x, AnswerSound(task.document, x), Reply(x), UNCHANGED tokenRight
  PROVE  CallsSound' /\ Steady
<1>1. task.client \in Workers /\ task.document = worker[task.client].document
  BY DEF VerdictInv, TaskSound, IsTask
<1>2. CASE worker' = worker
  BY <1>2 DEF VerdictInv, CallsSound, CallSound, IsCall, AnswerSound, OutcomeSound, ErrorSound, Deserved, Steady, IsError, IsArchive
<1>3. CASE worker' = [worker EXCEPT ![task.client].answer = <<x>>]
  <2> DEFINE w == [worker[task.client] EXCEPT !.answer = <<x>>]
  <2>1. CallSound(w) /\ w.document = worker[task.client].document
    BY <1>1 DEF VerdictInv, CallsSound, CallSound, IsCall
  <2>2. worker' = [worker EXCEPT ![task.client] = w]
    BY <1>3
  <2> QED
    BY <1>1, <2>1, <2>2, CallKeepsInv
<1> QED
  BY <1>2, <1>3 DEF Reply

LEMMA TaskKeepsInv ==
  ASSUME TaskSound, task # NoTask, Steady, NEW s, task' = [task EXCEPT !.step = s]
  PROVE  TaskSound'
BY DEF TaskSound, IsTask, Steady

LEMMA FailsKeepsInv ==
  ASSUME VerdictInv, task # NoTask, NEW e, ErrorSound(task.document, e), Fails(e)
  PROVE  VerdictInv'
<1>1. CallsSound' /\ Steady
  BY ReplyKeepsInv DEF Fails, AnswerSound
<1> QED
  BY <1>1, TaskKeepsInv DEF Fails, VerdictInv

LEMMA ContinuesKeepsInv ==
  ASSUME VerdictInv, task # NoTask, NEW t, Continues(t), 
         IsTask(t), t.client = task.client, t.document = task.document
  PROVE  VerdictInv'
BY DEF Continues, VerdictInv, TaskSound, CallsSound, CallSound, IsCall, AnswerSound, OutcomeSound, ErrorSound, Deserved, IsError,
       IsArchive

LEMMA ReceiveKeepsInv == ASSUME VerdictInv, receiveInput PROVE VerdictInv'
<1> DEFINE d == task.document
<1>1. task # NoTask
  BY DEF receiveInput, Runs, NoTask
<1>2. CASE ~d.delivered /\ Fails(Refusal("CONTENT_HASH_MISMATCH"))
  BY <1>1, <1>2, RefusalSound, FailsKeepsInv DEF Deserved
<1>3. CASE d.delivered /\ ~d.signed /\ Fails(Refusal("MALFORMED_DOCUMENT"))
  BY <1>1, <1>3, RefusalSound, FailsKeepsInv DEF Deserved
<1>4. CASE Continues([task EXCEPT !.step = "scan"])
  BY <1>1, <1>4, ContinuesKeepsInv DEF VerdictInv, TaskSound, IsTask
<1> QED
  BY <1>2, <1>3, <1>4 DEF receiveInput, Intact, hasExpectedSignature

LEMMA ScanKeepsInv == ASSUME VerdictInv, scan PROVE VerdictInv'
<1>1. task # NoTask
  BY DEF scan, Runs, NoTask
<1>2. CASE assertFresh
  BY <1>1, <1>2, TroubleSound, FailsKeepsInv DEF assertFresh
<1>3. CASE Continues([task EXCEPT !.step = "inspect"])
  BY <1>1, <1>3, ContinuesKeepsInv DEF VerdictInv, TaskSound, IsTask
<1>4. CASE task.document.infected /\ Fails(Refusal("MALWARE_DETECTED"))
  BY <1>1, <1>4, RefusalSound, FailsKeepsInv DEF Deserved
<1>5. CASE Fails(Trouble("MALWARE_SCANNER_UNAVAILABLE"))
  BY <1>1, <1>5, TroubleSound, FailsKeepsInv
<1> QED
  BY <1>2, <1>3, <1>4, <1>5 DEF scan, ScannerAnswers, Scanned

LEMMA InspectKeepsInv == ASSUME VerdictInv, inspectPdf PROVE VerdictInv'
<1> DEFINE d == task.document
<1>1. task # NoTask
  BY DEF inspectPdf, Runs, NoTask
<1>2. ASSUME NEW n, Continues([task EXCEPT !.step = "render", !.count = n]) PROVE VerdictInv'
  BY <1>1, <1>2, ContinuesKeepsInv DEF VerdictInv, TaskSound, IsTask
<1>3. CASE d.encrypted /\ Fails(Refusal("PASSWORD_PROTECTED_PDF"))
  BY <1>1, <1>3, RefusalSound, FailsKeepsInv DEF Deserved
<1>4. CASE ~d.sound /\ Fails(Refusal("MALFORMED_DOCUMENT"))
  BY <1>1, <1>4, RefusalSound, FailsKeepsInv DEF Deserved
<1>5. CASE d.pages > MaxPages /\ Fails(Refusal("PAGE_LIMIT_EXCEEDED"))
  BY <1>1, <1>5, RefusalSound, FailsKeepsInv DEF Deserved
<1> QED
  BY <1>2, <1>3, <1>4, <1>5 DEF inspectPdf

LEMMA RenderKeepsInv == ASSUME VerdictInv, normalizeIntoPdf PROVE VerdictInv'
<1> DEFINE d == task.document
<1>1. task # NoTask
  BY DEF normalizeIntoPdf, Runs, NoTask
<1>2. CASE Continues(addPage)
  BY <1>1, <1>2, ContinuesKeepsInv DEF VerdictInv, TaskSound, IsTask, addPage
<1>3. CASE ~d.renders /\ Fails(Refusal("MALFORMED_DOCUMENT"))
  BY <1>1, <1>3, RefusalSound, FailsKeepsInv DEF Deserved
<1>4. CASE d.bulky /\ Fails(Refusal("OUTPUT_SIZE_LIMIT_EXCEEDED"))
  BY <1>1, <1>4, RefusalSound, FailsKeepsInv DEF Deserved
<1>5. /\ normalizePage(d) = <<>> => Continues(addPage)
      /\ normalizePage(d) # <<>> => Fails(normalizePage(d)[1])
  BY DEF normalizeIntoPdf
<1>6. \/ normalizePage(d) = <<>>
      \/ ~d.renders /\ normalizePage(d) = <<Refusal("MALFORMED_DOCUMENT")>>
      \/ d.bulky /\ normalizePage(d) = <<Refusal("OUTPUT_SIZE_LIMIT_EXCEEDED")>>
  BY DEF normalizePage
<1> QED
  BY <1>2, <1>3, <1>4, <1>5, <1>6

LEMMA AnswerKeepsInv == ASSUME VerdictInv, finalize \/ buildTar \/ streamTar \/ release PROVE VerdictInv'
<1>1. task # NoTask
  BY DEF finalize, buildTar, streamTar, release, Runs, NoTask
<1>2. CASE finalize
  BY <1>1, <1>2, ContinuesKeepsInv DEF finalize, VerdictInv, TaskSound, IsTask
<1>3. CASE buildTar \/ release
  <2>1. UNCHANGED <<tokenRight, worker>> /\ CallsSound'
    BY <1>3 DEF buildTar, release, VerdictInv, CallsSound, CallSound, IsCall, AnswerSound, OutcomeSound, ErrorSound, Deserved,
                IsError, IsArchive
  <2>2. CASE release
    BY <2>1, <2>2 DEF release, TaskSound, VerdictInv
  <2>3. CASE buildTar
    BY <1>1, <2>1, <2>3, TaskKeepsInv DEF buildTar, VerdictInv, Steady
  <2> QED
    BY <1>3, <2>2, <2>3
<1>4. CASE streamTar
  <2>1. AnswerSound(task.document, Archive(task.document, task.pages))
    BY DEF AnswerSound, IsArchive, Archive
  <2>2. CallsSound' /\ Steady
    BY <1>1, <1>4, <2>1, ReplyKeepsInv DEF streamTar
  <2> QED
    BY <1>1, <1>4, <2>2, TaskKeepsInv DEF streamTar, VerdictInv
<1> QED
  BY <1>2, <1>3, <1>4

LEMMA DeadlineKeepsInv == ASSUME VerdictInv, processorDeadline PROVE VerdictInv'
<1>1. task # NoTask
  BY DEF processorDeadline, NoTask
<1>2. ASSUME NEW e, ErrorSound(task.document, e), Reply(e), UNCHANGED tokenRight,
             task' = [task EXCEPT !.step = "release"]
      PROVE  VerdictInv'
  BY <1>1, <1>2, ReplyKeepsInv, TaskKeepsInv DEF AnswerSound, VerdictInv
<1>3. ASSUME NEW e, ErrorSound(task.document, e), Fails(e) PROVE VerdictInv'
  BY <1>1, <1>3, FailsKeepsInv
<1>4. \/ Fails(Trouble("MALWARE_SCANNER_UNAVAILABLE")) \/ Fails(TimedOut)
      \/ /\ Reply(TimedOut) \/ Reply(Trouble("CONNECTION_RESET"))
         /\ UNCHANGED tokenRight /\ task' = [task EXCEPT !.step = "release"]
  BY DEF processorDeadline
<1> QED
  BY <1>2, <1>3, <1>4, TroubleSound, ExcusedSound

LEMMA ToolFailsKeepsInv == ASSUME VerdictInv, toolFails PROVE VerdictInv'
<1>1. task # NoTask
  BY DEF toolFails, NoTask
<1>2. \/ Fails(CapacityExhausted) \/ Fails(Trouble("NATIVE_TOOL_UNAVAILABLE"))
      \/ Fails([Refusal("MALFORMED_DOCUMENT") EXCEPT !.excuse = "killed"])
  BY DEF toolFails
<1> QED
  BY <1>1, <1>2, TroubleSound, ExcusedSound, FailsKeepsInv

\* Steps that touch no call and no token.
LEMMA UntouchedKeepsInv ==
  ASSUME VerdictInv, UNCHANGED <<tokenRight, worker>>, 
         \/ task' = task \/ task' = NoTask
         \/ task # NoTask /\ task' = [task EXCEPT !.step = "release"]
  PROVE  VerdictInv'
<1>1. CallsSound' /\ Steady
  BY DEF VerdictInv, CallsSound, CallSound, IsCall, AnswerSound, OutcomeSound, ErrorSound, Deserved, IsError, IsArchive, Steady
<1> QED
  BY <1>1, TaskKeepsInv DEF VerdictInv, TaskSound, IsTask

LEMMA CrashKeepsInv == ASSUME VerdictInv, processorCrashes PROVE VerdictInv'
<1>1. ASSUME NEW c \in Workers PROVE CallSound([worker[c] EXCEPT !.answer = <<Trouble("CONNECTION_RESET")>>])
  BY TroubleSound DEF VerdictInv, CallsSound, CallSound, IsCall, AnswerSound
<1>2. ASSUME NEW w, CallSound(w) PROVE CallSound(w)'
  BY <1>2 DEF processorCrashes, CallSound, IsCall, AnswerSound, OutcomeSound, ErrorSound, Deserved, IsError, IsArchive
<1> QED
  BY <1>1, <1>2 DEF processorCrashes, VerdictInv, CallsSound, TaskSound, IsTask

-----------------------------------------------------------------------------
\* The client's side: each step is of one call.
LEMMA ClientKeepsInv ==
  ASSUME VerdictInv, NEW c \in Workers, NEW w, CallSound(w), w.document = worker[c].document,
         worker' = [worker EXCEPT ![c] = w], UNCHANGED <<tokenRight, task>>
  PROVE  VerdictInv'
<1>1. CallsSound' /\ Steady
  BY CallKeepsInv
<1> QED
  BY <1>1 DEF VerdictInv, TaskSound, Steady

LEMMA GivesKeepsInv ==
  ASSUME VerdictInv, NEW c \in Workers, NEW o, OutcomeSound(worker[c].document, o), Gives(c, o)
  PROVE  VerdictInv'
<1> DEFINE w == [worker[c] EXCEPT !.step = "failed", !.answer = <<>>, !.outcome = <<o>>]
<1>1. CallSound(w) /\ w.document = worker[c].document
  BY DEF VerdictInv, CallsSound, CallSound, IsCall
<1>2. worker' = [worker EXCEPT ![c] = w] /\ UNCHANGED <<tokenRight, task>>
  BY DEF Gives, VerdictInv, CallsSound
<1> HIDE DEF w
<1> QED
  BY <1>1, <1>2, ClientKeepsInv

LEMMA HandleKeepsInv == ASSUME VerdictInv, NEW c \in Workers, handleRequest(c) PROVE VerdictInv'
<1> DEFINE d == worker[c].document
<1>1. ASSUME NEW x, ErrorSound(d, x), worker' = [worker EXCEPT ![c].answer = <<x>>], UNCHANGED <<tokenRight, task>>
      PROVE  VerdictInv'
  <2> DEFINE w == [worker[c] EXCEPT !.answer = <<x>>]
  <2>1. CallSound(w) /\ w.document = worker[c].document
    BY <1>1 DEF VerdictInv, CallsSound, CallSound, IsCall, AnswerSound
  <2>2. worker' = [worker EXCEPT ![c] = w]
    BY <1>1
  <2> HIDE DEF w
  <2> QED
    BY <1>1, <2>1, <2>2, ClientKeepsInv
<1>2. \/ validateRequest(d) = <<>>
      \/ \E x : ErrorSound(d, x) /\ validateRequest(d) = <<x>>
  BY RefusalSound DEF validateRequest, Deserved
<1>3. CASE /\ worker' = [worker EXCEPT ![c].answer =
                 IF validateRequest(d) # <<>> THEN validateRequest(d) ELSE <<Trouble("PROCESSOR_BUSY")>>]
           /\ UNCHANGED <<tokenRight, task>>
  BY <1>1, <1>2, <1>3, TroubleSound
<1>4. CASE /\ task' = [step |-> "input", client |-> c, conn |-> worker[c].conn, document |-> d,
                       count |-> 0, pages |-> <<>>]
           /\ UNCHANGED <<tokenRight, worker>>
  <2>1. CallsSound'
    BY <1>4 DEF VerdictInv, CallsSound, CallSound, AnswerSound, OutcomeSound, ErrorSound, Deserved, IsCall, IsError,
                IsArchive
  <2>2. IsTask(task') /\ task'.client = c /\ task'.document = worker'[c].document
    BY <1>4 DEF IsTask
  <2> QED
    BY <2>1, <2>2 DEF VerdictInv, TaskSound, IsTask
<1> QED
  BY <1>3, <1>4 DEF handleRequest

LEMMA ReadKeepsInv == ASSUME VerdictInv, NEW c \in Workers, readResponse(c) PROVE VerdictInv'
<1> DEFINE d == worker[c].document
           a == worker[c].answer[1]
<1>1. AnswerSound(d, a)
  BY DEF readResponse, VerdictInv, CallsSound, CallSound
<1>2. CASE "code" \in DOMAIN a /\ Gives(c, parseProcessorError(a))
  <2>1. ErrorSound(d, a)
    BY <1>1, <1>2 DEF AnswerSound, IsArchive
  <2>2. OutcomeSound(d, parseProcessorError(a))
    BY <2>1 DEF parseProcessorError, OutcomeSound, ErrorSound, IsError, Deserved, Codes
  <2> QED
    BY <1>2, <2>2, GivesKeepsInv
<1>3. CASE Gives(c, Trouble("PROCESSOR_ARCHIVE_INVALID"))
  BY <1>3, GivesKeepsInv, TroubleSound DEF OutcomeSound, ErrorSound
<1>4. CASE worker' = [worker EXCEPT ![c].step = "bundle"] /\ UNCHANGED <<tokenRight, task>>
  <2> DEFINE w == [worker[c] EXCEPT !.step = "bundle"]
  <2>1. CallSound(w) /\ w.document = worker[c].document
    BY DEF VerdictInv, CallsSound, CallSound, IsCall
  <2>2. worker' = [worker EXCEPT ![c] = w]
    BY <1>4
  <2> HIDE DEF w
  <2> QED
    BY <1>4, <2>1, <2>2, ClientKeepsInv
<1> QED
  BY <1>2, <1>3, <1>4 DEF readResponse

LEMMA DamageKeeps ==
  ASSUME NEW a, NEW d, AnswerSound(d, a),
         NEW x \in (IF "tar" \in DOMAIN a THEN Damaged(a) ELSE {[a EXCEPT !.readable = FALSE]})
  PROVE  AnswerSound(d, x)
<1>1. CASE ErrorSound(d, a)
  <2>1. "tar" \notin DOMAIN a /\ x = [a EXCEPT !.readable = FALSE]
    BY <1>1 DEF ErrorSound, IsError
  <2> QED
    BY <1>1, <2>1 DEF ErrorSound, IsError, AnswerSound
<1>2. CASE IsArchive(a)
  <2>1. x \in Damaged(a)
    BY <1>2 DEF IsArchive
  <2>2. DOMAIN x = DOMAIN a
    BY <2>1 DEF Damaged
  <2> QED
    BY <1>2, <2>2 DEF IsArchive, AnswerSound
<1> QED
  BY <1>1, <1>2 DEF AnswerSound

LEMMA ConnectionKeepsInv == ASSUME VerdictInv, NEW c \in Workers, connectionFails(c) PROVE VerdictInv'
<1> DEFINE d == worker[c].document
           a == worker[c].answer
<1>1. CASE Gives(c, Trouble("PROCESSOR_UNAVAILABLE"))
  BY <1>1, GivesKeepsInv, TroubleSound DEF OutcomeSound, ErrorSound
<1>2. ASSUME NEW x \in (IF "tar" \in DOMAIN a[1] THEN Damaged(a[1]) ELSE {[a[1] EXCEPT !.readable = FALSE]}),
             a # <<>>, worker' = [worker EXCEPT ![c].answer = <<x>>, ![c].damaged = TRUE],
             UNCHANGED <<tokenRight, task>>
      PROVE  VerdictInv'
  <2> DEFINE w == [worker[c] EXCEPT !.answer = <<x>>, !.damaged = TRUE]
  <2>1. AnswerSound(d, a[1])
    BY <1>2 DEF VerdictInv, CallsSound, CallSound
  <2>2. AnswerSound(d, x)
    BY <1>2, <2>1, DamageKeeps
  <2>3. CallSound(w) /\ w.document = worker[c].document
    BY <2>2 DEF VerdictInv, CallsSound, CallSound, IsCall
  <2>4. worker' = [worker EXCEPT ![c] = w]
    BY <1>2 DEF VerdictInv, CallsSound
  <2> HIDE DEF w
  <2> QED
    BY <1>2, <2>3, <2>4, ClientKeepsInv
<1> QED
  BY <1>1, <1>2 DEF connectionFails

LEMMA CallEndsKeepsInv ==
  ASSUME VerdictInv, NEW c \in Workers, cleanup(c) \/ workerCrashes(c) \/ process(c) \/ clientDeadline(c)
  PROVE  VerdictInv'
<1>1. CASE clientDeadline(c)
  BY <1>1, GivesKeepsInv, TroubleSound DEF clientDeadline, OutcomeSound, ErrorSound
<1>2. ASSUME NEW s, worker' = [worker EXCEPT ![c].step = s, ![c].answer = <<>>], UNCHANGED <<tokenRight, task>>
      PROVE  VerdictInv'
  <2> DEFINE w == [worker[c] EXCEPT !.step = s, !.answer = <<>>]
  <2>1. CallSound(w) /\ w.document = worker[c].document
    BY DEF VerdictInv, CallsSound, CallSound, IsCall
  <2>2. worker' = [worker EXCEPT ![c] = w]
    BY <1>2 DEF VerdictInv, CallsSound
  <2> HIDE DEF w
  <2> QED
    BY <1>2, <2>1, <2>2, ClientKeepsInv
<1>3. CASE process(c)
  <2> DEFINE w == [step |-> "sent", document |-> worker[c].document, conn |-> worker[c].conn + 1,
                   answer |-> <<>>, damaged |-> FALSE, outcome |-> <<>>]
  <2>1. CallSound(w) /\ w.document = worker[c].document
    BY DEF CallSound, IsCall
  <2>2. worker' = [worker EXCEPT ![c] = w] /\ UNCHANGED <<tokenRight, task>>
    BY <1>3 DEF process
  <2> HIDE DEF w
  <2> QED
    BY <2>1, <2>2, ClientKeepsInv
<1> QED
  BY <1>1, <1>2, <1>3 DEF cleanup, workerCrashes

LEMMA InitVerdictInv == PipelineInit => VerdictInv
BY DEF PipelineInit, VerdictInv, CallsSound, CallSound, IsCall, TaskSound, IsTask

LEMMA StepVerdictInv == VerdictInv /\ [PipelineNext]_pipelineVars => VerdictInv'
<1> SUFFICES ASSUME VerdictInv, [PipelineNext]_pipelineVars PROVE VerdictInv'
  OBVIOUS
<1>1. CASE UNCHANGED pipelineVars
  BY <1>1, UntouchedKeepsInv DEF pipelineVars
<1>2. CASE requestAborted
  <2>1. task # NoTask
    BY <1>2 DEF requestAborted, NoTask
  <2> QED
    BY <1>2, <2>1, UntouchedKeepsInv DEF requestAborted
<1>3. CASE cleanupStaleScratch \/ cleanupOrphanedProcessorScratch \/ \E r \in responses : growsOld(r)
  BY <1>3, UntouchedKeepsInv DEF cleanupStaleScratch, cleanupOrphanedProcessorScratch, growsOld
<1> QED
  BY <1>1, <1>2, <1>3, ReceiveKeepsInv, ScanKeepsInv, InspectKeepsInv, RenderKeepsInv, AnswerKeepsInv,
     DeadlineKeepsInv, ToolFailsKeepsInv, CrashKeepsInv, HandleKeepsInv, ReadKeepsInv, ConnectionKeepsInv,
     CallEndsKeepsInv DEF PipelineNext

\* A worker that is told a document is refused for good is told so of its own
\* document, which has the defect the code names, or the processor's deadline passed
\* or its tool was killed while on it (errors.ts, processor-client.ts), for any
\* number of workers, documents and mishaps.
THEOREM FinalVerdictsAreDeserved == PipelineSpec => []VerdictIsDeserved
<1>1. ASSUME VerdictInv PROVE VerdictIsDeserved
  <2> SUFFICES ASSUME NEW c \in Workers, worker[c].outcome # <<>>, ~worker[c].outcome[1].retryable
               PROVE  LET d == worker[c].document
                          e == worker[c].outcome[1]
                          Defect ==
                            [INVALID_AUTHENTICATION |-> ~tokenRight,
                             REQUEST_TOO_LARGE |-> d.large, CONTENT_HASH_MISMATCH |-> ~d.delivered,
                             MALWARE_DETECTED |-> d.infected, PASSWORD_PROTECTED_PDF |-> d.encrypted,
                             PAGE_LIMIT_EXCEEDED |-> d.pages > MaxPages, OUTPUT_SIZE_LIMIT_EXCEEDED |-> d.bulky,
                             MALFORMED_DOCUMENT |-> ~d.signed \/ ~d.sound \/ ~d.renders \/ e.excuse = "killed",
                             PROCESSING_TIMEOUT |-> e.excuse = "deadline"]
                      IN IF e.code = "DOCUMENT_REJECTED" THEN \E code \in DOMAIN Defect : Defect[code]
                         ELSE Defect[e.code]
    BY DEF VerdictIsDeserved
  <2> DEFINE d == worker[c].document
             e == worker[c].outcome[1]
             Defect ==
               [INVALID_AUTHENTICATION |-> ~tokenRight,
                REQUEST_TOO_LARGE |-> d.large, CONTENT_HASH_MISMATCH |-> ~d.delivered,
                MALWARE_DETECTED |-> d.infected, PASSWORD_PROTECTED_PDF |-> d.encrypted,
                PAGE_LIMIT_EXCEEDED |-> d.pages > MaxPages, OUTPUT_SIZE_LIMIT_EXCEEDED |-> d.bulky,
                MALFORMED_DOCUMENT |-> ~d.signed \/ ~d.sound \/ ~d.renders \/ e.excuse = "killed",
                PROCESSING_TIMEOUT |-> e.excuse = "deadline"]
  <2>1. OutcomeSound(d, e)
    BY <1>1 DEF VerdictInv, CallsSound, CallSound
  <2>4. ~e.retryable
    OBVIOUS
  <2>2. ASSUME NEW code, Deserved(code, d, e.excuse)
        PROVE  code # "DOCUMENT_REJECTED" /\ code \in DOMAIN Defect /\ Defect[code]
    <3> HIDE DEF d, e
    <3>1. CASE code = "INVALID_AUTHENTICATION"
      BY <2>2, <3>1 DEF Deserved
    <3>2. CASE code = "REQUEST_TOO_LARGE"
      BY <2>2, <3>2 DEF Deserved
    <3>3. CASE code = "CONTENT_HASH_MISMATCH"
      BY <2>2, <3>3 DEF Deserved
    <3>4. CASE code = "MALWARE_DETECTED"
      BY <2>2, <3>4 DEF Deserved
    <3>5. CASE code = "PASSWORD_PROTECTED_PDF"
      BY <2>2, <3>5 DEF Deserved
    <3>6. CASE code = "PAGE_LIMIT_EXCEEDED"
      BY <2>2, <3>6 DEF Deserved
    <3>7. CASE code = "OUTPUT_SIZE_LIMIT_EXCEEDED"
      BY <2>2, <3>7 DEF Deserved
    <3>8. CASE code = "MALFORMED_DOCUMENT"
      BY <2>2, <3>8 DEF Deserved
    <3>9. CASE code = "PROCESSING_TIMEOUT"
      BY <2>2, <3>9 DEF Deserved
    <3> QED
      BY <2>2, <3>1, <3>2, <3>3, <3>4, <3>5, <3>6, <3>7, <3>8, <3>9 DEF Deserved
  <2>3. IF e.code = "DOCUMENT_REJECTED" THEN \E code \in DOMAIN Defect : Defect[code] ELSE Defect[e.code]
    <3> HIDE DEF d, e, Defect
    <3> QED
      BY <2>1, <2>2, <2>4 DEF OutcomeSound
  <2> QED
    BY <2>3
<1> QED
  BY <1>1, InitVerdictInv, StepVerdictInv, PTL DEF PipelineSpec

-----------------------------------------------------------------------------
(* What the client's checks let through, and what reaches them.             *)

\* The archive of a whole document, by its parts.
InOrder(d) == [n \in 1 .. d.pages |-> n]
Named(d) == Manifest(d, InOrder(d))
EntriesOf(d) == Archive(d, InOrder(d)).entries

LEMMA ArchiveParts ==
  ASSUME NEW d, d.pages \in Nat \ {0}
  PROVE  LET a == Archive(d, InOrder(d))
             m == Named(d)
         IN  /\ DOMAIN a = {"manifest", "whole", "digest", "tar", "entries"}
             /\ a.manifest = <<m>> /\ a.whole = TRUE /\ a.digest = TRUE /\ a.tar = TRUE
             /\ Len(EntriesOf(d)) = d.pages + 1 /\ DOMAIN EntriesOf(d) = 1 .. d.pages + 1
             /\ EntriesOf(d)[1] = Entry(<<"normalized">>, Bytes(d, 0))
             /\ \A n \in 1 .. d.pages : EntriesOf(d)[n + 1] = PageEntry(d, n)
             /\ \E S : EntriesOf(d) \in Seq(S)
             /\ DOMAIN m = {"kind", "pageCount", "normalized", "pages"}
             /\ m.pageCount = d.pages /\ m.normalized.path = <<"normalized">>
             /\ m.normalized.sha256 = Bytes(d, 0)
             /\ m.pages = [n \in 1 .. d.pages |-> manifestPage(d, n)] /\ Len(m.pages) = d.pages
             /\ \E S : m.pages \in Seq(S)
<1> DEFINE a == Archive(d, InOrder(d))
           S == {PageEntry(d, n) : n \in 1 .. d.pages} \cup {Entry(<<"normalized">>, Bytes(d, 0))}
           tail == [n \in 1 .. d.pages |-> PageEntry(d, n)]
           T == {manifestPage(d, n) : n \in 1 .. d.pages}
<1>1. InOrder(d) \in Seq(1 .. d.pages) /\ Len(InOrder(d)) = d.pages /\ DOMAIN InOrder(d) = 1 .. d.pages
  BY DEF InOrder
<1>2. tail \in Seq(S) /\ Len(tail) = d.pages
  OBVIOUS
<1>3. [n \in DOMAIN InOrder(d) |-> PageEntry(d, InOrder(d)[n])] = tail
  BY <1>1 DEF InOrder
<1>4. EntriesOf(d) = <<Entry(<<"normalized">>, Bytes(d, 0))>> \o tail
  BY <1>3 DEF EntriesOf, Archive
<1>5. DOMAIN a = {"manifest", "whole", "digest", "tar", "entries"} /\ a.whole = TRUE /\ a.digest = TRUE /\ a.tar = TRUE
      /\ a.manifest = <<Named(d)>>
  BY DEF Archive, Named
<1>6. <<Entry(<<"normalized">>, Bytes(d, 0))>> \in Seq(S)
  OBVIOUS
<1>7. /\ Len(EntriesOf(d)) = d.pages + 1 /\ DOMAIN EntriesOf(d) = 1 .. d.pages + 1 /\ EntriesOf(d) \in Seq(S)
      /\ EntriesOf(d)[1] = Entry(<<"normalized">>, Bytes(d, 0))
      /\ \A n \in 1 .. d.pages : EntriesOf(d)[n + 1] = tail[n]
  <2> HIDE DEF S, tail
  <2> QED
    BY <1>2, <1>4, <1>6
<1>8. [n \in DOMAIN InOrder(d) |-> manifestPage(d, InOrder(d)[n])] = [n \in 1 .. d.pages |-> manifestPage(d, n)]
  BY <1>1 DEF InOrder
<1>9. [n \in 1 .. d.pages |-> manifestPage(d, n)] \in Seq(T) /\ Len([n \in 1 .. d.pages |-> manifestPage(d, n)]) = d.pages
  OBVIOUS
<1>10. LET m == Named(d) IN
             /\ DOMAIN m = {"kind", "pageCount", "normalized", "pages"}
             /\ m.pageCount = d.pages /\ m.normalized.path = <<"normalized">>
             /\ m.normalized.sha256 = Bytes(d, 0)
             /\ m.pages = [n \in 1 .. d.pages |-> manifestPage(d, n)]
  BY <1>1, <1>8 DEF Named, Manifest
<1> QED
  BY <1>5, <1>7, <1>9, <1>10

\* What an answer that was damaged can look like.
LEMMA DamagedForms ==
  ASSUME NEW a, NEW x \in Damaged(a)
  PROVE  LET n == Len(a.entries)
             front(s) == SubSeq(s, 1, Len(s) - 1)
             reverse(s) == [i \in 1 .. Len(s) |-> s[(Len(s) - i) + 1]]
         IN  \/ x = [a EXCEPT !.whole = FALSE, !.entries = front(@)]
             \/ x = [a EXCEPT !.digest = FALSE] \/ x = [a EXCEPT !.tar = FALSE]
             \/ x = [a EXCEPT !.entries = front(@)]
             \/ x = [a EXCEPT !.entries = Append(@, a.entries[n])]
             \/ x = [a EXCEPT !.entries = Append(@, PageEntry(a.entries[1].bytes.of, n))]
             \/ x = [a EXCEPT !.entries = Append(@, Entry(<<"elsewhere">>, a.entries[1].bytes))]
             \/ x = [a EXCEPT !.entries[n].bytes = a.entries[1].bytes]
             \/ x = [a EXCEPT !.entries[n].fits = FALSE]
             \/ x = [a EXCEPT !.entries[1].bytes = a.entries[n].bytes]
             \/ x = [a EXCEPT !.manifest = <<>>]
             \/ x = [a EXCEPT !.manifest[1].pageCount = @ + 1]
             \/ x = [a EXCEPT !.manifest[1].pages = front(@), !.manifest[1].pageCount = @ - 1]
             \/ x = [a EXCEPT !.manifest[1].pages = reverse(@)]
BY Zenon DEF Damaged, Front, Reverse

\* The client's checks pass only what names and holds the whole document.
LEMMA OnlyTheDocumentPasses ==
  ASSUME NEW d, d.pages \in Nat \ {0}, NEW x \in {Archive(d, InOrder(d))} \cup Damaged(Archive(d, InOrder(d))),
         extractResponse(x)
  PROVE  /\ x.manifest[1] = Named(d)
         /\ {x.entries[i] : i \in DOMAIN x.entries} = {EntriesOf(d)[i] : i \in DOMAIN EntriesOf(d)}
<1> DEFINE a == Archive(d, InOrder(d))
           m == Named(d)
           p == d.pages
           n == p + 1
<1>1. p \in Nat /\ p > 0
  OBVIOUS
<1>2. /\ DOMAIN a = {"manifest", "whole", "digest", "tar", "entries"}
      /\ a.manifest = <<m>> /\ a.entries = EntriesOf(d)
  BY ArchiveParts DEF EntriesOf
<1>3. /\ Len(EntriesOf(d)) = n /\ DOMAIN EntriesOf(d) = 1 .. n
      /\ EntriesOf(d)[1] = Entry(<<"normalized">>, Bytes(d, 0)) /\ EntriesOf(d)[n] = PageEntry(d, p)
  <2>1. p \in 1 .. p
    BY <1>1
  <2> QED
    BY <2>1, ArchiveParts
<1>4. /\ DOMAIN m = {"kind", "pageCount", "normalized", "pages"}
      /\ m.pageCount = p /\ m.normalized.path = <<"normalized">> /\ m.normalized.sha256 = Bytes(d, 0)
      /\ m = [f \in DOMAIN m |-> m[f]]
  <2>1. m = [f \in DOMAIN m |-> m[f]]
    BY DEF Named, Manifest
  <2> QED
    BY <2>1, ArchiveParts
<1>17. /\ m.pages = [i \in 1 .. p |-> manifestPage(d, i)] /\ Len(m.pages) = p
       /\ DOMAIN m.pages = 1 .. p /\ p \in 1 .. p
  <2>1. m.pages = [i \in 1 .. p |-> manifestPage(d, i)] /\ Len(m.pages) = p
    BY ArchiveParts
  <2> HIDE DEF m, p
  <2> QED
    BY <1>1, <2>1
<1>18. \A i \in 1 .. p : m.pages[i].pageNumber = i /\ m.pages[i].preview.path = <<"preview", i>>
                         /\ m.pages[i].preview.sha256 = Bytes(d, i)
  BY <1>17 DEF manifestPage
<1> DEFINE r == x.manifest[1]
           e == x.entries
<1>19. x.tar /\ x.whole /\ x.digest /\ x.manifest # <<>> /\ \A i \in DOMAIN e : e[i].fits
  BY DEF extractResponse, entryByteLimit
<1>20. \A i, j \in DOMAIN e : e[i].path = e[j].path => i = j
  BY DEF extractResponse
<1>21. Len(r.pages) = r.pageCount /\ Len(e) = Len(r.pages) + 1 /\ \A i \in DOMAIN r.pages : r.pages[i].pageNumber = i
  BY DEF extractResponse, parseManifest, AllReferenced
<1>22. \E i \in DOMAIN e : e[i].path = r.normalized.path /\ e[i].bytes = r.normalized.sha256
  BY DEF extractResponse, assertArtifactMatches
<1>23. \A k \in DOMAIN r.pages : \E i \in DOMAIN e :
         e[i].path = r.pages[k].preview.path /\ e[i].bytes = r.pages[k].preview.sha256
  BY DEF extractResponse, assertArtifactMatches
<1>5. CASE x = a
  BY <1>2, <1>5
<1> HIDE DEF a, m, p, r, e
<1>6. x # [a EXCEPT !.whole = FALSE, !.entries = SubSeq(@, 1, Len(@) - 1)]
  BY <1>2, <1>19
<1>7. x # [a EXCEPT !.digest = FALSE] /\ x # [a EXCEPT !.tar = FALSE] /\ x # [a EXCEPT !.manifest = <<>>]
  BY <1>2, <1>19
\* One entry too few or too many.
<1>8. ASSUME NEW f, x = [a EXCEPT !.entries = f] PROVE Len(f) = n
  <2>1. e = f /\ r = m
    BY <1>2, <1>8 DEF e, r
  <2> QED
    BY <1>17, <1>21, <2>1
<1>9. x # [a EXCEPT !.entries = SubSeq(@, 1, Len(@) - 1)]
  <2>1. Len(SubSeq(EntriesOf(d), 1, n - 1)) # n
    BY <1>1, <1>3, SubSeqProperties
  <2>2. x = [a EXCEPT !.entries = SubSeq(@, 1, Len(@) - 1)] => x = [a EXCEPT !.entries = SubSeq(EntriesOf(d), 1, n - 1)]
    BY <1>2, <1>3
  <2> QED
    BY <1>8, <2>1, <2>2
<1>10. ASSUME NEW f PROVE x # [a EXCEPT !.entries = Append(@, f)]
  <2>1. PICK S : EntriesOf(d) \in Seq(S)
    BY ArchiveParts
  <2>2. Len(Append(EntriesOf(d), f)) = n + 1
    <3>1. EntriesOf(d) \in Seq(S \cup {f})
      BY <1>1, <1>3, <2>1
    <3> QED
      BY <1>3, <3>1, AppendProperties
  <2> SUFFICES ASSUME x = [a EXCEPT !.entries = Append(@, f)] PROVE FALSE
    OBVIOUS
  <2>3. x = [a EXCEPT !.entries = Append(EntriesOf(d), f)]
    BY <1>2
  <2>4. Len(Append(EntriesOf(d), f)) = n
    BY <1>8, <2>3
  <2> QED
    BY <1>1, <2>2, <2>4
\* A page, or the normalized document, with other bytes.
<1>11. x # [a EXCEPT !.entries[n].bytes = a.entries[1].bytes]
  <2> SUFFICES ASSUME x = [a EXCEPT !.entries[n].bytes = a.entries[1].bytes] PROVE FALSE
    OBVIOUS
  <2>1. r = m /\ e = [EntriesOf(d) EXCEPT ![n].bytes = EntriesOf(d)[1].bytes]
    BY <1>2 DEF r, e
  <2>2. n \in DOMAIN EntriesOf(d)
    BY <1>1, <1>3
  <2>3. e[n].path = <<"preview", p>> /\ e[n].bytes = Bytes(d, 0) /\ n \in DOMAIN e
    BY <1>3, <2>1, <2>2 DEF PageEntry, Entry
  <2>4. PICK i \in DOMAIN e : e[i].path = <<"preview", p>> /\ e[i].bytes = Bytes(d, p)
    <3>1. p \in DOMAIN r.pages /\ r.pages[p].preview.path = <<"preview", p>> /\ r.pages[p].preview.sha256 = Bytes(d, p)
      BY <1>17, <1>18, <2>1
    <3> QED
      BY <1>23, <3>1
  <2>5. i = n
    BY <1>20, <2>3, <2>4
  <2>6. Bytes(d, 0) # Bytes(d, p)
    BY <1>1 DEF Bytes
  <2> QED
    BY <2>3, <2>4, <2>5, <2>6
<1>12. x # [a EXCEPT !.entries[n].fits = FALSE]
  <2> SUFFICES ASSUME x = [a EXCEPT !.entries[n].fits = FALSE] PROVE FALSE
    OBVIOUS
  <2>1. e = [EntriesOf(d) EXCEPT ![n].fits = FALSE]
    BY <1>2 DEF e
  <2>2. n \in DOMAIN EntriesOf(d)
    BY <1>1, <1>3
  <2>3. n \in DOMAIN e /\ e[n].fits = FALSE
    BY <1>3, <2>1, <2>2 DEF PageEntry, Entry
  <2> QED
    BY <1>19, <2>3
<1>13. x # [a EXCEPT !.entries[1].bytes = a.entries[n].bytes]
  <2> SUFFICES ASSUME x = [a EXCEPT !.entries[1].bytes = a.entries[n].bytes] PROVE FALSE
    OBVIOUS
  <2>1. r = m /\ e = [EntriesOf(d) EXCEPT ![1].bytes = EntriesOf(d)[n].bytes]
    BY <1>2 DEF r, e
  <2>2. 1 \in DOMAIN EntriesOf(d)
    BY <1>1, <1>3
  <2>3. e[1].path = <<"normalized">> /\ e[1].bytes = Bytes(d, p) /\ 1 \in DOMAIN e
    BY <1>3, <2>1, <2>2 DEF PageEntry, Entry
  <2>4. PICK i \in DOMAIN e : e[i].path = <<"normalized">> /\ e[i].bytes = Bytes(d, 0)
    BY <1>4, <1>22, <2>1
  <2>5. i = 1
    BY <1>20, <2>3, <2>4
  <2>6. Bytes(d, 0) # Bytes(d, p)
    BY <1>1 DEF Bytes
  <2> QED
    BY <2>3, <2>4, <2>5, <2>6
\* A manifest that counts, or orders, other pages.
<1>24. <<m>>[1] = m /\ 1 \in DOMAIN <<m>>
  OBVIOUS
<1>14. x # [a EXCEPT !.manifest[1].pageCount = @ + 1]
  <2> SUFFICES ASSUME x = [a EXCEPT !.manifest[1].pageCount = @ + 1] PROVE FALSE
    OBVIOUS
  <2>1. r = [m EXCEPT !.pageCount = @ + 1]
    BY <1>2, <1>24 DEF r
  <2>2. r.pages = m.pages /\ r.pageCount = p + 1
    BY <1>4, <2>1
  <2> QED
    BY <1>1, <1>17, <1>21, <2>2
<1>15. x # [a EXCEPT !.manifest[1].pages = SubSeq(@, 1, Len(@) - 1), !.manifest[1].pageCount = @ - 1]
  <2> SUFFICES ASSUME x = [a EXCEPT !.manifest[1].pages = SubSeq(@, 1, Len(@) - 1), !.manifest[1].pageCount = @ - 1]
               PROVE  FALSE
    OBVIOUS
  <2>1. r.pageCount = p - 1 /\ e = EntriesOf(d)
    BY <1>2, <1>4, <1>24 DEF r, e
  <2> QED
    BY <1>1, <1>3, <1>21, <2>1
<1>16. CASE x = [a EXCEPT !.manifest[1].pages = [i \in 1 .. Len(@) |-> @[(Len(@) - i) + 1]]]
  <2> DEFINE s == [i \in 1 .. p |-> m.pages[(p - i) + 1]]
  <2>1. r = [m EXCEPT !.pages = s] /\ e = EntriesOf(d)
    BY <1>2, <1>16, <1>17, <1>24 DEF r, e
  <2>2. r.pages = s
    BY <1>4, <2>1
  <2>3. 1 \in DOMAIN s /\ s[1] = m.pages[p] /\ m.pages[p].pageNumber = p
    BY <1>1, <1>18
  <2>4. p = 1
    BY <1>21, <2>2, <2>3
  <2>5. s = m.pages
    BY <1>17, <2>4
  <2>6. [m EXCEPT !.pages = s] = m
    BY <1>4, <2>5
  <2> QED
    BY <2>1, <2>6 DEF m, r, e
<1> QED
  BY <1>5, <1>6, <1>7, <1>9, <1>10, <1>11, <1>12, <1>13, <1>14, <1>15, <1>16, <1>2, <1>3, DamagedForms DEF a

-----------------------------------------------------------------------------
\* A document that comes through the processor.
Passes(d) ==
  /\ tokenRight /\ ~d.large /\ d.delivered /\ d.signed /\ ~d.infected
  /\ d.kind = "PDF" => ~d.encrypted /\ d.sound
  /\ d.renders /\ ~d.bulky

\* What a step knows of its document is what the steps before it checked.
Steps == {"input", "scan", "inspect", "render", "archive", "stream", "release"}
Inspected == {"render", "archive", "stream"}
TaskRight ==
  LET d == task.document
  IN  task # NoTask =>
        /\ task.step \in Steps /\ d \in Documents
        /\ tokenRight /\ ~d.large
        /\ task.step \in {"input", "scan", "inspect"} => task.pages = <<>>
        /\ task.step \in {"scan", "inspect"} \cup Inspected => d.delivered /\ d.signed
        /\ task.step \in {"inspect"} \cup Inspected => ~d.infected
        /\ task.step \in Inspected =>
             /\ d.kind = "PDF" => ~d.encrypted /\ d.sound
             /\ task.count = d.pages
             /\ \E k \in 0 .. d.pages : task.pages = [n \in 1 .. k |-> n] /\ (k > 0 => d.renders /\ ~d.bulky)
        /\ task.step \in {"archive", "stream"} => task.pages = InOrder(d) /\ d.renders /\ ~d.bulky

\* An archive on its way is the document's, or was damaged once.
ArchiveRight(w) ==
  LET d == w.document
      a == Archive(d, InOrder(d))
  IN  w.answer # <<>> /\ IsArchive(w.answer[1]) =>
        Passes(d) /\ w.answer[1] \in {a} \cup (IF w.damaged THEN Damaged(a) ELSE {})
CallRight(w) ==
  /\ w.document \in Documents /\ w.damaged \in BOOLEAN
  /\ ArchiveRight(w)
  /\ w.step = "bundle" => w.answer # <<>> /\ IsArchive(w.answer[1]) /\ extractResponse(w.answer[1])

\* Between tasks the scratch is empty; only a task that streams has a response.
ScratchRight ==
  up => /\ task = NoTask => scratch = {}
        /\ task # NoTask /\ task.step # "stream" => \A s \in scratch : s.for = "job"
        /\ \A s \in scratch : s.for \in {"job", "response"}

\* A directory that is not an orphan's is that of its worker's present request.
IsResponse(r) == DOMAIN r = {"client", "conn", "orphan", "old"} /\ r.client \in Workers /\ r.orphan \in BOOLEAN
ResponsesRight ==
  \A r \in responses :
    /\ IsResponse(r)
    /\ ~r.orphan => r.conn = worker[r.client].conn /\ worker[r.client].step \in {"sent", "bundle"}

CallsRight == \A c \in Workers : CallRight(worker[c])
BundleParts == TaskRight /\ ScratchRight /\ ResponsesRight /\ CallsRight
BundleInv == VerdictInv /\ BundleParts

LEMMA InitBundleInv == PipelineInit => BundleInv
<1> SUFFICES ASSUME PipelineInit PROVE BundleInv
  OBVIOUS
<1>1. ASSUME NEW c \in Workers PROVE CallRight(worker[c])
  <2>1. PICK d \in Documents : worker[c] = [step |-> "idle", document |-> d, conn |-> 0, answer |-> <<>>,
                                            damaged |-> FALSE, outcome |-> <<>>]
    BY DEF PipelineInit
  <2> QED
    BY <2>1 DEF CallRight, ArchiveRight
<1> QED
  BY <1>1, InitVerdictInv DEF PipelineInit, BundleInv, BundleParts, CallsRight, TaskRight, ScratchRight, ResponsesRight

LEMMA BundleIsWhole == ASSUME BundleInv PROVE BundleIsTheDocument
<1>1. ASSUME NEW c \in Workers, worker[c].step = "bundle"
      PROVE  LET d == worker[c].document
                 a == worker[c].answer[1]
             IN  /\ Passes(d)
                 /\ a.manifest[1] = Named(d)
                 /\ {a.entries[i] : i \in DOMAIN a.entries} =
                      {Entry(<<"normalized">>, Bytes(d, 0))} \cup {PageEntry(d, n) : n \in 1 .. d.pages}
  <2> DEFINE d == worker[c].document
             a == worker[c].answer[1]
  <2>1. /\ d \in Documents /\ Passes(d) /\ extractResponse(a)
        /\ a \in {Archive(d, InOrder(d))} \cup Damaged(Archive(d, InOrder(d)))
    BY <1>1 DEF BundleInv, BundleParts, CallsRight, CallRight, ArchiveRight
  <2>2. d.pages \in Nat \ {0}
    BY <2>1, PipelineAssumption DEF Passes
  <2> HIDE DEF d, a
  <2>3. /\ a.manifest[1] = Named(d)
        /\ {a.entries[i] : i \in DOMAIN a.entries} = {EntriesOf(d)[i] : i \in DOMAIN EntriesOf(d)}
    BY <2>1, <2>2, OnlyTheDocumentPasses
  <2>4. /\ DOMAIN EntriesOf(d) = 1 .. d.pages + 1
        /\ EntriesOf(d)[1] = Entry(<<"normalized">>, Bytes(d, 0))
        /\ \A n \in 1 .. d.pages : EntriesOf(d)[n + 1] = PageEntry(d, n)
    BY <2>2, ArchiveParts
  <2>5. {EntriesOf(d)[i] : i \in DOMAIN EntriesOf(d)} =
          {Entry(<<"normalized">>, Bytes(d, 0))} \cup {PageEntry(d, n) : n \in 1 .. d.pages}
    <3>1. ASSUME NEW i \in DOMAIN EntriesOf(d)
          PROVE  EntriesOf(d)[i] \in {Entry(<<"normalized">>, Bytes(d, 0))} \cup {PageEntry(d, n) : n \in 1 .. d.pages}
      <4>1. CASE i = 1
        BY <2>4, <4>1
      <4>2. CASE i # 1
        <5>1. i - 1 \in 1 .. d.pages /\ (i - 1) + 1 = i
          BY <2>2, <2>4, <4>2
        <5>2. EntriesOf(d)[i] = PageEntry(d, i - 1)
          BY <2>4, <5>1
        <5> QED
          BY <5>1, <5>2
      <4> QED
        BY <4>1, <4>2
    <3>2. ASSUME NEW n \in 1 .. d.pages PROVE n + 1 \in DOMAIN EntriesOf(d) /\ EntriesOf(d)[n + 1] = PageEntry(d, n)
      BY <2>2, <2>4
    <3>3. 1 \in DOMAIN EntriesOf(d)
      BY <2>2, <2>4
    <3> QED
      BY <2>4, <3>1, <3>2, <3>3
  <2> QED
    BY <2>1, <2>3, <2>5 DEF d, a
<1>2. task.step \in {"inspect", "render", "archive", "stream"} => ~task.document.infected
  BY DEF BundleInv, BundleParts, TaskRight, Inspected, NoTask
<1>3. \A r \in responses : ~r.orphan => r \in Ours(r.client) /\ worker[r.client].step \in {"sent", "bundle"}
  BY DEF BundleInv, BundleParts, ResponsesRight, Ours
<1> QED
  BY <1>1, <1>2, <1>3 DEF BundleInv, BundleParts, ScratchRight, BundleIsTheDocument, Passes, Named, InOrder

LEMMA CallsStay == ASSUME BundleInv, UNCHANGED <<tokenRight, worker>> PROVE CallsRight'
BY DEF BundleInv, BundleParts, CallsRight, CallRight, ArchiveRight, Passes

LEMMA TaskStays == ASSUME BundleInv, UNCHANGED <<tokenRight, task>> PROVE TaskRight'
BY DEF BundleInv, BundleParts, TaskRight

LEMMA TaskReleased ==
  ASSUME BundleInv, task # NoTask, task' = [task EXCEPT !.step = "release"], UNCHANGED tokenRight
  PROVE  TaskRight' /\ task' # NoTask /\ task'.step = "release"
<1>1. IsTask(task)
  BY DEF BundleInv, VerdictInv, TaskSound
<1>2. task'.step = "release" /\ task'.document = task.document
  BY <1>1 DEF IsTask
<1> QED
  BY <1>2 DEF BundleInv, BundleParts, TaskRight, Steps, Inspected, NoTask

LEMMA ResponsesStay ==
  ASSUME BundleInv, UNCHANGED responses,
         \A c \in Workers : worker'[c].conn = worker[c].conn /\ worker'[c].step = worker[c].step
  PROVE  ResponsesRight'
BY DEF BundleInv, BundleParts, ResponsesRight, IsResponse

\* One worker's call changes, and stays right.
LEMMA CallChanges ==
  ASSUME BundleInv, NEW c \in Workers, NEW w, CallRight(w), worker' = [worker EXCEPT ![c] = w], UNCHANGED tokenRight
  PROVE  CallsRight' /\ worker'[c] = w /\ \A i \in Workers \ {c} : worker'[i] = worker[i]
<1>1. worker'[c] = w /\ \A i \in Workers \ {c} : worker'[i] = worker[i]
  BY DEF BundleInv, VerdictInv, CallsSound
<1>2. ASSUME NEW v, CallRight(v) PROVE CallRight(v)'
  BY <1>2 DEF CallRight, ArchiveRight, Passes
<1> QED
  BY <1>1, <1>2 DEF BundleInv, BundleParts, CallsRight

LEMMA ReplyKeepsRight ==
  ASSUME BundleInv, task # NoTask, NEW x, Reply(x), UNCHANGED <<tokenRight, responses>>,
         IsArchive(x) => Passes(task.document) /\ x = Archive(task.document, InOrder(task.document))
  PROVE  CallsRight' /\ ResponsesRight'
<1>1. task.client \in Workers /\ task.document = worker[task.client].document
  BY DEF BundleInv, VerdictInv, TaskSound
<1>2. CASE worker' = worker
  BY <1>2, CallsStay, ResponsesStay
<1>3. CASE Waiting(task.client, task.conn) /\ worker' = [worker EXCEPT ![task.client].answer = <<x>>]
  <2> DEFINE w == [worker[task.client] EXCEPT !.answer = <<x>>]
  <2>1. IsCall(worker[task.client]) /\ CallRight(worker[task.client])
    BY <1>1 DEF BundleInv, BundleParts, CallsRight, VerdictInv, CallsSound, CallSound
  <2>2. /\ w.document = worker[task.client].document /\ w.answer = <<x>> /\ w.step = worker[task.client].step
        /\ w.damaged = worker[task.client].damaged /\ w.conn = worker[task.client].conn
    BY <2>1 DEF IsCall
  <2>3. worker' = [worker EXCEPT ![task.client] = w]
    BY <1>3
  <2> HIDE DEF w
  <2>4. CallRight(w)
    BY <1>1, <1>3, <2>1, <2>2 DEF CallRight, ArchiveRight, Waiting
  <2>5. CallsRight' /\ worker'[task.client] = w /\ \A i \in Workers \ {task.client} : worker'[i] = worker[i]
    BY <1>1, <2>3, <2>4, CallChanges
  <2>6. ResponsesRight'
    BY <2>2, <2>5, ResponsesStay
  <2> QED
    BY <2>5, <2>6
<1> QED
  BY <1>2, <1>3 DEF Reply

LEMMA FailsKeepsRight ==
  ASSUME BundleInv, up, task # NoTask, task.step # "stream", NEW e, IsError(e), Fails(e)
  PROVE  BundleParts'
<1>1. ~IsArchive(e)
  BY DEF IsError, IsArchive
<1>2. CallsRight' /\ ResponsesRight'
  BY <1>1, ReplyKeepsRight DEF Fails
<1>3. TaskRight' /\ task' # NoTask /\ task'.step = "release"
  BY TaskReleased DEF Fails
<1>4. scratch' = {}
  BY DEF Fails, BundleInv, BundleParts, ScratchRight
<1> QED
  BY <1>2, <1>3, <1>4 DEF BundleParts, ScratchRight

LEMMA ErrorsAreErrors ==
  /\ \A code : IsError(Refusal(code)) /\ IsError(Trouble(code))
  /\ IsError(TimedOut) /\ IsError(CapacityExhausted)
  /\ IsError([Refusal("MALFORMED_DOCUMENT") EXCEPT !.excuse = "killed"])
<1>1. \A code : IsError(Refusal(code)) /\ IsError(Trouble(code))
  BY DEF IsError, Refusal, Trouble, Error
<1>2. ASSUME NEW e, IsError(e), NEW x PROVE IsError([e EXCEPT !.excuse = x])
  BY <1>2 DEF IsError
<1> QED
  BY <1>1, <1>2 DEF TimedOut, CapacityExhausted

\* The task goes on to its next step, knowing what this one checked.
LEMMA ContinuesKeepsRight ==
  ASSUME BundleInv, up, task # NoTask, task.step # "stream", NEW t, Continues(t), t # NoTask, TaskRight'
  PROVE  BundleParts'
<1>1. CallsRight' /\ ResponsesRight'
  BY CallsStay, ResponsesStay DEF Continues
<1> QED
  BY <1>1 DEF Continues, BundleInv, BundleParts, ScratchRight

LEMMA CheckKeepsRight == ASSUME BundleInv, receiveInput \/ scan PROVE BundleParts'
<1>1. /\ up /\ task # NoTask /\ task.step # "stream" /\ IsTask(task)
  BY DEF receiveInput, scan, Runs, NoTask, BundleInv, VerdictInv, TaskSound
<1>2. ASSUME NEW e, IsError(e), Fails(e) PROVE BundleParts'
  BY <1>1, <1>2, FailsKeepsRight
<1>6. task.step \in {"input", "scan"}
  BY DEF receiveInput, scan, Runs
<1>3. ASSUME NEW s, Continues([task EXCEPT !.step = s]),
             \/ s = "scan" /\ task.document.delivered /\ task.document.signed
             \/ s = "inspect" /\ task.step = "scan" /\ ~task.document.infected
      PROVE  BundleParts'
  <2>0. task.pages = <<>>
    BY <1>1, <1>6 DEF BundleInv, BundleParts, TaskRight
  <2>1. task' # NoTask /\ task'.step = s /\ task'.document = task.document /\ task'.pages = task.pages
    BY <1>1, <1>3 DEF Continues, NoTask, IsTask
  <2>2. tokenRight' = tokenRight
    BY <1>3 DEF Continues
  <2>3. TaskRight'
    BY <1>1, <1>3, <2>0, <2>1, <2>2 DEF BundleInv, BundleParts, TaskRight, Steps, Inspected
  <2> QED
    BY <1>1, <1>3, <2>1, <2>3, ContinuesKeepsRight DEF Continues
<1>4. CASE receiveInput
  BY <1>2, <1>3, <1>4, ErrorsAreErrors DEF receiveInput, Intact, hasExpectedSignature
<1>5. CASE scan
  BY <1>2, <1>3, <1>5, ErrorsAreErrors DEF scan, assertFresh, ScannerAnswers, Scanned, Runs
<1> QED
  BY <1>4, <1>5

LEMMA InspectKeepsRight == ASSUME BundleInv, inspectPdf PROVE BundleParts'
<1> DEFINE d == task.document
<1>1. /\ up /\ task # NoTask /\ task.step = "inspect" /\ IsTask(task) /\ d \in Documents
  BY DEF inspectPdf, Runs, NoTask, BundleInv, BundleParts, TaskRight, VerdictInv, TaskSound
<1>2. ASSUME NEW e, IsError(e), Fails(e) PROVE BundleParts'
  BY <1>1, <1>2, FailsKeepsRight
<1>3. ASSUME NEW n, Continues([task EXCEPT !.step = "render", !.count = n]), n = d.pages,
             d.kind = "PDF" => ~d.encrypted /\ d.sound
      PROVE  BundleParts'
  <2>1. /\ task' # NoTask /\ task'.step = "render" /\ task'.document = d /\ task'.count = n
        /\ task'.pages = task.pages
    BY <1>1, <1>3 DEF Continues, NoTask, IsTask
  <2>2. tokenRight' = tokenRight
    BY <1>3 DEF Continues
  <2>3. d.pages \in Nat \ {0}
    BY <1>1, <1>3, PipelineAssumption
  <2>4. task.pages = <<>>
    BY <1>1 DEF BundleInv, BundleParts, TaskRight
  <2>5. \E k \in 0 .. d.pages : task.pages = [i \in 1 .. k |-> i] /\ (k > 0 => d.renders /\ ~d.bulky)
    <3>1. 0 \in 0 .. d.pages /\ task.pages = [i \in 1 .. 0 |-> i]
      BY <2>3, <2>4
    <3> QED
      BY <3>1
  <2>6. TaskRight'
    BY <1>1, <1>3, <2>1, <2>2, <2>5 DEF BundleInv, BundleParts, TaskRight, Steps, Inspected
  <2> QED
    BY <1>1, <1>3, <2>1, <2>6, ContinuesKeepsRight DEF Continues
<1>4. d.kind # "PDF" => d.pages = 1
  BY <1>1, PipelineAssumption
<1> QED
  BY <1>2, <1>3, <1>4, ErrorsAreErrors DEF inspectPdf

LEMMA NextPage ==
  ASSUME NEW k \in Nat
  PROVE  LET s == [n \in 1 .. k |-> n]
         IN  Len(s) = k /\ Append(s, Len(s) + 1) = [n \in 1 .. k + 1 |-> n]
<1> DEFINE s == [n \in 1 .. k |-> n]
<1>1. s \in Seq(Nat) /\ Len(s) = k
  OBVIOUS
<1> QED
  BY <1>1

LEMMA RenderKeepsRight == ASSUME BundleInv, normalizeIntoPdf \/ finalize PROVE BundleParts'
<1> DEFINE d == task.document
<1>1. /\ up /\ task # NoTask /\ task.step = "render" /\ IsTask(task) /\ d \in Documents
  BY DEF normalizeIntoPdf, finalize, Runs, NoTask, BundleInv, BundleParts, TaskRight, VerdictInv, TaskSound
<1>2. PICK k \in 0 .. d.pages :
        task.pages = [n \in 1 .. k |-> n] /\ task.count = d.pages /\ (k > 0 => d.renders /\ ~d.bulky)
  BY <1>1 DEF BundleInv, BundleParts, TaskRight, Inspected
<1>3. d.pages \in Nat \ {0} /\ k \in Nat
  BY <1>1, PipelineAssumption DEF BundleInv, BundleParts, TaskRight, Inspected
<1>4. Len(task.pages) = k /\ Append(task.pages, Len(task.pages) + 1) = [n \in 1 .. k + 1 |-> n]
  BY <1>2, <1>3, NextPage
<1>5. CASE normalizeIntoPdf /\ normalizePage(d) # <<>>
  BY <1>1, <1>5, FailsKeepsRight, ErrorsAreErrors DEF normalizeIntoPdf, normalizePage
<1>6. CASE normalizeIntoPdf /\ normalizePage(d) = <<>>
  <2>1. Continues(addPage) /\ d.renders /\ ~d.bulky
    BY <1>6 DEF normalizeIntoPdf, normalizePage
  <2>2. /\ task' # NoTask /\ task'.step = "render" /\ task'.document = d /\ task'.count = task.count
        /\ task'.pages = [n \in 1 .. k + 1 |-> n] /\ tokenRight' = tokenRight
    BY <1>1, <1>4, <2>1 DEF Continues, addPage, NoTask, IsTask
  <2>3. k + 1 \in 0 .. d.pages
    BY <1>2, <1>3, <1>4, <1>6 DEF normalizeIntoPdf, Rendered
  <2>4. TaskRight'
    BY <1>1, <1>2, <2>1, <2>2, <2>3 DEF BundleInv, BundleParts, TaskRight, Steps, Inspected
  <2> QED
    BY <1>1, <2>1, <2>2, <2>4, ContinuesKeepsRight DEF Continues
<1>7. CASE finalize
  <2>1. k = d.pages /\ task.pages = InOrder(d) /\ d.renders /\ ~d.bulky
    BY <1>2, <1>3, <1>4, <1>7 DEF finalize, Rendered, InOrder
  <2>2. /\ task' # NoTask /\ task'.step = "archive" /\ task'.document = d /\ task'.count = task.count
        /\ task'.pages = task.pages /\ tokenRight' = tokenRight
    BY <1>1, <1>7 DEF finalize, Continues, NoTask, IsTask
  <2>3. TaskRight'
    BY <1>1, <1>2, <2>1, <2>2 DEF BundleInv, BundleParts, TaskRight, Steps, Inspected
  <2> QED
    BY <1>1, <1>7, <2>2, <2>3, ContinuesKeepsRight DEF Continues, finalize
<1> QED
  BY <1>5, <1>6, <1>7

LEMMA AnswerKeepsRight == ASSUME BundleInv, buildTar \/ streamTar \/ release PROVE BundleParts'
<1>1. up /\ task # NoTask /\ IsTask(task)
  BY DEF buildTar, streamTar, release, Runs, NoTask, BundleInv, VerdictInv, TaskSound
<1>2. CASE buildTar
  <2>1. CallsRight' /\ ResponsesRight'
    BY <1>2, CallsStay, ResponsesStay DEF buildTar
  <2>2. /\ task' # NoTask /\ task'.step = "stream" /\ task'.document = task.document
        /\ task'.count = task.count /\ task'.pages = task.pages /\ task.step = "archive" /\ tokenRight' = tokenRight
    BY <1>1, <1>2 DEF buildTar, IsTask, NoTask, Runs
  <2>3. TaskRight'
    BY <1>1, <2>2 DEF BundleInv, BundleParts, TaskRight, Steps, Inspected
  <2>4. ScratchRight'
    BY <1>1, <1>2, <2>2 DEF buildTar, BundleInv, BundleParts, ScratchRight, Directory
  <2> QED
    BY <2>1, <2>3, <2>4 DEF BundleParts
<1>3. CASE streamTar
  <2>1. Passes(task.document) /\ task.pages = InOrder(task.document)
    BY <1>1, <1>3 DEF streamTar, Runs, BundleInv, BundleParts, TaskRight, Inspected, Passes
  <2>2. CallsRight' /\ ResponsesRight'
    BY <1>1, <1>3, <2>1, ReplyKeepsRight DEF streamTar
  <2>3. TaskRight' /\ task' # NoTask /\ task'.step = "release"
    BY <1>1, <1>3, TaskReleased DEF streamTar
  <2>4. ScratchRight'
    BY <1>1, <1>3, <2>3 DEF streamTar, BundleInv, BundleParts, ScratchRight
  <2> QED
    BY <2>2, <2>3, <2>4 DEF BundleParts
<1>4. CASE release
  <2>1. CallsRight' /\ ResponsesRight'
    BY <1>4, CallsStay, ResponsesStay DEF release
  <2>2. task' = NoTask /\ scratch' = {}
    BY <1>1, <1>4 DEF release, Runs, BundleInv, BundleParts, ScratchRight
  <2> QED
    BY <2>1, <2>2 DEF BundleParts, TaskRight, ScratchRight
<1> QED
  BY <1>2, <1>3, <1>4

LEMMA TroubleKeepsRight ==
  ASSUME BundleInv, processorDeadline \/ toolFails \/ requestAborted
  PROVE  BundleParts'
<1>1. up /\ task # NoTask /\ IsTask(task)
  BY DEF processorDeadline, toolFails, requestAborted, NoTask, BundleInv, VerdictInv, TaskSound
<1>2. ASSUME task' = [task EXCEPT !.step = "release"], UNCHANGED <<tokenRight, up>>,
             CallsRight', ResponsesRight', \A s \in scratch' : s \in scratch /\ s.for = "job"
      PROVE  BundleParts'
  <2>1. TaskRight' /\ task' # NoTask /\ task'.step = "release"
    BY <1>1, <1>2, TaskReleased
  <2> QED
    BY <1>2, <2>1 DEF BundleParts, ScratchRight
<1>3. ASSUME NEW e, IsError(e), Fails(e), task.step # "stream" PROVE BundleParts'
  BY <1>1, <1>3, FailsKeepsRight
<1>4. ASSUME NEW e, IsError(e), Reply(e), UNCHANGED <<tokenRight, responses>> PROVE CallsRight' /\ ResponsesRight'
  <2>1. ~IsArchive(e)
    BY <1>4 DEF IsError, IsArchive
  <2> QED
    BY <1>1, <1>4, <2>1, ReplyKeepsRight
<1>5. CASE task.step = "archive" /\ Reply(TimedOut) /\ task' = [task EXCEPT !.step = "release"]
           /\ UNCHANGED <<tokenRight, up, scratch, responses>>
  <2>1. \A s \in scratch : s.for = "job"
    BY <1>1, <1>5 DEF BundleInv, BundleParts, ScratchRight
  <2> QED
    BY <1>2, <1>4, <1>5, <2>1, ErrorsAreErrors
<1>6. CASE Reply(Trouble("CONNECTION_RESET")) /\ task' = [task EXCEPT !.step = "release"]
           /\ scratch' = {s \in scratch : s.for # "response"} /\ UNCHANGED <<tokenRight, up, responses>>
  <2>1. \A s \in scratch' : s \in scratch /\ s.for = "job"
    BY <1>1, <1>6 DEF BundleInv, BundleParts, ScratchRight
  <2> QED
    BY <1>2, <1>4, <1>6, <2>1, ErrorsAreErrors
<1>7. CASE processorDeadline
  BY <1>3, <1>5, <1>6, <1>7, ErrorsAreErrors DEF processorDeadline
<1>8. CASE toolFails
  BY <1>3, <1>8, ErrorsAreErrors DEF toolFails
<1>9. CASE requestAborted
  <2>1. CallsRight' /\ ResponsesRight'
    BY <1>9, CallsStay, ResponsesStay DEF requestAborted
  <2> QED
    BY <1>2, <1>9, <2>1 DEF requestAborted
<1> QED
  BY <1>7, <1>8, <1>9

LEMMA CrashKeepsRight == ASSUME BundleInv, processorCrashes \/ cleanupStaleScratch PROVE BundleParts'
<1>1. CASE processorCrashes
  <2> DEFINE reset(c) == [worker[c] EXCEPT !.answer = <<Trouble("CONNECTION_RESET")>>]
  <2>1. ~IsArchive(Trouble("CONNECTION_RESET"))
    BY ErrorsAreErrors DEF IsError, IsArchive
  <2>2. ASSUME NEW c \in Workers
        PROVE  /\ worker[c].step = "sent" => CallRight(reset(c))
               /\ reset(c).conn = worker[c].conn /\ reset(c).step = worker[c].step
    <3>1. IsCall(worker[c]) /\ CallRight(worker[c])
      BY DEF BundleInv, BundleParts, CallsRight, VerdictInv, CallsSound, CallSound
    <3>2. /\ reset(c).document = worker[c].document /\ reset(c).answer = <<Trouble("CONNECTION_RESET")>>
          /\ reset(c).step = worker[c].step /\ reset(c).damaged = worker[c].damaged
          /\ reset(c).conn = worker[c].conn
      BY <3>1 DEF IsCall
    <3> HIDE DEF reset
    <3> QED
      BY <2>1, <3>1, <3>2 DEF CallRight, ArchiveRight
  <2>3. ASSUME NEW v, CallRight(v) PROVE CallRight(v)'
    BY <1>1, <2>3 DEF processorCrashes, CallRight, ArchiveRight, Passes
  <2>4. /\ \A c \in Workers : worker'[c] = worker[c] \/ (worker[c].step = "sent" /\ worker'[c] = reset(c))
        /\ UNCHANGED <<tokenRight, responses>> /\ task' = NoTask /\ up' = FALSE
    BY <1>1 DEF processorCrashes
  <2> HIDE DEF reset
  <2>5. CallsRight'
    BY <2>2, <2>3, <2>4 DEF CallsRight, BundleInv, BundleParts
  <2>6. ResponsesRight'
    BY <2>2, <2>4, ResponsesStay
  <2> QED
    BY <2>4, <2>5, <2>6 DEF BundleParts, TaskRight, ScratchRight
<1>2. CASE cleanupStaleScratch
  BY <1>2, CallsStay, ResponsesStay, TaskStays DEF cleanupStaleScratch, BundleParts, ScratchRight
<1> QED
  BY <1>1, <1>2

-----------------------------------------------------------------------------
\* The client's steps: one call, and its own directories.
LEMMA TaskAndScratchStay ==
  ASSUME BundleInv, UNCHANGED <<tokenRight, up, task, scratch>>
  PROVE  TaskRight' /\ ScratchRight'
BY TaskStays DEF BundleInv, BundleParts, ScratchRight

LEMMA CallOverKeepsRight ==
  ASSUME BundleInv, NEW c \in Workers, NEW w, w.step \notin {"sent", "bundle"}, w.answer = <<>>,
         w.document = worker[c].document, w.damaged = worker[c].damaged,
         worker' = [worker EXCEPT ![c] = w],
         UNCHANGED <<tokenRight, up, task, scratch>>,
         \/ responses' = responses \ Ours(c)
         \/ responses' = {IF r \in Ours(c) THEN [r EXCEPT !.orphan = TRUE] ELSE r : r \in responses}
  PROVE  BundleParts'
<1>1. CallRight(w)
  BY DEF BundleInv, BundleParts, CallsRight, CallRight, ArchiveRight
<1>2. CallsRight' /\ \A i \in Workers \ {c} : worker'[i] = worker[i]
  BY <1>1, CallChanges
<1>3. ASSUME NEW r \in responses PROVE IsResponse(r) /\ (~r.orphan /\ r.client = c => r \in Ours(c))
  BY DEF BundleInv, BundleParts, ResponsesRight, Ours
<1>4. ASSUME NEW r \in responses
      PROVE  LET o == [r EXCEPT !.orphan = TRUE] IN IsResponse(o) /\ o.orphan
  BY <1>3 DEF IsResponse
<1>5. ASSUME NEW r \in responses, ~r.orphan, r \notin Ours(c)
      PROVE  r.conn = worker'[r.client].conn /\ worker'[r.client].step \in {"sent", "bundle"}
  BY <1>2, <1>3, <1>5 DEF BundleInv, BundleParts, ResponsesRight, IsResponse
<1>6. ResponsesRight'
  <2>1. ASSUME NEW q \in responses'
        PROVE  /\ IsResponse(q)
               /\ ~q.orphan => q.conn = worker'[q.client].conn /\ worker'[q.client].step \in {"sent", "bundle"}
    <3> DEFINE Fits(x) == /\ IsResponse(x)
                          /\ ~x.orphan => /\ x.conn = worker'[x.client].conn
                                          /\ worker'[x.client].step \in {"sent", "bundle"}
    <3>1. ASSUME NEW r \in responses, r \notin Ours(c) PROVE Fits(r) BY <1>3, <1>5, <3>1
    <3>2. ASSUME NEW r \in responses PROVE Fits([r EXCEPT !.orphan = TRUE]) BY <1>4
    <3> HIDE DEF Fits
    <3>3. ASSUME responses' = responses \ Ours(c) PROVE Fits(q)
      BY <3>1, <3>3
    <3>4. ASSUME responses' = {IF r \in Ours(c) THEN [r EXCEPT !.orphan = TRUE] ELSE r : r \in responses}
          PROVE  Fits(q)
      BY <3>1, <3>2, <3>4
    <3>5. Fits(q) BY <3>3, <3>4
    <3> QED BY <3>5 DEF Fits
  <2> QED
    BY <2>1 DEF ResponsesRight, IsResponse
<1> QED
  BY <1>2, <1>6, TaskAndScratchStay DEF BundleParts

LEMMA CallGoesOn ==
  ASSUME BundleInv, NEW c \in Workers, NEW w, CallRight(w), w.conn = worker[c].conn,
         w.step \in {"sent", "bundle"}, worker' = [worker EXCEPT ![c] = w], UNCHANGED <<tokenRight, responses>>
  PROVE  CallsRight' /\ ResponsesRight'
<1>1. CallsRight' /\ worker'[c] = w /\ \A i \in Workers \ {c} : worker'[i] = worker[i]
  BY CallChanges
<1> QED
  BY <1>1 DEF BundleInv, BundleParts, ResponsesRight, IsResponse

LEMMA GivesKeepsRight == ASSUME BundleInv, NEW c \in Workers, NEW o, Gives(c, o) PROVE BundleParts'
<1> DEFINE w == [worker[c] EXCEPT !.step = "failed", !.answer = <<>>, !.outcome = <<o>>]
<1>1. IsCall(worker[c])
  BY DEF BundleInv, VerdictInv, CallsSound, CallSound
<1>2. w.step = "failed" /\ w.answer = <<>> /\ w.document = worker[c].document /\ w.damaged = worker[c].damaged
  BY <1>1 DEF IsCall
<1>3. worker' = [worker EXCEPT ![c] = w]
  BY DEF Gives, BundleInv, VerdictInv, CallsSound
<1> HIDE DEF w
<1> QED
  BY <1>2, <1>3, CallOverKeepsRight DEF Gives

LEMMA HandleKeepsRight == ASSUME BundleInv, NEW c \in Workers, handleRequest(c) PROVE BundleParts'
<1> DEFINE d == worker[c].document
<1>1. IsCall(worker[c]) /\ CallRight(worker[c]) /\ up /\ worker[c].step = "sent"
  BY DEF BundleInv, BundleParts, CallsRight, VerdictInv, CallsSound, CallSound, handleRequest
<1>2. ASSUME NEW e, IsError(e), worker' = [worker EXCEPT ![c].answer = <<e>>],
             UNCHANGED <<tokenRight, up, task, scratch, responses>>
      PROVE  BundleParts'
  <2> DEFINE w == [worker[c] EXCEPT !.answer = <<e>>]
  <2>1. /\ w.step = "sent" /\ w.answer = <<e>> /\ w.document = worker[c].document
        /\ w.damaged = worker[c].damaged /\ w.conn = worker[c].conn
    BY <1>1 DEF IsCall
  <2>2. worker' = [worker EXCEPT ![c] = w]
    BY <1>2
  <2> HIDE DEF w
  <2>3. CallRight(w)
    BY <1>1, <1>2, <2>1 DEF CallRight, ArchiveRight, IsError, IsArchive
  <2>4. CallsRight' /\ ResponsesRight'
    BY <1>2, <2>1, <2>2, <2>3, CallGoesOn
  <2> QED
    BY <1>2, <2>4, TaskAndScratchStay DEF BundleParts
<1>3. validateRequest(d) = <<>> \/ \E e : IsError(e) /\ validateRequest(d) = <<e>>
  BY ErrorsAreErrors DEF validateRequest
<1>4. CASE /\ worker' = [worker EXCEPT ![c].answer =
                 IF validateRequest(d) # <<>> THEN validateRequest(d) ELSE <<Trouble("PROCESSOR_BUSY")>>]
           /\ UNCHANGED <<tokenRight, up, task, scratch, responses>>
  BY <1>2, <1>3, <1>4, ErrorsAreErrors
<1>5. CASE /\ validateRequest(d) = <<>> /\ task = NoTask
           /\ task' = [step |-> "input", client |-> c, conn |-> worker[c].conn, document |-> d,
                       count |-> 0, pages |-> <<>>]
           /\ scratch' = scratch \cup {Directory("job", c, worker[c].conn)}
           /\ UNCHANGED <<tokenRight, up, worker, responses>>
  <2>1. tokenRight /\ ~d.large
    BY <1>5 DEF validateRequest
  <2>2. task'.step = "input" /\ task'.document = d /\ task'.pages = <<>> /\ task' # NoTask
    BY <1>5 DEF NoTask
  <2>3. TaskRight'
    BY <1>1, <1>5, <2>1, <2>2 DEF TaskRight, Steps, Inspected, CallRight
  <2>4. scratch = {}
    BY <1>1, <1>5 DEF BundleInv, BundleParts, ScratchRight
  <2>5. ScratchRight'
    BY <1>5, <2>2, <2>4 DEF ScratchRight, Directory
  <2> QED
    BY <1>5, <2>3, <2>5, CallsStay, ResponsesStay DEF BundleParts
<1> QED
  BY <1>4, <1>5 DEF handleRequest, Busy

LEMMA ReadKeepsRight == ASSUME BundleInv, NEW c \in Workers, readResponse(c) PROVE BundleParts'
<1> DEFINE a == worker[c].answer[1]
<1>1. CASE \E o : Gives(c, o)
  BY <1>1, GivesKeepsRight
<1>2. CASE /\ "tar" \in DOMAIN a /\ extractResponse(a) /\ worker' = [worker EXCEPT ![c].step = "bundle"]
           /\ UNCHANGED <<tokenRight, up, task, scratch, responses>>
  <2> DEFINE w == [worker[c] EXCEPT !.step = "bundle"]
  <2>1. IsCall(worker[c]) /\ CallRight(worker[c]) /\ CallSound(worker[c]) /\ worker[c].answer # <<>>
    BY DEF BundleInv, BundleParts, CallsRight, VerdictInv, CallsSound, CallSound, readResponse
  <2>2. IsArchive(a)
    BY <1>2, <2>1 DEF CallSound, AnswerSound, ErrorSound, IsError
  <2>3. /\ w.step = "bundle" /\ w.answer = worker[c].answer /\ w.document = worker[c].document
        /\ w.damaged = worker[c].damaged /\ w.conn = worker[c].conn
    BY <2>1 DEF IsCall
  <2>4. worker' = [worker EXCEPT ![c] = w]
    BY <1>2
  <2> HIDE DEF w
  <2>5. CallRight(w)
    BY <1>2, <2>1, <2>2, <2>3 DEF CallRight, ArchiveRight
  <2>6. CallsRight' /\ ResponsesRight'
    BY <1>2, <2>3, <2>4, <2>5, CallGoesOn
  <2> QED
    BY <1>2, <2>6, TaskAndScratchStay DEF BundleParts
<1> QED
  BY <1>1, <1>2 DEF readResponse

LEMMA ConnectionKeepsRight == ASSUME BundleInv, NEW c \in Workers, connectionFails(c) PROVE BundleParts'
<1> DEFINE a == worker[c].answer
           Now == IF "tar" \in DOMAIN a[1] THEN Damaged(a[1]) ELSE {[a[1] EXCEPT !.readable = FALSE]}
<1>1. CASE \E o : Gives(c, o)
  BY <1>1, GivesKeepsRight
<1>2. ASSUME NEW x \in Now, a # <<>>, ~worker[c].damaged,
             worker' = [worker EXCEPT ![c].answer = <<x>>, ![c].damaged = TRUE],
             UNCHANGED <<tokenRight, up, task, scratch, responses>>
      PROVE  BundleParts'
  <2> DEFINE w == [worker[c] EXCEPT !.answer = <<x>>, !.damaged = TRUE]
  <2>1. IsCall(worker[c]) /\ CallRight(worker[c]) /\ CallSound(worker[c]) /\ worker[c].step = "sent"
    BY DEF BundleInv, BundleParts, CallsRight, VerdictInv, CallsSound, CallSound, connectionFails
  <2>2. /\ w.step = "sent" /\ w.answer = <<x>> /\ w.document = worker[c].document
        /\ w.damaged = TRUE /\ w.conn = worker[c].conn
    BY <2>1 DEF IsCall
  <2>3. worker' = [worker EXCEPT ![c] = w]
    BY <1>2 DEF BundleInv, VerdictInv, CallsSound
  <2>4. IsArchive(x) => /\ Passes(worker[c].document)
                        /\ x \in Damaged(Archive(worker[c].document, InOrder(worker[c].document)))
    <3>1. CASE ErrorSound(worker[c].document, a[1])
      <4>1. x = [a[1] EXCEPT !.readable = FALSE]
        BY <1>2, <3>1 DEF ErrorSound, IsError
      <4> QED
        BY <3>1, <4>1 DEF ErrorSound, IsError, IsArchive
    <3>2. CASE IsArchive(a[1])
      <4>1. x \in Damaged(a[1]) /\ Passes(worker[c].document)
            /\ a[1] = Archive(worker[c].document, InOrder(worker[c].document))
        BY <1>2, <2>1, <3>2 DEF IsArchive, CallRight, ArchiveRight
      <4> QED
        BY <4>1
    <3> QED
      BY <1>2, <2>1, <3>1, <3>2 DEF CallSound, AnswerSound
  <2> HIDE DEF w, Now
  <2>7. CallRight(w)
    <3>1. w.document \in Documents /\ w.damaged \in BOOLEAN /\ w.step # "bundle"
      BY <2>1, <2>2 DEF CallRight
    <3>2. w.answer[1] = x
      BY <2>2
    <3>3. ArchiveRight(w)
      BY <2>2, <2>4, <3>2 DEF ArchiveRight
    <3> QED
      BY <3>1, <3>3 DEF CallRight
  <2>8. CallsRight' /\ ResponsesRight'
    BY <1>2, <2>2, <2>3, <2>7, CallGoesOn
  <2> QED
    BY <1>2, <2>8, TaskAndScratchStay DEF BundleParts
<1> QED
  BY <1>1, <1>2 DEF connectionFails

LEMMA CallEndsKeepsRight ==
  ASSUME BundleInv, NEW c \in Workers, cleanup(c) \/ workerCrashes(c)
  PROVE  BundleParts'
<1> DEFINE s == IF cleanup(c) THEN "stored" ELSE "idle"
           w == [worker[c] EXCEPT !.step = s, !.answer = <<>>]
<1>1. IsCall(worker[c])
  BY DEF BundleInv, VerdictInv, CallsSound, CallSound
<1>2. w.step = s /\ w.answer = <<>> /\ w.document = worker[c].document /\ w.damaged = worker[c].damaged
  <2> HIDE DEF s
  <2> QED
    BY <1>1 DEF IsCall
<1>3. worker' = [worker EXCEPT ![c].step = s, ![c].answer = <<>>]
  BY DEF cleanup, workerCrashes
<1>4. s \notin {"sent", "bundle"}
  OBVIOUS
<1> HIDE DEF s
<1>5. worker' = [worker EXCEPT ![c] = w]
  BY <1>3 DEF BundleInv, VerdictInv, CallsSound
<1> HIDE DEF w
<1> QED
  BY <1>2, <1>4, <1>5, CallOverKeepsRight DEF cleanup, workerCrashes

LEMMA ProcessKeepsRight == ASSUME BundleInv, NEW c \in Workers, process(c) PROVE BundleParts'
<1> DEFINE w == [step |-> "sent", document |-> worker[c].document, conn |-> worker[c].conn + 1,
                 answer |-> <<>>, damaged |-> FALSE, outcome |-> <<>>]
           n == [client |-> c, conn |-> worker[c].conn + 1, orphan |-> FALSE, old |-> FALSE]
<1>1. CallRight(w)
  BY DEF BundleInv, BundleParts, CallsRight, CallRight, ArchiveRight
<1>2. worker' = [worker EXCEPT ![c] = w] /\ responses' = responses \cup {n}
  BY DEF process
<1>3. CallsRight' /\ worker'[c] = w /\ \A i \in Workers \ {c} : worker'[i] = worker[i]
  <2> HIDE DEF w
  <2> QED
    BY <1>1, <1>2, CallChanges DEF process
<1>4. worker[c].step \in {"idle", "failed"}
  BY DEF process
<1>5. IsResponse(n) /\ n.client = c /\ n.conn = worker'[c].conn /\ worker'[c].step = "sent"
  BY <1>3 DEF IsResponse
<1> HIDE DEF n, w
<1>6. ASSUME NEW r \in responses
      PROVE  /\ IsResponse(r)
             /\ ~r.orphan => r.conn = worker'[r.client].conn /\ worker'[r.client].step \in {"sent", "bundle"}
  BY <1>3, <1>4 DEF BundleInv, BundleParts, ResponsesRight, IsResponse
<1>7. ResponsesRight'
  BY <1>2, <1>5, <1>6 DEF ResponsesRight, IsResponse
<1> QED
  BY <1>3, <1>7, TaskAndScratchStay DEF process, BundleParts

LEMMA JanitorKeepsRight ==
  ASSUME BundleInv, cleanupOrphanedProcessorScratch \/ \E r \in responses : growsOld(r)
  PROVE  BundleParts'
<1>1. UNCHANGED <<tokenRight, up, task, scratch, worker>>
  BY DEF cleanupOrphanedProcessorScratch, growsOld
<1>2. ASSUME NEW q \in responses'
      PROVE  /\ IsResponse(q)
             /\ \E r \in responses : q.client = r.client /\ q.conn = r.conn /\ q.orphan = r.orphan
  BY <1>2 DEF cleanupOrphanedProcessorScratch, growsOld, BundleInv, BundleParts, ResponsesRight, IsResponse
<1>3. ResponsesRight'
  BY <1>1, <1>2 DEF BundleInv, BundleParts, ResponsesRight, IsResponse
<1> QED
  BY <1>1, <1>3, CallsStay, TaskAndScratchStay DEF BundleParts

LEMMA StepBundleInv == BundleInv /\ [PipelineNext]_pipelineVars => BundleInv'
<1> SUFFICES ASSUME BundleInv, [PipelineNext]_pipelineVars PROVE BundleInv'
  OBVIOUS
<1>1. VerdictInv'
  BY StepVerdictInv DEF BundleInv
<1>2. CASE UNCHANGED pipelineVars
  BY <1>1, <1>2, CallsStay, ResponsesStay, TaskAndScratchStay DEF pipelineVars, BundleInv, BundleParts
<1>3. CASE \E c \in Workers : clientDeadline(c)
  BY <1>3, GivesKeepsRight, <1>1 DEF clientDeadline, BundleInv
<1> QED
  BY <1>1, <1>2, <1>3, CheckKeepsRight, InspectKeepsRight, RenderKeepsRight, AnswerKeepsRight, TroubleKeepsRight,
     CrashKeepsRight, HandleKeepsRight, ReadKeepsRight, ConnectionKeepsRight, CallEndsKeepsRight,
     ProcessKeepsRight, JanitorKeepsRight DEF PipelineNext, BundleInv

\* The bundle a worker stores is its own document, whole, clean and in order, no parser
\* sees what the scanner has not passed, and no side keeps scratch for a request that
\* is over (document-processor.ts process, processor-client.ts extractResponse, app.ts
\* handleRequest), for any number of workers, documents, pages and mishaps.
THEOREM BundlesAreTheirDocuments == PipelineSpec => []BundleIsTheDocument
BY InitBundleInv, StepBundleInv, BundleIsWhole, PTL DEF PipelineSpec

-----------------------------------------------------------------------------
(* The printer drivers: any number of documents and sheets, any submission. *)

Answers ==
  [state : OperationStates \cup {"REFUSED", "NONE", "FORGOTTEN"},
   confidence : {"CONFIRMED", "UNCONFIRMED"}, sheets : Int]
Jobs == [state : Listed \cup {"none", "purged"}, sheets : 0 .. JobSheets]
AdapterTypes ==
  /\ driver \in Drivers /\ counting \in BOOLEAN /\ scenario \in Scenarios
  /\ calling \in {"idle", "ready", "sending", "polling"} /\ handed \in 0 .. JobDocuments
  /\ journal \in {"none", "whole", "torn"} /\ notes \in {"none", "known", "lost"}
  /\ marker \in {"none", "submitted", "completed"} /\ tooLate \in BOOLEAN
  /\ deviceJobs \in [Positions -> Jobs] /\ answer \in Answers

\* Nothing was ever handed to the device.
Untouched == \A p \in Positions : deviceJobs[p] = NoJob

\* What a job's state says of its sheets.
JobsInv ==
  \A p \in Positions : /\ deviceJobs[p].state = "none" => deviceJobs[p] = NoJob
                       /\ deviceJobs[p].state = "completed" => deviceJobs[p].sheets = JobSheets

\* A call in progress knows how far it has come, and no answer is standing.
CallInv ==
  /\ calling # "idle" => answer = Forgotten /\ ~tooLate
  /\ calling = "idle" => handed = 0
  /\ calling = "ready" => handed = 0 /\ Untouched
  /\ calling = "sending" =>
       /\ \A p \in Positions : p >= handed => deviceJobs[p] = NoJob
       /\ driver # "MOCK" => journal # "none"
       /\ driver = "IPP" => handed < JobDocuments
       /\ driver = "MOCK" =>
            /\ marker = "submitted"
            /\ \A p \in Positions :
                 p < handed => deviceJobs[p] = [state |-> "completed", sheets |-> JobSheets]
  /\ calling = "polling" => driver = "IPP" /\ journal # "none"

\* Where no record says otherwise, nothing was handed over.
NoRecordInv ==
  ~tooLate =>
    /\ driver # "MOCK" /\ journal = "none" => Untouched
    /\ driver = "WINDOWS" /\ notes = "none" => Untouched
    /\ driver = "MOCK" /\ marker = "none" => Untouched
    /\ answer \in {NoAnswer, notSubmitted} => Untouched

\* A certain answer is right, and stays so: no job is left that could print.
Out(jobs) == Sum([p \in Positions |-> jobs[p].sheets])
Earned(onWindows, jobs, a) ==
  a.confidence = "CONFIRMED" =>
    /\ \A p \in Positions : jobs[p].state # "open"
    /\ IF a.state = "COMPLETED"
       THEN /\ a.sheets = Out(jobs) /\ Out(jobs) > 0
            /\ ~onWindows => Out(jobs) = JobDocuments * JobSheets
       ELSE Out(jobs) = 0
AnswerInv ==
  ~(driver = "WINDOWS" /\ notes = "lost" /\ answer.state = "CANCELED") =>
    Earned(driver = "WINDOWS", deviceJobs, answer)

AdaptersInv == AdapterTypes /\ JobsInv /\ CallInv /\ NoRecordInv /\ AnswerInv

LEMMA AdapterNumbers ==
  /\ JobDocuments \in Nat /\ JobDocuments > 0 /\ JobSheets \in Nat /\ JobSheets > 0
  /\ Positions \subseteq Nat /\ IsFiniteSet(Positions) /\ Cardinality(Positions) = JobDocuments
  /\ Drivers \subseteq {"IPP", "WINDOWS", "MOCK"}
<1>1. JobDocuments \in Nat /\ JobDocuments > 0 BY PrinterAdaptersAssumption
<1>2. IsFiniteSet(Positions) /\ Cardinality(Positions) = JobDocuments
  BY <1>1, FS_Interval, 0 \in Int, JobDocuments - 1 \in Int DEF Positions
<1> QED BY <1>1, <1>2, PrinterAdaptersAssumption DEF Positions

\* The sheets that came out, document by document.
LEMMA OutIsSum ==
  ASSUME NEW jobs, \A p \in Positions : jobs[p].sheets \in Nat
  PROVE  /\ Out(jobs) \in Nat
         /\ (\A p \in Positions : jobs[p].sheets = 0) => Out(jobs) = 0
         /\ (\A p \in Positions : jobs[p].sheets = JobSheets) =>
              Out(jobs) = JobDocuments * JobSheets /\ Out(jobs) > 0
<1> DEFINE f == [p \in Positions |-> jobs[p].sheets]
<1>1. DOMAIN f = Positions /\ \A p \in Positions : f[p] = jobs[p].sheets OBVIOUS
<1>2. Out(jobs) = SumOver(f, Positions) BY <1>1 DEF Out, Sum
<1> HIDE DEF f
<1>3. \A p \in Positions : f[p] \in Nat BY <1>1
<1>4. SumOver(f, Positions) \in Nat BY <1>3, AdapterNumbers, SumOfNaturals
<1>5. ASSUME \A p \in Positions : jobs[p].sheets = 0 PROVE SumOver(f, Positions) = 0
  BY <1>1, <1>3, <1>5, AdapterNumbers, SumOfNaturals
<1>6. ASSUME \A p \in Positions : jobs[p].sheets = JobSheets
      PROVE SumOver(f, Positions) = JobDocuments * JobSheets
  <2>1. \A p \in Positions : f[p] = JobSheets BY <1>1, <1>6
  <2>2. IsFiniteSet(Positions) /\ Cardinality(Positions) = JobDocuments /\ JobSheets \in Int
    BY AdapterNumbers
  <2> QED BY <2>1, <2>2, SumOfSame
<1>7. JobDocuments * JobSheets > 0 BY AdapterNumbers
<1> QED BY <1>2, <1>4, <1>5, <1>6, <1>7

LEMMA OutDependsOnSheets ==
  ASSUME NEW jobs, NEW others, \A p \in Positions : jobs[p].sheets = others[p].sheets
  PROVE  Out(jobs) = Out(others)
BY DEF Out

LEMMA UntouchedIsBlank ==
  ASSUME Untouched
  PROVE  /\ Out(deviceJobs) = 0 /\ \A p \in Positions : deviceJobs[p].state # "open"
         /\ InQueue = {} /\ OpenJobs = {}
<1>1. \A p \in Positions : deviceJobs[p].sheets = 0 /\ deviceJobs[p].state = "none"
  BY DEF Untouched, NoJob
<1>2. Out(deviceJobs) = 0 BY <1>1, OutIsSum
<1> QED BY <1>1, <1>2 DEF InQueue, OpenJobs, Listed, JobTerminal

-----------------------------------------------------------------------------
(* What a listing adds up to *)

Reported(jobs, counts, p) ==
  [position |-> p, state |-> jobs[p].state, documentCount |-> JobDocuments,
   sheets |-> IF counts THEN jobs[p].sheets ELSE Unreported]
Queue(jobs) == {p \in Positions : jobs[p].state \in Listed}
Listings(jobs, counts) == {Reported(jobs, counts, p) : p \in Queue(jobs)}

\* A job reported twice is taken in the state it ended in: a listing comes to what the
\* queue remembers.
LEMMA ListingIsQueue ==
  ASSUME NEW again \in SUBSET InQueue
  PROVE  listOperationJobs(Listing(again)) = Listings(deviceJobs, counting)
<1> DEFINE L == Listing(again)
           one(p) == readDeviceJob(p)
           two(p) == [readDeviceJob(p) EXCEPT !.state = "open"]
<1>1. InQueue = Queue(deviceJobs) /\ \A p : one(p) = Reported(deviceJobs, counting, p)
  BY DEF InQueue, Queue, readDeviceJob, Reported
<1>2. \A p : /\ one(p).position = p /\ one(p).state = deviceJobs[p].state
             /\ two(p).position = p /\ two(p).state = "open"
  BY DEF readDeviceJob
<1>3. \A p \in InQueue : deviceJobs[p].state \in Listed BY DEF InQueue
<1>4. \A p \in InQueue : deviceJobs[p].state = "open" => two(p) = one(p)
  BY DEF readDeviceJob
<1>5. \A r : r \in L <=> (\E p \in InQueue : r = one(p)) \/ (\E p \in again : r = two(p))
  BY DEF Listing
<1>6. ASSUME NEW p \in InQueue PROVE one(p) \in listOperationJobs(L)
  <2>1. one(p) \in L BY <1>5
  <2>2. ASSUME NEW o \in L, o.position = one(p).position
        PROVE rankJobState(o.state) <= rankJobState(one(p).state)
    <3>1. CASE \E q \in InQueue : o = one(q)
      BY <3>1, <2>2, <1>2 DEF rankJobState
    <3>2. CASE \E q \in again : o = two(q)
      <4>1. o.state = "open" BY <3>2, <1>2
      <4> QED BY <4>1 DEF rankJobState, JobTerminal
    <3> QED BY <3>1, <3>2, <1>5
  <2> QED BY <2>1, <2>2 DEF listOperationJobs
<1>7. ASSUME NEW r \in listOperationJobs(L) PROVE \E p \in InQueue : r = one(p)
  <2>1. r \in L /\ \A o \in L : o.position = r.position => rankJobState(o.state) <= rankJobState(r.state)
    BY DEF listOperationJobs
  <2>2. CASE \E p \in again : r = two(p)
    <3>1. PICK p \in again : r = two(p) BY <2>2
    <3>2. p \in InQueue /\ one(p) \in L BY <3>1, <1>5
    <3>3. r.position = p /\ r.state = "open" BY <3>1, <1>2
    <3>4. one(p).position = p /\ one(p).state = deviceJobs[p].state BY <1>2
    <3>5. rankJobState(deviceJobs[p].state) <= rankJobState("open") BY <2>1, <3>2, <3>3, <3>4
    <3>6. deviceJobs[p].state = "open" BY <3>5, <3>2, <1>3 DEF rankJobState, Listed, JobTerminal
    <3> QED BY <3>1, <3>2, <3>6, <1>4
  <2> QED BY <2>1, <2>2, <1>5
<1> HIDE DEF L, one, two
<1>8. listOperationJobs(L) = {one(p) : p \in InQueue} BY <1>6, <1>7
<1>9. {one(p) : p \in InQueue} = Listings(deviceJobs, counting) BY <1>1 DEF Listings
<1> QED BY <1>8, <1>9 DEF L

\* Listings are as many as the jobs they are of, and add up to their sheets.
LEMMA ReportsAddUp ==
  ASSUME NEW jobs \in [Positions -> Jobs], NEW counts \in BOOLEAN
  PROVE  LET r == Listings(jobs, counts) IN
         /\ IsFiniteSet(r) /\ Cardinality(r) = Cardinality(Queue(jobs))
         /\ Cardinality(r) \in Nat
         /\ Cardinality(r) >= JobDocuments => Queue(jobs) = Positions
         /\ counts /\ Queue(jobs) = Positions => Sum([j \in r |-> j.sheets]) = Out(jobs)
<1> DEFINE Q == Queue(jobs)
           F == [p \in Q |-> Reported(jobs, counts, p)]
           r == Listings(jobs, counts)
<1>1. Q \subseteq Positions /\ IsFiniteSet(Q) /\ Cardinality(Q) \in Nat
  <2>1. Q \subseteq Positions BY DEF Queue
  <2> QED BY <2>1, AdapterNumbers, FS_Subset, FS_CardinalityType
<1>2. \A p \in Q : F[p].position = p BY DEF Reported
<1>3. r = {F[p] : p \in Q} BY DEF Listings
<1>4. F \in Bijection(Q, r)
  <2>1. F \in [Q -> r] BY DEF Listings
  <2>2. \A p, q \in Q : F[p] = F[q] => p = q BY <1>2
  <2>3. \A z \in r : \E p \in Q : F[p] = z BY DEF Listings
  <2> HIDE DEF F, r, Q
  <2> QED BY <2>1, <2>2, <2>3 DEF Bijection, Injection, Surjection, IsInjective
<1>5. IsFiniteSet(r) /\ Cardinality(r) = Cardinality(Q)
  <2>1. ExistsBijection(Q, r) BY <1>4 DEF ExistsBijection
  <2> HIDE DEF Q, r, F
  <2> QED BY <2>1, <1>1, FS_Bijection
<1>6. ASSUME Cardinality(r) >= JobDocuments PROVE Q = Positions
  <2>1. Cardinality(Q) <= JobDocuments BY <1>1, AdapterNumbers, FS_Subset
  <2>2. Cardinality(Q) = JobDocuments BY <2>1, <1>1, <1>5, <1>6, AdapterNumbers
  <2> HIDE DEF Q
  <2> QED BY <2>2, <1>1, AdapterNumbers, FS_Subset
<1>7. ASSUME counts, Q = Positions PROVE Sum([j \in r |-> j.sheets]) = Out(jobs)
  <2> DEFINE f == [j \in r |-> j.sheets]
             h == [p \in Positions |-> jobs[p].sheets]
  <2>1. \A p \in Positions : F[p] \in r /\ f[F[p]] = jobs[p].sheets
    <3> TAKE p \in Positions
    <3>1. F[p] = Reported(jobs, counts, p) /\ F[p] \in r BY <1>7 DEF Listings
    <3>2. F[p].sheets = jobs[p].sheets BY <3>1, <1>7 DEF Reported
    <3> HIDE DEF F, r
    <3> QED BY <3>1, <3>2
  <2>2. \A p \in Positions : h[p] = f[F[p]] /\ h[p] \in Int BY <2>1 DEF Jobs
  <2>3. \A p, q \in Positions : F[p] = F[q] => p = q BY <1>2, <1>7
  <2>4. DOMAIN f = r /\ DOMAIN h = Positions OBVIOUS
  <2>5. r = {F[p] : p \in Positions} BY <1>3, <1>7
  <2> HIDE DEF f, h, F, r, Q
  <2>6. SumOver(f, {F[p] : p \in Positions}) = SumOver(h, Positions)
    BY <2>2, <2>3, AdapterNumbers, SumOfImage
  <2>7. Sum(f) = Sum(h) BY <2>4, <2>5, <2>6 DEF Sum
  <2> QED BY <2>7 DEF f, h, Out
<1> QED BY <1>1, <1>5, <1>6, <1>7

\* The report's cases, one after the other.
LEMMA AggregateCases ==
  ASSUME NEW r, Cardinality(r) \in Nat, NEW n \in Nat, NEW total,
         total = IF \A j \in r : j.sheets # Unreported THEN Sum([j \in r |-> j.sheets]) ELSE Unreported,
         NEW nothing, nothing = IF total = 0 THEN "CONFIRMED" ELSE "UNCONFIRMED"
  PROVE  aggregateJobs(n, r) =
           IF Cardinality(r) < n THEN unknownStatus
           ELSE IF \E j \in r : j.state = "open" THEN operationStatus("PRINTING", "UNCONFIRMED", Unreported)
           ELSE IF \E j \in r : j.state = "aborted" THEN operationStatus("FAILED", nothing, total)
           ELSE IF \E j \in r : j.state = "canceled" THEN operationStatus("CANCELED", nothing, total)
           ELSE operationStatus("COMPLETED", IF total > 0 THEN "CONFIRMED" ELSE "UNCONFIRMED", total)
<1>1. Cardinality(r) < n <=> ~(Cardinality(r) >= n) OBVIOUS
<1> QED BY <1>1 DEF aggregateJobs

\* What is concluded of all jobs is typed and earned.
Concluded(jobs, a) ==
  /\ a \in Answers /\ a.state \notin {"NONE", "NOT_SUBMITTED", "REFUSED", "FORGOTTEN"}
  /\ Earned(FALSE, jobs, a)

LEMMA PlainIsConcluded ==
  ASSUME NEW jobs, NEW s \in OperationStates \ {"NOT_SUBMITTED"}
  PROVE  Concluded(jobs, operationStatus(s, "UNCONFIRMED", Unreported))
BY DEF operationStatus, Answers, OperationStates, Unreported, Earned, Concluded

\* What aggregateJobs concludes with certainty from all that is reported, it has earned.
LEMMA AggregateIsEarned ==
  ASSUME NEW jobs \in [Positions -> Jobs], NEW counts \in BOOLEAN,
         \A p \in Positions : jobs[p].state = "completed" => jobs[p].sheets = JobSheets
  PROVE  Concluded(jobs, aggregateJobs(JobDocuments, Listings(jobs, counts)))
<1> DEFINE r == Listings(jobs, counts)
           a == aggregateJobs(JobDocuments, r)
           total == IF \A j \in r : j.sheets # Unreported
                    THEN Sum([j \in r |-> j.sheets]) ELSE Unreported
           nothing == IF total = 0 THEN "CONFIRMED" ELSE "UNCONFIRMED"
           Has(s) == \E j \in r : j.state = s
<1>1. /\ Cardinality(r) \in Nat
      /\ Cardinality(r) >= JobDocuments => Queue(jobs) = Positions
      /\ counts /\ Queue(jobs) = Positions => Sum([j \in r |-> j.sheets]) = Out(jobs)
  BY ReportsAddUp
<1>2. \A p \in Positions : jobs[p].sheets \in Nat BY AdapterNumbers DEF Jobs
<1>3. Out(jobs) \in Nat BY <1>2, OutIsSum
<1>4. JobDocuments \in Nat /\ JobDocuments > 0 BY AdapterNumbers
<1>5. a = IF Cardinality(r) < JobDocuments THEN unknownStatus
          ELSE IF Has("open") THEN operationStatus("PRINTING", "UNCONFIRMED", Unreported)
          ELSE IF Has("aborted") THEN operationStatus("FAILED", nothing, total)
          ELSE IF Has("canceled") THEN operationStatus("CANCELED", nothing, total)
          ELSE operationStatus("COMPLETED", IF total > 0 THEN "CONFIRMED" ELSE "UNCONFIRMED", total)
  <2>1. total = IF \A j \in r : j.sheets # Unreported THEN Sum([j \in r |-> j.sheets]) ELSE Unreported
    OBVIOUS
  <2>2. nothing = IF total = 0 THEN "CONFIRMED" ELSE "UNCONFIRMED" OBVIOUS
  <2> HIDE DEF r, total, nothing
  <2> QED BY <2>1, <2>2, <1>1, <1>4, AggregateCases
<1>6. CASE Cardinality(r) < JobDocuments
  <2> HIDE DEF r, a
  <2>1. a = unknownStatus BY <1>5, <1>6
  <2>2. Concluded(jobs, a) BY <2>1, PlainIsConcluded DEF unknownStatus, OperationStates
  <2> QED BY <2>2 DEF a, r
<1>7. CASE Cardinality(r) >= JobDocuments
  <2>1. Queue(jobs) = Positions BY <1>1, <1>7
  <2>2. ASSUME NEW s PROVE Has(s) <=> \E p \in Positions : jobs[p].state = s
    <3>1. \A p : Reported(jobs, counts, p).state = jobs[p].state BY DEF Reported
    <3>2. \A j : j \in r <=> \E p \in Positions : j = Reported(jobs, counts, p)
      BY <2>1 DEF Listings
    <3> HIDE DEF r
    <3> QED BY <3>1, <3>2
  <2>3. total \in Int /\ (total >= 0 => total = Out(jobs))
    <3>1. CASE counts
      <4>1. \A j \in r : j.sheets # Unreported
        BY <3>1, <1>2, <2>1 DEF Listings, Reported, Unreported
      <4>2. total = Out(jobs) BY <4>1, <3>1, <1>1, <2>1
      <4> QED BY <4>2, <1>3
    <3>2. CASE ~counts
      <4>1. 0 \in Positions BY <1>4 DEF Positions
      <4>2. Reported(jobs, counts, 0) \in r BY <4>1, <2>1 DEF Listings
      <4>3. Reported(jobs, counts, 0).sheets = Unreported BY <3>2 DEF Reported
      <4>4. total = Unreported BY <4>2, <4>3
      <4> QED BY <4>4 DEF Unreported
    <3> QED BY <3>1, <3>2
  <2>4. ~(Cardinality(r) < JobDocuments) BY <1>7, <1>1, <1>4
  <2> HIDE DEF a, r, total, Has
  <2>5. CASE Has("open")
    <3>1. a = operationStatus("PRINTING", "UNCONFIRMED", Unreported) BY <2>4, <2>5, <1>5
    <3>2. Concluded(jobs, a) BY <3>1, PlainIsConcluded DEF OperationStates
    <3> QED BY <3>2 DEF a, r
  <2>6. CASE ~Has("open") /\ (Has("aborted") \/ Has("canceled"))
    <3>1. \A p \in Positions : jobs[p].state # "open" BY <2>6, <2>2
    <3>2. PICK s \in {"FAILED", "CANCELED"} : a = operationStatus(s, nothing, total)
      BY <2>4, <2>6, <1>5
    <3>3. a.state = s /\ a.confidence = nothing /\ a.sheets = total /\ a \in Answers
      BY <3>2, <2>3 DEF operationStatus, Answers, OperationStates
    <3>4. nothing = "CONFIRMED" => Out(jobs) = 0 BY <2>3
    <3> HIDE DEF nothing
    <3>5. Concluded(jobs, a) BY <3>1, <3>3, <3>4 DEF Earned, Concluded
    <3> QED BY <3>5 DEF a, r
  <2>7. CASE ~Has("open") /\ ~Has("aborted") /\ ~Has("canceled")
    <3>1. \A p \in Positions : jobs[p].state \in Listed BY <2>1 DEF Queue
    <3>2. \A p \in Positions : jobs[p].state = "completed"
      BY <3>1, <2>7, <2>2 DEF Listed, JobTerminal
    <3>3. Out(jobs) = JobDocuments * JobSheets /\ Out(jobs) > 0 BY <3>2, <1>2, OutIsSum
    <3>4. a = operationStatus("COMPLETED", IF total > 0 THEN "CONFIRMED" ELSE "UNCONFIRMED", total)
      BY <2>4, <2>7, <1>5
    <3>5. a.state = "COMPLETED" /\ a.sheets = total /\ a \in Answers
          /\ (a.confidence = "CONFIRMED" => total > 0)
      BY <3>4, <2>3 DEF operationStatus, Answers, OperationStates
    <3>6. total > 0 => total = Out(jobs) BY <2>3
    <3>7. Concluded(jobs, a) BY <3>2, <3>3, <3>5, <3>6 DEF Earned, Concluded
    <3> QED BY <3>7 DEF a, r
  <2> QED BY <2>5, <2>6, <2>7
<1>8. Cardinality(r) < JobDocuments \/ Cardinality(r) >= JobDocuments BY <1>1, <1>4
<1> QED BY <1>6, <1>7, <1>8

\* How many documents there are is known as soon as one job is reported.
LEMMA ExpectedIsAll ==
  ASSUME NEW jobs, NEW counts, Listings(jobs, counts) # {}
  PROVE  expectedDocuments(Listings(jobs, counts)) = JobDocuments
<1> DEFINE r == Listings(jobs, counts)
           S == {recordedCount} \cup {j.documentCount : j \in r}
<1>1. \A j \in r : j.documentCount = JobDocuments BY DEF Listings, Reported
<1> HIDE DEF r
<1>2. {j.documentCount : j \in r} = {JobDocuments} BY <1>1 DEF r
<1>3. S = {recordedCount, JobDocuments} BY <1>2
<1>4. recordedCount \in {0, JobDocuments} BY DEF recordedCount
<1>5. JobDocuments \in Nat BY AdapterNumbers
<1>6. JobDocuments \in S /\ \A y \in S : JobDocuments >= y BY <1>3, <1>4, <1>5
<1>7. \A x \in S : (\A y \in S : x >= y) => x = JobDocuments BY <1>3, <1>4, <1>5
<1> HIDE DEF S
<1>8. Max(S) = JobDocuments BY <1>6, <1>7 DEF Max
<1> QED BY <1>8 DEF expectedDocuments, S, r

\* What a host says is passed on with certainty only where it is borne out.
LEMMA HonestIsEarned ==
  ASSUME NEW jobs, NEW a \in Answers,
         a.sheets >= 0 => a.sheets = Out(jobs) /\ \A p \in Positions : jobs[p].state # "open"
  PROVE  /\ withHonestConfidence(a) \in Answers
         /\ withHonestConfidence(a).state = a.state
         /\ Earned(TRUE, jobs, withHonestConfidence(a))
<1>1. a.sheets \in Int BY DEF Answers
<1>2. CASE a.confidence = "CONFIRMED" /\ ~Confirmable(a)
  <2>1. withHonestConfidence(a) = [a EXCEPT !.confidence = "UNCONFIRMED"]
    BY <1>2 DEF withHonestConfidence
  <2> QED BY <2>1 DEF Answers, Earned
<1>3. CASE ~(a.confidence = "CONFIRMED" /\ ~Confirmable(a))
  <2>1. withHonestConfidence(a) = a BY <1>3 DEF withHonestConfidence
  <2>2. Earned(TRUE, jobs, a) BY <1>1, <1>3 DEF Earned, Confirmable
  <2> QED BY <2>1, <2>2
<1> QED BY <1>2, <1>3

\* An answer given keeps the invariant when it is earned.
LEMMA Answered ==
  ASSUME AdaptersInv, ~tooLate,
         UNCHANGED <<driver, counting, scenario, journal, notes, tooLate>>,
         calling' = "idle", handed' = 0,
         marker' \in {"none", "submitted", "completed"}, marker' = "none" => marker = "none",
         deviceJobs' \in [Positions -> Jobs], JobsInv',
         (Untouched => Untouched') \/ (driver = "IPP" /\ journal # "none"),
         answer' \in Answers, answer' \in {NoAnswer, notSubmitted} => Untouched',
         (driver = "WINDOWS" /\ notes = "lost" /\ answer'.state = "CANCELED")
            \/ Earned(driver = "WINDOWS", deviceJobs', answer')
  PROVE  AdaptersInv'
<1>1. AdapterTypes' BY AdapterNumbers DEF AdaptersInv, AdapterTypes
<1>2. CallInv' BY DEF CallInv
<1>3. NoRecordInv' BY DEF AdaptersInv, NoRecordInv
<1>4. AnswerInv' BY DEF AnswerInv
<1> QED BY <1>1, <1>2, <1>3, <1>4 DEF AdaptersInv

\* The answers that claim nothing.
LEMMA PlainAnswers ==
  ASSUME NEW jobs, NEW windows
  PROVE  /\ \A a \in {unknownStatus, Forgotten, Thrown(TRUE),
                      operationStatus("PRINTING", "UNCONFIRMED", Unreported),
                      operationStatus("COMPLETED", "UNCONFIRMED", Unreported),
                      operationStatus("CANCELED", "UNCONFIRMED", Unreported),
                      operationStatus("CANCELED", "UNCONFIRMED", 0)} :
              a \in Answers /\ Earned(windows, jobs, a) /\ a \notin {NoAnswer, notSubmitted}
         /\ NoAnswer \in Answers /\ Earned(windows, jobs, NoAnswer)
<1>1. \A s \in OperationStates \cup {"REFUSED", "NONE", "FORGOTTEN"}, n \in Int :
        /\ operationStatus(s, "UNCONFIRMED", n) \in Answers
        /\ Earned(windows, jobs, operationStatus(s, "UNCONFIRMED", n))
        /\ operationStatus(s, "UNCONFIRMED", n).state = s
  BY DEF operationStatus, Answers, Earned
<1>2. NoAnswer.state = "NONE" /\ notSubmitted.state = "NOT_SUBMITTED"
  BY DEF NoAnswer, notSubmitted, operationStatus
<1> QED BY <1>1, <1>2 DEF unknownStatus, Forgotten, Thrown, NoAnswer, OperationStates, Unreported

\* The answers that claim nothing was printed, where nothing was.
LEMMA BlankAnswers ==
  ASSUME NEW windows, Untouched
  PROVE  \A a \in {notSubmitted, canceledBeforeSubmit, Thrown(FALSE), operationStatus("FAILED", "CONFIRMED", 0)} :
           a \in Answers /\ Earned(windows, deviceJobs, a)
<1>1. Out(deviceJobs) = 0 /\ \A p \in Positions : deviceJobs[p].state # "open" BY UntouchedIsBlank
<1> QED BY <1>1 DEF notSubmitted, canceledBeforeSubmit, Thrown, operationStatus, Answers, OperationStates,
                   Unreported, Earned

LEMMA InitAdaptersInv == AdaptersInit => AdaptersInv
<1> SUFFICES ASSUME AdaptersInit PROVE AdaptersInv OBVIOUS
<1>1. deviceJobs \in [Positions -> Jobs] /\ Untouched /\ JobsInv
  BY AdapterNumbers DEF AdaptersInit, Untouched, JobsInv, Jobs, NoJob
<1>2. NoAnswer \in Answers /\ Earned(driver = "WINDOWS", deviceJobs, NoAnswer) BY PlainAnswers
<1>3. AdapterTypes
  <2>1. scenario \in Scenarios BY DEF AdaptersInit, Scenarios
  <2>2. handed \in 0 .. JobDocuments BY AdapterNumbers DEF AdaptersInit
  <2> QED BY <1>1, <1>2, <2>1, <2>2 DEF AdaptersInit, AdapterTypes
<1> QED BY <1>1, <1>2, <1>3, AdapterNumbers
        DEF AdaptersInit, AdaptersInv, CallInv, NoRecordInv, AnswerInv

LEMMA SubmitStep ==
  ASSUME AdaptersInv, NEW s, submit(s) PROVE AdaptersInv'
<1>1. /\ ~tooLate /\ calling = "idle" /\ handed = 0 /\ Untouched
  BY DEF submit, MaySubmit, AdaptersInv, CallInv, NoRecordInv
<1>2. UNCHANGED <<driver, counting, scenario, journal, notes, marker, deviceJobs, tooLate>> BY DEF submit
<1>3. Untouched' BY <1>1, <1>2 DEF Untouched
<1>4. CASE Return(Thrown(FALSE))
  <2>1. Thrown(FALSE) \in Answers /\ Earned(driver = "WINDOWS", deviceJobs, Thrown(FALSE)) BY <1>1, BlankAnswers
  <2> QED BY <1>1, <1>2, <1>3, <1>4, <2>1, Answered DEF Return, AdaptersInv, AdapterTypes, JobsInv
<1>5. CASE calling' = "ready" /\ answer' = Forgotten /\ handed' = 0
  <2>1. Forgotten \in Answers /\ Earned(driver = "WINDOWS", deviceJobs, Forgotten)
        /\ Forgotten \notin {NoAnswer, notSubmitted} BY PlainAnswers
  <2>2. AdapterTypes' BY <1>2, <1>5, <2>1, AdapterNumbers DEF AdaptersInv, AdapterTypes
  <2>3. CallInv' BY <1>1, <1>2, <1>3, <1>5 DEF CallInv
  <2>4. NoRecordInv' BY <1>2, <1>3, <1>5 DEF NoRecordInv
  <2>5. AnswerInv' BY <1>2, <1>5, <2>1 DEF AnswerInv
  <2>6. JobsInv' BY <1>2 DEF AdaptersInv, JobsInv
  <2> QED BY <2>2, <2>3, <2>4, <2>5, <2>6 DEF AdaptersInv
<1> QED BY <1>4, <1>5 DEF submit

LEMMA OpenOperationStep ==
  ASSUME AdaptersInv, openOperation PROVE AdaptersInv'
<1>1. /\ calling = "ready" /\ driver # "MOCK" /\ handed = 0 /\ Untouched /\ answer = Forgotten /\ ~tooLate
      /\ journal' = "whole" /\ calling' = "sending"
  BY DEF openOperation, AdaptersInv, CallInv
<1>2. UNCHANGED <<driver, counting, scenario, handed, notes, marker, deviceJobs, answer, tooLate>>
  BY DEF openOperation
<1>3. AdapterTypes' BY <1>1, <1>2 DEF AdaptersInv, AdapterTypes
<1>4. JobsInv' BY <1>2 DEF AdaptersInv, JobsInv
<1>5. CallInv' BY <1>1, <1>2, AdapterNumbers DEF CallInv, Untouched
<1>6. NoRecordInv'
  <2>1. Untouched' BY <1>1, <1>2 DEF Untouched
  <2> QED BY <2>1 DEF NoRecordInv
<1>7. AnswerInv' BY <1>2 DEF AdaptersInv, AnswerInv
<1> QED BY <1>3, <1>4, <1>5, <1>6, <1>7 DEF AdaptersInv

\* One more document is with the device.
LEMMA HandedKeeps ==
  ASSUME AdapterTypes, JobsInv, handed < JobDocuments
  PROVE  /\ Handed(handed) \in [Positions -> Jobs] /\ handed \in Positions
         /\ Handed(handed)[handed] = [state |-> "open", sheets |-> 0]
         /\ \A p \in Positions : p # handed => Handed(handed)[p] = deviceJobs[p]
<1>1. handed \in Positions BY AdapterNumbers DEF AdapterTypes, Positions
<1>2. [state |-> "open", sheets |-> 0] \in Jobs BY AdapterNumbers DEF Jobs, Listed
<1> QED BY <1>1, <1>2 DEF Handed, AdapterTypes

LEMMA PrintJobStep ==
  ASSUME AdaptersInv, printJob PROVE AdaptersInv'
<1>1. /\ calling = "sending" /\ driver = "IPP" /\ answer = Forgotten /\ ~tooLate
      /\ journal # "none" /\ handed < JobDocuments
      /\ \A p \in Positions : p >= handed => deviceJobs[p] = NoJob
  BY DEF printJob, AdaptersInv, CallInv
<1>2. UNCHANGED <<driver, counting, scenario, journal, notes, marker, tooLate>> BY DEF printJob
<1>3. /\ Handed(handed) \in [Positions -> Jobs] /\ handed \in Positions
      /\ Handed(handed)[handed] = [state |-> "open", sheets |-> 0]
      /\ \A p \in Positions : p # handed => Handed(handed)[p] = deviceJobs[p]
  BY <1>1, HandedKeeps DEF AdaptersInv
<1>4. ASSUME deviceJobs' \in {deviceJobs, Handed(handed)}
      PROVE  deviceJobs' \in [Positions -> Jobs] /\ JobsInv'
  <2>1. CASE deviceJobs' = deviceJobs BY <2>1 DEF AdaptersInv, AdapterTypes, JobsInv
  <2>2. CASE deviceJobs' = Handed(handed)
    <3>1. ASSUME NEW p \in Positions
          PROVE  /\ deviceJobs'[p].state = "none" => deviceJobs'[p] = NoJob
                 /\ deviceJobs'[p].state = "completed" => deviceJobs'[p].sheets = JobSheets
      <4>1. CASE p = handed BY <4>1, <2>2, <1>3
      <4>2. CASE p # handed BY <4>2, <2>2, <1>3 DEF AdaptersInv, JobsInv
      <4> QED BY <4>1, <4>2
    <3> QED BY <3>1, <2>2, <1>3 DEF JobsInv
  <2> QED BY <1>4, <2>1, <2>2
<1>5. CASE deviceJobs' = Handed(handed) /\ handed' = handed + 1 /\ UNCHANGED answer
           /\ calling' = IF handed + 1 = JobDocuments THEN "polling" ELSE "sending"
  <2>1. handed \in Nat /\ JobDocuments \in Nat BY AdapterNumbers DEF AdaptersInv, AdapterTypes
  <2>2. AdapterTypes' BY <1>1, <1>2, <1>4, <1>5, <2>1 DEF AdaptersInv, AdapterTypes
  <2>3. CallInv'
    <3>1. \A p \in Positions : p >= handed + 1 => deviceJobs'[p] = NoJob
      BY <1>1, <1>3, <1>5, <2>1, AdapterNumbers
    <3> QED BY <1>1, <1>2, <1>5, <2>1, <3>1 DEF CallInv
  <2>4. NoRecordInv' BY <1>1, <1>2, <1>5, PlainAnswers DEF NoRecordInv
  <2>5. AnswerInv' BY <1>1, <1>2, <1>5, PlainAnswers DEF AnswerInv
  <2> QED BY <1>4, <1>5, <2>2, <2>3, <2>4, <2>5 DEF AdaptersInv
<1>6. CASE \E certain \in BOOLEAN : Return(Thrown(certain)) /\ deviceJobs' \in {deviceJobs, Handed(handed)}
           /\ (~certain => handed = 0 /\ UNCHANGED deviceJobs)
  <2>1. PICK certain \in BOOLEAN : Return(Thrown(certain)) /\ deviceJobs' \in {deviceJobs, Handed(handed)}
           /\ (~certain => handed = 0 /\ UNCHANGED deviceJobs)
    BY <1>6
  <2>2. Thrown(certain) \in Answers /\ Earned(driver = "WINDOWS", deviceJobs', Thrown(certain))
    <3>1. CASE certain BY <3>1, PlainAnswers
    <3>2. CASE ~certain
      <4>1. Untouched BY <1>1, <2>1, <3>2, AdapterNumbers DEF Untouched
      <4> QED BY <4>1, <3>2, <2>1, BlankAnswers
    <3> QED BY <2>1, <3>1, <3>2
  <2>3. Thrown(certain) \notin {NoAnswer, notSubmitted}
    BY DEF Thrown, operationStatus, NoAnswer, notSubmitted
  <2>4. deviceJobs' \in [Positions -> Jobs] /\ JobsInv' BY <2>1, <1>4
  <2>5. calling' = "idle" /\ handed' = 0 /\ answer' = Thrown(certain) BY <2>1 DEF Return
  <2>6. marker \in {"none", "submitted", "completed"} BY DEF AdaptersInv, AdapterTypes
  <2> HIDE DEF Return
  <2> QED BY <1>1, <1>2, <2>2, <2>3, <2>4, <2>5, <2>6, Answered
<1>7. handed \in Nat /\ ambiguousAfter(handed) \in BOOLEAN /\ (~ambiguousAfter(handed) => handed = 0)
  BY AdapterNumbers DEF ambiguousAfter, AdaptersInv, AdapterTypes
<1> QED BY <1>5, <1>6, <1>7 DEF printJob

LEMMA AwaitCompletionStep ==
  ASSUME AdaptersInv, awaitCompletion PROVE AdaptersInv'
<1>1. calling = "polling" /\ driver = "IPP" /\ ~tooLate BY DEF awaitCompletion, AdaptersInv, CallInv
<1>2. UNCHANGED <<driver, counting, scenario, journal, notes, marker, deviceJobs, tooLate>>
  BY DEF awaitCompletion
<1>3. PICK a : Return(a) /\ (a = unknownStatus \/ Concluded(deviceJobs, a))
  <2>1. CASE Return(unknownStatus) BY <2>1
  <2>2. ASSUME NEW again \in SUBSET InQueue,
               Return(aggregateJobs(JobDocuments, listOperationJobs(Listing(again))))
        PROVE  \E a : Return(a) /\ (a = unknownStatus \/ Concluded(deviceJobs, a))
    <3>1. Concluded(deviceJobs, aggregateJobs(JobDocuments, Listings(deviceJobs, counting)))
      BY AggregateIsEarned DEF AdaptersInv, AdapterTypes, JobsInv
    <3> QED BY <2>2, <3>1, ListingIsQueue
  <2> QED BY <2>1, <2>2 DEF awaitCompletion
<1>4. a \in Answers /\ a \notin {NoAnswer, notSubmitted} /\ Earned(FALSE, deviceJobs, a)
  <2>1. CASE a = unknownStatus BY <2>1, PlainAnswers
  <2>2. CASE Concluded(deviceJobs, a)
    <3>1. NoAnswer.state = "NONE" /\ notSubmitted.state = "NOT_SUBMITTED"
      BY DEF NoAnswer, notSubmitted, operationStatus
    <3> QED BY <2>2, <3>1 DEF Concluded
  <2> QED BY <1>3, <2>1, <2>2
<1>5. calling' = "idle" /\ handed' = 0 /\ answer' = a BY <1>3 DEF Return
<1>6. /\ marker \in {"none", "submitted", "completed"} /\ deviceJobs \in [Positions -> Jobs] /\ JobsInv'
      /\ (Untouched => Untouched')
  BY <1>2 DEF AdaptersInv, AdapterTypes, JobsInv, Untouched
<1>7. Earned(driver = "WINDOWS", deviceJobs', answer') BY <1>1, <1>2, <1>4, <1>5
<1> QED BY <1>1, <1>2, <1>4, <1>5, <1>6, <1>7, Answered

\* What a host that answers says, and what is made of it.
LEMMA HostAnswers ==
  ASSUME AdaptersInv, NEW r \in HostReports
  PROVE  /\ r \in Answers
         /\ notes # "known" => r = notSubmitted
         /\ notes = "known" => /\ r.state \in OperationStates \ {"NOT_SUBMITTED"}
                               /\ r.sheets >= 0 => r.sheets = Out(deviceJobs) /\ OpenJobs = {}
<1>1. \A p \in Positions : deviceJobs[p].sheets \in Nat
  BY AdapterNumbers DEF AdaptersInv, AdapterTypes, Jobs
<1>2. Out(deviceJobs) \in Nat /\ Produced = Out(deviceJobs) BY <1>1, OutIsSum DEF Produced, Out
<1>3. CASE notes # "known"
  <2>1. r = notSubmitted BY <1>3 DEF HostReports
  <2> QED BY <2>1, <1>3 DEF notSubmitted, operationStatus, Answers, OperationStates
<1>4. CASE notes = "known"
  <2>1. r \in [state : OperationStates \ {"NOT_SUBMITTED"}, confidence : {"CONFIRMED", "UNCONFIRMED"},
               sheets : {Unreported} \cup IF OpenJobs = {} THEN {Produced} ELSE {}]
    BY <1>4 DEF HostReports
  <2>2. r.sheets = Unreported \/ (r.sheets = Out(deviceJobs) /\ OpenJobs = {}) BY <2>1, <1>2
  <2>3. r \in Answers BY <2>1, <2>2, <1>2 DEF Answers, Unreported
  <2> QED BY <2>1, <2>2, <2>3, <1>4 DEF Unreported
<1> QED BY <1>3, <1>4

\* No job is open: nothing is left that a cancellation could stop.
LEMMA NoneOpen ==
  ASSUME OpenJobs = {} PROVE \A p \in Positions : deviceJobs[p].state # "open"
BY DEF OpenJobs

LEMMA HostSpoolsStep ==
  ASSUME AdaptersInv, hostSpools PROVE AdaptersInv'
<1>1. /\ calling = "sending" /\ driver = "WINDOWS" /\ handed < JobDocuments /\ answer = Forgotten /\ ~tooLate
      /\ journal # "none" /\ notes' = "known" /\ deviceJobs' = Handed(handed) /\ handed' = handed + 1
      /\ \A p \in Positions : p >= handed => deviceJobs[p] = NoJob
  BY DEF hostSpools, AdaptersInv, CallInv
<1>2. UNCHANGED <<driver, counting, scenario, calling, journal, marker, answer, tooLate>> BY DEF hostSpools
<1>3. /\ Handed(handed) \in [Positions -> Jobs] /\ handed \in Positions
      /\ Handed(handed)[handed] = [state |-> "open", sheets |-> 0]
      /\ \A p \in Positions : p # handed => Handed(handed)[p] = deviceJobs[p]
  BY <1>1, HandedKeeps DEF AdaptersInv
<1>4. handed \in Nat /\ JobDocuments \in Nat BY AdapterNumbers DEF AdaptersInv, AdapterTypes
<1>5. AdapterTypes' BY <1>1, <1>2, <1>3, <1>4 DEF AdaptersInv, AdapterTypes
<1>6. JobsInv'
  <2>1. ASSUME NEW p \in Positions
        PROVE  /\ deviceJobs'[p].state = "none" => deviceJobs'[p] = NoJob
               /\ deviceJobs'[p].state = "completed" => deviceJobs'[p].sheets = JobSheets
    <3>1. CASE p = handed BY <3>1, <1>1, <1>3
    <3>2. CASE p # handed BY <3>2, <1>1, <1>3 DEF AdaptersInv, JobsInv
    <3> QED BY <3>1, <3>2
  <2> QED BY <2>1 DEF JobsInv
<1>7. CallInv'
  <2>1. ASSUME NEW p \in Positions, p >= handed + 1 PROVE deviceJobs'[p] = NoJob
    <3>1. p \in Nat BY AdapterNumbers
    <3>2. p >= handed /\ p # handed BY <2>1, <3>1, <1>4
    <3> QED BY <1>1, <1>3, <3>2
  <2> QED BY <1>1, <1>2, <1>4, <2>1 DEF CallInv
<1>8. NoRecordInv' BY <1>1, <1>2, PlainAnswers DEF NoRecordInv
<1>9. AnswerInv' BY <1>1, <1>2, PlainAnswers DEF AnswerInv
<1> QED BY <1>5, <1>6, <1>7, <1>8, <1>9 DEF AdaptersInv

\* Answers given without touching the device.
LEMMA AnsweredOnly ==
  ASSUME AdaptersInv, ~tooLate, NEW a \in Answers, answer' = a, calling' = "idle", handed' = 0,
         UNCHANGED <<driver, counting, scenario, journal, notes, deviceJobs, tooLate>>,
         marker' \in {"none", "submitted", "completed"}, marker' = "none" => marker = "none",
         a \in {NoAnswer, notSubmitted} => Untouched,
         Earned(driver = "WINDOWS", deviceJobs, a)
  PROVE  AdaptersInv'
<1>1. deviceJobs' \in [Positions -> Jobs] /\ JobsInv' /\ (Untouched => Untouched')
  BY DEF AdaptersInv, AdapterTypes, JobsInv, Untouched
<1>2. Earned(driver = "WINDOWS", deviceJobs', answer') OBVIOUS
<1> QED BY <1>1, <1>2, Answered

LEMMA ReadHostResultStep ==
  ASSUME AdaptersInv, readHostResult PROVE AdaptersInv'
<1>1. /\ calling = "sending" /\ driver = "WINDOWS" /\ ~tooLate
      /\ \A p \in Positions : p >= handed => deviceJobs[p] = NoJob
  BY DEF readHostResult, AdaptersInv, CallInv
<1>2. UNCHANGED <<driver, counting, scenario, journal, notes, marker, deviceJobs, tooLate>>
  BY DEF readHostResult
<1>3. handed \in Nat BY AdapterNumbers DEF AdaptersInv, AdapterTypes
<1>4. \E a \in Answers : /\ Return(a) /\ a \notin {NoAnswer, notSubmitted}
                         /\ Earned(TRUE, deviceJobs, a)
  <2>1. ASSUME NEW r \in HostReports, notes = "known", Return(withHonestConfidence(r))
        PROVE  \E a \in Answers : /\ Return(a) /\ a \notin {NoAnswer, notSubmitted}
                                  /\ Earned(TRUE, deviceJobs, a)
    <3>1. /\ r \in Answers /\ r.state \in OperationStates \ {"NOT_SUBMITTED"}
          /\ r.sheets >= 0 => r.sheets = Out(deviceJobs) /\ OpenJobs = {}
      BY <2>1, HostAnswers
    <3>2. /\ withHonestConfidence(r) \in Answers /\ withHonestConfidence(r).state = r.state
          /\ Earned(TRUE, deviceJobs, withHonestConfidence(r))
      BY <3>1, NoneOpen, HonestIsEarned
    <3>3. NoAnswer.state = "NONE" /\ notSubmitted.state = "NOT_SUBMITTED"
      BY DEF NoAnswer, notSubmitted, operationStatus
    <3>4. withHonestConfidence(r) \notin {NoAnswer, notSubmitted}
      BY <3>1, <3>2, <3>3 DEF OperationStates
    <3> QED BY <2>1, <3>2, <3>4
  <2>2. ASSUME Return(Thrown(TRUE))
        PROVE  \E a \in Answers : /\ Return(a) /\ a \notin {NoAnswer, notSubmitted}
                                  /\ Earned(TRUE, deviceJobs, a)
    BY <2>2, PlainAnswers
  <2>3. ASSUME Return(Thrown(FALSE)), handed = 0
        PROVE  \E a \in Answers : /\ Return(a) /\ a \notin {NoAnswer, notSubmitted}
                                  /\ Earned(TRUE, deviceJobs, a)
    <3>1. Untouched BY <1>1, <2>3, AdapterNumbers DEF Untouched
    <3>2. Thrown(FALSE) \notin {NoAnswer, notSubmitted}
      BY DEF Thrown, operationStatus, NoAnswer, notSubmitted
    <3> QED BY <2>3, <3>1, <3>2, BlankAnswers
  <2>4. (handed > 0) = TRUE \/ ((handed > 0) = FALSE /\ handed = 0) BY <1>3
  <2> QED BY <2>1, <2>2, <2>3, <2>4 DEF readHostResult
<1>5. PICK a \in Answers : /\ Return(a) /\ a \notin {NoAnswer, notSubmitted}
                          /\ Earned(TRUE, deviceJobs, a)
  BY <1>4
<1>6. calling' = "idle" /\ handed' = 0 /\ answer' = a BY <1>5 DEF Return
<1>7. marker \in {"none", "submitted", "completed"} BY DEF AdaptersInv, AdapterTypes
<1>8. Earned(driver = "WINDOWS", deviceJobs, a) BY <1>1, <1>5
<1> QED BY <1>1, <1>2, <1>5, <1>6, <1>7, <1>8, AnsweredOnly

LEMMA RecordSubmissionStep ==
  ASSUME AdaptersInv, recordSubmission PROVE AdaptersInv'
<1>1. calling = "ready" /\ driver = "MOCK" /\ ~tooLate /\ handed = 0 /\ Untouched /\ answer = Forgotten
  BY DEF recordSubmission, AdaptersInv, CallInv
<1>2. UNCHANGED <<driver, counting, scenario, journal, notes, deviceJobs, tooLate>> BY DEF recordSubmission
<1>3. marker \in {"none", "submitted", "completed"} BY DEF AdaptersInv, AdapterTypes
<1>4. marker' \in {"none", "submitted", "completed"} /\ (marker' = "none" => marker = "none")
  BY <1>3 DEF recordSubmission
<1>5. ASSUME NEW a \in {operationStatus("FAILED", "CONFIRMED", 0), operationStatus("CANCELED", "UNCONFIRMED", 0),
                        unknownStatus, Thrown(TRUE)}, Return(a)
      PROVE  AdaptersInv'
  <2>1. a \in Answers /\ Earned(driver = "WINDOWS", deviceJobs, a) BY <1>1, <1>5, PlainAnswers, BlankAnswers
  <2>2. calling' = "idle" /\ handed' = 0 /\ answer' = a BY <1>5 DEF Return
  <2> QED BY <1>1, <1>2, <1>4, <2>1, <2>2, AnsweredOnly
<1>6. CASE marker' = "submitted" /\ calling' = "sending" /\ UNCHANGED <<answer, handed>>
  <2>1. AdapterTypes' BY <1>2, <1>6 DEF AdaptersInv, AdapterTypes
  <2>2. JobsInv' BY <1>2 DEF AdaptersInv, JobsInv
  <2>3. CallInv'
    <3>1. \A p \in Positions : p >= 0 /\ deviceJobs'[p] = NoJob BY <1>1, <1>2, AdapterNumbers DEF Untouched, Positions
    <3> QED BY <1>1, <1>2, <1>6, <3>1, AdapterNumbers DEF CallInv
  <2>4. NoRecordInv' BY <1>1, <1>2, <1>6, PlainAnswers DEF NoRecordInv
  <2>5. AnswerInv' BY <1>1, <1>2, <1>6, PlainAnswers DEF AnswerInv
  <2> QED BY <2>1, <2>2, <2>3, <2>4, <2>5 DEF AdaptersInv
<1> QED BY <1>5, <1>6 DEF recordSubmission

LEMMA WriteArtifactsStep ==
  ASSUME AdaptersInv, writeArtifacts PROVE AdaptersInv'
<1> DEFINE Done == [state |-> "completed", sheets |-> JobSheets]
<1>1. /\ calling = "sending" /\ driver = "MOCK" /\ ~tooLate /\ answer = Forgotten /\ marker = "submitted"
      /\ \A p \in Positions : p >= handed => deviceJobs[p] = NoJob
      /\ \A p \in Positions : p < handed => deviceJobs[p] = Done
  BY DEF writeArtifacts, AdaptersInv, CallInv
<1>2. UNCHANGED <<driver, counting, scenario, journal, notes, tooLate>> BY DEF writeArtifacts
<1>3. /\ handed \in Nat /\ handed <= JobDocuments /\ JobDocuments \in Nat /\ JobDocuments > 0
      /\ JobSheets \in Nat /\ deviceJobs \in [Positions -> Jobs] /\ JobDocuments * JobSheets \in Nat
  BY AdapterNumbers DEF AdaptersInv, AdapterTypes
<1>4. CASE handed < JobDocuments /\ deviceJobs' = [deviceJobs EXCEPT ![handed] = Done]
           /\ handed' = handed + 1 /\ UNCHANGED <<calling, answer, marker>>
  <2>1. handed \in Positions BY <1>3, <1>4 DEF Positions
  <2>2. Done \in Jobs BY <1>3 DEF Jobs, Listed, JobTerminal
  <2>3. /\ deviceJobs' \in [Positions -> Jobs] /\ deviceJobs'[handed] = Done
        /\ \A p \in Positions : p # handed => deviceJobs'[p] = deviceJobs[p]
    BY <1>3, <1>4, <2>1, <2>2
  <2>4. AdapterTypes'
    <3>1. handed' \in 0 .. JobDocuments BY <1>3, <1>4
    <3> QED BY <1>2, <1>4, <2>3, <3>1 DEF AdaptersInv, AdapterTypes
  <2>5. JobsInv'
    <3>1. ASSUME NEW p \in Positions
          PROVE  /\ deviceJobs'[p].state = "none" => deviceJobs'[p] = NoJob
                 /\ deviceJobs'[p].state = "completed" => deviceJobs'[p].sheets = JobSheets
      <4>1. CASE p = handed BY <4>1, <2>3
      <4>2. CASE p # handed BY <4>2, <2>3 DEF AdaptersInv, JobsInv
      <4> QED BY <4>1, <4>2
    <3> QED BY <3>1 DEF JobsInv
  <2>6. CallInv'
    <3>1. ASSUME NEW p \in Positions
          PROVE  /\ p >= handed + 1 => deviceJobs'[p] = NoJob
                 /\ p < handed + 1 => deviceJobs'[p] = Done
      <4>1. p \in Nat BY AdapterNumbers
      <4>2. CASE p = handed BY <4>1, <4>2, <2>3, <1>3
      <4>3. CASE p # handed
        <5>1. (p >= handed + 1 => p >= handed) /\ (p < handed + 1 => p < handed) BY <4>1, <4>3, <1>3
        <5> HIDE DEF Done
        <5> QED BY <4>3, <5>1, <2>3, <1>1
      <4> QED BY <4>2, <4>3
    <3> QED BY <1>1, <1>2, <1>4, <3>1 DEF CallInv
  <2>7. NoRecordInv' BY <1>1, <1>2, <1>4, PlainAnswers DEF NoRecordInv
  <2>8. AnswerInv' BY <1>1, <1>2, <1>4, PlainAnswers DEF AnswerInv
  <2> QED BY <2>4, <2>5, <2>6, <2>7, <2>8 DEF AdaptersInv
<1>5. ASSUME NEW a \in Answers, Return(a), a \notin {NoAnswer, notSubmitted},
             UNCHANGED deviceJobs, marker' \in {"submitted", "completed"}, Earned(driver = "WINDOWS", deviceJobs, a)
      PROVE  AdaptersInv'
  <2>1. calling' = "idle" /\ handed' = 0 /\ answer' = a BY <1>5 DEF Return
  <2> QED BY <1>1, <1>2, <1>5, <2>1, AnsweredOnly
<1>6. Thrown(TRUE) \in Answers /\ Thrown(TRUE) \notin {NoAnswer, notSubmitted}
      /\ Earned(driver = "WINDOWS", deviceJobs, Thrown(TRUE))
  BY PlainAnswers
<1>7. CASE Return(operationStatus("FAILED", "UNCONFIRMED", (JobDocuments * JobSheets) \div 2))
           /\ UNCHANGED <<marker, deviceJobs>>
  <2> DEFINE n == (JobDocuments * JobSheets) \div 2
             a == operationStatus("FAILED", "UNCONFIRMED", n)
  <2>1. n \in Int BY <1>3
  <2> HIDE DEF n
  <2>2. a \in Answers /\ a \notin {NoAnswer, notSubmitted} /\ Earned(driver = "WINDOWS", deviceJobs, a)
    BY <2>1 DEF operationStatus, Answers, OperationStates, Earned, NoAnswer, notSubmitted
  <2> HIDE DEF a
  <2>3. Return(a) /\ UNCHANGED deviceJobs /\ marker' \in {"submitted", "completed"} BY <1>1, <1>7 DEF a, n
  <2> QED BY <2>2, <2>3, <1>5
<1>8. CASE handed = JobDocuments /\ UNCHANGED deviceJobs /\ marker' = "completed"
           /\ Return(operationStatus("COMPLETED", "CONFIRMED", JobDocuments * JobSheets))
  <2> DEFINE n == JobDocuments * JobSheets
             a == operationStatus("COMPLETED", "CONFIRMED", n)
  <2>1. \A p \in Positions : p < handed BY <1>3, <1>8 DEF Positions
  <2>2. \A p \in Positions : deviceJobs[p].state = "completed" /\ deviceJobs[p].sheets = JobSheets
    BY <1>1, <2>1
  <2>3. Out(deviceJobs) = n /\ Out(deviceJobs) > 0 /\ n \in Int BY <2>2, <1>3, OutIsSum
  <2> HIDE DEF n
  <2>4. a \in Answers /\ a \notin {NoAnswer, notSubmitted}
    BY <2>3 DEF operationStatus, Answers, OperationStates, NoAnswer, notSubmitted
  <2>5. a.state = "COMPLETED" /\ a.sheets = n BY DEF operationStatus
  <2>6. Earned(driver = "WINDOWS", deviceJobs, a) BY <2>2, <2>3, <2>5 DEF Earned, n
  <2> HIDE DEF a
  <2>7. Return(a) BY <1>8 DEF a, n
  <2> QED BY <2>4, <2>6, <2>7, <1>5, <1>8
<1>9. CASE Return(Thrown(TRUE)) /\ UNCHANGED deviceJobs /\ marker' \in {marker, "completed"}
  BY <1>1, <1>5, <1>6, <1>9
<1>10. (handed < (IF scenario = "PAPER_JAM" THEN 1 ELSE JobDocuments)) => handed < JobDocuments BY <1>3
<1> HIDE DEF Return
<1> QED BY <1>4, <1>7, <1>8, <1>9, <1>10 DEF writeArtifacts

\* Where there is no record, nothing was handed over; a report says "never" on no other ground.
LEMMA NeverIsUntouched ==
  ASSUME AdaptersInv, ~tooLate
  PROVE  /\ driver # "MOCK" /\ ~recordRead => Untouched
         /\ driver = "WINDOWS" /\ notes = "none" => Untouched
         /\ driver = "MOCK" /\ marker = "none" => Untouched
BY DEF AdaptersInv, NoRecordInv, recordRead

LEMMA GetOperationStatusStep ==
  ASSUME AdaptersInv, getOperationStatus PROVE AdaptersInv'
<1>1. calling = "idle" /\ ~tooLate /\ handed = 0 BY DEF getOperationStatus, AdaptersInv, CallInv
<1>2. UNCHANGED <<driver, counting, scenario, calling, handed, journal, notes, marker, deviceJobs, tooLate>>
  BY DEF getOperationStatus
<1>3. driver \in {"IPP", "WINDOWS", "MOCK"} /\ marker \in {"none", "submitted", "completed"}
  BY AdapterNumbers DEF AdaptersInv, AdapterTypes
<1> DEFINE Fair(a) == /\ a \in Answers /\ Earned(driver = "WINDOWS", deviceJobs, a)
                      /\ a \in {NoAnswer, notSubmitted} => Untouched
<1>4. Fair(unknownStatus) /\ Fair(operationStatus("PRINTING", "UNCONFIRMED", Unreported))
      /\ Fair(operationStatus("COMPLETED", "UNCONFIRMED", Unreported))
  BY PlainAnswers
<1>5. Untouched => Fair(notSubmitted) BY BlankAnswers
<1>6. (driver # "MOCK" /\ ~recordRead) \/ (driver = "MOCK" /\ marker = "none") => Fair(notSubmitted)
  BY <1>1, <1>5, NeverIsUntouched
<1>7. ASSUME driver = "IPP" PROVE Fair(answer')
  <2>1. ippStatus BY <1>7 DEF getOperationStatus
  <2>2. ASSUME NEW again \in SUBSET InQueue, listOperationJobs(Listing(again)) # {}
        PROVE  Fair(aggregateJobs(expectedDocuments(listOperationJobs(Listing(again))),
                                  listOperationJobs(Listing(again))))
    <3> DEFINE r == Listings(deviceJobs, counting)
               a == aggregateJobs(JobDocuments, r)
    <3>1. listOperationJobs(Listing(again)) = r BY ListingIsQueue
    <3>2. expectedDocuments(r) = JobDocuments BY <2>2, <3>1, ExpectedIsAll
    <3>3. Concluded(deviceJobs, a) BY AggregateIsEarned DEF AdaptersInv, AdapterTypes, JobsInv
    <3> HIDE DEF r, a
    <3>4. NoAnswer.state = "NONE" /\ notSubmitted.state = "NOT_SUBMITTED"
      BY DEF NoAnswer, notSubmitted, operationStatus
    <3>5. Fair(a) BY <3>3, <3>4, <1>7 DEF Concluded
    <3> QED BY <3>1, <3>2, <3>5 DEF a
  <2> HIDE DEF Fair
  <2>3. Fair(answer') BY <2>1, <2>2, <1>4, <1>6, <1>7 DEF ippStatus
  <2> QED BY <2>3
<1>8. ASSUME driver = "WINDOWS" PROVE Fair(answer')
  <2>1. windowsStatus BY <1>8 DEF getOperationStatus
  <2>2. ASSUME NEW r \in HostReports, ~(r.state = "NOT_SUBMITTED" /\ recordRead)
        PROVE  Fair(withHonestConfidence(r))
    <3>1. CASE notes = "known"
      <4>1. /\ r \in Answers /\ r.state \in OperationStates \ {"NOT_SUBMITTED"}
            /\ r.sheets >= 0 => r.sheets = Out(deviceJobs) /\ OpenJobs = {}
        BY <3>1, HostAnswers
      <4>2. /\ withHonestConfidence(r) \in Answers /\ withHonestConfidence(r).state = r.state
            /\ Earned(TRUE, deviceJobs, withHonestConfidence(r))
        BY <4>1, NoneOpen, HonestIsEarned
      <4>3. NoAnswer.state = "NONE" /\ notSubmitted.state = "NOT_SUBMITTED"
        BY DEF NoAnswer, notSubmitted, operationStatus
      <4>4. withHonestConfidence(r) \notin {NoAnswer, notSubmitted}
        BY <4>1, <4>2, <4>3 DEF OperationStates
      <4> QED BY <1>8, <4>2, <4>4
    <3>2. CASE notes # "known"
      <4>1. r = notSubmitted BY <3>2, HostAnswers
      <4>2. ~recordRead BY <4>1, <2>2 DEF notSubmitted, operationStatus
      <4>3. withHonestConfidence(r) = notSubmitted
        BY <4>1 DEF notSubmitted, operationStatus, withHonestConfidence, Confirmable
      <4> QED BY <4>2, <4>3, <1>6, <1>8
    <3> QED BY <3>1, <3>2
  <2> HIDE DEF Fair
  <2>3. Fair(answer') BY <2>1, <2>2, <1>4, <1>6, <1>8 DEF windowsStatus
  <2> QED BY <2>3
<1>9. ASSUME driver = "MOCK" PROVE Fair(answer')
  <2>1. mockStatus BY <1>9 DEF getOperationStatus
  <2>2. Fair(answer')
    <3> HIDE DEF Fair
    <3> QED BY <2>1, <1>3, <1>4, <1>6, <1>9 DEF mockStatus
  <2> QED BY <2>2
<1>10. Fair(answer') BY <1>3, <1>7, <1>8, <1>9
<1>11. answer' \in Answers BY <1>10
<1> QED BY <1>1, <1>2, <1>3, <1>10, <1>11, Answered DEF AdaptersInv, AdapterTypes, JobsInv, Untouched

\* The jobs asked to stop that did.
Stopping(jobs, stopped) ==
  [p \in Positions |-> IF p \in stopped THEN [jobs[p] EXCEPT !.state = "canceled"] ELSE jobs[p]]

LEMMA StoppingKeeps ==
  ASSUME AdaptersInv, NEW stopped \in SUBSET OpenJobs, deviceJobs' = Stopping(deviceJobs, stopped)
  PROVE  /\ deviceJobs' \in [Positions -> Jobs] /\ JobsInv' /\ (Untouched => Untouched')
         /\ stopped = {} => deviceJobs' = deviceJobs
<1>1. deviceJobs \in [Positions -> Jobs] BY DEF AdaptersInv, AdapterTypes
<1>2. \A p \in stopped : p \in Positions /\ deviceJobs[p].state = "open" BY DEF OpenJobs
<1>3. \A j \in Jobs : [j EXCEPT !.state = "canceled"] \in Jobs
                      /\ [j EXCEPT !.state = "canceled"].state = "canceled"
  BY DEF Jobs, Listed, JobTerminal
<1>4. deviceJobs' \in [Positions -> Jobs] BY <1>1, <1>3 DEF Stopping
<1>5. JobsInv'
  <2>1. ASSUME NEW p \in Positions
        PROVE  /\ deviceJobs'[p].state = "none" => deviceJobs'[p] = NoJob
               /\ deviceJobs'[p].state = "completed" => deviceJobs'[p].sheets = JobSheets
    <3>1. CASE p \in stopped
      <4>1. deviceJobs'[p].state = "canceled" BY <3>1, <1>1, <1>3 DEF Stopping
      <4> QED BY <4>1
    <3>2. CASE p \notin stopped BY <3>2 DEF Stopping, AdaptersInv, JobsInv
    <3> QED BY <3>1, <3>2
  <2> QED BY <2>1 DEF JobsInv
<1>6. stopped = {} => deviceJobs' = deviceJobs BY <1>1 DEF Stopping
<1>7. Untouched => Untouched'
  <2>1. Untouched => stopped = {} BY UntouchedIsBlank
  <2> QED BY <2>1, <1>6 DEF Untouched
<1> QED BY <1>4, <1>5, <1>6, <1>7

\* The second listing: what was asked to stop and did is listed as canceled.
LEMMA AfterIsReports ==
  ASSUME deviceJobs \in [Positions -> Jobs], NEW stopped \in SUBSET (InQueue \cap OpenJobs)
  PROVE  {IF j.position \in stopped THEN [j EXCEPT !.state = "canceled"] ELSE j :
            j \in {readDeviceJob(p) : p \in InQueue}} = Listings(Stopping(deviceJobs, stopped), counting)
<1> DEFINE new == Stopping(deviceJobs, stopped)
           one(p) == readDeviceJob(p)
           told(j) == IF j.position \in stopped THEN [j EXCEPT !.state = "canceled"] ELSE j
<1>1. Queue(new) = InQueue
  <2>1. \A p \in Positions : p \notin stopped => new[p] = deviceJobs[p] BY DEF Stopping
  <2>2. \A p \in stopped : /\ p \in Positions /\ new[p].state \in Listed
                           /\ deviceJobs[p].state \in Listed
    BY DEF Stopping, Listed, JobTerminal, InQueue, Jobs
  <2> HIDE DEF new
  <2> QED BY <2>1, <2>2 DEF Queue, InQueue
<1>2. ASSUME NEW p \in InQueue PROVE told(one(p)) = Reported(new, counting, p)
  <2>1. p \in Positions /\ one(p).position = p BY DEF InQueue, readDeviceJob
  <2>2. CASE p \in stopped
    <3>1. new[p] = [deviceJobs[p] EXCEPT !.state = "canceled"] BY <2>1, <2>2 DEF Stopping
    <3>2. new[p].state = "canceled" /\ new[p].sheets = deviceJobs[p].sheets BY <3>1, <2>1 DEF Jobs
    <3>3. told(one(p)) = [one(p) EXCEPT !.state = "canceled"] BY <2>1, <2>2
    <3>4. [one(p) EXCEPT !.state = "canceled"] =
            [position |-> p, state |-> "canceled", documentCount |-> JobDocuments,
             sheets |-> IF counting THEN deviceJobs[p].sheets ELSE Unreported]
      BY DEF readDeviceJob
    <3> HIDE DEF new, told, one
    <3> QED BY <3>2, <3>3, <3>4 DEF Reported
  <2>3. CASE p \notin stopped
    <3>1. new[p] = deviceJobs[p] BY <2>1, <2>3 DEF Stopping
    <3>2. told(one(p)) = one(p) BY <2>1, <2>3
    <3> HIDE DEF new, told
    <3> QED BY <3>1, <3>2 DEF Reported, readDeviceJob
  <2> QED BY <2>2, <2>3
<1> HIDE DEF new, told, one
<1>3. {told(j) : j \in {one(p) : p \in InQueue}} = {told(one(p)) : p \in InQueue} OBVIOUS
<1>4. {told(one(p)) : p \in InQueue} = Listings(new, counting) BY <1>1, <1>2 DEF Listings
<1> QED BY <1>3, <1>4 DEF told, one, new

\* A cancellation is certain only where the listing it rests on is.
LEMMA IppCancelIsEarned ==
  ASSUME AdaptersInv, ~tooLate, driver = "IPP", ippCancel
  PROVE  \E stopped \in SUBSET OpenJobs :
           /\ deviceJobs' = Stopping(deviceJobs, stopped)
           /\ answer' \in Answers /\ answer' \notin {NoAnswer, notSubmitted}
           /\ Earned(FALSE, deviceJobs', answer')
<1>1. PICK seen \in {{}, InQueue}, stopped \in SUBSET OpenJobs : stopped \subseteq seen /\
        LET before == {readDeviceJob(p) : p \in seen}
            after == {IF j.position \in stopped THEN [j EXCEPT !.state = "canceled"] ELSE j :
                        j \in {readDeviceJob(p) : p \in InQueue}}
        IN /\ deviceJobs' = Stopping(deviceJobs, stopped)
           /\ IF ~recordRead /\ before = {}
              THEN answer' = canceledBeforeSubmit
              ELSE \E jobs \in {before, after} :
                     LET total == aggregateJobs(expectedDocuments(jobs), jobs)
                     IN answer' = IF jobs = {} THEN unknownStatus
                                  ELSE IF total.state \in {"COMPLETED", "CANCELED"} THEN total
                                  ELSE operationStatus("CANCELED", "UNCONFIRMED", total.sheets)
  BY DEF ippCancel, Stopping
<1> DEFINE new == Stopping(deviceJobs, stopped)
           before == {readDeviceJob(p) : p \in seen}
           now == Listings(deviceJobs, counting)
           next == Listings(new, counting)
           Fair(a) == /\ a \in Answers /\ a \notin {NoAnswer, notSubmitted}
                      /\ Earned(FALSE, deviceJobs', a)
           Taken(jobs) == LET total == aggregateJobs(expectedDocuments(jobs), jobs)
                          IN IF total.state \in {"COMPLETED", "CANCELED"} THEN total
                             ELSE operationStatus("CANCELED", "UNCONFIRMED", total.sheets)
<1>2. deviceJobs' = new BY <1>1
<1>3. /\ new \in [Positions -> Jobs] /\ (stopped = {} => new = deviceJobs)
      /\ \A p \in Positions : new[p].state = "completed" => new[p].sheets = JobSheets
  <2>1. stopped \in SUBSET OpenJobs BY <1>1
  <2> QED BY <1>2, <2>1, StoppingKeeps DEF JobsInv
<1>4. deviceJobs \in [Positions -> Jobs] /\ counting \in BOOLEAN BY DEF AdaptersInv, AdapterTypes
<1>5. {IF j.position \in stopped THEN [j EXCEPT !.state = "canceled"] ELSE j :
         j \in {readDeviceJob(p) : p \in InQueue}} = next
  <2>1. stopped \in SUBSET (InQueue \cap OpenJobs) BY <1>1
  <2> QED BY <2>1, <1>4, AfterIsReports
<1>6. before = {} \/ before = now
  <2>1. CASE seen = {} BY <2>1
  <2>2. CASE seen = InQueue
    <3>1. InQueue = Queue(deviceJobs) /\ \A p : readDeviceJob(p) = Reported(deviceJobs, counting, p)
      BY DEF InQueue, Queue, readDeviceJob, Reported
    <3> QED BY <3>1, <2>2 DEF Listings
  <2> QED BY <1>1, <2>1, <2>2
<1>7. NoAnswer.state = "NONE" /\ notSubmitted.state = "NOT_SUBMITTED"
  BY DEF NoAnswer, notSubmitted, operationStatus
<1>8. \A n \in Int : Fair(operationStatus("CANCELED", "UNCONFIRMED", n))
  BY <1>7 DEF operationStatus, Answers, OperationStates, Earned
<1>9. ASSUME NEW a, Concluded(new, a) PROVE Fair(a) BY <1>2, <1>7, <1>9 DEF Concluded
<1>10. ASSUME next # {} PROVE Fair(Taken(next))
  <2>1. expectedDocuments(next) = JobDocuments BY <1>10, ExpectedIsAll
  <2>2. Concluded(new, aggregateJobs(JobDocuments, next)) BY <1>3, <1>4, AggregateIsEarned
  <2>3. aggregateJobs(JobDocuments, next).sheets \in Int BY <2>2 DEF Concluded, Answers
  <2> HIDE DEF next, new, Fair
  <2> QED BY <2>1, <2>2, <2>3, <1>8, <1>9
<1>11. ASSUME now # {}, before = now PROVE Fair(Taken(now))
  <2>1. expectedDocuments(now) = JobDocuments BY <1>11, ExpectedIsAll
  <2>2. CASE stopped = {}
    <3>1. now = next BY <1>3, <2>2
    <3> HIDE DEF now, next, Taken
    <3> QED BY <3>1, <1>10, <1>11
  <2>3. CASE stopped # {}
    <3> DEFINE a == aggregateJobs(JobDocuments, now)
               total == IF \A j \in now : j.sheets # Unreported
                        THEN Sum([j \in now |-> j.sheets]) ELSE Unreported
               nothing == IF total = 0 THEN "CONFIRMED" ELSE "UNCONFIRMED"
    <3>1. PICK p \in stopped : p \in InQueue /\ deviceJobs[p].state = "open"
      BY <1>1, <2>3 DEF OpenJobs
    <3>2. Reported(deviceJobs, counting, p) \in now /\ Reported(deviceJobs, counting, p).state = "open"
      BY <3>1 DEF Listings, Queue, InQueue, Reported
    <3>3. Cardinality(now) \in Nat BY <1>4, ReportsAddUp
    <3>4. a = IF Cardinality(now) < JobDocuments THEN unknownStatus
              ELSE operationStatus("PRINTING", "UNCONFIRMED", Unreported)
      <4>1. total = IF \A j \in now : j.sheets # Unreported THEN Sum([j \in now |-> j.sheets]) ELSE Unreported
        OBVIOUS
      <4>2. nothing = IF total = 0 THEN "CONFIRMED" ELSE "UNCONFIRMED" OBVIOUS
      <4>3. JobDocuments \in Nat BY AdapterNumbers
      <4>4. \E j \in now : j.state = "open" BY <3>2
      <4> HIDE DEF now, total, nothing
      <4>5. a = IF Cardinality(now) < JobDocuments THEN unknownStatus
                ELSE IF \E j \in now : j.state = "open" THEN operationStatus("PRINTING", "UNCONFIRMED", Unreported)
                ELSE IF \E j \in now : j.state = "aborted" THEN operationStatus("FAILED", nothing, total)
                ELSE IF \E j \in now : j.state = "canceled" THEN operationStatus("CANCELED", nothing, total)
                ELSE operationStatus("COMPLETED", IF total > 0 THEN "CONFIRMED" ELSE "UNCONFIRMED", total)
        BY <3>3, <4>1, <4>2, <4>3, AggregateCases
      <4> QED BY <4>4, <4>5
    <3>5. a.state \notin {"COMPLETED", "CANCELED"} /\ a.sheets = Unreported
      <4> HIDE DEF a
      <4> QED BY <3>4 DEF unknownStatus, operationStatus
    <3>6. Unreported \in Int BY DEF Unreported
    <3> HIDE DEF a, Fair, now
    <3> QED BY <2>1, <3>5, <3>6, <1>8 DEF a
  <2> QED BY <2>2, <2>3
<1>12. Fair(unknownStatus)
  BY <1>7 DEF unknownStatus, operationStatus, Answers, OperationStates, Unreported, Earned
<1>13. ASSUME ~recordRead, before = {} PROVE Fair(canceledBeforeSubmit)
  <2>1. Untouched BY <1>13, NeverIsUntouched
  <2>2. new = deviceJobs BY <2>1, <1>1, <1>3, UntouchedIsBlank
  <2>3. canceledBeforeSubmit \in Answers /\ Earned(FALSE, deviceJobs, canceledBeforeSubmit)
    BY <2>1, BlankAnswers
  <2>4. canceledBeforeSubmit.state = "CANCELED" BY DEF canceledBeforeSubmit, operationStatus
  <2> HIDE DEF new
  <2> QED BY <2>2, <2>3, <2>4, <1>2, <1>7
<1> HIDE DEF now, next, before, Fair, new
<1>14. \/ ~recordRead /\ before = {} /\ answer' = canceledBeforeSubmit
       \/ \E jobs \in {before, next} : answer' = IF jobs = {} THEN unknownStatus ELSE Taken(jobs)
  BY <1>1, <1>5 DEF before
<1> HIDE DEF Taken
<1>15. Fair(answer') BY <1>6, <1>10, <1>11, <1>12, <1>13, <1>14
<1>16. stopped \in SUBSET OpenJobs BY <1>1
<1> QED BY <1>2, <1>15, <1>16 DEF Fair, new

LEMMA WindowsCancelIsEarned ==
  ASSUME AdaptersInv, ~tooLate, driver = "WINDOWS", windowsCancel
  PROVE  \E stopped \in SUBSET OpenJobs :
           /\ deviceJobs' = Stopping(deviceJobs, stopped)
           /\ answer' \in Answers /\ answer' \notin {NoAnswer, notSubmitted}
           /\ (notes = "lost" /\ answer'.state = "CANCELED") \/ Earned(TRUE, deviceJobs', answer')
<1> DEFINE Told(r) == IF r.state = "NOT_SUBMITTED" /\ ~recordRead THEN canceledBeforeSubmit
                      ELSE IF r.state = "COMPLETED" THEN withHonestConfidence(r)
                      ELSE withHonestConfidence([r EXCEPT !.state = "CANCELED"])
           Fair(a) == /\ a \in Answers /\ a \notin {NoAnswer, notSubmitted}
                      /\ (notes = "lost" /\ a.state = "CANCELED") \/ Earned(TRUE, deviceJobs', a)
<1>1. PICK stopped \in SUBSET OpenJobs :
        /\ notes # "known" => stopped = {}
        /\ deviceJobs' = Stopping(deviceJobs, stopped)
        /\ \/ answer' = IF recordRead THEN unknownStatus ELSE canceledBeforeSubmit
           \/ \E r \in HostReports : answer' = Told(r)
  BY DEF windowsCancel, Stopping
<1>2. (Untouched \/ OpenJobs = {} \/ notes # "known") => deviceJobs' = deviceJobs
  <2>1. (Untouched \/ OpenJobs = {} \/ notes # "known") => stopped = {} BY <1>1, UntouchedIsBlank
  <2> QED BY <1>1, <2>1, StoppingKeeps
<1>3. NoAnswer.state = "NONE" /\ notSubmitted.state = "NOT_SUBMITTED"
      /\ canceledBeforeSubmit = [notSubmitted EXCEPT !.state = "CANCELED"]
      /\ canceledBeforeSubmit.state = "CANCELED" /\ canceledBeforeSubmit.sheets = 0
      /\ canceledBeforeSubmit.confidence = "CONFIRMED" /\ canceledBeforeSubmit \in Answers
  BY DEF NoAnswer, notSubmitted, canceledBeforeSubmit, operationStatus, Answers, OperationStates
<1>4. Untouched => Fair(canceledBeforeSubmit)
  <2>1. Untouched => Earned(TRUE, deviceJobs, canceledBeforeSubmit) BY BlankAnswers
  <2> QED BY <1>2, <1>3, <2>1
<1>5. Fair(unknownStatus)
  BY <1>3 DEF unknownStatus, operationStatus, Answers, OperationStates, Unreported, Earned
<1>6. ~recordRead => Untouched BY NeverIsUntouched
<1>7. ASSUME NEW r \in HostReports PROVE Fair(Told(r))
  <2>1. CASE notes # "known"
    <3>1. r = notSubmitted BY <2>1, HostAnswers
    <3>2. withHonestConfidence(canceledBeforeSubmit) = canceledBeforeSubmit
      BY <1>3 DEF withHonestConfidence, Confirmable
    <3>3. Told(r) = canceledBeforeSubmit BY <3>1, <3>2, <1>3
    <3>4. CASE notes = "lost" BY <3>3, <3>4, <1>3
    <3>5. CASE notes # "lost"
      <4>1. notes = "none" BY <2>1, <3>5 DEF AdaptersInv, AdapterTypes
      <4>2. Untouched BY <4>1, NeverIsUntouched
      <4> HIDE DEF Fair, Told
      <4> QED BY <4>2, <3>3, <1>4
    <3> QED BY <3>4, <3>5
  <2>2. CASE notes = "known"
    <3>1. /\ r \in Answers /\ r.state \in OperationStates \ {"NOT_SUBMITTED"}
          /\ r.sheets >= 0 => r.sheets = Out(deviceJobs) /\ OpenJobs = {}
      BY <2>2, HostAnswers
    <3> DEFINE c == [r EXCEPT !.state = "CANCELED"]
    <3>2. PICK a \in {r, c} : Told(r) = withHonestConfidence(a) /\ a.state \notin {"NONE", "NOT_SUBMITTED"}
      <4>1. c.state = "CANCELED" BY <3>1 DEF Answers
      <4> QED BY <3>1, <4>1
    <3>3. a \in Answers /\ a.sheets = r.sheets
      <4>1. c \in Answers /\ c.sheets = r.sheets BY <3>1 DEF Answers, OperationStates
      <4> QED BY <3>1, <3>2, <4>1
    <3>4. a.sheets >= 0 => a.sheets = Out(deviceJobs') /\ \A p \in Positions : deviceJobs'[p].state # "open"
      BY <3>1, <3>3, <1>2, NoneOpen
    <3>5. \A jobs : (a.sheets >= 0 => a.sheets = Out(jobs) /\ \A p \in Positions : jobs[p].state # "open") =>
            /\ withHonestConfidence(a) \in Answers /\ withHonestConfidence(a).state = a.state
            /\ Earned(TRUE, jobs, withHonestConfidence(a))
      BY <3>3, HonestIsEarned
    <3>6. /\ withHonestConfidence(a) \in Answers /\ withHonestConfidence(a).state = a.state
          /\ Earned(TRUE, deviceJobs', withHonestConfidence(a))
      BY <3>4, <3>5
    <3>7. Fair(withHonestConfidence(a)) BY <3>2, <3>6, <1>3
    <3> HIDE DEF Fair, Told
    <3> QED BY <3>2, <3>7
  <2> QED BY <2>1, <2>2
<1> HIDE DEF Fair, Told
<1>8. Fair(answer') BY <1>1, <1>4, <1>5, <1>6, <1>7
<1> QED BY <1>1, <1>8 DEF Fair

LEMMA CancelOperationStep ==
  ASSUME AdaptersInv, cancelOperation PROVE AdaptersInv'
<1>1. calling = "idle" /\ ~tooLate /\ handed = 0 BY DEF cancelOperation, AdaptersInv, CallInv
<1>2. UNCHANGED <<driver, counting, scenario, calling, handed, journal, notes, marker, tooLate>>
  BY DEF cancelOperation
<1>3. marker \in {"none", "submitted", "completed"} BY DEF AdaptersInv, AdapterTypes
<1>4. ASSUME NEW stopped \in SUBSET OpenJobs, deviceJobs' = Stopping(deviceJobs, stopped),
             answer' \in Answers, answer' \notin {NoAnswer, notSubmitted},
             (driver = "WINDOWS" /\ notes = "lost" /\ answer'.state = "CANCELED")
               \/ Earned(driver = "WINDOWS", deviceJobs', answer')
      PROVE  AdaptersInv'
  BY <1>1, <1>2, <1>3, <1>4, StoppingKeeps, Answered
<1>5. CASE driver = "IPP" /\ ippCancel
  <2>1. PICK stopped \in SUBSET OpenJobs :
           /\ deviceJobs' = Stopping(deviceJobs, stopped)
           /\ answer' \in Answers /\ answer' \notin {NoAnswer, notSubmitted}
           /\ Earned(FALSE, deviceJobs', answer')
    BY <1>1, <1>5, IppCancelIsEarned
  <2>2. Earned(driver = "WINDOWS", deviceJobs', answer') BY <1>5, <2>1
  <2> QED BY <2>1, <2>2, <1>4
<1>6. CASE driver = "WINDOWS" /\ windowsCancel
  <2>1. PICK stopped \in SUBSET OpenJobs :
           /\ deviceJobs' = Stopping(deviceJobs, stopped)
           /\ answer' \in Answers /\ answer' \notin {NoAnswer, notSubmitted}
           /\ (notes = "lost" /\ answer'.state = "CANCELED") \/ Earned(TRUE, deviceJobs', answer')
    BY <1>1, <1>6, WindowsCancelIsEarned
  <2>2. (driver = "WINDOWS" /\ notes = "lost" /\ answer'.state = "CANCELED")
          \/ Earned(driver = "WINDOWS", deviceJobs', answer')
    BY <1>6, <2>1
  <2> QED BY <2>1, <2>2, <1>4
<1>7. CASE driver = "MOCK" /\ mockCancel
  <2>1. deviceJobs' = deviceJobs BY <1>7 DEF mockCancel
  <2>2. answer' \in {operationStatus("COMPLETED", "UNCONFIRMED", Unreported),
                     operationStatus("CANCELED", "UNCONFIRMED", Unreported)}
        \/ (marker = "none" /\ answer' = canceledBeforeSubmit)
    BY <1>3, <1>7 DEF mockCancel
  <2>3. answer' \in Answers /\ answer' \notin {NoAnswer, notSubmitted}
        /\ Earned(driver = "WINDOWS", deviceJobs, answer')
    <3>1. CASE answer' \in {operationStatus("COMPLETED", "UNCONFIRMED", Unreported),
                            operationStatus("CANCELED", "UNCONFIRMED", Unreported)}
      BY <3>1, PlainAnswers
    <3>2. CASE marker = "none" /\ answer' = canceledBeforeSubmit
      <4>1. Untouched BY <3>2, <1>1, <1>7, NeverIsUntouched
      <4>2. canceledBeforeSubmit \notin {NoAnswer, notSubmitted}
        BY DEF canceledBeforeSubmit, operationStatus, NoAnswer, notSubmitted
      <4> QED BY <3>2, <4>1, <4>2, BlankAnswers
    <3> QED BY <2>2, <3>1, <3>2
  <2>4. calling' = "idle" /\ handed' = 0 /\ marker' = marker BY <1>1, <1>2
  <2> QED BY <1>1, <1>2, <1>3, <2>1, <2>3, <2>4, AnsweredOnly
<1> QED BY <1>5, <1>6, <1>7 DEF cancelOperation

LEMMA AgentDiesStep ==
  ASSUME AdaptersInv, agentDies PROVE AdaptersInv'
<1>1. /\ calling # "idle" /\ calling' = "idle" /\ handed' = 0 /\ answer' = Forgotten /\ ~tooLate
      /\ UNCHANGED <<driver, counting, scenario, notes, marker, deviceJobs, tooLate>>
      /\ journal' \in {journal, "torn"} /\ (journal' = "none" => journal = "none")
  BY DEF agentDies, AdaptersInv, CallInv
<1>2. Forgotten \in Answers /\ Earned(driver = "WINDOWS", deviceJobs, Forgotten)
      /\ Forgotten \notin {NoAnswer, notSubmitted} BY PlainAnswers
<1>3. AdapterTypes' BY <1>1, <1>2, AdapterNumbers DEF AdaptersInv, AdapterTypes
<1>4. JobsInv' /\ CallInv' /\ AnswerInv' BY <1>1, <1>2 DEF AdaptersInv, JobsInv, CallInv, AnswerInv
<1>5. NoRecordInv' BY <1>1, <1>2 DEF AdaptersInv, NoRecordInv, Untouched
<1> QED BY <1>3, <1>4, <1>5 DEF AdaptersInv

LEMMA HostForgetsStep ==
  ASSUME AdaptersInv, hostForgets PROVE AdaptersInv'
<1>1. /\ notes = "known" /\ notes' = "lost"
      /\ UNCHANGED <<driver, counting, scenario, calling, handed, journal, marker, deviceJobs, answer, tooLate>>
  BY DEF hostForgets
<1>2. AdapterTypes' /\ JobsInv' BY <1>1 DEF AdaptersInv, AdapterTypes, JobsInv
<1>3. CallInv' BY <1>1 DEF AdaptersInv, CallInv, Untouched
<1>4. NoRecordInv' BY <1>1 DEF AdaptersInv, NoRecordInv, Untouched
<1>5. AnswerInv' BY <1>1 DEF AdaptersInv, AnswerInv
<1> QED BY <1>2, <1>3, <1>4, <1>5 DEF AdaptersInv

LEMMA DiscardBeforeStep ==
  ASSUME AdaptersInv, discardBefore PROVE AdaptersInv'
<1>1. /\ calling = "idle" /\ tooLate' = TRUE /\ answer' = Forgotten /\ journal' = "none"
      /\ notes' \in {"none", notes} /\ marker' = "none"
      /\ UNCHANGED <<driver, counting, scenario, calling, handed, deviceJobs>>
  BY DEF discardBefore
<1>2. Forgotten \in Answers /\ Earned(driver = "WINDOWS", deviceJobs, Forgotten) BY PlainAnswers
<1>3. AdapterTypes' /\ JobsInv' BY <1>1, <1>2 DEF AdaptersInv, AdapterTypes, JobsInv
<1>4. CallInv' BY <1>1 DEF AdaptersInv, CallInv
<1>5. NoRecordInv' /\ AnswerInv' BY <1>1, <1>2 DEF NoRecordInv, AnswerInv
<1> QED BY <1>3, <1>4, <1>5 DEF AdaptersInv

LEMMA DeviceActsStep ==
  ASSUME AdaptersInv, NEW p \in Positions, deviceActs(p) PROVE AdaptersInv'
<1>1. driver # "MOCK" /\ UNCHANGED <<driver, counting, scenario, calling, handed, journal, notes, marker, answer, tooLate>>
  BY DEF deviceActs
<1>2. deviceJobs \in [Positions -> Jobs] /\ JobSheets \in Nat BY AdapterNumbers DEF AdaptersInv, AdapterTypes
<1>3. \A j \in Jobs : j.state \in Listed \cup {"none", "purged"} /\ j.sheets \in 0 .. JobSheets BY DEF Jobs
<1>4. /\ deviceJobs[p].state # "none" /\ deviceJobs' \in [Positions -> Jobs]
      /\ \A q \in Positions : q # p => deviceJobs'[q] = deviceJobs[q]
      /\ deviceJobs'[p].state # "none"
      /\ deviceJobs'[p].state = "completed" => deviceJobs'[p].sheets = JobSheets
      /\ deviceJobs[p].state # "open" =>
           deviceJobs'[p].state # "open" /\ deviceJobs'[p].sheets = deviceJobs[p].sheets
  <2> DEFINE j == deviceJobs[p]
  <2>1. j \in Jobs BY <1>2
  <2>2. j.sheets < JobSheets => j.sheets + 1 \in 0 .. JobSheets BY <2>1, <1>2, <1>3
  <2>3. \A s \in {"completed", "aborted", "canceled", "purged"} :
          /\ [j EXCEPT !.state = s] \in Jobs /\ [j EXCEPT !.state = s].state = s
          /\ [j EXCEPT !.state = s].sheets = j.sheets
    BY <2>1 DEF Jobs, Listed, JobTerminal
  <2>4. CASE j.state = "open" /\ j.sheets < JobSheets /\ deviceJobs' = [deviceJobs EXCEPT ![p].sheets = @ + 1]
    <3>1. [j EXCEPT !.sheets = @ + 1] \in Jobs /\ [j EXCEPT !.sheets = @ + 1].state = "open"
      BY <2>1, <2>2, <2>4 DEF Jobs
    <3> QED BY <1>2, <2>4, <3>1
  <2>5. CASE j.state = "open" /\ j.sheets = JobSheets /\ deviceJobs' = [deviceJobs EXCEPT ![p].state = "completed"]
    BY <1>2, <2>3, <2>5
  <2>6. CASE j.state = "open" /\ \E end \in {"aborted", "canceled"} : deviceJobs' = [deviceJobs EXCEPT ![p].state = end]
    BY <1>2, <2>3, <2>6
  <2>7. CASE j.state \in JobTerminal /\ deviceJobs' = [deviceJobs EXCEPT ![p].state = "purged"]
    BY <1>2, <2>3, <2>7 DEF JobTerminal
  <2> QED BY <2>4, <2>5, <2>6, <2>7 DEF deviceActs
<1>5. ~Untouched BY <1>4 DEF Untouched, NoJob
<1>6. AdapterTypes' BY <1>1, <1>4 DEF AdaptersInv, AdapterTypes
<1>7. JobsInv'
  <2>1. ASSUME NEW q \in Positions
        PROVE  /\ deviceJobs'[q].state = "none" => deviceJobs'[q] = NoJob
               /\ deviceJobs'[q].state = "completed" => deviceJobs'[q].sheets = JobSheets
    <3>1. CASE q = p BY <3>1, <1>4
    <3>2. CASE q # p BY <3>2, <1>4 DEF AdaptersInv, JobsInv
    <3> QED BY <3>1, <3>2
  <2> QED BY <2>1 DEF JobsInv
<1>8. CallInv'
  <2>1. calling # "ready" /\ (calling = "sending" => p < handed)
    <3>1. calling = "sending" /\ p >= handed => deviceJobs[p] = NoJob BY DEF AdaptersInv, CallInv
    <3>2. p \in Nat /\ handed \in Nat BY AdapterNumbers DEF AdaptersInv, AdapterTypes
    <3> QED BY <3>1, <3>2, <1>4, <1>5 DEF AdaptersInv, CallInv, NoJob
  <2>2. calling = "sending" => \A q \in Positions : q >= handed => deviceJobs'[q] = NoJob
    <3>1. p \in Nat /\ handed \in Nat BY AdapterNumbers DEF AdaptersInv, AdapterTypes
    <3> QED BY <2>1, <3>1, <1>4 DEF AdaptersInv, CallInv
  <2> QED BY <1>1, <2>1, <2>2 DEF AdaptersInv, CallInv
<1>9. NoRecordInv' BY <1>1, <1>5 DEF AdaptersInv, NoRecordInv
<1>10. AnswerInv'
  <2>1. ASSUME answer.confidence = "CONFIRMED", Earned(driver = "WINDOWS", deviceJobs, answer)
        PROVE  Earned(driver = "WINDOWS", deviceJobs', answer)
    <3>1. \A q \in Positions : deviceJobs[q].state # "open" BY <2>1 DEF Earned
    <3>2. \A q \in Positions : deviceJobs'[q].state # "open" /\ deviceJobs'[q].sheets = deviceJobs[q].sheets
      BY <3>1, <1>4
    <3>3. \A jobs : (\A q \in Positions : jobs[q].sheets = deviceJobs[q].sheets) => Out(jobs) = Out(deviceJobs)
      BY OutDependsOnSheets
    <3>4. Out(deviceJobs') = Out(deviceJobs) BY <3>2, <3>3
    <3> QED BY <2>1, <3>2, <3>4 DEF Earned
  <2>2. answer.confidence # "CONFIRMED" => Earned(driver = "WINDOWS", deviceJobs', answer) BY DEF Earned
  <2> QED BY <2>1, <2>2, <1>1 DEF AdaptersInv, AnswerInv
<1> QED BY <1>6, <1>7, <1>8, <1>9, <1>10 DEF AdaptersInv

LEMMA AdaptersStep ==
  ASSUME AdaptersInv, [AdaptersNext]_adapterVars PROVE AdaptersInv'
<1>1. CASE UNCHANGED adapterVars
  <2>1. AdapterTypes' /\ JobsInv' BY <1>1 DEF adapterVars, AdaptersInv, AdapterTypes, JobsInv
  <2>2. CallInv' BY <1>1 DEF adapterVars, AdaptersInv, CallInv, Untouched
  <2>3. NoRecordInv' /\ AnswerInv' BY <1>1 DEF adapterVars, AdaptersInv, NoRecordInv, AnswerInv, Untouched
  <2> QED BY <2>1, <2>2, <2>3 DEF AdaptersInv
<1>2. CASE AdaptersNext
  BY <1>2, SubmitStep, OpenOperationStep, PrintJobStep, AwaitCompletionStep, HostSpoolsStep,
     ReadHostResultStep, RecordSubmissionStep, WriteArtifactsStep, GetOperationStatusStep,
     CancelOperationStep, AgentDiesStep, HostForgetsStep, DiscardBeforeStep, DeviceActsStep
     DEF AdaptersNext
<1> QED BY <1>1, <1>2

LEMMA AdaptersInvIsCertain == AdaptersInv => CertaintyIsPaper
<1> SUFFICES ASSUME AdaptersInv PROVE CertaintyIsPaper OBVIOUS
<1>1. AdaptersTypeOK BY DEF AdaptersInv, AdapterTypes, AdaptersTypeOK, Jobs, Answers
<1>2. Produced = Out(deviceJobs) BY DEF Produced, Out
<1>3. (\A p \in Positions : deviceJobs[p].state # "open") => OpenJobs = {} BY DEF OpenJobs
<1> QED BY <1>1, <1>2, <1>3 DEF AdaptersInv, AnswerInv, Earned, CertaintyIsPaper

\* A printer driver that is certain is right: what it confirms as printed came out, and
\* what it confirms as not printed did not and will not, whatever crashed or was lost.
THEOREM CertaintyIsOfPaper == AdaptersSpec => []CertaintyIsPaper
<1>1. AdaptersSpec => []AdaptersInv BY InitAdaptersInv, AdaptersStep, PTL DEF AdaptersSpec
<1> QED BY <1>1, AdaptersInvIsCertain, PTL

-----------------------------------------------------------------------------
(* The document bucket: any number of objects, pages of any length, any      *)
(* writes and failures meanwhile.                                            *)

Callers == {"cleaner", "sweeper"}
CallSteps ==
  {"idle", "batch", "versions", "purge", "deleted", "exhausted", "thrown", "uploads", "objects",
   "history", "unlink", "forget", "select"}
Copies == [key : Keys, id : Nat, marker : BOOLEAN, old : BOOLEAN]
Ranks == [position : Nat, id : Nat]
Calls ==
  [step : CallSteps, keys : Seq(Keys), found : SUBSET Copies, batch : SUBSET Keys, at : Ranks,
   next : Ranks, pass : Nat, since : Nat, target : SUBSET Keys]

\* Copies written before time t; copies of some keys written no earlier than since.
Dated(copies, t) == \A e \in copies : e \in Copies /\ e.id < t
Fresh(copies, keys, since) == \A e \in copies : e.key \in keys => e.id >= since

\* Of the key at hand, every copy there when the call began has been found, or
\* lies where the listing has not come yet.
HeadRead(c, held) ==
  \A e \in held : e.key = Head(c.keys) /\ e.id < c.since => e \in c.found \/ (c.step = "versions" /\ Beyond(e, c.at))

\* What a call knows of what the store holds.
RequestSound(a, c, held, parts, t) ==
  /\ c \in Calls /\ c.since <= t /\ Dated(c.found, t)
  /\ c.step = "batch" =>
       c.keys # <<>> /\ c.target = ToSet(c.keys) /\ c.found = {} /\ c.pass = 0 /\ c.at = Start
  /\ c.step \in {"versions", "purge"} =>
       /\ c.keys # <<>> /\ Fresh(held, c.target \ ToSet(c.keys), c.since)
       /\ c.pass > 0 => Fresh(held, {Head(c.keys)}, c.since) /\ \A e \in c.found : e.id >= c.since
       /\ HeadRead(c, held)
  /\ c.step = "deleted" =>
       Fresh(held, c.target, c.since) /\ (c.keys = <<>> => Fresh(parts, c.target, c.since))
  /\ c.step = "exhausted" /\ c.keys # <<>> => t > c.since
  /\ a = "cleaner" /\ c.step = "uploads" =>
       c.keys = <<>> /\ \A u \in parts : u.key \in c.target /\ u.id < c.since => Beyond(u, c.at)
  /\ a = "cleaner" /\ c.step \in {"objects", "history", "unlink", "forget"} =>
       c.keys = <<>> /\ Fresh(parts, c.target, c.since)

\* Where a sweep has an old orphan that is still there: ahead of the listing, in
\* what it took, in what it deletes, or ahead of where it will go on.
Left(c, e) == c.next # Start /\ Beyond(e, c.next)
SweepSound(c, orphans) ==
  \A e \in orphans :
    /\ c.step = "objects" => Beyond(e, c.at) \/ e.key \in c.batch
    /\ c.step = "select" => e.key \in c.batch \/ Left(c, e)
    /\ c.step \in {"batch", "versions", "purge"} => e.key \in c.target \/ Left(c, e)
    /\ c.step \in {"versions", "purge"} => e.id < c.since
    /\ c.step = "deleted" => Left(c, e)

OwedSound ==
  /\ missed = {} /\ cursor \in Ranks /\ Dated(owed, clock)
  /\ \A e \in owed : e.old /\ e.key \in Gone
  /\ \A e \in owed \cap bucket : Beyond(e, cursor)

Holdings ==
  /\ versioned \in BOOLEAN /\ clock \in Nat
  /\ Dated(bucket, clock) /\ IsFiniteSet(bucket) /\ Dated(uploads, clock) /\ IsFiniteSet(uploads)

RequestsSound ==
  /\ call \in [Callers -> Calls]
  /\ \A a \in Callers : RequestSound(a, call[a], bucket, uploads, clock)

StoreInv ==
  Holdings /\ RequestsSound /\ OwedSound /\ SweepSound(call["sweeper"], owed \cap bucket)

-----------------------------------------------------------------------------
(* What a listing returns *)

\* Every key has its own place in the order of listing.
LEMMA KeysOrdered ==
  /\ Len(KeyOrder) \in Nat /\ IsFiniteSet(Keys) /\ Start \in Ranks
  /\ \A k \in Keys : Position(k) \in 1 .. Len(KeyOrder) /\ KeyOrder[Position(k)] = k
  /\ \A k, j \in Keys : Position(k) = Position(j) => k = j
<1>1. KeyOrder \in Seq(Keys) BY ObjectStoreAssumption
<1>2. Len(KeyOrder) \in Nat /\ DOMAIN KeyOrder = 1 .. Len(KeyOrder) BY <1>1, LenProperties
<1>3. \A k \in Keys : \E i \in DOMAIN KeyOrder : KeyOrder[i] = k BY DEF Keys, ToSet
<1>4. \A k \in Keys : Position(k) \in DOMAIN KeyOrder /\ KeyOrder[Position(k)] = k
  BY <1>3 DEF Position
<1>5. Keys = {KeyOrder[i] : i \in 1 .. Len(KeyOrder)} BY <1>2 DEF Keys, ToSet
<1>6. IsFiniteSet(1 .. Len(KeyOrder)) BY <1>2, FS_Interval
<1>7. IsFiniteSet(Keys) BY <1>5, <1>6, ImageIsFinite
<1>8. Start \in Ranks BY DEF Start, Ranks
<1> QED BY <1>2, <1>4, <1>7, <1>8

LEMMA Placed ==
  ASSUME NEW e \in Copies
  PROVE  /\ e.key \in Keys /\ e.id \in Nat /\ Position(e.key) \in Nat /\ Position(e.key) > 0
         /\ Rank(e) \in Ranks /\ Rank(e).position = Position(e.key) /\ Rank(e).id = e.id
         /\ Beyond(e, Start)
<1>1. e.key \in Keys /\ e.id \in Nat BY DEF Copies
<1>2. Position(e.key) \in Nat /\ Position(e.key) > 0 BY <1>1, KeysOrdered
<1>3. Rank(e) \in Ranks /\ Rank(e).position = Position(e.key) /\ Rank(e).id = e.id
  BY <1>1, <1>2 DEF Rank, Ranks
<1>4. Beyond(e, Start) BY <1>2 DEF Beyond, Start
<1> QED BY <1>1, <1>2, <1>3, <1>4

\* The order of listing: total on ranks, and the newer copy of a key comes first.
LEMMA ListingOrder ==
  ASSUME NEW e \in Copies, NEW f \in Copies, NEW g \in Copies
  PROVE  /\ ~Beyond(e, Rank(e))
         /\ Beyond(e, Rank(f)) /\ Beyond(f, Rank(g)) => Beyond(e, Rank(g))
         /\ ~Beyond(e, Rank(f)) => Rank(e) = Rank(f) \/ Beyond(f, Rank(e))
         /\ Beyond(e, Rank(f)) => Rank(e) # Rank(f) /\ ~Beyond(f, Rank(e))
         /\ Rank(e) = Rank(f) => e.key = f.key /\ e.id = f.id
<1>1. /\ e.key \in Keys /\ e.id \in Nat /\ Position(e.key) \in Nat
      /\ Rank(e).position = Position(e.key) /\ Rank(e).id = e.id BY Placed
<1>2. /\ f.key \in Keys /\ f.id \in Nat /\ Position(f.key) \in Nat
      /\ Rank(f).position = Position(f.key) /\ Rank(f).id = f.id BY Placed
<1>3. /\ g.key \in Keys /\ g.id \in Nat /\ Position(g.key) \in Nat
      /\ Rank(g).position = Position(g.key) /\ Rank(g).id = g.id BY Placed
<1>4. ~Beyond(e, Rank(e)) BY <1>1 DEF Beyond
<1>5. Beyond(e, Rank(f)) /\ Beyond(f, Rank(g)) => Beyond(e, Rank(g)) BY <1>1, <1>2, <1>3 DEF Beyond
<1>6. Rank(e) = Rank(f) <=> Position(e.key) = Position(f.key) /\ e.id = f.id BY <1>1, <1>2 DEF Rank
<1>7. ~Beyond(e, Rank(f)) => Rank(e) = Rank(f) \/ Beyond(f, Rank(e)) BY <1>1, <1>2, <1>6 DEF Beyond
<1>8. Beyond(e, Rank(f)) => Rank(e) # Rank(f) /\ ~Beyond(f, Rank(e)) BY <1>1, <1>2, <1>6 DEF Beyond
<1>9. Position(e.key) = Position(f.key) => e.key = f.key BY <1>1, <1>2, KeysOrdered
<1> QED BY <1>4, <1>5, <1>6, <1>7, <1>8, <1>9

\* The entries listed before one.
Before(entries, e) == {f \in entries : Beyond(e, Rank(f))}

LEMMA BeforeGrows ==
  ASSUME NEW entries, IsFiniteSet(entries), entries \subseteq Copies, NEW e \in entries, NEW f \in entries
  PROVE  /\ Cardinality(Before(entries, e)) \in Nat
         /\ Cardinality(Before(entries, e)) <= Cardinality(entries)
         /\ Beyond(e, Rank(f)) => Cardinality(Before(entries, f)) < Cardinality(Before(entries, e))
         /\ Rank(e) = Rank(f) => Before(entries, e) = Before(entries, f)
<1> DEFINE B == Before(entries, e)
           C == Before(entries, f)
<1>1. B \in SUBSET entries /\ C \in SUBSET entries BY DEF Before
<1>2. e \in Copies /\ f \in Copies OBVIOUS
<1>3. ASSUME Beyond(e, Rank(f)) PROVE C \subseteq B /\ f \in B /\ f \notin C
  <2>1. \A g \in Copies : Beyond(f, Rank(g)) => Beyond(e, Rank(g)) BY <1>2, <1>3, ListingOrder
  <2>2. ~Beyond(f, Rank(f)) BY <1>2, ListingOrder
  <2> QED BY <1>3, <2>1, <2>2 DEF Before
<1>4. ASSUME Rank(e) = Rank(f) PROVE B = C
  <2>1. e.key = f.key /\ e.id = f.id BY <1>2, <1>4, ListingOrder
  <2> QED BY <2>1 DEF Before, Beyond
<1> HIDE DEF B, C
<1>5. IsFiniteSet(B) /\ IsFiniteSet(C) /\ Cardinality(B) <= Cardinality(entries) BY <1>1, FS_Subset
<1>6. Cardinality(B) \in Nat /\ Cardinality(C) \in Nat BY <1>5, FS_CardinalityType
<1>7. ASSUME Beyond(e, Rank(f)) PROVE Cardinality(C) < Cardinality(B)
  <2>1. C \in SUBSET B /\ C # B BY <1>3, <1>7
  <2>2. Cardinality(C) <= Cardinality(B) /\ Cardinality(B) # Cardinality(C) BY <2>1, <1>5, FS_Subset
  <2> QED BY <2>2, <1>6
<1> QED BY <1>4, <1>5, <1>6, <1>7 DEF B, C

\* A page is the beginning of its listing: not empty if anything is listed, and what
\* it leaves lies beyond its last entry.
LEMMA PageBegins ==
  ASSUME NEW entries, IsFiniteSet(entries), entries \subseteq Copies, NEW size \in Nat, size > 0
  PROVE  /\ Page(entries, size) \subseteq entries
         /\ entries # {} => Page(entries, size) # {}
         /\ Page(entries, size) # entries =>
              /\ LastRank(Page(entries, size)) \in Ranks
              /\ \E f \in Page(entries, size) : LastRank(Page(entries, size)) = Rank(f)
              /\ \A e \in entries : e \notin Page(entries, size) => Beyond(e, LastRank(Page(entries, size)))
<1> DEFINE N(e) == Cardinality(Before(entries, e))
           page == Page(entries, size)
<1>1. page \subseteq entries /\ \A e \in entries : e \in page <=> N(e) < size
  BY DEF Page, Before
<1>2. \A e \in entries : N(e) \in Nat /\ N(e) <= Cardinality(entries) BY BeforeGrows
<1>3. \A e, f \in entries : Beyond(e, Rank(f)) => N(f) < N(e) BY BeforeGrows
<1>4. \A e, f \in entries : Rank(e) = Rank(f) => N(e) = N(f) BY BeforeGrows
<1>5. Cardinality(entries) \in Nat BY FS_CardinalityType
<1>6. \A e \in entries : e \in Copies OBVIOUS
<1>7. ASSUME entries # {} PROVE page # {}
  <2> DEFINE S == {N(e) : e \in entries}
  <2>1. S \subseteq Nat /\ S # {} BY <1>2, <1>7
  <2> HIDE DEF N, page
  <2>2. PICK n \in S : \A m \in S : n <= m BY <2>1, LeastNatural
  <2>3. PICK e \in entries : n = N(e) BY <2>2
  <2>4. Before(entries, e) = {}
    <3>1. ASSUME NEW f \in Before(entries, e) PROVE FALSE
      <4>1. f \in entries /\ Beyond(e, Rank(f)) BY <3>1 DEF Before
      <4>2. N(f) < N(e) /\ N(f) \in Nat /\ N(e) \in Nat BY <4>1, <1>2, <1>3
      <4>3. N(e) <= N(f) BY <4>1, <2>2, <2>3
      <4> QED BY <4>2, <4>3
    <3> QED BY <3>1
  <2>5. N(e) = 0 BY <2>4, FS_EmptySet DEF N
  <2> QED BY <1>1, <2>5
<1>8. ASSUME page # entries
      PROVE  /\ LastRank(page) \in Ranks /\ \E f \in page : LastRank(page) = Rank(f)
             /\ \A e \in entries : e \notin page => Beyond(e, LastRank(page))
  <2> DEFINE S == {Cardinality(entries) - N(e) : e \in page}
  <2>1. S \subseteq Nat /\ S # {}
    <3>1. page # {} BY <1>1, <1>7, <1>8
    <3>2. \A e \in page : Cardinality(entries) - N(e) \in Nat
      <4> HIDE DEF N, page
      <4> QED BY <1>1, <1>2, <1>5
    <3> HIDE DEF N, page
    <3> QED BY <3>1, <3>2
  <2> HIDE DEF N, page
  <2>2. PICK n \in S : \A m \in S : n <= m BY <2>1, LeastNatural
  <2>3. PICK e \in page : n = Cardinality(entries) - N(e) BY <2>2
  <2>4. \A f \in page : ~Beyond(f, Rank(e))
    <3> TAKE f \in page
    <3>1. Cardinality(entries) - N(e) <= Cardinality(entries) - N(f) BY <2>2, <2>3
    <3>2. e \in entries /\ f \in entries BY <1>1
    <3>3. N(e) \in Nat /\ N(f) \in Nat BY <3>2, <1>2
    <3>4. N(f) <= N(e) BY <3>1, <3>3, <1>5
    <3> QED BY <3>2, <3>3, <3>4, <1>3
  <2>5. Rank(e) \in {Rank(f) : f \in page} /\ \A f \in page : ~Beyond(f, Rank(e)) BY <2>4
  <2>6. LastRank(page) \in {Rank(f) : f \in page} BY <2>5 DEF LastRank
  <2>7. PICK f \in page : LastRank(page) = Rank(f) BY <2>6
  <2>8. f \in entries /\ f \in Copies BY <1>1
  <2>9. Rank(f) \in Ranks BY <2>8, Placed
  <2>10. ASSUME NEW g \in entries, g \notin page PROVE Beyond(g, Rank(f))
    <3>1. g \in Copies BY <1>6
    <3>2. CASE ~Beyond(g, Rank(f))
      <4>1. Rank(g) = Rank(f) \/ Beyond(f, Rank(g)) BY <3>1, <3>2, <2>8, ListingOrder
      <4>2. N(g) <= N(f)
        <5>1. N(g) \in Nat /\ N(f) \in Nat BY <1>2, <2>8
        <5>2. Rank(g) = Rank(f) => N(g) = N(f) BY <1>4, <2>8
        <5>3. Beyond(f, Rank(g)) => N(g) < N(f) BY <1>3, <2>8
        <5> QED BY <4>1, <5>1, <5>2, <5>3
      <4>3. N(f) < size BY <1>1, <2>8
      <4>4. N(g) \in Nat /\ N(f) \in Nat BY <1>2, <2>8
      <4>5. N(g) < size BY <4>2, <4>3, <4>4
      <4> QED BY <4>5, <1>1, <2>10
    <3> QED BY <3>2
  <2> QED BY <2>7, <2>9, <2>10
<1> QED BY <1>1, <1>7, <1>8
-----------------------------------------------------------------------------
(* Whoever else writes or deletes *)

\* Nothing is in the later set that was not there or is newer than t.
Later(copies, next, t) == \A e \in next : e \in copies \/ e.id >= t

\* What a call knows outlives every request of another.
LEMMA CallKeeps ==
  ASSUME NEW a, NEW c, NEW held, NEW parts, NEW t \in Nat, NEW held2, NEW parts2, NEW u \in Nat, t <= u,
         RequestSound(a, c, held, parts, t), Later(held, held2, t), Later(parts, parts2, t),
         Dated(held2, u), Dated(parts2, u)
  PROVE  RequestSound(a, c, held2, parts2, u)
<1>1. c \in Calls /\ c.since \in Nat /\ c.since <= t BY DEF RequestSound, Calls
<1>2. \A e \in held2 : e.id \in Nat /\ (e \in held \/ e.id >= c.since)
  BY <1>1 DEF Later, Dated, Copies
<1>3. \A e \in parts2 : e.id \in Nat /\ (e \in parts \/ e.id >= c.since)
  BY <1>1 DEF Later, Dated, Copies
<1>4. \A keys : Fresh(held, keys, c.since) => Fresh(held2, keys, c.since) BY <1>2 DEF Fresh
<1>5. \A keys : Fresh(parts, keys, c.since) => Fresh(parts2, keys, c.since) BY <1>3 DEF Fresh
<1>6. HeadRead(c, held) => HeadRead(c, held2)
  <2>1. \A e \in held2 : e.id < c.since => e \in held BY <1>1, <1>2
  <2> QED BY <2>1 DEF HeadRead
<1>7. Dated(c.found, u) BY <1>1 DEF RequestSound, Dated, Copies
<1>8. c.step = "exhausted" /\ c.keys # <<>> => u > c.since BY <1>1 DEF RequestSound
<1>9. a = "cleaner" /\ c.step = "uploads" =>
        c.keys = <<>> /\ \A e \in parts2 : e.key \in c.target /\ e.id < c.since => Beyond(e, c.at)
  <2>1. \A e \in parts2 : e.id < c.since => e \in parts BY <1>1, <1>3
  <2> QED BY <2>1 DEF RequestSound
<1> QED BY <1>1, <1>4, <1>5, <1>6, <1>7, <1>8, <1>9 DEF RequestSound

\* An old orphan still there was there before.
LEMMA OwedKeeps ==
  ASSUME Holdings, OwedSound, Holdings', clock <= clock', Later(bucket, bucket', clock),
         UNCHANGED <<cursor, owed, missed>>
  PROVE  OwedSound' /\ owed' \cap bucket' \subseteq owed \cap bucket
<1>1. \A e \in owed : e \in Copies /\ e.id \in Nat /\ e.id < clock BY DEF OwedSound, Dated, Copies
<1>2. clock \in Nat /\ clock' \in Nat BY DEF Holdings
<1>3. owed' \cap bucket' \subseteq owed \cap bucket BY <1>1, <1>2 DEF Later
<1>4. Dated(owed, clock)' BY <1>1, <1>2 DEF Dated
<1>5. \A e \in owed' \cap bucket' : Beyond(e, cursor)' BY <1>3 DEF OwedSound, Beyond, Position
<1> QED BY <1>3, <1>4, <1>5 DEF OwedSound

LEMMA SweepOfFewer ==
  ASSUME NEW c, NEW S, NEW T, T \subseteq S, SweepSound(c, S) PROVE SweepSound(c, T)
BY DEF SweepSound

\* A step of one caller: what it must show for itself, and what follows for the rest.
LEMMA CallerSteps ==
  ASSUME StoreInv, NEW a \in Callers, NEW c, call' = [call EXCEPT ![a] = c],
         Holdings', clock <= clock', Later(bucket, bucket', clock), Later(uploads, uploads', clock),
         RequestSound(a, c, bucket', uploads', clock'), OwedSound',
         a = "sweeper" => SweepSound(c, owed' \cap bucket'),
         a = "cleaner" => UNCHANGED <<cursor, owed, missed>>
  PROVE  StoreInv'
<1>1. clock \in Nat /\ clock' \in Nat BY DEF StoreInv, Holdings
<1>2. c \in Calls BY DEF RequestSound
<1>3. call \in [Callers -> Calls] BY DEF StoreInv, RequestsSound
<1>4. call' \in [Callers -> Calls] /\ call'[a] = c /\ \A b \in Callers : b # a => call'[b] = call[b]
  BY <1>2, <1>3
<1>5. Dated(bucket', clock') /\ Dated(uploads', clock') BY DEF Holdings, Dated, Copies
<1>6. \A b \in Callers : RequestSound(b, call'[b], bucket', uploads', clock')
  <2> TAKE b \in Callers
  <2>1. CASE b = a BY <2>1, <1>4
  <2>2. CASE b # a
    <3>1. RequestSound(b, call[b], bucket, uploads, clock) BY DEF StoreInv, RequestsSound
    <3>2. RequestSound(b, call[b], bucket', uploads', clock') BY <1>1, <1>5, <3>1, CallKeeps
    <3> QED BY <2>2, <3>2, <1>4
  <2> QED BY <2>1, <2>2
<1>7. RequestsSound' BY <1>4, <1>6 DEF RequestsSound, RequestSound, HeadRead, Dated, Fresh, Beyond
<1>8. SweepSound(call'["sweeper"], owed' \cap bucket')
  <2>1. CASE a = "sweeper" BY <2>1, <1>4
  <2>2. CASE a = "cleaner"
    <3>1. owed' \cap bucket' \subseteq owed \cap bucket BY <2>2, OwedKeeps DEF StoreInv
    <3>2. call'["sweeper"] = call["sweeper"] BY <2>2, <1>4 DEF Callers
    <3>3. SweepSound(call["sweeper"], owed \cap bucket) BY DEF StoreInv
    <3> QED BY <3>1, <3>2, <3>3, SweepOfFewer
  <2> QED BY <2>1, <2>2 DEF Callers
<1> QED BY <1>7, <1>8 DEF StoreInv

\* A step of nobody's: an upload.
LEMMA UploadSteps ==
  ASSUME StoreInv, Holdings', clock <= clock', Later(bucket, bucket', clock),
         Later(uploads, uploads', clock), UNCHANGED <<call, cursor, owed, missed>>
  PROVE  StoreInv'
<1>1. clock \in Nat /\ clock' \in Nat BY DEF StoreInv, Holdings
<1>2. Dated(bucket', clock') /\ Dated(uploads', clock') BY DEF Holdings, Dated, Copies
<1>3. \A b \in Callers : RequestSound(b, call'[b], bucket', uploads', clock')
  <2> TAKE b \in Callers
  <2>1. RequestSound(b, call[b], bucket, uploads, clock) BY DEF StoreInv, RequestsSound
  <2>2. RequestSound(b, call[b], bucket', uploads', clock') BY <1>1, <1>2, <2>1, CallKeeps
  <2> QED BY <2>2
<1>4. RequestsSound' BY <1>3 DEF StoreInv, RequestsSound
<1>5. OwedSound' /\ owed' \cap bucket' \subseteq owed \cap bucket BY OwedKeeps DEF StoreInv
<1>6. SweepSound(call["sweeper"], owed' \cap bucket') BY <1>5, SweepOfFewer DEF StoreInv
<1> QED BY <1>4, <1>5, <1>6 DEF StoreInv

-----------------------------------------------------------------------------
(* Writes and deletions *)

LEMMA Ticks == ASSUME clock \in Nat PROVE Tick \in Nat /\ clock < Tick
BY KeysOrdered DEF Tick

\* A new copy is as new as can be.
LEMMA CopyIsNew ==
  ASSUME NEW k \in Keys, NEW id \in Nat, NEW m \in BOOLEAN
  PROVE  Copy(k, id, m) \in Copies /\ Copy(k, id, m).id = id
BY DEF Copy, Copies

LEMMA UnlinkedIsLater ==
  ASSUME Holdings, NEW keys, keys \subseteq Keys
  PROVE  Dated(Unlinked(keys), Tick) /\ IsFiniteSet(Unlinked(keys)) /\ Later(bucket, Unlinked(keys), clock)
<1>1. clock \in Nat /\ Tick \in Nat /\ clock < Tick BY Ticks DEF Holdings
<1>2. \A e \in bucket : e \in Copies /\ e.id \in Nat /\ e.id < Tick BY <1>1 DEF Holdings, Dated, Copies
<1>3. IsFiniteSet(keys) BY KeysOrdered, FS_Subset
<1> DEFINE F == [k \in keys |-> Copy(k, clock + Position(k), TRUE)]
           N == {F[k] : k \in keys}
<1>4. IsFiniteSet(N)
  <2> HIDE DEF F
  <2> QED BY <1>3, ImageIsFinite
<1>5. \A e \in N : e \in Copies /\ e.id >= clock /\ e.id < Tick
  <2>1. ASSUME NEW k \in keys
        PROVE  F[k] \in Copies /\ F[k].id >= clock /\ F[k].id < Tick
    <3>1. Position(k) \in Nat /\ Position(k) <= Len(KeyOrder) /\ Len(KeyOrder) \in Nat BY KeysOrdered
    <3>2. clock + Position(k) \in Nat BY <1>1, <3>1
    <3>3. F[k] \in Copies /\ F[k].id = clock + Position(k) BY <3>2, CopyIsNew
    <3>4. clock + Position(k) >= clock /\ clock + Position(k) < Tick BY <1>1, <3>1 DEF Tick
    <3> HIDE DEF F
    <3> QED BY <3>3, <3>4
  <2> HIDE DEF F
  <2> QED BY <2>1
<1>6. IsFiniteSet(bucket) BY DEF Holdings
<1>7. IsFiniteSet(bucket \cup N) BY <1>4, <1>6, FS_Union
<1>8. IsFiniteSet({e \in bucket : e.key \notin keys}) BY <1>6, FS_Subset
<1>9. Unlinked(keys) = IF versioned THEN bucket \cup N ELSE {e \in bucket : e.key \notin keys}
  BY DEF Unlinked
<1> HIDE DEF N
<1>10. IsFiniteSet(Unlinked(keys)) BY <1>7, <1>8, <1>9
<1>11. \A e \in Unlinked(keys) : e \in bucket \/ e \in N BY <1>9
<1> QED BY <1>2, <1>5, <1>10, <1>11 DEF Dated, Later

LEMMA StoredIsLater ==
  ASSUME Holdings, NEW k \in Keys
  PROVE  /\ Dated(Stored(k), Tick) /\ IsFiniteSet(Stored(k)) /\ Later(bucket, Stored(k), clock)
         /\ LET more == uploads \cup {Copy(k, clock, FALSE)}
            IN Dated(more, Tick) /\ IsFiniteSet(more) /\ Later(uploads, more, clock)
<1>1. clock \in Nat /\ Tick \in Nat /\ clock < Tick BY Ticks DEF Holdings
<1>2. \A e \in bucket \cup uploads : e \in Copies /\ e.id \in Nat /\ e.id < Tick
  BY <1>1 DEF Holdings, Dated, Copies
<1> DEFINE n == Copy(k, clock, FALSE)
<1>3. n \in Copies /\ n.id = clock BY <1>1, CopyIsNew
<1> HIDE DEF n
<1>4. IsFiniteSet(bucket) /\ IsFiniteSet(uploads) BY DEF Holdings
<1>5. IsFiniteSet({e \in bucket : e.key # k}) BY <1>4, FS_Subset
<1>6. IsFiniteSet(bucket \cup {n}) /\ IsFiniteSet({e \in bucket : e.key # k} \cup {n}) /\ IsFiniteSet(uploads \cup {n})
  BY <1>4, <1>5, FS_AddElement
<1>7. Stored(k) = IF versioned THEN bucket \cup {n} ELSE {e \in bucket : e.key # k} \cup {n}
  BY DEF Stored, n
<1>8. IsFiniteSet(Stored(k)) BY <1>6, <1>7
<1>9. \A e \in Stored(k) : e \in bucket \/ e = n BY <1>7
<1>10. Dated(Stored(k), Tick) /\ Later(bucket, Stored(k), clock) BY <1>1, <1>2, <1>3, <1>9 DEF Dated, Later
<1>11. Dated(uploads \cup {n}, Tick) /\ Later(uploads, uploads \cup {n}, clock)
  BY <1>1, <1>2, <1>3 DEF Dated, Later
<1> QED BY <1>6, <1>8, <1>10, <1>11 DEF n

\* Taking away is never news.
LEMMA FewerIsLater ==
  ASSUME NEW copies, NEW fewer, fewer \subseteq copies, NEW t \in Nat, Dated(copies, t), IsFiniteSet(copies)
  PROVE  Dated(fewer, t) /\ IsFiniteSet(fewer) /\ Later(copies, fewer, t)
<1>1. IsFiniteSet(fewer) BY FS_Subset
<1> QED BY <1>1 DEF Dated, Later
-----------------------------------------------------------------------------
(* What every call goes through *)

LEMMA CallTyped ==
  ASSUME StoreInv, NEW a \in Callers
  PROVE  /\ call[a] \in Calls /\ call[a].step \in CallSteps /\ call[a].keys \in Seq(Keys)
         /\ call[a].found \subseteq Copies /\ call[a].batch \subseteq Keys /\ call[a].at \in Ranks
         /\ call[a].next \in Ranks /\ call[a].pass \in Nat /\ call[a].since \in Nat
         /\ call[a].target \subseteq Keys /\ call[a].since <= clock
         /\ RequestSound(a, call[a], bucket, uploads, clock)
<1>1. RequestSound(a, call[a], bucket, uploads, clock) BY DEF StoreInv, RequestsSound
<1>2. call[a] \in Calls /\ call[a].since <= clock BY <1>1 DEF RequestSound
<1> QED BY <1>1, <1>2 DEF Calls

\* A step that only moves the call itself.
LEMMA QuietSteps ==
  ASSUME StoreInv, NEW a \in Callers, NEW c, call' = [call EXCEPT ![a] = c],
         UNCHANGED <<versioned, bucket, uploads, clock, cursor, owed, missed>>,
         RequestSound(a, c, bucket, uploads, clock),
         a = "sweeper" => SweepSound(c, owed \cap bucket)
  PROVE  StoreInv'
<1>1. Holdings' /\ clock <= clock' BY DEF StoreInv, Holdings, Dated
<1>2. Later(bucket, bucket', clock) /\ Later(uploads, uploads', clock) BY DEF Later
<1>3. OwedSound' BY DEF StoreInv, OwedSound, Dated, Beyond
<1>4. RequestSound(a, c, bucket', uploads', clock') OBVIOUS
<1>5. a = "sweeper" => SweepSound(c, owed' \cap bucket') OBVIOUS
<1> QED BY <1>1, <1>2, <1>3, <1>4, <1>5, CallerSteps

LEMMA IdleIsTyped ==
  /\ Idle \in Calls /\ Idle.since = 0 /\ Idle.step = "idle" /\ Idle.found = {} /\ Idle.keys = <<>>
  /\ Idle.at = Start /\ Idle.next = Start
BY KeysOrdered, EmptySeq DEF Idle, Calls, CallSteps

\* A call that has not begun, or has failed, promises nothing.
LEMMA RestingIsSound ==
  ASSUME NEW a, NEW c \in Calls, c.step \in {"idle", "thrown"} \/ (a = "sweeper" /\ c.step \in {"uploads", "objects", "select"}),
         Holdings, c.since <= clock, Dated(c.found, clock)
  PROVE  RequestSound(a, c, bucket, uploads, clock)
BY DEF RequestSound

\* A deletion starts from nothing found, and is done when nothing is named.
LEMMA DeletingIsSound ==
  ASSUME NEW a, NEW c \in Calls, NEW keys \in Seq(Keys), Holdings, c.since <= clock
  PROVE  /\ RequestSound(a, Deleting(c, keys), bucket, uploads, clock)
         /\ Deleting(c, keys).next = c.next /\ Deleting(c, keys).target = ToSet(keys)
         /\ Deleting(c, keys).step \in {"batch", "deleted"}
         /\ Deleting(c, keys).step = "deleted" => ToSet(keys) = {}
<1> DEFINE d == Deleting(c, keys)
<1>1. DOMAIN keys = 1 .. Len(keys) /\ \A i \in DOMAIN keys : keys[i] \in Keys BY LenProperties
<1>2. ToSet(keys) \subseteq Keys BY <1>1 DEF ToSet
<1>3. keys = <<>> => ToSet(keys) = {} BY DEF ToSet
<1>4. /\ d.step = (IF keys = <<>> THEN "deleted" ELSE "batch") /\ d.keys = keys /\ d.target = ToSet(keys)
      /\ d.pass = 0 /\ d.found = {} /\ d.at = Start /\ d.next = c.next /\ d.since = c.since
  BY DEF Deleting, Calls
<1>5. d \in Calls
  <2>1. Start \in Ranks /\ 0 \in Nat BY KeysOrdered
  <2>2. (IF keys = <<>> THEN "deleted" ELSE "batch") \in CallSteps BY DEF CallSteps
  <2> QED BY <1>2, <2>1, <2>2 DEF Deleting, Calls
<1> HIDE DEF d
<1>6. Dated(d.found, clock) BY <1>4 DEF Dated
<1>7. RequestSound(a, d, bucket, uploads, clock) BY <1>3, <1>4, <1>5, <1>6 DEF RequestSound, Fresh
<1> QED BY <1>3, <1>4, <1>7 DEF d

LEMMA DeleteSteps ==
  ASSUME StoreInv, NEW keys \in Seq(Keys), Begin("cleaner", Deleting(Idle, keys)), UNCHANGED owed
  PROVE  StoreInv'
<1>1. Holdings /\ clock \in Nat BY DEF StoreInv, Holdings
<1>2. RequestSound("cleaner", Deleting(Idle, keys), bucket, uploads, clock)
  <2>1. Idle \in Calls /\ Idle.since <= clock BY <1>1, IdleIsTyped
  <2> QED BY <1>1, <2>1, DeletingIsSound
<1>3. call' = [call EXCEPT !["cleaner"] = Deleting(Idle, keys)] BY DEF Begin, Go
<1>4. UNCHANGED <<versioned, bucket, uploads, clock, cursor, owed, missed>> BY DEF Begin
<1> HIDE DEF Callers
<1> QED BY <1>2, <1>3, <1>4, QuietSteps, "cleaner" \in Callers, "cleaner" # "sweeper" DEF Callers

LEMMA deleteObjectsStep == ASSUME StoreInv, deleteObjects PROVE StoreInv'
BY DeleteSteps, ObjectStoreAssumption DEF deleteObjects

LEMMA deleteObjectStep ==
  ASSUME StoreInv, NEW k \in Keys, deleteObject(k) \/ discardObject(k) PROVE StoreInv'
<1>1. <<k>> \in Seq(Keys) OBVIOUS
<1> QED BY <1>1, DeleteSteps DEF deleteObject, discardObject

LEMMA cleanupPrefixStep == ASSUME StoreInv, cleanupPrefix PROVE StoreInv'
<1> DEFINE c == [Idle EXCEPT !.step = "uploads", !.target = Under(SessionPrefix), !.since = clock]
<1>1. Holdings /\ clock \in Nat BY DEF StoreInv, Holdings
<1>2. Under(SessionPrefix) \subseteq Keys BY DEF Under
<1>3. c \in Calls BY <1>1, <1>2, IdleIsTyped DEF Calls, CallSteps
<1>4. /\ c.step = "uploads" /\ c.since = clock /\ c.keys = <<>> /\ c.at = Start /\ c.found = {}
  BY DEF Idle
<1>5. call' = [call EXCEPT !["cleaner"] = c] /\ UNCHANGED <<versioned, bucket, uploads, clock, cursor, owed, missed>>
  BY DEF cleanupPrefix, Begin, Go
<1> HIDE DEF c
<1>6. \A u \in uploads : Beyond(u, Start) BY <1>1, Placed DEF Holdings, Dated
<1>7. RequestSound("cleaner", c, bucket, uploads, clock) BY <1>1, <1>3, <1>4, <1>6 DEF RequestSound, Dated
<1> QED BY <1>5, <1>7, QuietSteps, "cleaner" \in Callers, "cleaner" # "sweeper" DEF Callers

LEMMA reconcileStorageStep == ASSUME StoreInv, reconcileStorage PROVE StoreInv'
<1> DEFINE c == [Idle EXCEPT !.step = "uploads", !.target = Keys]
<1>1. Holdings /\ clock \in Nat BY DEF StoreInv, Holdings
<1>2. c \in Calls BY IdleIsTyped DEF Calls, CallSteps
<1>3. c.step = "uploads" /\ c.since = 0 /\ c.found = {} BY DEF Idle
<1>4. /\ call' = [call EXCEPT !["sweeper"] = c]
      /\ UNCHANGED <<versioned, bucket, uploads, clock, cursor, missed>>
  BY DEF reconcileStorage, Begin, Go
<1>5. owed' = IF cursor = Start THEN {e \in Current : e.old /\ e.key \in Gone} ELSE owed
  BY DEF reconcileStorage
<1> HIDE DEF c
<1>6. RequestSound("sweeper", c, bucket, uploads, clock)
  BY <1>1, <1>2, <1>3, RestingIsSound DEF Dated
<1>7. SweepSound(c, owed' \cap bucket') BY <1>3 DEF SweepSound
<1>8. OwedSound'
  <2>1. CASE cursor = Start
    <3>1. \A e \in owed' : e \in bucket /\ e.old /\ e.key \in Gone BY <1>5, <2>1 DEF Current
    <3>2. \A e \in owed' : e \in Copies /\ e.id < clock BY <1>1, <3>1 DEF Holdings, Dated
    <3>3. \A e \in owed' : Beyond(e, Start) BY <3>2, Placed
    <3>4. \A e \in owed' \cap bucket' : Beyond(e, cursor)' BY <3>3, <2>1, <1>4 DEF Beyond
    <3> QED BY <1>4, <2>1, <3>1, <3>2, <3>4 DEF OwedSound, Dated, StoreInv
  <2>2. CASE cursor # Start
    <3>1. owed' = owed BY <2>2, <1>5
    <3> QED BY <3>1, <1>4 DEF StoreInv, OwedSound, Dated, Beyond
  <2> QED BY <2>1, <2>2
<1>9. Holdings' /\ clock <= clock' BY <1>1, <1>4 DEF Holdings, Dated
<1>10. Later(bucket, bucket', clock) /\ Later(uploads, uploads', clock) BY <1>4 DEF Later
<1>11. RequestSound("sweeper", c, bucket', uploads', clock') BY <1>4, <1>6
<1>12. "sweeper" \in Callers /\ "sweeper" # "cleaner" BY DEF Callers
<1>13. call' = [call EXCEPT !["sweeper"] = c] BY <1>4
<1> QED BY <1>7, <1>8, <1>9, <1>10, <1>11, <1>12, <1>13, CallerSteps
-----------------------------------------------------------------------------
(* Deleting named objects *)

LEMMA deleteBatchStep == ASSUME StoreInv, NEW a \in Callers, deleteBatch(a) PROVE StoreInv'
<1> DEFINE c == call[a]
           d == [c EXCEPT !.step = "versions", !.since = Tick]
           keys == ToSet(c.keys)
<1>1. Holdings /\ clock \in Nat /\ Tick \in Nat /\ clock < Tick BY Ticks DEF StoreInv, Holdings
<1>2. c \in Calls /\ RequestSound(a, c, bucket, uploads, clock) /\ c.target \subseteq Keys BY CallTyped
<1>3. c.step = "batch" /\ bucket' = Unlinked(keys) /\ clock' = Tick /\ call' = [call EXCEPT ![a] = d]
      /\ UNCHANGED <<versioned, uploads, cursor, owed, missed>>
  BY DEF deleteBatch, At, Go
<1>4. c.keys # <<>> /\ c.target = keys /\ c.found = {} /\ c.pass = 0 /\ c.at = Start
  BY <1>2, <1>3 DEF RequestSound
<1>5. /\ d \in Calls /\ d.step = "versions" /\ d.since = Tick /\ d.keys = c.keys /\ d.target = c.target
      /\ d.found = {} /\ d.pass = 0 /\ d.at = Start /\ d.next = c.next
  BY <1>1, <1>2, <1>4 DEF Calls, CallSteps
<1> HIDE DEF d
<1>6. Dated(bucket', clock') /\ IsFiniteSet(bucket') /\ Later(bucket, bucket', clock)
  BY <1>1, <1>2, <1>3, <1>4, UnlinkedIsLater
<1>7. Dated(uploads, Tick) BY <1>1 DEF Holdings, Dated, Copies
<1>8. Holdings' BY <1>1, <1>3, <1>6, <1>7 DEF Holdings
<1>9. clock <= clock' /\ Later(uploads, uploads', clock) BY <1>1, <1>3 DEF Later
<1>10. OwedSound' /\ owed' \cap bucket' \subseteq owed \cap bucket
  BY <1>3, <1>6, <1>8, <1>9, OwedKeeps DEF StoreInv
<1>11. RequestSound(a, d, bucket', uploads', clock')
  <2>1. Fresh(bucket', d.target \ ToSet(d.keys), d.since) BY <1>4, <1>5 DEF Fresh
  <2>2. \A e \in bucket' : Beyond(e, Start) BY <1>6, Placed DEF Dated
  <2>3. HeadRead(d, bucket') BY <1>5, <2>2 DEF HeadRead
  <2>4. d.since <= clock' /\ Dated(d.found, clock') BY <1>1, <1>3, <1>5 DEF Dated
  <2> QED BY <1>4, <1>5, <2>1, <2>3, <2>4 DEF RequestSound
<1>12. a = "sweeper" => SweepSound(d, owed' \cap bucket')
  <2>1. ASSUME a = "sweeper" PROVE SweepSound(d, owed' \cap bucket')
    <3>1. SweepSound(c, owed \cap bucket) BY <2>1 DEF StoreInv
    <3>2. \A e \in owed' \cap bucket' : e.key \in c.target \/ Left(c, e)
      BY <1>3, <1>10, <3>1 DEF SweepSound
    <3>3. \A e \in owed' \cap bucket' : e.id < Tick
      BY <1>1, <1>3 DEF StoreInv, OwedSound, Dated, Copies
    <3> QED BY <1>5, <3>2, <3>3 DEF SweepSound, Left
  <2> QED BY <2>1
<1>13. call' = [call EXCEPT ![a] = d] BY <1>3 DEF d
<1> QED BY <1>3, <1>6, <1>8, <1>9, <1>10, <1>11, <1>12, <1>13, CallerSteps

\* The head of what is left, and the rest.
LEMMA HeadLast ==
  ASSUME NEW keys \in Seq(Keys), keys # <<>>
  PROVE  /\ Head(keys) \in Keys /\ Tail(keys) \in Seq(Keys) /\ Len(keys) \in Nat /\ Len(keys) > 0
         /\ \A k \in ToSet(keys) : k = Head(keys) \/ k \in ToSet(Tail(keys))
         /\ Len(keys) > 1 => Tail(keys) # <<>>
         /\ Len(keys) = 1 => \A k \in ToSet(keys) : k = Head(keys)
<1>1. /\ Head(keys) \in Keys /\ Tail(keys) \in Seq(Keys) /\ Len(keys) \in Nat /\ Len(keys) > 0
      /\ Len(Tail(keys)) = Len(keys) - 1 /\ Head(keys) = keys[1]
      /\ DOMAIN keys = 1 .. Len(keys) /\ DOMAIN Tail(keys) = 1 .. Len(keys) - 1
      /\ \A i \in 1 .. Len(keys) - 1 : Tail(keys)[i] = keys[i + 1]
  BY HeadTailProperties, LenProperties
<1>2. \A i \in DOMAIN keys : keys[i] = Head(keys) \/ \E j \in DOMAIN Tail(keys) : Tail(keys)[j] = keys[i]
  <2> TAKE i \in DOMAIN keys
  <2>1. CASE i = 1 BY <2>1, <1>1
  <2>2. CASE i # 1
    <3>1. i - 1 \in DOMAIN Tail(keys) /\ Tail(keys)[i - 1] = keys[i] BY <2>2, <1>1
    <3> QED BY <3>1
  <2> QED BY <2>1, <2>2
<1>3. Len(keys) > 1 => Tail(keys) # <<>>
  <2>1. Len(Tail(keys)) = Len(keys) - 1 BY <1>1
  <2>2. Len(<<>>) = 0 BY EmptySeq, Zenon
  <2>3. ASSUME Len(keys) > 1, Tail(keys) = <<>> PROVE FALSE
    <3> DEFINE n == Len(Tail(keys))
    <3>1. n = 0 BY <2>2, <2>3, Zenon
    <3>2. n = Len(keys) - 1 BY <2>1
    <3> HIDE DEF n
    <3> QED BY <1>1, <2>3, <3>1, <3>2
  <2> QED BY <2>3
<1>4. Len(keys) = 1 => DOMAIN Tail(keys) = {} BY <1>1
<1> QED BY <1>1, <1>2, <1>3, <1>4 DEF ToSet

\* What one page of a key's history tells: found, or still ahead.
LEMMA HistoryPage ==
  ASSUME Holdings, NEW k \in Keys, NEW at \in Ranks
  PROVE  LET rest == Behind({e \in bucket : e.key \in Under(k)}, at)
             page == Page(rest, PageSize)
         IN /\ page \subseteq bucket
            /\ page # rest => LastRank(page) \in Ranks
            /\ \A e \in bucket : e.key = k /\ Beyond(e, at) /\ e \notin page => page # rest /\ Beyond(e, LastRank(page))
<1> DEFINE rest == Behind({e \in bucket : e.key \in Under(k)}, at)
           page == Page(rest, PageSize)
<1>1. rest \subseteq bucket BY DEF Behind
<1>2. IsFiniteSet(bucket) /\ bucket \subseteq Copies BY DEF Holdings, Dated
<1>3. IsFiniteSet(rest) /\ rest \subseteq Copies
  <2> HIDE DEF rest
  <2> QED BY <1>1, <1>2, FS_Subset
<1>4. PageSize \in Nat /\ PageSize > 0 BY ObjectStoreAssumption
<1>5. k \in Under(k)
  <2>1. k \in Seq(ToSet(k)) BY ObjectStoreAssumption
  <2>2. Len(k) \in Nat BY <2>1, LenProperties
  <2> QED BY <2>2 DEF Under, IsPrefix
<1>6. \A e \in bucket : e.key = k /\ Beyond(e, at) => e \in rest BY <1>5 DEF Behind
<1> HIDE DEF rest
<1>7. /\ page \subseteq rest
      /\ page # rest => LastRank(page) \in Ranks
      /\ page # rest => \A e \in rest : e \notin page => Beyond(e, LastRank(page))
  BY <1>3, <1>4, PageBegins
<1> HIDE DEF page
<1> QED BY <1>1, <1>6, <1>7 DEF rest, page

LEMMA listExactObjectVersionsStep ==
  ASSUME StoreInv, NEW a \in Callers, listExactObjectVersions(a) PROVE StoreInv'
<1> DEFINE c == call[a]
           k == Head(c.keys)
           rest == Behind({e \in bucket : e.key \in Under(k)}, c.at)
           page == Page(rest, PageSize)
           found == c.found \cup collectExactVersionIds(page, k)
<1>1. Holdings /\ clock \in Nat BY DEF StoreInv, Holdings
<1>2. /\ c \in Calls /\ RequestSound(a, c, bucket, uploads, clock) /\ c.keys \in Seq(Keys) /\ c.at \in Ranks
      /\ c.found \subseteq Copies /\ c.pass \in Nat /\ c.since \in Nat /\ c.since <= clock
  BY CallTyped
<1>3. c.step = "versions" BY DEF listExactObjectVersions, At
<1>4. /\ \/ page # rest /\ call' = [call EXCEPT ![a] = [c EXCEPT !.found = found, !.at = LastRank(page)]]
         \/ page = rest /\ found = {} /\ Len(c.keys) > 1
              /\ call' = [call EXCEPT ![a] = [c EXCEPT !.keys = Tail(c.keys), !.at = Start, !.pass = 0]]
         \/ page = rest /\ found = {} /\ Len(c.keys) = 1
              /\ call' = [call EXCEPT ![a] = [c EXCEPT !.step = "deleted"]]
         \/ page = rest /\ found # {} /\ c.pass = MaxVersionPasses
              /\ call' = [call EXCEPT ![a] = [c EXCEPT !.step = "exhausted"]]
         \/ page = rest /\ found # {} /\ c.pass < MaxVersionPasses
              /\ call' = [call EXCEPT ![a] = [c EXCEPT !.step = "purge", !.found = found]]
      /\ UNCHANGED <<versioned, bucket, uploads, clock, cursor, owed, missed>>
  BY DEF listExactObjectVersions, Go
<1>5. /\ c.keys # <<>> /\ Fresh(bucket, c.target \ ToSet(c.keys), c.since) /\ Dated(c.found, clock)
      /\ c.pass > 0 => Fresh(bucket, {k}, c.since) /\ \A e \in c.found : e.id >= c.since
      /\ \A e \in bucket : e.key = k /\ e.id < c.since => e \in c.found \/ Beyond(e, c.at)
  BY <1>2, <1>3 DEF RequestSound, HeadRead
<1>6. /\ k \in Keys /\ Tail(c.keys) \in Seq(Keys) /\ Len(c.keys) \in Nat
      /\ \A j \in ToSet(c.keys) : j = k \/ j \in ToSet(Tail(c.keys))
      /\ Len(c.keys) > 1 => Tail(c.keys) # <<>>
      /\ Len(c.keys) = 1 => \A j \in ToSet(c.keys) : j = k
  BY <1>2, <1>5, HeadLast
<1>7. /\ page \subseteq bucket
      /\ page # rest => LastRank(page) \in Ranks
      /\ \A e \in bucket : e.key = k /\ Beyond(e, c.at) /\ e \notin page => page # rest /\ Beyond(e, LastRank(page))
  BY <1>1, <1>2, <1>6, HistoryPage
<1> HIDE DEF page, rest
<1>8. \A e \in found : e \in c.found \/ (e \in page /\ e.key = k) BY DEF collectExactVersionIds
<1>9. \A e : e \in page /\ e.key = k => e \in found BY DEF collectExactVersionIds
<1>10. c.found \subseteq found OBVIOUS
<1> HIDE DEF found, k
<1>11. Dated(found, clock) /\ found \subseteq Copies BY <1>1, <1>5, <1>7, <1>8 DEF Holdings, Dated
<1>12. \A e \in bucket : e.key = k /\ e.id < c.since => e \in found \/ (page # rest /\ Beyond(e, LastRank(page)))
  BY <1>5, <1>7, <1>9, <1>10
<1>13. c.pass > 0 => \A e \in found : e.id >= c.since BY <1>5, <1>7, <1>8 DEF Fresh
<1>14. page = rest /\ found = {} => Fresh(bucket, {k}, c.since)
  BY <1>1, <1>2, <1>12 DEF Fresh, Holdings, Dated, Copies
<1>15. ASSUME NEW d, call' = [call EXCEPT ![a] = d], RequestSound(a, d, bucket, uploads, clock),
              a = "sweeper" => SweepSound(d, owed \cap bucket)
       PROVE  StoreInv'
  BY <1>4, <1>15, QuietSteps
<1>16. a = "sweeper" => SweepSound(c, owed \cap bucket) BY DEF StoreInv
<1> HIDE DEF c
<1>17. CASE page # rest /\ call' = [call EXCEPT ![a] = [c EXCEPT !.found = found, !.at = LastRank(page)]]
  <2> DEFINE d == [c EXCEPT !.found = found, !.at = LastRank(page)]
  <2>1. /\ d \in Calls /\ d.step = "versions" /\ d.keys = c.keys /\ d.target = c.target /\ d.pass = c.pass
        /\ d.since = c.since /\ d.found = found /\ d.at = LastRank(page) /\ d.next = c.next
    BY <1>2, <1>3, <1>7, <1>11, <1>17 DEF Calls
  <2>2. call' = [call EXCEPT ![a] = d] BY <1>17
  <2> HIDE DEF d
  <2>3. HeadRead(d, bucket) BY <1>12, <2>1 DEF HeadRead, k
  <2>4. RequestSound(a, d, bucket, uploads, clock)
    BY <1>2, <1>5, <1>11, <1>13, <2>1, <2>3 DEF RequestSound, k
  <2>5. a = "sweeper" => SweepSound(d, owed \cap bucket) BY <1>3, <1>16, <2>1 DEF SweepSound, Left
  <2> QED BY <1>15, <2>2, <2>4, <2>5
<1>18. CASE page = rest /\ found = {} /\ Len(c.keys) > 1
            /\ call' = [call EXCEPT ![a] = [c EXCEPT !.keys = Tail(c.keys), !.at = Start, !.pass = 0]]
  <2> DEFINE d == [c EXCEPT !.keys = Tail(c.keys), !.at = Start, !.pass = 0]
  <2>1. /\ d \in Calls /\ d.step = "versions" /\ d.keys = Tail(c.keys) /\ d.target = c.target /\ d.pass = 0
        /\ d.since = c.since /\ d.found = c.found /\ d.at = Start /\ d.next = c.next
    BY <1>2, <1>3, <1>6, KeysOrdered DEF Calls
  <2>2. call' = [call EXCEPT ![a] = d] BY <1>18
  <2> HIDE DEF d
  <2>3. \A e \in bucket : Beyond(e, Start) BY <1>1, Placed DEF Holdings, Dated
  <2>4. HeadRead(d, bucket) BY <2>1, <2>3 DEF HeadRead
  <2>5. Fresh(bucket, c.target \ ToSet(Tail(c.keys)), c.since)
    BY <1>5, <1>6, <1>14, <1>18 DEF Fresh
  <2>6. RequestSound(a, d, bucket, uploads, clock)
    BY <1>2, <1>5, <1>6, <1>18, <2>1, <2>4, <2>5 DEF RequestSound
  <2>7. a = "sweeper" => SweepSound(d, owed \cap bucket) BY <1>3, <1>16, <2>1 DEF SweepSound, Left
  <2> QED BY <1>15, <2>2, <2>6, <2>7
<1>19. CASE page = rest /\ found = {} /\ Len(c.keys) = 1
            /\ call' = [call EXCEPT ![a] = [c EXCEPT !.step = "deleted"]]
  <2> DEFINE d == [c EXCEPT !.step = "deleted"]
  <2>1. /\ d \in Calls /\ d.step = "deleted" /\ d.keys = c.keys /\ d.target = c.target
        /\ d.since = c.since /\ d.found = c.found /\ d.next = c.next
    BY <1>2 DEF Calls, CallSteps
  <2>2. call' = [call EXCEPT ![a] = d] BY <1>19
  <2> HIDE DEF d
  <2>3. Fresh(bucket, c.target, c.since) BY <1>5, <1>6, <1>14, <1>19 DEF Fresh
  <2>4. RequestSound(a, d, bucket, uploads, clock) BY <1>2, <1>5, <2>1, <2>3 DEF RequestSound
  <2>5. a = "sweeper" => SweepSound(d, owed \cap bucket)
    <3>1. ASSUME a = "sweeper", NEW e \in owed \cap bucket PROVE Left(c, e)
      <4>1. (e.key \in c.target \/ Left(c, e)) /\ e.id < c.since
        BY <1>3, <1>16, <3>1 DEF SweepSound
      <4>2. e.id \in Nat BY <1>1 DEF Holdings, Dated, Copies
      <4> QED BY <1>2, <2>3, <4>1, <4>2 DEF Fresh
    <3> QED BY <2>1, <3>1 DEF SweepSound, Left
  <2> QED BY <1>15, <2>2, <2>4, <2>5
<1>20. CASE page = rest /\ found # {} /\ c.pass = MaxVersionPasses
            /\ call' = [call EXCEPT ![a] = [c EXCEPT !.step = "exhausted"]]
  <2> DEFINE d == [c EXCEPT !.step = "exhausted"]
  <2>1. /\ d \in Calls /\ d.step = "exhausted" /\ d.keys = c.keys /\ d.since = c.since /\ d.found = c.found
    BY <1>2 DEF Calls, CallSteps
  <2>2. call' = [call EXCEPT ![a] = d] BY <1>20
  <2> HIDE DEF d
  <2>3. c.pass > 0 BY <1>20, ObjectStoreAssumption
  <2>4. PICK e \in found : TRUE BY <1>20
  <2>5. e.id \in Nat /\ e.id >= c.since /\ e.id < clock BY <1>11, <1>13, <2>3, <2>4 DEF Dated, Copies
  <2>6. clock > c.since BY <1>1, <1>2, <2>5
  <2>7. RequestSound(a, d, bucket, uploads, clock) BY <1>2, <1>5, <2>1, <2>6 DEF RequestSound
  <2>8. SweepSound(d, owed \cap bucket) BY <2>1 DEF SweepSound
  <2> QED BY <1>15, <2>2, <2>7, <2>8
<1>21. CASE page = rest /\ found # {} /\ c.pass < MaxVersionPasses
            /\ call' = [call EXCEPT ![a] = [c EXCEPT !.step = "purge", !.found = found]]
  <2> DEFINE d == [c EXCEPT !.step = "purge", !.found = found]
  <2>1. /\ d \in Calls /\ d.step = "purge" /\ d.keys = c.keys /\ d.target = c.target /\ d.pass = c.pass
        /\ d.since = c.since /\ d.found = found /\ d.next = c.next
    BY <1>2, <1>11 DEF Calls, CallSteps
  <2>2. call' = [call EXCEPT ![a] = d] BY <1>21
  <2> HIDE DEF d
  <2>3. HeadRead(d, bucket) BY <1>12, <1>21, <2>1 DEF HeadRead, k
  <2>4. RequestSound(a, d, bucket, uploads, clock)
    BY <1>2, <1>5, <1>11, <1>13, <2>1, <2>3 DEF RequestSound, k
  <2>5. a = "sweeper" => SweepSound(d, owed \cap bucket) BY <1>3, <1>16, <2>1 DEF SweepSound, Left
  <2> QED BY <1>15, <2>2, <2>4, <2>5
<1>22. /\ \/ page # rest /\ call' = [call EXCEPT ![a] = [c EXCEPT !.found = found, !.at = LastRank(page)]]
          \/ page = rest /\ found = {} /\ Len(c.keys) > 1
              /\ call' = [call EXCEPT ![a] = [c EXCEPT !.keys = Tail(c.keys), !.at = Start, !.pass = 0]]
          \/ page = rest /\ found = {} /\ Len(c.keys) = 1
              /\ call' = [call EXCEPT ![a] = [c EXCEPT !.step = "deleted"]]
          \/ page = rest /\ found # {} /\ c.pass = MaxVersionPasses
              /\ call' = [call EXCEPT ![a] = [c EXCEPT !.step = "exhausted"]]
          \/ page = rest /\ found # {} /\ c.pass < MaxVersionPasses
              /\ call' = [call EXCEPT ![a] = [c EXCEPT !.step = "purge", !.found = found]]
  BY <1>4, Zenon DEF found, k
<1> QED BY <1>17, <1>18, <1>19, <1>20, <1>21, <1>22, Zenon
LEMMA PurgedIsLater ==
  ASSUME Holdings, NEW found
  PROVE  Dated(Purged(found), clock) /\ IsFiniteSet(Purged(found)) /\ Later(bucket, Purged(found), clock)
<1>1. Purged(found) \subseteq bucket BY DEF Purged
<1>2. clock \in Nat /\ Dated(bucket, clock) /\ IsFiniteSet(bucket) BY DEF Holdings
<1> QED BY <1>1, <1>2, FewerIsLater

LEMMA purgeVersionsStep == ASSUME StoreInv, NEW a \in Callers, purgeVersions(a) PROVE StoreInv'
<1> DEFINE c == call[a]
           d == [c EXCEPT !.step = "versions", !.found = {}, !.at = Start, !.pass = @ + 1]
<1>1. Holdings /\ clock \in Nat BY DEF StoreInv, Holdings
<1>2. /\ c \in Calls /\ RequestSound(a, c, bucket, uploads, clock) /\ c.pass \in Nat /\ c.since \in Nat
      /\ c.since <= clock
  BY CallTyped
<1>3. c.step = "purge" /\ bucket' = Purged(c.found) /\ call' = [call EXCEPT ![a] = d]
      /\ UNCHANGED <<versioned, uploads, clock, cursor, owed, missed>>
  BY DEF purgeVersions, At, Go
<1>4. /\ c.keys # <<>> /\ Fresh(bucket, c.target \ ToSet(c.keys), c.since)
      /\ \A e \in bucket : e.key = Head(c.keys) /\ e.id < c.since => e \in c.found
  BY <1>2, <1>3 DEF RequestSound, HeadRead
<1>5. /\ d \in Calls /\ d.step = "versions" /\ d.since = c.since /\ d.keys = c.keys /\ d.target = c.target
      /\ d.found = {} /\ d.at = Start /\ d.next = c.next
  <2>1. c.pass + 1 \in Nat /\ Start \in Ranks BY <1>2, KeysOrdered
  <2> DEFINE n == c.pass + 1
  <2>2. d = [c EXCEPT !.step = "versions", !.found = {}, !.at = Start, !.pass = n] OBVIOUS
  <2> HIDE DEF d, n
  <2>3. c \in Calls /\ n \in Nat /\ Start \in Ranks BY <1>2, <2>1 DEF n
  <2> HIDE DEF c
  <2> QED BY <2>2, <2>3 DEF Calls, CallSteps
<1>6. call' = [call EXCEPT ![a] = d] BY <1>3
<1> HIDE DEF d, c
<1>7. bucket' \subseteq bucket /\ \A e \in bucket' : e \notin c.found BY <1>3 DEF Purged
<1>8. Dated(bucket', clock) /\ IsFiniteSet(bucket') /\ Later(bucket, bucket', clock)
  BY <1>1, <1>3, PurgedIsLater
<1>9. Holdings' /\ clock <= clock' /\ Later(uploads, uploads', clock)
  BY <1>1, <1>3, <1>8 DEF Holdings, Dated, Later
<1>10. OwedSound' /\ owed' \cap bucket' \subseteq owed \cap bucket
  BY <1>3, <1>8, <1>9, OwedKeeps DEF StoreInv
<1>11. RequestSound(a, d, bucket', uploads', clock')
  <2>1. \A e \in bucket' : e.id \in Nat BY <1>1, <1>7 DEF Holdings, Dated, Copies
  <2>2. Fresh(bucket', {Head(c.keys)}, c.since) BY <1>2, <1>4, <1>7, <2>1 DEF Fresh
  <2>3. Fresh(bucket', d.target \ ToSet(d.keys), d.since) BY <1>4, <1>5, <1>7 DEF Fresh
  <2>4. HeadRead(d, bucket') BY <1>2, <1>5, <2>1, <2>2 DEF HeadRead, Fresh
  <2>5. Dated(d.found, clock') BY <1>5 DEF Dated
  <2> QED BY <1>2, <1>3, <1>4, <1>5, <2>2, <2>3, <2>4, <2>5 DEF RequestSound
<1>12. a = "sweeper" => SweepSound(d, owed' \cap bucket')
  <2>1. ASSUME a = "sweeper" PROVE SweepSound(d, owed' \cap bucket')
    <3>1. SweepSound(c, owed' \cap bucket') BY <2>1, <1>10, SweepOfFewer DEF StoreInv, c
    <3> QED BY <1>3, <1>5, <3>1 DEF SweepSound, Left
  <2> QED BY <2>1
<1> QED BY <1>3, <1>6, <1>8, <1>9, <1>10, <1>11, <1>12, CallerSteps

-----------------------------------------------------------------------------
(* Purging a prefix *)

LEMMA abortMultipartUploadsStep ==
  ASSUME StoreInv, NEW a \in Callers, abortMultipartUploads(a) PROVE StoreInv'
<1> DEFINE c == call[a]
           rest == Behind(uploads, c.at)
           page == Page(rest, PageSize)
           mine == {u \in page : u.key \in c.target /\ (a = "sweeper" => u.old)}
           there == IF a = "sweeper" THEN cursor ELSE Start
           d == IF page = rest THEN [c EXCEPT !.step = "objects", !.pass = 0, !.at = there]
                ELSE [c EXCEPT !.at = LastRank(page)]
<1>1. Holdings /\ clock \in Nat /\ cursor \in Ranks BY DEF StoreInv, Holdings, OwedSound
<1>2. /\ c \in Calls /\ RequestSound(a, c, bucket, uploads, clock) /\ c.at \in Ranks /\ c.since \in Nat
      /\ c.since <= clock
  BY CallTyped
<1>3. /\ c.step = "uploads" /\ uploads' = uploads \ mine
      /\ \/ page # rest /\ call' = [call EXCEPT ![a] = [c EXCEPT !.at = LastRank(page)]]
         \/ page = rest /\ call' = [call EXCEPT ![a] = [c EXCEPT !.step = "objects", !.pass = 0, !.at = there]]
      /\ UNCHANGED <<versioned, bucket, clock, cursor, owed, missed>>
  BY DEF abortMultipartUploads, At, Go
<1>4. call' = [call EXCEPT ![a] = d] BY <1>3
<1>5. rest \subseteq uploads /\ \A u \in uploads : Beyond(u, c.at) => u \in rest BY DEF Behind
<1>6. IsFiniteSet(rest) /\ rest \subseteq Copies
  <2>1. IsFiniteSet(uploads) /\ uploads \subseteq Copies BY <1>1 DEF Holdings, Dated
  <2> HIDE DEF rest
  <2> QED BY <1>5, <2>1, FS_Subset
<1>7. PageSize \in Nat /\ PageSize > 0 BY ObjectStoreAssumption
<1> HIDE DEF rest
<1>8. /\ page # rest => LastRank(page) \in Ranks
      /\ page # rest => \A e \in rest : e \notin page => Beyond(e, LastRank(page))
  BY <1>6, <1>7, PageBegins
<1> HIDE DEF page
<1>9. /\ d \in Calls /\ d.keys = c.keys /\ d.target = c.target /\ d.since = c.since /\ d.found = c.found
      /\ d.batch = c.batch /\ d.next = c.next
      /\ page = rest => d.step = "objects" /\ d.at = there
      /\ page # rest => d.step = "uploads" /\ d.at = LastRank(page)
  <2>1. there \in Ranks BY <1>1, KeysOrdered
  <2> HIDE DEF there
  <2>2. CASE page = rest BY <1>2, <1>3, <2>1, <2>2 DEF Calls, CallSteps
  <2>3. CASE page # rest BY <1>2, <1>3, <1>8, <2>3 DEF Calls, CallSteps
  <2> QED BY <2>2, <2>3
<1>10. a = "cleaner" => \A u \in uploads' : u \in uploads /\ (u.key \in c.target => u \notin page)
  <2>1. a = "cleaner" => a # "sweeper" OBVIOUS
  <2> QED BY <1>3, <2>1
<1>11. uploads' \subseteq uploads BY <1>3
<1> HIDE DEF d, c, mine
<1>12. Dated(uploads', clock) /\ IsFiniteSet(uploads') /\ Later(uploads, uploads', clock)
  BY <1>1, <1>11, FewerIsLater DEF Holdings
<1>13. Holdings' /\ clock <= clock' /\ Later(bucket, bucket', clock)
  BY <1>1, <1>3, <1>12 DEF Holdings, Dated, Later
<1>14. OwedSound' /\ owed' \cap bucket' \subseteq owed \cap bucket
  BY <1>3, <1>13, OwedKeeps DEF StoreInv
<1>15. RequestSound(a, d, bucket', uploads', clock')
  <2>1. Dated(d.found, clock') /\ d.since <= clock' BY <1>2, <1>3, <1>9 DEF RequestSound
  <2>2. CASE a = "cleaner"
    <3>1. c.keys = <<>> /\ \A u \in uploads : u.key \in c.target /\ u.id < c.since => Beyond(u, c.at)
      BY <1>2, <1>3, <2>2 DEF RequestSound
    <3>2. \A u \in uploads' : u.key \in c.target /\ u.id < c.since => u \in rest /\ u \notin page
      BY <1>5, <1>10, <2>2, <3>1 DEF c
    <3>3. page # rest => \A u \in uploads' : u.key \in c.target /\ u.id < c.since => Beyond(u, d.at)
      BY <1>8, <1>9, <3>2
    <3>4. page = rest => Fresh(uploads', c.target, c.since)
      <4>1. \A u \in uploads' : u.id \in Nat BY <1>1, <1>11 DEF Holdings, Dated, Copies
      <4> QED BY <1>2, <3>2, <4>1 DEF Fresh
    <3> QED BY <1>9, <2>1, <3>1, <3>3, <3>4 DEF RequestSound
  <2>3. CASE a = "sweeper" BY <1>9, <2>1, <2>3 DEF RequestSound
  <2> QED BY <2>2, <2>3 DEF Callers
<1>16. a = "sweeper" => SweepSound(d, owed' \cap bucket')
  <2>1. ASSUME a = "sweeper" PROVE SweepSound(d, owed' \cap bucket')
    <3>1. \A e \in owed' \cap bucket' : Beyond(e, cursor) BY <1>14 DEF StoreInv, OwedSound
    <3> QED BY <1>9, <2>1, <3>1 DEF SweepSound
  <2> QED BY <2>1
<1> QED BY <1>3, <1>4, <1>12, <1>13, <1>14, <1>15, <1>16, CallerSteps

LEMMA CleanerIsCaller == "cleaner" \in Callers /\ "sweeper" \in Callers /\ "cleaner" # "sweeper"
BY DEF Callers

\* What is listed of the current objects, and of the copies under a target.
LEMMA ListedOfBucket ==
  ASSUME Holdings, NEW S, S \subseteq bucket, NEW size \in Nat, size > 0
  PROVE  /\ Page(S, size) \subseteq S /\ Page(S, size) \subseteq Copies
         /\ Page(S, size) = {} => S = {}
<1>1. IsFiniteSet(S) /\ S \subseteq Copies BY FS_Subset DEF Holdings, Dated
<1> QED BY <1>1, PageBegins

LEMMA listPrefixPageStep == ASSUME StoreInv, listPrefixPage PROVE StoreInv'
<1> DEFINE c == call["cleaner"]
           S == {f \in Current : f.key \in c.target}
           batch == {e.key : e \in Page(S, PageSize)}
<1>1. Holdings BY DEF StoreInv
<1>2. c \in Calls /\ RequestSound("cleaner", c, bucket, uploads, clock) BY CallTyped, CleanerIsCaller
<1>3. /\ c.step = "objects"
      /\ \/ call' = [call EXCEPT !["cleaner"] = [c EXCEPT !.step = "exhausted"]]
         \/ call' = [call EXCEPT !["cleaner"] = [c EXCEPT !.step = "history", !.batch = batch]]
      /\ UNCHANGED <<versioned, bucket, uploads, clock, cursor, owed, missed>>
  BY DEF listPrefixPage, At, Go
<1>4. c.keys = <<>> /\ Fresh(uploads, c.target, c.since) /\ c.since <= clock /\ Dated(c.found, clock)
  BY <1>2, <1>3 DEF RequestSound
<1>5. batch \subseteq Keys
  <2>1. S \subseteq bucket BY DEF Current
  <2> HIDE DEF S
  <2>2. PageSize \in Nat /\ PageSize > 0 BY ObjectStoreAssumption
  <2>3. Page(S, PageSize) \subseteq Copies BY <1>1, <2>1, <2>2, ListedOfBucket
  <2> QED BY <2>3 DEF Copies
<1>6. PICK d : /\ call' = [call EXCEPT !["cleaner"] = d] /\ d \in Calls /\ d.keys = c.keys /\ d.target = c.target
               /\ d.since = c.since /\ d.found = c.found /\ d.step \in {"exhausted", "history"}
  <2> HIDE DEF batch
  <2>1. CASE call' = [call EXCEPT !["cleaner"] = [c EXCEPT !.step = "exhausted"]]
    <3> DEFINE d == [c EXCEPT !.step = "exhausted"]
    <3>1. /\ d \in Calls /\ d.keys = c.keys /\ d.target = c.target /\ d.since = c.since
          /\ d.found = c.found /\ d.step \in {"exhausted", "history"}
      BY <1>2 DEF Calls, CallSteps
    <3>2. call' = [call EXCEPT !["cleaner"] = d] BY <2>1
    <3> HIDE DEF d, c
    <3> QED BY <3>1, <3>2
  <2>2. CASE call' = [call EXCEPT !["cleaner"] = [c EXCEPT !.step = "history", !.batch = batch]]
    <3> DEFINE d == [c EXCEPT !.step = "history", !.batch = batch]
    <3>1. /\ d \in Calls /\ d.keys = c.keys /\ d.target = c.target /\ d.since = c.since
          /\ d.found = c.found /\ d.step \in {"exhausted", "history"}
      BY <1>2, <1>5 DEF Calls, CallSteps
    <3>2. call' = [call EXCEPT !["cleaner"] = d] BY <2>2
    <3> HIDE DEF d, c
    <3> QED BY <3>1, <3>2
  <2> QED BY <1>3, <2>1, <2>2
<1> HIDE DEF c
<1>7. RequestSound("cleaner", d, bucket, uploads, clock) BY <1>4, <1>6 DEF RequestSound
<1> QED BY <1>3, <1>6, <1>7, QuietSteps, CleanerIsCaller

LEMMA listPrefixVersionPageStep == ASSUME StoreInv, listPrefixVersionPage PROVE StoreInv'
<1> DEFINE c == call["cleaner"]
           S == {e \in bucket : e.key \in c.target}
           versions == Page(S, PageSize)
           step == IF PurgeEnds(c.batch, versions) THEN "deleted" ELSE "unlink"
           d == [c EXCEPT !.step = step, !.found = versions]
<1>1. Holdings BY DEF StoreInv
<1>2. c \in Calls /\ RequestSound("cleaner", c, bucket, uploads, clock) BY CallTyped, CleanerIsCaller
<1>3. /\ c.step = "history" /\ call' = [call EXCEPT !["cleaner"] = d]
      /\ UNCHANGED <<versioned, bucket, uploads, clock, cursor, owed, missed>>
  BY DEF listPrefixVersionPage, At, Go
<1>4. c.keys = <<>> /\ Fresh(uploads, c.target, c.since) /\ c.since <= clock
  BY <1>2, <1>3 DEF RequestSound
<1>5. S \subseteq bucket OBVIOUS
<1>6. S = {} => Fresh(bucket, c.target, c.since) BY DEF Fresh
<1> HIDE DEF S
<1>7. versions \subseteq S /\ versions \subseteq Copies /\ (versions = {} => S = {})
  <2>1. PageSize \in Nat /\ PageSize > 0 BY ObjectStoreAssumption
  <2> QED BY <1>1, <1>5, <2>1, ListedOfBucket
<1> HIDE DEF versions
<1>8. step = "deleted" => versions = {} BY DEF PurgeEnds
<1>9. step \in {"deleted", "unlink"} OBVIOUS
<1> HIDE DEF step
<1>10. /\ d \in Calls /\ d.keys = c.keys /\ d.target = c.target /\ d.since = c.since /\ d.found = versions
       /\ d.step = step
  BY <1>2, <1>7, <1>9 DEF Calls, CallSteps
<1>11. Dated(versions, clock) BY <1>1, <1>5, <1>7 DEF Holdings, Dated
<1>12. call' = [call EXCEPT !["cleaner"] = d] BY <1>3
<1> HIDE DEF d, c
<1>13. RequestSound("cleaner", d, bucket, uploads, clock)
  BY <1>4, <1>6, <1>7, <1>8, <1>9, <1>10, <1>11 DEF RequestSound
<1> QED BY <1>3, <1>12, <1>13, QuietSteps, CleanerIsCaller

LEMMA purgePrefixStep == ASSUME StoreInv, purgePrefix PROVE StoreInv'
<1> DEFINE c == call["cleaner"]
<1>1. Holdings /\ clock \in Nat /\ Tick \in Nat /\ clock < Tick BY Ticks DEF StoreInv, Holdings
<1>2. /\ c \in Calls /\ RequestSound("cleaner", c, bucket, uploads, clock) /\ c.batch \subseteq Keys
      /\ c.pass \in Nat /\ c.since \in Nat /\ c.since <= clock /\ c.found \subseteq Copies
  BY CallTyped, CleanerIsCaller
<1>3. /\ \/ /\ c.step = "unlink" /\ bucket' = Unlinked(c.batch) /\ clock' = Tick
             /\ call' = [call EXCEPT !["cleaner"] = [c EXCEPT !.step = "forget"]]
         \/ /\ c.step = "forget" /\ bucket' = Purged(c.found) /\ clock' = clock
             /\ call' = [call EXCEPT !["cleaner"] = [c EXCEPT !.step = "objects", !.pass = @ + 1]]
      /\ UNCHANGED <<versioned, uploads, cursor, owed, missed>>
  BY DEF purgePrefix, At, Go
<1>4. PICK d : /\ call' = [call EXCEPT !["cleaner"] = d] /\ d \in Calls /\ d.keys = c.keys /\ d.target = c.target
               /\ d.since = c.since /\ d.found = c.found /\ d.step \in {"forget", "objects"}
  <2>1. CASE call' = [call EXCEPT !["cleaner"] = [c EXCEPT !.step = "forget"]]
    <3> DEFINE d == [c EXCEPT !.step = "forget"]
    <3>1. /\ d \in Calls /\ d.keys = c.keys /\ d.target = c.target /\ d.since = c.since
          /\ d.found = c.found /\ d.step \in {"forget", "objects"}
      BY <1>2 DEF Calls, CallSteps
    <3>2. call' = [call EXCEPT !["cleaner"] = d] BY <2>1
    <3> HIDE DEF d, c
    <3> QED BY <3>1, <3>2
  <2>2. CASE call' = [call EXCEPT !["cleaner"] = [c EXCEPT !.step = "objects", !.pass = @ + 1]]
    <3> DEFINE d == [c EXCEPT !.step = "objects", !.pass = @ + 1]
    <3>1. /\ d \in Calls /\ d.keys = c.keys /\ d.target = c.target /\ d.since = c.since
          /\ d.found = c.found /\ d.step \in {"forget", "objects"}
      <4> DEFINE n == c.pass + 1
      <4>1. c \in Calls /\ n \in Nat BY <1>2
      <4>2. d = [c EXCEPT !.step = "objects", !.pass = n] OBVIOUS
      <4> HIDE DEF d, n, c
      <4> QED BY <4>1, <4>2 DEF Calls, CallSteps
    <3>2. call' = [call EXCEPT !["cleaner"] = d] BY <2>2
    <3> HIDE DEF d, c
    <3> QED BY <3>1, <3>2
  <2> QED BY <1>3, <2>1, <2>2
<1>5. c.keys = <<>> /\ Fresh(uploads, c.target, c.since) /\ Dated(c.found, clock)
  BY <1>2, <1>3 DEF RequestSound
<1> HIDE DEF c
<1>6. /\ Dated(bucket', clock') /\ IsFiniteSet(bucket') /\ Later(bucket, bucket', clock)
      /\ clock' \in Nat /\ clock <= clock'
  <2>1. CASE bucket' = Unlinked(c.batch) /\ clock' = Tick BY <1>1, <1>2, <2>1, UnlinkedIsLater
  <2>2. CASE bucket' = Purged(c.found) /\ clock' = clock BY <1>1, <2>2, PurgedIsLater
  <2> QED BY <1>3, <2>1, <2>2
<1>7. Dated(uploads, clock') /\ Dated(c.found, clock') BY <1>1, <1>5, <1>6 DEF Holdings, Dated, Copies
<1>8. Holdings' /\ Later(uploads, uploads', clock) BY <1>1, <1>3, <1>6, <1>7 DEF Holdings, Later
<1>9. OwedSound' BY <1>3, <1>6, <1>8, OwedKeeps DEF StoreInv
<1>10. d.since <= clock' BY <1>1, <1>2, <1>4, <1>6
<1>11. RequestSound("cleaner", d, bucket', uploads', clock')
  BY <1>3, <1>4, <1>5, <1>7, <1>10 DEF RequestSound
<1> QED BY <1>3, <1>4, <1>6, <1>8, <1>9, <1>11, CallerSteps, CleanerIsCaller
-----------------------------------------------------------------------------
(* The reconciler's sweep *)

\* What a page of current objects leaves lies beyond its last key, and not only beyond
\* its last entry: a key has one current object.
LEMMA CurrentPage ==
  ASSUME Holdings, NEW rest, rest \subseteq Current, NEW size \in Nat, size > 0,
         Page(rest, size) # rest
  PROVE  /\ LastKey(Page(rest, size)) \in Ranks /\ LastKey(Page(rest, size)) # Start
         /\ \A e \in rest : e \notin Page(rest, size) => Beyond(e, LastKey(Page(rest, size)))
<1> DEFINE page == Page(rest, size)
           r == LastRank(page)
           k == LastKey(page)
<1>1. Current \subseteq bucket /\ \A e, f \in Current : e.key = f.key => f.id <= e.id /\ e.id <= f.id
  BY DEF Current
<1>2. bucket \subseteq Copies /\ IsFiniteSet(bucket) BY DEF Holdings, Dated
<1>3. IsFiniteSet(rest) /\ rest \subseteq Copies BY <1>1, <1>2, FS_Subset
<1>4. /\ page \subseteq rest /\ r \in Ranks
      /\ \E f \in page : r = Rank(f)
      /\ \A e \in rest : e \notin page => Beyond(e, r)
  BY <1>3, PageBegins
<1>5. k = [r EXCEPT !.id = 0] BY DEF LastKey
<1> HIDE DEF r, k, page
<1>6. PICK f \in page : r = Rank(f) BY <1>4
<1>7. f \in Current /\ f \in Copies BY <1>1, <1>2, <1>4
<1>8. f.id \in Nat /\ r.position = Position(f.key) /\ r.id = f.id /\ Position(f.key) \in Nat /\ Position(f.key) > 0
      /\ f.key \in Keys
  BY <1>6, <1>7, Placed
<1>9. k \in Ranks /\ k.position = Position(f.key) /\ k.id = 0 BY <1>4, <1>5, <1>8 DEF Ranks
<1>10. k # Start BY <1>8, <1>9 DEF Start
<1>11. ASSUME NEW e \in rest, e \notin page PROVE Beyond(e, k)
  <2>1. Beyond(e, r) /\ e \in Current /\ e \in Copies BY <1>1, <1>2, <1>4, <1>11
  <2>2. e.id \in Nat /\ Position(e.key) \in Nat /\ e.key \in Keys BY <2>1, Placed
  <2>3. Position(e.key) > Position(f.key) \/ (Position(e.key) = Position(f.key) /\ e.id < f.id)
    BY <1>8, <2>1 DEF Beyond
  <2>4. ASSUME Position(e.key) = Position(f.key) PROVE ~(e.id < f.id)
    <3>1. e.key = f.key BY <1>8, <2>2, <2>4, KeysOrdered
    <3>2. f.id <= e.id BY <1>1, <1>7, <2>1, <3>1
    <3> QED BY <1>8, <2>2, <3>2
  <2> QED BY <1>9, <2>3, <2>4 DEF Beyond
<1> QED BY <1>9, <1>10, <1>11 DEF k, page

LEMMA listObjectsOlderThanStep == ASSUME StoreInv, listObjectsOlderThan PROVE StoreInv'
<1> DEFINE c == call["sweeper"]
           rest == Behind(Current, c.at)
           size == Larger(1, SweepLimit - Cardinality(c.batch))
           page == Page(rest, size)
           stale == c.batch \cup {e.key : e \in {f \in page : f.old}}
           here == IF page = rest THEN Start ELSE LastKey(page)
           ends == page = rest \/ Cardinality(stale) >= SweepLimit \/ c.pass + 1 = MaxListPages
           step == IF ends THEN "select" ELSE "objects"
           d == [c EXCEPT !.step = step, !.batch = stale, !.pass = @ + 1, !.at = here, !.next = here]
<1>1. Holdings /\ clock \in Nat BY DEF StoreInv, Holdings
<1>2. /\ c \in Calls /\ RequestSound("sweeper", c, bucket, uploads, clock) /\ c.batch \subseteq Keys
      /\ c.pass \in Nat /\ c.since <= clock /\ c.at \in Ranks
  BY CallTyped, CleanerIsCaller
<1>3. /\ c.step = "objects" /\ call' = [call EXCEPT !["sweeper"] = d] /\ owed' = owed \cap Current
      /\ UNCHANGED <<versioned, bucket, uploads, clock, cursor, missed>>
  BY DEF listObjectsOlderThan, At, Go
<1>4. SweepSound(c, owed \cap bucket) BY DEF StoreInv
<1>5. size \in Nat /\ size > 0
  <2>1. IsFiniteSet(c.batch) BY <1>2, KeysOrdered, FS_Subset
  <2>2. Cardinality(c.batch) \in Nat BY <2>1, FS_CardinalityType
  <2>3. SweepLimit \in Nat BY ObjectStoreAssumption
  <2> DEFINE n == Cardinality(c.batch)
  <2>4. n \in Nat BY <2>2
  <2> HIDE DEF n
  <2>5. Larger(1, SweepLimit - n) \in Nat /\ Larger(1, SweepLimit - n) > 0 BY <2>3, <2>4 DEF Larger
  <2> QED BY <2>5 DEF n
<1>6. call' = [call EXCEPT !["sweeper"] = d] BY <1>3
<1>7. rest \subseteq Current /\ \A e \in Current : Beyond(e, c.at) => e \in rest BY DEF Behind
<1> HIDE DEF size
<1>8. Current \subseteq bucket BY DEF Current
<1> HIDE DEF rest
<1>9. /\ page \subseteq rest /\ page \subseteq Copies
  BY <1>1, <1>5, <1>7, <1>8, ListedOfBucket
<1>10. page # rest => LastKey(page) \in Ranks /\ LastKey(page) # Start
                      /\ \A e \in rest : e \notin page => Beyond(e, LastKey(page))
  BY <1>1, <1>5, <1>7, CurrentPage
<1> HIDE DEF page
<1>11. stale \subseteq Keys BY <1>2, <1>9 DEF Copies
<1>12. c.batch \subseteq stale /\ \A e \in page : e.old => e.key \in stale OBVIOUS
<1>13. here \in Ranks BY <1>10, KeysOrdered
<1>14. step = "objects" => page # rest OBVIOUS
<1>15. step \in {"select", "objects"} OBVIOUS
<1> HIDE DEF step, stale
<1>16. page = rest => here = Start OBVIOUS
<1>17. page # rest => here = LastKey(page) OBVIOUS
<1> HIDE DEF here
<1>18. /\ d \in Calls /\ d.step = step /\ d.batch = stale /\ d.at = here /\ d.next = here
       /\ d.since = c.since /\ d.found = c.found
  <2> DEFINE n == c.pass + 1
  <2>1. c \in Calls /\ n \in Nat BY <1>2
  <2>2. d = [c EXCEPT !.step = step, !.batch = stale, !.pass = n, !.at = here, !.next = here] OBVIOUS
  <2> HIDE DEF d, n, c
  <2> QED BY <2>1, <2>2, <1>11, <1>13, <1>15 DEF Calls, CallSteps
<1> HIDE DEF d, c
<1>19. Dated(c.found, clock) BY <1>2 DEF RequestSound
<1>20. RequestSound("sweeper", d, bucket, uploads, clock)
  BY <1>1, <1>2, <1>15, <1>18, <1>19, RestingIsSound
<1>21. \A e \in owed \cap Current : e.key \in stale \/ (page # rest /\ Beyond(e, LastKey(page)))
  <2> TAKE e \in owed \cap Current
  <2>1. e.old BY DEF StoreInv, OwedSound
  <2>2. Beyond(e, c.at) \/ e.key \in c.batch BY <1>3, <1>4, <1>8 DEF SweepSound
  <2>3. CASE e.key \in c.batch BY <1>12, <2>3
  <2>4. CASE Beyond(e, c.at)
    <3>1. e \in rest BY <1>7, <2>4
    <3>2. e \in page => e.key \in stale BY <1>12, <2>1
    <3>3. e \notin page => page # rest /\ Beyond(e, LastKey(page)) BY <1>10, <3>1
    <3> QED BY <3>2, <3>3
  <2> QED BY <2>2, <2>3, <2>4
<1>22. SweepSound(d, owed' \cap bucket')
  <2>1. \A e \in owed' \cap bucket' : e \in owed \cap Current BY <1>3
  <2>2. \A e \in owed' \cap bucket' : d.step = "objects" => Beyond(e, d.at) \/ e.key \in d.batch
    BY <1>14, <1>17, <1>18, <1>21, <2>1
  <2>3. \A e \in owed' \cap bucket' : d.step = "select" => e.key \in d.batch \/ Left(d, e)
    BY <1>10, <1>17, <1>18, <1>21, <2>1 DEF Left
  <2> QED BY <1>15, <1>18, <2>2, <2>3 DEF SweepSound
<1>23. OwedSound'
  <2>1. \A e \in owed' : e \in owed BY <1>3
  <2>2. \A e \in owed' \cap bucket' : e \in owed \cap bucket BY <1>3
  <2> QED BY <1>3, <2>1, <2>2 DEF StoreInv, OwedSound, Dated, Beyond
<1>24. Holdings' /\ clock <= clock' BY <1>1, <1>3 DEF Holdings, Dated
<1>25. Later(bucket, bucket', clock) /\ Later(uploads, uploads', clock) BY <1>3 DEF Later
<1>26. RequestSound("sweeper", d, bucket', uploads', clock') BY <1>3, <1>20
<1> QED BY <1>6, <1>22, <1>23, <1>24, <1>25, <1>26, CallerSteps, CleanerIsCaller

LEMMA OrderedLists ==
  ASSUME NEW S, S \subseteq Keys PROVE Ordered(S) \in Seq(Keys) /\ ToSet(Ordered(S)) = S
<1>1. IsFiniteSet(S) BY KeysOrdered, FS_Subset
<1>2. Cardinality(S) \in Nat BY <1>1, FS_CardinalityType
<1>3. PICK s \in [1 .. Cardinality(S) -> S] : \A x \in S : \E i \in DOMAIN s : s[i] = x
  BY <1>1, FiniteSetIsListed
<1>4. ToSet(s) = S BY <1>3 DEF ToSet
<1>5. Ordered(S) \in [1 .. Cardinality(S) -> S] /\ ToSet(Ordered(S)) = S BY <1>3, <1>4 DEF Ordered
<1> DEFINE n == Cardinality(S)
<1>6. n \in Nat /\ Ordered(S) \in [1 .. n -> S] BY <1>2, <1>5
<1> HIDE DEF n
<1>7. Ordered(S) \in [1 .. n -> Keys] BY <1>6
<1>8. Ordered(S) \in Seq(Keys) BY <1>6, <1>7, SeqDef
<1> QED BY <1>5, <1>8

LEMMA selectOrphansStep == ASSUME StoreInv, selectOrphans PROVE StoreInv'
<1> DEFINE c == call["sweeper"]
           orphans == c.batch \cap Gone
           d == Deleting(c, Ordered(orphans))
<1>1. Holdings BY DEF StoreInv
<1>2. c \in Calls /\ c.batch \subseteq Keys /\ c.since <= clock BY CallTyped, CleanerIsCaller
<1>3. /\ c.step = "select" /\ call' = [call EXCEPT !["sweeper"] = d]
      /\ UNCHANGED <<versioned, bucket, uploads, clock, cursor, owed, missed>>
  BY DEF selectOrphans, At, Go
<1>4. SweepSound(c, owed \cap bucket) BY DEF StoreInv
<1> HIDE DEF c
<1>5. Ordered(orphans) \in Seq(Keys) /\ ToSet(Ordered(orphans)) = orphans BY <1>2, OrderedLists
<1>6. \A e \in owed \cap bucket : e.key \in orphans \/ Left(c, e)
  <2>1. \A e \in owed : e.key \in Gone BY DEF StoreInv, OwedSound
  <2> QED BY <1>3, <1>4, <2>1 DEF SweepSound
<1> HIDE DEF orphans
<1>7. /\ RequestSound("sweeper", d, bucket, uploads, clock) /\ d.next = c.next /\ d.target = orphans
      /\ d.step \in {"batch", "deleted"} /\ (d.step = "deleted" => orphans = {})
  BY <1>1, <1>2, <1>5, DeletingIsSound
<1>8. call' = [call EXCEPT !["sweeper"] = d] BY <1>3
<1> HIDE DEF d
<1>9. SweepSound(d, owed \cap bucket) BY <1>6, <1>7 DEF SweepSound, Left
<1> QED BY <1>3, <1>7, <1>8, <1>9, QuietSteps, CleanerIsCaller

-----------------------------------------------------------------------------
(* How a call ends *)

LEMMA callEndsStep == ASSUME StoreInv, NEW a \in Callers, callEnds(a) PROVE StoreInv'
<1> DEFINE c == call[a]
<1>1. Holdings /\ clock \in Nat BY DEF StoreInv, Holdings
<1>2. c \in Calls /\ c.next \in Ranks BY CallTyped
<1>3. /\ call' = [call EXCEPT ![a] = Idle]
      /\ \/ /\ a = "sweeper" /\ c.step = "deleted" /\ cursor' = c.next
            /\ missed' = (IF c.next = Start THEN owed \cap Current ELSE missed)
         \/ UNCHANGED <<cursor, missed>>
      /\ a = "cleaner" => UNCHANGED <<cursor, missed>>
      /\ UNCHANGED <<versioned, bucket, uploads, clock, owed>>
  BY CleanerIsCaller DEF callEnds, Acknowledged, At
<1>4. Holdings' /\ clock <= clock' BY <1>1, <1>3 DEF Holdings, Dated
<1>5. Later(bucket, bucket', clock) /\ Later(uploads, uploads', clock) BY <1>3 DEF Later
<1>6. RequestSound(a, Idle, bucket', uploads', clock')
  <2>1. Idle.since <= clock /\ Dated(Idle.found, clock) BY <1>1, IdleIsTyped DEF Dated
  <2>2. RequestSound(a, Idle, bucket, uploads, clock) BY <1>1, <2>1, IdleIsTyped, RestingIsSound
  <2> QED BY <1>3, <2>2
<1>7. SweepSound(Idle, owed' \cap bucket') BY IdleIsTyped DEF SweepSound
<1>8. OwedSound'
  <2>1. CASE UNCHANGED <<cursor, missed>> BY <1>3, <2>1 DEF StoreInv, OwedSound, Dated, Beyond
  <2>2. CASE /\ a = "sweeper" /\ c.step = "deleted" /\ cursor' = c.next
             /\ missed' = (IF c.next = Start THEN owed \cap Current ELSE missed)
    <3>1. \A e \in owed \cap bucket : c.next # Start /\ Beyond(e, c.next)
      BY <2>2 DEF StoreInv, SweepSound, Left
    <3>2. c.next = Start => owed \cap Current = {} BY <3>1 DEF Current
    <3>3. missed' = {} BY <2>2, <3>2 DEF StoreInv, OwedSound
    <3>4. \A e \in owed' \cap bucket' : Beyond(e, cursor)' BY <1>3, <2>2, <3>1 DEF Beyond
    <3> QED BY <1>2, <1>3, <2>2, <3>3, <3>4 DEF StoreInv, OwedSound, Dated
  <2> QED BY <1>3, <2>1, <2>2
<1>9. call' = [call EXCEPT ![a] = Idle] BY <1>3
<1> HIDE DEF c
<1> QED BY <1>3, <1>4, <1>5, <1>6, <1>7, <1>8, <1>9, CallerSteps

LEMMA requestFailsStep == ASSUME StoreInv, NEW a \in Callers, requestFails(a) PROVE StoreInv'
<1> DEFINE c == call[a]
           d == [c EXCEPT !.step = "thrown"]
<1>1. Holdings /\ clock \in Nat /\ Tick \in Nat /\ clock < Tick BY Ticks DEF StoreInv, Holdings
<1>2. /\ c \in Calls /\ RequestSound(a, c, bucket, uploads, clock) /\ c.keys \in Seq(Keys)
      /\ c.batch \subseteq Keys /\ c.since \in Nat /\ c.since <= clock
  BY CallTyped
<1>3. /\ call' = [call EXCEPT ![a] = d]
      /\ \/ UNCHANGED <<bucket, clock>>
         \/ /\ clock' = Tick
            /\ \E part \in SUBSET (IF At(a, "batch") THEN ToSet(c.keys) ELSE c.batch) : bucket' = Unlinked(part)
         \/ UNCHANGED clock /\ \E part \in SUBSET c.found : bucket' = Purged(part)
      /\ cursor' = IF a = "sweeper" /\ At(a, "objects") THEN Start ELSE cursor
      /\ UNCHANGED <<versioned, uploads, owed, missed>>
  BY DEF requestFails, Go
<1>4. d \in Calls /\ d.step = "thrown" /\ d.since = c.since /\ d.found = c.found
  BY <1>2 DEF Calls, CallSteps
<1>5. call' = [call EXCEPT ![a] = d] BY <1>3
<1>6. ToSet(c.keys) \subseteq Keys
  <2>1. DOMAIN c.keys = 1 .. Len(c.keys) /\ \A i \in 1 .. Len(c.keys) : c.keys[i] \in Keys
    BY <1>2, LenProperties, ElementOfSeq
  <2> QED BY <2>1 DEF ToSet
<1>7. Dated(c.found, clock) BY <1>2 DEF RequestSound
<1> HIDE DEF d, c
<1>8. /\ Dated(bucket', clock') /\ IsFiniteSet(bucket') /\ Later(bucket, bucket', clock)
      /\ clock' \in Nat /\ clock <= clock'
  <2>1. CASE UNCHANGED <<bucket, clock>> BY <1>1, <2>1 DEF Holdings, Dated, Later
  <2>2. CASE /\ clock' = Tick
             /\ \E part \in SUBSET (IF At(a, "batch") THEN ToSet(c.keys) ELSE c.batch) : bucket' = Unlinked(part)
    <3>1. PICK part : part \subseteq Keys /\ bucket' = Unlinked(part) BY <1>2, <1>6, <2>2
    <3> QED BY <1>1, <2>2, <3>1, UnlinkedIsLater
  <2>3. CASE UNCHANGED clock /\ \E part \in SUBSET c.found : bucket' = Purged(part)
    <3>1. PICK part : bucket' = Purged(part) BY <2>3
    <3> QED BY <1>1, <2>3, <3>1, PurgedIsLater
  <2> QED BY <1>3, <2>1, <2>2, <2>3
<1>9. Dated(uploads, clock') /\ Dated(c.found, clock') BY <1>1, <1>7, <1>8 DEF Holdings, Dated, Copies
<1>10. Holdings' /\ Later(uploads, uploads', clock) BY <1>1, <1>3, <1>8, <1>9 DEF Holdings, Later
<1>11. \A e \in owed' \cap bucket' : e \in owed \cap bucket
  <2>1. \A e \in owed : e.id \in Nat /\ e.id < clock BY DEF StoreInv, OwedSound, Dated, Copies
  <2> QED BY <1>1, <1>3, <1>8, <2>1 DEF Later
<1>12. OwedSound'
  <2>1. \A e \in owed \cap bucket : Beyond(e, cursor) /\ Beyond(e, Start)
    BY <1>1, Placed DEF StoreInv, OwedSound, Holdings, Dated
  <2>2. \A e \in owed' \cap bucket' : Beyond(e, cursor)'
    <3> TAKE e \in owed' \cap bucket'
    <3>1. Beyond(e, cursor) /\ Beyond(e, Start) BY <1>11, <2>1
    <3> QED BY <1>3, <3>1 DEF Beyond
  <2>3. cursor' \in Ranks BY <1>3, KeysOrdered DEF StoreInv, OwedSound
  <2>4. Dated(owed', clock')
    <3>1. Dated(owed, clock) BY DEF StoreInv, OwedSound
    <3> QED BY <1>1, <1>3, <1>8, <3>1 DEF Dated, Copies
  <2>5. missed' = {} /\ \A e \in owed' : e.old /\ e.key \in Gone BY <1>3 DEF StoreInv, OwedSound
  <2> QED BY <2>2, <2>3, <2>4, <2>5 DEF OwedSound
<1>13. d.since <= clock' BY <1>1, <1>2, <1>4, <1>8
<1>14. RequestSound(a, d, bucket', uploads', clock') BY <1>4, <1>9, <1>13 DEF RequestSound
<1>15. SweepSound(d, owed' \cap bucket') BY <1>4 DEF SweepSound
<1>16. ASSUME a = "cleaner" PROVE UNCHANGED <<cursor, owed, missed>> BY <1>3, <1>16, CleanerIsCaller
<1> QED BY <1>5, <1>8, <1>10, <1>12, <1>14, <1>15, <1>16, CallerSteps

-----------------------------------------------------------------------------
(* Uploads *)

LEMMA WriteStep ==
  ASSUME StoreInv, NEW k \in Keys, NEW more \in {bucket, Stored(k)},
         NEW parts \in SUBSET (uploads \cup {Copy(k, clock, FALSE)}),
         Write([bucket |-> more, uploads |-> parts])
  PROVE  StoreInv'
<1>1. Holdings /\ clock \in Nat /\ Tick \in Nat /\ clock < Tick BY Ticks DEF StoreInv, Holdings
<1>2. /\ clock' = Tick /\ bucket' = more /\ uploads' = parts
      /\ UNCHANGED <<versioned, call, cursor, owed, missed>>
  BY DEF Write
<1> DEFINE all == uploads \cup {Copy(k, clock, FALSE)}
<1>3. /\ Dated(Stored(k), Tick) /\ IsFiniteSet(Stored(k)) /\ Later(bucket, Stored(k), clock)
      /\ Dated(all, Tick) /\ IsFiniteSet(all) /\ Later(uploads, all, clock)
  BY <1>1, StoredIsLater
<1>4. parts \subseteq all OBVIOUS
<1> HIDE DEF all
<1>5. Dated(parts, Tick) /\ IsFiniteSet(parts) BY <1>1, <1>3, <1>4, FewerIsLater
<1>6. Later(uploads, parts, clock) BY <1>3, <1>4 DEF Later
<1>7. Dated(bucket, Tick) /\ IsFiniteSet(bucket) /\ Later(bucket, bucket, clock)
  BY <1>1 DEF Holdings, Dated, Copies, Later
<1>8. Dated(more, Tick) /\ IsFiniteSet(more) /\ Later(bucket, more, clock) BY <1>3, <1>7
<1>9. Holdings' /\ clock <= clock' BY <1>1, <1>2, <1>5, <1>8 DEF Holdings
<1>10. Later(bucket, bucket', clock) /\ Later(uploads, uploads', clock) BY <1>2, <1>6, <1>8
<1> QED BY <1>2, <1>9, <1>10, UploadSteps

LEMMA UploadsStep ==
  ASSUME StoreInv,
         \/ \E k \in Keys : putObject(k) \/ putArtifact(k)
         \/ \E u \in uploads : putArtifactDone(u)
  PROVE  StoreInv'
<1>1. ASSUME NEW k \in Keys, putObject(k) PROVE StoreInv'
  <2>1. Write([bucket |-> Stored(k), uploads |-> uploads]) BY <1>1 DEF putObject
  <2> QED BY <2>1, WriteStep
<1>2. ASSUME NEW k \in Keys, putArtifact(k) PROVE StoreInv'
  <2>1. Write([bucket |-> bucket, uploads |-> uploads \cup {Copy(k, clock, FALSE)}])
    BY <1>2 DEF putArtifact
  <2> QED BY <2>1, WriteStep
<1>3. ASSUME NEW u \in uploads, putArtifactDone(u) PROVE StoreInv'
  <2>1. u.key \in Keys BY DEF StoreInv, Holdings, Dated, Copies
  <2>2. uploads \ {u} \subseteq uploads \cup {Copy(u.key, clock, FALSE)} OBVIOUS
  <2>3. Write([bucket |-> Stored(u.key), uploads |-> uploads \ {u}]) BY <1>3 DEF putArtifactDone
  <2> QED BY <2>1, <2>2, <2>3, WriteStep
<1> QED BY <1>1, <1>2, <1>3

-----------------------------------------------------------------------------
(* Every behaviour *)

LEMMA InitStoreInv == ASSUME StoreInit PROVE StoreInv
<1>1. /\ versioned \in BOOLEAN /\ clock = 1 /\ cursor = Start /\ owed = {} /\ missed = {}
      /\ call = [a \in Callers |-> Idle]
  BY DEF StoreInit, Callers
<1>2. PICK old \in SUBSET Keys :
        /\ bucket = {[Copy(k, 0, FALSE) EXCEPT !.old = k \in old] : k \in Keys}
        /\ uploads = {[Copy(k, 0, FALSE) EXCEPT !.old = TRUE] : k \in old}
  BY DEF StoreInit
<1> DEFINE F == [k \in Keys |-> [Copy(k, 0, FALSE) EXCEPT !.old = k \in old]]
           G == [k \in Keys |-> [Copy(k, 0, FALSE) EXCEPT !.old = TRUE]]
<1>3. bucket = {F[k] : k \in Keys} /\ uploads = {G[k] : k \in old} BY <1>2
<1>4. \A k \in Keys : F[k] \in Copies /\ F[k].id = 0 /\ G[k] \in Copies /\ G[k].id = 0
  <2> TAKE k \in Keys
  <2> DEFINE b == k \in old
  <2>1. b \in BOOLEAN OBVIOUS
  <2> HIDE DEF b
  <2>2. \A m \in BOOLEAN : LET e == [Copy(k, 0, FALSE) EXCEPT !.old = m] IN e \in Copies /\ e.id = 0
    BY DEF Copy, Copies
  <2>3. F[k] = [Copy(k, 0, FALSE) EXCEPT !.old = b] BY DEF b
  <2>4. G[k] = [Copy(k, 0, FALSE) EXCEPT !.old = TRUE] OBVIOUS
  <2> HIDE DEF F, G
  <2> QED BY <2>1, <2>2, <2>3, <2>4
<1> HIDE DEF F, G
<1>5. IsFiniteSet(Keys) /\ IsFiniteSet(old) BY KeysOrdered, FS_Subset
<1>6. IsFiniteSet(bucket) /\ IsFiniteSet(uploads) BY <1>3, <1>5, ImageIsFinite
<1>7. Dated(bucket, clock) /\ Dated(uploads, clock) BY <1>1, <1>3, <1>4 DEF Dated
<1>8. Holdings BY <1>1, <1>6, <1>7 DEF Holdings
<1>9. Idle.since <= clock /\ Dated(Idle.found, clock) BY <1>1, IdleIsTyped DEF Dated
<1>10. \A a \in Callers : RequestSound(a, Idle, bucket, uploads, clock)
  BY <1>8, <1>9, IdleIsTyped, RestingIsSound
<1>11. RequestsSound BY <1>1, <1>10, IdleIsTyped DEF RequestsSound
<1>12. OwedSound BY <1>1, KeysOrdered DEF OwedSound, Dated
<1>13. SweepSound(call["sweeper"], owed \cap bucket) BY <1>1 DEF SweepSound
<1> QED BY <1>8, <1>11, <1>12, <1>13 DEF StoreInv

LEMMA StoreStep == ASSUME StoreInv, [StoreNext]_storeVars PROVE StoreInv'
<1>1. CASE UNCHANGED storeVars
  <2>1. UNCHANGED <<versioned, bucket, uploads, clock, call, cursor, owed, missed>>
    BY <1>1 DEF storeVars
  <2>2. Holdings' /\ clock <= clock' BY <2>1 DEF StoreInv, Holdings, Dated
  <2>3. Later(bucket, bucket', clock) /\ Later(uploads, uploads', clock) BY <2>1 DEF Later
  <2> QED BY <2>1, <2>2, <2>3, UploadSteps
<1>2. CASE StoreNext
  <2>1. CASE deleteObjects \/ cleanupPrefix \/ listPrefixPage \/ listPrefixVersionPage \/ purgePrefix
    BY <2>1, deleteObjectsStep, cleanupPrefixStep, listPrefixPageStep, listPrefixVersionPageStep, purgePrefixStep
  <2>2. CASE reconcileStorage \/ listObjectsOlderThan \/ selectOrphans
    BY <2>2, reconcileStorageStep, listObjectsOlderThanStep, selectOrphansStep
  <2>3. ASSUME NEW a \in Callers,
               \/ deleteBatch(a) \/ listExactObjectVersions(a) \/ purgeVersions(a)
               \/ abortMultipartUploads(a) \/ callEnds(a) \/ requestFails(a)
        PROVE  StoreInv'
    BY <2>3, deleteBatchStep, listExactObjectVersionsStep, purgeVersionsStep, abortMultipartUploadsStep,
       callEndsStep, requestFailsStep
  <2>4. ASSUME NEW k \in Keys, deleteObject(k) \/ discardObject(k) PROVE StoreInv'
    BY <2>4, deleteObjectStep
  <2>5. ASSUME \/ \E k \in Keys : putObject(k) \/ putArtifact(k)
               \/ \E u \in uploads : putArtifactDone(u)
        PROVE  StoreInv'
    BY <2>5, UploadsStep
  <2> QED BY <1>2, <2>1, <2>2, <2>3, <2>4, <2>5 DEF StoreNext, Callers
<1> QED BY <1>1, <1>2

LEMMA StoreInvIsDeleted == ASSUME StoreInv PROVE DeletedMeansEveryCopy
<1>1. missed = {} BY DEF StoreInv, OwedSound
<1>2. DOMAIN call = Callers BY DEF StoreInv, RequestsSound
<1>3. ASSUME NEW a \in Callers
      PROVE  /\ call[a].step = "deleted" =>
                  /\ Fresh(bucket, call[a].target, call[a].since)
                  /\ call[a].keys = <<>> => Fresh(uploads, call[a].target, call[a].since)
             /\ call[a].step = "exhausted" /\ call[a].keys # <<>> => clock > call[a].since
  BY DEF StoreInv, RequestsSound, RequestSound
<1> QED BY <1>1, <1>2, <1>3 DEF DeletedMeansEveryCopy, Fresh

\* A deletion that reports success leaves no copy that was there when it began, and the
\* reconciler's rotation leaves no old orphan: for any objects in any order, listings in
\* pages of any length, and any writes and failures meanwhile (document-store.ts,
\* deleteObjects, purgePrefix, listObjectsOlderThan).
THEOREM DeletedIsEveryCopy == StoreSpec => []DeletedMeansEveryCopy
<1>1. StoreInit => StoreInv BY InitStoreInv
<1>2. StoreInv /\ [StoreNext]_storeVars => StoreInv' BY StoreStep
<1>3. StoreInv => DeletedMeansEveryCopy BY StoreInvIsDeleted
<1> QED BY <1>1, <1>2, <1>3, PTL DEF StoreSpec

-----------------------------------------------------------------------------
(* The deployment: any settings, edits and hosts. *)

\* Every setting is one the schema takes.
SettingsAllowed(e) == \A k \in DOMAIN e : Allowed(k, e[k])
Complete(e) == Settings \subseteq DOMAIN e /\ SettingsAllowed(e)

\* A process that runs passed the checks on what it keeps.
DeploymentInv ==
  /\ SettingsAllowed(file) /\ SettingsAllowed(host.inherited)
  /\ started # NotRunning =>
       \E p \in {"API", "WORKER", "AGENT"} : \E e : /\ Complete(e) /\ superRefine(Parsed(p, e))
                                                /\ started = [name |-> p, keeps |-> Kept(p, e)]

LEMMA OverIsAllowed ==
  ASSUME NEW top, NEW e, SettingsAllowed(top), SettingsAllowed(e)
  PROVE  SettingsAllowed(Over(top, e)) /\ DOMAIN Over(top, e) = DOMAIN top \cup DOMAIN e
BY DEF SettingsAllowed, Over

LEMMA SourceIsComplete ==
  ASSUME DeploymentInv PROVE Complete(Source)
<1>1. SettingsAllowed(Defaults) /\ Settings \subseteq DOMAIN Defaults
  BY DeploymentAssumption DEF SettingsAllowed
<1> DEFINE read == IF file = Missing THEN Defaults ELSE Over(file, Defaults)
<1>2. SettingsAllowed(read) /\ Settings \subseteq DOMAIN read
  BY <1>1, OverIsAllowed DEF DeploymentInv
<1>3. Source = Over(host.inherited, read) BY DEF Source
<1> HIDE DEF read
<1> QED BY <1>2, <1>3, OverIsAllowed DEF DeploymentInv, Complete

LEMMA InitDeploymentInv == DeploymentInit => DeploymentInv
<1> SUFFICES ASSUME DeploymentInit PROVE DeploymentInv OBVIOUS
<1>1. SettingsAllowed(file)
  <2>1. SettingsAllowed(Missing) BY DEF SettingsAllowed, Missing, Allowed, Numbers, Connections, AdminConnections,
                                       productionSecrets
  <2> QED BY <2>1, DeploymentAssumption DEF DeploymentInit, SettingsAllowed
<1>2. SettingsAllowed(host.inherited)
  <2> DEFINE flag == [PRINTING_KIOSK_SERVICE |-> TRUE]
  <2>1. PICK service \in BOOLEAN, mode \in {<<>>, [NODE_ENV |-> "production"]} :
          host.inherited = IF service THEN Over(flag, mode) ELSE mode
    BY DEF DeploymentInit
  <2>2. SettingsAllowed(<<>>) BY DEF SettingsAllowed
  <2>3. "NODE_ENV" \notin Numbers \cup Connections \cup productionSecrets
        /\ "PRINTING_KIOSK_SERVICE" \notin Numbers \cup Connections \cup productionSecrets
    BY DEF Numbers, Connections, AdminConnections, productionSecrets
  <2>4. SettingsAllowed([NODE_ENV |-> "production"]) /\ SettingsAllowed(flag)
    BY <2>3 DEF SettingsAllowed, Allowed
  <2> HIDE DEF flag
  <2> QED BY <2>1, <2>2, <2>4, OverIsAllowed
<1> QED BY <1>1, <1>2 DEF DeploymentInv, DeploymentInit

LEMMA DeploymentStep ==
  ASSUME DeploymentInv, [DeploymentNext]_deploymentVars PROVE DeploymentInv'
<1>1. CASE UNCHANGED deploymentVars BY <1>1 DEF DeploymentInv, deploymentVars
<1>2. CASE EditFile
  <2>1. PICK k \in DOMAIN Alternatives : \E v \in Alternatives[k] : file' = Over([s \in {k} |-> v], file)
    BY <1>2 DEF EditFile
  <2>2. PICK v \in Alternatives[k] : file' = Over([s \in {k} |-> v], file) BY <2>1
  <2>3. SettingsAllowed([s \in {k} |-> v]) BY DeploymentAssumption, <2>1, <2>2 DEF SettingsAllowed
  <2>4. SettingsAllowed(file') BY <2>2, <2>3, OverIsAllowed DEF DeploymentInv
  <2> QED BY <1>2, <2>4 DEF EditFile, DeploymentInv
<1>3. CASE StartProcess
  <2>1. PICK p \in {"API", "WORKER", "AGENT"} :
          superRefine(Parsed(p, Source)) /\ started' = [name |-> p, keeps |-> Kept(p, Source)]
    BY <1>3 DEF StartProcess
  <2>2. Complete(Source) BY SourceIsComplete
  <2>3. UNCHANGED <<file, host>> BY <1>3 DEF StartProcess
  <2> QED BY <2>1, <2>2, <2>3 DEF DeploymentInv
<1> QED BY <1>1, <1>2, <1>3 DEF DeploymentNext

\* What the checks make of numbers.
LEMMA TimesAreKept ==
  ASSUME NEW e, \A k \in Numbers : e[k] \in Nat, superRefine(e)
  PROVE  KeepsTimes(e)
<1>1. /\ \A k \in Numbers : e[k] \in Nat
      /\ SessionWindows(e) /\ ProcessorRoom(e) /\ PriceWindows(e) /\ PrintWindows(e)
      /\ OrphanCutoff(e) /\ HeartbeatWithinLease(e)
  BY DEF superRefine
<1>2. /\ e.SESSION_IDLE_TTL \in Nat /\ e.SESSION_ABSOLUTE_TTL \in Nat /\ e.MOBILE_CLIENT_TTL \in Nat
      /\ e.QUOTE_TTL \in Nat /\ e.PAYMENT_TIMEOUT \in Nat /\ e.PRINT_JOB_TIMEOUT \in Nat
      /\ e.PRINT_COMMAND_LEASE \in Nat /\ e.PRINTER_OUTPUT_RETENTION \in Nat /\ e.AGENT_HEARTBEAT \in Nat
      /\ e.RETENTION_SETTLED_GRACE \in Nat /\ e.RETENTION_RECOVERY_GRACE \in Nat
      /\ e.RETENTION_ORPHAN_GRACE \in Nat
  BY <1>1 DEF Numbers
<1>3. /\ e.MAX_FILE_BYTES \in Nat /\ e.MAX_DOCUMENT_PAGES \in Nat /\ e.MAX_NORMALIZED_FILE_BYTES \in Nat
      /\ e.MAX_PREVIEW_FILE_BYTES \in Nat /\ e.DOCUMENT_PROCESSOR_RESPONSE_MAX_BYTES \in Nat
      /\ e.DOCUMENT_PROCESSOR_SCRATCH_BYTES \in Nat /\ e.DOCUMENT_PROCESSOR_MEMORY_MIB \in Nat
  BY <1>1 DEF Numbers
<1>4. /\ e.PAYMENT_TIMEOUT <= e.SESSION_ABSOLUTE_TTL /\ e.PAYMENT_TIMEOUT <= e.MOBILE_CLIENT_TTL
  BY <1>1, <1>2 DEF SessionWindows, PriceWindows
<1>5. e.AGENT_HEARTBEAT < e.PRINT_COMMAND_LEASE /\ e.PRINT_COMMAND_LEASE < e.PRINTER_OUTPUT_RETENTION
  BY <1>1, <1>2 DEF HeartbeatWithinLease, PrintWindows
<1>6. \A grace \in {e.RETENTION_SETTLED_GRACE, e.RETENTION_RECOVERY_GRACE} :
        e.PRINT_JOB_TIMEOUT + grace < e.RETENTION_ORPHAN_GRACE
  BY <1>1, <1>2 DEF OrphanCutoff, PrintWindows
<1>7. e.MAX_NORMALIZED_FILE_BYTES + e.MAX_FILE_BYTES + 2 * e.MAX_DOCUMENT_PAGES * e.MAX_PREVIEW_FILE_BYTES
        < e.DOCUMENT_PROCESSOR_MEMORY_MIB
  <2> DEFINE previews == e.MAX_DOCUMENT_PAGES * e.MAX_PREVIEW_FILE_BYTES
  <2>1. previews \in Nat BY <1>3
  <2>2. 2 * e.MAX_DOCUMENT_PAGES * e.MAX_PREVIEW_FILE_BYTES = 2 * previews BY <1>3
  <2>3. /\ e.DOCUMENT_PROCESSOR_RESPONSE_MAX_BYTES >= e.MAX_NORMALIZED_FILE_BYTES + previews + 1
        /\ e.DOCUMENT_PROCESSOR_SCRATCH_BYTES >=
             e.DOCUMENT_PROCESSOR_RESPONSE_MAX_BYTES + e.MAX_NORMALIZED_FILE_BYTES
               + e.MAX_FILE_BYTES + previews + 96
        /\ e.DOCUMENT_PROCESSOR_MEMORY_MIB >= e.DOCUMENT_PROCESSOR_SCRATCH_BYTES + 1024
    BY <1>1 DEF ProcessorRoom
  <2> HIDE DEF previews
  <2> QED BY <1>3, <2>1, <2>2, <2>3
<1> QED BY <1>4, <1>5, <1>6, <1>7 DEF KeepsTimes

\* Where it is deployed, nothing is simulated and the queue is a certified one.
Genuine(e) ==
  Deployed(e) => /\ ~Simulates(e)
                 /\ e.PRINTER_QUEUE_ALLOWLIST # {}
                 /\ e.PRINTER_QUEUE_NAME \in e.PRINTER_QUEUE_ALLOWLIST \cup {""}

LEMMA DeployedIsGenuine ==
  ASSUME NEW e, superRefine(e) PROVE Genuine(e)
<1>1. Deployed(e) => ~Simulates(e) BY DEF superRefine, Deployed, ServiceIsReal
<1>2. ~Simulates(e) => e.PRINTER_QUEUE_ALLOWLIST # {} BY DEF superRefine, DeviceNamed, Simulates
<1>3. e.PRINTER_QUEUE_NAME \in e.PRINTER_QUEUE_ALLOWLIST \cup {""} BY DEF superRefine, QueueApproved
<1> QED BY <1>1, <1>2, <1>3 DEF Genuine

\* No connection with a power is anybody else's; in production no two are the same.
Distinct(e) ==
  \A c, d \in Connections : c # d /\ e[c] = e[d] =>
    /\ e.NODE_ENV # "production"
    /\ e[c] = "unset" \/ {c, d} \subseteq
         {"DATABASE_URL", "ADMIN_READ_DATABASE_URL", "ADMIN_WRITE_DATABASE_URL"}

LEMMA ConnectionsAreDistinct ==
  ASSUME NEW e, superRefine(e) PROVE Distinct(e)
<1> DEFINE read == "ADMIN_READ_DATABASE_URL"
           write == "ADMIN_WRITE_DATABASE_URL"
           refund == "ADMIN_REFUND_DATABASE_URL"
           people == "ADMIN_PEOPLE_DATABASE_URL"
           pricing == "ADMIN_PRICING_DATABASE_URL"
           app == "DATABASE_URL"
<1>1. e[refund] # "unset" => /\ e[refund] # e[app] /\ e[refund] # e[read] /\ e[refund] # e[write]
                             /\ e[refund] # e[people]
  BY DEF superRefine, RefundConnection, NotShared
<1>2. e[people] # "unset" => e[people] # e[app] /\ e[people] # e[read] /\ e[people] # e[write]
  BY DEF superRefine, PeopleConnection, NotShared
<1>3. e[pricing] # "unset" => /\ e[pricing] # e[app] /\ e[pricing] # e[read] /\ e[pricing] # e[write]
                              /\ e[pricing] # e[people] /\ e[pricing] # e[refund]
  BY DEF superRefine, PricingConnection, NotShared, Connections, AdminConnections
<1>4. e.NODE_ENV = "production" =>
        /\ e[refund] # "unset" /\ e[people] # "unset" /\ e[pricing] # "unset"
        /\ e[read] # e[app] /\ e[write] # e[app] /\ e[write] # e[read]
  BY DEF superRefine, ProductionConnections, Connections, AdminConnections
<1>5. ASSUME NEW c \in Connections, NEW d \in Connections, c # d, e[c] = e[d]
      PROVE  /\ e.NODE_ENV # "production"
             /\ e[c] = "unset" \/ {c, d} \subseteq {app, read, write}
  <2>1. c \in {app, read, write, refund, people, pricing} /\ d \in {app, read, write, refund, people, pricing}
    BY DEF Connections, AdminConnections
  <2>2. e[c] = "unset" \/ (c \in {app, read, write} /\ d \in {app, read, write})
    BY <1>1, <1>2, <1>3, <1>5, <2>1
  <2>3. e.NODE_ENV = "production" => FALSE BY <1>1, <1>2, <1>3, <1>4, <1>5, <2>1
  <2> QED BY <2>2, <2>3
<1> QED BY <1>5 DEF Distinct

\* Nothing of the administration is looked at outside its own checks, which what stands
\* in for it passes.
LEMMA WorkerPasses ==
  ASSUME NEW e, Complete(e), superRefine(e)
  PROVE  superRefine(Over(Placeholders, e))
<1> DEFINE w == Over(Placeholders, e)
<1>1. DOMAIN Placeholders = AdminKeys BY DEF Placeholders, AdminKeys, AdminConnections
<1>2. \A k \in Settings : w[k] = IF k \in AdminKeys THEN Placeholders[k] ELSE e[k]
  BY <1>1 DEF Over, Complete
<1>3. \A k \in Settings \ AdminKeys : w[k] = e[k] BY <1>2
<1>4. \A k \in AdminKeys : w[k] = Placeholders[k] BY <1>2 DEF Settings
<1>5. \A k \in Connections \cup productionSecrets : e[k] \notin StandIns
  BY DEF Complete, SettingsAllowed, Allowed, Settings
<1> HIDE DEF w
<1>6. /\ w.SESSION_IDLE_TTL = e.SESSION_IDLE_TTL /\ w.SESSION_ABSOLUTE_TTL = e.SESSION_ABSOLUTE_TTL
      /\ w.MOBILE_CLIENT_TTL = e.MOBILE_CLIENT_TTL /\ w.QUOTE_TTL = e.QUOTE_TTL
      /\ w.PAYMENT_TIMEOUT = e.PAYMENT_TIMEOUT /\ w.PRINT_JOB_TIMEOUT = e.PRINT_JOB_TIMEOUT
      /\ w.PRINT_COMMAND_LEASE = e.PRINT_COMMAND_LEASE /\ w.AGENT_HEARTBEAT = e.AGENT_HEARTBEAT
      /\ w.PRINTER_OUTPUT_RETENTION = e.PRINTER_OUTPUT_RETENTION
      /\ w.RETENTION_SETTLED_GRACE = e.RETENTION_SETTLED_GRACE
      /\ w.RETENTION_RECOVERY_GRACE = e.RETENTION_RECOVERY_GRACE
      /\ w.RETENTION_ORPHAN_GRACE = e.RETENTION_ORPHAN_GRACE
  BY <1>3 DEF Settings, Numbers, AdminKeys, AdminConnections
<1>7. /\ w.DOCUMENT_PROCESSOR_TIMEOUT = e.DOCUMENT_PROCESSOR_TIMEOUT
      /\ w.DOCUMENT_PROCESSOR_LEASE = e.DOCUMENT_PROCESSOR_LEASE
      /\ w.DOCUMENT_PROCESSOR_RESPONSE_MAX_BYTES = e.DOCUMENT_PROCESSOR_RESPONSE_MAX_BYTES
      /\ w.DOCUMENT_PROCESSOR_SCRATCH_BYTES = e.DOCUMENT_PROCESSOR_SCRATCH_BYTES
      /\ w.DOCUMENT_PROCESSOR_MEMORY_MIB = e.DOCUMENT_PROCESSOR_MEMORY_MIB
      /\ w.MAX_FILE_BYTES = e.MAX_FILE_BYTES /\ w.MAX_SESSION_UPLOAD_BYTES = e.MAX_SESSION_UPLOAD_BYTES
      /\ w.MAX_FILES_PER_SESSION = e.MAX_FILES_PER_SESSION /\ w.MAX_DOCUMENT_PAGES = e.MAX_DOCUMENT_PAGES
      /\ w.MAX_NORMALIZED_FILE_BYTES = e.MAX_NORMALIZED_FILE_BYTES
      /\ w.MAX_PREVIEW_FILE_BYTES = e.MAX_PREVIEW_FILE_BYTES
      /\ w.PREVIEW_MAX_PIXELS = e.PREVIEW_MAX_PIXELS
      /\ w.MAX_IMAGE_DIMENSION_PIXELS = e.MAX_IMAGE_DIMENSION_PIXELS
      /\ w.MAX_SELECTED_PAGES = e.MAX_SELECTED_PAGES /\ w.MAX_PRINTED_SIDES = e.MAX_PRINTED_SIDES
  BY <1>3 DEF Settings, Numbers, AdminKeys, AdminConnections
<1>8. /\ w.PRINTER_TELEMETRY_BUDGET = e.PRINTER_TELEMETRY_BUDGET
      /\ w.PRINTER_TELEMETRY_TIMEOUT = e.PRINTER_TELEMETRY_TIMEOUT
      /\ w.PRINTER_TELEMETRY_MAX_AGE = e.PRINTER_TELEMETRY_MAX_AGE
      /\ w.PRINTER_TELEMETRY_POLL = e.PRINTER_TELEMETRY_POLL
      /\ w.PRINTER_TELEMETRY_ENABLED = e.PRINTER_TELEMETRY_ENABLED
      /\ w.PRINTER_TELEMETRY_NAMED = e.PRINTER_TELEMETRY_NAMED
      /\ w.PRINTER_TELEMETRY_KEYS_DIFFER = e.PRINTER_TELEMETRY_KEYS_DIFFER
      /\ w.PRINTER_ADAPTER = e.PRINTER_ADAPTER /\ w.PRINTER_QUEUE_ALLOWLIST = e.PRINTER_QUEUE_ALLOWLIST
      /\ w.PRINTER_QUEUE_NAME = e.PRINTER_QUEUE_NAME
      /\ w.PRINTER_WINDOWS_HOST_PATH = e.PRINTER_WINDOWS_HOST_PATH
      /\ w.PRINTER_DEVICE_PROFILES_READABLE = e.PRINTER_DEVICE_PROFILES_READABLE
      /\ w.PAYMENT_TEST_OUTCOMES_ENABLED = e.PAYMENT_TEST_OUTCOMES_ENABLED
      /\ w.PRINT_TEST_OUTCOMES_ENABLED = e.PRINT_TEST_OUTCOMES_ENABLED
      /\ w.NODE_ENV = e.NODE_ENV /\ w.PRINTING_KIOSK_SERVICE = e.PRINTING_KIOSK_SERVICE
  BY <1>3 DEF Settings, Numbers, AdminKeys, AdminConnections
<1>9. /\ w.S3_KMS_KEY_ID = e.S3_KMS_KEY_ID /\ w.S3_SERVER_SIDE_ENCRYPTION = e.S3_SERVER_SIDE_ENCRYPTION
      /\ w.S3_ACCESS_KEY_ID = e.S3_ACCESS_KEY_ID /\ w.S3_WORKER_ACCESS_KEY_ID = e.S3_WORKER_ACCESS_KEY_ID
      /\ w.DOCUMENT_PROCESSOR_IMAGE = e.DOCUMENT_PROCESSOR_IMAGE
      /\ w.UPLOAD_ORIGIN = e.UPLOAD_ORIGIN /\ w.PUBLIC_UPLOAD_ORIGIN = e.PUBLIC_UPLOAD_ORIGIN
      /\ w["DATABASE_URL"] = e["DATABASE_URL"]
      /\ \A u \in {"API_ORIGIN", "KIOSK_ORIGIN", "DOCUMENT_PROCESSOR_URL", "S3_ENDPOINT", "REDIS_URL",
                    "UPLOAD_ORIGIN", "PUBLIC_UPLOAD_ORIGIN"} : w[u] = e[u]
  BY <1>3 DEF Settings, AdminKeys, AdminConnections, Connections
<1>10. /\ w.ADMIN_ORIGIN = "tls" /\ w["ADMIN_ORIGIN"] = "tls" /\ w.ADMIN_WEBAUTHN_RP_ID = "host"
       /\ w.ADMIN_STEP_UP_TTL = 300
       /\ w.ADMIN_SESSION_IDLE = [OPERATOR |-> 21600, ADMIN |-> 7200, TECHNICAL_ADMIN |-> 3600]
       /\ w.ADMIN_SESSION_ABSOLUTE = [OPERATOR |-> 2592000, ADMIN |-> 1209600, TECHNICAL_ADMIN |-> 604800]
       /\ w["ADMIN_SESSION_PEPPER"] = "not-loaded-session"
       /\ w["ADMIN_BREAK_GLASS_PEPPER"] = "not-loaded-break-glass"
       /\ w["ADMIN_READ_DATABASE_URL"] = "not-loaded-read"
       /\ w["ADMIN_WRITE_DATABASE_URL"] = "not-loaded-write"
       /\ w["ADMIN_REFUND_DATABASE_URL"] = "not-loaded-refund"
       /\ w["ADMIN_PEOPLE_DATABASE_URL"] = "not-loaded-people"
       /\ w["ADMIN_PRICING_DATABASE_URL"] = "not-loaded-pricing"
  BY <1>4 DEF AdminKeys, AdminConnections, Placeholders
<1>11. w["DATABASE_URL"] \notin StandIns BY <1>5, <1>9 DEF Connections
<1>12. /\ SessionWindows(w) /\ ProcessorRoom(w) /\ Selectable(w) /\ PriceWindows(w) /\ PrintWindows(w)
       /\ OrphanCutoff(w) /\ HeartbeatWithinLease(w)
  BY <1>6, <1>7 DEF superRefine, SessionWindows, ProcessorRoom, Selectable, PriceWindows, PrintWindows,
                    OrphanCutoff, HeartbeatWithinLease
<1>13. /\ DeviceNamed(w) /\ TelemetryComplete(w) /\ QueueApproved(w) /\ (Simulates(w) => Simulates(e))
       /\ ServiceIsReal(w)
  BY <1>6, <1>8 DEF superRefine, DeviceNamed, TelemetryComplete, QueueApproved, Simulates, ServiceIsReal
<1>14. StorageAndUpload(w) /\ AdminPage(w) BY <1>9, <1>10 DEF superRefine, StorageAndUpload, AdminPage
<1>15. AdminWindows(w) BY <1>10 DEF AdminWindows, Roles
<1>16. WellFormedUrls(w)
  <2>1. e["DATABASE_URL"] # "malformed" BY DEF superRefine, WellFormedUrls, Connections
  <2> QED BY <2>1, <1>9, <1>10 DEF WellFormedUrls, Connections, AdminConnections
<1>17. RefundConnection(w) /\ PeopleConnection(w) /\ PricingConnection(w)
  BY <1>10, <1>11 DEF RefundConnection, PeopleConnection, PricingConnection, NotShared, Connections,
                      AdminConnections, StandIns
<1>18. ASSUME e.NODE_ENV = "production"
       PROVE  ProductionConnections(w) /\ ~Simulates(w) /\ ProductionSecrets(w) /\ ProductionTransport(w)
  <2>1. ProductionConnections(e) /\ ~Simulates(e) /\ ProductionSecrets(e) /\ ProductionTransport(e)
    BY <1>18 DEF superRefine
  <2>2. ProductionConnections(w)
    <3>1. e["DATABASE_URL"] # "unset" BY <2>1 DEF ProductionConnections, Connections
    <3> QED BY <3>1, <1>9, <1>10, <1>11 DEF ProductionConnections, Connections, AdminConnections, StandIns
  <2>3. ProductionSecrets(w)
    <3> DEFINE S == {"ADMIN_SESSION_PEPPER", "ADMIN_BREAK_GLASS_PEPPER"}
    <3>1. \A s \in productionSecrets : s \notin S => w[s] = e[s] /\ w[s] \notin StandIns
      BY <1>3, <1>5 DEF productionSecrets, Settings, AdminKeys, AdminConnections
    <3>2. \A s \in S : w[s] \in StandIns /\ w[s] # "placeholder" BY <1>10 DEF StandIns
    <3>3. w["ADMIN_SESSION_PEPPER"] # w["ADMIN_BREAK_GLASS_PEPPER"] BY <1>10
    <3>4. \A s \in productionSecrets : w[s] # "placeholder" BY <2>1, <3>1, <3>2 DEF ProductionSecrets
    <3>5. \A s, t \in productionSecrets : w[s] = w[t] => s = t
      <4> SUFFICES ASSUME NEW s \in productionSecrets, NEW t \in productionSecrets, w[s] = w[t] PROVE s = t
        OBVIOUS
      <4>1. CASE s \notin S /\ t \notin S BY <4>1, <2>1, <3>1 DEF ProductionSecrets
      <4>2. CASE s \in S /\ t \in S BY <4>2, <3>3
      <4>3. CASE ~(s \in S <=> t \in S) BY <4>3, <3>1, <3>2
      <4> QED BY <4>1, <4>2, <4>3
    <3> QED BY <2>1, <3>4, <3>5, <1>9 DEF ProductionSecrets
  <2>4. ProductionTransport(w)
    <3>1. e["DATABASE_URL"] # "unverified" BY <2>1 DEF ProductionTransport, Connections
    <3>2. \A c \in Connections : w[c] # "unverified"
      BY <3>1, <1>9, <1>10 DEF Connections, AdminConnections
    <3> QED BY <2>1, <3>2, <1>9, <1>10 DEF ProductionTransport
  <2> QED BY <2>1, <2>2, <2>3, <2>4, <1>13
<1>19. superRefine(w)
  BY <1>8, <1>12, <1>13, <1>14, <1>15, <1>16, <1>17, <1>18 DEF superRefine
<1> QED BY <1>19 DEF w

\* What a process keeps says the same as what it parsed.
LEMMA KeptSaysTheSame ==
  ASSUME NEW e, NEW k, \A s \in Settings \ AdminKeys : k[s] = e[s]
  PROVE  (KeepsTimes(e) => KeepsTimes(k)) /\ (Genuine(e) => Genuine(k))
<1>1. /\ k.PAYMENT_TIMEOUT = e.PAYMENT_TIMEOUT /\ k.SESSION_ABSOLUTE_TTL = e.SESSION_ABSOLUTE_TTL
      /\ k.MOBILE_CLIENT_TTL = e.MOBILE_CLIENT_TTL /\ k.AGENT_HEARTBEAT = e.AGENT_HEARTBEAT
      /\ k.PRINT_COMMAND_LEASE = e.PRINT_COMMAND_LEASE
      /\ k.PRINTER_OUTPUT_RETENTION = e.PRINTER_OUTPUT_RETENTION
      /\ k.RETENTION_SETTLED_GRACE = e.RETENTION_SETTLED_GRACE
      /\ k.RETENTION_RECOVERY_GRACE = e.RETENTION_RECOVERY_GRACE
      /\ k.RETENTION_ORPHAN_GRACE = e.RETENTION_ORPHAN_GRACE
      /\ k.PRINT_JOB_TIMEOUT = e.PRINT_JOB_TIMEOUT
  BY DEF Settings, Numbers, AdminKeys, AdminConnections
<1>2. /\ k.MAX_NORMALIZED_FILE_BYTES = e.MAX_NORMALIZED_FILE_BYTES /\ k.MAX_FILE_BYTES = e.MAX_FILE_BYTES
      /\ k.MAX_DOCUMENT_PAGES = e.MAX_DOCUMENT_PAGES /\ k.MAX_PREVIEW_FILE_BYTES = e.MAX_PREVIEW_FILE_BYTES
      /\ k.DOCUMENT_PROCESSOR_MEMORY_MIB = e.DOCUMENT_PROCESSOR_MEMORY_MIB
  BY DEF Settings, Numbers, AdminKeys, AdminConnections
<1>3. /\ k.PRINTING_KIOSK_SERVICE = e.PRINTING_KIOSK_SERVICE /\ k.NODE_ENV = e.NODE_ENV
      /\ k.PRINTER_ADAPTER = e.PRINTER_ADAPTER
      /\ k.PAYMENT_TEST_OUTCOMES_ENABLED = e.PAYMENT_TEST_OUTCOMES_ENABLED
      /\ k.PRINT_TEST_OUTCOMES_ENABLED = e.PRINT_TEST_OUTCOMES_ENABLED
      /\ k.PRINTER_QUEUE_ALLOWLIST = e.PRINTER_QUEUE_ALLOWLIST /\ k.PRINTER_QUEUE_NAME = e.PRINTER_QUEUE_NAME
  BY DEF Settings, Numbers, AdminKeys, AdminConnections
<1>4. KeepsTimes(e) => KeepsTimes(k) BY <1>1, <1>2 DEF KeepsTimes
<1>5. Genuine(e) => Genuine(k) BY <1>3 DEF Genuine, Deployed, Simulates
<1> QED BY <1>4, <1>5

LEMMA KeptIsSound ==
  ASSUME NEW p \in {"API", "WORKER", "AGENT"}, NEW e, Complete(e), superRefine(Parsed(p, e))
  PROVE  /\ KeepsTimes(Kept(p, e)) /\ Genuine(Kept(p, e))
         /\ p # "API" => DOMAIN Kept(p, e) \cap AdminKeys = {}
         /\ p = "API" => Distinct(Kept(p, e))
<1> DEFINE w == Parsed(p, e)
           k == Kept(p, e)
<1>1. DOMAIN Placeholders = AdminKeys BY DEF Placeholders, AdminKeys, AdminConnections
<1>2. \A s \in Settings \ AdminKeys : k[s] = e[s] /\ w[s] = e[s]
  BY <1>1 DEF Kept, Parsed, Over, Complete
<1>3. \A s \in Numbers : w[s] \in Nat
  <2>1. \A s \in Numbers : e[s] \in Nat /\ s \in Settings
    BY DEF Complete, SettingsAllowed, Allowed, Settings
  <2>2. CASE p = "API" BY <2>1, <2>2 DEF Parsed
  <2>3. CASE p # "API"
    <3>1. \A s \in Numbers : s \in AdminKeys => s = "ADMIN_STEP_UP_TTL"
      BY DEF Numbers, AdminKeys, AdminConnections
    <3>2. w["ADMIN_STEP_UP_TTL"] = 300
      BY <1>1, <2>3 DEF Parsed, Over, Placeholders, AdminKeys
    <3> HIDE DEF w
    <3> QED BY <1>2, <2>1, <3>1, <3>2
  <2> QED BY <2>2, <2>3
<1> HIDE DEF w, k
<1>4. superRefine(w) BY DEF w
<1>5. KeepsTimes(w) /\ Genuine(w) BY <1>3, <1>4, TimesAreKept, DeployedIsGenuine
<1>6. KeepsTimes(k) /\ Genuine(k) BY <1>2, <1>5, KeptSaysTheSame
<1>7. p # "API" => DOMAIN k \cap AdminKeys = {} BY DEF k, Kept
<1>8. p = "API" => Distinct(k)
  <2>1. p = "API" => k = w BY DEF k, w, Kept, Parsed
  <2> QED BY <2>1, <1>4, ConnectionsAreDistinct
<1> QED BY <1>6, <1>7, <1>8 DEF k

LEMMA DeploymentInvIsSound == DeploymentInv => DeploymentIsSound
<1> SUFFICES ASSUME DeploymentInv PROVE DeploymentIsSound OBVIOUS
<1>1. ~superRefine(Parsed("WORKER", Source)) => ~superRefine(Parsed("API", Source))
  BY SourceIsComplete, WorkerPasses DEF Parsed
<1>2. ASSUME started # NotRunning
      PROVE  /\ KeepsTimes(started.keeps) /\ Genuine(started.keeps)
             /\ started.name # "API" => DOMAIN started.keeps \cap AdminKeys = {}
             /\ started.name = "API" => Distinct(started.keeps)
  <2>1. PICK p \in {"API", "WORKER", "AGENT"} :
          \E e : /\ Complete(e) /\ superRefine(Parsed(p, e)) /\ started = [name |-> p, keeps |-> Kept(p, e)]
    BY <1>2 DEF DeploymentInv
  <2>2. PICK e : /\ Complete(e) /\ superRefine(Parsed(p, e)) /\ started = [name |-> p, keeps |-> Kept(p, e)]
    BY <2>1
  <2>3. started.name = p /\ started.keeps = Kept(p, e) BY <2>2
  <2> QED BY <2>2, <2>3, KeptIsSound
<1> QED BY <1>1, <1>2 DEF DeploymentIsSound, Genuine, Distinct

\* Whatever a file says and an operator makes of it, a process that runs keeps the times
\* the other parts rely on, simulates nothing where it is deployed, and shares no
\* connection of the administration; and what stops a worker would stop the API.
THEOREM DeploymentIsAlwaysSound == DeploymentSpec => []DeploymentIsSound
<1>1. DeploymentSpec => []DeploymentInv BY InitDeploymentInv, DeploymentStep, PTL DEF DeploymentSpec
<1> QED BY <1>1, DeploymentInvIsSound, PTL
=============================================================================
