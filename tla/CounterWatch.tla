---------------------------- MODULE CounterWatch ----------------------------
(***************************************************************************)
(* The page-counter watch of the kiosk agent (print/marker.ts).  The queue *)
(* says a job is done when its data has been handed over; the print engine *)
(* goes on marking paper, stops, runs out, or is reset meanwhile.  The     *)
(* agent follows the engine's life counter over an unreliable link and may *)
(* only ever take a claimed success away.                                  *)
(***************************************************************************)
EXTENDS Integers

CONSTANTS
  Expected,       \* marks the job needs, in the counter's own unit
  StillReads,     \* stillReadsBeforeStopped
  StartupReads,   \* startupReadsBeforeStopped
  SilentReads,    \* silentReadsBeforeUnknown
  MaxPolls,       \* readings that fit before the job's deadline
  MaxForeign      \* bound on marks another job makes meanwhile

ASSUME CounterWatchAssumption ==
  /\ Expected \in Nat \ {0} /\ MaxPolls \in Nat /\ MaxForeign \in Nat
  /\ StillReads \in Nat \ {0} /\ SilentReads \in Nat \ {0}
  \* "It has to be larger": a flat counter before the first mark is not a stop.
  /\ StartupReads \in Nat /\ StartupReads > StillReads

VARIABLES
  engine,    \* [count, printed, foreign, fault, flat]: the printer
  watch,     \* [step, before, latest, highest, still, silent, polls]
  evidence,  \* MarkerEvidence: "none", "SHORTFALL", "SUFFICIENT" or "UNKNOWN"
  result     \* confidence of the COMPLETED result the agent reports

counterVars == <<engine, watch, evidence, result>>

\* The counter starts above what any job here can mark, so a cleared counter
\* reads lower than the baseline.
Baseline == Expected + MaxForeign + 1
NoReading == -1
Units == {"IMPRESSIONS", "SHEETS", "OTHER"}

\* expectedMarkerDelta: the unit picks one of the job's two counts; here both
\* are Expected, and a unit nobody can map has none.
expectedMarkerDelta(unit) == IF unit = "OTHER" THEN NoReading ELSE Expected

readMarkerEvidence(before, after, sameUnit) ==
  LET observed == after - before
  IN CASE ~sameUnit \/ observed < 0 -> "UNKNOWN"
       [] sameUnit /\ observed \in 0 .. Expected - 1 -> "SHORTFALL"
       [] OTHER -> "SUFFICIENT"

\* applyMarkerEvidence: a shortfall takes the confirmation away, nothing gives it.
applyMarkerEvidence(confidence, verdict) ==
  IF verdict = "SHORTFALL" THEN "UNCONFIRMED" ELSE confidence

Conclude(verdict) ==
  /\ evidence' = verdict /\ watch' = [watch EXCEPT !.step = "done"]
  /\ result' = applyMarkerEvidence(result, verdict)

-----------------------------------------------------------------------------
\* The baseline is read before the device is given the work.
readMarker ==
  /\ watch.step = "before"
  /\ \E seen \in {NoReading, engine.count} :
       watch' = [watch EXCEPT !.step = "printing", !.before = seen, !.highest = seen]
  /\ UNCHANGED <<engine, evidence, result>>

\* The queue lets go of the job.  Only a confirmed completion is watched.
confirmAgainstMarker ==
  /\ watch.step = "printing"
  /\ \E claim \in {"CONFIRMED", "UNCONFIRMED"}, unit \in Units :
       IF claim = "UNCONFIRMED" \/ watch.before = NoReading
            \/ expectedMarkerDelta(unit) = NoReading
       THEN /\ evidence' = "UNKNOWN" /\ result' = claim
            /\ watch' = [watch EXCEPT !.step = "done"]
       ELSE /\ watch' = [watch EXCEPT !.step = "watching"] /\ result' = claim
            /\ UNCHANGED evidence
  /\ UNCHANGED engine

InTime == watch.step = "watching" /\ watch.polls < MaxPolls
MoreSilent == [watch EXCEPT !.silent = @ + 1, !.polls = @ + 1]

\* A reading that cannot be taken is not evidence, but enough of them end it.
readNothing ==
  /\ InTime
  /\ IF watch.silent + 1 >= SilentReads THEN Conclude("UNKNOWN")
     ELSE watch' = MoreSilent /\ UNCHANGED <<evidence, result>>
  /\ UNCHANGED engine

engineHasStopped == engine.fault
Started(highest) == highest > watch.before

\* When a short counter is final: the engine made something and then stood
\* still under a fault, or it stood still long enough.
stoppedShortOnFault(highest, still) ==
  \/ engineHasStopped
  \/ still >= IF Started(highest) THEN StillReads ELSE StartupReads
stoppedShort(highest, still) ==
  \/ Started(highest) /\ still > 0 /\ engineHasStopped
  \/ still >= IF Started(highest) THEN StillReads ELSE StartupReads

observeMarker ==
  /\ InTime
  /\ \E sameUnit \in BOOLEAN :
     LET moved == engine.count > watch.highest
         highest == IF moved THEN engine.count ELSE watch.highest
         still == IF moved THEN 0 ELSE watch.still + 1
         verdict == readMarkerEvidence(watch.before, engine.count, sameUnit)
     IN IF verdict # "SHORTFALL" \/ stoppedShort(highest, still)
        THEN Conclude(verdict)
        ELSE /\ watch' = [watch EXCEPT !.latest = engine.count, !.highest = highest,
                            !.still = still, !.silent = 0, !.polls = @ + 1]
             /\ UNCHANGED <<evidence, result>>
  /\ engine' = [engine EXCEPT !.flat = @ + 1]

\* Out of time: still marking is unknown, never short.
observationExpires ==
  /\ watch.step = "watching" /\ watch.polls >= MaxPolls
  /\ Conclude("UNKNOWN") /\ UNCHANGED engine

-----------------------------------------------------------------------------
\* The engine: it marks a page of this job, marks one of another job, asserts
\* or clears a fault, is cleared by a technician.
enginePrints ==
  /\ watch.step \in {"printing", "watching"} /\ engine.printed < Expected
  /\ engine' = [engine EXCEPT !.count = @ + 1, !.printed = @ + 1, !.flat = 0]
  /\ UNCHANGED <<watch, evidence, result>>
foreignPrint ==
  /\ engine.foreign < MaxForeign
  /\ engine' = [engine EXCEPT !.count = @ + 1, !.foreign = @ + 1, !.flat = 0]
  /\ UNCHANGED <<watch, evidence, result>>
faultChanges ==
  /\ engine' = [engine EXCEPT !.fault = ~@]
  /\ UNCHANGED <<watch, evidence, result>>
counterCleared ==
  /\ engine.count >= Baseline /\ watch.step # "before"
  /\ engine' = [engine EXCEPT !.count = 0] /\ UNCHANGED <<watch, evidence, result>>

CounterInit ==
  /\ engine = [count |-> Baseline, printed |-> 0, foreign |-> 0, fault |-> FALSE, flat |-> 0]
  /\ watch = [step |-> "before", before |-> NoReading, latest |-> NoReading,
              highest |-> NoReading, still |-> 0, silent |-> 0, polls |-> 0]
  /\ evidence = "none" /\ result = "none"

CounterNext ==
  \/ readMarker \/ confirmAgainstMarker \/ readNothing \/ observeMarker
  \/ observationExpires
  \/ enginePrints \/ foreignPrint \/ faultChanges \/ counterCleared

CounterSpec == CounterInit /\ [][CounterNext]_counterVars

-----------------------------------------------------------------------------
CounterTypeOK ==
  /\ engine.count \in 0 .. 2 * Baseline /\ engine.printed \in 0..Expected
  /\ watch.step \in {"before", "printing", "watching", "done"}
  /\ watch.polls \in 0..MaxPolls /\ watch.silent \in 0..SilentReads
  /\ evidence \in {"none", "SHORTFALL", "SUFFICIENT", "UNKNOWN"}
  /\ result \in {"none", "CONFIRMED", "UNCONFIRMED"}

\* How many readings in a row must have seen no new mark before a job may be
\* called short: the startup allowance before its first mark, else the ordinary
\* one, which a fault shortens to a single flat reading.  The reading that saw
\* the last mark comes first.
PatienceOwed ==
  IF engine.printed + engine.foreign = 0 THEN StartupReads
  ELSE 1 + IF engine.fault THEN 1 ELSE StillReads

\* The counter's verdict is about paper.  A success is taken away only from a job
\* of which pages are missing, after the engine stood still for as long as the
\* engine is owed: an empty tray is reported while the last sheet is still on its
\* way, so a fault ends nothing before the first mark; a cleared counter and a
\* silent link never make a job short.  And when nothing else printed, a counter
\* found sufficient means that every page of the job had been marked.
CounterTellsPaper ==
  /\ []CounterTypeOK
  /\ [][evidence' # evidence =>
          /\ evidence' = "SHORTFALL" =>
               /\ engine.printed < Expected /\ result' = "UNCONFIRMED"
               /\ engine'.flat >= PatienceOwed
          /\ evidence' = "SUFFICIENT" /\ engine.foreign = 0 => engine.printed = Expected]_counterVars
=============================================================================
