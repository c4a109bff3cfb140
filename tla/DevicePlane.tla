---------------------------- MODULE DevicePlane ------------------------------
(***************************************************************************)
(* What the control plane knows of a kiosk's printer: the agent's poll of  *)
(* the device (printer-telemetry, device/telemetry.ts), its beat           *)
(* (device/reporter.ts), the registry that stores both                     *)
(* (devices/service.ts) and the gate that sells on what is stored          *)
(* (devices/readiness.ts).                                                 *)
(*                                                                         *)
(* One kiosk, one agent.  A beat reads the device, then registers if it    *)
(* must, then sends a heartbeat, then a report if one is owed; each of     *)
(* these is a step, and a poll or a change of the device may fall between. *)
(* A request may be refused, lost, or given up by the agent while the      *)
(* server still works on it.  Ages are flags that only time sets.          *)
(***************************************************************************)
EXTENDS Integers, Sequences, FiniteSets, Functions

CONSTANTS
  Conditions,    \* what a device may say: records of paper and faults
  Capabilities,  \* capability snapshots, known by their digest
  Required,      \* PRINTER_TELEMETRY_REQUIRED
  FAILURES_BEFORE_UNAVAILABLE,  \* how long a silence lasts before it counts (3)
  MaxLate,       \* bound on reports the agent gave up on
  MaxReports,    \* bound on capability versions
  MaxMoves       \* bound on changes of the device, restarts, and readings that age

ASSUME DeviceAssumption ==
  /\ Required \in BOOLEAN /\ FAILURES_BEFORE_UNAVAILABLE \in Nat \ {0}
  /\ MaxLate \in Nat /\ MaxReports \in Nat /\ MaxMoves \in Nat

VARIABLES
  device,     \* the printer on the desk
  source,     \* the telemetry source's cache
  reporter,   \* the agent's beat
  registry,   \* kiosk_agents, printers and the kiosk's capabilities
  late        \* reports still at work at the server after the agent gave up

deviceVars == <<device, source, reporter, registry, late>>

NoCapabilities == "none"
Healths == {"READY", "WARNING", "OFFLINE"}

-----------------------------------------------------------------------------
(* The fold of a telemetry reading into the driver's health *)

BLOCKING_FAULTS ==
  {"NO_PAPER", "JAMMED", "DOOR_OPEN", "NO_TONER", "OFFLINE", "SERVICE_REQUESTED",
   "INPUT_TRAY_MISSING", "OUTPUT_TRAY_MISSING", "MARKER_SUPPLY_MISSING", "OUTPUT_FULL"}

\* Faults that warn.  Which warning they make decides only wording, and is left out.
ADVISORY_FAULTS == {"LOW_PAPER", "INPUT_TRAY_EMPTY", "LOW_TONER", "OUTPUT_NEAR_FULL"}

Severity(h) == CASE h = "READY" -> 0 [] h = "WARNING" -> 1 [] h = "OFFLINE" -> 2
worst(a, b) == IF Severity(a) >= Severity(b) THEN a ELSE b

\* A reading whose error column did not arrive, which is not an all-clear.
FaultsUnreported == {"UNREPORTED"}

Snapshot(paper, faults) == [kind |-> "SNAPSHOT", paper |-> paper, faults |-> faults, sustained |-> FALSE]
Unavailable(failures) ==
  [kind |-> "UNAVAILABLE", paper |-> "UNKNOWN", faults |-> {},
   sustained |-> failures >= FAILURES_BEFORE_UNAVAILABLE]

\* The fold only ever makes the driver's health worse, and silence about the
\* faults leaves it as it is.
applyPrinterTelemetry(driver, v) ==
  worst(driver,
    CASE v.kind = "UNAVAILABLE" -> IF Required /\ v.sustained THEN "OFFLINE" ELSE "READY"
      [] v.paper = "EMPTY" -> "OFFLINE"
      [] v.faults = FaultsUnreported -> "READY"
      [] v.faults \cap BLOCKING_FAULTS # {} -> "OFFLINE"
      [] v.faults \cap ADVISORY_FAULTS # {} -> "WARNING"
      [] OTHER -> "READY")

\* Everything about a reading that can change the fold, and nothing else.
healthSignature(v) ==
  IF v.kind = "UNAVAILABLE"
  THEN <<v.kind, v.sustained>>
  ELSE <<v.kind, v.faults, v.paper>>

-----------------------------------------------------------------------------
(* One reading of the device, column by column *)

\* The columns in the order they are walked: identity, faults, what the fold does not
\* ask for (engine, counter, supplies), paper.  Each may be lost, and the budget may
\* end the walk early.
COLUMN_ORDER == <<"serialNumber", "errorState", "engine", "inputCurrentLevel">>

\* Nothing is believed of a device that is not the pinned one, and one that says
\* who it is and nothing else has said nothing.
Readable(link, columns) ==
  /\ "serialNumber" \in columns /\ link = "PINNED"
  /\ columns # {"serialNumber"}

buildSnapshot(condition, columns) ==
  Snapshot(IF "inputCurrentLevel" \in columns THEN condition.paper ELSE "UNKNOWN",
           IF "errorState" \in columns THEN condition.faults ELSE FaultsUnreported)

-----------------------------------------------------------------------------

Faults == BLOCKING_FAULTS \cup ADVISORY_FAULTS

ASSUME ConditionsAssumption ==
  Conditions \subseteq [paper : {"PRESENT", "EMPTY", "UNKNOWN"}, faults : SUBSET Faults]

Verdicts == [kind : {"SNAPSHOT", "UNAVAILABLE"}, paper : {"PRESENT", "EMPTY", "UNKNOWN"},
             faults : (SUBSET Faults) \cup {FaultsUnreported}, sustained : BOOLEAN]
Digests == Capabilities \cup {NoCapabilities}
Readings == [approved : BOOLEAN, health : Healths,
             hash : Digests, verdict : Verdicts, old : BOOLEAN]
Reports == [approved : BOOLEAN, health : Healths, hash : Digests]
Rows == [approved : BOOLEAN, health : Healths, hash : Digests,
         silent : BOOLEAN, old : BOOLEAN]

DeviceTypeOK ==
  /\ device \in [condition : Conditions, driver : {"READY", "OFFLINE"}, caps : Capabilities,
                 link : {"PINNED", "OTHER", "NONE"}, bound : BOOLEAN, moves : 0..MaxMoves]
  /\ source \in [latest : Verdicts, failures : 0..FAILURES_BEFORE_UNAVAILABLE,
                 stale : BOOLEAN, old : BOOLEAN]
  /\ reporter \in [step : {"idle", "read", "heartbeat", "report"}, timer : {"soon", "interval"},
                   nudged : BOOLEAN, registered : BOOLEAN, reported : Digests \cup {"nothing"},
                   sent : BOOLEAN, reading : Readings]
  /\ registry \in [known : BOOLEAN, printers : {<<>>} \cup Seq(Rows),
                   caps : Digests, version : 0..MaxReports, overtaken : BOOLEAN]
  /\ Len(registry.printers) <= 1
  /\ late \in SUBSET [report : Reports, version : 0..MaxReports]

NothingRead == [approved |-> FALSE, health |-> "OFFLINE",
                hash |-> NoCapabilities, verdict |-> Unavailable(0), old |-> FALSE]

DeviceInit ==
  /\ device \in [condition : Conditions, driver : {"READY"}, caps : Capabilities,
                 link : {"PINNED"}, bound : {TRUE}, moves : {0}]
  /\ source = [latest |-> Unavailable(0), failures |-> 0, stale |-> FALSE, old |-> FALSE]
  /\ reporter = [step |-> "idle", timer |-> "soon", nudged |-> FALSE, registered |-> FALSE,
                 reported |-> "nothing", sent |-> FALSE, reading |-> NothingRead]
  /\ registry = [known |-> FALSE, printers |-> <<>>, caps |-> NoCapabilities, version |-> 0,
                 overtaken |-> FALSE]
  /\ late = {}

-----------------------------------------------------------------------------
(* The device and the clock *)

\* Paper, faults, driver, cable, certification and capabilities come and go.
DeviceMoves ==
  /\ device.moves < MaxMoves
  /\ \/ \E c \in Conditions \ {device.condition} :
          device' = [device EXCEPT !.condition = c, !.moves = @ + 1]
     \/ \E c \in Capabilities \ {device.caps} :
          device' = [device EXCEPT !.caps = c, !.moves = @ + 1]
     \/ \E h \in {"READY", "OFFLINE"} \ {device.driver} :
          device' = [device EXCEPT !.driver = h, !.moves = @ + 1]
     \/ \E l \in {"PINNED", "OTHER", "NONE"} \ {device.link} :
          device' = [device EXCEPT !.link = l, !.moves = @ + 1]
     \/ device' = [device EXCEPT !.bound = ~@, !.moves = @ + 1]
  /\ UNCHANGED <<source, reporter, registry, late>>

\* A cached reading outlives its poll intervals, a stored one the gate's bound.
DeviceTimePasses ==
  /\ device.moves < MaxMoves /\ device' = [device EXCEPT !.moves = @ + 1]
  /\ \/ /\ source.latest.kind = "SNAPSHOT" /\ ~source.stale
        /\ source' = [source EXCEPT !.stale = TRUE, !.old = TRUE]
        /\ UNCHANGED registry
     \/ /\ registry.printers # <<>> /\ ~registry.printers[1].silent
        /\ registry' = [registry EXCEPT !.printers[1].silent = TRUE, !.printers[1].old = TRUE]
        /\ UNCHANGED source
  /\ UNCHANGED <<reporter, late>>

\* Mutant: a change that lands while a beat is under way is not remembered.
nudgeDropped(r) ==
  IF r.step = "idle" THEN [r EXCEPT !.timer = "soon", !.sent = FALSE, !.reading = NothingRead] ELSE r

\* Bring the next beat forward; a beat under way may have read before the change.
nudge(r) ==
  IF r.step = "idle" THEN [r EXCEPT !.timer = "soon", !.sent = FALSE, !.reading = NothingRead]
  ELSE [r EXCEPT !.nudged = TRUE]

\* record: cache the verdict and wake the reporter if the fold could change.
Recorded(v, failures) ==
  /\ source' = [latest |-> v, failures |-> failures, stale |-> FALSE,
                old |-> IF v.kind = "SNAPSHOT" THEN FALSE ELSE source.old]
  /\ reporter' = IF healthSignature(v) = healthSignature(source.latest)
                 THEN reporter ELSE nudge(reporter)
  /\ UNCHANGED <<device, registry, late>>

\* The columns a walk can return, and the snapshots they make.
Walked == IF device.link = "NONE" THEN {{}} ELSE SUBSET Range(COLUMN_ORDER)
Snapshots == {buildSnapshot(device.condition, columns) :
                columns \in {c \in Walked : Readable(device.link, c)}}

\* A poll; one that fails counts.
PollTelemetry ==
  \/ \E v \in Snapshots : Recorded(v, 0)
  \/ LET n == IF source.failures < FAILURES_BEFORE_UNAVAILABLE THEN source.failures + 1
              ELSE source.failures
     IN  Recorded(Unavailable(n), n)

\* A read taken around a print (readNow): a failure is not counted, and a success
\* does not end a run of failures.
ReadNow == \E v \in Snapshots : Recorded(v, source.failures)

current ==
  IF source.latest.kind = "SNAPSHOT" /\ source.stale
  THEN Unavailable(FAILURES_BEFORE_UNAVAILABLE) ELSE source.latest

-----------------------------------------------------------------------------
(* The beat *)

\* One look at the machine; a printer that will not answer is not approved.
readDevice ==
  LET seen == [NothingRead EXCEPT !.verdict = source.latest, !.old = source.old]
  IN  IF ~device.bound THEN seen
      ELSE [seen EXCEPT !.approved = TRUE, !.hash = device.caps,
                        !.health = applyPrinterTelemetry(device.driver, current)]

\* tick: a change that landed while the beat was in flight gets its own.
\* Of the reading only what a delivered beat said of the printer is kept.
BeatOver(r) ==
  LET said == [NothingRead EXCEPT !.verdict = r.reading.verdict, !.health = r.reading.health]
  IN  [r EXCEPT !.step = "idle", !.nudged = FALSE,
                !.timer = IF r.nudged THEN "soon" ELSE "interval", !.sent = @ /\ ~r.nudged,
                !.reading = IF r.sent /\ ~r.nudged THEN said ELSE NothingRead]

StartBeat ==
  /\ reporter.step = "idle"
  /\ reporter' = [reporter EXCEPT !.step = "read", !.sent = FALSE, !.reading = readDevice]
  /\ UNCHANGED <<device, source, registry, late>>

registered == [registry EXCEPT !.known = TRUE]

\* A registration always owes a report.
Register ==
  /\ reporter.step = "read"
  /\ \/ reporter.registered /\ reporter' = [reporter EXCEPT !.step = "heartbeat"]
        /\ UNCHANGED registry
     \/ /\ ~reporter.registered
        /\ \/ /\ registry' = registered
              /\ \/ reporter' = [reporter EXCEPT !.step = "heartbeat", !.registered = TRUE,
                                                 !.reported = "nothing"]
                 \/ reporter' = BeatOver(reporter)
           \/ reporter' = BeatOver(reporter) /\ UNCHANGED registry
  /\ UNCHANGED <<device, source, late>>

ApprovedRow == registry.printers # <<>> /\ registry.printers[1].approved

\* The registry refreshes the health of the approved printer, and says whether
\* a report is owed.
heartbeatStored(b) ==
  IF ApprovedRow
  THEN [registry EXCEPT !.printers[1] =
          [@ EXCEPT !.health = b.health, !.silent = FALSE, !.old = b.old],
                        !.overtaken = FALSE]
  ELSE registry

capabilityReportRequired(b) ==
  ~ApprovedRow \/ registry.printers[1].hash # b.hash \/ ~b.approved

Unregistered(r) == [r EXCEPT !.registered = FALSE, !.reported = "nothing"]

Heartbeat ==
  LET b == reporter.reading
      owed(required) == required \/ reporter.reported # b.hash
      then(r, required) == IF owed(required) THEN [r EXCEPT !.step = "report"] ELSE BeatOver(r)
  IN /\ reporter.step = "heartbeat"
     /\ \/ /\ registry.known /\ registry' = heartbeatStored(b)
           /\ reporter' = then([reporter EXCEPT !.sent = TRUE], capabilityReportRequired(b))
        \/ /\ ~registry.known
           \* 409: nothing was stored under this agent
           /\ reporter' = [Unregistered(reporter) EXCEPT !.step = "report"]
           /\ UNCHANGED registry
        \/ /\ reporter' = then(reporter, FALSE)
           /\ registry' \in {registry, IF registry.known THEN heartbeatStored(b) ELSE registry}
     /\ UNCHANGED <<device, source, late>>

\* What a report stores.  Its version is the one read before the transaction.
reportPrinters(b, version) ==
  LET row == [approved |-> b.approved, health |-> b.health,
              hash |-> b.hash, silent |-> FALSE, old |-> FALSE]
      was == IF ApprovedRow THEN registry.printers[1].hash ELSE NoCapabilities
      kept == registry.printers # <<>> /\ registry.printers[1].old
      stored == IF b.approved THEN [row EXCEPT !.old = kept]
                ELSE IF registry.printers = <<>> THEN row
                ELSE [registry.printers[1] EXCEPT !.approved = FALSE, !.hash = NoCapabilities,
                                                  !.health = "OFFLINE"]
      updated == b.approved /\ was # b.hash
  IN  [registry EXCEPT !.printers = <<stored>>,
                       !.overtaken = FALSE,
                       !.caps = IF updated THEN b.hash ELSE @,
                       !.version = IF updated THEN version + 1 ELSE @]

\* What a report says of a reading.
ReportOf(b) == [approved |-> b.approved, health |-> b.health, hash |-> b.hash]

Report ==
  LET b == reporter.reading IN
  /\ reporter.step = "report"
  /\ \/ /\ registry.known /\ registry.version < MaxReports
        /\ registry' = reportPrinters(b, registry.version)
        /\ reporter' = BeatOver([reporter EXCEPT !.reported = b.hash])
        /\ UNCHANGED late
     \/ /\ ~registry.known
        /\ reporter' = BeatOver(Unregistered(reporter))
        /\ UNCHANGED <<registry, late>>
     \* Refused or lost: or given up on, its version read and its work not done.
     \/ /\ reporter' = BeatOver(reporter)
        /\ \/ UNCHANGED late
           \/ registry.known /\ Cardinality(late) < MaxLate /\ registry.version < MaxReports
              /\ late' = late \cup {[report |-> ReportOf(b), version |-> registry.version]}
        /\ UNCHANGED registry
  /\ UNCHANGED <<device, source>>

LateReport ==
  /\ \E l \in late :
       /\ registry' = [reportPrinters(l.report, l.version) EXCEPT !.overtaken = TRUE]
       /\ late' = late \ {l}
  /\ UNCHANGED <<device, source, reporter>>

\* The agent restarts, or the control plane's rows are rebuilt.
AgentRestarts ==
  /\ device.moves < MaxMoves /\ device' = [device EXCEPT !.moves = @ + 1]
  /\ source' = [latest |-> Unavailable(0), failures |-> 0, stale |-> FALSE, old |-> FALSE]
  /\ reporter' = [reporter EXCEPT !.step = "idle", !.timer = "soon", !.nudged = FALSE,
                    !.registered = FALSE, !.reported = "nothing", !.sent = FALSE]
  /\ UNCHANGED <<registry, late>>

RegistryRebuilt ==
  /\ registry.known /\ device.moves < MaxMoves
  /\ device' = [device EXCEPT !.moves = @ + 1]
  /\ registry' = [registry EXCEPT !.known = FALSE]
  /\ UNCHANGED <<source, reporter, late>>

DeviceNext ==
  \/ DeviceMoves \/ DeviceTimePasses \/ PollTelemetry \/ ReadNow
  \/ StartBeat \/ Register \/ Heartbeat \/ Report \/ LateReport
  \/ AgentRestarts \/ RegistryRebuilt

-----------------------------------------------------------------------------
(* The gate before a session, and, strict, before a payment *)

\* Whether the stored row lets a customer begin.  A kiosk that has never reported
\* sells; WARNING sells; the age of the reading counts only where money moves.
classifyPrinterReadiness(row, strict) ==
  CASE registry.printers = <<>> -> "READY"
    [] ~row.approved -> "PRINTER_NOT_READY"
    [] row.silent -> "PRINTER_SILENT"
    [] row.health = "OFFLINE" -> "PRINTER_OFFLINE"
    [] strict /\ row.old -> "PRINTER_TELEMETRY_STALE"
    [] OTHER -> "READY"

assertReady(strict) ==
  registry.printers = <<>> \/ classifyPrinterReadiness(registry.printers[1], strict) = "READY"

-----------------------------------------------------------------------------
\* Paper in the tray, and the tray empty.
DeviceConditions ==
  {[paper |-> "PRESENT", faults |-> {}], [paper |-> "EMPTY", faults |-> {"LOW_PAPER"}]}

DeviceSpec == DeviceInit /\ [][DeviceNext]_deviceVars

-----------------------------------------------------------------------------
(* Properties *)

\* Hazard: a reading that changes while a beat is being sent, and a gate that
\* sells on what was stored before.  Once a beat was delivered and the next one
\* may wait its interval, what the beat was made of is still what the source
\* holds: no change of paper or faults waits for the schedule (reporter.ts nudge,
\* tick; telemetry.ts record).  And unless a report the agent had given up on came
\* in since, the gate does not sell on a printer that beat called blocked, however
\* registration, heartbeat and report were lost or refused (readiness.ts).
NoChangeForgotten ==
  /\ DeviceTypeOK
  /\ reporter.step = "idle" /\ reporter.timer = "interval" /\ reporter.sent =>
       /\ healthSignature(reporter.reading.verdict) = healthSignature(source.latest)
       /\ reporter.reading.health = "OFFLINE" /\ registry.known /\ registry.printers # <<>>
            /\ ~registry.overtaken => ~assertReady(FALSE)
=============================================================================
