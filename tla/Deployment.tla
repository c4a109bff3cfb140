----------------------------- MODULE Deployment ------------------------------
(***************************************************************************)
(* What a process of this system agrees to run with (packages/config): it  *)
(* finds its configuration file, lays the file over the schema's defaults  *)
(* and what it inherited over both, and starts only if every cross-check   *)
(* of the schema passes.  The API reads everything; worker and kiosk agent *)
(* read the same file without the administration's settings.               *)
(*                                                                         *)
(* An environment is a record under the source's names, times in seconds   *)
(* and sizes in MiB.  A URL is known by what can be told of it: which      *)
(* database it names, or how it travels.                                   *)
(***************************************************************************)
EXTENDS Integers, FiniteSets

CONSTANTS
  Defaults,       \* the schema's defaults
  Files,          \* configuration files an operator starts from
  Alternatives,   \* for each setting, the values an operator may write
  MaxEdits        \* bound on edits of the file

VARIABLES
  host,      \* where the process starts: whether it is told its file, what it inherits
  file,      \* the file's settings, or Missing
  edits,     \* edits so far
  started    \* the process that runs, and what with

deploymentVars == <<host, file, edits, started>>

Roles == {"OPERATOR", "ADMIN", "TECHNICAL_ADMIN"}
AdminConnections ==
  {"ADMIN_READ_DATABASE_URL", "ADMIN_WRITE_DATABASE_URL", "ADMIN_REFUND_DATABASE_URL",
   "ADMIN_PEOPLE_DATABASE_URL", "ADMIN_PRICING_DATABASE_URL"}
Connections == {"DATABASE_URL"} \cup AdminConnections
AdminKeys ==
  AdminConnections \cup
  {"ADMIN_ORIGIN", "ADMIN_WEBAUTHN_RP_ID", "ADMIN_SESSION_PEPPER", "ADMIN_BREAK_GLASS_PEPPER",
   "ADMIN_SESSION_IDLE", "ADMIN_SESSION_ABSOLUTE", "ADMIN_STEP_UP_TTL"}
productionSecrets ==
  {"COOKIE_SIGNING_KEY", "UPLOAD_TOKEN_PEPPER", "MOBILE_TOKEN_PEPPER", "S3_SECRET_ACCESS_KEY",
   "S3_WORKER_SECRET_ACCESS_KEY", "DOCUMENT_PROCESSOR_AUTH_TOKEN", "DEV_KIOSK_API_KEY",
   "PAYMENT_WEBHOOK_SECRET", "ADMIN_SESSION_PEPPER", "ADMIN_BREAK_GLASS_PEPPER"}

\* The settings that are a number, and all that the checks read.
Numbers ==
  {"SESSION_IDLE_TTL", "SESSION_ABSOLUTE_TTL", "MOBILE_CLIENT_TTL", "QUOTE_TTL", "PAYMENT_TIMEOUT",
   "PRINT_JOB_TIMEOUT", "PRINT_COMMAND_LEASE", "PRINTER_OUTPUT_RETENTION", "AGENT_HEARTBEAT",
   "RETENTION_SETTLED_GRACE", "RETENTION_RECOVERY_GRACE", "RETENTION_ORPHAN_GRACE",
   "DOCUMENT_PROCESSOR_TIMEOUT", "DOCUMENT_PROCESSOR_LEASE", "DOCUMENT_PROCESSOR_RESPONSE_MAX_BYTES",
   "DOCUMENT_PROCESSOR_SCRATCH_BYTES", "DOCUMENT_PROCESSOR_MEMORY_MIB", "MAX_FILE_BYTES",
   "MAX_SESSION_UPLOAD_BYTES", "MAX_FILES_PER_SESSION", "MAX_DOCUMENT_PAGES", "MAX_NORMALIZED_FILE_BYTES",
   "MAX_PREVIEW_FILE_BYTES", "PREVIEW_MAX_PIXELS", "MAX_IMAGE_DIMENSION_PIXELS", "MAX_SELECTED_PAGES",
   "MAX_PRINTED_SIDES", "PRINTER_TELEMETRY_BUDGET", "PRINTER_TELEMETRY_TIMEOUT",
   "PRINTER_TELEMETRY_MAX_AGE", "PRINTER_TELEMETRY_POLL", "ADMIN_STEP_UP_TTL"}
Settings ==
  Numbers \cup Connections \cup AdminKeys \cup productionSecrets \cup
  {"NODE_ENV", "PRINTING_KIOSK_SERVICE", "PRINTER_ADAPTER", "PRINTER_QUEUE_ALLOWLIST",
   "PRINTER_QUEUE_NAME", "PRINTER_WINDOWS_HOST_PATH", "PRINTER_DEVICE_PROFILES_READABLE",
   "PRINTER_TELEMETRY_ENABLED", "PRINTER_TELEMETRY_NAMED", "PRINTER_TELEMETRY_KEYS_DIFFER",
   "PAYMENT_TEST_OUTCOMES_ENABLED", "PRINT_TEST_OUTCOMES_ENABLED", "DOCUMENT_PROCESSOR_IMAGE",
   "S3_KMS_KEY_ID", "S3_SERVER_SIDE_ENCRYPTION", "S3_ACCESS_KEY_ID", "S3_WORKER_ACCESS_KEY_ID",
   "API_ORIGIN", "KIOSK_ORIGIN", "UPLOAD_ORIGIN", "PUBLIC_UPLOAD_ORIGIN", "DOCUMENT_PROCESSOR_URL",
   "S3_ENDPOINT", "REDIS_URL"}

\* What stands in for a connection or a secret outside the API, which nobody writes.
StandIns ==
  {"not-loaded-session", "not-loaded-break-glass", "not-loaded-read", "not-loaded-write",
   "not-loaded-refund", "not-loaded-people", "not-loaded-pricing"}

\* A value the schema takes for a setting.
Allowed(k, v) ==
  /\ k \in Numbers => v \in Nat
  /\ k \in Connections \cup productionSecrets => v \notin StandIns

ASSUME DeploymentAssumption ==
  /\ Settings \subseteq DOMAIN Defaults
  /\ \A f \in Files \cup {Defaults} : \A k \in DOMAIN f : Allowed(k, f[k])
  /\ \A k \in DOMAIN Alternatives : \A v \in Alternatives[k] : Allowed(k, v)

-----------------------------------------------------------------------------
(* The cross-checks, in the schema's order *)

SessionWindows(e) ==
  /\ e.SESSION_ABSOLUTE_TTL >= e.SESSION_IDLE_TTL
  /\ e.MAX_SESSION_UPLOAD_BYTES >= e.MAX_FILE_BYTES
  /\ e.MOBILE_CLIENT_TTL >= e.SESSION_IDLE_TTL
  /\ e.DOCUMENT_PROCESSOR_LEASE > e.DOCUMENT_PROCESSOR_TIMEOUT

\* One archive holds the normalised file, every preview and an overhead of 1 MiB;
\* the scratch also the upload and a page's working set; the memory also the runtime.
ProcessorRoom(e) ==
  LET previews == e.MAX_DOCUMENT_PAGES * e.MAX_PREVIEW_FILE_BYTES
  IN  /\ e.PREVIEW_MAX_PIXELS <= e.MAX_IMAGE_DIMENSION_PIXELS
      /\ e.DOCUMENT_PROCESSOR_RESPONSE_MAX_BYTES >= e.MAX_NORMALIZED_FILE_BYTES + previews + 1
      /\ e.DOCUMENT_PROCESSOR_SCRATCH_BYTES >=
           e.DOCUMENT_PROCESSOR_RESPONSE_MAX_BYTES + e.MAX_NORMALIZED_FILE_BYTES
             + e.MAX_FILE_BYTES + previews + 96
      /\ e.DOCUMENT_PROCESSOR_MEMORY_MIB >= e.DOCUMENT_PROCESSOR_SCRATCH_BYTES + 1024

Selectable(e) ==
  /\ e.MAX_SELECTED_PAGES <= e.MAX_DOCUMENT_PAGES * e.MAX_FILES_PER_SESSION
  /\ e.MAX_PRINTED_SIDES >= e.MAX_SELECTED_PAGES

PriceWindows(e) ==
  /\ e.QUOTE_TTL <= e.SESSION_IDLE_TTL
  /\ e.PAYMENT_TIMEOUT <= e.QUOTE_TTL

PrintWindows(e) ==
  /\ e.PRINT_COMMAND_LEASE < e.PRINT_JOB_TIMEOUT
  /\ e.PRINT_JOB_TIMEOUT <= e.SESSION_ABSOLUTE_TTL
  /\ e.PRINTER_OUTPUT_RETENTION >= e.PRINT_JOB_TIMEOUT

OrphanCutoff(e) ==
  \A grace \in {e.RETENTION_SETTLED_GRACE, e.RETENTION_RECOVERY_GRACE} :
    e.RETENTION_ORPHAN_GRACE > e.SESSION_ABSOLUTE_TTL + grace

\* A real device has its host program, time enough and a certified queue.
DeviceNamed(e) ==
  /\ e.PRINTER_ADAPTER = "windows" => e.PRINTER_WINDOWS_HOST_PATH # "" /\ e.PRINT_JOB_TIMEOUT >= 120
  /\ e.PRINTER_ADAPTER # "mock" => e.PRINTER_QUEUE_ALLOWLIST # {}
  /\ e.PRINTER_DEVICE_PROFILES_READABLE

\* Telemetry is configured as a whole or not at all.
TelemetryComplete(e) ==
  e.PRINTER_TELEMETRY_ENABLED =>
    /\ e.PRINTER_TELEMETRY_NAMED
    /\ e.PRINTER_TELEMETRY_KEYS_DIFFER
    /\ e.PRINTER_TELEMETRY_BUDGET > e.PRINTER_TELEMETRY_TIMEOUT
    /\ e.PRINTER_TELEMETRY_MAX_AGE > e.PRINTER_TELEMETRY_POLL + e.AGENT_HEARTBEAT

Simulates(e) ==
  e.PRINTER_ADAPTER = "mock" \/ e.PAYMENT_TEST_OUTCOMES_ENABLED \/ e.PRINT_TEST_OUTCOMES_ENABLED

\* Mutant: only NODE_ENV says what a deployment is.
ServiceIsRealIfBuilt(e) == e.PRINTING_KIOSK_SERVICE /\ e.NODE_ENV = "production" => ~Simulates(e)

\* An installed service is a deployment, whatever NODE_ENV says.
ServiceIsReal(e) == e.PRINTING_KIOSK_SERVICE => ~Simulates(e)

QueueApproved(e) ==
  e.PRINTER_QUEUE_NAME # "" => e.PRINTER_QUEUE_NAME \in e.PRINTER_QUEUE_ALLOWLIST

HeartbeatWithinLease(e) == e.AGENT_HEARTBEAT < e.PRINT_COMMAND_LEASE

\* A key of the bucket's needs the encryption it is for; phones are sent where they
\* are listened to.
StorageAndUpload(e) ==
  /\ e.S3_KMS_KEY_ID # "unset" => e.S3_SERVER_SIDE_ENCRYPTION = "aws:kms"
  /\ e.PUBLIC_UPLOAD_ORIGIN = e.UPLOAD_ORIGIN

\* The browser offers credentials only to https, or to the machine itself, and only
\* to a page on the relying party's host or below it.
AdminPage(e) ==
  /\ e.ADMIN_ORIGIN \in {"tls", "loopback"}
  /\ e.ADMIN_WEBAUTHN_RP_ID \in {"host", "parent"}

AdminWindows(e) ==
  \A r \in Roles : /\ e.ADMIN_SESSION_IDLE[r] <= e.ADMIN_SESSION_ABSOLUTE[r]
                   /\ e.ADMIN_STEP_UP_TTL <= e.ADMIN_SESSION_IDLE[r]

WellFormedUrls(e) == \A c \in Connections : e[c] # "malformed"

NotShared(e, own, others) == e[own] # "unset" => \A c \in others : e[own] # e[c]

RefundConnection(e) ==
  NotShared(e, "ADMIN_REFUND_DATABASE_URL",
    {"DATABASE_URL", "ADMIN_READ_DATABASE_URL", "ADMIN_WRITE_DATABASE_URL", "ADMIN_PEOPLE_DATABASE_URL"})

PeopleConnection(e) ==
  NotShared(e, "ADMIN_PEOPLE_DATABASE_URL",
    {"DATABASE_URL", "ADMIN_READ_DATABASE_URL", "ADMIN_WRITE_DATABASE_URL"})

PricingConnection(e) ==
  NotShared(e, "ADMIN_PRICING_DATABASE_URL", Connections \ {"ADMIN_PRICING_DATABASE_URL"})

ProductionConnections(e) ==
  /\ \A c \in Connections : e[c] # "unset"
  /\ e.ADMIN_READ_DATABASE_URL # e.DATABASE_URL
  /\ e.ADMIN_WRITE_DATABASE_URL \notin {e.DATABASE_URL, e.ADMIN_READ_DATABASE_URL}

ProductionSecrets(e) ==
  /\ \A s \in productionSecrets : e[s] # "placeholder"
  /\ \A s, t \in productionSecrets : e[s] = e[t] => s = t
  /\ e.S3_ACCESS_KEY_ID # e.S3_WORKER_ACCESS_KEY_ID

\* Encrypted on the way, or not leaving the machine; what phones and
\* administrators reach has no such exception.
ProductionTransport(e) ==
  /\ e.DOCUMENT_PROCESSOR_IMAGE = "pinned"
  /\ e.S3_SERVER_SIDE_ENCRYPTION # "unset"
  /\ \A u \in {"API_ORIGIN", "KIOSK_ORIGIN", "DOCUMENT_PROCESSOR_URL", "S3_ENDPOINT", "REDIS_URL"} :
       e[u] \in {"tls", "loopback"}
  /\ \A u \in {"UPLOAD_ORIGIN", "PUBLIC_UPLOAD_ORIGIN", "ADMIN_ORIGIN"} : e[u] = "tls"
  /\ \A c \in Connections : e[c] # "unverified"

superRefine(e) ==
  /\ SessionWindows(e) /\ ProcessorRoom(e) /\ Selectable(e) /\ PriceWindows(e) /\ PrintWindows(e)
  /\ OrphanCutoff(e) /\ DeviceNamed(e) /\ TelemetryComplete(e) /\ ServiceIsReal(e)
  /\ QueueApproved(e) /\ HeartbeatWithinLease(e) /\ StorageAndUpload(e) /\ AdminPage(e) /\ AdminWindows(e)
  /\ WellFormedUrls(e) /\ RefundConnection(e) /\ PeopleConnection(e) /\ PricingConnection(e)
  /\ e.NODE_ENV = "production" =>
       /\ ProductionConnections(e) /\ ~Simulates(e)
       /\ ProductionSecrets(e) /\ ProductionTransport(e)

-----------------------------------------------------------------------------
(* Loading *)

\* What stands in for the administration's settings outside the API: valid, and
\* different from each other.
Placeholders ==
  [ADMIN_ORIGIN |-> "tls", ADMIN_WEBAUTHN_RP_ID |-> "host",
   ADMIN_SESSION_PEPPER |-> "not-loaded-session", ADMIN_BREAK_GLASS_PEPPER |-> "not-loaded-break-glass",
   ADMIN_SESSION_IDLE |-> [OPERATOR |-> 21600, ADMIN |-> 7200, TECHNICAL_ADMIN |-> 3600],
   ADMIN_SESSION_ABSOLUTE |-> [OPERATOR |-> 2592000, ADMIN |-> 1209600, TECHNICAL_ADMIN |-> 604800],
   ADMIN_STEP_UP_TTL |-> 300,
   ADMIN_READ_DATABASE_URL |-> "not-loaded-read", ADMIN_WRITE_DATABASE_URL |-> "not-loaded-write",
   ADMIN_REFUND_DATABASE_URL |-> "not-loaded-refund", ADMIN_PEOPLE_DATABASE_URL |-> "not-loaded-people",
   ADMIN_PRICING_DATABASE_URL |-> "not-loaded-pricing"]

\* Settings laid over others.
Over(top, e) == [k \in DOMAIN top \cup DOMAIN e |-> IF k \in DOMAIN top THEN top[k] ELSE e[k]]

\* What each process parses, and what it keeps of it.
Parsed(p, e) == IF p = "API" THEN e ELSE Over(Placeholders, e)
Kept(p, e) == IF p = "API" THEN e ELSE [k \in DOMAIN e \ AdminKeys |-> e[k]]

Missing == [missing |-> TRUE]

\* A named file that is not there is fatal; one looked for may be absent.  What
\* the process inherited wins over the file.
FileFound == host.named => file # Missing
Source == Over(host.inherited, IF file = Missing THEN Defaults ELSE Over(file, Defaults))

NotRunning == [name |-> "none", keeps |-> <<>>]

\* An installed service is told its file and that it is one; any process may
\* inherit that it is in production.
DeploymentInit ==
  /\ \E service, named \in BOOLEAN,
        mode \in {<<>>, [NODE_ENV |-> "production"]} :
       /\ service => named
       /\ host = [named |-> named,
                  inherited |-> IF service THEN Over([PRINTING_KIOSK_SERVICE |-> TRUE], mode) ELSE mode]
  /\ file \in Files \cup {Missing}
  /\ edits = 0
  /\ started = NotRunning

\* The operator writes one setting.
EditFile ==
  /\ started = NotRunning /\ file # Missing /\ edits < MaxEdits
  /\ \E k \in DOMAIN Alternatives : \E v \in Alternatives[k] : file' = Over([s \in {k} |-> v], file)
  /\ file' # file /\ edits' = edits + 1
  /\ UNCHANGED <<host, started>>

\* A process starts; one that refuses its settings ends at once.
StartProcess ==
  /\ started = NotRunning /\ FileFound
  /\ \E p \in {"API", "WORKER", "AGENT"} :
       /\ superRefine(Parsed(p, Source))
       /\ started' = [name |-> p, keeps |-> Kept(p, Source)]
  /\ UNCHANGED <<host, file, edits>>

DeploymentNext == EditFile \/ StartProcess

DeploymentSpec == DeploymentInit /\ [][DeploymentNext]_deploymentVars

-----------------------------------------------------------------------------
(* Properties *)

Deployed(e) == e.PRINTING_KIOSK_SERVICE \/ e.NODE_ENV = "production"

\* What the other modules assume of their constants: prices, payments and prints end
\* inside their session, a lease is renewed before it ends, the evidence of a print
\* outlives every hand-out of it, nothing a session may still own is an orphan, and
\* the largest document fits the processor with all it is turned into.
KeepsTimes(e) ==
  /\ e.PAYMENT_TIMEOUT <= e.SESSION_ABSOLUTE_TTL /\ e.PAYMENT_TIMEOUT <= e.MOBILE_CLIENT_TTL
  /\ e.AGENT_HEARTBEAT < e.PRINT_COMMAND_LEASE /\ e.PRINT_COMMAND_LEASE < e.PRINTER_OUTPUT_RETENTION
  /\ \A grace \in {e.RETENTION_SETTLED_GRACE, e.RETENTION_RECOVERY_GRACE} :
       e.PRINT_JOB_TIMEOUT + grace < e.RETENTION_ORPHAN_GRACE
  /\ e.MAX_NORMALIZED_FILE_BYTES + e.MAX_FILE_BYTES + 2 * e.MAX_DOCUMENT_PAGES * e.MAX_PREVIEW_FILE_BYTES
       < e.DOCUMENT_PROCESSOR_MEMORY_MIB

\* Hazard: settings that are each allowed and together are not, an installed kiosk
\* that finds no file, and a connection two powers share.  Whatever the file says,
\* a process that runs keeps the times the other parts rely on; where it is deployed
\* it drives a certified printer and lets nobody dictate outcomes; in the API no
\* connection with a power over money, people or prices is anybody else's, and in
\* production no two are the same; outside the API nothing of the administration is
\* kept; and what stops a worker or an agent would have stopped the API as well
\* (config/src/index.ts superRefine, loadNonAdminEnvironment,
\* loadWorkspaceEnvironmentFile).
DeploymentIsSound ==
  /\ started # NotRunning => LET e == started.keeps IN
       /\ KeepsTimes(e)
       /\ Deployed(e) => /\ ~Simulates(e)
                         /\ e.PRINTER_QUEUE_ALLOWLIST # {}
                         /\ e.PRINTER_QUEUE_NAME \in e.PRINTER_QUEUE_ALLOWLIST \cup {""}
       /\ started.name # "API" => DOMAIN e \cap AdminKeys = {}
       /\ started.name = "API" =>
            \A c, d \in Connections : c # d /\ e[c] = e[d] =>
              /\ e.NODE_ENV # "production"
              /\ e[c] = "unset" \/ {c, d} \subseteq
                   {"DATABASE_URL", "ADMIN_READ_DATABASE_URL", "ADMIN_WRITE_DATABASE_URL"}
  /\ ~superRefine(Parsed("WORKER", Source)) => ~superRefine(Parsed("API", Source))
=============================================================================
