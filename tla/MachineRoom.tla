---------------------------- MODULE MachineRoom -----------------------------
(***************************************************************************)
(* The machinery behind the counter, for one run: the printer's telemetry  *)
(* and desired state (DevicePlane), its drivers (PrinterAdapters), the     *)
(* watch on its page counter (CounterWatch), the bucket (ObjectStore), the *)
(* document processor (DocumentPipeline) and what the processes start with *)
(* (Deployment).  They keep separate state, so a behaviour follows one of  *)
(* them and the run explores them side by side.                            *)
(***************************************************************************)
EXTENDS DevicePlane, PrinterAdapters, CounterWatch, ObjectStore, DocumentPipeline, Deployment, TLC

VARIABLE side

\* A document nothing is wrong with.
Fine ==
  [kind |-> "PDF", pages |-> 2, large |-> FALSE, delivered |-> TRUE, signed |-> TRUE, infected |-> FALSE,
   encrypted |-> FALSE, sound |-> TRUE, renders |-> TRUE, bulky |-> FALSE]

machineRoomVars ==
  <<deviceVars, adapterVars, counterVars, storeVars, pipelineVars, deploymentVars, side>>

\* A part that is not followed has one initial state.  One worker's document is
\* fine: what could be wrong with both at once is no different.  Beside a document
\* that is not, one mishap has been spent already, which leaves one.
MachineRoomInit ==
  /\ side \in {"device", "adapter", "counter", "store", "pipeline", "deployment"}
  /\ DeviceInit /\ (side # "device" => device.condition = CHOOSE c \in Conditions : TRUE)
  /\ AdaptersInit /\ (side # "adapter" => driver = "IPP" /\ counting)
  /\ CounterInit
  /\ StoreInit /\ (side # "store" => versioned /\ uploads = {})
  /\ DeploymentInit
  /\ side # "deployment" => file = Missing /\ ~host.named /\ host.inherited = <<>>
  /\ PipelineInit /\ \E c \in Workers : worker[c].document = Fine
  /\ mishaps = IF \A c \in Workers : worker[c].document = Fine THEN 0 ELSE 1
  /\ side # "pipeline" => tokenRight /\ \A c \in Workers : worker[c].document = Fine

MachineRoomNext ==
  /\ UNCHANGED side
  /\ \/ /\ side = "device" /\ DeviceNext
        /\ UNCHANGED <<adapterVars, counterVars, storeVars, pipelineVars, deploymentVars>>
     \/ /\ side = "adapter" /\ AdaptersNext
        /\ UNCHANGED <<deviceVars, counterVars, storeVars, pipelineVars, deploymentVars>>
     \/ /\ side = "counter" /\ CounterNext
        /\ UNCHANGED <<deviceVars, adapterVars, storeVars, pipelineVars, deploymentVars>>
     \/ /\ side = "store" /\ StoreNext
        /\ UNCHANGED <<deviceVars, adapterVars, counterVars, pipelineVars, deploymentVars>>
     \/ /\ side = "pipeline" /\ PipelineNext
        /\ UNCHANGED <<deviceVars, adapterVars, counterVars, storeVars, deploymentVars>>
     \/ /\ side = "deployment" /\ DeploymentNext
        /\ UNCHANGED <<deviceVars, adapterVars, counterVars, storeVars, pipelineVars>>

MachineRoomSpec == MachineRoomInit /\ [][MachineRoomNext]_machineRoomVars

-----------------------------------------------------------------------------
\* A submission of two documents, and three a corrupted hand-over could be: a
\* missing file, the same file twice, a file at another's position.
Document(i) == [documentId |-> i, position |-> i, sha256 |-> i, sizeBytes |-> 1, copies |-> 1]
WellFormed == [manifest |-> <<Document(0), Document(1)>>,
               artifacts |-> <<Document(0), Document(1)>>, physicalSheets |-> 1]
MachineRoomSubmissions ==
  {WellFormed, [WellFormed EXCEPT !.artifacts = <<Document(0)>>],
   [WellFormed EXCEPT !.artifacts = <<Document(0), Document(0)>>],
   [WellFormed EXCEPT !.artifacts[2].position = 0]}

-----------------------------------------------------------------------------
\* Three keys, the second behind the first; the first session is being cleaned,
\* the second's row is gone.
MachineRoomKeys == <<<<1>>, <<1, 1>>, <<2>>>>
MachineRoomPrefix == <<1>>
MachineRoomLedger == <<<<1>>, <<1, 1>>>>
MachineRoomGone == {<<1, 1>>, <<2>>}
\* Documents: two that pass, each single defect, and one both infected and
\* encrypted.
MachineRoomDocuments ==
  {Fine, [Fine EXCEPT !.kind = "PNG", !.pages = 1], [Fine EXCEPT !.pages = 3], [Fine EXCEPT !.large = TRUE],
   [Fine EXCEPT !.delivered = FALSE], [Fine EXCEPT !.signed = FALSE], [Fine EXCEPT !.encrypted = TRUE],
   [Fine EXCEPT !.infected = TRUE, !.encrypted = TRUE], [Fine EXCEPT !.sound = FALSE],
   [Fine EXCEPT !.renders = FALSE], [Fine EXCEPT !.bulky = TRUE]}
-----------------------------------------------------------------------------
\* The schema's defaults: seconds, MiB, and what can be told of a URL or a secret.
MachineRoomDefaults ==
  [NODE_ENV |-> "development", PRINTING_KIOSK_SERVICE |-> FALSE,
   SESSION_IDLE_TTL |-> 600, SESSION_ABSOLUTE_TTL |-> 1800, MOBILE_CLIENT_TTL |-> 600,
   QUOTE_TTL |-> 300, PAYMENT_TIMEOUT |-> 180,
   PRINT_JOB_TIMEOUT |-> 300, PRINT_COMMAND_LEASE |-> 120, PRINTER_OUTPUT_RETENTION |-> 900,
   AGENT_HEARTBEAT |-> 30,
   RETENTION_SETTLED_GRACE |-> 300, RETENTION_RECOVERY_GRACE |-> 900, RETENTION_ORPHAN_GRACE |-> 7200,
   DOCUMENT_PROCESSOR_TIMEOUT |-> 120, DOCUMENT_PROCESSOR_LEASE |-> 180,
   MAX_FILE_BYTES |-> 50, MAX_SESSION_UPLOAD_BYTES |-> 50, MAX_FILES_PER_SESSION |-> 10,
   MAX_DOCUMENT_PAGES |-> 200, MAX_NORMALIZED_FILE_BYTES |-> 100, MAX_PREVIEW_FILE_BYTES |-> 2,
   PREVIEW_MAX_PIXELS |-> 2200, MAX_IMAGE_DIMENSION_PIXELS |-> 20000,
   DOCUMENT_PROCESSOR_RESPONSE_MAX_BYTES |-> 512, DOCUMENT_PROCESSOR_SCRATCH_BYTES |-> 2048,
   DOCUMENT_PROCESSOR_MEMORY_MIB |-> 3072, MAX_SELECTED_PAGES |-> 200, MAX_PRINTED_SIDES |-> 1000,
   PRINTER_ADAPTER |-> "mock", PRINTER_QUEUE_ALLOWLIST |-> {}, PRINTER_QUEUE_NAME |-> "",
   PRINTER_WINDOWS_HOST_PATH |-> "", PRINTER_DEVICE_PROFILES_READABLE |-> TRUE,
   PRINTER_TELEMETRY_ENABLED |-> FALSE, PRINTER_TELEMETRY_NAMED |-> FALSE,
   PRINTER_TELEMETRY_KEYS_DIFFER |-> TRUE, PRINTER_TELEMETRY_BUDGET |-> 5, PRINTER_TELEMETRY_TIMEOUT |-> 1,
   PRINTER_TELEMETRY_MAX_AGE |-> 90, PRINTER_TELEMETRY_POLL |-> 30,
   PAYMENT_TEST_OUTCOMES_ENABLED |-> FALSE, PRINT_TEST_OUTCOMES_ENABLED |-> FALSE,
   S3_KMS_KEY_ID |-> "unset", S3_SERVER_SIDE_ENCRYPTION |-> "unset",
   S3_ACCESS_KEY_ID |-> "api", S3_WORKER_ACCESS_KEY_ID |-> "worker", DOCUMENT_PROCESSOR_IMAGE |-> "unset",
   ADMIN_WEBAUTHN_RP_ID |-> "host", ADMIN_STEP_UP_TTL |-> 300,
   ADMIN_SESSION_IDLE |-> [OPERATOR |-> 21600, ADMIN |-> 7200, TECHNICAL_ADMIN |-> 3600],
   ADMIN_SESSION_ABSOLUTE |-> [OPERATOR |-> 2592000, ADMIN |-> 1209600, TECHNICAL_ADMIN |-> 604800]]
  @@ [s \in productionSecrets |-> "placeholder"]
  @@ [u \in {"API_ORIGIN", "KIOSK_ORIGIN", "UPLOAD_ORIGIN", "PUBLIC_UPLOAD_ORIGIN", "ADMIN_ORIGIN",
             "DOCUMENT_PROCESSOR_URL", "S3_ENDPOINT", "REDIS_URL"} |-> "loopback"]
  @@ [c \in Connections |-> IF c = "DATABASE_URL" THEN "app" ELSE "unset"]
\* A developer's empty file, an installed kiosk's, and a production installation's.
KioskFile ==
  [PRINTER_ADAPTER |-> "windows", PRINTER_QUEUE_ALLOWLIST |-> {"canon"}, PRINTER_QUEUE_NAME |-> "canon",
   PRINTER_WINDOWS_HOST_PATH |-> "print-host.ps1"]
ProductionFile ==
  KioskFile
  @@ [S3_SERVER_SIDE_ENCRYPTION |-> "aws:kms", S3_KMS_KEY_ID |-> "key", DOCUMENT_PROCESSOR_IMAGE |-> "pinned",
      UPLOAD_ORIGIN |-> "tls", PUBLIC_UPLOAD_ORIGIN |-> "tls", ADMIN_ORIGIN |-> "tls"]
  @@ [s \in productionSecrets |-> s]
  @@ [c \in AdminConnections |-> c]
MachineRoomEnvironmentFiles == {<<>>, KioskFile, ProductionFile}
\* What an operator changes a setting to: windows at and past what bounds them, a
\* switch, a connection another role has, a secret used twice, plain transport.
MachineRoomAlternatives ==
  [NODE_ENV |-> {"production"},
   SESSION_IDLE_TTL |-> {240, 1800}, SESSION_ABSOLUTE_TTL |-> {300, 7200}, MOBILE_CLIENT_TTL |-> {1800},
   QUOTE_TTL |-> {60, 600}, PAYMENT_TIMEOUT |-> {300, 301}, PRINT_JOB_TIMEOUT |-> {120, 1800},
   PRINT_COMMAND_LEASE |-> {30, 300}, PRINTER_OUTPUT_RETENTION |-> {60}, AGENT_HEARTBEAT |-> {5, 120},
   RETENTION_SETTLED_GRACE |-> {3600}, RETENTION_ORPHAN_GRACE |-> {300, 2701},
   DOCUMENT_PROCESSOR_LEASE |-> {120}, MAX_FILE_BYTES |-> {100}, MAX_DOCUMENT_PAGES |-> {10, 400},
   DOCUMENT_PROCESSOR_SCRATCH_BYTES |-> {1158, 1157}, MAX_PRINTED_SIDES |-> {199},
   PRINTER_ADAPTER |-> {"mock"}, PRINTER_QUEUE_NAME |-> {"pdf-writer"}, PRINTER_QUEUE_ALLOWLIST |-> {{}},
   PRINTER_TELEMETRY_ENABLED |-> {TRUE}, PRINTER_TELEMETRY_NAMED |-> {TRUE}, PRINTER_TELEMETRY_KEYS_DIFFER |-> {FALSE},
   PAYMENT_TEST_OUTCOMES_ENABLED |-> {TRUE}, PRINT_TEST_OUTCOMES_ENABLED |-> {TRUE},
   ADMIN_STEP_UP_TTL |-> {3601}, ADMIN_WEBAUTHN_RP_ID |-> {"elsewhere"},
   ADMIN_READ_DATABASE_URL |-> {"app"}, ADMIN_WRITE_DATABASE_URL |-> {"app", "unverified"},
   ADMIN_REFUND_DATABASE_URL |-> {"app", "ADMIN_PRICING_DATABASE_URL"},
   ADMIN_PEOPLE_DATABASE_URL |-> {"ADMIN_REFUND_DATABASE_URL", "malformed"},
   COOKIE_SIGNING_KEY |-> {"PAYMENT_WEBHOOK_SECRET", "placeholder"}, REDIS_URL |-> {"plain"},
   S3_SERVER_SIDE_ENCRYPTION |-> {"AES256"}, UPLOAD_ORIGIN |-> {"plain"}]
Interchangeable == Permutations(Workers)
=============================================================================
