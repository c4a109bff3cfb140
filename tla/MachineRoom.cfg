SPECIFICATION MachineRoomSpec
CONSTANTS
  Conditions <- DeviceConditions
  Capabilities = {"a4"}
  Required = TRUE
  FAILURES_BEFORE_UNAVAILABLE = 2
  MaxLate = 1
  MaxReports = 1
  MaxMoves = 1
  Drivers = {"IPP", "WINDOWS", "MOCK"}
  JobDocuments = 2
  JobSheets = 2
  Submissions <- MachineRoomSubmissions
  Expected = 2
  StillReads = 2
  StartupReads = 3
  SilentReads = 2
  MaxPolls = 6
  MaxForeign = 1
  KeyOrder <- MachineRoomKeys
  SessionPrefix <- MachineRoomPrefix
  Ledger <- MachineRoomLedger
  Gone <- MachineRoomGone
  PageSize = 2
  MaxVersionPasses = 1
  MaxPurgePasses = 2
  MaxListPages = 2
  SweepLimit = 2
  MaxDisturbances = 1
  MaxCleanups = 1
  MaxSweeps = 2
  Workers = {w1, w2}
  Documents <- MachineRoomDocuments
  MaxPages = 2
  MaxRequests = 2
  MaxMishaps = 2
  Defaults <- MachineRoomDefaults
  Files <- MachineRoomEnvironmentFiles
  Alternatives <- MachineRoomAlternatives
  MaxEdits = 2
SYMMETRY Interchangeable
INVARIANTS
  NoChangeForgotten
  
  DeletedMeansEveryCopy
  BundleIsTheDocument
  
  DeploymentIsSound

  
CHECK_DEADLOCK FALSE
