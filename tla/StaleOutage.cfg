\* The client of a drift check cannot be built.
SPECIFICATION Spec
CONSTANTS
  Configs = {"a"}
  Bytes <- MCBytes
  NoKey = "no key"
  SecretName = "haproxy-config"
  CertsSecretNames <- NoCerts
  Bundles = {}
  Malformed = {}
  NoBundle = "none"
  Serial <- MCSerial
  Size <- MCSize
  Invalid <- MCInvalid
  Empty = "empty"
  Normalize <- MCNormalize
  Requires <- MCRequires
  Foreign = {"boot"}
  Errors <- MCTimeouts
  DriftRemediate = TRUE
  MaxEdits = 0
  MaxApiFaults = 0
  MaxFaults = 1
  MaxDrifts = 0
  MaxRotations = 0
  MaxCrashes = 1
PROPERTIES
  InSyncReportsNoOutage
CHECK_DEADLOCK FALSE
