\* Two bundles the storage cannot tell apart.
SPECIFICATION Spec
CONSTANTS
  Configs = {"tls"}
  Bytes <- MCBytes
  NoKey = "no key"
  SecretName = "haproxy-config"
  CertsSecretNames <- OneCert
  Bundles = {"new", "chain"}
  Malformed = {}
  NoBundle = "none"
  Serial <- MCSerial
  Size <- MCSize
  Invalid <- MCInvalid
  Empty = "empty"
  Normalize <- MCNormalize
  Requires <- MCRequires
  Foreign = {"boot"}
  Errors <- MCTimeouts
  DriftRemediate = TRUE
  MaxEdits = 0
  MaxApiFaults = 0
  MaxFaults = 0
  MaxDrifts = 0
  MaxRotations = 2
  MaxCrashes = 0
PROPERTIES
  SyncLeavesBundle
CHECK_DEADLOCK FALSE
