\* Alert-only mode and an informer that is behind.
SPECIFICATION Spec
CONSTANTS
  Configs = {"a"}
  Bytes <- MCBytes
  NoKey = "no key"
  SecretName = "haproxy-config"
  CertsSecretNames <- NoCerts
  Bundles = {}
  Malformed = {}
  NoBundle = "none"
  Serial <- MCSerial
  Size <- MCSize
  Invalid <- MCInvalid
  Empty = "empty"
  Normalize <- MCNormalize
  Requires <- MCRequires
  Foreign = {"boot"}
  Errors <- MCTimeouts
  DriftRemediate = FALSE
  MaxEdits = 0
  MaxApiFaults = 0
  MaxFaults = 0
  MaxDrifts = 1
  MaxRotations = 0
  MaxCrashes = 0
PROPERTIES
  AlertOnlyLeavesDrift
CHECK_DEADLOCK FALSE
