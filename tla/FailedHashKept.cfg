\* A certificate's request applies a configuration rejected before.
SPECIFICATION Spec
CONSTANTS
  Configs = {"tls"}
  Bytes <- MCBytes
  NoKey = "no key"
  SecretName = "haproxy-config"
  CertsSecretNames <- OneCert
  Bundles = {"old", "new"}
  Malformed = {}
  NoBundle = "none"
  Serial <- MCSerial
  Size <- MCSize
  Invalid <- MCInvalid
  Empty = "empty"
  Normalize <- MCNormalize
  Requires <- MCRequires
  Foreign = {"boot"}
  Errors <- MCTimeouts
  DriftRemediate = TRUE
  MaxEdits = 0
  MaxApiFaults = 0
  MaxFaults = 1
  MaxDrifts = 1
  MaxRotations = 1
  MaxCrashes = 0
PROPERTIES
  ClearedAfterSuccess
CHECK_DEADLOCK FALSE
