\* A refused configuration stands in the Secret while the gateway drifts.
SPECIFICATION FairSpec
CONSTANTS
  Configs = {"a", "bad"}
  Bytes <- MCBytes
  NoKey = "no key"
  SecretName = "haproxy-config"
  CertsSecretNames <- NoCerts
  Bundles = {}
  Malformed = {}
  NoBundle = "none"
  Serial <- MCSerial
  Size <- MCSize
  Invalid <- MCInvalid
  Empty = "empty"
  Normalize <- MCNormalize
  Requires <- MCRequires
  Foreign = {"boot"}
  Errors <- MCTimeouts
  DriftRemediate = TRUE
  MaxEdits = 1
  MaxApiFaults = 0
  MaxFaults = 0
  MaxDrifts = 1
  MaxRotations = 0
  MaxCrashes = 0
PROPERTIES
  EveryDriftReported
CHECK_DEADLOCK FALSE
