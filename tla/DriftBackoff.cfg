\* Remediation that keeps failing.
SPECIFICATION Spec
CONSTANTS
  Configs = {"a"}
  Bytes <- MCBytes
  NoKey = "no key"
  SecretName = "haproxy-config"
  CertsSecretNames <- NoCerts
  Bundles = {}
  Malformed = {}
  NoBundle = "none"
  Serial <- MCSerial
  Size <- MCSize
  Invalid <- MCInvalid
  Empty = "empty"
  Normalize <- MCNormalize
  Requires <- MCRequires
  Foreign = {"boot"}
  Errors <- MCTimeouts
  DriftRemediate = TRUE
  MaxEdits = 0
  MaxApiFaults = 0
  MaxFaults = 3
  MaxDrifts = 1
  MaxRotations = 0
  MaxCrashes = 0
INVARIANTS
  BackoffGrows
CHECK_DEADLOCK FALSE
