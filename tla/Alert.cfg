\* Alert-only mode: a drift is reported, and re-applied only from a stale copy.
SPECIFICATION FairSpec
CONSTANTS
  Configs = {"a", "empty"}
  Bytes <- MCBytes
  NoKey = "no key"
  SecretName = "haproxy-config"
  CertsSecretNames <- NoCerts
  Bundles = {}
  Malformed = {}
  NoBundle = "none"
  Serial <- MCSerial
  Size <- MCSize
  Invalid <- MCInvalid
  Empty = "empty"
  Normalize <- MCNormalize
  Requires <- MCRequires
  Foreign = {"boot"}
  Errors <- MCErrors
  DriftRemediate = FALSE
  MaxEdits = 1
  MaxApiFaults = 1
  MaxFaults = 2
  MaxDrifts = 1
  MaxRotations = 0
  MaxCrashes = 0
INVARIANTS
  BackoffKeepsUp
PROPERTIES
  OnlyStaleCopiesOverwriteDrift
  DriftReported

\* With the Secret deleted and every bound used up the queue is rightly empty.
CHECK_DEADLOCK FALSE
