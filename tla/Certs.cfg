\* One certificate, which the configuration names; its bundles share serial and size.
SPECIFICATION FairSpec
CONSTANTS
  Configs = {"tls"}
  Bytes <- MCBytes
  NoKey = "no key"
  SecretName = "haproxy-config"
  CertsSecretNames <- OneCert
  Bundles = {"new", "chain", "broken"}
  Malformed = {"broken"}
  NoBundle = "none"
  Serial <- MCSerial
  Size <- MCSize
  Invalid <- MCInvalid
  Empty = "empty"
  Normalize <- MCNormalize
  Requires <- MCRequires
  Foreign = {"boot"}
  Errors <- MCTimeouts
  DriftRemediate = TRUE
  MaxEdits = 0
  MaxApiFaults = 0
  MaxFaults = 1
  MaxDrifts = 1
  MaxRotations = 1
  MaxCrashes = 0
INVARIANTS
  CertsBeforeValidate
  NeverForgotten
PROPERTIES
  SyncLeavesBundle
  CertsConverge
  RecoveredStatusClears
  StatusSettles

\* With the Secret deleted and every bound used up the queue is rightly empty.
CHECK_DEADLOCK FALSE
