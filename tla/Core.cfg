\* No certificates, drift remediation on; every kind of failure.
SPECIFICATION Spec
CONSTANTS
  Configs = {"a", "bad"}
  Bytes <- MCBytes
  NoKey = "no key"
  SecretName = "haproxy-config"
  CertsSecretNames <- NoCerts
  Bundles = {}
  Malformed = {}
  NoBundle = "none"
  Serial <- MCSerial
  Size <- MCSize
  Invalid <- MCInvalid
  Empty = "empty"
  Normalize <- MCNormalize
  Requires <- MCRequires
  Foreign = {"boot"}
  Errors <- MCErrors
  DriftRemediate = TRUE
  MaxEdits = 2
  MaxApiFaults = 1
  MaxFaults = 1
  MaxDrifts = 1
  MaxRotations = 0
  MaxCrashes = 1
INVARIANTS
  TypeOK
  SuppressionSound
  AppliedSound
  NeverForgotten
PROPERTIES
  VerdictsAboutCurrentBytes
  ClearedAfterSuccess
  KeepsPromise

\* With the Secret deleted and every bound used up the queue is rightly empty.
CHECK_DEADLOCK FALSE
