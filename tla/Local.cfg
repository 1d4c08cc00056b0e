\* The development mode: saves in place and by rename, one fault of everything.
SPECIFICATION FairLocalSpec
CONSTANTS
  Configs = {"a", "b", "empty"}
  Bytes <- MCBytes
  CertsSecretNames <- NoCerts
  Bundles = {}
  NoBundle = "none"
  Serial <- MCNoNumbers
  Size <- MCNoNumbers
  Invalid <- MCInvalid
  Empty = "empty"
  Normalize <- MCNormalize
  Requires <- MCRequires
  Foreign = {"boot"}
  Errors <- MCErrors
  Watch = TRUE
  Missing = "missing"
  MaxSaves = 2
  MaxFaults = 1
  MaxDrifts = 1
  MaxWatchFaults = 1
  MaxCrashes = 1
INVARIANTS
  LocalTypeOK
  LastHashIsLive
  QuietMeansApplied
PROPERTIES
  SavesReachGateway

\* An idle runner waits for the next save.
CHECK_DEADLOCK FALSE
