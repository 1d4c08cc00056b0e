------------------------------ MODULE Dataplane ------------------------------
(***************************************************************************)
(* The HAProxy gateway behind the Data Plane API and the calls             *)
(* internal/haproxy/dataplane_client.go makes to it.  The gateway is not   *)
(* part of the repository: its state is modelled from what the client      *)
(* sends and expects back.                                                 *)
(*                                                                         *)
(* The configuration version is abstracted to whether the one a writer     *)
(* read is still current: held for the operator's own, and late for a     *)
(* POST whose client has given up but which the gateway has not yet seen   *)
(* (it is forgotten as soon as its version is overtaken, for the gateway   *)
(* then refuses it).                                                       *)
(***************************************************************************)
EXTENDS ErrorClass, Contents

CONSTANTS
  Invalid,       (* configurations HAProxy refuses whatever is stored      *)
  Empty,         (* the empty configuration, refused in the cluster mode   *)
  Normalize,     (* [Configs -> Bytes]: what a submission reads back as    *)
  Requires,      (* [Configs -> SUBSET CertNames]: the crt files it names  *)
  Foreign,       (* what an out-of-band writer leaves on the gateway       *)
  Serial, Size,  (* [Bundles -> Nat]: what the storage GET reports         *)
  NoBundle,      (* nothing stored under that name                         *)
  Errors,        (* the errors a request may meet                          *)
  MaxFaults,     (* bound: requests to the gateway that fail               *)
  MaxDrifts      (* bound: out-of-band changes of the gateway              *)

NoConfig == "no configuration"

ASSUME DataplaneAssumption ==
  /\ Invalid \subseteq Configs /\ Foreign \subseteq Bytes /\ NoConfig \notin Bytes
  /\ Normalize \in [Configs -> Bytes] /\ Requires \in [Configs -> SUBSET CertNames]
  /\ NoBundle \notin Bundles
  /\ Errors \subseteq Error /\ \A e \in Errors : e.kind # "local" /\ ~e.version
  /\ MaxFaults \in Nat /\ MaxDrifts \in Nat

VARIABLES
  live,      (* the raw configuration the gateway serves                    *)
  held,      (* the version the reconcile read is still current             *)
  late,      (* content of a timed-out POST that can still land             *)
  stored,    (* ssl_certificates storage                                    *)
  faults, drifts

gatewayVars == <<live, held, late, stored, faults, drifts>>

-----------------------------------------------------------------------------
Refuses(c) == c \in Invalid \/ \E k \in Requires[c] : stored[k] = NoBundle

Fault == faults < MaxFaults /\ faults' = faults + 1

(* Any write of the configuration moves its version on. *)
Write(b) == live' = b /\ held' = FALSE /\ late' = NoConfig

(* getConfigVersion fails, as it does inside waitForReady. *)
VersionError(e) ==
  /\ Fault
  /\ \E x \in Errors : e = VersionCheckError(x)
  /\ UNCHANGED <<live, held, late, stored, drifts>>

(* A request fails for a reason that is not the submission's: a refusal    *)
(* is not among them.                                                      *)
RequestError(e) ==
  /\ Fault
  /\ e \in Errors /\ Transient(Classify(e))
  /\ UNCHANGED <<live, held, late, stored, drifts>>

(* ValidateRawConfiguration: version GET, then POST with only_validate. *)
ValidateError(e) == VersionError(e) \/ RequestError(e)

(* GetRawConfiguration: a plain GET, so any error may come back. *)
ReadError(e) ==
  /\ Fault
  /\ e \in Errors
  /\ UNCHANGED <<live, held, late, stored, drifts>>

(* applyRaw, first half (waitForReady and its own version GET). *)
ReadVersion == held' = TRUE /\ UNCHANGED <<live, late, stored, faults, drifts>>

(* applyRaw, second half: the POST that carries the version. *)

PostAccepted(c) ==
  /\ held /\ ~Refuses(c)
  /\ Write(Normalize[c])
  /\ UNCHANGED <<stored, faults, drifts>>

PostConflicts == ~held /\ UNCHANGED gatewayVars

PostRefused(c) == held /\ Refuses(c) /\ UNCHANGED gatewayVars

(* The gateway wrote c but the client got an error, or no answer in time. *)
PostAnswerLost(c, e) ==
  /\ held /\ ~Refuses(c)
  /\ Fault /\ e \in Errors /\ Transient(Classify(e))
  /\ Write(Normalize[c])
  /\ UNCHANGED <<stored, drifts>>

(* The client timed out and the request is still on its way. *)
PostDelayed(c, e) ==
  /\ held /\ ~Refuses(c) /\ late = NoConfig
  /\ Fault /\ e \in Errors /\ e.kind = "net"
  /\ late' = c /\ held' = FALSE
  /\ UNCHANGED <<live, stored, drifts>>

-----------------------------------------------------------------------------
(* Certificate storage. *)

(* What SyncSSLCertificate compares: leaf serial and file size. *)
RemoteMatches(k, b) ==
  /\ stored[k] # NoBundle
  /\ Serial[stored[k]] = Serial[b] /\ Size[stored[k]] = Size[b]

(* Variant: the recorded hash is trusted without asking the gateway. *)
SyncSSLCertificate_TrustsRecord(k, b, synced) ==
  stored' = [stored EXCEPT ![k] = IF synced THEN @ ELSE b]

(* GET, then nothing, PUT or POST of the bundle. *)
SyncSSLCertificate(k, b, synced) ==
  stored' = [stored EXCEPT ![k] = IF RemoteMatches(k, b) /\ synced THEN @ ELSE b]

-----------------------------------------------------------------------------
(* The gateway's own life. *)

(* The delayed POST lands: its version is current or it would be gone. *)
LatePostLands ==
  /\ late # NoConfig /\ ~Refuses(late)
  /\ Write(Normalize[late])
  /\ UNCHANGED <<stored, faults, drifts>>

(* A manual write, a restored backup, a re-imaged gateway. *)
OutOfBandWrite(b) ==
  /\ drifts < MaxDrifts /\ b # live
  /\ Write(b) /\ drifts' = drifts + 1
  /\ UNCHANGED <<stored, faults>>

LoseStoredCert(k) ==
  /\ drifts < MaxDrifts /\ stored[k] # NoBundle
  /\ stored' = [stored EXCEPT ![k] = NoBundle] /\ drifts' = drifts + 1
  /\ UNCHANGED <<live, held, late, faults>>
=============================================================================
