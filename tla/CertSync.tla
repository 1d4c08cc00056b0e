------------------------------- MODULE CertSync -------------------------------
(***************************************************************************)
(* Pushing one managed TLS Secret to the gateway's ssl_certificates        *)
(* storage (internal/controller/certs.go).  What was pushed last is        *)
(* recorded twice: in the cert-sync annotation of the config Secret, which *)
(* survives a restart, and in certSyncHashes, which does not.              *)
(***************************************************************************)
EXTENDS ConfigSecret

CONSTANTS
  Malformed,     (* bundles whose PEM lacks a part or does not parse        *)
  MaxRotations   (* bound: renewals of a certificate                        *)

ASSUME CertSyncAssumption == Malformed \subseteq Bundles /\ MaxRotations \in Nat

VARIABLES
  offered,         (* the TLS Secrets: [CertNames -> a bundle or NoBundle]  *)
  certSyncHashes,  (* hash of the last bundle this process pushed           *)
  rotations

certVars == <<offered, certSyncHashes, rotations>>

-----------------------------------------------------------------------------
BundleHash(k) == HashBytes(offered[k])

(* Fetching the TLS Secret, assembling its bundle or reading its leaf's    *)
(* serial fails before anything is sent.                                   *)
Unpushable(k) == offered[k] \in Malformed \cup {NoBundle}

(* Variant: any record of an earlier push will do. *)
previouslySynced_AnyRecord(k) == snap.ann.certs[k] # Absent \/ certSyncHashes[k] # Absent

previouslySynced(k) == BundleHash(k) \in {snap.ann.certs[k], certSyncHashes[k]}

(* SyncSSLCertificate reports a write. *)
Changed(k) == ~(RemoteMatches(k, offered[k]) /\ previouslySynced(k))

(* The push leaves something to record on the config Secret. *)
MustRecord(k) == snap.exists /\ (Changed(k) \/ snap.ann.certs[k] # BundleHash(k))

(* pushCertSecret up to the annotation. *)
Push(k) ==
  /\ ~Unpushable(k)
  /\ SyncSSLCertificate(k, offered[k], previouslySynced(k))
  /\ certSyncHashes' = [certSyncHashes EXCEPT ![k] = BundleHash(k)]
  /\ UNCHANGED <<live, held, late, faults, drifts, offered, rotations>>

(* pushCertSecret fails with e before the storage changes. *)
PushError(k, e) ==
  \/ Unpushable(k) /\ e = OtherError /\ UNCHANGED gatewayVars
  \/ ~Unpushable(k) /\ (VersionError(e) \/ ReadError(e))

(* The write took effect and its answer was lost: nothing is remembered. *)
PushAnswerLost(k, e) ==
  /\ ~Unpushable(k) /\ Changed(k)
  /\ Fault /\ e \in Errors
  /\ SyncSSLCertificate(k, offered[k], previouslySynced(k))
  /\ UNCHANGED <<live, held, late, drifts>>

WithCertRecord(ann, k, hash) == [ann EXCEPT !.certs[k] = hash]

RotateCert(k, b) ==
  /\ rotations < MaxRotations /\ offered[k] # b
  /\ offered' = [offered EXCEPT ![k] = b]
  /\ rotations' = rotations + 1
  /\ UNCHANGED certSyncHashes
=============================================================================
