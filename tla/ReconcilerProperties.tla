------------------------- MODULE ReconcilerProperties -------------------------
(***************************************************************************)
(* What the controller promises, stated over SecretReconciler.             *)
(***************************************************************************)
EXTENDS SecretReconciler

-----------------------------------------------------------------------------
(* Safety. *)

(* A configuration is suppressed only on a verdict: last-failed-hash names *)
(* bytes that the gateway, or the local check, really refused - never      *)
(* bytes whose version check, transport or API call failed (Classify and   *)
(* the two rejection branches of Reconcile).                               *)
SuppressionSound ==
  \A c \in Configs : secret.ann.failed = HashBytes(c) => c \in refused

(* last-applied-hash names only bytes the gateway wrote: a refused, lost   *)
(* or conflicting POST is never recorded as an apply.                      *)
AppliedSound ==
  \A c \in Configs : secret.ann.applied = HashBytes(c) => c \in accepted

(* A verdict is recorded only on the bytes it is about: when the Secret's  *)
(* data was replaced between Get and the patch, the patch conflicts        *)
(* (patchAnnotations' optimistic lock).                                    *)
VerdictStep ==
  secret'.exists =>
    /\ secret'.ann.applied \notin {secret.ann.applied, Absent} =>
         secret'.ann.applied = HashBytes(secret'.data)
    /\ secret'.ann.failed \notin {secret.ann.failed, Absent} =>
         secret'.ann.failed = HashBytes(secret'.data)
VerdictsAboutCurrentBytes == [][VerdictStep]_vars

(* No write of the Secret is ever forgotten: as long as it exists its name *)
(* is queued, on its way to the queue or being served.  Every return that  *)
(* drops the name would break it.                                          *)
NeverForgotten ==
  /\ secret.exists =>
       SecretName \in queued \/ event \/ (pc # "idle" /\ key = SecretName)
  /\ \A k \in CertNames : offered[k] # NoBundle =>
       k \in queued \/ (pc # "idle" /\ key = k)

(* The patch that records an apply clears the failure of an earlier one    *)
(* (line 508): afterwards nothing suppresses anything.                     *)
ClearedStep ==
  pc = "record" /\ pc' = "idle" /\ secret' # secret => secret'.ann.failed = Absent
ClearedAfterSuccess == [][ClearedStep]_vars

(* The reconcile writes bytes that the Secret records as applied to a      *)
(* gateway that does not serve what was read back after that apply.        *)
DriftOverwritten ==
  /\ pc = "post" /\ pc' # "post" /\ live' # live
  /\ snap.data = secret.data /\ secret.ann.applied = HashBytes(secret.data)
  /\ secret.ann.observed \in Hashes \ {HashBytes(live)}

(* In alert-only mode a drift is left alone: nothing is re-applied         *)
(* (charts/haproxy-operator/README.md, driftRemediate: false).             *)
AlertOnlyLeavesDrift == [][~DriftOverwritten]_vars

(* A drift is overwritten in alert-only mode by one kind of reconcile      *)
(* only: one whose copy of the Secret (line 192) does not have the record  *)
(* of the apply yet.  No edit of the Secret, fault, drift in the middle of *)
(* the reconcile or failed read makes another one write.                   *)
OnlyStaleCopiesOverwriteDrift == [][DriftOverwritten => snap.ann.applied # secret.ann.applied]_vars

(* The delay grows with the failures in a row for the same bytes.          *)
BackoffKeepsUp == pc = "idle" => transientFailures >= streak.length

(* The third failure in a row waits longer than the first.                 *)
BackoffGrows == pc = "idle" /\ streak.length >= 3 => transientFailures >= 2

(* Nothing is validated or applied before every certificate is in storage, *)
(* unless one was removed behind the operator's back.                      *)
CertsBeforeValidate ==
  pc \in {"validate", "read version", "post"} /\ drifts = 0 =>
    \A k \in CertNames : stored[k] # NoBundle

(* A push that is reported as done - written or skipped - leaves the       *)
(* offered bundle, no other, in storage.                                   *)
PushStep ==
  pc = "push" /\ pc' \notin {"fail", "idle"} /\ <<pc, todo>>' # <<pc, todo>> =>
    stored'[todo[1]] = offered[todo[1]]
SyncLeavesBundle == [][PushStep]_vars

(* A drift check that ends in sync leaves no outage in the status.         *)
OutageClasses == {ClassAuth, ClassTLS, ClassConnection, ClassRateLimited, ClassServer}
InSyncStep ==
  pc = "read live" /\ pc' = "idle" /\ inSync' = "yes" /\ snapCurrent =>
    secret'.ann.status[2] \notin OutageClasses
InSyncReportsNoOutage == [][InSyncStep]_vars

-----------------------------------------------------------------------------
(* Refinement. *)

(* The name GitOps gives to an absent Secret is not a configuration.       *)
ASSUME PromiseAssumption == "nothing" \notin Bytes

Data(object) == IF object.exists THEN {object.data} ELSE {}

Desired == IF secret.exists THEN secret.data ELSE "nothing"
Offers  == (Data(secret) \cup Data(cache) \cup Data(snap) \cup {late}) \cap Configs

Promise == INSTANCE GitOps WITH
  desired <- Desired,
  offers  <- Offers,
  running <- live,
  applied <- secret.ann.applied,
  failed  <- secret.ann.failed

(* The reconciler implements GitOps: whatever its copies of the Secret,    *)
(* late POSTs, conflicts and restarts do, the gateway changes only to      *)
(* bytes that were asked for or by another hand, and a claim is made only  *)
(* about the bytes asked for at that moment and only if it is true.        *)
KeepsPromise == Promise!Spec

-----------------------------------------------------------------------------
(* Liveness. *)

Suppressing == secret.ann.failed = HashBytes(secret.data)
UpToDate ==
  /\ secret.ann.applied = HashBytes(secret.data)
  /\ secret.ann.observed = HashBytes(live)

(* Once the others are quiet, the Secret's bytes are suppressed or they    *)
(* are recorded as applied and the gateway serves the recorded baseline,   *)
(* for good: no lost answer, delayed POST, conflict, restart or drift      *)
(* leaves the operator content with anything else.                         *)
Converges == <>[](secret.exists /\ secret.data # NoKey => Suppressing \/ UpToDate)

(* A failure status of the drift check or of the certificate sync does not *)
(* outlive the failure.                                                    *)
RecoveredStatusClears ==
  <>[](secret.exists /\ UpToDate /\ (\A k \in CertNames : ~Unpushable(k))
       => secret.ann.status[1] \notin {"DriftCheck", "CertSync"})

(* The status says Applied, in the end, only of bytes that were applied:   *)
(* recovering certificate sync writes it before the configuration is even  *)
(* looked at.                                                              *)
StatusSettles ==
  <>[](secret.exists /\ secret.data # NoKey /\ secret.ann.status = Applied
       => secret.ann.applied = HashBytes(secret.data))

(* In alert-only mode a lasting drift ends up on the gauge.                *)
DriftReported ==
  <>[](/\ secret.exists /\ secret.ann.applied = HashBytes(secret.data)
       /\ secret.ann.observed \in Hashes \ {HashBytes(live)}
       => inSync = "no")

(* Every lasting drift from what was applied and read back ends up on the  *)
(* gauge, whatever the Secret asks for by now.                             *)
EveryDriftReported ==
  <>[](/\ secret.exists /\ secret.ann.applied # Absent
       /\ secret.ann.observed \in Hashes \ {HashBytes(live)}
       => inSync = "no")

(* Every certificate that can be pushed ends up in storage, whatever was   *)
(* lost there or in an answer.                                             *)
CertsConverge == <>[](\A k \in CertNames : ~Unpushable(k) => stored[k] = offered[k])
=============================================================================
