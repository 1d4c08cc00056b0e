--------------------------- MODULE SecretReconciler ---------------------------
(***************************************************************************)
(* The controller of internal/controller/secret_controller.go: one worker  *)
(* that takes a Secret's name from the work queue and runs Reconcile on    *)
(* it.  Every call that leaves the process (API server, gateway) is a step *)
(* of its own, so that other actors move between two of them; what         *)
(* Reconcile decides between two calls is part of the step that follows.   *)
(***************************************************************************)
EXTENDS CertSync

CONSTANTS
  DriftRemediate,  (* --drift-remediate                                     *)
  MaxCrashes       (* bound: restarts of the operator                       *)

ASSUME ReconcilerAssumption == DriftRemediate \in BOOLEAN /\ MaxCrashes \in Nat

VARIABLES
  pc,          (* the call Reconcile makes next                             *)
  key,         (* the name in the request it serves                         *)
  todo,        (* managed certificates still to push, in order              *)
  ensuring,    (* they are pushed by ensureCertSecretsSynced                *)
  report,      (* the failure failWithStatus is about to record             *)
  readBack,    (* hash of a live read, for the patch that records it        *)
  queued,      (* names in the work queue or waiting for their RequeueAfter *)
  transientFailures, lastDesiredHash, clientReady,   (* reconciler's fields *)
  inSync,      (* the config_in_sync gauge                                  *)
  crashes,
  refused,     (* history: configurations the gateway or Validate refused   *)
  accepted,    (* history: configurations the gateway wrote                 *)
  streak       (* history: reconciles in a row that failed alike             *)

control     == <<pc, key, todo, ensuring, report, readBack>>
memory      == <<transientFailures, lastDesiredHash, clientReady, inSync>>
history     == <<refused, accepted, streak>>
vars == <<apiVars, snapVars, gatewayVars, certVars, control, queued, memory, crashes, history>>

-----------------------------------------------------------------------------
(* backoffForFailure doubles 30s per failure up to 5m: the counter is cut  *)
(* off where the delay no longer depends on it.                            *)
FailureCap == 4

(* Variant: counts the wrong way. *)
OneMoreFailure_CountsDown == transientFailures - 1

OneMoreFailure == IF transientFailures < FailureCap THEN transientFailures + 1 ELSE transientFailures

-----------------------------------------------------------------------------
(* getOrCreateClient fails, before any HTTP answer. *)
ClientFails(e) ==
  /\ ~clientReady /\ e.kind # "api"
  /\ Fault /\ UNCHANGED <<live, held, late, stored, drifts>>

(* What a failed call hands to failWithStatus.  A rejection also records   *)
(* the failed hash; only a transient failure counts.                       *)

NoReport == [kind |-> "none", status |-> NoStatus]
Failure(stage, e) == [kind |-> "transient", status |-> <<stage, Classify(e)>>]
Rejection  == [kind |-> "rejected", status |-> <<"", ClassConfigRejected>>]
MissingKey == [kind |-> "missing key", status |-> <<"", "Error">>]

Reports == [kind : {"none", "transient", "rejected", "missing key"}, status : Status]

Steps == {"idle", "decide", "read live", "adopt", "clear drift status", "prepare",
          "push", "record cert", "clear cert status", "validate", "read version",
          "post", "read back", "record", "fail"}

Keys == CertNames \cup {SecretName}

currentHash == HashBytes(snap.data)

(* A finished reconcile leaves nothing behind but the process's fields. *)
Leave ==
  /\ pc' = "idle" /\ key' = SecretName /\ todo' = <<>> /\ ensuring' = FALSE
  /\ report' = NoReport /\ readBack' = Absent

(* Variants: no RequeueAfter; the config Secret in place of the request's. *)
Requeue_Never == UNCHANGED queued
Requeue_ConfigSecret == queued' = queued \cup {SecretName}

(* Every return but one asks for another run, by RequeueAfter or an error. *)
Requeue == queued' = queued \cup {key}

NoStreak == [bytes |-> NoKey, stage |-> "", length |-> 0]
SameFailure == streak.bytes = snap.data /\ streak.stage = report.status[1]
Longer == [bytes  |-> snap.data,
           stage  |-> report.status[1],
           length |-> IF ~SameFailure THEN 1
                      ELSE IF streak.length < FailureCap THEN streak.length + 1
                      ELSE FailureCap]

(* A reconcile that ends without a failure. *)
Finish == Leave /\ Requeue /\ streak' = NoStreak

Goto(step) == pc' = step /\ UNCHANGED <<key, todo, ensuring, report, readBack>>

FailWith(r) == pc' = "fail" /\ report' = r /\ UNCHANGED <<key, todo, ensuring, readBack>>

(* Variant: every attempt restarts the backoff. *)
NoteDesired_AlwaysResets(failures) == transientFailures' = 0 /\ lastDesiredHash' = currentHash

(* Lines 377-380: new desired bytes restart the backoff. *)
NoteDesired(failures) ==
  /\ transientFailures' = IF lastDesiredHash # currentHash THEN 0 ELSE failures
  /\ lastDesiredHash' = currentHash

-----------------------------------------------------------------------------
(* Taking a request. *)

Take(k) == pc = "idle" /\ k \in queued /\ queued' = queued \ {k}

StartConfig ==
  /\ Take(SecretName) /\ cache.exists
  /\ GetSecret
  /\ Goto("decide")
  /\ UNCHANGED <<apiVars, gatewayVars, certVars, memory, crashes, history>>

StartCert(k) ==
  /\ Take(k) /\ offered[k] # NoBundle
  /\ GetSecret
  /\ pc' = "push" /\ key' = k /\ todo' = <<k>>
  /\ UNCHANGED <<ensuring, report, readBack>>
  /\ UNCHANGED <<apiVars, gatewayVars, certVars, memory, crashes, history>>

(* NotFound is no error and asks for no other run. *)
StartMissing(k) ==
  /\ Take(k)
  /\ IF k = SecretName THEN ~cache.exists ELSE offered[k] = NoBundle
  /\ UNCHANGED <<apiVars, snapVars, gatewayVars, certVars, control, memory, crashes, history>>

-----------------------------------------------------------------------------
(* Certificates: the whole of a certificate's request up to the config     *)
(* reconcile it continues into, and ensureCertSecretsSynced.               *)

(* On to the next certificate, or to what follows the last one. *)
NextCert ==
  /\ IF ensuring
       THEN todo' = Tail(todo) /\ pc' = IF Len(todo) = 1 THEN "validate" ELSE "push"
       ELSE todo' = <<>> /\ pc' = "clear cert status"
  /\ UNCHANGED <<key, ensuring, report, readBack>>

PushSucceeds ==
  /\ pc = "push"
  /\ Push(todo[1])
  /\ clientReady' = TRUE
  /\ IF MustRecord(todo[1]) THEN Goto("record cert") ELSE NextCert
  /\ UNCHANGED <<apiVars, snapVars, queued, transientFailures, lastDesiredHash, inSync, crashes, history>>

(* Without a config Secret there is nowhere to record the failure. *)
CertSyncFailed(e) ==
  IF snap.exists
    THEN /\ FailWith(Failure("CertSync", e))
         /\ UNCHANGED <<queued, transientFailures, snapVars>>
    ELSE /\ Leave /\ Requeue /\ ForgetSecret
         /\ transientFailures' = OneMoreFailure

PushFails ==
  /\ pc = "push"
  /\ \E e \in Errors \cup {VersionCheckError(x) : x \in Errors} \cup {OtherError} :
       /\ PushError(todo[1], e) \/ PushAnswerLost(todo[1], e)
       /\ CertSyncFailed(e)
  /\ clientReady' = TRUE
  /\ UNCHANGED <<apiVars, certVars, lastDesiredHash, inSync, crashes, history>>

(* A certificate's own request is the only push made without a client. *)
PushWithoutClient ==
  /\ pc = "push"
  /\ \E e \in Errors : ClientFails(e) /\ CertSyncFailed(e)
  /\ UNCHANGED <<apiVars, certVars, lastDesiredHash, clientReady, inSync, crashes, history>>

(* A conflict is swallowed; any other failure fails the push. *)
RecordCert ==
  /\ pc = "record cert"
  /\ \E res \in PatchResults :
       /\ patchAnnotations(WithCertRecord(snap.ann, todo[1], certSyncHashes[todo[1]]), res)
       /\ IF res \in {"ok", "conflict"} THEN NextCert
          ELSE FailWith(Failure("CertSync", OtherError))
  /\ UNCHANGED <<gatewayVars, certVars, queued, memory, crashes, history>>

(* The certificate's request ends here when there is no config Secret. *)
NoConfigSecret ==
  /\ pc = "clear cert status" /\ ~snap.exists
  /\ Finish /\ ForgetSecret
  /\ UNCHANGED <<apiVars, gatewayVars, certVars, memory, crashes, refused, accepted>>

(* Variant: the suppression stays. *)
WithoutFailed_Keeps(object) == object

WithoutFailed(object) == [object EXCEPT !.ann.failed = Absent]

(* A recovered sync clears its own failure status, whatever becomes of the *)
(* patch; then the suppression is dropped from the reconcile's copy, and   *)
(* only from there.                                                        *)
ClearCertStatus ==
  /\ pc = "clear cert status" /\ snap.exists
  /\ IF HasPrefix(snap.ann.status, "CertSync")
       THEN LET new == [snap.ann EXCEPT !.status = Applied]
            IN  \E res \in PatchResults :
                  /\ PatchServer(new, res)
                  /\ snap' = WithoutFailed(SnapAfter(new, res))
                  /\ snapCurrent' = (snapCurrent /\ res # "lost")
       ELSE /\ snap' = WithoutFailed(snap)
            /\ UNCHANGED <<apiVars, snapCurrent>>
  /\ Goto("decide")
  /\ UNCHANGED <<gatewayVars, certVars, queued, memory, crashes, history>>

-----------------------------------------------------------------------------
(* What the Secret asks for. *)

KeyMissing ==
  /\ pc = "decide" /\ snap.data = NoKey
  /\ FailWith(MissingKey)
  /\ UNCHANGED <<apiVars, snapVars, gatewayVars, certVars, queued, memory, crashes, history>>

(* Variant: unchanged bytes end the reconcile. *)
Unchanged_NoLiveRead ==
  /\ pc = "decide" /\ snap.data # NoKey /\ currentHash = snap.ann.applied
  /\ Finish /\ ForgetSecret
  /\ UNCHANGED <<apiVars, gatewayVars, certVars, memory, crashes, refused, accepted>>

Unchanged ==
  /\ pc = "decide" /\ snap.data # NoKey /\ currentHash = snap.ann.applied
  /\ Goto("read live")
  /\ UNCHANGED <<apiVars, snapVars, gatewayVars, certVars, queued, memory, crashes, history>>

(* New bytes that were refused before wait for other bytes. *)
Suppressed ==
  /\ pc = "decide" /\ snap.data # NoKey
  /\ currentHash # snap.ann.applied /\ currentHash = snap.ann.failed
  /\ NoteDesired(transientFailures)
  /\ Finish /\ ForgetSecret
  /\ UNCHANGED <<apiVars, gatewayVars, certVars, clientReady, inSync, crashes, refused, accepted>>

DesiredChanged ==
  /\ pc = "decide" /\ snap.data # NoKey
  /\ currentHash \notin {snap.ann.applied, snap.ann.failed}
  /\ NoteDesired(transientFailures)
  /\ Goto("prepare")
  /\ UNCHANGED <<apiVars, snapVars, gatewayVars, certVars, queued, clientReady, inSync, crashes, history>>

-----------------------------------------------------------------------------
(* The desired bytes are the applied ones: has the gateway drifted?        *)

LiveReadWithoutClient ==
  /\ pc = "read live"
  /\ \E e \in Errors : ClientFails(e) /\ FailWith(Failure("", e))
  /\ UNCHANGED <<apiVars, snapVars, certVars, queued, memory, crashes, history>>

LiveReadFails ==
  /\ pc = "read live"
  /\ \E e \in Errors : ReadError(e) /\ FailWith(Failure("DriftCheck", e))
  /\ clientReady' = TRUE
  /\ UNCHANGED <<apiVars, snapVars, certVars, queued, transientFailures, lastDesiredHash, inSync, crashes, history>>

liveHash == HashBytes(live)

(* A Secret that predates last-observed-hash is compared with what was applied. *)
expectedHash == IF snap.ann.observed = Absent THEN snap.ann.applied ELSE snap.ann.observed

InSync  == snap.ann.observed # ObservedHashPending /\ liveHash = expectedHash
Drifted == snap.ann.observed # ObservedHashPending /\ liveHash # expectedHash

(* Variant: alert-only mode is not looked at. *)
MayRemediate_Always == currentHash # snap.ann.failed

MayRemediate == DriftRemediate /\ currentHash # snap.ann.failed

(* Every successful live read restarts the backoff. *)
LiveRead ==
  /\ pc = "read live"
  /\ clientReady' = TRUE
  /\ UNCHANGED <<apiVars, gatewayVars, certVars, crashes, refused, accepted>>

(* The read-back of the last apply failed: this read is the baseline. *)
LiveReadBaseline ==
  /\ LiveRead /\ snap.ann.observed = ObservedHashPending
  /\ pc' = "adopt" /\ readBack' = liveHash
  /\ transientFailures' = 0
  /\ UNCHANGED <<snapVars, key, todo, ensuring, report, queued, lastDesiredHash, inSync, streak>>

LiveReadInSync ==
  /\ LiveRead /\ InSync
  /\ inSync' = "yes" /\ transientFailures' = 0
  /\ IF HasPrefix(snap.ann.status, "DriftCheck")
       THEN Goto("clear drift status") /\ UNCHANGED <<snapVars, queued, streak>>
       ELSE Finish /\ ForgetSecret
  /\ UNCHANGED lastDesiredHash

(* The drift is reported and left alone. *)
LiveReadDriftReported ==
  /\ LiveRead /\ Drifted /\ ~MayRemediate
  /\ inSync' = "no" /\ transientFailures' = 0
  /\ Finish /\ ForgetSecret
  /\ UNCHANGED lastDesiredHash

LiveReadDriftRemediated ==
  /\ LiveRead /\ Drifted /\ MayRemediate
  /\ inSync' = "no"
  /\ NoteDesired(0)
  /\ Goto("prepare")
  /\ UNCHANGED <<snapVars, queued, streak>>

AdoptBaseline ==
  /\ pc = "adopt"
  /\ \E res \in PatchResults :
       patchAndForget([snap.ann EXCEPT !.observed = readBack, !.status = Applied], res)
  /\ inSync' = "yes"
  /\ Finish
  /\ UNCHANGED <<gatewayVars, certVars, transientFailures, lastDesiredHash, clientReady, crashes, refused, accepted>>

ClearDriftStatus ==
  /\ pc = "clear drift status"
  /\ \E res \in PatchResults :
       patchAndForget([snap.ann EXCEPT !.status = Applied], res)
  /\ Finish
  /\ UNCHANGED <<gatewayVars, certVars, memory, crashes, refused, accepted>>

-----------------------------------------------------------------------------
(* Validate, apply, observe, record. *)

PrepareFails ==
  /\ pc = "prepare"
  /\ \E e \in Errors : ClientFails(e) /\ FailWith(Failure("", e))
  /\ UNCHANGED <<apiVars, snapVars, certVars, queued, memory, crashes, history>>

(* Variant: certificates are left to their own requests. *)
Prepare_NoCerts ==
  /\ pc = "prepare"
  /\ clientReady' = TRUE
  /\ Goto("validate")
  /\ UNCHANGED <<apiVars, snapVars, gatewayVars, certVars, queued, transientFailures,
                 lastDesiredHash, inSync, crashes, history>>

(* Certificates first: a configuration may name their files. *)
Prepare ==
  /\ pc = "prepare"
  /\ clientReady' = TRUE
  /\ IF CertsSecretNames = <<>>
       THEN Goto("validate")
       ELSE /\ pc' = "push" /\ todo' = CertsSecretNames /\ ensuring' = TRUE
            /\ UNCHANGED <<key, report, readBack>>
  /\ UNCHANGED <<apiVars, snapVars, gatewayVars, certVars, queued, transientFailures,
                 lastDesiredHash, inSync, crashes, history>>

(* The gateway, or Validate itself, has judged the submission. *)
Reject ==
  /\ FailWith(Rejection)
  /\ refused' = refused \cup {snap.data}
  /\ UNCHANGED <<accepted, streak>>

ValidateRejects ==
  /\ pc = "validate"
  /\ snap.data = Empty \/ Refuses(snap.data)
  /\ Reject
  /\ UNCHANGED <<apiVars, snapVars, gatewayVars, certVars, queued, memory, crashes>>

ValidateFails ==
  /\ pc = "validate" /\ snap.data # Empty
  /\ \E e \in Errors \cup {VersionCheckError(x) : x \in Errors} :
       /\ ValidateError(e)
       /\ IF Transient(Classify(e))
            THEN FailWith(Failure("", e))
            ELSE FailWith(Rejection)
  /\ UNCHANGED <<apiVars, snapVars, certVars, queued, memory, crashes, history>>

ValidatePasses ==
  /\ pc = "validate"
  /\ snap.data # Empty /\ ~Refuses(snap.data)
  /\ Goto("read version")
  /\ UNCHANGED <<apiVars, snapVars, gatewayVars, certVars, queued, memory, crashes, history>>

ApplyReadsVersion ==
  /\ pc = "read version"
  /\ ReadVersion
  /\ Goto("post")
  /\ UNCHANGED <<apiVars, snapVars, certVars, queued, memory, crashes, history>>

ApplyVersionFails ==
  /\ pc = "read version"
  /\ \E e \in {VersionCheckError(x) : x \in Errors} :
       /\ VersionError(e)
       /\ IF Transient(Classify(e))
            THEN FailWith(Failure("Apply", e))
            ELSE FailWith(Rejection)
  /\ UNCHANGED <<apiVars, snapVars, certVars, queued, memory, crashes, history>>

(* From here to Record the gateway runs bytes the Secret does not admit to. *)
ApplySucceeds ==
  /\ pc = "post"
  /\ PostAccepted(snap.data)
  /\ accepted' = accepted \cup {snap.data}
  /\ transientFailures' = 0 /\ inSync' = "yes"
  /\ Goto("read back")
  /\ UNCHANGED <<apiVars, snapVars, certVars, queued, lastDesiredHash, clientReady, crashes, refused, streak>>

ApplyRejected ==
  /\ pc = "post"
  /\ PostRefused(snap.data)
  /\ Reject
  /\ UNCHANGED <<apiVars, snapVars, certVars, queued, memory, crashes>>

ApplyFails ==
  /\ pc = "post"
  /\ \E e \in Errors \cup {APIError(409)} :
       /\ \/ e = APIError(409) /\ PostConflicts /\ UNCHANGED accepted
          \/ RequestError(e) /\ UNCHANGED accepted
          \/ PostAnswerLost(snap.data, e) /\ accepted' = accepted \cup {snap.data}
          \/ PostDelayed(snap.data, e) /\ UNCHANGED accepted
       /\ IF Transient(Classify(e))
            THEN FailWith(Failure("Apply", e))
            ELSE FailWith(Rejection)
  /\ UNCHANGED <<apiVars, snapVars, certVars, queued, memory, crashes, refused, streak>>

ReadBack ==
  /\ pc = "read back"
  /\ \/ readBack' = liveHash /\ UNCHANGED gatewayVars
     \/ readBack' = ObservedHashPending /\ \E e \in Errors : ReadError(e)
  /\ pc' = "record"
  /\ UNCHANGED <<key, todo, ensuring, report>>
  /\ UNCHANGED <<apiVars, snapVars, certVars, queued, memory, crashes, history>>

(* Variant: the failure of an earlier apply is not cleared. *)
RecordedAnnotations_KeepsFailed(ann) ==
  [ann EXCEPT !.applied = currentHash, !.observed = readBack, !.status = Applied]

(* Variant: the baseline of an earlier apply stays. *)
RecordedAnnotations_KeepsBaseline(ann) ==
  [ann EXCEPT !.applied = currentHash, !.failed = Absent, !.status = Applied]

RecordedAnnotations(ann) ==
  [ann EXCEPT !.applied = currentHash, !.observed = readBack, !.failed = Absent,
              !.status = Applied]

Record ==
  /\ pc = "record"
  /\ \E res \in PatchResults : patchAndForget(RecordedAnnotations(snap.ann), res)
  /\ Finish
  /\ UNCHANGED <<gatewayVars, certVars, memory, crashes, refused, accepted>>

-----------------------------------------------------------------------------
(* failWithStatus and the return that follows it. *)

(* Variant: the hash is recorded as applied whatever the outcome. *)
FailureAnnotations_StampsApplied(ann) ==
  [ann EXCEPT !.status = report.status, !.applied = currentHash]

(* Variant: every failure suppresses. *)
FailureAnnotations_MarksTransient(ann) ==
  [ann EXCEPT !.status = report.status,
              !.failed = IF report.kind # "missing key" THEN currentHash ELSE ann.failed]

(* Variant: a rejection leaves the status as it was. *)
FailureAnnotations_KeepsStatus(ann) ==
  IF report.kind = "rejected" THEN [ann EXCEPT !.failed = currentHash]
                              ELSE [ann EXCEPT !.status = report.status]

FailureAnnotations(ann) ==
  [ann EXCEPT !.status = report.status,
              !.failed = IF report.kind = "rejected" THEN currentHash ELSE ann.failed]

(* A conflict counts as recorded; with another error Reconcile returns     *)
(* before it counts the failure.                                           *)
FailWithStatus ==
  /\ pc = "fail"
  /\ \E res \in PatchResults :
       /\ patchAndForget(FailureAnnotations(snap.ann), res)
       /\ IF report.kind = "transient" /\ res \in {"ok", "conflict"}
            THEN transientFailures' = OneMoreFailure /\ streak' = Longer
            ELSE /\ UNCHANGED transientFailures
                 /\ streak' = IF report.kind = "transient" /\ SameFailure THEN streak ELSE NoStreak
  /\ Leave /\ Requeue
  /\ UNCHANGED <<gatewayVars, certVars, lastDesiredHash, clientReady, inSync, crashes, refused, accepted>>

-----------------------------------------------------------------------------
(* What happens around the worker. *)

others == <<control, memory, crashes, history>>

FluxWrites ==
  /\ \/ \E c \in Configs \cup {NoKey} : FluxApply(c)
     \/ FluxDelete
  /\ UNCHANGED <<gatewayVars, certVars, queued, others>>

(* The informer catches up; the event filter has looked at every write. *)
InformerSync ==
  /\ ~cacheCurrent
  /\ cache' = secret /\ cacheCurrent' = TRUE /\ event' = FALSE
  /\ queued' = IF event THEN queued \cup {SecretName} ELSE queued
  /\ UNCHANGED <<secret, edits, apiFaults, snapVars, gatewayVars, certVars, others>>

CertRotated ==
  /\ \E k \in CertNames, b \in Bundles : RotateCert(k, b) /\ queued' = queued \cup {k}
  /\ UNCHANGED <<apiVars, snapVars, gatewayVars, others>>

GatewayMoves ==
  /\ \/ \E b \in Foreign : OutOfBandWrite(b)
     \/ \E k \in CertNames : LoseStoredCert(k)
  /\ UNCHANGED <<apiVars, snapVars, certVars, queued, others>>

LatePost ==
  /\ LatePostLands
  /\ accepted' = accepted \cup {late}
  /\ UNCHANGED <<apiVars, snapVars, certVars, queued, control, memory, crashes, refused, streak>>

Present == (IF secret.exists THEN {SecretName} ELSE {}) \cup {k \in CertNames : offered[k] # NoBundle}

(* The operator dies and the next leader lists everything anew: every      *)
(* Secret is a create event.  A POST it had sent may still land.           *)
Crash ==
  /\ crashes < MaxCrashes /\ crashes' = crashes + 1
  /\ late' \in {late} \cup IF pc = "post" /\ held /\ ~Refuses(snap.data) THEN {snap.data} ELSE {}
  /\ held' = FALSE
  /\ Leave /\ ForgetSecret
  /\ cache' = secret /\ cacheCurrent' = TRUE /\ event' = FALSE
  /\ queued' = Present
  /\ transientFailures' = 0 /\ lastDesiredHash' = Absent /\ clientReady' = FALSE /\ inSync' = "unset"
  /\ certSyncHashes' = [k \in CertNames |-> Absent]
  /\ streak' = NoStreak
  /\ UNCHANGED <<secret, edits, apiFaults, live, stored, faults, drifts, offered, rotations, refused, accepted>>

-----------------------------------------------------------------------------
Init ==
  /\ \/ secret = Gone
     \/ \E c \in Configs : secret = [Gone EXCEPT !.exists = TRUE, !.data = c]
  /\ cache = secret /\ cacheCurrent = TRUE /\ event = FALSE
  /\ snap = Gone /\ snapCurrent = FALSE
  /\ edits = 0 /\ apiFaults = 0
  /\ live \in Foreign /\ held = FALSE /\ late = NoConfig
  /\ stored = [k \in CertNames |-> NoBundle]
  /\ faults = 0 /\ drifts = 0
  /\ offered \in [CertNames -> (Bundles \ Malformed) \cup {NoBundle}]
  /\ certSyncHashes = [k \in CertNames |-> Absent] /\ rotations = 0
  /\ pc = "idle" /\ key = SecretName /\ todo = <<>> /\ ensuring = FALSE
  /\ report = NoReport /\ readBack = Absent
  /\ queued = Present
  /\ transientFailures = 0 /\ lastDesiredHash = Absent /\ clientReady = FALSE /\ inSync = "unset"
  /\ crashes = 0 /\ refused = {} /\ accepted = {} /\ streak = NoStreak

CertSteps ==
  PushSucceeds \/ PushFails \/ PushWithoutClient \/ RecordCert \/ NoConfigSecret \/ ClearCertStatus

DecisionSteps == KeyMissing \/ Unchanged \/ Suppressed \/ DesiredChanged

DriftSteps ==
  \/ LiveReadWithoutClient \/ LiveReadFails \/ LiveReadBaseline \/ LiveReadInSync
  \/ LiveReadDriftReported \/ LiveReadDriftRemediated \/ AdoptBaseline \/ ClearDriftStatus

ApplySteps ==
  \/ PrepareFails \/ Prepare
  \/ ValidateRejects \/ ValidateFails \/ ValidatePasses
  \/ ApplyReadsVersion \/ ApplyVersionFails
  \/ ApplySucceeds \/ ApplyRejected \/ ApplyFails
  \/ ReadBack \/ Record

Start(k) == (k = SecretName /\ StartConfig) \/ (k \in CertNames /\ StartCert(k)) \/ StartMissing(k)

Continue == CertSteps \/ DecisionSteps \/ DriftSteps \/ ApplySteps \/ FailWithStatus

Environment == FluxWrites \/ InformerSync \/ CertRotated \/ GatewayMoves \/ LatePost \/ Crash

Next == (\E k \in Keys : Start(k)) \/ Continue \/ Environment

Spec == Init /\ [][Next]_vars

(* A reconcile in progress comes to its end, the informer catches up, and  *)
(* every name in the queue gets its turn: the queue is first in, first     *)
(* out, and a RequeueAfter elapses.  Nothing is assumed of other actors.   *)
FairSpec ==
  /\ Spec
  /\ WF_vars(Continue) /\ WF_vars(InformerSync)
  /\ \A k \in Keys : SF_vars(Start(k))

-----------------------------------------------------------------------------
SecretTypeOK ==
  /\ secret \in SecretObject /\ cache \in SecretObject /\ snap \in SecretObject
  /\ cacheCurrent \in BOOLEAN /\ event \in BOOLEAN /\ snapCurrent \in BOOLEAN
  /\ edits \in 0 .. MaxEdits /\ apiFaults \in 0 .. MaxApiFaults

GatewayTypeOK ==
  /\ live \in Bytes /\ held \in BOOLEAN /\ late \in Configs \cup {NoConfig}
  /\ stored \in [CertNames -> Bundles \cup {NoBundle}]
  /\ faults \in 0 .. MaxFaults /\ drifts \in 0 .. MaxDrifts

CertTypeOK ==
  /\ offered \in [CertNames -> Bundles \cup {NoBundle}]
  /\ certSyncHashes \in [CertNames -> BundleHashes \cup {Absent}]
  /\ rotations \in 0 .. MaxRotations

ControlTypeOK ==
  /\ pc \in Steps /\ key \in Keys /\ todo \in Seq(CertNames) /\ ensuring \in BOOLEAN
  /\ report \in Reports /\ readBack \in Hashes \cup {Absent, ObservedHashPending}
  /\ queued \subseteq Keys

MemoryTypeOK ==
  /\ transientFailures \in 0 .. FailureCap /\ lastDesiredHash \in Hashes \cup {Absent}
  /\ clientReady \in BOOLEAN /\ inSync \in {"unset", "yes", "no"}
  /\ crashes \in 0 .. MaxCrashes

HistoryTypeOK ==
  /\ refused \subseteq Configs /\ accepted \subseteq Configs
  /\ streak \in [bytes : Configs \cup {NoKey}, stage : Stages, length : 0 .. FailureCap]

(* Every variable keeps its type. *)
TypeOK ==
  /\ SecretTypeOK /\ GatewayTypeOK /\ CertTypeOK
  /\ ControlTypeOK /\ MemoryTypeOK /\ HistoryTypeOK
=============================================================================
