----------------------------- MODULE Backoff_proofs -----------------------------
(***************************************************************************)
(* Proof that the retry delay keeps up with a series of equal failures, in *)
(* a deployment that leaves drift and certificates to others, for as long  *)
(* as the process lives - whatever errors the requests meet.               *)
(***************************************************************************)
EXTENDS Promise_proofs

-----------------------------------------------------------------------------
(* The counter is shared by everything that may fail and is set to zero in *)
(* three places: new desired bytes, a live read, an apply.  It keeps up    *)
(* only where neither a remediation (a successful live read, then a failed *)
(* submission) nor a certificate's own request nor a restarted process     *)
(* (failures that do not note the desired bytes) stands in between.        *)
PlainDeployment == ~DriftRemediate /\ CertsSecretNames = <<>> /\ MaxCrashes = 0

Counted == transientFailures >= streak.length

Submission == {"", "Apply"}

(* A submission that failed had its bytes noted, so that the next attempt  *)
(* does not start the count anew.                                          *)
Noted ==
  streak.length > 0 /\ streak.stage \in Submission => lastDesiredHash = HashBytes(streak.bytes)

BackoffInv ==
  /\ pc \in {"idle", "decide", "read live"} => Counted /\ Noted
  /\ pc \in {"prepare", "validate", "read version", "post"} =>
       /\ lastDesiredHash = currentHash
       /\ streak.bytes = snap.data /\ streak.stage \in Submission => Counted
  /\ pc = "fail" /\ report.kind = "transient" =>
       /\ report.status[1] \in Submission => lastDesiredHash = currentHash
       /\ SameFailure => Counted
  /\ pc = "read live" => currentHash = snap.ann.applied

(* Nothing was ever applied without a client; in the life of one process   *)
(* the client stays.                                                       *)
ClientInv ==
  ~clientReady =>
    /\ accepted = {} /\ late = NoConfig
    /\ pc \notin {"record cert", "validate", "read version", "post", "read back", "record"}

(* The drift check, of bytes once applied, never has to build a client. *)
LEMMA LiveReadHasClient ==
  ASSUME PromiseInv, BackoffInv, ClientInv, pc = "read live"
  PROVE  clientReady
<1>1. snap.data \in Configs /\ HashBytes(snap.data) = snap.ann.applied
  BY DEF PromiseInv, CoreInv, Progress, HasBytes, BackoffInv, currentHash
<1>2. snap.data \in accepted
  BY <1>1 DEF PromiseInv, SoundInv, CopiesSound, Sound
<1>3. QED
  BY <1>2 DEF ClientInv

(* The configuration is written and a request is left on its way only by a *)
(* reconcile that has come past Prepare.                                   *)
LEMMA ContinueClient ==
  ASSUME PromiseInv, ClientInv, Continue
  PROVE  ClientInv'
<1>1. CASE CertSteps
  BY <1>1 DEF CertSteps, PushSucceeds, PushFails, PushWithoutClient, RecordCert, NoConfigSecret,
       ClearCertStatus, CertSyncFailed, NextCert, ClientFails, FailWith, Goto, Finish, Leave,
       gatewayVars, memory, history, ClientInv
<1>2. CASE DecisionSteps
  BY <1>2 DEF DecisionSteps, KeyMissing, Unchanged, Suppressed, DesiredChanged, FailWith, Goto,
       Finish, Leave, gatewayVars, memory, history, ClientInv
<1>3. CASE DriftSteps
  BY <1>3 DEF DriftSteps, LiveReadWithoutClient, LiveReadFails, LiveReadBaseline, LiveReadInSync,
       LiveReadDriftReported, LiveReadDriftRemediated, LiveRead, AdoptBaseline, ClearDriftStatus,
       ClientFails, FailWith, Goto, Finish, Leave, gatewayVars, memory, history, ClientInv
<1>4. CASE ApplySteps
  BY <1>4 DEF ApplySteps, PrepareFails, Prepare, ValidateRejects, ValidateFails, ValidatePasses,
       ApplyReadsVersion, ApplyVersionFails, ApplySucceeds, ApplyRejected, ApplyFails, ReadBack,
       Record, ClientFails, Reject, FailWith, Goto, Finish, Leave, gatewayVars, memory, history, ClientInv
<1>5. CASE FailWithStatus
  BY <1>5 DEF FailWithStatus, Leave, gatewayVars, ClientInv
<1>6. QED
  BY <1>1, <1>2, <1>3, <1>4, <1>5 DEF Continue

LEMMA NextClient ==
  ASSUME MaxCrashes = 0
  PROVE  PromiseInv /\ ClientInv /\ [Next]_vars => ClientInv'
<1> SUFFICES ASSUME PromiseInv, ClientInv, [Next]_vars PROVE ClientInv'
  OBVIOUS
<1>1. CASE Continue
  BY <1>1, ContinueClient
<1>2. CASE (\E k \in Keys : Start(k)) \/ UNCHANGED vars
  BY <1>2 DEF Start, StartConfig, StartCert, StartMissing, Take, Goto, vars, control, gatewayVars,
       memory, history, ClientInv
<1>3. CASE Environment
  <2>1. ~Crash
    BY ReconcilerAssumption DEF Crash, PromiseInv, CoreInv, TypeOK, MemoryTypeOK
  <2>2. CASE LatePost
    BY <2>2 DEF LatePost, LatePostLands, memory, ClientInv
  <2>3. CASE GatewayMoves
    BY <2>3 DEF GatewayMoves, OutOfBandWrite, LoseStoredCert, Write, others, control, memory,
         history, ClientInv
  <2>4. CASE FluxWrites \/ InformerSync \/ CertRotated
    BY <2>4 DEF FluxWrites, InformerSync, CertRotated, gatewayVars, others, control, memory,
         history, ClientInv
  <2>5. QED
    BY <1>3, <2>1, <2>2, <2>3, <2>4 DEF Environment
<1>4. QED
  BY <1>1, <1>2, <1>3 DEF Next

-----------------------------------------------------------------------------
(* The count, step by step. *)

(* A reconcile that ends without a failure leaves no series behind. *)
LEMMA FinishCounts ==
  ASSUME MemoryTypeOK, transientFailures' \in 0 .. FailureCap, Finish
  PROVE  BackoffInv'
<1>1. pc' = "idle" /\ streak'.length = 0
  BY DEF Finish, Leave, NoStreak
<1>2. QED
  BY <1>1 DEF BackoffInv, Counted, Noted, FailureCap

(* On to a step where nothing fails and nothing is counted. *)
LEMMA ElsewhereCounts ==
  ASSUME \/ pc' \in {"adopt", "clear drift status", "read back", "record"}
         \/ pc' = "fail" /\ report'.kind # "transient"
  PROVE  BackoffInv'
BY DEF BackoffInv

LEMMA DecisionCounts ==
  ASSUME CoreInv, BackoffInv, DecisionSteps
  PROVE  BackoffInv'
<1>1. /\ MemoryTypeOK /\ streak.length \in Nat
      /\ transientFailures \in Nat /\ 0 \in 0 .. FailureCap
  BY DEF CoreInv, TypeOK, MemoryTypeOK, HistoryTypeOK, FailureCap
<1>2. CASE KeyMissing
  BY <1>2, ElsewhereCounts DEF KeyMissing, FailWith, MissingKey
<1>3. CASE Unchanged
  <2>1. /\ pc = "decide" /\ pc' = "read live" /\ currentHash = snap.ann.applied
        /\ UNCHANGED <<snap, streak, transientFailures, lastDesiredHash>>
    BY <1>3 DEF Unchanged, Goto, snapVars, memory, history
  <2>2. QED
    BY <2>1 DEF BackoffInv, Counted, Noted, currentHash
<1>4. CASE Suppressed
  <2>1. transientFailures' \in 0 .. FailureCap /\ Finish
    BY <1>1, <1>4 DEF Suppressed, NoteDesired, MemoryTypeOK
  <2>2. QED
    BY <1>1, <2>1, FinishCounts
<1>5. CASE DesiredChanged
  <2>1. /\ pc = "decide" /\ pc' = "prepare" /\ UNCHANGED <<snap, streak>>
        /\ lastDesiredHash' = currentHash
        /\ transientFailures' = IF lastDesiredHash # currentHash THEN 0 ELSE transientFailures
    BY <1>5 DEF DesiredChanged, Goto, NoteDesired, snapVars, history
  <2>2. Counted /\ Noted
    BY <2>1 DEF BackoffInv
  <2>3. ASSUME streak.bytes = snap.data, streak.stage \in Submission
        PROVE  transientFailures' >= streak.length
    BY <1>1, <2>1, <2>2, <2>3 DEF Counted, Noted, currentHash
  <2>4. QED
    BY <2>1, <2>3 DEF BackoffInv, Counted, currentHash
<1>6. QED
  BY <1>2, <1>3, <1>4, <1>5 DEF DecisionSteps

LEMMA DriftCounts ==
  ASSUME PromiseInv, BackoffInv, ClientInv, ~DriftRemediate, DriftSteps
  PROVE  BackoffInv'
<1>1. MemoryTypeOK /\ 0 \in 0 .. FailureCap
  BY DEF PromiseInv, CoreInv, TypeOK, MemoryTypeOK, FailureCap
<1>2. ~LiveReadWithoutClient /\ ~LiveReadDriftRemediated
  BY LiveReadHasClient DEF LiveReadWithoutClient, ClientFails, LiveReadDriftRemediated, MayRemediate
<1>3. CASE LiveReadFails
  <2>1. /\ pc = "read live" /\ pc' = "fail" /\ \E e \in Errors : report' = Failure("DriftCheck", e)
        /\ UNCHANGED <<snap, streak, transientFailures>>
    BY <1>3 DEF LiveReadFails, FailWith, snapVars, history
  <2>2. report'.status[1] = "DriftCheck"
    <3>1. ASSUME NEW e PROVE Failure("DriftCheck", e).status[1] = "DriftCheck"
      BY DEF Failure
    <3>2. QED
      BY <2>1, <3>1
  <2>3. Counted
    BY <2>1 DEF BackoffInv
  <2>4. QED
    BY <2>1, <2>2, <2>3 DEF BackoffInv, Counted, Submission
<1>4. CASE LiveReadBaseline
  BY <1>4, ElsewhereCounts DEF LiveReadBaseline
<1>5. CASE LiveReadInSync
  BY <1>1, <1>5, ElsewhereCounts, FinishCounts DEF LiveReadInSync, Goto
<1>6. CASE LiveReadDriftReported
  BY <1>1, <1>6, FinishCounts DEF LiveReadDriftReported
<1>7. CASE AdoptBaseline \/ ClearDriftStatus
  <2>1. Finish /\ transientFailures' = transientFailures
    BY <1>7 DEF AdoptBaseline, ClearDriftStatus, memory
  <2>2. QED
    BY <1>1, <2>1, FinishCounts DEF MemoryTypeOK
<1>8. QED
  BY <1>2, <1>3, <1>4, <1>5, <1>6, <1>7 DEF DriftSteps

(* A submission that fails in a call of its own. *)
LEMMA SubmissionFails ==
  ASSUME BackoffInv, pc \in {"prepare", "validate", "read version", "post"},
         NEW stage \in Submission, NEW e, FailWith(Failure(stage, e)),
         UNCHANGED <<snap, streak, transientFailures, lastDesiredHash>>
  PROVE  BackoffInv'
<1>1. pc' = "fail" /\ report'.status[1] = stage
  BY DEF FailWith, Failure
<1>2. lastDesiredHash = currentHash /\ (streak.bytes = snap.data /\ streak.stage \in Submission => Counted)
  BY DEF BackoffInv
<1>3. QED
  BY <1>1, <1>2 DEF BackoffInv, Counted, SameFailure, currentHash

LEMMA SubmissionGoesOn ==
  ASSUME BackoffInv, pc \in {"prepare", "validate", "read version", "post"},
         pc' \in {"validate", "read version", "post"},
         UNCHANGED <<snap, streak, transientFailures, lastDesiredHash>>
  PROVE  BackoffInv'
BY DEF BackoffInv, Counted, currentHash

LEMMA ApplyCounts ==
  ASSUME CoreInv, BackoffInv, CertsSecretNames = <<>>, ApplySteps
  PROVE  BackoffInv'
<1>1. MemoryTypeOK
  BY DEF CoreInv, TypeOK
<1>2. CASE PrepareFails
  <2>1. /\ pc = "prepare" /\ \E e : FailWith(Failure("", e))
        /\ UNCHANGED <<snap, streak, transientFailures, lastDesiredHash>>
    BY <1>2 DEF PrepareFails, snapVars, memory, history
  <2>2. QED
    BY <2>1, SubmissionFails DEF Submission
<1>3. CASE Prepare \/ ValidatePasses \/ ApplyReadsVersion
  <2>1. /\ pc \in {"prepare", "validate", "read version"} /\ pc' \in {"validate", "read version", "post"}
        /\ UNCHANGED <<snap, streak, transientFailures, lastDesiredHash>>
    BY <1>3 DEF Prepare, ValidatePasses, ApplyReadsVersion, Goto, snapVars, memory, history
  <2>2. QED
    BY <2>1, SubmissionGoesOn
<1>4. CASE ValidateRejects \/ ApplyRejected
  <2>1. pc' = "fail" /\ report' = Rejection
    BY <1>4 DEF ValidateRejects, ApplyRejected, Reject, FailWith
  <2>2. QED
    BY <2>1, OtherReports, ElsewhereCounts
<1>5. CASE ValidateFails \/ ApplyVersionFails
  <2>1. \/ FailWith(Rejection)
        \/ \E e : FailWith(Failure("", e)) \/ FailWith(Failure("Apply", e))
    BY <1>5 DEF ValidateFails, ApplyVersionFails
  <2>2. /\ pc \in {"validate", "read version"}
        /\ UNCHANGED <<snap, streak, transientFailures, lastDesiredHash>>
    BY <1>5 DEF ValidateFails, ApplyVersionFails, snapVars, memory, history
  <2>3. CASE FailWith(Rejection)
    BY <2>3, ElsewhereCounts DEF FailWith, Rejection
  <2>4. QED
    BY <2>1, <2>2, <2>3, SubmissionFails DEF Submission
<1>6. CASE ApplySucceeds
  BY <1>6, ElsewhereCounts DEF ApplySucceeds, Goto
<1>7. CASE ApplyFails
  <2>1. /\ pc = "post"
        /\ FailWith(Rejection) \/ \E e : FailWith(Failure("Apply", e))
        /\ UNCHANGED <<snap, streak, transientFailures, lastDesiredHash>>
    BY <1>7 DEF ApplyFails, snapVars, memory
  <2>2. CASE FailWith(Rejection)
    BY <2>2, ElsewhereCounts DEF FailWith, Rejection
  <2>3. QED
    BY <2>1, <2>2, SubmissionFails DEF Submission
<1>8. CASE ReadBack
  BY <1>8, ElsewhereCounts DEF ReadBack
<1>9. CASE Record
  BY <1>1, <1>9, FinishCounts DEF Record, memory, MemoryTypeOK
<1>10. QED
  BY <1>2, <1>3, <1>4, <1>5, <1>6, <1>7, <1>8, <1>9 DEF ApplySteps

(* Where the failure is counted: it makes the series as long as the bytes  *)
(* and the stage it shares with it, and the count grows along.             *)
LEMMA FailCounts ==
  ASSUME CoreInv, BackoffInv, FailWithStatus
  PROVE  BackoffInv'
<1>1. /\ transientFailures \in 0 .. FailureCap /\ streak.length \in 0 .. FailureCap
      /\ FailureCap = 4
  BY DEF CoreInv, TypeOK, MemoryTypeOK, HistoryTypeOK, FailureCap
<1>2. pc = "fail" /\ pc' = "idle" /\ lastDesiredHash' = lastDesiredHash
  BY DEF FailWithStatus, Leave
<1>3. SUFFICES Counted' /\ Noted'
  BY <1>2 DEF BackoffInv
<1>4. CASE report.kind = "transient" /\ transientFailures' = OneMoreFailure /\ streak' = Longer
  <2>1. /\ report.status[1] \in Submission => lastDesiredHash = currentHash
        /\ SameFailure => Counted
    BY <1>2, <1>4 DEF BackoffInv
  <2>2. /\ streak'.bytes = snap.data /\ streak'.stage = report.status[1]
        /\ streak'.length = IF ~SameFailure THEN 1
                            ELSE IF streak.length < FailureCap THEN streak.length + 1
                            ELSE FailureCap
    BY <1>4 DEF Longer
  <2>3. Noted'
    BY <1>2, <2>1, <2>2 DEF Noted, currentHash
  <2>4. Counted'
    BY <1>1, <1>4, <2>1, <2>2 DEF Counted, OneMoreFailure
  <2>5. QED
    BY <2>3, <2>4
<1>5. CASE report.kind = "transient" /\ SameFailure /\ UNCHANGED <<transientFailures, streak>>
  BY <1>2, <1>5 DEF BackoffInv, SameFailure, Counted, Noted, currentHash
<1>6. CASE transientFailures' = transientFailures /\ streak' = NoStreak
  <2>1. streak'.length = 0
    BY <1>6 DEF NoStreak
  <2>2. QED
    BY <1>1, <1>6, <2>1 DEF Counted, Noted
<1>7. \/ report.kind = "transient" /\ transientFailures' = OneMoreFailure /\ streak' = Longer
      \/ /\ transientFailures' = transientFailures
         /\ streak' = IF report.kind = "transient" /\ SameFailure THEN streak ELSE NoStreak
  BY DEF FailWithStatus
<1>8. QED
  BY <1>4, <1>5, <1>6, <1>7

LEMMA NextCounts ==
  ASSUME PlainDeployment
  PROVE  PromiseInv /\ ClientInv /\ BackoffInv /\ [Next]_vars => BackoffInv'
<1> SUFFICES ASSUME PromiseInv, ClientInv, BackoffInv, [Next]_vars PROVE BackoffInv'
  OBVIOUS
<1>1. CoreInv /\ CertNames = {}
  BY NoCertsNoNames DEF PromiseInv, PlainDeployment
<1>2. CASE UNCHANGED <<pc, report, snap, transientFailures, lastDesiredHash, streak>>
  BY <1>2 DEF BackoffInv, Counted, Noted, SameFailure, currentHash
<1>3. CASE Continue
  <2>1. ~CertSteps
    BY <1>1 DEF PromiseInv, CopyInv, NoCertsNoCertSteps, CertSteps, PushSucceeds, PushFails,
         PushWithoutClient, RecordCert, NoConfigSecret, ClearCertStatus
  <2>2. QED
    BY <1>1, <1>3, <2>1, DecisionCounts, DriftCounts, ApplyCounts, FailCounts
       DEF Continue, PlainDeployment
<1>4. CASE \E k \in Keys : Start(k)
  <2>1. pc = "idle" /\ (pc' = "decide" \/ UNCHANGED <<pc, report, snap>>)
    BY <1>1, <1>4 DEF Start, StartConfig, StartCert, StartMissing, Take, Goto, control, snapVars
  <2>2. UNCHANGED <<transientFailures, lastDesiredHash, streak>>
    BY <1>4 DEF Start, StartConfig, StartCert, StartMissing, memory, history
  <2>3. QED
    BY <1>2, <2>1, <2>2 DEF BackoffInv, Counted, Noted
<1>5. CASE Environment
  <2>1. ~Crash
    BY ReconcilerAssumption DEF PlainDeployment, Crash, CoreInv, PromiseInv, TypeOK, MemoryTypeOK
  <2>2. QED
    BY <1>2, <1>5, <2>1 DEF Environment, FluxWrites, FluxApply, FluxDelete, InformerSync,
       CertRotated, GatewayMoves, LatePost, others, control, memory, history, snapVars
<1>6. CASE UNCHANGED vars
  BY <1>2, <1>6 DEF vars, control, memory, history, snapVars
<1>7. QED
  BY <1>3, <1>4, <1>5, <1>6 DEF Next

(* Where neither remediation nor certificates nor a restart stand between  *)
(* two failures, the count behind backoffForFailure is never below the     *)
(* number of failures in a row for the same bytes at the same stage, up to *)
(* where the delay no longer grows.                                        *)
THEOREM BackoffIsMonotone == ASSUME PlainDeployment PROVE Spec => []BackoffKeepsUp
<1>1. Init => ClientInv /\ BackoffInv
  <2>1. ASSUME Init
        PROVE  /\ pc = "idle" /\ accepted = {} /\ late = NoConfig
               /\ transientFailures = 0 /\ streak.length = 0
    BY <2>1 DEF Init, NoStreak
  <2>2. QED
    BY <2>1 DEF ClientInv, BackoffInv, Counted, Noted
<1>2. PromiseInv /\ ClientInv /\ BackoffInv /\ [Next]_vars => ClientInv' /\ BackoffInv'
  BY NextClient, NextCounts DEF PlainDeployment
<1>3. BackoffInv => BackoffKeepsUp
  BY DEF BackoffInv, Counted, BackoffKeepsUp
<1>4. Spec => []PromiseInv
  BY CopyInvariant DEF PromiseInv
<1>5. QED
  BY <1>1, <1>2, <1>3, <1>4, PTL DEF Spec
=============================================================================
