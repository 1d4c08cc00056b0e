------------------------------ MODULE Queue_proofs ------------------------------
(***************************************************************************)
(* Proof that the work queue forgets no Secret: what exists is queued, on  *)
(* its way to the queue or being served, through every return of Reconcile *)
(* and every restart, for any list of certificates and any bounds.         *)
(***************************************************************************)
EXTENDS SecretReconciler_proofs

-----------------------------------------------------------------------------
(* NotFound drops a request.  That is safe because the informer misses an  *)
(* existing Secret only until it delivers the event of its creation.       *)
Announced == secret.exists /\ ~cache.exists => event

(* Between two requests the key is the one every Leave puts back.          *)
KeyPutBack == pc = "idle" => key = SecretName

QueueInv == NeverForgotten /\ Announced /\ KeyPutBack

-----------------------------------------------------------------------------
(* A patch touches nothing but annotations, and raises no event. *)
LEMMA PatchKeepsData ==
  ASSUME SecretTypeOK, NEW new, NEW res, PatchServer(new, res)
  PROVE  /\ secret'.exists = secret.exists /\ secret'.data = secret.data
         /\ UNCHANGED <<cache, event>>
BY DEF PatchServer, SecretTypeOK, SecretObject

(* What a step of a reconcile does to the queue: nothing, or it ends and   *)
(* asks for another run.                                                   *)
GoesOn == pc' # "idle" /\ UNCHANGED <<key, queued>>
Ends   == Leave /\ Requeue

WorkerStep ==
  /\ pc # "idle" /\ (GoesOn \/ Ends)
  /\ secret'.exists = secret.exists /\ secret'.data = secret.data
  /\ UNCHANGED <<cache, event, offered>>

LEMMA WorkerDecides == SecretTypeOK /\ DecisionSteps => WorkerStep
BY DEF DecisionSteps, KeyMissing, Unchanged, Suppressed, DesiredChanged, FailWith, Goto, Finish,
       WorkerStep, GoesOn, Ends, apiVars, certVars

LEMMA WorkerChecksDrift == SecretTypeOK /\ DriftSteps => WorkerStep
<1> SUFFICES ASSUME SecretTypeOK, DriftSteps PROVE WorkerStep
  OBVIOUS
<1>1. CASE LiveReadWithoutClient \/ LiveReadFails
  BY <1>1 DEF LiveReadWithoutClient, LiveReadFails, FailWith, WorkerStep, GoesOn, apiVars, certVars
<1>2. CASE LiveReadBaseline \/ LiveReadInSync \/ LiveReadDriftReported \/ LiveReadDriftRemediated
  BY <1>2 DEF LiveReadBaseline, LiveReadInSync, LiveReadDriftReported, LiveReadDriftRemediated,
              LiveRead, Goto, Finish, WorkerStep, GoesOn, Ends, apiVars, certVars
<1>3. CASE AdoptBaseline \/ ClearDriftStatus
  <2>1. \E new, res : PatchServer(new, res)
    BY <1>3 DEF AdoptBaseline, ClearDriftStatus, patchAndForget
  <2>2. pc # "idle" /\ Ends /\ UNCHANGED offered
    BY <1>3 DEF AdoptBaseline, ClearDriftStatus, Finish, Ends, certVars
  <2>3. QED
    BY <2>1, <2>2, PatchKeepsData DEF WorkerStep
<1>4. QED
  BY <1>1, <1>2, <1>3 DEF DriftSteps

LEMMA WorkerApplies == SecretTypeOK /\ ApplySteps => WorkerStep
<1> SUFFICES ASSUME SecretTypeOK, ApplySteps PROVE WorkerStep
  OBVIOUS
<1>1. CASE PrepareFails \/ Prepare
  BY <1>1 DEF PrepareFails, Prepare, FailWith, Goto, WorkerStep, GoesOn, apiVars, certVars
<1>2. CASE ValidateRejects \/ ValidateFails \/ ValidatePasses
  BY <1>2 DEF ValidateRejects, ValidateFails, ValidatePasses, Reject, FailWith, Goto, WorkerStep,
              GoesOn, apiVars, certVars
<1>3. CASE ApplyReadsVersion \/ ApplyVersionFails
  BY <1>3 DEF ApplyReadsVersion, ApplyVersionFails, FailWith, Goto, WorkerStep, GoesOn, apiVars, certVars
<1>4. CASE ApplySucceeds \/ ApplyRejected
  BY <1>4 DEF ApplySucceeds, ApplyRejected, Reject, FailWith, Goto, WorkerStep, GoesOn, apiVars, certVars
<1>5. CASE ApplyFails
  BY <1>5 DEF ApplyFails, FailWith, WorkerStep, GoesOn, apiVars, certVars
<1>6. CASE ReadBack
  BY <1>6 DEF ReadBack, WorkerStep, GoesOn, apiVars, certVars
<1>7. CASE Record
  <2>1. \E new, res : PatchServer(new, res)
    BY <1>7 DEF Record, patchAndForget
  <2>2. pc # "idle" /\ Ends /\ UNCHANGED offered
    BY <1>7 DEF Record, Finish, Ends, certVars
  <2>3. QED
    BY <2>1, <2>2, PatchKeepsData DEF WorkerStep
<1>8. QED
  BY <1>1, <1>2, <1>3, <1>4, <1>5, <1>6, <1>7 DEF ApplySteps

LEMMA WorkerSyncsCerts == SecretTypeOK /\ CertSteps => WorkerStep
<1> SUFFICES ASSUME SecretTypeOK, CertSteps PROVE WorkerStep
  OBVIOUS
<1>1. NextCert => pc' # "idle" /\ UNCHANGED key
  BY DEF NextCert
<1>2. CASE PushSucceeds
  BY <1>1, <1>2 DEF PushSucceeds, Push, Goto, WorkerStep, GoesOn, apiVars
<1>3. CASE PushFails \/ PushWithoutClient
  <2>1. /\ pc = "push" /\ (\E e : CertSyncFailed(e)) /\ UNCHANGED <<apiVars, certVars>>
    BY <1>3 DEF PushFails, PushWithoutClient
  <2>2. GoesOn \/ Ends
    BY <2>1 DEF CertSyncFailed, FailWith, GoesOn, Ends
  <2>3. QED
    BY <2>1, <2>2 DEF WorkerStep, apiVars, certVars
<1>4. CASE RecordCert
  <2>1. \E new, res : PatchServer(new, res)
    BY <1>4 DEF RecordCert, patchAnnotations
  <2>2. pc # "idle" /\ GoesOn /\ UNCHANGED offered
    BY <1>1, <1>4 DEF RecordCert, FailWith, GoesOn, certVars
  <2>3. QED
    BY <2>1, <2>2, PatchKeepsData DEF WorkerStep
<1>5. CASE NoConfigSecret
  BY <1>5 DEF NoConfigSecret, Finish, WorkerStep, Ends, apiVars, certVars
<1>6. CASE ClearCertStatus
  <2>1. (\E new, res : PatchServer(new, res)) \/ UNCHANGED apiVars
    BY <1>6 DEF ClearCertStatus
  <2>2. pc # "idle" /\ GoesOn /\ UNCHANGED offered
    BY <1>6 DEF ClearCertStatus, Goto, GoesOn, certVars
  <2>3. QED
    BY <2>1, <2>2, PatchKeepsData DEF WorkerStep, apiVars
<1>7. QED
  BY <1>2, <1>3, <1>4, <1>5, <1>6 DEF CertSteps

LEMMA WorkerFails == SecretTypeOK /\ FailWithStatus => WorkerStep
<1> SUFFICES ASSUME SecretTypeOK, FailWithStatus PROVE WorkerStep
  OBVIOUS
<1>1. \E new, res : PatchServer(new, res)
  BY DEF FailWithStatus, patchAndForget
<1>2. pc # "idle" /\ Ends /\ UNCHANGED offered
  BY DEF FailWithStatus, Ends, certVars
<1>3. QED
  BY <1>1, <1>2, PatchKeepsData DEF WorkerStep

LEMMA WorkerSteps == SecretTypeOK /\ Continue => WorkerStep
BY WorkerDecides, WorkerChecksDrift, WorkerApplies, WorkerSyncsCerts, WorkerFails DEF Continue

-----------------------------------------------------------------------------
LEMMA ContinueQueues ==
  ASSUME SecretTypeOK, QueueInv, Continue
  PROVE  QueueInv'
<1>1. WorkerStep
  BY WorkerSteps
<1>2. Announced'
  BY <1>1 DEF WorkerStep, QueueInv, Announced
<1>3. CASE GoesOn
  BY <1>1, <1>2, <1>3 DEF WorkerStep, GoesOn, QueueInv, NeverForgotten, KeyPutBack
<1>4. CASE Ends
  <2>1. pc' = "idle" /\ key' = SecretName /\ queued' = queued \cup {key}
    BY <1>4 DEF Ends, Leave, Requeue
  <2>2. QED
    BY <1>1, <1>2, <2>1 DEF WorkerStep, QueueInv, NeverForgotten, KeyPutBack
<1>5. QED
  BY <1>1, <1>3, <1>4 DEF WorkerStep

(* The one return that asks for no other run is for a Secret that is gone, *)
(* or that is announced.                                                   *)
LEMMA StartQueues ==
  ASSUME QueueInv, NEW k \in Keys, Start(k)
  PROVE  QueueInv'
<1>1. SecretName \notin CertNames
  BY NamesAssumption
<1>2. /\ UNCHANGED <<secret, cache, event, offered>>
      /\ pc = "idle" /\ queued' = queued \ {k}
  BY DEF Start, StartConfig, StartCert, StartMissing, Take, apiVars, certVars
<1>3. Announced'
  BY <1>2 DEF QueueInv, Announced
<1>4. CASE k = SecretName /\ StartConfig
  <2>1. pc' = "decide" /\ key' = k
    BY <1>2, <1>4 DEF StartConfig, Goto, QueueInv, KeyPutBack
  <2>2. QED
    BY <1>1, <1>2, <1>3, <1>4, <2>1 DEF QueueInv, NeverForgotten, KeyPutBack
<1>5. CASE k \in CertNames /\ StartCert(k)
  <2>1. pc' = "push" /\ key' = k
    BY <1>5 DEF StartCert
  <2>2. QED
    BY <1>1, <1>2, <1>3, <1>5, <2>1 DEF QueueInv, NeverForgotten, KeyPutBack
<1>6. CASE StartMissing(k)
  <2>1. /\ UNCHANGED <<pc, key>>
        /\ IF k = SecretName THEN ~cache.exists ELSE offered[k] = NoBundle
    BY <1>6 DEF StartMissing, control
  <2>2. QED
    BY <1>1, <1>2, <1>3, <2>1 DEF QueueInv, Announced, NeverForgotten, KeyPutBack
<1>7. QED
  BY <1>4, <1>5, <1>6 DEF Start

LEMMA EnvironmentQueues ==
  ASSUME SecretTypeOK, CertTypeOK, QueueInv, Environment
  PROVE  QueueInv'
<1>1. CASE FluxWrites
  <2>1. UNCHANGED <<pc, key, queued, cache, offered>>
    BY <1>1 DEF FluxWrites, FluxApply, FluxDelete, others, control, certVars
  <2>2. event' = TRUE \/ ~secret'.exists
    <3>1. ASSUME NEW c, FluxApply(c) PROVE event' = TRUE
      BY <3>1 DEF FluxApply
    <3>2. ASSUME FluxDelete PROVE ~secret'.exists
      BY <3>2 DEF FluxDelete, Gone
    <3>3. QED
      BY <1>1, <3>1, <3>2 DEF FluxWrites
  <2>3. QED
    BY <2>1, <2>2 DEF QueueInv, NeverForgotten, Announced, KeyPutBack
<1>2. CASE InformerSync
  <2>1. /\ UNCHANGED <<pc, key, secret, offered>> /\ cache' = secret
        /\ queued' = IF event THEN queued \cup {SecretName} ELSE queued
    BY <1>2 DEF InformerSync, others, control, certVars
  <2>2. QED
    BY <2>1 DEF QueueInv, NeverForgotten, Announced, KeyPutBack
<1>3. CASE CertRotated
  <2>1. PICK k \in CertNames, b \in Bundles : RotateCert(k, b) /\ queued' = queued \cup {k}
    BY <1>3 DEF CertRotated
  <2>2. /\ UNCHANGED <<pc, key, secret, cache, event>>
        /\ \A c \in CertNames \ {k} : offered'[c] = offered[c]
    BY <1>3, <2>1 DEF CertRotated, RotateCert, others, control, apiVars, CertTypeOK
  <2>3. QED
    BY <2>1, <2>2 DEF QueueInv, NeverForgotten, Announced, KeyPutBack
<1>4. CASE GatewayMoves \/ LatePost
  <2>1. UNCHANGED <<pc, key, queued, secret, cache, event, offered>>
    BY <1>4 DEF GatewayMoves, LatePost, others, control, certVars, apiVars
  <2>2. QED
    BY <2>1 DEF QueueInv, NeverForgotten, Announced, KeyPutBack
<1>5. CASE Crash
  <2>1. /\ Leave /\ UNCHANGED <<secret, offered>> /\ cache' = secret /\ queued' = Present
    BY <1>5 DEF Crash
  <2>2. QED
    BY <2>1 DEF Leave, Present, QueueInv, NeverForgotten, Announced, KeyPutBack
<1>6. QED
  BY <1>1, <1>2, <1>3, <1>4, <1>5 DEF Environment

LEMMA NextQueues == CoreInv /\ QueueInv /\ [Next]_vars => QueueInv'
<1> SUFFICES ASSUME CoreInv, QueueInv, [Next]_vars PROVE QueueInv'
  OBVIOUS
<1>1. SecretTypeOK /\ CertTypeOK
  BY DEF CoreInv, TypeOK
<1>2. CASE UNCHANGED vars
  BY <1>2 DEF vars, control, apiVars, certVars, QueueInv, NeverForgotten, Announced, KeyPutBack
<1>3. CASE Next
  BY <1>1, <1>3, StartQueues, ContinueQueues, EnvironmentQueues DEF Next
<1>4. QED
  BY <1>2, <1>3

LEMMA InitQueues == Init => QueueInv
BY DEF Init, Present, QueueInv, NeverForgotten, Announced, KeyPutBack

(* Every return of Reconcile but NotFound asks for another run, and a      *)
(* NotFound is followed by the create event of what it missed: no write of *)
(* a Secret waits for the next one to be seen.                             *)
THEOREM NothingIsForgotten == Spec => []NeverForgotten
<1>1. Init => QueueInv
  BY InitQueues
<1>2. CoreInv /\ QueueInv /\ [Next]_vars => QueueInv'
  BY NextQueues
<1>3. QueueInv => NeverForgotten
  BY DEF QueueInv
<1>4. QED
  BY <1>1, <1>2, <1>3, CoreInvariant, PTL DEF Spec
=============================================================================
