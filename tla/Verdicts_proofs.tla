---------------------------- MODULE Verdicts_proofs ----------------------------
(***************************************************************************)
(* Proofs that the hashes the Secret carries are sound: last-failed-hash   *)
(* names only refused bytes, last-applied-hash only bytes the gateway      *)
(* wrote, and a new one only the bytes the Secret holds at that moment -   *)
(* for every configuration, certificate list, error set and bound.         *)
(***************************************************************************)
EXTENDS SecretReconciler_proofs

-----------------------------------------------------------------------------
(* Soundness is a property of every copy of the annotations, because a     *)
(* patch may write what a stale copy still holds; and it is only inductive *)
(* with what the reconcile knows between the gateway's answer and the      *)
(* patch that records it.                                                  *)

Sound(ann, ref, acc) ==
  \A c \in Configs : /\ ann.failed  = HashBytes(c) => c \in ref
                     /\ ann.applied = HashBytes(c) => c \in acc

CopiesSound ==
  /\ Sound(secret.ann, refused, accepted)
  /\ Sound(cache.ann, refused, accepted)
  /\ Sound(snap.ann, refused, accepted)

Answered ==
  /\ pc = "fail" /\ report.kind = "rejected" => snap.data \in refused
  /\ pc \in {"read back", "record"} => snap.data \in accepted

SoundInv == CopiesSound /\ Answered

-----------------------------------------------------------------------------
(* Hashes. *)

LEMMA HashInjective ==
  /\ \A b, c : HashBytes(b) = HashBytes(c) => b = c
  /\ \A b : HashBytes(b) # Absent
BY DEF HashBytes, Absent

LEMMA GoneSound == ASSUME NEW ref, NEW acc PROVE Sound(Gone.ann, ref, acc)
BY HashInjective DEF Sound, Gone, NoAnnotations

LEMMA SoundGrows ==
  ASSUME NEW ann, NEW ref, NEW acc, NEW ref2, NEW acc2, Sound(ann, ref, acc),
         ref \subseteq ref2, acc \subseteq acc2
  PROVE  Sound(ann, ref2, acc2)
BY DEF Sound

LEMMA MergeSound ==
  ASSUME NEW s, NEW o, NEW n, NEW ref, NEW acc, Sound(s, ref, acc), Sound(n, ref, acc)
  PROVE  Sound(Merge(s, o, n), ref, acc)
BY DEF Sound, Merge, Pick

-----------------------------------------------------------------------------
(* What the operations on the Secret preserve. *)

LEMMA CopiesKept ==
  ASSUME CopiesSound, UNCHANGED <<apiVars, snapVars>>,
         refused \subseteq refused', accepted \subseteq accepted'
  PROVE  CopiesSound'
<1>1. UNCHANGED <<secret, cache, snap>>
  BY DEF apiVars, snapVars
<1>2. QED
  BY <1>1, SoundGrows DEF CopiesSound

LEMMA CopiesForgotten ==
  ASSUME CopiesSound, ForgetSecret, UNCHANGED <<apiVars, refused, accepted>>
  PROVE  CopiesSound'
BY GoneSound DEF CopiesSound, ForgetSecret, apiVars

LEMMA CopiesRead ==
  ASSUME CopiesSound, GetSecret, UNCHANGED <<apiVars, refused, accepted>>
  PROVE  CopiesSound'
BY DEF CopiesSound, GetSecret, apiVars

LEMMA PatchSound ==
  ASSUME CopiesSound, SecretTypeOK, NEW new, NEW res \in PatchResults,
         PatchServer(new, res), Sound(new, refused, accepted), UNCHANGED <<refused, accepted>>
  PROVE  Sound(secret'.ann, refused', accepted') /\ Sound(cache'.ann, refused', accepted')
<1>1. cache' = cache
  BY DEF PatchServer
<1>2. secret' = secret \/ secret' = [secret EXCEPT !.ann = Merge(secret.ann, snap.ann, new)]
  BY DEF PatchServer
<1>3. secret' = secret \/ secret'.ann = Merge(secret.ann, snap.ann, new)
  BY <1>2 DEF SecretTypeOK, SecretObject
<1>4. QED
  BY <1>1, <1>3, MergeSound DEF CopiesSound

LEMMA PatchAndForgetSound ==
  ASSUME CopiesSound, SecretTypeOK, NEW new, NEW res \in PatchResults,
         patchAndForget(new, res), Sound(new, refused, accepted), UNCHANGED <<refused, accepted>>
  PROVE  CopiesSound'
BY PatchSound, GoneSound DEF patchAndForget, CopiesSound

LEMMA SnapAfterSound ==
  ASSUME CopiesSound, SecretTypeOK, NEW new, NEW res \in PatchResults,
         PatchServer(new, res), Sound(new, refused, accepted), UNCHANGED <<refused, accepted>>
  PROVE  Sound(SnapAfter(new, res).ann, refused', accepted')
<1>1. [snap EXCEPT !.ann = new].ann = new
  BY DEF SecretTypeOK, SecretObject
<1>2. QED
  BY <1>1, PatchSound DEF SnapAfter

(* The steps that record no verdict patch other annotations only. *)
LEMMA OtherAnnotationsSound ==
  ASSUME CopiesSound, NEW new, new.failed = snap.ann.failed, new.applied = snap.ann.applied
  PROVE  Sound(new, refused, accepted)
BY DEF CopiesSound, Sound

-----------------------------------------------------------------------------
(* Where a reconcile goes from a step without a verdict. *)

LEMMA NoVerdict ==
  ASSUME \/ pc' \notin {"fail", "read back", "record"}
         \/ pc' = "fail" /\ report'.kind # "rejected"
  PROVE  Answered'
BY DEF Answered

LEMMA NoVerdictFinish == ASSUME Leave PROVE Answered'
BY NoVerdict DEF Leave

LEMMA NoVerdictFailure ==
  ASSUME NEW stage, NEW e, FailWith(Failure(stage, e))
  PROVE  Answered'
BY NoVerdict DEF FailWith, Failure

LEMMA NoVerdictGoto ==
  ASSUME NEW step, step \notin {"fail", "read back", "record"}, Goto(step)
  PROVE  Answered'
BY NoVerdict DEF Goto

-----------------------------------------------------------------------------
(* One lemma per group of actions. *)

LEMMA StartSound == ASSUME SoundInv, NEW k \in Keys, Start(k) PROVE SoundInv'
<1>1. CopiesSound
  BY DEF SoundInv
<1>2. CASE StartConfig
  <2>1. GetSecret /\ Goto("decide") /\ UNCHANGED <<apiVars, refused, accepted>>
    BY <1>2 DEF StartConfig, history
  <2>2. QED
    BY <1>1, <2>1, CopiesRead, NoVerdictGoto DEF SoundInv
<1>3. CASE StartCert(k)
  <2>1. GetSecret /\ pc' = "push" /\ UNCHANGED <<apiVars, refused, accepted>>
    BY <1>3 DEF StartCert, history
  <2>2. QED
    BY <1>1, <2>1, CopiesRead, NoVerdict DEF SoundInv
<1>4. CASE StartMissing(k)
  <2>1. pc' = "idle" /\ UNCHANGED <<apiVars, snapVars, refused, accepted>>
    BY <1>4 DEF StartMissing, Take, control, history
  <2>2. QED
    BY <1>1, <2>1, CopiesKept, NoVerdict DEF SoundInv
<1>5. QED
  BY <1>2, <1>3, <1>4 DEF Start

LEMMA DecisionSound == SoundInv /\ DecisionSteps => SoundInv'
<1> SUFFICES ASSUME SoundInv, DecisionSteps PROVE SoundInv'
  OBVIOUS
<1>1. CopiesSound
  BY DEF SoundInv
<1>2. CASE KeyMissing
  <2>1. FailWith(MissingKey) /\ UNCHANGED <<apiVars, snapVars, refused, accepted>>
    BY <1>2 DEF KeyMissing, history
  <2>2. Answered'
    BY <2>1, NoVerdict DEF FailWith, MissingKey
  <2>3. QED
    BY <1>1, <2>1, <2>2, CopiesKept DEF SoundInv
<1>3. CASE Unchanged
  <2>1. Goto("read live") /\ UNCHANGED <<apiVars, snapVars, refused, accepted>>
    BY <1>3 DEF Unchanged, history
  <2>2. QED
    BY <1>1, <2>1, CopiesKept, NoVerdictGoto DEF SoundInv
<1>4. CASE Suppressed
  <2>1. Leave /\ ForgetSecret /\ UNCHANGED <<apiVars, refused, accepted>>
    BY <1>4 DEF Suppressed, Finish
  <2>2. QED
    BY <1>1, <2>1, CopiesForgotten, NoVerdictFinish DEF SoundInv
<1>5. CASE DesiredChanged
  <2>1. Goto("prepare") /\ UNCHANGED <<apiVars, snapVars, refused, accepted>>
    BY <1>5 DEF DesiredChanged, history
  <2>2. QED
    BY <1>1, <2>1, CopiesKept, NoVerdictGoto DEF SoundInv
<1>6. QED
  BY <1>2, <1>3, <1>4, <1>5 DEF DecisionSteps

LEMMA DriftSound == SecretTypeOK /\ SoundInv /\ DriftSteps => SoundInv'
<1> SUFFICES ASSUME SecretTypeOK, SoundInv, DriftSteps PROVE SoundInv'
  OBVIOUS
<1>1. CopiesSound
  BY DEF SoundInv
<1>2. snap.ann \in Annotations
  BY DEF SecretTypeOK, SecretObject
<1>3. CASE LiveReadWithoutClient \/ LiveReadFails
  <2>1. /\ \E stage, e : FailWith(Failure(stage, e))
        /\ UNCHANGED <<apiVars, snapVars, refused, accepted>>
    BY <1>3 DEF LiveReadWithoutClient, LiveReadFails, history
  <2>2. QED
    BY <1>1, <2>1, CopiesKept, NoVerdictFailure DEF SoundInv
<1>4. CASE LiveReadBaseline
  <2>1. pc' = "adopt" /\ UNCHANGED <<apiVars, snapVars, refused, accepted>>
    BY <1>4 DEF LiveReadBaseline, LiveRead
  <2>2. QED
    BY <1>1, <2>1, CopiesKept, NoVerdict DEF SoundInv
<1>5. CASE LiveReadInSync
  <2>1. /\ UNCHANGED <<apiVars, refused, accepted>>
        /\ \/ Goto("clear drift status") /\ UNCHANGED snapVars
           \/ Leave /\ ForgetSecret
    BY <1>5 DEF LiveReadInSync, LiveRead, Finish
  <2>2. QED
    BY <1>1, <2>1, CopiesKept, CopiesForgotten, NoVerdictGoto, NoVerdictFinish DEF SoundInv
<1>6. CASE LiveReadDriftReported
  <2>1. Leave /\ ForgetSecret /\ UNCHANGED <<apiVars, refused, accepted>>
    BY <1>6 DEF LiveReadDriftReported, LiveRead, Finish
  <2>2. QED
    BY <1>1, <2>1, CopiesForgotten, NoVerdictFinish DEF SoundInv
<1>7. CASE LiveReadDriftRemediated
  <2>1. Goto("prepare") /\ UNCHANGED <<apiVars, snapVars, refused, accepted>>
    BY <1>7 DEF LiveReadDriftRemediated, LiveRead
  <2>2. QED
    BY <1>1, <2>1, CopiesKept, NoVerdictGoto DEF SoundInv
<1>8. CASE AdoptBaseline
  <2> DEFINE new == [snap.ann EXCEPT !.observed = readBack, !.status = Applied]
  <2>1. PICK res \in PatchResults : patchAndForget(new, res)
    BY <1>8 DEF AdoptBaseline
  <2>2. Leave /\ UNCHANGED <<refused, accepted>>
    BY <1>8 DEF AdoptBaseline, Finish
  <2>3. Sound(new, refused, accepted)
    BY <1>1, <1>2, OtherAnnotationsSound DEF Annotations
  <2>4. QED
    BY <1>1, <2>1, <2>2, <2>3, PatchAndForgetSound, NoVerdictFinish DEF SoundInv
<1>9. CASE ClearDriftStatus
  <2> DEFINE new == [snap.ann EXCEPT !.status = Applied]
  <2>1. PICK res \in PatchResults : patchAndForget(new, res)
    BY <1>9 DEF ClearDriftStatus
  <2>2. Leave /\ UNCHANGED <<refused, accepted>>
    BY <1>9 DEF ClearDriftStatus, Finish
  <2>3. Sound(new, refused, accepted)
    BY <1>1, <1>2, OtherAnnotationsSound DEF Annotations
  <2>4. QED
    BY <1>1, <2>1, <2>2, <2>3, PatchAndForgetSound, NoVerdictFinish DEF SoundInv
<1>10. QED
  BY <1>3, <1>4, <1>5, <1>6, <1>7, <1>8, <1>9 DEF DriftSteps

(* Whatever keeps a POST from being answered, a conflict included, is read *)
(* as a failure of the request and not as a verdict.                       *)
LEMMA UnansweredIsTransient ==
  ASSUME NEW e,
         \/ e = APIError(409) \/ RequestError(e)
         \/ PostAnswerLost(snap.data, e) \/ PostDelayed(snap.data, e)
  PROVE  Transient(Classify(e))
<1>1. CASE e = APIError(409)
  BY <1>1 DEF APIError, Classify, ClassifyInner, classifyHTTPStatus, Transient, ClassConfigRejected,
              ClassConflict
<1>2. CASE PostDelayed(snap.data, e)
  <2>1. e.kind = "net" /\ ~e.version
    BY <1>2, DataplaneAssumption DEF PostDelayed
  <2>2. QED
    BY <2>1 DEF Classify, ClassifyInner, Transient, ClassConfigRejected, ClassConnection
<1>3. QED
  BY <1>1, <1>2 DEF RequestError, PostAnswerLost

LEMMA ApplySound == CoreInv /\ SoundInv /\ ApplySteps => SoundInv'
<1> SUFFICES ASSUME CoreInv, SoundInv, ApplySteps PROVE SoundInv'
  OBVIOUS
<1>1. CopiesSound /\ Answered /\ SecretTypeOK
  BY DEF SoundInv, CoreInv, TypeOK
<1>2. snap.ann \in Annotations
  BY <1>1 DEF SecretTypeOK, SecretObject
<1>3. CASE PrepareFails
  <2>1. (\E e : FailWith(Failure("", e))) /\ UNCHANGED <<apiVars, snapVars, refused, accepted>>
    BY <1>3 DEF PrepareFails, history
  <2>2. QED
    BY <1>1, <2>1, CopiesKept, NoVerdictFailure DEF SoundInv
<1>4. CASE Prepare
  <2>1. (Goto("validate") \/ pc' = "push") /\ UNCHANGED <<apiVars, snapVars, refused, accepted>>
    BY <1>4 DEF Prepare, history
  <2>2. QED
    BY <1>1, <2>1, CopiesKept, NoVerdict, NoVerdictGoto DEF SoundInv
<1>5. CASE ValidateRejects \/ ApplyRejected
  <2>1. /\ pc' = "fail" /\ refused' = refused \cup {snap.data}
        /\ UNCHANGED <<apiVars, snapVars, accepted>>
    BY <1>5 DEF ValidateRejects, ApplyRejected, Reject, FailWith
  <2>2. snap' = snap
    BY <2>1 DEF snapVars
  <2>3. Answered'
    BY <2>1, <2>2 DEF Answered
  <2>4. QED
    BY <1>1, <2>1, <2>3, CopiesKept DEF SoundInv
<1>6. CASE ValidateFails \/ ApplyVersionFails
  <2>1. PICK e, stage :
          /\ VersionError(e) \/ RequestError(e)
          /\ IF Transient(Classify(e)) THEN FailWith(Failure(stage, e)) ELSE FailWith(Rejection)
    BY <1>6 DEF ValidateFails, ApplyVersionFails, ValidateError
  <2>2. Transient(Classify(e))
    BY <2>1, VersionCheckIsTransient DEF VersionError, RequestError
  <2>3. UNCHANGED <<apiVars, snapVars, refused, accepted>>
    BY <1>6 DEF ValidateFails, ApplyVersionFails, history
  <2>4. QED
    BY <1>1, <2>1, <2>2, <2>3, CopiesKept, NoVerdictFailure DEF SoundInv
<1>7. CASE ValidatePasses
  <2>1. Goto("read version") /\ UNCHANGED <<apiVars, snapVars, refused, accepted>>
    BY <1>7 DEF ValidatePasses, history
  <2>2. QED
    BY <1>1, <2>1, CopiesKept, NoVerdictGoto DEF SoundInv
<1>8. CASE ApplyReadsVersion
  <2>1. Goto("post") /\ UNCHANGED <<apiVars, snapVars, refused, accepted>>
    BY <1>8 DEF ApplyReadsVersion, history
  <2>2. QED
    BY <1>1, <2>1, CopiesKept, NoVerdictGoto DEF SoundInv
<1>9. CASE ApplySucceeds
  <2>1. /\ pc' = "read back" /\ accepted' = accepted \cup {snap.data}
        /\ UNCHANGED <<apiVars, snapVars, refused>>
    BY <1>9 DEF ApplySucceeds, Goto
  <2>2. snap' = snap
    BY <2>1 DEF snapVars
  <2>3. Answered'
    BY <2>1, <2>2 DEF Answered
  <2>4. QED
    BY <1>1, <2>1, <2>3, CopiesKept DEF SoundInv
<1>10. CASE ApplyFails
  <2>1. PICK e :
          /\ \/ e = APIError(409) \/ RequestError(e)
             \/ PostAnswerLost(snap.data, e) \/ PostDelayed(snap.data, e)
          /\ IF Transient(Classify(e)) THEN FailWith(Failure("Apply", e)) ELSE FailWith(Rejection)
    BY <1>10 DEF ApplyFails
  <2>2. Transient(Classify(e))
    BY <2>1, UnansweredIsTransient
  <2>3. accepted \subseteq accepted' /\ UNCHANGED <<apiVars, snapVars, refused>>
    BY <1>10 DEF ApplyFails
  <2>4. QED
    BY <1>1, <2>1, <2>2, <2>3, CopiesKept, NoVerdictFailure DEF SoundInv
<1>11. CASE ReadBack
  <2>1. /\ pc = "read back" /\ pc' = "record"
        /\ UNCHANGED <<apiVars, snapVars, refused, accepted>>
    BY <1>11 DEF ReadBack, history
  <2>2. Answered'
    BY <1>1, <2>1 DEF Answered, snapVars
  <2>3. QED
    BY <1>1, <2>1, <2>2, CopiesKept DEF SoundInv
<1>12. CASE Record
  <2> DEFINE new == RecordedAnnotations(snap.ann)
  <2>1. PICK res \in PatchResults : patchAndForget(new, res)
    BY <1>12 DEF Record
  <2>2. pc = "record" /\ Leave /\ UNCHANGED <<refused, accepted>>
    BY <1>12 DEF Record, Finish
  <2>3. new.failed = Absent /\ new.applied = HashBytes(snap.data)
    BY <1>2 DEF RecordedAnnotations, Annotations, currentHash
  <2>4. snap.data \in accepted
    BY <1>1, <2>2 DEF Answered
  <2>5. Sound(new, refused, accepted)
    BY <2>3, <2>4, HashInjective DEF Sound
  <2>6. QED
    BY <1>1, <2>1, <2>2, <2>5, PatchAndForgetSound, NoVerdictFinish DEF SoundInv
<1>13. QED
  BY <1>3, <1>4, <1>5, <1>6, <1>7, <1>8, <1>9, <1>10, <1>11, <1>12 DEF ApplySteps

LEMMA FailSound == CoreInv /\ SoundInv /\ FailWithStatus => SoundInv'
<1> SUFFICES ASSUME CoreInv, SoundInv, FailWithStatus PROVE SoundInv'
  OBVIOUS
<1>1. CopiesSound /\ Answered /\ SecretTypeOK
  BY DEF SoundInv, CoreInv, TypeOK
<1>2. snap.ann \in Annotations
  BY <1>1 DEF SecretTypeOK, SecretObject
<1> DEFINE new == FailureAnnotations(snap.ann)
<1>3. PICK res \in PatchResults : patchAndForget(new, res)
  BY DEF FailWithStatus
<1>4. pc = "fail" /\ Leave /\ UNCHANGED <<refused, accepted>>
  BY DEF FailWithStatus
<1>5. /\ new.applied = snap.ann.applied
      /\ new.failed = IF report.kind = "rejected" THEN HashBytes(snap.data) ELSE snap.ann.failed
  BY <1>2 DEF FailureAnnotations, Annotations, currentHash
<1>6. report.kind = "rejected" => snap.data \in refused
  BY <1>1, <1>4 DEF Answered
<1>7. Sound(new, refused, accepted)
  BY <1>1, <1>5, <1>6, HashInjective DEF Sound, CopiesSound
<1>8. QED
  BY <1>1, <1>3, <1>4, <1>7, PatchAndForgetSound, NoVerdictFinish DEF SoundInv

LEMMA CertSound == CoreInv /\ SoundInv /\ CertSteps => SoundInv'
<1> SUFFICES ASSUME CoreInv, SoundInv, CertSteps PROVE SoundInv'
  OBVIOUS
<1>1. CopiesSound /\ SecretTypeOK /\ Coherent
  BY DEF SoundInv, CoreInv, TypeOK
<1>2. snap.ann \in Annotations
  BY <1>1 DEF SecretTypeOK, SecretObject
<1>3. NextCert => pc' \in {"validate", "push", "clear cert status"}
  BY DEF NextCert
<1>4. CASE PushSucceeds
  <2>1. /\ Goto("record cert") \/ NextCert
        /\ UNCHANGED <<apiVars, snapVars, refused, accepted>>
    BY <1>4 DEF PushSucceeds, history
  <2>2. QED
    BY <1>1, <1>3, <2>1, CopiesKept, NoVerdict, NoVerdictGoto DEF SoundInv
<1>5. CASE PushFails \/ PushWithoutClient
  <2>1. (\E e : CertSyncFailed(e)) /\ UNCHANGED <<apiVars, refused, accepted>>
    BY <1>5 DEF PushFails, PushWithoutClient, history
  <2>2. \/ (\E e : FailWith(Failure("CertSync", e))) /\ UNCHANGED snapVars
        \/ Leave /\ ForgetSecret
    BY <2>1 DEF CertSyncFailed
  <2>3. QED
    BY <1>1, <2>1, <2>2, CopiesKept, CopiesForgotten, NoVerdictFailure, NoVerdictFinish DEF SoundInv
<1>6. CASE RecordCert
  <2> DEFINE new == WithCertRecord(snap.ann, todo[1], certSyncHashes[todo[1]])
  <2>1. PICK res \in PatchResults :
          patchAnnotations(new, res) /\ (NextCert \/ FailWith(Failure("CertSync", OtherError)))
    BY <1>6 DEF RecordCert
  <2>2. UNCHANGED <<refused, accepted>>
    BY <1>6 DEF RecordCert, history
  <2>3. Sound(new, refused, accepted)
    BY <1>1, <1>2, OtherAnnotationsSound DEF WithCertRecord, Annotations
  <2>4. CopiesSound'
    BY <1>1, <2>1, <2>2, <2>3, PatchSound, SnapAfterSound DEF patchAnnotations, CopiesSound
  <2>5. QED
    BY <1>3, <2>1, <2>4, NoVerdict, NoVerdictFailure DEF SoundInv
<1>7. CASE NoConfigSecret
  <2>1. Leave /\ ForgetSecret /\ UNCHANGED <<apiVars, refused, accepted>>
    BY <1>7 DEF NoConfigSecret, Finish
  <2>2. QED
    BY <1>1, <2>1, CopiesForgotten, NoVerdictFinish DEF SoundInv
<1>8. CASE ClearCertStatus
  <2> DEFINE new == [snap.ann EXCEPT !.status = Applied]
  <2>1. Goto("decide") /\ UNCHANGED <<refused, accepted>>
    BY <1>8 DEF ClearCertStatus, history
  <2>2. ASSUME NEW o \in SecretObject, Sound(o.ann, refused, accepted)
        PROVE  Sound(WithoutFailed(o).ann, refused, accepted)
    <3>1. WithoutFailed(o).ann.failed = Absent /\ WithoutFailed(o).ann.applied = o.ann.applied
      BY DEF WithoutFailed, SecretObject, Annotations
    <3>2. QED
      BY <2>2, <3>1, HashInjective DEF Sound
  <2>3. CASE snap' = WithoutFailed(snap) /\ UNCHANGED apiVars
    BY <1>1, <2>1, <2>2, <2>3, NoVerdictGoto DEF CopiesSound, SoundInv, SecretTypeOK, apiVars
  <2>4. ASSUME NEW res \in PatchResults, PatchServer(new, res),
               snap' = WithoutFailed(SnapAfter(new, res))
        PROVE  SoundInv'
    <3>1. new \in Annotations
      BY <1>2, AppliedStatusType DEF Annotations
    <3>2. Sound(new, refused, accepted)
      BY <1>1, <1>2, OtherAnnotationsSound DEF Annotations
    <3>3. SnapAfter(new, res) \in SecretObject
      BY <1>1, <2>4, <3>1, PatchServerPreserves DEF SnapAfter, SecretTypeOK, SecretObject
    <3>4. Sound(SnapAfter(new, res).ann, refused, accepted)
      BY <1>1, <2>1, <2>4, <3>2, SnapAfterSound
    <3>5. Sound(snap'.ann, refused', accepted')
      BY <2>1, <2>2, <2>4, <3>3, <3>4
    <3>6. QED
      BY <1>1, <2>1, <2>4, <3>2, <3>5, PatchSound, NoVerdictGoto DEF CopiesSound, SoundInv
  <2>5. QED
    BY <1>8, <2>3, <2>4 DEF ClearCertStatus
<1>9. QED
  BY <1>4, <1>5, <1>6, <1>7, <1>8 DEF CertSteps

LEMMA EnvironmentSound == CoreInv /\ SoundInv /\ Environment => SoundInv'
<1> SUFFICES ASSUME CoreInv, SoundInv, Environment PROVE SoundInv'
  OBVIOUS
<1>1. CopiesSound /\ Answered /\ SecretTypeOK
  BY DEF SoundInv, CoreInv, TypeOK
<1>2. ASSUME UNCHANGED <<control, snap, refused>>, accepted \subseteq accepted'
      PROVE  Answered'
  BY <1>1, <1>2 DEF Answered, control
<1>3. CASE FluxWrites
  <2>1. UNCHANGED <<control, refused, accepted>>
    BY <1>3 DEF FluxWrites, others, history
  <2>2. cache' = cache /\ snap' = snap /\ (secret'.ann = secret.ann \/ secret' = Gone)
    BY <1>1, <1>3 DEF FluxWrites, FluxApply, FluxDelete, SecretTypeOK, SecretObject
  <2>3. QED
    BY <1>1, <1>2, <2>1, <2>2, GoneSound DEF CopiesSound, SoundInv
<1>4. CASE InformerSync
  <2>1. UNCHANGED <<control, refused, accepted, snap, secret>> /\ cache' = secret
    BY <1>4 DEF InformerSync, others, history, snapVars
  <2>2. QED
    BY <1>1, <1>2, <2>1 DEF CopiesSound, SoundInv
<1>5. CASE CertRotated \/ GatewayMoves \/ LatePost
  <2>1. /\ UNCHANGED <<control, refused, apiVars, snapVars>>
        /\ accepted \subseteq accepted'
    BY <1>5 DEF CertRotated, GatewayMoves, LatePost, others, history
  <2>2. QED
    BY <1>1, <1>2, <2>1, CopiesKept DEF snapVars, SoundInv
<1>6. CASE Crash
  <2>1. /\ Leave /\ snap' = Gone /\ cache' = secret
        /\ UNCHANGED <<secret, refused, accepted>>
    BY <1>6 DEF Crash, ForgetSecret
  <2>2. QED
    BY <1>1, <2>1, GoneSound, NoVerdictFinish DEF CopiesSound, SoundInv
<1>7. QED
  BY <1>3, <1>4, <1>5, <1>6 DEF Environment

-----------------------------------------------------------------------------
LEMMA InitSound == Init => SoundInv
<1> SUFFICES ASSUME Init PROVE SoundInv
  OBVIOUS
<1>1. secret.ann = Gone.ann /\ cache = secret /\ snap = Gone /\ pc = "idle"
  <2>1. ASSUME NEW c \in Configs PROVE [Gone EXCEPT !.exists = TRUE, !.data = c].ann = Gone.ann
    BY DEF Gone
  <2>2. secret = Gone \/ \E c \in Configs : secret = [Gone EXCEPT !.exists = TRUE, !.data = c]
    BY DEF Init
  <2>3. secret.ann = Gone.ann
    <3>1. ASSUME NEW c \in Configs, secret = [Gone EXCEPT !.exists = TRUE, !.data = c]
          PROVE  secret.ann = Gone.ann
      BY ONLY <2>1, <3>1
    <3>2. QED
      BY <2>2, <3>1
  <2>4. QED
    BY <2>3 DEF Init
<1>2. QED
  BY <1>1, GoneSound DEF SoundInv, CopiesSound, Answered

LEMMA NextSound == CoreInv /\ SoundInv /\ [Next]_vars => SoundInv'
<1> SUFFICES ASSUME CoreInv, SoundInv, [Next]_vars PROVE SoundInv'
  OBVIOUS
<1>1. CASE \E k \in Keys : Start(k)
  BY <1>1, StartSound
<1>2. CASE Continue
  BY <1>2, CertSound, DecisionSound, DriftSound, ApplySound, FailSound DEF Continue, CoreInv, TypeOK
<1>3. CASE Environment
  BY <1>3, EnvironmentSound
<1>4. CASE UNCHANGED vars
  <2>1. UNCHANGED <<apiVars, snapVars, refused, accepted>> /\ Answered'
    BY <1>4 DEF vars, history, control, snapVars, SoundInv, Answered
  <2>2. QED
    BY <2>1, CopiesKept DEF SoundInv
<1>5. QED
  BY <1>1, <1>2, <1>3, <1>4 DEF Next

LEMMA SoundInvariant == Spec => [](CoreInv /\ SoundInv)
<1>1. Init => CoreInv /\ SoundInv
  BY InitCore, InitSound
<1>2. CoreInv /\ SoundInv /\ [Next]_vars => (CoreInv /\ SoundInv)'
  BY NextCore, NextSound
<1>3. QED
  BY <1>1, <1>2, PTL DEF Spec

(* No bytes are suppressed without a refusal of the gateway or of the      *)
(* local check, whatever errors the requests meet: Classify demotes every  *)
(* failure of the version check, and every patch writes what it read.      *)
THEOREM SuppressionIsSound == Spec => []SuppressionSound
<1>1. SoundInv => SuppressionSound
  BY DEF SoundInv, CopiesSound, Sound, SuppressionSound
<1>2. QED
  BY <1>1, SoundInvariant, PTL

(* No bytes are recorded as applied that the gateway did not write, through *)
(* every lost answer, conflict, stale cache and restart.                    *)
THEOREM AppliedIsSound == Spec => []AppliedSound
<1>1. SoundInv => AppliedSound
  BY DEF SoundInv, CopiesSound, Sound, AppliedSound
<1>2. QED
  BY <1>1, SoundInvariant, PTL

-----------------------------------------------------------------------------
(* The optimistic lock. *)

(* A step that leaves the two hashes alone, or deletes the Secret. *)
LEMMA NothingRecorded ==
  ASSUME \/ secret'.ann.applied = secret.ann.applied /\ secret'.ann.failed = secret.ann.failed
         \/ ~secret'.exists
  PROVE  VerdictStep
BY DEF VerdictStep

(* A patch writes the hash of the bytes the reconcile holds, or nothing    *)
(* new; the API server takes it only while those are the Secret's bytes.   *)
LEMMA PatchRecords ==
  ASSUME SecretTypeOK, Coherent, NEW new, NEW res \in PatchResults, PatchServer(new, res),
         new.applied \in {snap.ann.applied, Absent, HashBytes(snap.data)},
         new.failed \in {snap.ann.failed, Absent, HashBytes(snap.data)}
  PROVE  VerdictStep
<1>1. CASE secret' = secret
  BY <1>1, NothingRecorded
<1>2. CASE secret' = [secret EXCEPT !.ann = Merge(secret.ann, snap.ann, new)] /\ snapCurrent
  <2>1. /\ secret'.ann.applied = Pick(secret.ann.applied, snap.ann.applied, new.applied)
        /\ secret'.ann.failed = Pick(secret.ann.failed, snap.ann.failed, new.failed)
        /\ secret'.data = secret.data
    BY <1>2 DEF SecretTypeOK, SecretObject, Merge
  <2>2. snap.data = secret.data
    BY <1>2 DEF Coherent
  <2>3. QED
    BY <2>1, <2>2 DEF VerdictStep, Pick
<1>3. QED
  BY <1>1, <1>2 DEF PatchServer, PatchResults

LEMMA StepRecords == CoreInv /\ [Next]_vars => VerdictStep
<1> SUFFICES ASSUME CoreInv, [Next]_vars PROVE VerdictStep
  OBVIOUS
<1>1. SecretTypeOK /\ Coherent /\ snap.ann \in Annotations
  BY DEF CoreInv, TypeOK, SecretTypeOK, SecretObject
<1>2. CASE secret' = secret
  BY <1>2, NothingRecorded
<1>3. CASE FluxWrites
  <2>1. CASE \E c : FluxApply(c)
    BY <1>1, <2>1, NothingRecorded DEF FluxApply, SecretTypeOK, SecretObject
  <2>2. CASE FluxDelete
    BY <2>2, NothingRecorded DEF FluxDelete, Gone
  <2>3. QED
    BY <1>3, <2>1, <2>2 DEF FluxWrites
<1>4. CASE RecordCert
  <2> DEFINE new == WithCertRecord(snap.ann, todo[1], certSyncHashes[todo[1]])
  <2>1. PICK res \in PatchResults : PatchServer(new, res)
    BY <1>4 DEF RecordCert, patchAnnotations
  <2>2. new.applied = snap.ann.applied /\ new.failed = snap.ann.failed
    BY <1>1 DEF WithCertRecord, Annotations
  <2>3. QED
    BY <1>1, <2>1, <2>2, PatchRecords
<1>5. CASE ClearCertStatus \/ ClearDriftStatus
  <2> DEFINE new == [snap.ann EXCEPT !.status = Applied]
  <2>1. (\E res \in PatchResults : PatchServer(new, res)) \/ UNCHANGED apiVars
    BY <1>5 DEF ClearCertStatus, ClearDriftStatus, patchAndForget
  <2>2. new.applied = snap.ann.applied /\ new.failed = snap.ann.failed
    BY <1>1 DEF Annotations
  <2>3. QED
    BY <1>1, <1>2, <2>1, <2>2, PatchRecords DEF apiVars
<1>6. CASE AdoptBaseline
  <2> DEFINE new == [snap.ann EXCEPT !.observed = readBack, !.status = Applied]
  <2>1. PICK res \in PatchResults : PatchServer(new, res)
    BY <1>6 DEF AdoptBaseline, patchAndForget
  <2>2. new.applied = snap.ann.applied /\ new.failed = snap.ann.failed
    BY <1>1 DEF Annotations
  <2>3. QED
    BY <1>1, <2>1, <2>2, PatchRecords
<1>7. CASE Record
  <2> DEFINE new == RecordedAnnotations(snap.ann)
  <2>1. PICK res \in PatchResults : PatchServer(new, res)
    BY <1>7 DEF Record, patchAndForget
  <2>2. new.applied = HashBytes(snap.data) /\ new.failed = Absent
    BY <1>1 DEF RecordedAnnotations, Annotations, currentHash
  <2>3. QED
    BY <1>1, <2>1, <2>2, PatchRecords
<1>8. CASE FailWithStatus
  <2> DEFINE new == FailureAnnotations(snap.ann)
  <2>1. PICK res \in PatchResults : PatchServer(new, res)
    BY <1>8 DEF FailWithStatus, patchAndForget
  <2>2. new.applied = snap.ann.applied /\ new.failed \in {snap.ann.failed, HashBytes(snap.data)}
    BY <1>1 DEF FailureAnnotations, Annotations, currentHash
  <2>3. QED
    BY <1>1, <2>1, <2>2, PatchRecords
<1>9. CASE (\E k \in Keys : Start(k)) \/ UNCHANGED vars
  BY <1>2, <1>9 DEF Start, StartConfig, StartCert, StartMissing, vars, apiVars
<1>10. CASE DecisionSteps
  BY <1>2, <1>10
     DEF DecisionSteps, KeyMissing, Unchanged, Suppressed, DesiredChanged, apiVars
<1>11. CASE ApplySteps
  BY <1>2, <1>7, <1>11
     DEF ApplySteps, PrepareFails, Prepare, ValidateRejects, ValidateFails, ValidatePasses,
         ApplyReadsVersion, ApplyVersionFails, ApplySucceeds, ApplyRejected, ApplyFails,
         ReadBack, apiVars
<1>12. CASE DriftSteps
  BY <1>2, <1>5, <1>6, <1>12
     DEF DriftSteps, LiveReadWithoutClient, LiveReadFails, LiveReadBaseline, LiveReadInSync,
         LiveReadDriftReported, LiveReadDriftRemediated, LiveRead, apiVars
<1>13. CASE CertSteps
  BY <1>2, <1>4, <1>5, <1>13
     DEF CertSteps, PushSucceeds, PushFails, PushWithoutClient, NoConfigSecret, apiVars
<1>14. CASE Environment
  BY <1>2, <1>3, <1>14
     DEF Environment, InformerSync, CertRotated, GatewayMoves, LatePost, Crash, apiVars
<1>15. QED
  BY <1>8, <1>9, <1>10, <1>11, <1>12, <1>13, <1>14 DEF Next, Continue

(* A new hash in the Secret, applied or failed, is always that of the      *)
(* bytes the Secret holds when it is written: an edit between Get and the  *)
(* patch makes the patch conflict (MergeFromWithOptimisticLock).           *)
THEOREM VerdictsStayWithTheirBytes == Spec => VerdictsAboutCurrentBytes
<1>1. CoreInv /\ [Next]_vars => [VerdictStep]_vars
  BY StepRecords
<1>2. QED
  BY <1>1, CoreInvariant, PTL DEF Spec, VerdictsAboutCurrentBytes
=============================================================================
