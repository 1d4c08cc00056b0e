----------------------------- MODULE Promise_proofs -----------------------------
(***************************************************************************)
(* Proof that the reconciler implements GitOps, step by step, and of what  *)
(* it does and leaves alone when bytes are already applied - for every     *)
(* configuration, certificate list, error set and bound.                   *)
(***************************************************************************)
EXTENDS Verdicts_proofs, Queue_proofs

-----------------------------------------------------------------------------
(* What the reconcile may rely on in its own copy of the Secret. *)

(* A copy of a Secret that is not there offers no bytes. *)
NoBytesWithoutSecret == \A o \in {secret, cache, snap} : ~o.exists => o.data = NoKey

(* A copy with the server's resourceVersion has the server's claims, so a  *)
(* merge patch computed against it leaves no claim half written.  Only     *)
(* ClearCertStatus drops a claim from the copy alone.                      *)
CopiesAgree ==
  snapCurrent => /\ snap.ann.applied = secret.ann.applied
                 /\ CertNames = {} => snap.ann.failed = secret.ann.failed

NoCertsNoCertSteps == CertNames = {} => pc \notin {"push", "record cert", "clear cert status"}

(* Alert-only: past the comparison a reconcile holds other bytes than the  *)
(* applied ones.                                                           *)
AlertOnly ==
  ~DriftRemediate /\ (ensuring \/ pc \in {"prepare", "validate", "read version", "post"}) =>
    currentHash # snap.ann.applied

CopyInv == NoBytesWithoutSecret /\ CopiesAgree /\ NoCertsNoCertSteps /\ AlertOnly

-----------------------------------------------------------------------------
(* What a step of a reconcile does to its copy of the Secret. *)

LEMMA CopySteps ==
  ASSUME Continue
  PROVE  \/ UNCHANGED <<apiVars, snapVars>>
         \/ Leave /\ ForgetSecret /\ UNCHANGED apiVars
         \/ Leave /\ \E new, res : patchAndForget(new, res)
         \/ RecordCert
         \/ ClearCertStatus
<1>1. CASE CertSteps
  BY <1>1 DEF CertSteps, PushSucceeds, PushFails, PushWithoutClient, CertSyncFailed, NoConfigSecret, Finish
<1>2. CASE DecisionSteps
  BY <1>2 DEF DecisionSteps, KeyMissing, Unchanged, Suppressed, DesiredChanged, Finish
<1>3. CASE DriftSteps
  BY <1>3 DEF DriftSteps, LiveReadWithoutClient, LiveReadFails, LiveReadBaseline, LiveReadInSync,
       LiveReadDriftReported, LiveReadDriftRemediated, LiveRead, AdoptBaseline, ClearDriftStatus, Finish
<1>4. CASE ApplySteps
  BY <1>4 DEF ApplySteps, PrepareFails, Prepare, ValidateRejects, ValidateFails, ValidatePasses,
       ApplyReadsVersion, ApplyVersionFails, ApplySucceeds, ApplyRejected, ApplyFails, ReadBack,
       Record, Finish
<1>5. CASE FailWithStatus
  BY <1>5 DEF FailWithStatus
<1>6. QED
  BY <1>1, <1>2, <1>3, <1>4, <1>5 DEF Continue

(* A patch that keeps a claim in the copy keeps it on the server. *)
LEMMA PatchKeepsClaims ==
  ASSUME SecretTypeOK, NEW new, NEW res, PatchServer(new, res)
  PROVE  /\ new.applied = snap.ann.applied => secret'.ann.applied = secret.ann.applied
         /\ new.failed = snap.ann.failed => secret'.ann.failed = secret.ann.failed
BY DEF PatchServer, SecretTypeOK, SecretObject, Merge, Pick

(* The copy after a patch that keeps both claims. *)
LEMMA SnapKeepsClaims ==
  ASSUME SecretTypeOK, Coherent, CopiesAgree, NEW new, NEW res \in PatchResults,
         PatchServer(new, res), new.applied = snap.ann.applied, new.failed = snap.ann.failed
  PROVE  LET s == SnapAfter(new, res)
         IN  /\ snap.exists => s.exists
             /\ s.data = snap.data /\ s.ann.applied = snap.ann.applied
             /\ snapCurrent => s.ann.applied = secret'.ann.applied
             /\ CertNames = {} /\ snapCurrent => s.ann.failed = secret'.ann.failed
<1>1. /\ secret'.ann.applied = secret.ann.applied /\ secret'.ann.failed = secret.ann.failed
      /\ secret'.exists = secret.exists /\ secret'.data = secret.data
  BY PatchKeepsClaims, PatchKeepsData
<1>2. CASE res = "ok"
  <2>1. snapCurrent
    BY <1>2 DEF PatchServer
  <2>2. QED
    BY <1>1, <1>2, <2>1 DEF SnapAfter, Coherent, CopiesAgree
<1>3. CASE res # "ok"
  <2>1. SnapAfter(new, res) = [snap EXCEPT !.ann = new]
    BY <1>3 DEF SnapAfter
  <2>2. QED
    BY <1>1, <2>1 DEF CopiesAgree, SecretTypeOK, SecretObject
<1>4. QED
  BY <1>2, <1>3

(* The copy keeps its bytes and the claim that they were applied until the *)
(* reconcile ends.                                                         *)
SnapKept ==
  /\ snap'.data = snap.data /\ snap'.ann.applied = snap.ann.applied
  /\ snap.exists => snap'.exists

LEMMA SnapSteps ==
  ASSUME CoreInv, CopiesAgree, Continue
  PROVE  SnapKept \/ (Leave /\ snap' = Gone)
<1>1. SecretTypeOK /\ Coherent /\ snap \in SecretObject /\ snap.ann \in Annotations
  BY DEF CoreInv, TypeOK, SecretTypeOK, SecretObject
<1>2. CASE UNCHANGED snapVars
  BY <1>2 DEF snapVars, SnapKept
<1>3. CASE RecordCert
  <2> DEFINE new == WithCertRecord(snap.ann, todo[1], certSyncHashes[todo[1]])
  <2>1. PICK res \in PatchResults : PatchServer(new, res) /\ snap' = SnapAfter(new, res)
    BY <1>3 DEF RecordCert, patchAnnotations
  <2>2. new.applied = snap.ann.applied /\ new.failed = snap.ann.failed
    BY <1>1 DEF WithCertRecord, Annotations
  <2>3. QED
    BY <1>1, <2>1, <2>2, SnapKeepsClaims DEF SnapKept
<1>4. CASE ClearCertStatus
  <2> DEFINE new == [snap.ann EXCEPT !.status = Applied]
  <2>1. CASE snap' = WithoutFailed(snap)
    BY <1>1, <2>1 DEF WithoutFailed, SnapKept, SecretObject, Annotations
  <2>2. ASSUME NEW res \in PatchResults, PatchServer(new, res),
               snap' = WithoutFailed(SnapAfter(new, res))
        PROVE  SnapKept
    <3>1. new.applied = snap.ann.applied /\ new.failed = snap.ann.failed /\ new \in Annotations
      BY <1>1, AppliedStatusType DEF Annotations
    <3>2. SnapAfter(new, res) \in SecretObject
      BY <1>1, <2>2, <3>1, PatchServerPreserves DEF SnapAfter, SecretTypeOK, SecretObject
    <3>3. /\ snap'.data = SnapAfter(new, res).data /\ snap'.exists = SnapAfter(new, res).exists
          /\ snap'.ann.applied = SnapAfter(new, res).ann.applied
      BY <2>2, <3>2 DEF WithoutFailed, SecretObject, Annotations
    <3>4. QED
      BY <1>1, <2>2, <3>1, <3>3, SnapKeepsClaims DEF SnapKept
  <2>3. QED
    BY <1>4, <2>1, <2>2 DEF ClearCertStatus
<1>5. QED
  BY <1>2, <1>3, <1>4, CopySteps DEF ForgetSecret, patchAndForget

-----------------------------------------------------------------------------
(* The invariant, part by part. *)

LEMMA ContinueKeepsBytes ==
  ASSUME CoreInv, CopiesAgree, NoBytesWithoutSecret, Continue
  PROVE  NoBytesWithoutSecret'
<1>1. SecretTypeOK
  BY DEF CoreInv, TypeOK
<1>2. secret'.exists = secret.exists /\ secret'.data = secret.data /\ cache' = cache
  BY <1>1, WorkerSteps DEF WorkerStep
<1>3. ~snap'.exists => snap'.data = NoKey
  <2>1. CASE SnapKept
    BY <2>1 DEF SnapKept, NoBytesWithoutSecret
  <2>2. CASE snap' = Gone
    BY <2>2 DEF Gone
  <2>3. QED
    BY <2>1, <2>2, SnapSteps
<1>4. QED
  BY <1>2, <1>3 DEF NoBytesWithoutSecret

LEMMA ContinueAgrees ==
  ASSUME CoreInv, CopiesAgree, NoCertsNoCertSteps, Continue
  PROVE  CopiesAgree'
<1>1. SecretTypeOK /\ Coherent /\ snap \in SecretObject /\ snap.ann \in Annotations
  BY DEF CoreInv, TypeOK, SecretTypeOK, SecretObject
<1>2. CASE UNCHANGED <<apiVars, snapVars>>
  BY <1>2 DEF apiVars, snapVars, CopiesAgree
<1>3. CASE RecordCert
  <2> DEFINE new == WithCertRecord(snap.ann, todo[1], certSyncHashes[todo[1]])
  <2>1. PICK res \in PatchResults : patchAnnotations(new, res)
    BY <1>3 DEF RecordCert
  <2>2. PatchServer(new, res) /\ snap' = SnapAfter(new, res) /\ (snapCurrent' => snapCurrent)
    BY <2>1 DEF patchAnnotations
  <2>3. new.applied = snap.ann.applied /\ new.failed = snap.ann.failed
    BY <1>1 DEF WithCertRecord, Annotations
  <2>4. QED
    BY <1>1, <2>2, <2>3, SnapKeepsClaims DEF CopiesAgree
<1>4. CASE ClearCertStatus
  <2> DEFINE new == [snap.ann EXCEPT !.status = Applied]
  <2>1. CertNames # {}
    BY <1>4 DEF ClearCertStatus, NoCertsNoCertSteps
  <2>2. CASE snap' = WithoutFailed(snap) /\ UNCHANGED <<apiVars, snapCurrent>>
    BY <1>1, <2>1, <2>2 DEF WithoutFailed, CopiesAgree, SecretObject, Annotations, apiVars
  <2>3. ASSUME NEW res \in PatchResults, PatchServer(new, res),
               snap' = WithoutFailed(SnapAfter(new, res)), snapCurrent' => snapCurrent
        PROVE  CopiesAgree'
    <3>1. new.applied = snap.ann.applied /\ new.failed = snap.ann.failed /\ new \in Annotations
      BY <1>1, AppliedStatusType DEF Annotations
    <3>2. SnapAfter(new, res) \in SecretObject
      BY <1>1, <2>3, <3>1, PatchServerPreserves DEF SnapAfter, SecretTypeOK, SecretObject
    <3>3. snap'.ann.applied = SnapAfter(new, res).ann.applied
      BY <2>3, <3>2 DEF WithoutFailed, SecretObject, Annotations
    <3>4. QED
      BY <1>1, <2>1, <2>3, <3>1, <3>3, SnapKeepsClaims DEF CopiesAgree
  <2>4. QED
    BY <1>4, <2>2, <2>3 DEF ClearCertStatus
<1>5. QED
  BY <1>2, <1>3, <1>4, CopySteps DEF ForgetSecret, patchAndForget, CopiesAgree

LEMMA NoCertsNoNames == CertNames = {} <=> CertsSecretNames = <<>>
<1>1. CertsSecretNames \in Seq(STRING) /\ Len(CertsSecretNames) \in Nat
  BY NamesAssumption
<1>2. ASSUME CertNames = {} PROVE CertsSecretNames = <<>>
  <2>1. 1 \notin 1 .. Len(CertsSecretNames)
    BY <1>2 DEF CertNames
  <2>2. Len(CertsSecretNames) = 0
    BY <1>1, <2>1
  <2>3. QED
    BY <1>1, <2>2
<1>3. ASSUME CertsSecretNames = <<>> PROVE CertNames = {}
  <2>1. Len(CertsSecretNames) = 0
    BY <1>3
  <2>2. QED
    BY <2>1 DEF CertNames
<1>4. QED
  BY <1>2, <1>3

(* Without certificates a reconcile never reaches the steps about them. *)
LEMMA NoCertsSteps ==
  ASSUME CoreInv, NoCertsNoCertSteps, CertNames = {}, Continue
  PROVE  pc' \notin {"push", "record cert", "clear cert status"}
<1>1. CertsSecretNames = <<>>
  BY NoCertsNoNames
<1>2. ~CertSteps
  BY DEF CertSteps, PushSucceeds, PushFails, PushWithoutClient, RecordCert, NoConfigSecret,
         ClearCertStatus, NoCertsNoCertSteps
<1>3. CASE DecisionSteps
  BY <1>3 DEF DecisionSteps, KeyMissing, Unchanged, Suppressed, DesiredChanged, FailWith, Goto, Finish, Leave
<1>4. CASE DriftSteps
  BY <1>4 DEF DriftSteps, LiveReadWithoutClient, LiveReadFails, LiveReadBaseline, LiveReadInSync,
       LiveReadDriftReported, LiveReadDriftRemediated, AdoptBaseline, ClearDriftStatus,
       FailWith, Goto, Finish, Leave
<1>5. CASE ApplySteps
  BY <1>1, <1>5 DEF ApplySteps, PrepareFails, Prepare, ValidateRejects, ValidateFails, ValidatePasses,
       ApplyReadsVersion, ApplyVersionFails, ApplySucceeds, ApplyRejected, ApplyFails, ReadBack,
       Record, Reject, FailWith, Goto, Finish, Leave
<1>6. CASE FailWithStatus
  BY <1>6 DEF FailWithStatus, Leave
<1>7. QED
  BY <1>2, <1>3, <1>4, <1>5, <1>6 DEF Continue

(* The way to the gateway leads through the comparison of DesiredChanged,  *)
(* unless drift may be remediated.                                         *)
ApplyPath == ensuring \/ pc \in {"prepare", "validate", "read version", "post"}

LEMMA ApplyPathEntered ==
  ASSUME Continue, ApplyPath', ~Leave
  PROVE  ApplyPath \/ DesiredChanged \/ LiveReadDriftRemediated
<1>1. CASE CertSteps
  BY <1>1 DEF CertSteps, PushSucceeds, PushFails, PushWithoutClient, RecordCert, NoConfigSecret,
       ClearCertStatus, CertSyncFailed, NextCert, FailWith, Goto, Finish, ApplyPath
<1>2. CASE DecisionSteps
  BY <1>2 DEF DecisionSteps, KeyMissing, Unchanged, Suppressed, FailWith, Goto, Finish, ApplyPath
<1>3. CASE DriftSteps
  BY <1>3 DEF DriftSteps, LiveReadWithoutClient, LiveReadFails, LiveReadBaseline, LiveReadInSync,
       LiveReadDriftReported, AdoptBaseline, ClearDriftStatus, FailWith, Goto, Finish, ApplyPath
<1>4. CASE ApplySteps
  BY <1>4 DEF ApplySteps, PrepareFails, Prepare, ValidateRejects, ValidateFails, ValidatePasses,
       ApplyReadsVersion, ApplyVersionFails, ApplySucceeds, ApplyRejected, ApplyFails, ReadBack,
       Record, Reject, FailWith, Goto, Finish, ApplyPath
<1>5. CASE FailWithStatus
  BY <1>5 DEF FailWithStatus
<1>6. QED
  BY <1>1, <1>2, <1>3, <1>4, <1>5 DEF Continue

LEMMA ContinueAlertOnly ==
  ASSUME CoreInv, CopiesAgree, AlertOnly, Continue
  PROVE  AlertOnly'
<1>1. CASE Leave
  BY <1>1 DEF Leave, AlertOnly
<1>2. CASE SnapKept /\ ~Leave
  <2>1. SUFFICES ASSUME ~DriftRemediate, ApplyPath' PROVE currentHash' # snap'.ann.applied
    BY DEF AlertOnly, ApplyPath
  <2>2. currentHash' = currentHash /\ snap'.ann.applied = snap.ann.applied
    BY <1>2 DEF SnapKept, currentHash
  <2>3. ~LiveReadDriftRemediated
    BY <2>1 DEF LiveReadDriftRemediated, MayRemediate
  <2>4. ApplyPath \/ DesiredChanged
    BY <1>2, <2>1, <2>3, ApplyPathEntered
  <2>5. QED
    BY <2>1, <2>2, <2>4 DEF AlertOnly, ApplyPath, DesiredChanged
<1>3. QED
  BY <1>1, <1>2, SnapSteps

LEMMA StartCopies ==
  ASSUME CoreInv, CopyInv, NEW k \in Keys, Start(k)
  PROVE  CopyInv'
<1>1. Coherent /\ pc = "idle" /\ ~ensuring
  BY DEF CoreInv, Progress, Start, StartConfig, StartCert, StartMissing, Take
<1>2. UNCHANGED <<apiVars, ensuring>>
  BY DEF Start, StartConfig, StartCert, StartMissing, Goto, control
<1>3. \/ GetSecret /\ pc' = "decide"
      \/ GetSecret /\ pc' = "push" /\ CertNames # {}
      \/ UNCHANGED <<snapVars, pc>>
  BY DEF Start, StartConfig, StartCert, StartMissing, Goto, control
<1>4. NoBytesWithoutSecret' /\ CopiesAgree'
  <2>1. CASE GetSecret
    BY <1>1, <1>2, <2>1
       DEF GetSecret, apiVars, Coherent, CopyInv, NoBytesWithoutSecret, CopiesAgree
  <2>2. CASE UNCHANGED snapVars
    BY <1>2, <2>2 DEF apiVars, snapVars, CopyInv, NoBytesWithoutSecret, CopiesAgree
  <2>3. QED
    BY <1>3, <2>1, <2>2
<1>5. NoCertsNoCertSteps' /\ AlertOnly'
  BY <1>1, <1>2, <1>3 DEF NoCertsNoCertSteps, AlertOnly
<1>6. QED
  BY <1>4, <1>5 DEF CopyInv

LEMMA ContinueCopies ==
  ASSUME CoreInv, CopyInv, Continue
  PROVE  CopyInv'
<1>1. NoBytesWithoutSecret' /\ CopiesAgree' /\ AlertOnly'
  BY ContinueKeepsBytes, ContinueAgrees, ContinueAlertOnly DEF CopyInv
<1>2. NoCertsNoCertSteps'
  BY NoCertsSteps DEF CopyInv, NoCertsNoCertSteps
<1>3. QED
  BY <1>1, <1>2 DEF CopyInv

LEMMA EnvironmentCopies ==
  ASSUME CoreInv, CopyInv, Environment
  PROVE  CopyInv'
<1>1. CASE Crash
  <2>1. Leave /\ ForgetSecret /\ secret' = secret /\ cache' = secret
    BY <1>1 DEF Crash
  <2>2. NoBytesWithoutSecret' /\ CopiesAgree'
    BY <2>1 DEF ForgetSecret, Gone, CopyInv, NoBytesWithoutSecret, CopiesAgree
  <2>3. QED
    BY <2>1, <2>2 DEF Leave, CopyInv, NoCertsNoCertSteps, AlertOnly
<1>2. CASE ~Crash
  <2>1. UNCHANGED <<pc, ensuring, snap>>
    BY <1>2 DEF Environment, FluxWrites, FluxApply, FluxDelete, InformerSync, CertRotated,
         GatewayMoves, LatePost, others, control, snapVars
  <2>2. NoCertsNoCertSteps' /\ AlertOnly'
    BY <2>1 DEF CopyInv, NoCertsNoCertSteps, AlertOnly, currentHash
  <2>3. CASE FluxWrites
    <3>1. ~snapCurrent' /\ cache' = cache
      BY <2>3 DEF FluxWrites, FluxApply, FluxDelete
    <3>2. ~secret'.exists => secret'.data = NoKey
      <4>1. ASSUME NEW c, FluxApply(c) PROVE secret'.exists
        BY <4>1 DEF FluxApply, CoreInv, TypeOK, SecretTypeOK, SecretObject
      <4>2. ASSUME FluxDelete PROVE secret'.data = NoKey
        BY <4>2 DEF FluxDelete, Gone
      <4>3. QED
        BY <2>3, <4>1, <4>2 DEF FluxWrites
    <3>3. QED
      BY <2>1, <2>2, <3>1, <3>2 DEF CopyInv, NoBytesWithoutSecret, CopiesAgree
  <2>4. CASE ~FluxWrites
    <3>1. UNCHANGED <<secret, snapVars>> /\ cache' \in {cache, secret}
      BY <1>2, <2>4 DEF Environment, InformerSync, CertRotated, GatewayMoves, LatePost, apiVars
    <3>2. QED
      BY <2>2, <3>1 DEF CopyInv, NoBytesWithoutSecret, CopiesAgree, snapVars
  <2>5. QED
    BY <2>3, <2>4
<1>3. QED
  BY <1>1, <1>2

LEMMA InitCopies == Init => CopyInv
<1> SUFFICES ASSUME Init PROVE CopyInv
  OBVIOUS
<1>1. ~secret.exists => secret.data = NoKey
  <2>1. ASSUME NEW c \in Configs, secret = [Gone EXCEPT !.exists = TRUE, !.data = c]
        PROVE  secret.exists
    BY <2>1 DEF Gone
  <2>2. Gone.data = NoKey
    BY DEF Gone
  <2>3. QED
    BY <2>1, <2>2 DEF Init
<1>2. cache = secret /\ snap.data = NoKey /\ ~snapCurrent /\ pc = "idle" /\ ~ensuring
  BY DEF Init, Gone
<1>3. NoBytesWithoutSecret
  BY <1>1, <1>2 DEF NoBytesWithoutSecret
<1>4. QED
  BY <1>2, <1>3 DEF CopyInv, CopiesAgree, NoCertsNoCertSteps, AlertOnly

LEMMA NextCopies == CoreInv /\ CopyInv /\ [Next]_vars => CopyInv'
<1> SUFFICES ASSUME CoreInv, CopyInv, [Next]_vars PROVE CopyInv'
  OBVIOUS
<1>1. CASE UNCHANGED vars
  BY <1>1 DEF vars, control, apiVars, snapVars, currentHash, CopyInv, NoBytesWithoutSecret,
              CopiesAgree, NoCertsNoCertSteps, AlertOnly
<1>2. QED
  BY <1>1, StartCopies, ContinueCopies, EnvironmentCopies DEF Next

LEMMA CopyInvariant == Spec => [](CoreInv /\ SoundInv /\ CopyInv)
<1>1. Init => CopyInv
  BY InitCopies
<1>2. CoreInv /\ CopyInv /\ [Next]_vars => CopyInv'
  BY NextCopies
<1>3. QED
  BY <1>1, <1>2, SoundInvariant, PTL DEF Spec

-----------------------------------------------------------------------------
(* Bytes that are applied already, and claims of an earlier failure.       *)

(* In alert-only mode a reconcile that overwrites a drift works on a copy   *)
(* without the record of the apply: what it submits differs from what its  *)
(* copy says was applied, because the check of applied bytes returns at    *)
(* !r.DriftRemediate (line 359).                                           *)
THEOREM OverwritingTakesAStaleCopy ==
  ASSUME ~DriftRemediate PROVE Spec => OnlyStaleCopiesOverwriteDrift
<1>1. CopyInv => (DriftOverwritten => snap.ann.applied # secret.ann.applied)
  BY DEF CopyInv, AlertOnly, DriftOverwritten, currentHash
<1>2. QED
  BY <1>1, CopyInvariant, PTL DEF OnlyStaleCopiesOverwriteDrift

(* The informer has seen every write whenever a reconcile starts. *)
StartsCaughtUp == pc = "idle" /\ pc' # "idle" => cacheCurrent
InformerCaughtUp == [][StartsCaughtUp]_vars

(* Then a reconcile knows of every apply the Secret records, to its end. *)
ClaimKnown == pc # "idle" => secret.ann.applied \in {snap.ann.applied, Absent}

LEMMA ContinueKnows ==
  ASSUME CoreInv, CopyInv, ClaimKnown, Continue
  PROVE  ClaimKnown'
<1>1. SecretTypeOK /\ snap.ann \in Annotations /\ CopiesAgree
  BY DEF CoreInv, TypeOK, SecretTypeOK, SecretObject, CopyInv
<1>2. CASE Leave
  BY <1>2 DEF Leave, ClaimKnown
<1>3. CASE ~Leave
  <2>1. pc # "idle"
    BY <1>1, WorkerSteps DEF WorkerStep
  <2>2. SnapKept
    BY <1>1, <1>3, SnapSteps
  <2>3. secret'.ann.applied = secret.ann.applied
    <3>1. CASE UNCHANGED apiVars
      BY <3>1 DEF apiVars
    <3>2. CASE \E new, res : PatchServer(new, res) /\ new.applied = snap.ann.applied
      BY <1>1, <3>2, PatchKeepsClaims
    <3>3. CASE RecordCert
      <4> DEFINE new == WithCertRecord(snap.ann, todo[1], certSyncHashes[todo[1]])
      <4>1. new.applied = snap.ann.applied
        BY <1>1 DEF WithCertRecord, Annotations
      <4>2. \E res \in PatchResults : PatchServer(new, res)
        BY <3>3 DEF RecordCert, patchAnnotations
      <4>3. QED
        BY <3>2, <4>1, <4>2
    <3>4. CASE ClearCertStatus
      <4> DEFINE new == [snap.ann EXCEPT !.status = Applied]
      <4>1. new.applied = snap.ann.applied
        BY <1>1 DEF Annotations
      <4>2. (\E res \in PatchResults : PatchServer(new, res)) \/ UNCHANGED apiVars
        BY <3>4 DEF ClearCertStatus
      <4> HIDE DEF new
      <4>3. QED
        BY <3>1, <3>2, <4>1, <4>2
    <3>5. QED
      BY <1>3, <3>1, <3>3, <3>4, CopySteps
  <2>4. QED
    BY <2>1, <2>2, <2>3 DEF ClaimKnown, SnapKept
<1>4. QED
  BY <1>2, <1>3

LEMMA NextKnows ==
  ASSUME CoreInv, CopyInv, ClaimKnown, [Next]_vars, [StartsCaughtUp]_vars
  PROVE  ClaimKnown'
<1>1. CASE UNCHANGED vars
  BY <1>1 DEF vars, control, apiVars, snapVars, ClaimKnown
<1>2. ASSUME NEW k \in Keys, Start(k) PROVE ClaimKnown'
  <2>1. pc = "idle" /\ secret' = secret
    BY <1>2 DEF Start, StartConfig, StartCert, StartMissing, Take, apiVars
  <2>2. CASE pc' = "idle"
    BY <2>2 DEF ClaimKnown
  <2>3. CASE pc' # "idle"
    <3>1. cache = secret
      BY <2>1, <2>3 DEF StartsCaughtUp, vars, control, CoreInv, Coherent
    <3>2. snap' = cache
      BY <1>2, <2>1, <2>3 DEF Start, StartConfig, StartCert, StartMissing, GetSecret, control
    <3>3. QED
      BY <2>1, <3>1, <3>2 DEF ClaimKnown
  <2>4. QED
    BY <2>2, <2>3
<1>3. CASE Environment
  <2>1. CASE Crash
    BY <2>1 DEF Crash, Leave, ClaimKnown
  <2>2. CASE FluxWrites
    <3>1. UNCHANGED <<pc, snap>>
      BY <2>2 DEF FluxWrites, FluxApply, FluxDelete, others, control
    <3>2. secret'.ann.applied \in {secret.ann.applied, Absent}
      <4>1. ASSUME NEW c, FluxApply(c) PROVE secret'.ann = secret.ann
        BY <4>1 DEF FluxApply, CoreInv, TypeOK, SecretTypeOK, SecretObject
      <4>2. ASSUME FluxDelete PROVE secret'.ann.applied = Absent
        BY <4>2 DEF FluxDelete, Gone, NoAnnotations
      <4>3. QED
        BY <2>2, <4>1, <4>2 DEF FluxWrites
    <3>3. QED
      BY <3>1, <3>2 DEF ClaimKnown
  <2>3. CASE ~Crash /\ ~FluxWrites
    <3>1. UNCHANGED <<pc, snap, secret>>
      BY <1>3, <2>3 DEF Environment, InformerSync, CertRotated, GatewayMoves, LatePost, apiVars,
           snapVars, others, control
    <3>2. QED
      BY <3>1 DEF ClaimKnown
  <2>4. QED
    BY <2>1, <2>2, <2>3
<1>4. QED
  BY <1>1, <1>2, <1>3, ContinueKnows DEF Next

(* With an informer that has caught up whenever a reconcile starts,        *)
(* alert-only mode is what the chart's README promises: a drift is left    *)
(* alone, although edits, patches of the reconcile itself, drifts and      *)
(* restarts fall between its Get and its POST.                             *)
THEOREM CaughtUpLeavesDrift ==
  ASSUME ~DriftRemediate PROVE Spec /\ InformerCaughtUp => AlertOnlyLeavesDrift
<1>1. Init => ClaimKnown
  BY DEF Init, ClaimKnown
<1>2. CoreInv /\ CopyInv /\ ClaimKnown /\ [Next]_vars /\ [StartsCaughtUp]_vars => ClaimKnown'
  BY NextKnows
<1>3. CopyInv /\ ClaimKnown => ~DriftOverwritten
  <2>1. SUFFICES ASSUME CopyInv, ClaimKnown, DriftOverwritten PROVE FALSE
    OBVIOUS
  <2>2. secret.ann.applied = snap.ann.applied
    BY <2>1 DEF ClaimKnown, DriftOverwritten, HashBytes, Absent
  <2>3. QED
    BY <2>1, <2>2 DEF CopyInv, AlertOnly, DriftOverwritten, currentHash
<1>4. QED
  BY <1>1, <1>2, <1>3, CopyInvariant, PTL DEF Spec, InformerCaughtUp, AlertOnlyLeavesDrift

(* Without certificates the patch that records an apply always drops the   *)
(* failure of an earlier one (line 508): the copy it is computed against   *)
(* knows of every failure the server's Secret carries.  With certificates  *)
(* ClearCertStatus breaks that, and the property with it.                  *)
THEOREM SuccessClearsFailure ==
  ASSUME CertsSecretNames = <<>> PROVE Spec => ClearedAfterSuccess
<1>1. CoreInv /\ CopyInv /\ [Next]_vars => ClearedStep
  <2>1. SUFFICES ASSUME CoreInv, CopyInv, [Next]_vars, pc = "record", pc' = "idle", secret' # secret
                 PROVE  secret'.ann.failed = Absent
    BY DEF ClearedStep
  <2>2. Record
    <3>1. ~CertSteps
      BY <2>1 DEF CertSteps, PushSucceeds, PushFails, PushWithoutClient, RecordCert, NoConfigSecret,
           ClearCertStatus
    <3>2. ~DecisionSteps /\ ~FailWithStatus
      BY <2>1 DEF DecisionSteps, KeyMissing, Unchanged, Suppressed, DesiredChanged, FailWithStatus
    <3>3. ~DriftSteps
      BY <2>1 DEF DriftSteps, LiveReadWithoutClient, LiveReadFails, LiveRead, LiveReadBaseline,
           LiveReadInSync, LiveReadDriftReported, LiveReadDriftRemediated, AdoptBaseline, ClearDriftStatus
    <3>4. ~(\E k \in Keys : Start(k)) /\ ~UNCHANGED vars
      BY <2>1 DEF Start, StartConfig, StartCert, StartMissing, Take, vars, control
    <3>5. ~Environment
      BY <2>1 DEF Environment, FluxWrites, InformerSync, CertRotated, GatewayMoves, LatePost, Crash,
           others, control
    <3>6. ApplySteps
      BY <2>1, <3>1, <3>2, <3>3, <3>4, <3>5 DEF Next, Continue
    <3>7. QED
      BY <2>1, <3>6 DEF ApplySteps, PrepareFails, Prepare, ValidateRejects, ValidateFails,
           ValidatePasses, ApplyReadsVersion, ApplyVersionFails, ApplySucceeds, ApplyRejected,
           ApplyFails, ReadBack
  <2> DEFINE new == RecordedAnnotations(snap.ann)
  <2>3. PICK res \in PatchResults : PatchServer(new, res)
    BY <2>2 DEF Record, patchAndForget
  <2>4. SecretTypeOK /\ snap.ann \in Annotations
    BY <2>1 DEF CoreInv, TypeOK, SecretTypeOK, SecretObject
  <2>5. new.failed = Absent
    BY <2>4 DEF RecordedAnnotations, Annotations
  <2>6. /\ snapCurrent
        /\ secret'.ann.failed = Pick(secret.ann.failed, snap.ann.failed, new.failed)
    BY <2>1, <2>3, <2>4 DEF PatchServer, Merge, SecretTypeOK, SecretObject
  <2>7. snap.ann.failed = secret.ann.failed
    BY <2>1, <2>6, NoCertsNoNames DEF CopyInv, CopiesAgree
  <2>8. QED
    BY <2>5, <2>6, <2>7 DEF Pick
<1>2. QED
  BY <1>1, CopyInvariant, PTL DEF Spec, ClearedAfterSuccess

-----------------------------------------------------------------------------
(* Refinement.  What is carried about: nothing becomes an offer that was   *)
(* not one, but by a write of the Secret.                                  *)

LEMMA OffersShrink ==
  ASSUME NoBytesWithoutSecret,
         Data(secret') \subseteq Data(secret), cache' \in {cache, secret},
         snap'.data \in Configs => snap'.data \in Offers,
         late' \in {late, NoConfig, snap.data}
  PROVE  Offers' \subseteq Offers
<1>1. NoConfig \notin Configs /\ NoKey \notin Configs
  BY ContentsAssumption, ConfigsAssumption, DataplaneAssumption
<1>2. Data(cache') \subseteq Data(cache) \cup Data(secret)
  BY DEF Data
<1>3. Data(snap') \cap Configs \subseteq Offers
  BY DEF Data
<1>4. snap.data \in Configs => snap.data \in Data(snap)
  BY <1>1 DEF NoBytesWithoutSecret, Data
<1>5. {late'} \cap Configs \subseteq Data(snap) \cup {late}
  BY <1>1, <1>4
<1>6. Offers' = (Data(secret') \cup Data(cache') \cup Data(snap') \cup {late'}) \cap Configs
  BY DEF Offers, Data
<1>7. QED
  BY <1>2, <1>3, <1>5, <1>6 DEF Offers

LEMMA SnapOffers ==
  ASSUME NoBytesWithoutSecret, snap.data \in Configs
  PROVE  snap.data \in Offers
<1>1. snap.data # NoKey
  BY ContentsAssumption, ConfigsAssumption
<1>2. QED
  BY <1>1 DEF NoBytesWithoutSecret, Offers, Data

(* What a step of a reconcile does to the gateway's configuration. *)
Wrote ==
  /\ pc = "post" /\ live' = Normalize[snap.data]
  /\ accepted' = accepted \cup {snap.data} /\ refused' = refused
Judged ==
  /\ HasBytes /\ live' = live
  /\ accepted' = accepted /\ refused' = refused \cup {snap.data}

LEMMA GatewaySteps ==
  ASSUME Continue
  PROVE  /\ late' \in {late, NoConfig, snap.data}
         /\ \/ UNCHANGED <<live, accepted, refused>>
            \/ UNCHANGED apiVars /\ (Wrote \/ Judged)
<1>1. CASE CertSteps
  BY <1>1 DEF CertSteps, PushSucceeds, PushFails, PushWithoutClient, RecordCert, NoConfigSecret,
       ClearCertStatus, Push, PushError, PushAnswerLost, ClientFails, VersionError, ReadError,
       CertSyncFailed, Finish, history, gatewayVars
<1>2. CASE DecisionSteps
  BY <1>2 DEF DecisionSteps, KeyMissing, Unchanged, Suppressed, DesiredChanged, history, gatewayVars
<1>3. CASE DriftSteps
  BY <1>3 DEF DriftSteps, LiveReadWithoutClient, LiveReadFails, LiveReadBaseline, LiveReadInSync,
       LiveReadDriftReported, LiveReadDriftRemediated, LiveRead, AdoptBaseline, ClearDriftStatus,
       ClientFails, ReadError, history, gatewayVars
<1>4. CASE PrepareFails \/ Prepare \/ ValidatePasses \/ ValidateFails \/ ApplyReadsVersion \/ ApplyVersionFails
  BY <1>4 DEF PrepareFails, Prepare, ValidatePasses, ValidateFails, ApplyReadsVersion, ApplyVersionFails,
       ClientFails, ValidateError, VersionError, RequestError, ReadVersion, history, gatewayVars
<1>5. CASE ValidateRejects \/ ApplyRejected
  BY <1>5 DEF ValidateRejects, ApplyRejected, Reject, PostRefused, gatewayVars, Judged, HasBytes
<1>6. CASE ApplySucceeds
  BY <1>6 DEF ApplySucceeds, PostAccepted, Write, Wrote
<1>7. CASE ApplyFails
  BY <1>7 DEF ApplyFails, PostConflicts, RequestError, PostAnswerLost, PostDelayed, Write, Wrote, gatewayVars
<1>8. CASE ReadBack \/ Record \/ FailWithStatus
  BY <1>8 DEF ReadBack, Record, FailWithStatus, ReadError, history, gatewayVars
<1>9. QED
  BY <1>1, <1>2, <1>3, <1>4, <1>5, <1>6, <1>7, <1>8 DEF Continue, ApplySteps

(* What it does to the claims: only Record and FailWithStatus write one.   *)
LEMMA ClaimSteps ==
  ASSUME CoreInv, Continue
  PROVE  \/ UNCHANGED <<secret.ann.applied, secret.ann.failed>>
         \/ Record \/ FailWithStatus
<1>1. SecretTypeOK /\ snap.ann \in Annotations
  BY DEF CoreInv, TypeOK, SecretTypeOK, SecretObject
<1>2. CASE UNCHANGED apiVars
  BY <1>2 DEF apiVars
<1>3. CASE \E new, res : /\ PatchServer(new, res)
                         /\ new.applied = snap.ann.applied /\ new.failed = snap.ann.failed
  BY <1>1, <1>3, PatchKeepsClaims
<1>4. CASE RecordCert
  <2> DEFINE new == WithCertRecord(snap.ann, todo[1], certSyncHashes[todo[1]])
  <2>1. new.applied = snap.ann.applied /\ new.failed = snap.ann.failed
    BY <1>1 DEF WithCertRecord, Annotations
  <2>2. \E res \in PatchResults : PatchServer(new, res)
    BY <1>4 DEF RecordCert, patchAnnotations
  <2>3. QED
    BY <1>3, <2>1, <2>2
<1>5. CASE ClearCertStatus \/ ClearDriftStatus
  <2> DEFINE new == [snap.ann EXCEPT !.status = Applied]
  <2>1. new.applied = snap.ann.applied /\ new.failed = snap.ann.failed
    BY <1>1 DEF Annotations
  <2>2. (\E res \in PatchResults : PatchServer(new, res)) \/ UNCHANGED apiVars
    BY <1>5 DEF ClearCertStatus, ClearDriftStatus, patchAndForget
  <2>3. QED
    BY <1>2, <1>3, <2>1, <2>2
<1>6. CASE AdoptBaseline
  <2> DEFINE new == [snap.ann EXCEPT !.observed = readBack, !.status = Applied]
  <2>1. new.applied = snap.ann.applied /\ new.failed = snap.ann.failed
    BY <1>1 DEF Annotations
  <2>2. \E res \in PatchResults : PatchServer(new, res)
    BY <1>6 DEF AdoptBaseline, patchAndForget
  <2>3. QED
    BY <1>3, <2>1, <2>2
<1>7. CASE CertSteps
  BY <1>2, <1>4, <1>5, <1>7
     DEF CertSteps, PushSucceeds, PushFails, PushWithoutClient, NoConfigSecret
<1>8. CASE DecisionSteps
  BY <1>2, <1>8 DEF DecisionSteps, KeyMissing, Unchanged, Suppressed, DesiredChanged
<1>9. CASE DriftSteps
  BY <1>2, <1>5, <1>6, <1>9
     DEF DriftSteps, LiveReadWithoutClient, LiveReadFails, LiveRead, LiveReadBaseline,
         LiveReadInSync, LiveReadDriftReported, LiveReadDriftRemediated
<1>10. CASE ApplySteps
  BY <1>2, <1>10
     DEF ApplySteps, PrepareFails, Prepare, ValidateRejects, ValidateFails, ValidatePasses,
         ApplyReadsVersion, ApplyVersionFails, ApplySucceeds, ApplyRejected, ApplyFails, ReadBack
<1>11. QED
  BY <1>7, <1>8, <1>9, <1>10 DEF Continue

PromiseInv == CoreInv /\ SoundInv /\ CopyInv

LEMMA ContinueOffers ==
  ASSUME PromiseInv, Continue
  PROVE  Offers' \subseteq Offers /\ Desired' = Desired
<1>1. /\ secret'.exists = secret.exists /\ secret'.data = secret.data /\ cache' = cache
  BY WorkerSteps DEF PromiseInv, CoreInv, TypeOK, WorkerStep
<1>2. late' \in {late, NoConfig, snap.data}
  BY GatewaySteps
<1>3. NoBytesWithoutSecret /\ (snap'.data = snap.data \/ snap'.data = NoKey)
  BY SnapSteps DEF PromiseInv, CopyInv, SnapKept, Gone
<1>4. snap'.data \in Configs => snap'.data \in Offers
  BY <1>3, SnapOffers, ContentsAssumption, ConfigsAssumption
<1>5. Data(secret') = Data(secret)
  BY <1>1 DEF Data
<1>6. QED
  BY <1>1, <1>2, <1>3, <1>4, <1>5, OffersShrink DEF Desired

(* A step that touches neither the gateway's configuration nor a claim. *)
LEMMA Moves ==
  ASSUME UNCHANGED <<live, accepted, refused, secret.ann.applied, secret.ann.failed>>,
         Offers' \subseteq Offers, Desired' = Desired
  PROVE  Promise!Next
BY DEF Promise!Next, Promise!Move, Promise!Carry, Promise!verdicts, Promise!claims

(* Recording an apply claims it, or changes nothing. *)
LEMMA RecordClaims == ASSUME PromiseInv, Record PROVE Promise!Next
<1>1. SecretTypeOK /\ Coherent /\ CopiesAgree /\ Answered /\ snap.ann \in Annotations
  BY DEF PromiseInv, CoreInv, TypeOK, CopyInv, SoundInv, SecretTypeOK, SecretObject
<1>2. Offers' \subseteq Offers /\ Desired' = Desired
  BY ContinueOffers DEF Continue, ApplySteps
<1>3. UNCHANGED <<live, accepted, refused>>
  BY DEF Record, gatewayVars
<1> DEFINE new == RecordedAnnotations(snap.ann)
<1>4. PICK res \in PatchResults : PatchServer(new, res)
  BY DEF Record, patchAndForget
<1>5. new.applied = HashBytes(snap.data) /\ new.failed = Absent
  BY <1>1 DEF RecordedAnnotations, Annotations, currentHash
<1>6. CASE secret' = secret
  BY <1>2, <1>3, <1>6, Moves
<1>7. CASE secret' # secret
  <2>1. /\ snapCurrent /\ secret.exists
        /\ secret'.ann.applied = Pick(secret.ann.applied, snap.ann.applied, new.applied)
        /\ secret'.ann.failed = Pick(secret.ann.failed, snap.ann.failed, new.failed)
    BY <1>1, <1>4, <1>7 DEF PatchServer, Merge, SecretTypeOK, SecretObject
  <2>2. Desired = snap.data /\ snap.ann.applied = secret.ann.applied
    BY <1>1, <2>1 DEF Desired, Coherent, CopiesAgree
  <2>3. Desired \in accepted
    BY <1>1, <2>2 DEF Record, Answered
  <2>4. secret'.ann.applied = HashBytes(Desired) /\ secret'.ann.failed \in {secret.ann.failed, Absent}
    BY <1>5, <2>1, <2>2 DEF Pick
  <2>5. Promise!ClaimApplied
    BY <1>2, <1>3, <2>3, <2>4
       DEF Promise!ClaimApplied, Promise!Carry, Promise!verdicts, Promise!HashBytes, Promise!Absent,
           HashBytes, Absent
  <2>6. QED
    BY <2>5 DEF Promise!Next
<1>8. QED
  BY <1>6, <1>7

(* Recording a failure claims a refusal, or nothing. *)
LEMMA FailClaims == ASSUME PromiseInv, FailWithStatus PROVE Promise!Next
<1>1. SecretTypeOK /\ Coherent /\ Answered /\ snap.ann \in Annotations
  BY DEF PromiseInv, CoreInv, TypeOK, SoundInv, SecretTypeOK, SecretObject
<1>2. Offers' \subseteq Offers /\ Desired' = Desired
  BY ContinueOffers DEF Continue
<1>3. UNCHANGED <<live, accepted, refused>>
  BY DEF FailWithStatus, gatewayVars
<1> DEFINE new == FailureAnnotations(snap.ann)
<1>4. PICK res \in PatchResults : PatchServer(new, res)
  BY DEF FailWithStatus, patchAndForget
<1>5. /\ new.applied = snap.ann.applied
      /\ new.failed = IF report.kind = "rejected" THEN HashBytes(snap.data) ELSE snap.ann.failed
  BY <1>1 DEF FailureAnnotations, Annotations, currentHash
<1>6. secret'.ann.applied = secret.ann.applied
  BY <1>1, <1>4, <1>5, PatchKeepsClaims
<1>7. CASE secret'.ann.failed = secret.ann.failed
  BY <1>2, <1>3, <1>6, <1>7, Moves
<1>8. CASE secret'.ann.failed # secret.ann.failed
  <2>1. report.kind = "rejected"
    BY <1>1, <1>4, <1>5, <1>8, PatchKeepsClaims
  <2>2. /\ snapCurrent /\ secret.exists
        /\ secret'.ann.failed = Pick(secret.ann.failed, snap.ann.failed, new.failed)
    BY <1>1, <1>4, <1>8 DEF PatchServer, Merge, SecretTypeOK, SecretObject
  <2>3. Desired = snap.data /\ Desired \in refused
    BY <1>1, <2>1, <2>2 DEF Desired, Coherent, FailWithStatus, Answered
  <2>4. secret'.ann.failed = HashBytes(Desired)
    BY <1>5, <1>8, <2>1, <2>2, <2>3 DEF Pick
  <2>5. Promise!ClaimRefused
    BY <1>2, <1>3, <1>6, <2>3, <2>4
       DEF Promise!ClaimRefused, Promise!Carry, Promise!verdicts, Promise!HashBytes, HashBytes
  <2>6. QED
    BY <2>5 DEF Promise!Next
<1>9. QED
  BY <1>7, <1>8

LEMMA ContinuePromises == ASSUME PromiseInv, Continue PROVE Promise!Next
<1>1. Offers' \subseteq Offers /\ Desired' = Desired
  BY ContinueOffers
<1>2. CASE Record \/ FailWithStatus
  BY <1>2, RecordClaims, FailClaims
<1>3. CASE UNCHANGED <<live, accepted, refused, secret.ann.applied, secret.ann.failed>>
  BY <1>1, <1>3, Moves
<1>4. CASE UNCHANGED apiVars /\ (Wrote \/ Judged)
  <2>1. UNCHANGED <<secret.ann.applied, secret.ann.failed>>
    BY <1>4 DEF apiVars
  <2>2. snap.data \in Configs /\ snap.data \in Offers
    BY <1>4, SnapOffers DEF PromiseInv, CoreInv, Progress, HasBytes, CopyInv, Wrote, Judged
  <2>3. CASE Wrote
    <3>1. Promise!Apply(snap.data)
      BY <1>1, <2>1, <2>2, <2>3 DEF Wrote, Promise!Apply, Promise!claims
    <3>2. QED
      BY <2>2, <3>1 DEF Promise!Next
  <2>4. CASE Judged
    <3>1. Promise!Refuse(snap.data)
      BY <1>1, <2>1, <2>2, <2>4 DEF Judged, Promise!Refuse, Promise!claims
    <3>2. QED
      BY <2>2, <3>1 DEF Promise!Next
  <2>5. QED
    BY <1>4, <2>3, <2>4
<1>5. QED
  BY <1>2, <1>3, <1>4, GatewaySteps, ClaimSteps DEF PromiseInv

LEMMA StartPromises == ASSUME PromiseInv, NEW k \in Keys, Start(k) PROVE Promise!Next
<1>1. UNCHANGED <<secret, cache, late, live, accepted, refused>> /\ snap' \in {snap, cache}
  BY DEF Start, StartConfig, StartCert, StartMissing, GetSecret, apiVars, gatewayVars, snapVars, history
<1>2. NoBytesWithoutSecret
  BY DEF PromiseInv, CopyInv
<1>3. snap'.data \in Configs => snap'.data \in Offers
  BY <1>1, <1>2, ContentsAssumption, ConfigsAssumption DEF NoBytesWithoutSecret, Offers, Data
<1>4. Offers' \subseteq Offers
  BY <1>1, <1>2, <1>3, OffersShrink DEF Data
<1>5. QED
  BY <1>1, <1>4, Moves DEF Desired

LEMMA EnvironmentPromises == ASSUME PromiseInv, Environment PROVE Promise!Next
<1>1. NoBytesWithoutSecret /\ GatewayTypeOK /\ SecretTypeOK
  BY DEF PromiseInv, CopyInv, CoreInv, TypeOK
<1>2. ASSUME Data(secret') \subseteq Data(secret), cache' \in {cache, secret},
             snap' \in {snap, Gone}, late' \in {late, NoConfig, snap.data}
      PROVE  Offers' \subseteq Offers
  <2>1. snap'.data \in Configs => snap'.data \in Offers
    BY <1>1, <1>2, SnapOffers, ContentsAssumption, ConfigsAssumption DEF Gone
  <2>2. QED
    BY <1>1, <1>2, <2>1, OffersShrink
<1>3. ASSUME NEW c \in Configs \cup {NoKey}, FluxApply(c), FluxWrites
      PROVE  Promise!Next
  <2>1. secret'.exists /\ secret'.data = c /\ secret'.ann = secret.ann
    BY <1>1, <1>3 DEF FluxApply, SecretTypeOK, SecretObject
  <2>2. UNCHANGED <<cache, snap, live, late, accepted, refused>>
    BY <1>3 DEF FluxApply, FluxWrites, gatewayVars, others, history
  <2>3. Offers' \subseteq Offers \cup ({c} \cap Configs)
    BY <2>1, <2>2 DEF Offers, Data
  <2>4. Promise!Ask(c)
    BY <2>1, <2>2, <2>3 DEF Promise!Ask, Promise!verdicts, Promise!claims, Desired
  <2>5. QED
    BY <2>4 DEF Promise!Next
<1>4. CASE FluxWrites /\ FluxDelete
  <2>1. secret' = Gone /\ UNCHANGED <<cache, snap, live, late, accepted, refused>>
    BY <1>4 DEF FluxDelete, FluxWrites, gatewayVars, others, history
  <2>2. Offers' \subseteq Offers
    BY <1>2, <2>1 DEF Data, Gone
  <2>3. Promise!Withdraw
    BY <2>1, <2>2
       DEF Promise!Withdraw, Promise!verdicts, Promise!Nothing, Promise!Absent, Desired, Gone,
           NoAnnotations, Absent
  <2>4. QED
    BY <2>3 DEF Promise!Next
<1>5. CASE InformerSync \/ CertRotated \/ Crash
  <2>1. /\ UNCHANGED <<secret, live, accepted, refused>>
        /\ cache' \in {cache, secret} /\ snap' \in {snap, Gone} /\ late' \in {late, NoConfig, snap.data}
    BY <1>5 DEF InformerSync, CertRotated, Crash, ForgetSecret, apiVars, snapVars, gatewayVars, others, history
  <2>2. QED
    BY <1>2, <2>1, Moves DEF Desired, Data
<1>6. CASE GatewayMoves
  <2>1. /\ UNCHANGED <<secret, cache, snap, accepted, refused>> /\ late' \in {late, NoConfig}
        /\ live' \in Foreign \cup {live}
    BY <1>1, <1>6
       DEF GatewayMoves, OutOfBandWrite, LoseStoredCert, Write, GatewayTypeOK, apiVars, snapVars, others, history
  <2>2. Offers' \subseteq Offers /\ Desired' = Desired
    BY <1>2, <2>1 DEF Desired, Data
  <2>3. CASE live' = live
    BY <2>1, <2>2, <2>3, Moves
  <2>4. CASE live' \in Foreign
    <3>1. Promise!Drift
      BY <2>1, <2>2, <2>4 DEF Promise!Drift, Promise!verdicts, Promise!claims
    <3>2. QED
      BY <3>1 DEF Promise!Next
  <2>5. QED
    BY <2>1, <2>3, <2>4
<1>7. CASE LatePost
  <2>1. /\ UNCHANGED <<secret, cache, snap, refused>> /\ late' = NoConfig
        /\ late \in Configs /\ live' = Normalize[late] /\ accepted' = accepted \cup {late}
    BY <1>1, <1>7 DEF LatePost, LatePostLands, Write, GatewayTypeOK, apiVars, snapVars
  <2>2. late \in Offers
    BY <2>1 DEF Offers
  <2>3. Promise!Apply(late)
    BY <1>2, <2>1, <2>2 DEF Promise!Apply, Promise!claims, Desired, Data
  <2>4. QED
    BY <2>1, <2>3 DEF Promise!Next
<1>8. QED
  BY <1>3, <1>4, <1>5, <1>6, <1>7 DEF Environment, FluxWrites

LEMMA InitPromises == Init => Promise!Init
<1> SUFFICES ASSUME Init PROVE Promise!Init
  OBVIOUS
<1>1. /\ secret.ann.applied = Absent /\ secret.ann.failed = Absent
      /\ Desired \in Configs \cup {"nothing"} /\ Data(secret) = {Desired} \cap Configs
  <2>1. CASE secret = Gone
    BY <2>1, PromiseAssumption, ContentsAssumption DEF Gone, NoAnnotations, Desired, Data
  <2>2. ASSUME NEW c \in Configs, secret = [Gone EXCEPT !.exists = TRUE, !.data = c]
        PROVE  <1>1
    <3>1. secret.exists /\ secret.data = c /\ secret.ann = NoAnnotations
      BY <2>2 DEF Gone
    <3>2. QED
      BY <3>1 DEF NoAnnotations, Desired, Data
  <2>3. QED
    BY <2>1, <2>2 DEF Init
<1>2. cache = secret /\ Data(snap) = {} /\ late = NoConfig /\ live \in Foreign
  BY DEF Init, Data, Gone
<1>3. Offers = {Desired} \cap Configs
  BY <1>1, <1>2, ContentsAssumption, DataplaneAssumption DEF Offers
<1>4. accepted = {} /\ refused = {}
  BY DEF Init
<1>5. QED
  BY <1>1, <1>2, <1>3, <1>4 DEF Promise!Init, Promise!Nothing, Promise!Absent, Absent

LEMMA NextPromises == PromiseInv /\ [Next]_vars => [Promise!Next]_(Promise!vars)
<1> SUFFICES ASSUME PromiseInv, [Next]_vars PROVE Promise!Next
  OBVIOUS
<1>1. CASE UNCHANGED vars
  <2>1. UNCHANGED <<secret, cache, snap, late, live, accepted, refused>>
    BY <1>1 DEF vars, apiVars, snapVars, gatewayVars, history
  <2>2. QED
    BY <2>1, Moves DEF Offers, Desired, Data
<1>2. QED
  BY <1>1, StartPromises, ContinuePromises, EnvironmentPromises DEF Next

(* The reconciler implements GitOps.  A write of the Secret is Ask or      *)
(* Withdraw; an accepted POST is Apply whether its answer arrives, is lost *)
(* or is late; a refusal is Refuse; the patches of Record and              *)
(* failWithStatus are the claims, and nothing else is one: stale copies,   *)
(* conflicts, lost patches, certificate syncs and restarts only Move.      *)
THEOREM ImplementsGitOps == Spec => KeepsPromise
<1>1. Init => Promise!Init
  BY InitPromises
<1>2. PromiseInv /\ [Next]_vars => [Promise!Next]_(Promise!vars)
  BY NextPromises
<1>3. Spec => []PromiseInv
  BY CopyInvariant DEF PromiseInv
<1>4. QED
  BY <1>1, <1>2, <1>3, PTL DEF Spec, KeepsPromise, Promise!Spec
=============================================================================
