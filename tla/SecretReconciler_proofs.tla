------------------------ MODULE SecretReconciler_proofs ------------------------
(***************************************************************************)
(* Proofs about SecretReconciler: type correctness and the soundness of    *)
(* the two hashes the Secret carries, for every set of configurations,     *)
(* certificates and errors and every bound.                                *)
(***************************************************************************)
EXTENDS ReconcilerProperties, TLAPS

-----------------------------------------------------------------------------
(* The inductive invariant. *)

(* From "read live" on, and while certificates are being ensured, the      *)
(* reconcile works on bytes of the Secret.                                 *)
HasBytes ==
  \/ pc \in {"read live", "adopt", "clear drift status", "prepare", "validate",
             "read version", "post", "read back", "record"}
  \/ ensuring
  \/ pc = "fail" /\ report.kind = "rejected"

Progress ==
  /\ pc \in {"push", "record cert"} => todo # <<>>
  /\ HasBytes => snap.data \in Configs
  /\ pc = "idle" => ~ensuring

(* A copy that claims the server's resourceVersion holds the server's data. *)
Coherent ==
  /\ cacheCurrent => cache = secret
  /\ snapCurrent => secret.exists /\ snap.data = secret.data

CoreInv == TypeOK /\ Progress /\ Coherent

-----------------------------------------------------------------------------
(* Types of the pieces. *)

LEMMA ClassifyType == \A e \in Error : Classify(e) \in ErrorClasses
BY DEF Error, Classify, ClassifyInner, classifyHTTPStatus, ErrorClasses, ClassConfigRejected,
       ClassAuth, ClassTLS, ClassConnection, ClassConflict, ClassRateLimited, ClassServer,
       ClassUnknown

(* The demotion of Classify: a version check never yields a verdict. *)
LEMMA VersionCheckIsTransient ==
  \A e \in Errors : Transient(Classify(VersionCheckError(e)))
BY DataplaneAssumption
   DEF Error, Classify, ClassifyInner, Transient, VersionCheckError, ClassConfigRejected, ClassUnknown

LEMMA ErrorTypes ==
  /\ Errors \subseteq Error
  /\ \A e \in Errors : VersionCheckError(e) \in Error
  /\ OtherError \in Error /\ APIError(409) \in Error
<1>1. Errors \subseteq Error
  BY DataplaneAssumption
<1>2. ASSUME NEW e \in Error PROVE VersionCheckError(e) \in Error
  BY DEF Error, VersionCheckError
<1>3. OtherError \in Error /\ APIError(409) \in Error
  BY DEF Error, OtherError, APIError
<1>4. QED
  BY <1>1, <1>2, <1>3

LEMMA FailureType ==
  ASSUME NEW stage \in Stages, NEW e \in Error
  PROVE  Failure(stage, e) \in Reports /\ Failure(stage, e).kind = "transient"
BY ClassifyType DEF Failure, Reports, Status

LEMMA OtherReports ==
  /\ NoReport \in Reports /\ NoReport.kind = "none"
  /\ Rejection \in Reports /\ Rejection.kind = "rejected"
  /\ MissingKey \in Reports /\ MissingKey.kind = "missing key"
BY DEF NoReport, Rejection, MissingKey, Reports, Status, Stages, NoStatus, ErrorClasses

LEMMA NoAnnotationsType == NoAnnotations \in Annotations /\ Gone \in SecretObject
BY DEF NoAnnotations, Annotations, Gone, SecretObject, Status, Stages, NoStatus

LEMMA MergeType ==
  ASSUME NEW s \in Annotations, NEW o \in Annotations, NEW n \in Annotations
  PROVE  Merge(s, o, n) \in Annotations
BY DEF Merge, Pick, Annotations

LEMMA AppliedStatusType == Applied \in Status
BY DEF Applied, Status, Stages

LEMMA CertSequence == CertsSecretNames \in Seq(CertNames)
BY NamesAssumption DEF CertNames

-----------------------------------------------------------------------------
(* What the operations on the Secret preserve. *)

LEMMA PatchServerPreserves ==
  ASSUME SecretTypeOK, Coherent, NEW new \in Annotations, NEW res \in PatchResults,
         PatchServer(new, res)
  PROVE  /\ secret' \in SecretObject
         /\ secret'.exists = secret.exists /\ secret'.data = secret.data
         /\ cache' = cache /\ cacheCurrent' \in BOOLEAN
         /\ cacheCurrent' => cacheCurrent /\ secret' = secret
         /\ event' = event /\ edits' = edits /\ apiFaults' \in 0 .. MaxApiFaults
         /\ res = "ok" => snapCurrent
<1>1. secret.ann \in Annotations /\ snap.ann \in Annotations
  BY DEF SecretTypeOK, SecretObject
<1>2. Merge(secret.ann, snap.ann, new) \in Annotations
  BY <1>1, MergeType
<1>3. [secret EXCEPT !.ann = Merge(secret.ann, snap.ann, new)] \in SecretObject
  BY <1>2 DEF SecretTypeOK, SecretObject
<1>4. cache' = cache /\ event' = event /\ edits' = edits
  BY DEF PatchServer
<1>5. CASE res \in {"ok", "lost"}
  <2>1. /\ secret' = [secret EXCEPT !.ann = Merge(secret.ann, snap.ann, new)]
        /\ cacheCurrent' = FALSE /\ snapCurrent
        /\ res = "lost" => apiFaults < MaxApiFaults
        /\ apiFaults' = IF res = "lost" THEN apiFaults + 1 ELSE apiFaults
    BY <1>5 DEF PatchServer
  <2>2. secret'.exists = secret.exists /\ secret'.data = secret.data
    BY <2>1 DEF SecretTypeOK, SecretObject
  <2>3. apiFaults' \in 0 .. MaxApiFaults
    BY <2>1, EditBoundsAssumption DEF SecretTypeOK
  <2>4. QED
    BY <1>3, <1>4, <2>1, <2>2, <2>3
<1>6. CASE res \in {"conflict", "error"}
  <2>1. UNCHANGED <<secret, cacheCurrent>> /\ res # "ok"
    BY <1>6 DEF PatchServer
  <2>2. apiFaults' \in 0 .. MaxApiFaults
    BY <1>6, EditBoundsAssumption DEF PatchServer, SecretTypeOK
  <2>3. QED
    BY <1>4, <2>1, <2>2 DEF SecretTypeOK
<1>7. QED
  BY <1>5, <1>6 DEF PatchResults

LEMMA PatchAndForgetPreserves ==
  ASSUME SecretTypeOK, Coherent, NEW new \in Annotations, NEW res \in PatchResults,
         patchAndForget(new, res)
  PROVE  SecretTypeOK' /\ Coherent'
<1>1. PatchServer(new, res) /\ snap' = Gone /\ snapCurrent' = FALSE
  BY DEF patchAndForget
<1>2. QED
  BY <1>1, PatchServerPreserves, NoAnnotationsType DEF SecretTypeOK, Coherent

LEMMA PatchAnnotationsPreserves ==
  ASSUME SecretTypeOK, Coherent, NEW new \in Annotations, NEW res \in PatchResults,
         patchAnnotations(new, res)
  PROVE  SecretTypeOK' /\ Coherent' /\ snap'.data = snap.data
<1>1. /\ PatchServer(new, res) /\ snap' = SnapAfter(new, res)
      /\ snapCurrent' = (snapCurrent /\ res # "lost")
  BY DEF patchAnnotations
<1>2. [snap EXCEPT !.ann = new] \in SecretObject /\ [snap EXCEPT !.ann = new].data = snap.data
  BY DEF SecretTypeOK, SecretObject
<1>3. QED
  BY <1>1, <1>2, PatchServerPreserves DEF SecretTypeOK, Coherent, SnapAfter

LEMMA GetPreserves ==
  ASSUME SecretTypeOK, Coherent, GetSecret, UNCHANGED apiVars
  PROVE  SecretTypeOK' /\ Coherent'
BY DEF SecretTypeOK, Coherent, GetSecret, apiVars

LEMMA ForgetPreserves ==
  ASSUME SecretTypeOK, Coherent, ForgetSecret, UNCHANGED apiVars
  PROVE  SecretTypeOK' /\ Coherent'
BY NoAnnotationsType DEF SecretTypeOK, Coherent, ForgetSecret, apiVars

LEMMA SecretUnchanged ==
  ASSUME SecretTypeOK, Coherent, UNCHANGED <<apiVars, snapVars>>
  PROVE  SecretTypeOK' /\ Coherent' /\ snap' = snap
BY DEF SecretTypeOK, Coherent, apiVars, snapVars

-----------------------------------------------------------------------------
(* What the steps of control preserve. *)

LEMMA LeavePreserves ==
  ASSUME ControlTypeOK, Leave, queued' \subseteq Keys
  PROVE  ControlTypeOK' /\ Progress'
<1>1. /\ pc' = "idle" /\ key' = SecretName /\ todo' = <<>> /\ ensuring' = FALSE
      /\ report' = NoReport /\ readBack' = Absent
  BY DEF Leave
<1>2. <<>> \in Seq(CertNames)
  OBVIOUS
<1>3. ControlTypeOK'
  BY <1>1, <1>2, OtherReports DEF ControlTypeOK, Steps, Keys
<1>4. Progress'
  BY <1>1 DEF Progress, HasBytes
<1>5. QED
  BY <1>3, <1>4

LEMMA RequeueType ==
  ASSUME ControlTypeOK, Requeue
  PROVE  queued' \subseteq Keys
BY DEF ControlTypeOK, Requeue

StreakType == [bytes : Configs \cup {NoKey}, stage : Stages, length : 0 .. FailureCap]

LEMMA NoStreakType == NoStreak \in StreakType
BY DEF NoStreak, StreakType, Stages, FailureCap

LEMMA FinishPreserves ==
  ASSUME ControlTypeOK, HistoryTypeOK, Finish, UNCHANGED <<refused, accepted>>
  PROVE  ControlTypeOK' /\ Progress' /\ HistoryTypeOK'
<1>1. ControlTypeOK' /\ Progress'
  BY LeavePreserves, RequeueType DEF Finish
<1>2. HistoryTypeOK'
  BY NoStreakType DEF Finish, HistoryTypeOK, StreakType
<1>3. QED
  BY <1>1, <1>2

LEMMA GatewayUnchanged ==
  ASSUME GatewayTypeOK, UNCHANGED gatewayVars
  PROVE  GatewayTypeOK'
BY DEF GatewayTypeOK, gatewayVars

LEMMA CertUnchanged ==
  ASSUME CertTypeOK, UNCHANGED certVars
  PROVE  CertTypeOK'
BY DEF CertTypeOK, certVars

LEMMA MemoryUnchanged ==
  ASSUME MemoryTypeOK, UNCHANGED <<memory, crashes>>
  PROVE  MemoryTypeOK'
BY DEF MemoryTypeOK, memory

LEMMA HistoryUnchanged ==
  ASSUME HistoryTypeOK, UNCHANGED history
  PROVE  HistoryTypeOK'
BY DEF HistoryTypeOK, history

ByteSteps == {"read live", "adopt", "clear drift status", "prepare", "validate",
              "read version", "post", "read back", "record"}

LEMMA GotoPreserves ==
  ASSUME ControlTypeOK, Progress, NEW step \in ByteSteps \cup {"decide"}, Goto(step),
         queued' \subseteq Keys, snap'.data = snap.data \/ ~ensuring,
         step = "decide" \/ snap'.data \in Configs
  PROVE  ControlTypeOK' /\ Progress'
<1>1. pc' = step /\ UNCHANGED <<key, todo, ensuring, report, readBack>>
  BY DEF Goto
<1>2. ControlTypeOK'
  BY <1>1 DEF ControlTypeOK, Steps, ByteSteps
<1>3. Progress'
  BY <1>1 DEF Progress, HasBytes, ByteSteps
<1>4. QED
  BY <1>2, <1>3

LEMMA FailWithPreserves ==
  ASSUME ControlTypeOK, Progress, NEW r \in Reports, FailWith(r),
         queued' \subseteq Keys, snap'.data = snap.data,
         r.kind # "rejected" \/ snap.data \in Configs
  PROVE  ControlTypeOK' /\ Progress'
<1>1. pc' = "fail" /\ report' = r /\ UNCHANGED <<key, todo, ensuring, readBack>>
  BY DEF FailWith
<1>2. ControlTypeOK'
  BY <1>1 DEF ControlTypeOK, Steps
<1>3. Progress'
  BY <1>1 DEF Progress, HasBytes
<1>4. QED
  BY <1>2, <1>3

LEMMA MemoryPreserves ==
  ASSUME MemoryTypeOK, transientFailures' \in 0 .. FailureCap,
         lastDesiredHash' \in Hashes \cup {Absent}, clientReady' \in BOOLEAN,
         inSync' \in {"unset", "yes", "no"}, crashes' = crashes
  PROVE  MemoryTypeOK'
BY DEF MemoryTypeOK

LEMMA ZeroFailures == 0 \in 0 .. FailureCap
BY DEF FailureCap

-----------------------------------------------------------------------------
(* What the calls to the gateway preserve. *)

LEMMA FaultPreserves ==
  ASSUME GatewayTypeOK, NEW e,
         ClientFails(e) \/ VersionError(e) \/ RequestError(e) \/ ReadError(e)
  PROVE  GatewayTypeOK'
BY DataplaneAssumption
   DEF GatewayTypeOK, ClientFails, VersionError, RequestError, ReadError, Fault

LEMMA WriteType ==
  ASSUME GatewayTypeOK, NEW b \in Bytes, Write(b)
  PROVE  live' \in Bytes /\ held' \in BOOLEAN /\ late' \in Configs \cup {NoConfig}
BY DEF Write

LEMMA NormalizeType == \A c \in Configs : Normalize[c] \in Bytes
BY DataplaneAssumption

LEMMA FaultErrors ==
  ASSUME NEW e, VersionError(e) \/ RequestError(e) \/ ReadError(e)
  PROVE  e \in Error
BY ErrorTypes DEF VersionError, RequestError, ReadError

-----------------------------------------------------------------------------
(* One step per action: deciding what the Secret asks for. *)

LEMMA DecisionPreserves == CoreInv /\ DecisionSteps => CoreInv'
<1> SUFFICES ASSUME CoreInv, DecisionSteps PROVE CoreInv'
  OBVIOUS
<1>1. /\ SecretTypeOK /\ GatewayTypeOK /\ CertTypeOK /\ ControlTypeOK
      /\ MemoryTypeOK /\ HistoryTypeOK /\ Progress /\ Coherent
  BY DEF CoreInv, TypeOK
<1>2. snap.data \in Configs \cup {NoKey} /\ queued \subseteq Keys
  BY <1>1 DEF SecretTypeOK, SecretObject, ControlTypeOK
<1>3. CASE KeyMissing
  <2>1. FailWith(MissingKey) /\ UNCHANGED <<apiVars, snapVars, gatewayVars, certVars, queued,
                                           memory, crashes, history>>
    BY <1>3 DEF KeyMissing
  <2>2. SecretTypeOK' /\ Coherent' /\ snap' = snap
    BY <1>1, <2>1, SecretUnchanged
  <2>3. ControlTypeOK' /\ Progress'
    BY <1>1, <1>2, <2>1, <2>2, OtherReports, FailWithPreserves
  <2>4. QED
    BY <1>1, <2>1, <2>2, <2>3, GatewayUnchanged, CertUnchanged, MemoryUnchanged,
       HistoryUnchanged DEF CoreInv, TypeOK
<1>4. CASE Unchanged
  <2>1. /\ Goto("read live") /\ snap.data # NoKey
        /\ UNCHANGED <<apiVars, snapVars, gatewayVars, certVars, queued, memory, crashes, history>>
    BY <1>4 DEF Unchanged
  <2>2. SecretTypeOK' /\ Coherent' /\ snap' = snap
    BY <1>1, <2>1, SecretUnchanged
  <2>3. ControlTypeOK' /\ Progress'
    BY <1>1, <1>2, <2>1, <2>2, GotoPreserves DEF ByteSteps
  <2>4. QED
    BY <1>1, <2>1, <2>2, <2>3, GatewayUnchanged, CertUnchanged, MemoryUnchanged,
       HistoryUnchanged DEF CoreInv, TypeOK
<1>5. snap.data # NoKey => currentHash \in Hashes
  BY <1>2, ContentsAssumption, ConfigsAssumption DEF currentHash, Hashes
<1>6. CASE Suppressed
  <2>1. /\ NoteDesired(transientFailures) /\ Finish /\ ForgetSecret /\ snap.data # NoKey
        /\ UNCHANGED <<apiVars, gatewayVars, certVars, clientReady, inSync, crashes, refused, accepted>>
    BY <1>6 DEF Suppressed
  <2>2. SecretTypeOK' /\ Coherent'
    BY <1>1, <2>1, ForgetPreserves
  <2>3. ControlTypeOK' /\ Progress' /\ HistoryTypeOK'
    BY <1>1, <2>1, FinishPreserves
  <2>4. MemoryTypeOK'
    BY <1>1, <1>5, <2>1 DEF MemoryTypeOK, NoteDesired, FailureCap
  <2>5. QED
    BY <1>1, <2>1, <2>2, <2>3, <2>4, GatewayUnchanged, CertUnchanged DEF CoreInv, TypeOK
<1>7. CASE DesiredChanged
  <2>1. /\ NoteDesired(transientFailures) /\ Goto("prepare") /\ snap.data # NoKey
        /\ UNCHANGED <<apiVars, snapVars, gatewayVars, certVars, queued, clientReady, inSync,
                       crashes, history>>
    BY <1>7 DEF DesiredChanged
  <2>2. SecretTypeOK' /\ Coherent' /\ snap' = snap
    BY <1>1, <2>1, SecretUnchanged
  <2>3. ControlTypeOK' /\ Progress'
    BY <1>1, <1>2, <2>1, <2>2, GotoPreserves DEF ByteSteps
  <2>4. MemoryTypeOK'
    BY <1>1, <1>5, <2>1 DEF MemoryTypeOK, NoteDesired, FailureCap
  <2>5. QED
    BY <1>1, <2>1, <2>2, <2>3, <2>4, GatewayUnchanged, CertUnchanged, HistoryUnchanged
       DEF CoreInv, TypeOK
<1>8. QED
  BY <1>3, <1>4, <1>6, <1>7 DEF DecisionSteps

-----------------------------------------------------------------------------
(* The live read and what it leads to. *)

LEMMA DriftPreserves == CoreInv /\ DriftSteps => CoreInv'
<1> SUFFICES ASSUME CoreInv, DriftSteps PROVE CoreInv'
  OBVIOUS
<1>1. /\ SecretTypeOK /\ GatewayTypeOK /\ CertTypeOK /\ ControlTypeOK
      /\ MemoryTypeOK /\ HistoryTypeOK /\ Progress /\ Coherent
  BY DEF CoreInv, TypeOK
<1>2. snap.ann \in Annotations /\ queued \subseteq Keys
  BY <1>1 DEF SecretTypeOK, SecretObject, ControlTypeOK
<1>3. pc \in ByteSteps => snap.data \in Configs /\ currentHash \in Hashes
  BY <1>1, ContentsAssumption, ConfigsAssumption DEF Progress, HasBytes, ByteSteps, currentHash, Hashes
<1>4. liveHash \in Hashes
  BY <1>1 DEF liveHash, Hashes, GatewayTypeOK
<1>5. "" \in Stages /\ "DriftCheck" \in Stages
  BY DEF Stages
<1>6. CASE LiveReadWithoutClient
  <2>1. PICK e \in Errors : ClientFails(e) /\ FailWith(Failure("", e))
    BY <1>6 DEF LiveReadWithoutClient
  <2>2. UNCHANGED <<apiVars, snapVars, certVars, queued, memory, crashes, history>>
    BY <1>6 DEF LiveReadWithoutClient
  <2>3. SecretTypeOK' /\ Coherent' /\ snap' = snap
    BY <1>1, <2>2, SecretUnchanged
  <2>4. ControlTypeOK' /\ Progress'
    BY <1>1, <1>2, <1>5, <2>1, <2>2, <2>3, ErrorTypes, FailureType, FailWithPreserves
  <2>5. QED
    BY <1>1, <2>1, <2>2, <2>3, <2>4, FaultPreserves, CertUnchanged, MemoryUnchanged,
       HistoryUnchanged DEF CoreInv, TypeOK
<1>7. CASE LiveReadFails
  <2>1. PICK e \in Errors : ReadError(e) /\ FailWith(Failure("DriftCheck", e))
    BY <1>7 DEF LiveReadFails
  <2>2. /\ clientReady' = TRUE
        /\ UNCHANGED <<apiVars, snapVars, certVars, queued, transientFailures, lastDesiredHash,
                       inSync, crashes, history>>
    BY <1>7 DEF LiveReadFails
  <2>3. SecretTypeOK' /\ Coherent' /\ snap' = snap
    BY <1>1, <2>2, SecretUnchanged
  <2>4. ControlTypeOK' /\ Progress'
    BY <1>1, <1>2, <1>5, <2>1, <2>2, <2>3, ErrorTypes, FailureType, FailWithPreserves
  <2>5. MemoryTypeOK'
    BY <1>1, <2>2 DEF MemoryTypeOK
  <2>6. QED
    BY <1>1, <2>1, <2>2, <2>3, <2>4, <2>5, FaultPreserves, CertUnchanged,
       HistoryUnchanged DEF CoreInv, TypeOK
<1>8. CASE LiveReadBaseline
  <2>1. /\ pc = "read live" /\ pc' = "adopt" /\ readBack' = liveHash
        /\ clientReady' = TRUE /\ transientFailures' = 0
        /\ UNCHANGED <<apiVars, gatewayVars, certVars, crashes, refused, accepted>>
        /\ UNCHANGED <<snapVars, key, todo, ensuring, report, queued, lastDesiredHash, inSync, streak>>
    BY <1>8 DEF LiveReadBaseline, LiveRead
  <2>2. SecretTypeOK' /\ Coherent' /\ snap' = snap
    BY <1>1, <2>1, SecretUnchanged
  <2>3. ControlTypeOK'
    BY <1>1, <1>4, <2>1 DEF ControlTypeOK, Steps
  <2>4. Progress'
    BY <1>3, <2>1, <2>2 DEF Progress, ByteSteps
  <2>5. MemoryTypeOK' /\ HistoryTypeOK'
    <3>1. lastDesiredHash' \in Hashes \cup {Absent} /\ inSync' \in {"unset", "yes", "no"}
      BY <1>1, <2>1 DEF MemoryTypeOK
    <3>2. MemoryTypeOK'
      BY <1>1, <2>1, <3>1, ZeroFailures, MemoryPreserves
    <3>3. HistoryTypeOK'
      BY <1>1, <2>1, HistoryUnchanged DEF history
    <3>4. QED
      BY <3>2, <3>3
  <2>6. QED
    BY <1>1, <2>1, <2>2, <2>3, <2>4, <2>5, GatewayUnchanged, CertUnchanged DEF CoreInv, TypeOK
<1>9. CASE LiveReadInSync
  <2>1. /\ pc = "read live" /\ clientReady' = TRUE /\ inSync' = "yes" /\ transientFailures' = 0
        /\ UNCHANGED <<apiVars, gatewayVars, certVars, crashes, refused, accepted, lastDesiredHash>>
    BY <1>9 DEF LiveReadInSync, LiveRead
  <2>2. \/ Goto("clear drift status") /\ UNCHANGED <<snapVars, queued, streak>>
        \/ Finish /\ ForgetSecret
    BY <1>9 DEF LiveReadInSync
  <2>3. MemoryTypeOK'
    <3>1. lastDesiredHash' \in Hashes \cup {Absent} /\ crashes' = crashes
      BY <1>1, <2>1 DEF MemoryTypeOK
    <3>2. QED
      BY <1>1, <2>1, <3>1, ZeroFailures, MemoryPreserves
  <2>4. CASE Goto("clear drift status") /\ UNCHANGED <<snapVars, queued, streak>>
    <3>1. SecretTypeOK' /\ Coherent' /\ snap' = snap
      BY <1>1, <2>1, <2>4, SecretUnchanged
    <3>2. ControlTypeOK' /\ Progress'
      BY <1>1, <1>2, <1>3, <2>1, <2>4, <3>1, GotoPreserves DEF ByteSteps
    <3>3. HistoryTypeOK'
      BY <1>1, <2>1, <2>4 DEF HistoryTypeOK
    <3>4. QED
      BY <1>1, <2>1, <2>3, <3>1, <3>2, <3>3, GatewayUnchanged, CertUnchanged DEF CoreInv, TypeOK
  <2>5. CASE Finish /\ ForgetSecret
    <3>1. SecretTypeOK' /\ Coherent'
      BY <1>1, <2>1, <2>5, ForgetPreserves
    <3>2. ControlTypeOK' /\ Progress' /\ HistoryTypeOK'
      BY <1>1, <2>1, <2>5, FinishPreserves
    <3>3. QED
      BY <1>1, <2>1, <2>3, <3>1, <3>2, GatewayUnchanged, CertUnchanged DEF CoreInv, TypeOK
  <2>6. QED
    BY <2>2, <2>4, <2>5
<1>10. CASE LiveReadDriftReported
  <2>1. /\ clientReady' = TRUE /\ inSync' = "no" /\ transientFailures' = 0 /\ Finish /\ ForgetSecret
        /\ UNCHANGED <<apiVars, gatewayVars, certVars, crashes, refused, accepted, lastDesiredHash>>
    BY <1>10 DEF LiveReadDriftReported, LiveRead
  <2>2. SecretTypeOK' /\ Coherent'
    BY <1>1, <2>1, ForgetPreserves
  <2>3. ControlTypeOK' /\ Progress' /\ HistoryTypeOK'
    BY <1>1, <2>1, FinishPreserves
  <2>4. MemoryTypeOK'
    BY <1>1, <2>1 DEF MemoryTypeOK, FailureCap
  <2>5. QED
    BY <1>1, <2>1, <2>2, <2>3, <2>4, GatewayUnchanged, CertUnchanged DEF CoreInv, TypeOK
<1>11. CASE LiveReadDriftRemediated
  <2>1. /\ pc = "read live" /\ clientReady' = TRUE /\ inSync' = "no" /\ NoteDesired(0)
        /\ Goto("prepare")
        /\ UNCHANGED <<apiVars, gatewayVars, certVars, crashes, refused, accepted>>
        /\ UNCHANGED <<snapVars, queued, streak>>
    BY <1>11 DEF LiveReadDriftRemediated, LiveRead
  <2>2. SecretTypeOK' /\ Coherent' /\ snap' = snap
    BY <1>1, <2>1, SecretUnchanged
  <2>3. ControlTypeOK' /\ Progress'
    BY <1>1, <1>2, <1>3, <2>1, <2>2, GotoPreserves DEF ByteSteps
  <2>4. MemoryTypeOK' /\ HistoryTypeOK'
    <3>1. transientFailures' = 0 /\ lastDesiredHash' \in Hashes
      BY <1>3, <2>1 DEF NoteDesired, ByteSteps
    <3>2. MemoryTypeOK'
      BY <1>1, <2>1, <3>1, ZeroFailures, MemoryPreserves
    <3>3. HistoryTypeOK'
      BY <1>1, <2>1, HistoryUnchanged DEF history
    <3>4. QED
      BY <3>2, <3>3
  <2>5. QED
    BY <1>1, <2>1, <2>2, <2>3, <2>4, GatewayUnchanged, CertUnchanged DEF CoreInv, TypeOK
<1>12. CASE AdoptBaseline
  <2> DEFINE new == [snap.ann EXCEPT !.observed = readBack, !.status = Applied]
  <2>1. PICK res \in PatchResults : patchAndForget(new, res)
    BY <1>12 DEF AdoptBaseline
  <2>2. /\ inSync' = "yes" /\ Finish
        /\ UNCHANGED <<gatewayVars, certVars, transientFailures, lastDesiredHash, clientReady,
                       crashes, refused, accepted>>
    BY <1>12 DEF AdoptBaseline
  <2>3. new \in Annotations
    BY <1>1, <1>2, AppliedStatusType DEF Annotations, ControlTypeOK
  <2>4. SecretTypeOK' /\ Coherent'
    BY <1>1, <2>1, <2>3, PatchAndForgetPreserves
  <2>5. ControlTypeOK' /\ Progress' /\ HistoryTypeOK'
    BY <1>1, <2>2, FinishPreserves
  <2>6. MemoryTypeOK'
    BY <1>1, <2>2 DEF MemoryTypeOK
  <2>7. QED
    BY <1>1, <2>2, <2>4, <2>5, <2>6, GatewayUnchanged, CertUnchanged DEF CoreInv, TypeOK
<1>13. CASE ClearDriftStatus
  <2> DEFINE new == [snap.ann EXCEPT !.status = Applied]
  <2>1. PICK res \in PatchResults : patchAndForget(new, res)
    BY <1>13 DEF ClearDriftStatus
  <2>2. Finish /\ UNCHANGED <<gatewayVars, certVars, memory, crashes, refused, accepted>>
    BY <1>13 DEF ClearDriftStatus
  <2>3. new \in Annotations
    BY <1>1, <1>2, AppliedStatusType DEF Annotations
  <2>4. SecretTypeOK' /\ Coherent'
    BY <1>1, <2>1, <2>3, PatchAndForgetPreserves
  <2>5. ControlTypeOK' /\ Progress' /\ HistoryTypeOK'
    BY <1>1, <2>2, FinishPreserves
  <2>6. QED
    BY <1>1, <2>2, <2>4, <2>5, MemoryUnchanged, GatewayUnchanged, CertUnchanged DEF CoreInv, TypeOK
<1>14. QED
  BY <1>6, <1>7, <1>8, <1>9, <1>10, <1>11, <1>12, <1>13 DEF DriftSteps

-----------------------------------------------------------------------------
(* Validate, apply, observe, record. *)

LEMMA ApplyPreserves == CoreInv /\ ApplySteps => CoreInv'
<1> SUFFICES ASSUME CoreInv, ApplySteps PROVE CoreInv'
  OBVIOUS
<1>1. /\ SecretTypeOK /\ GatewayTypeOK /\ CertTypeOK /\ ControlTypeOK
      /\ MemoryTypeOK /\ HistoryTypeOK /\ Progress /\ Coherent
  BY DEF CoreInv, TypeOK
<1>2. snap.ann \in Annotations /\ queued \subseteq Keys
  BY <1>1 DEF SecretTypeOK, SecretObject, ControlTypeOK
<1>3. pc \in ByteSteps => snap.data \in Configs /\ currentHash \in Hashes
  BY <1>1, ContentsAssumption, ConfigsAssumption DEF Progress, HasBytes, ByteSteps, currentHash, Hashes
<1>4. "" \in Stages /\ "Apply" \in Stages
  BY DEF Stages
<1>5. CASE PrepareFails
  <2>1. PICK e \in Errors : ClientFails(e) /\ FailWith(Failure("", e))
    BY <1>5 DEF PrepareFails
  <2>2. UNCHANGED <<apiVars, snapVars, certVars, queued, memory, crashes, history>>
    BY <1>5 DEF PrepareFails
  <2>3. SecretTypeOK' /\ Coherent' /\ snap' = snap
    BY <1>1, <2>2, SecretUnchanged
  <2>4. ControlTypeOK' /\ Progress'
    BY <1>1, <1>2, <1>4, <2>1, <2>2, <2>3, ErrorTypes, FailureType, FailWithPreserves
  <2>5. QED
    BY <1>1, <2>1, <2>2, <2>3, <2>4, FaultPreserves, CertUnchanged, MemoryUnchanged,
       HistoryUnchanged DEF CoreInv, TypeOK
<1>6. CASE Prepare
  <2>1. /\ pc = "prepare" /\ clientReady' = TRUE
        /\ UNCHANGED <<apiVars, snapVars, gatewayVars, certVars, queued, transientFailures,
                       lastDesiredHash, inSync, crashes, history>>
    BY <1>6 DEF Prepare
  <2>2. \/ Goto("validate")
        \/ /\ CertsSecretNames # <<>>
           /\ pc' = "push" /\ todo' = CertsSecretNames /\ ensuring' = TRUE
           /\ UNCHANGED <<key, report, readBack>>
    BY <1>6 DEF Prepare
  <2>3. SecretTypeOK' /\ Coherent' /\ snap' = snap
    BY <1>1, <2>1, SecretUnchanged
  <2>4. ASSUME Goto("validate") PROVE ControlTypeOK' /\ Progress'
    BY <1>1, <1>2, <1>3, <2>1, <2>3, <2>4, GotoPreserves DEF ByteSteps
  <2>5. ASSUME CertsSecretNames # <<>>,
               pc' = "push" /\ todo' = CertsSecretNames /\ ensuring' = TRUE,
               UNCHANGED <<key, report, readBack>>
        PROVE  ControlTypeOK' /\ Progress'
    <3>1. ControlTypeOK'
      BY <1>1, <2>1, <2>5, CertSequence DEF ControlTypeOK, Steps
    <3>2. Progress'
      BY <1>3, <2>1, <2>3, <2>5 DEF Progress, ByteSteps
    <3>3. QED
      BY <3>1, <3>2
  <2>6. ControlTypeOK' /\ Progress'
    BY <2>2, <2>4, <2>5
  <2>7. MemoryTypeOK'
    BY <1>1, <2>1 DEF MemoryTypeOK
  <2>8. QED
    BY <1>1, <2>1, <2>3, <2>6, <2>7, GatewayUnchanged, CertUnchanged, HistoryUnchanged
       DEF CoreInv, TypeOK
<1>7. ASSUME Reject, pc \in ByteSteps, UNCHANGED <<apiVars, snapVars, gatewayVars, certVars, queued,
                                                 memory, crashes>>
      PROVE  CoreInv'
  <2>1. /\ FailWith(Rejection) /\ refused' = refused \cup {snap.data}
        /\ UNCHANGED <<accepted, streak>>
    BY <1>7 DEF Reject
  <2>2. SecretTypeOK' /\ Coherent' /\ snap' = snap
    BY <1>1, <1>7, SecretUnchanged
  <2>3. ControlTypeOK' /\ Progress'
    BY <1>1, <1>2, <1>3, <1>7, <2>1, <2>2, OtherReports, FailWithPreserves
  <2>4. HistoryTypeOK'
    BY <1>1, <1>3, <1>7, <2>1 DEF HistoryTypeOK
  <2>5. QED
    BY <1>1, <1>7, <2>2, <2>3, <2>4, GatewayUnchanged, CertUnchanged, MemoryUnchanged
       DEF CoreInv, TypeOK
<1>8. CASE ValidateRejects
  BY <1>7, <1>8 DEF ValidateRejects, ByteSteps
<1>9. ASSUME NEW e, VersionError(e) \/ RequestError(e), pc \in ByteSteps, NEW stage \in {"", "Apply"},
             IF Transient(Classify(e)) THEN FailWith(Failure(stage, e)) ELSE FailWith(Rejection),
             UNCHANGED <<apiVars, snapVars, certVars, queued, memory, crashes, history>>
      PROVE  CoreInv'
  <2>1. SecretTypeOK' /\ Coherent' /\ snap' = snap
    BY <1>1, <1>9, SecretUnchanged
  <2>2. e \in Error /\ stage \in Stages
    BY <1>4, <1>9, FaultErrors
  <2>3. PICK r \in Reports : FailWith(r)
    BY <1>9, <2>2, FailureType, OtherReports
  <2>4. ControlTypeOK' /\ Progress'
    BY <1>1, <1>2, <1>3, <1>9, <2>1, <2>3, FailWithPreserves
  <2>5. QED
    BY <1>1, <1>9, <2>1, <2>4, FaultPreserves, CertUnchanged, MemoryUnchanged,
       HistoryUnchanged DEF CoreInv, TypeOK
<1>10. CASE ValidateFails
  BY <1>9, <1>10 DEF ValidateFails, ValidateError, ByteSteps
<1>11. CASE ValidatePasses
  <2>1. /\ pc = "validate" /\ Goto("read version")
        /\ UNCHANGED <<apiVars, snapVars, gatewayVars, certVars, queued, memory, crashes, history>>
    BY <1>11 DEF ValidatePasses
  <2>2. SecretTypeOK' /\ Coherent' /\ snap' = snap
    BY <1>1, <2>1, SecretUnchanged
  <2>3. ControlTypeOK' /\ Progress'
    BY <1>1, <1>2, <1>3, <2>1, <2>2, GotoPreserves DEF ByteSteps
  <2>4. QED
    BY <1>1, <2>1, <2>2, <2>3, GatewayUnchanged, CertUnchanged, MemoryUnchanged,
       HistoryUnchanged DEF CoreInv, TypeOK
<1>12. CASE ApplyReadsVersion
  <2>1. /\ pc = "read version" /\ Goto("post") /\ ReadVersion
        /\ UNCHANGED <<apiVars, snapVars, certVars, queued, memory, crashes, history>>
    BY <1>12 DEF ApplyReadsVersion
  <2>2. SecretTypeOK' /\ Coherent' /\ snap' = snap
    BY <1>1, <2>1, SecretUnchanged
  <2>3. ControlTypeOK' /\ Progress'
    BY <1>1, <1>2, <1>3, <2>1, <2>2, GotoPreserves DEF ByteSteps
  <2>4. GatewayTypeOK'
    BY <1>1, <2>1 DEF GatewayTypeOK, ReadVersion
  <2>5. QED
    BY <1>1, <2>1, <2>2, <2>3, <2>4, CertUnchanged, MemoryUnchanged, HistoryUnchanged
       DEF CoreInv, TypeOK
<1>13. CASE ApplyVersionFails
  BY <1>9, <1>13 DEF ApplyVersionFails, ByteSteps
<1>14. CASE ApplySucceeds
  <2>1. /\ pc = "post" /\ Goto("read back") /\ PostAccepted(snap.data)
        /\ accepted' = accepted \cup {snap.data}
        /\ transientFailures' = 0 /\ inSync' = "yes"
        /\ UNCHANGED <<apiVars, snapVars, certVars, queued, lastDesiredHash, clientReady,
                       crashes, refused, streak>>
    BY <1>14 DEF ApplySucceeds
  <2>2. SecretTypeOK' /\ Coherent' /\ snap' = snap
    BY <1>1, <2>1, SecretUnchanged
  <2>3. snap.data \in Configs
    BY <1>3, <2>1 DEF ByteSteps
  <2>4. ControlTypeOK' /\ Progress'
    BY <1>1, <1>2, <2>1, <2>2, <2>3, GotoPreserves DEF ByteSteps
  <2>5. GatewayTypeOK'
    BY <1>1, <2>1, <2>3, NormalizeType, WriteType DEF GatewayTypeOK, PostAccepted
  <2>6. HistoryTypeOK'
    BY <1>1, <2>1, <2>3 DEF HistoryTypeOK
  <2>7. MemoryTypeOK'
    BY <1>1, <2>1, ZeroFailures DEF MemoryTypeOK
  <2>8. QED
    BY <1>1, <2>1, <2>2, <2>4, <2>5, <2>6, <2>7, CertUnchanged DEF CoreInv, TypeOK
<1>15. CASE ApplyRejected
  BY <1>7, <1>15 DEF ApplyRejected, PostRefused, ByteSteps
<1>16. CASE ApplyFails
  <2>1. pc = "post" /\ UNCHANGED <<apiVars, snapVars, certVars, queued, memory, crashes, refused, streak>>
    BY <1>16 DEF ApplyFails
  <2>2. snap.data \in Configs
    BY <1>3, <2>1 DEF ByteSteps
  <2>3. PICK r \in Reports : FailWith(r)
    BY <1>16, ErrorTypes, FailureType, OtherReports DEF ApplyFails, Stages
  <2>4. SecretTypeOK' /\ Coherent' /\ snap' = snap
    BY <1>1, <2>1, SecretUnchanged
  <2>5. ControlTypeOK' /\ Progress'
    BY <1>1, <1>2, <1>3, <2>1, <2>2, <2>3, <2>4, FailWithPreserves DEF ByteSteps
  <2>6. \/ UNCHANGED gatewayVars
        \/ \E e \in Errors : RequestError(e)
        \/ \E e \in Errors : PostAnswerLost(snap.data, e)
        \/ \E e \in Errors : PostDelayed(snap.data, e)
    BY <1>16 DEF ApplyFails, PostConflicts, RequestError, PostAnswerLost, PostDelayed
  <2>7. GatewayTypeOK'
    <3>1. CASE UNCHANGED gatewayVars
      BY <1>1, <3>1, GatewayUnchanged
    <3>2. CASE \E e \in Errors : RequestError(e)
      BY <1>1, <3>2, FaultPreserves
    <3>3. CASE \E e \in Errors : PostAnswerLost(snap.data, e)
      <4>1. /\ Write(Normalize[snap.data]) /\ faults < MaxFaults /\ faults' = faults + 1
            /\ UNCHANGED <<stored, drifts>>
        BY <3>3 DEF PostAnswerLost, Fault
      <4>2. QED
        BY <1>1, <2>2, <4>1, NormalizeType, WriteType, DataplaneAssumption DEF GatewayTypeOK
    <3>4. CASE \E e \in Errors : PostDelayed(snap.data, e)
      <4>1. /\ late' = snap.data /\ held' = FALSE /\ faults < MaxFaults /\ faults' = faults + 1
            /\ UNCHANGED <<live, stored, drifts>>
        BY <3>4 DEF PostDelayed, Fault
      <4>2. faults' \in 0 .. MaxFaults
        BY <1>1, <4>1, DataplaneAssumption DEF GatewayTypeOK
      <4>3. QED
        BY <1>1, <2>2, <4>1, <4>2 DEF GatewayTypeOK
    <3>5. QED
      BY <2>6, <3>1, <3>2, <3>3, <3>4
  <2>8. HistoryTypeOK'
    BY <1>1, <1>16, <2>1, <2>2 DEF HistoryTypeOK, ApplyFails
  <2>9. QED
    BY <1>1, <2>1, <2>4, <2>5, <2>7, <2>8, CertUnchanged, MemoryUnchanged DEF CoreInv, TypeOK
<1>17. CASE ReadBack
  <2>1. /\ pc = "read back" /\ pc' = "record"
        /\ UNCHANGED <<key, todo, ensuring, report>>
        /\ UNCHANGED <<apiVars, snapVars, certVars, queued, memory, crashes, history>>
    BY <1>17 DEF ReadBack
  <2>2. \/ readBack' = liveHash /\ UNCHANGED gatewayVars
        \/ readBack' = ObservedHashPending /\ \E e \in Errors : ReadError(e)
    BY <1>17 DEF ReadBack
  <2>3. SecretTypeOK' /\ Coherent' /\ snap' = snap
    BY <1>1, <2>1, SecretUnchanged
  <2>4. readBack' \in Hashes \cup {Absent, ObservedHashPending}
    BY <1>1, <2>2 DEF GatewayTypeOK, liveHash, Hashes
  <2>5. ControlTypeOK'
    BY <1>1, <2>1, <2>4 DEF ControlTypeOK, Steps
  <2>6. Progress'
    BY <1>3, <2>1, <2>3 DEF Progress, ByteSteps
  <2>7. GatewayTypeOK'
    BY <1>1, <2>2, GatewayUnchanged, FaultPreserves
  <2>8. QED
    BY <1>1, <2>1, <2>3, <2>5, <2>6, <2>7, CertUnchanged, MemoryUnchanged, HistoryUnchanged
       DEF CoreInv, TypeOK
<1>18. CASE Record
  <2>1. PICK res \in PatchResults : patchAndForget(RecordedAnnotations(snap.ann), res)
    BY <1>18 DEF Record
  <2>2. pc = "record" /\ Finish /\ UNCHANGED <<gatewayVars, certVars, memory, crashes, refused, accepted>>
    BY <1>18 DEF Record
  <2>3. currentHash \in Hashes /\ readBack \in Hashes \cup {Absent, ObservedHashPending}
    BY <1>1, <1>3, <2>2 DEF ByteSteps, ControlTypeOK
  <2>4. RecordedAnnotations(snap.ann) \in Annotations
    BY <1>2, <2>3, AppliedStatusType DEF Annotations, RecordedAnnotations
  <2>5. SecretTypeOK' /\ Coherent'
    BY <1>1, <2>1, <2>4, PatchAndForgetPreserves
  <2>6. ControlTypeOK' /\ Progress' /\ HistoryTypeOK'
    BY <1>1, <2>2, FinishPreserves
  <2>7. QED
    BY <1>1, <2>2, <2>5, <2>6, MemoryUnchanged, GatewayUnchanged, CertUnchanged DEF CoreInv, TypeOK
<1>19. QED
  BY <1>5, <1>6, <1>8, <1>10, <1>11, <1>12, <1>13, <1>14, <1>15, <1>16, <1>17, <1>18
     DEF ApplySteps

-----------------------------------------------------------------------------
(* Certificates. *)

LEMMA PushTypes ==
  ASSUME CertTypeOK, NEW k \in CertNames, ~Unpushable(k)
  PROVE  offered[k] \in Bundles /\ BundleHash(k) \in BundleHashes
BY DEF CertTypeOK, Unpushable, BundleHash, BundleHashes

LEMMA StoreType ==
  ASSUME GatewayTypeOK, NEW k \in CertNames, NEW b \in Bundles, NEW synced,
         SyncSSLCertificate(k, b, synced)
  PROVE  stored' \in [CertNames -> Bundles \cup {NoBundle}]
BY DEF GatewayTypeOK, SyncSSLCertificate

LEMMA HeadOfTodo ==
  ASSUME ControlTypeOK, todo # <<>>
  PROVE  /\ todo[1] \in CertNames /\ Tail(todo) \in Seq(CertNames)
         /\ Len(todo) # 1 => Tail(todo) # <<>>
<1>1. todo \in Seq(CertNames) /\ todo # <<>>
  BY DEF ControlTypeOK
<1>2. todo[1] \in CertNames /\ Tail(todo) \in Seq(CertNames)
  BY <1>1
<1>3. Len(todo) \in Nat /\ Len(todo) # 0 /\ Len(Tail(todo)) = Len(todo) - 1
  BY <1>1
<1>4. Len(<<>>) = 0
  OBVIOUS
<1>5. Len(todo) # 1 => Len(Tail(todo)) # 0
  BY <1>3
<1>6. QED
  BY <1>2, <1>4, <1>5

LEMMA NextCertPreserves ==
  ASSUME ControlTypeOK, Progress, todo # <<>>, NextCert, UNCHANGED queued, snap'.data = snap.data
  PROVE  ControlTypeOK' /\ Progress'
<1>1. UNCHANGED <<key, ensuring, report, readBack>>
  BY DEF NextCert
<1>2. CASE ensuring
  <2>1. todo' = Tail(todo) /\ pc' = IF Len(todo) = 1 THEN "validate" ELSE "push"
    BY <1>2 DEF NextCert
  <2>2. ControlTypeOK'
    BY <1>1, <2>1, HeadOfTodo DEF ControlTypeOK, Steps
  <2>3. Progress'
    BY <1>1, <1>2, <2>1, HeadOfTodo DEF Progress, HasBytes
  <2>4. QED
    BY <2>2, <2>3
<1>3. CASE ~ensuring
  <2>1. todo' = <<>> /\ pc' = "clear cert status"
    BY <1>3 DEF NextCert
  <2>2. <<>> \in Seq(CertNames)
    OBVIOUS
  <2>3. ControlTypeOK'
    BY <1>1, <2>1, <2>2 DEF ControlTypeOK, Steps
  <2>4. Progress'
    BY <1>1, <1>3, <2>1 DEF Progress, HasBytes
  <2>5. QED
    BY <2>3, <2>4
<1>4. QED
  BY <1>2, <1>3

(* What a failed push leaves, with and without a config Secret. *)
LEMMA CertSyncFailedPreserves ==
  ASSUME CoreInv, NEW e \in Error, CertSyncFailed(e),
         UNCHANGED <<apiVars, certVars, lastDesiredHash, inSync, crashes, history>>,
         clientReady' \in BOOLEAN, GatewayTypeOK'
  PROVE  CoreInv'
<1>1. /\ SecretTypeOK /\ CertTypeOK /\ ControlTypeOK /\ MemoryTypeOK /\ HistoryTypeOK
      /\ Progress /\ Coherent
  BY DEF CoreInv, TypeOK
<1>2. lastDesiredHash' \in Hashes \cup {Absent} /\ inSync' \in {"unset", "yes", "no"}
      /\ crashes' = crashes
  BY <1>1 DEF MemoryTypeOK
<1>3. CASE snap.exists
  <2>1. FailWith(Failure("CertSync", e)) /\ UNCHANGED <<queued, transientFailures, snapVars>>
    BY <1>3 DEF CertSyncFailed
  <2>2. SecretTypeOK' /\ Coherent' /\ snap' = snap
    BY <1>1, <2>1, SecretUnchanged
  <2>3. queued' \subseteq Keys /\ "CertSync" \in Stages
    BY <1>1, <2>1 DEF ControlTypeOK, Stages
  <2>4. ControlTypeOK' /\ Progress'
    BY <1>1, <2>1, <2>2, <2>3, FailureType, FailWithPreserves
  <2>5. transientFailures' \in 0 .. FailureCap
    BY <1>1, <2>1 DEF MemoryTypeOK
  <2>6. MemoryTypeOK'
    BY <1>1, <1>2, <2>5, MemoryPreserves
  <2>7. QED
    BY <1>1, <2>2, <2>4, <2>6, CertUnchanged, HistoryUnchanged DEF CoreInv, TypeOK
<1>4. CASE ~snap.exists
  <2>1. Leave /\ Requeue /\ ForgetSecret /\ transientFailures' = OneMoreFailure
    BY <1>4 DEF CertSyncFailed
  <2>2. SecretTypeOK' /\ Coherent'
    BY <1>1, <2>1, ForgetPreserves
  <2>3. ControlTypeOK' /\ Progress'
    BY <1>1, <2>1, LeavePreserves, RequeueType
  <2>4. transientFailures' \in 0 .. FailureCap
    BY <1>1, <2>1 DEF MemoryTypeOK, OneMoreFailure, FailureCap
  <2>5. MemoryTypeOK'
    BY <1>1, <1>2, <2>4, MemoryPreserves
  <2>6. QED
    BY <1>1, <2>2, <2>3, <2>5, CertUnchanged, HistoryUnchanged DEF CoreInv, TypeOK
<1>5. QED
  BY <1>3, <1>4

LEMMA CertStepsPreserve == CoreInv /\ CertSteps => CoreInv'
<1> SUFFICES ASSUME CoreInv, CertSteps PROVE CoreInv'
  OBVIOUS
<1>1. /\ SecretTypeOK /\ GatewayTypeOK /\ CertTypeOK /\ ControlTypeOK
      /\ MemoryTypeOK /\ HistoryTypeOK /\ Progress /\ Coherent
  BY DEF CoreInv, TypeOK
<1>2. snap.ann \in Annotations /\ queued \subseteq Keys
  BY <1>1 DEF SecretTypeOK, SecretObject, ControlTypeOK
<1>3. pc \in {"push", "record cert"} => todo # <<>> /\ todo[1] \in CertNames
  BY <1>1, HeadOfTodo DEF Progress
<1>4. CASE PushSucceeds
  <2>1. /\ pc = "push" /\ Push(todo[1]) /\ clientReady' = TRUE
        /\ Goto("record cert") \/ NextCert
        /\ UNCHANGED <<apiVars, snapVars, queued, transientFailures, lastDesiredHash, inSync,
                       crashes, history>>
    BY <1>4 DEF PushSucceeds
  <2>2. todo # <<>> /\ todo[1] \in CertNames
    BY <1>3, <2>1
  <2>3. SecretTypeOK' /\ Coherent' /\ snap' = snap
    BY <1>1, <2>1, SecretUnchanged
  <2>4. ControlTypeOK' /\ Progress'
    <3>1. CASE NextCert
      BY <1>1, <2>1, <2>2, <2>3, <3>1, NextCertPreserves
    <3>2. CASE Goto("record cert")
      <4>1. pc' = "record cert" /\ UNCHANGED <<key, todo, ensuring, report, readBack, queued>>
        BY <2>1, <3>2 DEF Goto
      <4>2. ControlTypeOK'
        BY <1>1, <4>1 DEF ControlTypeOK, Steps
      <4>3. Progress'
        BY <1>1, <2>2, <2>3, <4>1 DEF Progress, HasBytes
      <4>4. QED
        BY <4>2, <4>3
    <3>3. QED
      BY <2>1, <3>1, <3>2
  <2>5. /\ ~Unpushable(todo[1])
        /\ SyncSSLCertificate(todo[1], offered[todo[1]], previouslySynced(todo[1]))
        /\ certSyncHashes' = [certSyncHashes EXCEPT ![todo[1]] = BundleHash(todo[1])]
        /\ UNCHANGED <<live, held, late, faults, drifts, offered, rotations>>
    BY <2>1 DEF Push
  <2>6. offered[todo[1]] \in Bundles /\ BundleHash(todo[1]) \in BundleHashes
    BY <1>1, <2>2, <2>5, PushTypes
  <2>7. GatewayTypeOK'
    <3>1. stored' \in [CertNames -> Bundles \cup {NoBundle}]
      BY <1>1, <2>2, <2>5, <2>6, StoreType
    <3>2. QED
      BY <1>1, <2>5, <3>1 DEF GatewayTypeOK
  <2>8. CertTypeOK'
    BY <1>1, <2>2, <2>5, <2>6 DEF CertTypeOK
  <2>9. MemoryTypeOK'
    BY <1>1, <2>1 DEF MemoryTypeOK
  <2>10. QED
    BY <1>1, <2>1, <2>3, <2>4, <2>7, <2>8, <2>9, HistoryUnchanged DEF CoreInv, TypeOK
<1>5. CASE PushFails
  <2>1. /\ pc = "push" /\ clientReady' = TRUE
        /\ UNCHANGED <<apiVars, certVars, lastDesiredHash, inSync, crashes, history>>
    BY <1>5 DEF PushFails
  <2>2. PICK e \in Errors \cup {VersionCheckError(x) : x \in Errors} \cup {OtherError} :
          /\ PushError(todo[1], e) \/ PushAnswerLost(todo[1], e)
          /\ CertSyncFailed(e)
    BY <1>5 DEF PushFails
  <2>3. e \in Error
    BY <2>2, ErrorTypes
  <2>4. todo[1] \in CertNames
    BY <1>3, <2>1
  <2>5. GatewayTypeOK'
    <3>1. CASE PushError(todo[1], e)
      BY <1>1, <3>1, GatewayUnchanged, FaultPreserves DEF PushError
    <3>2. CASE PushAnswerLost(todo[1], e)
      <4>1. /\ ~Unpushable(todo[1]) /\ faults < MaxFaults /\ faults' = faults + 1
            /\ SyncSSLCertificate(todo[1], offered[todo[1]], previouslySynced(todo[1]))
            /\ UNCHANGED <<live, held, late, drifts>>
        BY <3>2 DEF PushAnswerLost, Fault
      <4>2. offered[todo[1]] \in Bundles
        BY <1>1, <2>4, <4>1, PushTypes
      <4>3. stored' \in [CertNames -> Bundles \cup {NoBundle}]
        BY <1>1, <2>4, <4>1, <4>2, StoreType
      <4>4. faults' \in 0 .. MaxFaults
        BY <1>1, <4>1, DataplaneAssumption DEF GatewayTypeOK
      <4>5. QED
        BY <1>1, <4>1, <4>3, <4>4 DEF GatewayTypeOK
    <3>3. QED
      BY <2>2, <3>1, <3>2
  <2>6. QED
    BY <2>1, <2>2, <2>3, <2>5, CertSyncFailedPreserves
<1>6. CASE PushWithoutClient
  <2>1. PICK e \in Errors : ClientFails(e) /\ CertSyncFailed(e)
    BY <1>6 DEF PushWithoutClient
  <2>2. UNCHANGED <<apiVars, certVars, lastDesiredHash, clientReady, inSync, crashes, history>>
    BY <1>6 DEF PushWithoutClient
  <2>3. GatewayTypeOK' /\ clientReady' \in BOOLEAN
    BY <1>1, <2>1, <2>2, FaultPreserves DEF MemoryTypeOK
  <2>4. QED
    BY <2>1, <2>2, <2>3, ErrorTypes, CertSyncFailedPreserves
<1>7. CASE RecordCert
  <2> DEFINE new == WithCertRecord(snap.ann, todo[1], certSyncHashes[todo[1]])
  <2>1. PICK res \in PatchResults :
          /\ patchAnnotations(new, res)
          /\ NextCert \/ FailWith(Failure("CertSync", OtherError))
    BY <1>7 DEF RecordCert
  <2>2. pc = "record cert" /\ UNCHANGED <<gatewayVars, certVars, queued, memory, crashes, history>>
    BY <1>7 DEF RecordCert
  <2>3. todo # <<>> /\ todo[1] \in CertNames
    BY <1>3, <2>2
  <2>4. new \in Annotations
    <3>1. certSyncHashes[todo[1]] \in BundleHashes \cup {Absent}
      BY <1>1, <2>3 DEF CertTypeOK
    <3>2. QED
      BY <1>2, <2>3, <3>1 DEF WithCertRecord, Annotations
  <2>5. SecretTypeOK' /\ Coherent' /\ snap'.data = snap.data
    BY <1>1, <2>1, <2>4, PatchAnnotationsPreserves
  <2>6. ControlTypeOK' /\ Progress'
    <3>1. CASE NextCert
      BY <1>1, <2>2, <2>3, <2>5, <3>1, NextCertPreserves
    <3>2. CASE FailWith(Failure("CertSync", OtherError))
      <4>1. "CertSync" \in Stages
        BY DEF Stages
      <4>2. Failure("CertSync", OtherError) \in Reports
            /\ Failure("CertSync", OtherError).kind = "transient"
        BY <4>1, ErrorTypes, FailureType
      <4>3. QED
        BY <1>1, <1>2, <2>2, <2>5, <3>2, <4>2, FailWithPreserves
    <3>3. QED
      BY <2>1, <3>1, <3>2
  <2>7. QED
    BY <1>1, <2>2, <2>5, <2>6, GatewayUnchanged, CertUnchanged, MemoryUnchanged,
       HistoryUnchanged DEF CoreInv, TypeOK
<1>8. CASE NoConfigSecret
  <2>1. /\ Finish /\ ForgetSecret
        /\ UNCHANGED <<apiVars, gatewayVars, certVars, memory, crashes, refused, accepted>>
    BY <1>8 DEF NoConfigSecret
  <2>2. SecretTypeOK' /\ Coherent'
    BY <1>1, <2>1, ForgetPreserves
  <2>3. ControlTypeOK' /\ Progress' /\ HistoryTypeOK'
    BY <1>1, <2>1, FinishPreserves
  <2>4. QED
    BY <1>1, <2>1, <2>2, <2>3, GatewayUnchanged, CertUnchanged, MemoryUnchanged DEF CoreInv, TypeOK
<1>9. CASE ClearCertStatus
  <2> DEFINE new == [snap.ann EXCEPT !.status = Applied]
  <2>1. /\ pc = "clear cert status" /\ Goto("decide")
        /\ UNCHANGED <<gatewayVars, certVars, queued, memory, crashes, history>>
    BY <1>9 DEF ClearCertStatus
  <2>2. \/ \E res \in PatchResults :
             /\ PatchServer(new, res)
             /\ snap' = WithoutFailed(SnapAfter(new, res))
             /\ snapCurrent' = (snapCurrent /\ res # "lost")
        \/ snap' = WithoutFailed(snap) /\ UNCHANGED <<apiVars, snapCurrent>>
    BY <1>9 DEF ClearCertStatus
  <2>3. \A o \in SecretObject :
          WithoutFailed(o) \in SecretObject /\ WithoutFailed(o).data = o.data
    <3>1. ASSUME NEW o \in SecretObject
          PROVE  WithoutFailed(o) \in SecretObject /\ WithoutFailed(o).data = o.data
      BY DEF WithoutFailed, SecretObject, Annotations
    <3>2. QED
      BY <3>1
  <2>4. SecretTypeOK' /\ Coherent' /\ snap'.data = snap.data
    <3>1. CASE snap' = WithoutFailed(snap) /\ UNCHANGED <<apiVars, snapCurrent>>
      BY <1>1, <2>3, <3>1 DEF SecretTypeOK, Coherent, apiVars
    <3>2. ASSUME NEW res \in PatchResults, PatchServer(new, res),
                 snap' = WithoutFailed(SnapAfter(new, res)),
                 snapCurrent' = (snapCurrent /\ res # "lost")
          PROVE  SecretTypeOK' /\ Coherent' /\ snap'.data = snap.data
      <4>1. new \in Annotations
        BY <1>2, AppliedStatusType DEF Annotations
      <4>2. [snap EXCEPT !.ann = new] \in SecretObject /\ [snap EXCEPT !.ann = new].data = snap.data
        BY <1>1, <4>1 DEF SecretTypeOK, SecretObject
      <4>3. /\ secret' \in SecretObject
            /\ secret'.exists = secret.exists /\ secret'.data = secret.data
            /\ res = "ok" => snapCurrent
        BY <1>1, <3>2, <4>1, PatchServerPreserves
      <4>4. SnapAfter(new, res) \in SecretObject /\ SnapAfter(new, res).data = snap.data
        BY <1>1, <4>2, <4>3 DEF SnapAfter, Coherent
      <4>5. snap' \in SecretObject /\ snap'.data = snap.data
        BY <2>3, <3>2, <4>4
      <4>6. QED
        BY <1>1, <3>2, <4>1, <4>5, PatchServerPreserves DEF SecretTypeOK, Coherent
    <3>3. QED
      BY <2>2, <3>1, <3>2
  <2>5. ControlTypeOK' /\ Progress'
    BY <1>1, <1>2, <2>1, <2>4, GotoPreserves
  <2>6. QED
    BY <1>1, <2>1, <2>4, <2>5, GatewayUnchanged, CertUnchanged, MemoryUnchanged,
       HistoryUnchanged DEF CoreInv, TypeOK
<1>10. QED
  BY <1>4, <1>5, <1>6, <1>7, <1>8, <1>9 DEF CertSteps

-----------------------------------------------------------------------------
(* Recording a failure. *)

LEMMA LongerType ==
  ASSUME SecretTypeOK, ControlTypeOK, HistoryTypeOK
  PROVE  Longer \in StreakType
<1>1. snap.data \in Configs \cup {NoKey}
  BY DEF SecretTypeOK, SecretObject
<1>2. report.status[1] \in Stages
  BY DEF ControlTypeOK, Reports, Status
<1>3. streak.length \in 0 .. FailureCap
  BY DEF HistoryTypeOK
<1>4. 1 \in 0 .. FailureCap /\ FailureCap \in 0 .. FailureCap
  BY DEF FailureCap
<1>5. streak.length < FailureCap => streak.length + 1 \in 0 .. FailureCap
  BY <1>3 DEF FailureCap
<1>6. QED
  BY <1>1, <1>2, <1>4, <1>5 DEF Longer, StreakType

LEMMA FailWithStatusPreserves == CoreInv /\ FailWithStatus => CoreInv'
<1> SUFFICES ASSUME CoreInv, FailWithStatus PROVE CoreInv'
  OBVIOUS
<1>1. /\ SecretTypeOK /\ GatewayTypeOK /\ CertTypeOK /\ ControlTypeOK
      /\ MemoryTypeOK /\ HistoryTypeOK /\ Progress /\ Coherent
  BY DEF CoreInv, TypeOK
<1>2. /\ pc = "fail" /\ Leave /\ Requeue
      /\ UNCHANGED <<gatewayVars, certVars, lastDesiredHash, clientReady, inSync, crashes,
                     refused, accepted>>
  BY DEF FailWithStatus
<1>3. PICK res \in PatchResults :
        /\ patchAndForget(FailureAnnotations(snap.ann), res)
        /\ \/ transientFailures' = OneMoreFailure
           \/ transientFailures' = transientFailures
        /\ streak' \in {streak, Longer, NoStreak}
  BY DEF FailWithStatus
<1>4. FailureAnnotations(snap.ann) \in Annotations
  <2>1. report.kind = "rejected" => currentHash \in Hashes
    BY <1>1, <1>2, ContentsAssumption, ConfigsAssumption DEF Progress, HasBytes, currentHash, Hashes
  <2>2. report.status \in Status
    BY <1>1 DEF ControlTypeOK, Reports
  <2>3. snap.ann \in Annotations
    BY <1>1 DEF SecretTypeOK, SecretObject
  <2>4. QED
    BY <2>1, <2>2, <2>3 DEF FailureAnnotations, Annotations
<1>5. SecretTypeOK' /\ Coherent'
  BY <1>1, <1>3, <1>4, PatchAndForgetPreserves
<1>6. ControlTypeOK' /\ Progress'
  BY <1>1, <1>2, LeavePreserves, RequeueType
<1>7. MemoryTypeOK'
  <2>1. transientFailures' \in 0 .. FailureCap
    BY <1>1, <1>3 DEF MemoryTypeOK, OneMoreFailure, FailureCap
  <2>2. QED
    BY <1>1, <1>2, <2>1 DEF MemoryTypeOK
<1>8. HistoryTypeOK'
  <2>1. streak' \in StreakType
    BY <1>1, <1>3, LongerType, NoStreakType DEF HistoryTypeOK, StreakType
  <2>2. QED
    BY <1>1, <1>2, <2>1 DEF HistoryTypeOK, StreakType
<1>9. QED
  BY <1>1, <1>2, <1>5, <1>6, <1>7, <1>8, GatewayUnchanged, CertUnchanged DEF CoreInv, TypeOK

-----------------------------------------------------------------------------
(* Taking a request. *)

LEMMA StartPreserves == ASSUME CoreInv, NEW k \in Keys, Start(k) PROVE CoreInv'
<1>1. /\ SecretTypeOK /\ GatewayTypeOK /\ CertTypeOK /\ ControlTypeOK
      /\ MemoryTypeOK /\ HistoryTypeOK /\ Progress /\ Coherent
  BY DEF CoreInv, TypeOK
<1>2. queued \ {k} \subseteq Keys
  BY <1>1 DEF ControlTypeOK
<1>3. CASE k = SecretName /\ StartConfig
  <2>1. /\ GetSecret /\ Goto("decide") /\ queued' \subseteq Keys /\ pc = "idle"
        /\ UNCHANGED <<apiVars, gatewayVars, certVars, memory, crashes, history>>
    BY <1>2, <1>3 DEF StartConfig, Take
  <2>2. SecretTypeOK' /\ Coherent'
    BY <1>1, <2>1, GetPreserves
  <2>3. ControlTypeOK' /\ ~HasBytes' /\ pc' = "decide"
    <3>1. pc' = "decide" /\ UNCHANGED <<key, todo, ensuring, report, readBack>> /\ ~ensuring
      BY <1>1, <2>1 DEF Goto, Progress
    <3>2. ControlTypeOK'
      BY <1>1, <2>1, <3>1 DEF ControlTypeOK, Steps
    <3>3. ~HasBytes'
      BY <3>1 DEF HasBytes
    <3>4. QED
      BY <3>1, <3>2, <3>3
  <2>4. QED
    BY <1>1, <2>1, <2>2, <2>3, GatewayUnchanged, CertUnchanged, MemoryUnchanged, HistoryUnchanged
       DEF CoreInv, TypeOK, Progress
<1>4. CASE k \in CertNames /\ StartCert(k)
  <2>1. /\ GetSecret /\ queued' \subseteq Keys
        /\ pc' = "push" /\ key' = k /\ todo' = <<k>>
        /\ UNCHANGED <<ensuring, report, readBack>>
        /\ UNCHANGED <<apiVars, gatewayVars, certVars, memory, crashes, history>>
    BY <1>2, <1>4 DEF StartCert, Take
  <2>2. SecretTypeOK' /\ Coherent'
    BY <1>1, <2>1, GetPreserves
  <2>3. <<k>> \in Seq(CertNames) /\ <<k>> # <<>>
    BY <1>4
  <2>4. ControlTypeOK'
    BY <1>1, <2>1, <2>3 DEF ControlTypeOK, Steps
  <2>5. Progress'
    BY <1>1, <1>4, <2>1, <2>3 DEF HasBytes, Progress, StartCert, Take
  <2>6. QED
    BY <1>1, <2>1, <2>2, <2>4, <2>5, GatewayUnchanged, CertUnchanged, MemoryUnchanged,
       HistoryUnchanged DEF CoreInv, TypeOK
<1>5. CASE StartMissing(k)
  <2>1. /\ queued' \subseteq Keys
        /\ UNCHANGED <<apiVars, snapVars, gatewayVars, certVars, control, memory, crashes, history>>
    BY <1>2, <1>5 DEF StartMissing, Take
  <2>2. SecretTypeOK' /\ Coherent' /\ snap' = snap
    BY <1>1, <2>1, SecretUnchanged
  <2>3. ControlTypeOK' /\ Progress'
    BY <1>1, <2>1, <2>2 DEF control, ControlTypeOK, Progress, HasBytes
  <2>4. QED
    BY <1>1, <2>1, <2>2, <2>3, GatewayUnchanged, CertUnchanged, MemoryUnchanged, HistoryUnchanged
       DEF CoreInv, TypeOK
<1>6. QED
  BY <1>3, <1>4, <1>5 DEF Start

-----------------------------------------------------------------------------
(* The other actors. *)

LEMMA ControlUnchanged ==
  ASSUME ControlTypeOK, Progress, UNCHANGED control, queued' \subseteq Keys, snap' = snap
  PROVE  ControlTypeOK' /\ Progress'
BY DEF control, ControlTypeOK, Progress, HasBytes

LEMMA PresentType == Present \subseteq Keys
BY DEF Present, Keys

LEMMA EditPreserves ==
  ASSUME SecretTypeOK, Coherent, NEW o \in SecretObject, secret' = o, edits < MaxEdits,
         edits' = edits + 1, event' \in BOOLEAN, cacheCurrent' = FALSE, snapCurrent' = FALSE,
         UNCHANGED <<cache, snap, apiFaults>>
  PROVE  SecretTypeOK' /\ Coherent'
<1>1. edits' \in 0 .. MaxEdits
  BY EditBoundsAssumption DEF SecretTypeOK
<1>2. QED
  BY <1>1 DEF SecretTypeOK, Coherent

LEMMA EnvironmentPreserves == CoreInv /\ Environment => CoreInv'
<1> SUFFICES ASSUME CoreInv, Environment PROVE CoreInv'
  OBVIOUS
<1>1. /\ SecretTypeOK /\ GatewayTypeOK /\ CertTypeOK /\ ControlTypeOK
      /\ MemoryTypeOK /\ HistoryTypeOK /\ Progress /\ Coherent
  BY DEF CoreInv, TypeOK
<1>2. queued \subseteq Keys
  BY <1>1 DEF ControlTypeOK
<1>3. CASE FluxWrites
  <2>1. UNCHANGED <<gatewayVars, certVars, queued, control, memory, crashes, history>>
    BY <1>3 DEF FluxWrites, others
  <2>2. SecretTypeOK' /\ Coherent' /\ snap' = snap
    <3>1. ASSUME NEW c \in Configs \cup {NoKey}, FluxApply(c)
          PROVE  SecretTypeOK' /\ Coherent' /\ snap' = snap
      <4>1. [secret EXCEPT !.exists = TRUE, !.data = c] \in SecretObject
        BY <1>1 DEF SecretTypeOK, SecretObject
      <4>2. QED
        BY <1>1, <3>1, <4>1, EditPreserves DEF FluxApply
    <3>2. CASE FluxDelete
      BY <1>1, <3>2, NoAnnotationsType, EditPreserves DEF FluxDelete
    <3>3. QED
      BY <1>3, <3>1, <3>2 DEF FluxWrites
  <2>3. ControlTypeOK' /\ Progress'
    BY <1>1, <1>2, <2>1, <2>2, ControlUnchanged
  <2>4. QED
    BY <1>1, <2>1, <2>2, <2>3, GatewayUnchanged, CertUnchanged, MemoryUnchanged, HistoryUnchanged
       DEF CoreInv, TypeOK
<1>4. CASE InformerSync
  <2>1. /\ cache' = secret /\ cacheCurrent' = TRUE /\ event' = FALSE
        /\ queued' \in {queued, queued \cup {SecretName}}
        /\ UNCHANGED <<secret, edits, apiFaults, snapVars, gatewayVars, certVars>>
        /\ UNCHANGED <<control, memory, crashes, history>>
    BY <1>4 DEF InformerSync, others
  <2>2. SecretTypeOK' /\ Coherent' /\ snap' = snap
    BY <1>1, <2>1 DEF SecretTypeOK, Coherent, snapVars
  <2>3. queued' \subseteq Keys
    BY <1>2, <2>1 DEF Keys
  <2>4. ControlTypeOK' /\ Progress'
    BY <1>1, <2>1, <2>2, <2>3, ControlUnchanged
  <2>5. QED
    BY <1>1, <2>1, <2>2, <2>4, GatewayUnchanged, CertUnchanged, MemoryUnchanged, HistoryUnchanged
       DEF CoreInv, TypeOK
<1>5. CASE CertRotated
  <2>1. PICK k \in CertNames, b \in Bundles : RotateCert(k, b) /\ queued' = queued \cup {k}
    BY <1>5 DEF CertRotated
  <2>2. UNCHANGED <<apiVars, snapVars, gatewayVars, control, memory, crashes, history>>
    BY <1>5 DEF CertRotated, others
  <2>3. SecretTypeOK' /\ Coherent' /\ snap' = snap
    BY <1>1, <2>2, SecretUnchanged
  <2>4. queued' \subseteq Keys
    BY <1>2, <2>1 DEF Keys
  <2>5. ControlTypeOK' /\ Progress'
    BY <1>1, <2>2, <2>3, <2>4, ControlUnchanged
  <2>6. CertTypeOK'
    <3>1. rotations' \in 0 .. MaxRotations
      BY <1>1, <2>1, CertSyncAssumption DEF CertTypeOK, RotateCert
    <3>2. QED
      BY <1>1, <2>1, <3>1 DEF CertTypeOK, RotateCert
  <2>7. QED
    BY <1>1, <2>2, <2>3, <2>5, <2>6, GatewayUnchanged, MemoryUnchanged, HistoryUnchanged
       DEF CoreInv, TypeOK
<1>6. CASE GatewayMoves
  <2>1. UNCHANGED <<apiVars, snapVars, certVars, queued, control, memory, crashes, history>>
    BY <1>6 DEF GatewayMoves, others
  <2>2. SecretTypeOK' /\ Coherent' /\ snap' = snap
    BY <1>1, <2>1, SecretUnchanged
  <2>3. ControlTypeOK' /\ Progress'
    BY <1>1, <1>2, <2>1, <2>2, ControlUnchanged
  <2>4. GatewayTypeOK'
    <3>1. ASSUME drifts < MaxDrifts, drifts' = drifts + 1 PROVE drifts' \in 0 .. MaxDrifts
      BY <1>1, <3>1, DataplaneAssumption DEF GatewayTypeOK
    <3>2. ASSUME NEW b \in Foreign, OutOfBandWrite(b) PROVE GatewayTypeOK'
      <4>1. b \in Bytes
        BY DataplaneAssumption
      <4>2. QED
        BY <1>1, <3>1, <3>2, <4>1, WriteType DEF GatewayTypeOK, OutOfBandWrite
    <3>3. ASSUME NEW k \in CertNames, LoseStoredCert(k) PROVE GatewayTypeOK'
      BY <1>1, <3>1, <3>3 DEF GatewayTypeOK, LoseStoredCert
    <3>4. QED
      BY <1>6, <3>2, <3>3 DEF GatewayMoves
  <2>5. QED
    BY <1>1, <2>1, <2>2, <2>3, <2>4, CertUnchanged, MemoryUnchanged, HistoryUnchanged
       DEF CoreInv, TypeOK
<1>7. CASE LatePost
  <2>1. /\ LatePostLands /\ accepted' = accepted \cup {late}
        /\ UNCHANGED <<apiVars, snapVars, certVars, queued, control, memory, crashes, refused, streak>>
    BY <1>7 DEF LatePost
  <2>2. SecretTypeOK' /\ Coherent' /\ snap' = snap
    BY <1>1, <2>1, SecretUnchanged
  <2>3. ControlTypeOK' /\ Progress'
    BY <1>1, <1>2, <2>1, <2>2, ControlUnchanged
  <2>4. late \in Configs
    BY <1>1, <2>1 DEF GatewayTypeOK, LatePostLands
  <2>5. GatewayTypeOK'
    BY <1>1, <2>1, <2>4, NormalizeType, WriteType DEF GatewayTypeOK, LatePostLands
  <2>6. HistoryTypeOK'
    BY <1>1, <2>1, <2>4 DEF HistoryTypeOK
  <2>7. QED
    BY <1>1, <2>1, <2>2, <2>3, <2>5, <2>6, CertUnchanged, MemoryUnchanged DEF CoreInv, TypeOK
<1>8. CASE Crash
  <2>1. /\ crashes < MaxCrashes /\ crashes' = crashes + 1
        /\ held' = FALSE /\ Leave /\ ForgetSecret
        /\ cache' = secret /\ cacheCurrent' = TRUE /\ event' = FALSE
        /\ queued' = Present
        /\ transientFailures' = 0 /\ lastDesiredHash' = Absent /\ clientReady' = FALSE
        /\ inSync' = "unset"
        /\ certSyncHashes' = [k \in CertNames |-> Absent]
        /\ streak' = NoStreak
        /\ UNCHANGED <<secret, edits, apiFaults, live, stored, faults, drifts, offered, rotations,
                       refused, accepted>>
    BY <1>8 DEF Crash
  <2>2. SecretTypeOK' /\ Coherent'
    BY <1>1, <2>1, NoAnnotationsType DEF SecretTypeOK, Coherent, ForgetSecret
  <2>3. ControlTypeOK' /\ Progress'
    BY <1>1, <2>1, PresentType, LeavePreserves
  <2>4. late' \in Configs \cup {NoConfig}
    <3>1. late' \in {late, snap.data} /\ (late' # late => pc = "post")
      BY <1>8 DEF Crash
    <3>2. pc = "post" => snap.data \in Configs
      BY <1>1 DEF Progress, HasBytes
    <3>3. QED
      BY <1>1, <3>1, <3>2 DEF GatewayTypeOK
  <2>5. GatewayTypeOK'
    BY <1>1, <2>1, <2>4 DEF GatewayTypeOK
  <2>6. CertTypeOK'
    BY <1>1, <2>1 DEF CertTypeOK
  <2>7. MemoryTypeOK'
    <3>1. crashes' \in 0 .. MaxCrashes
      BY <1>1, <2>1, ReconcilerAssumption DEF MemoryTypeOK
    <3>2. QED
      BY <2>1, <3>1, ZeroFailures DEF MemoryTypeOK
  <2>8. HistoryTypeOK'
    BY <1>1, <2>1, NoStreakType DEF HistoryTypeOK, StreakType
  <2>9. QED
    BY <2>2, <2>3, <2>5, <2>6, <2>7, <2>8 DEF CoreInv, TypeOK
<1>9. QED
  BY <1>3, <1>4, <1>5, <1>6, <1>7, <1>8 DEF Environment

-----------------------------------------------------------------------------
(* The invariant holds initially and at every step. *)

LEMMA InitCore == Init => CoreInv
<1> SUFFICES ASSUME Init PROVE CoreInv
  OBVIOUS
<1>1. SecretTypeOK
  <2>1. secret \in SecretObject
    <3>1. ASSUME NEW c \in Configs PROVE [Gone EXCEPT !.exists = TRUE, !.data = c] \in SecretObject
      BY NoAnnotationsType DEF SecretObject
    <3>2. QED
      BY <3>1, NoAnnotationsType DEF Init
  <2>2. /\ cache = secret /\ snap = Gone
        /\ cacheCurrent \in BOOLEAN /\ event \in BOOLEAN /\ snapCurrent \in BOOLEAN
        /\ edits = 0 /\ apiFaults = 0
    BY DEF Init
  <2>3. 0 \in 0 .. MaxEdits /\ 0 \in 0 .. MaxApiFaults
    BY EditBoundsAssumption
  <2>4. QED
    BY <2>1, <2>2, <2>3, NoAnnotationsType DEF SecretTypeOK
<1>2. GatewayTypeOK
  <2>1. /\ live \in Foreign /\ held = FALSE /\ late = NoConfig
        /\ stored = [k \in CertNames |-> NoBundle]
        /\ faults = 0 /\ drifts = 0
    BY DEF Init
  <2>2. 0 \in 0 .. MaxFaults /\ 0 \in 0 .. MaxDrifts /\ Foreign \subseteq Bytes
    BY DataplaneAssumption
  <2>3. QED
    BY <2>1, <2>2 DEF GatewayTypeOK
<1>3. CertTypeOK
  <2>1. /\ offered \in [CertNames -> (Bundles \ Malformed) \cup {NoBundle}]
        /\ certSyncHashes = [k \in CertNames |-> Absent] /\ rotations = 0
    BY DEF Init
  <2>2. 0 \in 0 .. MaxRotations
    BY CertSyncAssumption
  <2>3. offered \in [CertNames -> Bundles \cup {NoBundle}]
    BY <2>1
  <2>4. QED
    BY <2>1, <2>2, <2>3 DEF CertTypeOK
<1>4. ControlTypeOK
  <2>1. <<>> \in Seq(CertNames)
    OBVIOUS
  <2>2. QED
    BY <2>1, OtherReports, PresentType DEF Init, ControlTypeOK, Steps, Keys
<1>5. MemoryTypeOK
  <2>1. /\ transientFailures = 0 /\ lastDesiredHash = Absent
        /\ clientReady = FALSE /\ inSync = "unset" /\ crashes = 0
    BY DEF Init
  <2>2. 0 \in 0 .. MaxCrashes
    BY ReconcilerAssumption
  <2>3. QED
    BY <2>1, <2>2, ZeroFailures DEF MemoryTypeOK
<1>6. HistoryTypeOK
  BY NoStreakType DEF Init, HistoryTypeOK, StreakType
<1>7. Progress /\ Coherent
  BY DEF Init, Progress, HasBytes, Coherent
<1>8. QED
  BY <1>1, <1>2, <1>3, <1>4, <1>5, <1>6, <1>7 DEF CoreInv, TypeOK

LEMMA StutterPreserves == CoreInv /\ UNCHANGED vars => CoreInv'
<1> SUFFICES ASSUME CoreInv, UNCHANGED vars PROVE CoreInv'
  OBVIOUS
<1>1. /\ SecretTypeOK /\ GatewayTypeOK /\ CertTypeOK /\ ControlTypeOK
      /\ MemoryTypeOK /\ HistoryTypeOK /\ Progress /\ Coherent
  BY DEF CoreInv, TypeOK
<1>2. UNCHANGED <<apiVars, snapVars, gatewayVars, certVars, control, queued, memory, crashes, history>>
  BY DEF vars
<1>3. SecretTypeOK' /\ Coherent' /\ snap' = snap
  BY <1>1, <1>2, SecretUnchanged
<1>4. ControlTypeOK' /\ Progress'
  BY <1>1, <1>2, <1>3, ControlUnchanged DEF ControlTypeOK
<1>5. QED
  BY <1>1, <1>2, <1>3, <1>4, GatewayUnchanged, CertUnchanged, MemoryUnchanged, HistoryUnchanged
     DEF CoreInv, TypeOK

LEMMA NextCore == CoreInv /\ [Next]_vars => CoreInv'
<1> SUFFICES ASSUME CoreInv, [Next]_vars PROVE CoreInv'
  OBVIOUS
<1>1. CASE \E k \in Keys : Start(k)
  BY <1>1, StartPreserves
<1>2. CASE Continue
  BY <1>2, CertStepsPreserve, DecisionPreserves, DriftPreserves, ApplyPreserves,
     FailWithStatusPreserves DEF Continue
<1>3. CASE Environment
  BY <1>3, EnvironmentPreserves
<1>4. CASE UNCHANGED vars
  BY <1>4, StutterPreserves
<1>5. QED
  BY <1>1, <1>2, <1>3, <1>4 DEF Next

(* A reconcile always works on bytes the Secret once held, and a copy that *)
(* claims to be current is (Get through the cache, patchAnnotations).      *)
THEOREM CoreInvariant == Spec => []CoreInv
<1>1. QED
  BY InitCore, NextCore, PTL DEF Spec

(* Every variable of the controller, the Secret, the gateway and the       *)
(* certificates keeps its type through every handler and every failure.    *)
THEOREM TypeCorrect == Spec => []TypeOK
<1>1. CoreInv => TypeOK
  BY DEF CoreInv
<1>2. QED
  BY <1>1, CoreInvariant, PTL
=============================================================================
