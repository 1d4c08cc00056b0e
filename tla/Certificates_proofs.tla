--------------------------- MODULE Certificates_proofs ---------------------------
(***************************************************************************)
(* Proofs about certificate sync: no configuration is validated before     *)
(* every certificate is in storage, and a push reported as done leaves the *)
(* offered bundle there as long as no renewal brings back a bundle that a  *)
(* record still names - for any list of certificates, any bundles and any  *)
(* report of the storage about them.                                       *)
(***************************************************************************)
EXTENDS Promise_proofs

-----------------------------------------------------------------------------
(* Pushing. *)

LEMMA PushStores ==
  ASSUME CertTypeOK, GatewayTypeOK, NEW k \in CertNames, ~Unpushable(k),
         SyncSSLCertificate(k, offered[k], previouslySynced(k))
  PROVE  /\ stored'[k] \in {stored[k], offered[k]} /\ stored'[k] # NoBundle
         /\ \A j \in CertNames \ {k} : stored'[j] = stored[j]
         /\ stored'[k] = offered[k] \/ (previouslySynced(k) /\ stored'[k] = stored[k])
BY DEF SyncSSLCertificate, RemoteMatches, Unpushable, GatewayTypeOK

(* Only a push writes the storage or what the process remembers of it. *)
Pushes == PushSucceeds \/ PushFails

LEMMA OnlyPushesStore ==
  ASSUME Continue
  PROVE  UNCHANGED <<drifts, rotations>> /\ (Pushes \/ UNCHANGED <<stored, offered, certSyncHashes>>)
<1>1. CASE CertSteps
  BY <1>1 DEF Pushes, CertSteps, PushSucceeds, PushFails, PushWithoutClient, RecordCert, NoConfigSecret,
       ClearCertStatus, Push, PushError, PushAnswerLost, VersionError, ReadError, ClientFails, Fault, certVars, gatewayVars
<1>2. CASE DecisionSteps
  BY <1>2 DEF DecisionSteps, KeyMissing, Unchanged, Suppressed, DesiredChanged, certVars, gatewayVars
<1>3. CASE DriftSteps
  BY <1>3 DEF DriftSteps, LiveReadWithoutClient, LiveReadFails, LiveReadBaseline, LiveReadInSync,
       LiveReadDriftReported, LiveReadDriftRemediated, LiveRead, AdoptBaseline, ClearDriftStatus,
       ClientFails, ReadError, certVars, gatewayVars
<1>4. CASE PrepareFails \/ Prepare \/ ValidateRejects \/ ValidatePasses \/ ValidateFails
  BY <1>4 DEF PrepareFails, Prepare, ValidateRejects, ValidatePasses, ValidateFails,
       ClientFails, ValidateError, VersionError, RequestError, certVars, gatewayVars
<1>5. CASE ApplyReadsVersion \/ ApplyVersionFails \/ ApplySucceeds \/ ApplyRejected \/ ApplyFails
  BY <1>5 DEF ApplyReadsVersion, ApplyVersionFails, ApplySucceeds, ApplyRejected, ApplyFails,
       ReadVersion, VersionError, RequestError, PostAccepted, PostRefused, PostConflicts,
       PostAnswerLost, PostDelayed, certVars, gatewayVars
<1>6. CASE ReadBack \/ Record \/ FailWithStatus
  BY <1>6 DEF ReadBack, Record, FailWithStatus, ReadError, certVars, gatewayVars
<1>7. QED
  BY <1>1, <1>2, <1>3, <1>4, <1>5, <1>6 DEF Continue, ApplySteps

LEMMA FirstCert ==
  ASSUME CoreInv, pc \in {"push", "record cert"}
  PROVE  todo # <<>> /\ todo[1] \in CertNames
BY HeadOfTodo DEF CoreInv, TypeOK, Progress

LEMMA PushFailsStores ==
  ASSUME CoreInv, PushFails
  PROVE  /\ UNCHANGED <<offered, certSyncHashes>>
         /\ \A j \in CertNames : stored'[j] # stored[j] =>
              j = todo[1] /\ stored'[j] = offered[j] /\ offered[j] # NoBundle
<1>1. UNCHANGED <<offered, certSyncHashes>>
  BY DEF PushFails, certVars
<1>2. PICK e : PushError(todo[1], e) \/ PushAnswerLost(todo[1], e)
  BY DEF PushFails
<1>3. CASE PushError(todo[1], e)
  <2>1. stored' = stored
    BY <1>3 DEF PushError, VersionError, ReadError, gatewayVars
  <2>2. QED
    BY <1>1, <2>1
<1>4. CASE PushAnswerLost(todo[1], e)
  <2>1. todo[1] \in CertNames
    BY FirstCert DEF PushFails
  <2>2. QED
    BY <1>1, <1>4, <2>1, PushStores DEF CoreInv, TypeOK, PushAnswerLost, Unpushable
<1>5. QED
  BY <1>2, <1>3, <1>4

(* The storage is emptied by others only, and they are counted. *)
LEMMA StoredKept ==
  ASSUME CoreInv, [Next]_vars, drifts' = 0, NEW k \in CertNames, stored[k] # NoBundle
  PROVE  stored'[k] # NoBundle
<1>1. CertTypeOK /\ GatewayTypeOK /\ drifts \in Nat
  BY DataplaneAssumption DEF CoreInv, TypeOK, GatewayTypeOK
<1>2. CASE Continue
  <2>1. drifts' = drifts
    BY <1>2, OnlyPushesStore
  <2>2. CASE PushSucceeds
    <3>1. todo[1] \in CertNames
      BY <2>2, FirstCert DEF PushSucceeds
    <3>2. QED
      BY <1>1, <2>1, <2>2, <3>1, PushStores DEF PushSucceeds, Push
  <2>3. CASE PushFails
    BY <2>1, <2>3, PushFailsStores
  <2>4. QED
    BY <1>2, <2>1, <2>2, <2>3, OnlyPushesStore DEF Pushes
<1>3. CASE GatewayMoves
  <2>1. drifts' = drifts + 1
    BY <1>3 DEF GatewayMoves, OutOfBandWrite, LoseStoredCert
  <2>2. QED
    BY <1>1, <2>1
<1>4. CASE (\E j \in Keys : Start(j)) \/ UNCHANGED vars
  BY <1>4 DEF Start, StartConfig, StartCert, StartMissing, vars, gatewayVars
<1>5. CASE Environment /\ ~GatewayMoves
  BY <1>5 DEF Environment, FluxWrites, InformerSync, CertRotated, LatePost, LatePostLands, Crash, gatewayVars
<1>6. QED
  BY <1>2, <1>3, <1>4, <1>5 DEF Next

-----------------------------------------------------------------------------
(* Certificates first.  While they are being ensured, one that is not yet  *)
(* in storage is still to be pushed.                                       *)

ToPush(k, first) == \E i \in first .. Len(todo) : todo[i] = k

(* A certificate that is not in storage is still ahead of the worker. *)
Waits(k) ==
  /\ pc \notin {"validate", "read version", "post"}
  /\ ensuring /\ pc = "push" => ToPush(k, 1)
  /\ ensuring /\ pc = "record cert" => ToPush(k, 2)

Ensured == drifts = 0 => \A k \in CertNames : stored[k] # NoBundle \/ Waits(k)

LEMMA TailToPush ==
  ASSUME ControlTypeOK, todo # <<>>, todo' = Tail(todo), NEW k, ToPush(k, 2)
  PROVE  ToPush(k, 1)'
<1>1. todo \in Seq(CertNames) /\ Len(todo) \in Nat
  BY DEF ControlTypeOK
<1>2. PICK i \in 2 .. Len(todo) : todo[i] = k
  BY DEF ToPush
<1>3. Len(Tail(todo)) = Len(todo) - 1 /\ Tail(todo)[i - 1] = todo[i]
  BY <1>1, <1>2
<1>4. i - 1 \in 1 .. Len(todo')
  BY <1>1, <1>2, <1>3
<1>5. QED
  BY <1>2, <1>3, <1>4 DEF ToPush

LEMMA SplitToPush ==
  ASSUME ControlTypeOK, NEW k, ToPush(k, 1), k # todo[1]
  PROVE  ToPush(k, 2)
<1>1. Len(todo) \in Nat
  BY DEF ControlTypeOK
<1>2. QED
  BY <1>1 DEF ToPush

(* On from a certificate that is in storage. *)
LEMMA NextCertEnsures ==
  ASSUME ControlTypeOK, todo # <<>>, NextCert, NEW k,
         stored'[k] = NoBundle, ensuring => ToPush(k, 2)
  PROVE  /\ pc' \notin {"validate", "read version", "post", "record cert"}
         /\ ensuring' /\ pc' = "push" => ToPush(k, 1)'
<1>1. CASE ensuring
  <2>1. todo' = Tail(todo) /\ Len(todo) # 1
    BY <1>1 DEF NextCert, ToPush
  <2>2. pc' = "push"
    BY <1>1, <2>1 DEF NextCert
  <2>3. QED
    BY <1>1, <2>1, <2>2, TailToPush
<1>2. CASE ~ensuring
  BY <1>2 DEF NextCert
<1>3. QED
  BY <1>1, <1>2

LEMMA DriftsCounted == CoreInv /\ [Next]_vars /\ drifts' = 0 => drifts = 0
<1> SUFFICES ASSUME CoreInv, [Next]_vars, drifts' = 0 PROVE drifts = 0
  OBVIOUS
<1>1. CASE Continue
  BY <1>1, OnlyPushesStore
<1>2. CASE GatewayMoves
  <2>1. drifts' = drifts + 1 /\ drifts \in Nat
    BY <1>2, DataplaneAssumption
       DEF GatewayMoves, OutOfBandWrite, LoseStoredCert, CoreInv, TypeOK, GatewayTypeOK
  <2>2. QED
    BY <2>1
<1>3. CASE (\E j \in Keys : Start(j)) \/ UNCHANGED vars
  BY <1>3 DEF Start, StartConfig, StartCert, StartMissing, vars, gatewayVars
<1>4. CASE Environment /\ ~GatewayMoves
  BY <1>4 DEF Environment, FluxWrites, InformerSync, CertRotated, LatePost, LatePostLands, Crash, gatewayVars
<1>5. QED
  BY <1>1, <1>2, <1>3, <1>4 DEF Next

LEMMA CertStepsWait ==
  ASSUME CoreInv, NEW k \in CertNames, Waits(k), stored'[k] = NoBundle, CertSteps
  PROVE  Waits(k)'
<1>1. ControlTypeOK /\ CertTypeOK /\ GatewayTypeOK
  BY DEF CoreInv, TypeOK
<1>2. CASE PushSucceeds
  <2>1. todo # <<>> /\ todo[1] \in CertNames
    BY <1>2, FirstCert DEF PushSucceeds
  <2>2. k # todo[1]
    BY <1>1, <1>2, <2>1, PushStores DEF PushSucceeds, Push
  <2>3. ensuring => ToPush(k, 2)
    BY <1>1, <1>2, <2>2, SplitToPush DEF Waits, PushSucceeds
  <2>4. CASE Goto("record cert")
    BY <2>3, <2>4 DEF Goto, Waits, ToPush
  <2>5. CASE NextCert
    BY <1>1, <2>1, <2>3, <2>5, NextCertEnsures DEF Waits
  <2>6. QED
    BY <1>2, <2>4, <2>5 DEF PushSucceeds
<1>3. CASE RecordCert
  <2>1. todo # <<>> /\ (ensuring => ToPush(k, 2))
    BY <1>3, FirstCert DEF RecordCert, Waits
  <2>2. CASE NextCert
    BY <1>1, <2>1, <2>2, NextCertEnsures DEF Waits
  <2>3. CASE pc' = "fail"
    BY <2>3 DEF Waits
  <2>4. QED
    BY <1>3, <2>2, <2>3 DEF RecordCert, FailWith
<1>4. CASE PushFails \/ PushWithoutClient \/ NoConfigSecret \/ ClearCertStatus
  <2>1. pc' \in {"fail", "idle", "decide"}
    BY <1>4 DEF PushFails, PushWithoutClient, NoConfigSecret, ClearCertStatus, CertSyncFailed,
         FailWith, Goto, Finish, Leave
  <2>2. QED
    BY <2>1 DEF Waits
<1>5. QED
  BY <1>2, <1>3, <1>4 DEF CertSteps

LEMMA ContinueWaits ==
  ASSUME CoreInv, NEW k \in CertNames, Waits(k), stored'[k] = NoBundle, Continue
  PROVE  Waits(k)'
<1>1. CASE CertSteps
  BY <1>1, CertStepsWait
<1>2. CASE Prepare
  <2>1. CertsSecretNames # <<>>
    BY NoCertsNoNames
  <2>2. pc' = "push" /\ todo' = CertsSecretNames
    BY <1>2, <2>1 DEF Prepare
  <2>3. QED
    BY <2>2 DEF Waits, ToPush, CertNames
<1>3. CASE DecisionSteps
  BY <1>3 DEF DecisionSteps, KeyMissing, Unchanged, Suppressed, DesiredChanged, FailWith, Goto,
       Finish, Leave, Waits
<1>4. CASE DriftSteps
  BY <1>4 DEF DriftSteps, LiveReadWithoutClient, LiveReadFails, LiveReadBaseline, LiveReadInSync,
       LiveReadDriftReported, LiveReadDriftRemediated, AdoptBaseline, ClearDriftStatus,
       FailWith, Goto, Finish, Leave, Waits
<1>5. CASE ApplySteps /\ ~Prepare
  BY <1>5 DEF ApplySteps, PrepareFails, ValidateRejects, ValidateFails, ValidatePasses,
       ApplyReadsVersion, ApplyVersionFails, ApplySucceeds, ApplyRejected, ApplyFails, ReadBack,
       Record, Reject, FailWith, Goto, Finish, Leave, Waits
<1>6. CASE FailWithStatus
  BY <1>6 DEF FailWithStatus, Leave, Waits
<1>7. QED
  BY <1>1, <1>2, <1>3, <1>4, <1>5, <1>6 DEF Continue

LEMMA NextEnsures == CoreInv /\ Ensured /\ [Next]_vars => Ensured'
<1> SUFFICES ASSUME CoreInv, Ensured, [Next]_vars, drifts' = 0,
                    NEW k \in CertNames, stored'[k] = NoBundle
             PROVE  Waits(k)'
  BY DEF Ensured
<1>1. Waits(k)
  BY StoredKept, DriftsCounted DEF Ensured
<1>2. CASE Continue
  BY <1>1, <1>2, ContinueWaits
<1>3. CASE UNCHANGED <<pc, ensuring, todo>>
  BY <1>1, <1>3 DEF Waits, ToPush
<1>4. CASE Crash
  BY <1>4 DEF Crash, Leave, Waits
<1>5. CASE \E j \in Keys : Start(j)
  <2>1. pc = "idle" /\ ~ensuring
    BY <1>5 DEF Start, StartConfig, StartCert, StartMissing, Take, CoreInv, Progress
  <2>2. pc' \in {"decide", "push", "idle"} /\ ensuring' = ensuring
    BY <1>5, <2>1 DEF Start, StartConfig, StartCert, StartMissing, Goto, control
  <2>3. QED
    BY <2>1, <2>2 DEF Waits
<1>6. CASE (Environment /\ ~Crash) \/ UNCHANGED vars
  BY <1>3, <1>6 DEF Environment, FluxWrites, InformerSync, CertRotated, GatewayMoves, LatePost,
       vars, others, control
<1>7. QED
  BY <1>2, <1>4, <1>5, <1>6 DEF Next

(* ensureCertSecretsSynced stands before Validate: no configuration is     *)
(* validated, let alone applied, while a certificate it may name is        *)
(* missing, unless one was removed behind the operator's back.             *)
THEOREM CertificatesFirst == Spec => []CertsBeforeValidate
<1>1. Init => Ensured
  BY DEF Init, Ensured, Waits
<1>2. CoreInv /\ Ensured /\ [Next]_vars => Ensured'
  BY NextEnsures
<1>3. Ensured => CertsBeforeValidate
  BY DEF Ensured, Waits, CertsBeforeValidate
<1>4. QED
  BY <1>1, <1>2, <1>3, CoreInvariant, PTL DEF Spec

-----------------------------------------------------------------------------
(* The records of a push: the annotation, in its three copies, and the     *)
(* process's own memory.                                                   *)

Records(k) == {secret.ann.certs[k], cache.ann.certs[k], snap.ann.certs[k], certSyncHashes[k]}

(* A record of the offered bundle is true, or the storage was emptied.     *)
RecordsTrue ==
  \A k \in CertNames : BundleHash(k) \in Records(k) => stored[k] \in {offered[k], NoBundle}

(* A patch sends the whole map of records, or none of it. *)
LEMMA PatchRecordsCerts ==
  ASSUME SecretTypeOK, NEW new, NEW res, PatchServer(new, res), NEW k
  PROVE  /\ secret'.ann.certs[k] \in {secret.ann.certs[k], new.certs[k]}
         /\ snap' = SnapAfter(new, res) =>
              snap'.ann.certs[k] \in {secret.ann.certs[k], new.certs[k]}
         /\ cache' = cache
<1>1. secret'.ann.certs[k] \in {secret.ann.certs[k], new.certs[k]} /\ cache' = cache
  BY DEF PatchServer, SecretTypeOK, SecretObject, Merge, Pick
<1>2. [snap EXCEPT !.ann = new].ann = new
  BY DEF SecretTypeOK, SecretObject
<1>3. QED
  BY <1>1, <1>2 DEF SnapAfter

LEMMA ContinueCopiesRecords ==
  ASSUME CoreInv, Continue, NEW k \in CertNames
  PROVE  \A o \in {secret', cache', snap'} : o.ann.certs[k] \in Records(k) \cup {Absent}
<1>1. SecretTypeOK /\ snap \in SecretObject /\ snap.ann \in Annotations
  BY DEF CoreInv, TypeOK, SecretTypeOK, SecretObject
<1>2. Gone.ann.certs[k] = Absent
  BY DEF Gone, NoAnnotations
<1>3. CASE UNCHANGED <<apiVars, snapVars>>
  BY <1>3 DEF apiVars, snapVars, Records
<1>4. CASE ForgetSecret /\ UNCHANGED apiVars
  BY <1>2, <1>4 DEF apiVars, ForgetSecret, Records
<1>5. CASE RecordCert
  <2> DEFINE new == WithCertRecord(snap.ann, todo[1], certSyncHashes[todo[1]])
  <2>1. PICK res \in PatchResults : PatchServer(new, res) /\ snap' = SnapAfter(new, res)
    BY <1>5 DEF RecordCert, patchAnnotations
  <2>2. new.certs[k] \in {snap.ann.certs[k], certSyncHashes[k]}
    BY <1>1 DEF WithCertRecord, Annotations
  <2>3. QED
    BY <1>1, <2>1, <2>2, PatchRecordsCerts DEF Records
<1>6. ASSUME NEW new, NEW res, PatchServer(new, res), snap' = Gone, new.certs = snap.ann.certs
      PROVE  \A o \in {secret', cache', snap'} : o.ann.certs[k] \in Records(k) \cup {Absent}
  BY <1>1, <1>2, <1>6, PatchRecordsCerts DEF Records
<1>7. CASE ClearCertStatus
  <2> DEFINE new == [snap.ann EXCEPT !.status = Applied]
  <2>1. new \in Annotations /\ new.certs = snap.ann.certs
    BY <1>1, AppliedStatusType DEF Annotations
  <2>2. ASSUME NEW o \in SecretObject PROVE WithoutFailed(o).ann.certs = o.ann.certs
    BY DEF WithoutFailed, SecretObject, Annotations
  <2>3. CASE snap' = WithoutFailed(snap) /\ UNCHANGED apiVars
    BY <1>1, <2>2, <2>3 DEF apiVars, Records
  <2>4. ASSUME NEW res \in PatchResults, PatchServer(new, res),
               snap' = WithoutFailed(SnapAfter(new, res))
        PROVE  \A o \in {secret', cache', snap'} : o.ann.certs[k] \in Records(k) \cup {Absent}
    <3>1. SnapAfter(new, res) \in SecretObject
      BY <1>1, <2>1, <2>4, PatchServerPreserves DEF CoreInv, SnapAfter, SecretTypeOK, SecretObject
    <3>2. snap'.ann.certs = SnapAfter(new, res).ann.certs
      BY <2>2, <2>4, <3>1
    <3>3. SnapAfter(new, res).ann.certs[k] \in {secret'.ann.certs[k], new.certs[k]}
      BY <1>1 DEF SnapAfter, SecretObject
    <3> HIDE DEF new
    <3>4. secret'.ann.certs[k] \in {secret.ann.certs[k], new.certs[k]} /\ cache' = cache
      BY <1>1, <2>4, PatchRecordsCerts
    <3>5. snap'.ann.certs[k] \in Records(k)
      BY <2>1, <3>2, <3>3, <3>4 DEF Records
    <3>6. QED
      BY <2>1, <3>4, <3>5 DEF Records
  <2>5. QED
    BY <1>7, <2>3, <2>4 DEF ClearCertStatus
<1>8. CASE AdoptBaseline \/ ClearDriftStatus \/ Record \/ FailWithStatus
  <2>1. PICK new, res : /\ PatchServer(new, res) /\ snap' = Gone
                        /\ new \in {[snap.ann EXCEPT !.observed = readBack, !.status = Applied],
                                    [snap.ann EXCEPT !.status = Applied],
                                    RecordedAnnotations(snap.ann), FailureAnnotations(snap.ann)}
    BY <1>8 DEF AdoptBaseline, ClearDriftStatus, Record, FailWithStatus, patchAndForget
  <2>2. new.certs = snap.ann.certs
    BY <1>1, <2>1 DEF RecordedAnnotations, FailureAnnotations, Annotations
  <2>3. QED
    BY <1>6, <2>1, <2>2
<1>9. CASE CertSteps
  BY <1>3, <1>4, <1>5, <1>7, <1>9
     DEF CertSteps, PushSucceeds, PushFails, PushWithoutClient, CertSyncFailed, NoConfigSecret
<1>10. CASE DecisionSteps
  BY <1>3, <1>4, <1>10 DEF DecisionSteps, KeyMissing, Unchanged, Suppressed, DesiredChanged
<1>11. CASE DriftSteps
  BY <1>3, <1>4, <1>8, <1>11
     DEF DriftSteps, LiveReadWithoutClient, LiveReadFails, LiveRead, LiveReadBaseline,
         LiveReadInSync, LiveReadDriftReported, LiveReadDriftRemediated
<1>12. CASE ApplySteps
  BY <1>3, <1>8, <1>12
     DEF ApplySteps, PrepareFails, Prepare, ValidateRejects, ValidateFails, ValidatePasses,
         ApplyReadsVersion, ApplyVersionFails, ApplySucceeds, ApplyRejected, ApplyFails, ReadBack
<1>13. QED
  BY <1>8, <1>9, <1>10, <1>11, <1>12 DEF Continue

(* No step invents a record; only a push reported as done makes one.       *)
LEMMA RecordsGrow ==
  ASSUME CoreInv, [Next]_vars, NEW k \in CertNames, NEW h \in Records(k)'
  PROVE  \/ h \in Records(k) \cup {Absent}
         \/ PushSucceeds /\ k = todo[1] /\ h = BundleHash(k)
<1>1. SecretTypeOK /\ CertTypeOK
  BY DEF CoreInv, TypeOK
<1>2. CASE Continue
  <2>1. certSyncHashes'[k] = certSyncHashes[k]
        \/ (PushSucceeds /\ k = todo[1] /\ certSyncHashes'[k] = BundleHash(k))
    <3>1. CASE PushSucceeds
      BY <1>1, <3>1 DEF PushSucceeds, Push, CertTypeOK
    <3>2. CASE PushFails
      BY <3>2 DEF PushFails, certVars
    <3>3. QED
      BY <1>2, <3>1, <3>2, OnlyPushesStore DEF Pushes
  <2>2. \A o \in {secret', cache', snap'} : o.ann.certs[k] \in Records(k) \cup {Absent}
    BY <1>2, ContinueCopiesRecords
  <2>3. certSyncHashes[k] \in Records(k)
    BY DEF Records
  <2>4. QED
    BY <2>1, <2>2, <2>3 DEF Records
<1>3. Gone.ann.certs[k] = Absent
  BY DEF Gone, NoAnnotations
<1>4. CASE /\ secret'.ann = secret.ann \/ secret' = Gone
           /\ cache' \in {cache, secret} /\ snap' \in {snap, cache, Gone}
           /\ certSyncHashes'[k] \in {certSyncHashes[k], Absent}
  <2>1. secret'.ann.certs[k] \in Records(k) \cup {Absent}
    BY <1>3, <1>4 DEF Records
  <2>2. cache'.ann.certs[k] \in Records(k) /\ snap'.ann.certs[k] \in Records(k) \cup {Absent}
    BY <1>3, <1>4 DEF Records
  <2>3. certSyncHashes'[k] \in Records(k) \cup {Absent}
    BY <1>4 DEF Records
  <2>4. QED
    BY <2>1, <2>2, <2>3 DEF Records
<1>5. CASE FluxWrites
  <2>1. secret'.ann = secret.ann \/ secret' = Gone
    BY <1>1, <1>5 DEF FluxWrites, FluxApply, FluxDelete, SecretTypeOK, SecretObject
  <2>2. UNCHANGED <<cache, snap, certSyncHashes>>
    BY <1>5 DEF FluxWrites, FluxApply, FluxDelete, certVars
  <2>3. QED
    BY <1>4, <2>1, <2>2
<1>6. CASE Environment /\ ~FluxWrites
  <2>1. secret' = secret /\ cache' \in {cache, secret} /\ snap' \in {snap, Gone}
    BY <1>6 DEF Environment, InformerSync, CertRotated, GatewayMoves, LatePost, Crash,
         ForgetSecret, apiVars, snapVars
  <2>2. certSyncHashes'[k] \in {certSyncHashes[k], Absent}
    BY <1>6 DEF Environment, InformerSync, CertRotated, RotateCert, GatewayMoves, LatePost, Crash, certVars
  <2>3. QED
    BY <1>4, <2>1, <2>2
<1>7. CASE (\E j \in Keys : Start(j)) \/ UNCHANGED vars
  BY <1>4, <1>7 DEF Start, StartConfig, StartCert, StartMissing, GetSecret, vars, apiVars, snapVars, certVars
<1>8. QED
  BY <1>2, <1>5, <1>6, <1>7 DEF Next

(* A renewal to a bundle that no record names. *)
RenewalStep ==
  \A k \in CertNames : offered'[k] # offered[k] => HashBytes(offered'[k]) \notin Records(k)
RenewalsAreNew == [][RenewalStep]_vars

(* What the steps do to a bundle in storage while the offered one stays. *)
LEMMA StorageSteps ==
  ASSUME CoreInv, RecordsTrue, [Next]_vars, NEW k \in CertNames, offered'[k] = offered[k],
         BundleHash(k) \in Records(k) \/ (PushSucceeds /\ k = todo[1])
  PROVE  stored'[k] \in {offered[k], NoBundle}
<1>1. CertTypeOK /\ GatewayTypeOK
  BY DEF CoreInv, TypeOK
<1>2. CASE PushSucceeds
  <2>1. todo[1] \in CertNames
    BY <1>2, FirstCert DEF PushSucceeds
  <2>2. previouslySynced(k) => BundleHash(k) \in Records(k)
    BY DEF previouslySynced, Records
  <2>3. QED
    BY <1>1, <1>2, <2>1, <2>2, PushStores DEF PushSucceeds, Push, RecordsTrue
<1>3. CASE ~PushSucceeds /\ stored'[k] \in {stored[k], offered[k], NoBundle}
  BY <1>3 DEF RecordsTrue
<1>4. CASE Continue /\ ~PushSucceeds
  BY <1>3, <1>4, OnlyPushesStore, PushFailsStores DEF Pushes
<1>5. CASE GatewayMoves /\ ~PushSucceeds
  BY <1>1, <1>3, <1>5 DEF GatewayMoves, OutOfBandWrite, LoseStoredCert, GatewayTypeOK
<1>6. CASE Environment /\ ~GatewayMoves /\ ~PushSucceeds
  BY <1>3, <1>6 DEF Environment, FluxWrites, InformerSync, CertRotated, LatePost, LatePostLands,
       Crash, gatewayVars
<1>7. CASE ((\E j \in Keys : Start(j)) \/ UNCHANGED vars) /\ ~PushSucceeds
  BY <1>3, <1>7 DEF Start, StartConfig, StartCert, StartMissing, vars, gatewayVars
<1>8. QED
  BY <1>2, <1>4, <1>5, <1>6, <1>7 DEF Next

LEMMA NextRecords == CoreInv /\ RecordsTrue /\ [Next]_vars /\ [RenewalStep]_vars => RecordsTrue'
<1> SUFFICES ASSUME CoreInv, RecordsTrue, [Next]_vars, [RenewalStep]_vars,
                    NEW k \in CertNames, HashBytes(offered'[k]) \in Records(k)'
             PROVE  stored'[k] \in {offered'[k], NoBundle}
  BY DEF RecordsTrue, BundleHash
<1>1. \/ HashBytes(offered'[k]) \in Records(k)
      \/ PushSucceeds /\ k = todo[1] /\ HashBytes(offered'[k]) = BundleHash(k)
  BY RecordsGrow, HashInjective
<1>2. offered'[k] = offered[k]
  <2>1. CASE UNCHANGED vars
    BY <2>1 DEF vars, certVars
  <2>2. CASE PushSucceeds
    BY <2>2 DEF PushSucceeds, Push
  <2>3. CASE ~PushSucceeds /\ RenewalStep
    BY <1>1, <2>3 DEF RenewalStep
  <2>4. QED
    BY <2>1, <2>2, <2>3
<1>3. QED
  BY <1>1, <1>2, StorageSteps DEF BundleHash

LEMMA RecordedPushIsTrue == CoreInv /\ RecordsTrue /\ [Next]_vars => PushStep
<1> SUFFICES ASSUME CoreInv, RecordsTrue, [Next]_vars, pc = "push", pc' \notin {"fail", "idle"},
                    <<pc, todo>>' # <<pc, todo>>
             PROVE  stored'[todo[1]] = offered[todo[1]]
  BY DEF PushStep
<1>1. PushSucceeds
  <2>1. ~Environment /\ ~UNCHANGED vars /\ ~(\E k \in Keys : Start(k))
    BY DEF Environment, FluxWrites, InformerSync, CertRotated, GatewayMoves, LatePost, Crash,
           Leave, others, control, vars, Start, StartConfig, StartCert, StartMissing, Take
  <2>2. ~DecisionSteps /\ ~FailWithStatus
    BY DEF DecisionSteps, KeyMissing, Unchanged, Suppressed, DesiredChanged, FailWithStatus
  <2>3. ~DriftSteps
    BY DEF DriftSteps, LiveReadWithoutClient, LiveReadFails, LiveRead, LiveReadBaseline,
           LiveReadInSync, LiveReadDriftReported, LiveReadDriftRemediated, AdoptBaseline, ClearDriftStatus
  <2>4. ~ApplySteps
    BY DEF ApplySteps, PrepareFails, Prepare, ValidateRejects, ValidateFails, ValidatePasses,
           ApplyReadsVersion, ApplyVersionFails, ApplySucceeds, ApplyRejected, ApplyFails, ReadBack, Record
  <2>5. CertSteps
    BY <2>1, <2>2, <2>3, <2>4 DEF Next, Continue
  <2>6. QED
    BY <2>5 DEF CertSteps, PushFails, PushWithoutClient, RecordCert, NoConfigSecret, ClearCertStatus,
                CertSyncFailed, FailWith, Leave
<1>2. todo[1] \in CertNames /\ CertTypeOK /\ GatewayTypeOK
  BY FirstCert DEF CoreInv, TypeOK
<1>3. stored'[todo[1]] # NoBundle /\ offered' = offered
  BY <1>1, <1>2, PushStores DEF PushSucceeds, Push
<1>4. stored'[todo[1]] \in {offered[todo[1]], NoBundle}
  BY <1>1, <1>2, <1>3, StorageSteps
<1>5. QED
  BY <1>3, <1>4

LEMMA InitRecords ==
  ASSUME Init, NEW k \in CertNames
  PROVE  Records(k) = {Absent}
<1>1. secret.ann = NoAnnotations
  <2>1. ASSUME NEW c \in Configs PROVE [Gone EXCEPT !.exists = TRUE, !.data = c].ann = NoAnnotations
    BY DEF Gone
  <2>2. CASE secret = Gone
    BY <2>2 DEF Gone
  <2>3. ASSUME NEW c \in Configs, secret = [Gone EXCEPT !.exists = TRUE, !.data = c]
        PROVE  secret.ann = NoAnnotations
    BY ONLY <2>1, <2>3
  <2>4. QED
    BY <2>2, <2>3 DEF Init
<1>2. cache = secret /\ snap.ann = NoAnnotations /\ certSyncHashes[k] = Absent
  BY DEF Init, Gone
<1>3. QED
  BY <1>1, <1>2 DEF Records, NoAnnotations

(* SyncSSLCertificate skips the write when the storage reports the serial  *)
(* and size of the offered bundle and a record names it.  The report alone *)
(* cannot tell two bundles apart (the SameSizeSwap run); the record can,   *)
(* as long as it is no older than the last renewal to that bundle:         *)
(* whatever is lost, restarted or answered late, a push reported as done   *)
(* then leaves the offered bundle in storage.                              *)
THEOREM RecordedPushLeavesBundle == Spec /\ RenewalsAreNew => SyncLeavesBundle
<1>1. Init => RecordsTrue
  BY InitRecords, HashInjective DEF RecordsTrue, BundleHash
<1>2. CoreInv /\ RecordsTrue /\ [Next]_vars /\ [RenewalStep]_vars => RecordsTrue'
  BY NextRecords
<1>3. CoreInv /\ RecordsTrue /\ [Next]_vars => PushStep
  BY RecordedPushIsTrue
<1>4. QED
  BY <1>1, <1>2, <1>3, CoreInvariant, PTL DEF Spec, RenewalsAreNew, SyncLeavesBundle
=============================================================================
