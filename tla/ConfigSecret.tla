----------------------------- MODULE ConfigSecret -----------------------------
(***************************************************************************)
(* The Secret that holds haproxy.cfg, seen from the three places that keep *)
(* a copy of it: the API server (secret), the operator's informer (cache)  *)
(* and the reconcile in progress (snap, the object Get filled in).         *)
(*                                                                         *)
(* resourceVersion is abstracted to the one question the code asks of it:  *)
(* is a copy still the version the API server holds?  cacheCurrent and     *)
(* snapCurrent answer it; every write on the server makes the copies that  *)
(* do not see it stale.                                                    *)
(***************************************************************************)
EXTENDS Dataplane

CONSTANTS
  NoKey,             (* the Secret has no entry under SecretKey             *)
  SecretName,        (* --secret-name                                       *)
  MaxEdits,          (* bound: writes of other actors to the Secret         *)
  MaxApiFaults       (* bound: API-server requests that fail                *)

ASSUME ConfigsAssumption == NoKey \notin Bytes
ASSUME NamesAssumption ==
  CertsSecretNames \in Seq(STRING) /\ SecretName \in STRING /\ SecretName \notin CertNames
ASSUME EditBoundsAssumption == MaxEdits \in Nat /\ MaxApiFaults \in Nat

VARIABLES
  secret,        (* the Secret on the API server                            *)
  cache,         (* the informer's copy                                     *)
  cacheCurrent,  (* the informer has seen every write                       *)
  event,         (* a write the event filter lets through is undelivered    *)
  snap,          (* the reconcile's copy, mutated in place by its patches   *)
  snapCurrent,   (* snap carries the resourceVersion of secret              *)
  edits, apiFaults

apiVars  == <<secret, cache, cacheCurrent, event, edits, apiFaults>>
snapVars == <<snap, snapCurrent>>

-----------------------------------------------------------------------------
(* Annotations.  A missing annotation reads as the empty string in Go; no  *)
(* hash and no status is empty.                                            *)

ObservedHashPending == <<"pending">>

(* A status is the stage the code prefixes it with, and its value.         *)
Stages == {"", "CertSync", "DriftCheck", "Apply"}
Status == Stages \X (ErrorClasses \cup {"", "Applied", "Error"})
NoStatus == <<"", "">>
Applied  == <<"", "Applied">>

(* Variant: the whole status is compared. *)
HasPrefix_Whole(status, stage) == status = <<stage, "">>

HasPrefix(status, stage) == status[1] = stage

Annotations ==
  [applied  : Hashes \cup {Absent},                         (* last-applied-hash  *)
   observed : Hashes \cup {Absent, ObservedHashPending},    (* last-observed-hash *)
   failed   : Hashes \cup {Absent},                         (* last-failed-hash   *)
   status   : Status,
   certs    : [CertNames -> BundleHashes \cup {Absent}]]    (* cert-sync JSON map *)

NoAnnotations ==
  [applied |-> Absent, observed |-> Absent, failed |-> Absent, status |-> NoStatus,
   certs |-> [k \in CertNames |-> Absent]]

SecretObject == [exists : BOOLEAN, data : Configs \cup {NoKey}, ann : Annotations]
Gone == [exists |-> FALSE, data |-> NoKey, ann |-> NoAnnotations]

-----------------------------------------------------------------------------
(* patchAnnotations: a JSON merge patch computed against the reconcile's   *)
(* own copy, so an annotation that copy does not see change is not sent.   *)

Pick(server, orig, new) == IF new # orig THEN new ELSE server

Merge(server, orig, new) ==
  [applied  |-> Pick(server.applied,  orig.applied,  new.applied),
   observed |-> Pick(server.observed, orig.observed, new.observed),
   failed   |-> Pick(server.failed,   orig.failed,   new.failed),
   status   |-> Pick(server.status,   orig.status,   new.status),
   certs    |-> Pick(server.certs,    orig.certs,    new.certs)]

PatchResults == {"ok", "conflict", "error", "lost"}

(* Variant: MergeFrom without the optimistic lock. *)
PatchServer_NoLock(new, res) ==
  /\ res = "ok" /\ secret.exists
  /\ secret' = [secret EXCEPT !.ann = Merge(secret.ann, snap.ann, new)]
  /\ cacheCurrent' = FALSE
  /\ UNCHANGED <<cache, event, edits, apiFaults>>

(* The patch on the API server.  It carries the resourceVersion of snap:   *)
(* a stale one is refused.  "error" is a request without effect (or a      *)
(* deleted Secret), "lost" one that took effect but whose answer was lost. *)
PatchServer(new, res) ==
  /\ UNCHANGED <<cache, event, edits>>
  /\ \/ /\ res \in {"ok", "lost"}
        /\ secret.exists /\ snapCurrent
        /\ res = "lost" => apiFaults < MaxApiFaults
        /\ apiFaults' = IF res = "lost" THEN apiFaults + 1 ELSE apiFaults
        /\ secret' = [secret EXCEPT !.ann = Merge(secret.ann, snap.ann, new)]
        /\ cacheCurrent' = FALSE
     \/ /\ res = "conflict"
        /\ secret.exists /\ ~snapCurrent
        /\ UNCHANGED <<secret, cacheCurrent, apiFaults>>
     \/ /\ res = "error"
        /\ \/ ~secret.exists /\ UNCHANGED apiFaults
           \/ secret.exists /\ apiFaults < MaxApiFaults /\ apiFaults' = apiFaults + 1
        /\ UNCHANGED <<secret, cacheCurrent>>

(* The reconcile's copy after the call: the server's answer on success;    *)
(* otherwise the mutation stays in it with the resourceVersion it had,     *)
(* which a lost success has made stale.                                    *)
SnapAfter(new, res) == IF res = "ok" THEN secret' ELSE [snap EXCEPT !.ann = new]

patchAnnotations(new, res) ==
  /\ PatchServer(new, res)
  /\ snap' = SnapAfter(new, res)
  /\ snapCurrent' = (snapCurrent /\ res # "lost")

(* The last patch of a reconcile: its copy is of no use afterwards. *)
patchAndForget(new, res) ==
  /\ PatchServer(new, res)
  /\ snap' = Gone /\ snapCurrent' = FALSE

(* Get through the informer's cache. *)
GetSecret    == snap' = cache /\ snapCurrent' = (cacheCurrent /\ cache.exists)
ForgetSecret == snap' = Gone  /\ snapCurrent' = FALSE

-----------------------------------------------------------------------------
(* Other actors.  Flux creates the Secret, replaces its data or touches    *)
(* labels and annotations of its own (c = secret.data); it never writes    *)
(* the operator's annotations.                                             *)

FluxApply(c) ==
  /\ edits < MaxEdits
  /\ secret' = [secret EXCEPT !.exists = TRUE, !.data = c]
  /\ event' = TRUE
  /\ cacheCurrent' = FALSE /\ snapCurrent' = FALSE
  /\ edits' = edits + 1
  /\ UNCHANGED <<cache, snap, apiFaults>>

(* The event filter drops deletions: a pending event dies with the object. *)
FluxDelete ==
  /\ edits < MaxEdits /\ secret.exists
  /\ secret' = Gone
  /\ event' = FALSE
  /\ cacheCurrent' = FALSE /\ snapCurrent' = FALSE
  /\ edits' = edits + 1
  /\ UNCHANGED <<cache, snap, apiFaults>>
=============================================================================
