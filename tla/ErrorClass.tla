------------------------------ MODULE ErrorClass ------------------------------
(***************************************************************************)
(* What an error of the Dataplane client is worth to the reconciler        *)
(* (internal/haproxy/errors.go): a verdict on the configuration, which     *)
(* suppresses it, or a transient failure, which is retried.                *)
(*                                                                         *)
(* An error is abstracted to what Classify looks at: where it was raised   *)
(* (decided locally, a non-2xx answer, the TLS stack, the network,         *)
(* anything else), the HTTP status when there was an answer, and whether   *)
(* the configuration-version GET raised it.                                *)
(***************************************************************************)
EXTENDS Integers

ClassConfigRejected == "ConfigRejected"
ClassAuth           == "AuthError"
ClassTLS            == "TLSConnectionError"
ClassConnection     == "ConnectionError"
ClassConflict       == "ConflictError"
ClassRateLimited    == "RateLimited"
ClassServer         == "DataplaneServerError"
ClassUnknown        == "UnknownError"

ErrorClasses ==
  {ClassConfigRejected, ClassAuth, ClassTLS, ClassConnection,
   ClassConflict, ClassRateLimited, ClassServer, ClassUnknown}

(* "api" carries the status of an APIError; the other kinds carry 0. *)
Error == [kind : {"local", "api", "tls", "net", "other"}, status : Nat, version : BOOLEAN]

APIError(code)     == [kind |-> "api",   status |-> code, version |-> FALSE]
ErrLocalRejection  == [kind |-> "local", status |-> 0,    version |-> FALSE]
NetError           == [kind |-> "net",   status |-> 0,    version |-> FALSE]
OtherError         == [kind |-> "other", status |-> 0,    version |-> FALSE]
VersionCheckError(e) == [e EXCEPT !.version = TRUE]

-----------------------------------------------------------------------------
classifyHTTPStatus(code) ==
  CASE code \in {400, 422}   -> ClassConfigRejected
    [] code \in {401, 403}   -> ClassAuth
    [] code = 409            -> ClassConflict
    [] code = 429            -> ClassRateLimited
    [] code \in 500 .. 599   -> ClassServer
    [] OTHER                 -> ClassUnknown

(* Classify below its version-check clause. *)
ClassifyInner(e) ==
  CASE e.kind = "local" -> ClassConfigRejected
    [] e.kind = "api"   -> classifyHTTPStatus(e.status)
    [] e.kind = "tls"   -> ClassTLS
    [] e.kind = "net"   -> ClassConnection
    [] OTHER            -> ClassUnknown

(* Variant: the wrapper of the version GET is not looked at. *)
Classify_IgnoresVersionCheck(e) == ClassifyInner(e)

(* A refusal answered by the version GET says nothing of the candidate     *)
(* configuration, so it is demoted to ClassUnknown.  The local rejection   *)
(* is looked for first, through every wrapper.                             *)
Classify(e) ==
  LET inner == ClassifyInner(e)
  IN  IF e.version /\ e.kind # "local" /\ inner = ClassConfigRejected
        THEN ClassUnknown
        ELSE inner

Transient(class) == class # ClassConfigRejected
=============================================================================
