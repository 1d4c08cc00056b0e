-------------------------- MODULE MCSecretReconciler --------------------------
(***************************************************************************)
(* Small instances of SecretReconciler.  Configuration "a" is normalized   *)
(* by the gateway, "b" is stored as submitted, "bad" is refused by         *)
(* HAProxy, "empty" before it is sent and "tls" names the files of two     *)
(* certificates; "boot" is what a gateway serves that nobody configured.   *)
(***************************************************************************)
EXTENDS ReconcilerProperties

MCBytes == {"a", "b", "bad", "empty", "tls", "a normalized", "boot"}
MCNormalize == [c \in Configs |-> IF c = "a" THEN "a normalized" ELSE c]
MCInvalid == {"bad"} \cap Configs
MCRequires == [c \in Configs |-> IF c = "tls" THEN CertNames ELSE {}]

(* A gateway error that is no verdict, and an answer whose status would    *)
(* read as one were it given to a submission.                              *)
MCErrors == {NetError, APIError(400)}
MCTimeouts == {NetError}

NoCerts == <<>>
OneCert == <<"edge">>
TwoCerts == <<"edge", "api">>

(* "new" and "chain" differ in nothing the storage reports. *)
MCSerial == [b \in Bundles |-> IF b = "old" THEN 1 ELSE 2]
MCSize   == [b \in Bundles |-> 1]
=============================================================================
