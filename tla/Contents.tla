------------------------------- MODULE Contents -------------------------------
(***************************************************************************)
(* The data the operator moves about: configurations, certificate bundles  *)
(* and their hashes.  A configuration is opaque; SHA-256 is taken to be    *)
(* injective (internal/config/loader.go).                                  *)
(***************************************************************************)
EXTENDS Integers, Sequences, FiniteSets

CONSTANTS
  Configs,           (* haproxy.cfg contents somebody may ask for           *)
  Bytes,             (* every configuration content, Configs included       *)
  CertsSecretNames,  (* --certs-secret-names, in order                      *)
  Bundles            (* PEM bundles                                         *)

CertNames == {CertsSecretNames[i] : i \in 1 .. Len(CertsSecretNames)}

ASSUME ContentsAssumption == Configs \subseteq Bytes

HashBytes(b) == <<"sha256", b>>
Absent       == <<>>    (* no hash; a missing annotation reads like this    *)

Hashes       == {HashBytes(b) : b \in Bytes}
BundleHashes == {HashBytes(b) : b \in Bundles}
=============================================================================
