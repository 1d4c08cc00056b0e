--------------------------- MODULE MCClientLifecycle ---------------------------
(***************************************************************************)
(* Small instances of ClientLifecycle.  Generation 2 renews generation 1   *)
(* under the same authority, generation 3 comes with another one.          *)
(***************************************************************************)
EXTENDS ClientLifecycle

MCAuthority == [g \in Generations |-> IF g < 3 THEN "ca" ELSE "new ca"]
=============================================================================
