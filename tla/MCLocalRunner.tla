----------------------------- MODULE MCLocalRunner -----------------------------
(***************************************************************************)
(* Small instances of LocalRunner.  Configuration "a" is normalized by the *)
(* gateway, "b" is not, and the empty file is refused; "boot" is what an   *)
(* unconfigured gateway serves.                                            *)
(***************************************************************************)
EXTENDS LocalRunner

MCBytes == {"a", "b", "empty", "a normalized", "boot"}
MCNormalize == [c \in Configs |-> IF c = "a" THEN "a normalized" ELSE c]
MCInvalid == {"empty"}
MCRequires == [c \in Configs |-> {}]
MCErrors == {NetError}
MCNoNumbers == [b \in {} |-> 0]
NoCerts == <<>>
=============================================================================
