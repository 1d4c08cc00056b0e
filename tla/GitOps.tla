-------------------------------- MODULE GitOps --------------------------------
(***************************************************************************)
(* What the operator promises, without saying how (README.md, "How it      *)
(* works"): the gateway runs what was asked for, and what is written down  *)
(* about the bytes asked for - applied, or refused - is true of them.      *)
(*                                                                         *)
(* Bytes once asked for may still be carried about when others have taken  *)
(* their place (offers): copies, requests under way.  They may reach the   *)
(* gateway late, but never a verdict on the bytes that are now asked for.  *)
(***************************************************************************)
EXTENDS Contents

CONSTANTS
  NoKey,       (* the Secret is there and asks for nothing                  *)
  Normalize,   (* [Configs -> Bytes]: what a submission reads back as       *)
  Foreign      (* what another hand may leave on the gateway                *)

VARIABLES
  desired,     (* the bytes asked for                                       *)
  offers,      (* bytes that were asked for and are still carried about     *)
  running,     (* what the gateway serves                                   *)
  accepted,    (* configurations the gateway has written                    *)
  refused,     (* configurations that were refused                          *)
  applied,     (* the claim: hash of the bytes last applied                 *)
  failed       (* the claim: hash of the bytes that were refused            *)

verdicts == <<accepted, refused>>
claims   == <<applied, failed>>
vars     == <<desired, offers, running, verdicts, claims>>

Nothing == "nothing"

(* Nothing is carried about that nobody asked for. *)
Carry == offers' \subseteq offers \cup ({desired} \cap Configs)

Init ==
  /\ desired \in Configs \cup {Nothing}
  /\ offers = {desired} \cap Configs
  /\ running \in Foreign
  /\ accepted = {} /\ refused = {}
  /\ applied = Absent /\ failed = Absent

Ask(c) ==
  /\ desired' = c
  /\ offers' \subseteq offers \cup ({c} \cap Configs)
  /\ UNCHANGED <<running, verdicts, claims>>

(* The claims go with the Secret that carries them. *)
Withdraw ==
  /\ desired' = Nothing
  /\ offers' \subseteq offers
  /\ applied' = Absent /\ failed' = Absent
  /\ UNCHANGED <<running, verdicts>>

Apply(c) ==
  /\ c \in offers /\ offers' \subseteq offers
  /\ running' = Normalize[c]
  /\ accepted' = accepted \cup {c}
  /\ UNCHANGED <<desired, refused, claims>>

Refuse(c) ==
  /\ c \in offers /\ offers' \subseteq offers
  /\ refused' = refused \cup {c}
  /\ UNCHANGED <<desired, running, accepted, claims>>

(* An earlier refusal of other bytes may be forgotten with it. *)
ClaimApplied ==
  /\ desired \in accepted
  /\ Carry
  /\ applied' = HashBytes(desired) /\ failed' \in {failed, Absent}
  /\ UNCHANGED <<desired, running, verdicts>>

ClaimRefused ==
  /\ desired \in refused
  /\ Carry
  /\ failed' = HashBytes(desired)
  /\ UNCHANGED <<desired, running, verdicts, applied>>

Drift ==
  /\ running' \in Foreign
  /\ offers' \subseteq offers
  /\ UNCHANGED <<desired, verdicts, claims>>

(* Copies are made, requests are sent and dropped. *)
Move == Carry /\ UNCHANGED <<desired, running, verdicts, claims>>

Next ==
  \/ \E c \in Configs \cup {NoKey} : Ask(c)
  \/ \E c \in Configs : Apply(c) \/ Refuse(c)
  \/ Withdraw \/ ClaimApplied \/ ClaimRefused \/ Drift \/ Move

Spec == Init /\ [][Next]_vars
=============================================================================
