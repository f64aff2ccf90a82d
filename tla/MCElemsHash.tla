----------------------------- MODULE MCElemsHash -----------------------------
(* Instances of ElemsHash for TLC. *)
EXTENDS ElemsHash, TLC

CONSTANTS p1, p2, hk

(* A reader that also sets, the configuration syncer, and the housekeeper. *)
MCMay == (p1 :> {"set", "get"}) @@ (p2 :> {"set", "delete"}) @@ (hk :> {"housekeep"})

(* The first one calls twice. *)
MCCalls == (p1 :> 2) @@ (p2 :> 1) @@ (hk :> 1)

=============================================================================
