----------------------------- MODULE MCSettings -----------------------------
(***************************************************************************)
(* Settings on a small instance: one setup, others edit by hand.           *)
(***************************************************************************)
EXTENDS Settings, TLC

MCSymmetry == Permutations(Portals) \cup Permutations(Sites)

=============================================================================
