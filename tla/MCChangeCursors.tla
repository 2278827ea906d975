-------------------------- MODULE MCChangeCursors --------------------------
(***************************************************************************)
(* ChangeCursors on a small instance.                                      *)
(***************************************************************************)
EXTENDS ChangeCursors, TLC

MCSymmetry == Permutations(Detectors)

=============================================================================
