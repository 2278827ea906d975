-------------------------- MODULE MCTrustDecisions --------------------------
(***************************************************************************)
(* TrustDecisions on a small instance.                                     *)
(***************************************************************************)
EXTENDS TrustDecisions

\* One name is as good as another.
MCNames == {"trusted"}

=============================================================================
