-------------------------- MODULE MCAlertPipeline --------------------------
(***************************************************************************)
(* AlertPipeline on small instances.                                       *)
(***************************************************************************)
EXTENDS AlertPipeline

\* Two findings about one device share a cooldown; one is more severe.
OneLane ==
  {[subject |-> "m1", kind |-> "device", sev |-> 1, cooldown |-> 2],
   [subject |-> "m1", kind |-> "device", sev |-> 2, cooldown |-> 2]}

\* A finding about which alerts are sent every time.
Unlimited == {[subject |-> "m1", kind |-> "device", sev |-> 2, cooldown |-> 0]}

=============================================================================
