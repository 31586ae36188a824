------------------------- MODULE MCCDCListenerClaims -------------------------
(***************************************************************************)
(* TLC instance of CDCListenerClaims, with two changes that are processed. *)
(***************************************************************************)
EXTENDS CDCListenerClaims

MCInputs ==
  {[entity |-> "Lead", type |-> "UPDATE", fields |-> {"Status"}, status |-> s] :
     s \in {"contacted", "negative"}}

=============================================================================
