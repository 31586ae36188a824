----------------------------- MODULE MCEventSets -----------------------------
(***************************************************************************)
(* TLC instance of CRMEventSetManager.  The cfg gives two advertisers, two *)
(* sets and two activations, so that requests of one advertiser and of two *)
(* overlap; liveness is checked, so there is no symmetry.                  *)
(***************************************************************************)
EXTENDS CRMEventSetManager

=============================================================================
