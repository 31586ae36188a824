-------------------------- MODULE CRMEventSetClaims --------------------------
(***************************************************************************)
(* What a comment of the event-set code says and the code does not keep:   *)
(* the property of a run that is expected to find a counterexample.        *)
(***************************************************************************)
EXTENDS CRMEventSetManager

\* crm-event-set-manager.ts:127, "0 existing -> create a new one automatically":
\* provision() creates a set only for an advertiser that has none.  Its list is
\* old by the time it creates.
CreatesOnlyTheFirst ==
  [][\A r \in Requests, s \in Sets :
       Create(r, s) /\ req[r].kind = "provision" => Owned(Adv(r)) = {}]_vars

=============================================================================
