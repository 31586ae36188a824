-------------------------- MODULE CDCListenerClaims --------------------------
(***************************************************************************)
(* What a comment of the listener says and the code does not keep: the     *)
(* property of a run that is expected to find a counterexample.            *)
(***************************************************************************)
EXTENDS CDCListener

\* salesforce-cdc.ts:97, "Track replay ID for durable subscriptions": a process
\* that has seen a change sees the one after it next.  lastReplayId is never
\* given to the subscription, which begins again at the latest change.
ResumesAfterLast == [][Message => lastReplayId \in {Latest, next - 1}]_vars

=============================================================================
