--------------------------- MODULE PipelineClaims ---------------------------
(***************************************************************************)
(* What the documentation says of the pipeline and the code does not keep: *)
(* the property of a run that is expected to find a counterexample.        *)
(***************************************************************************)
EXTENDS Pipeline

\* README.md:459, "400/401/403 from TikTok are never retried": no request
\* carries an event TikTok answered so.  The handler enqueues it like any other.
RejectedIsNotRetried ==
  [][\A e \in rejected : posts'[e] = posts[e]]_vars

=============================================================================
