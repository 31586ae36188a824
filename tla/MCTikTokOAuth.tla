---------------------------- MODULE MCTikTokOAuth ----------------------------
(***************************************************************************)
(* TLC instances of TikTokOAuth, with hours scaled down.  Requests,        *)
(* advertisers and states are interchangeable.                             *)
(***************************************************************************)
EXTENDS TikTokOAuth, TLC

Symmetry == Permutations(Requests) \cup Permutations(Advertisers) \cup Permutations(States)

=============================================================================
