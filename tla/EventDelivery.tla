---------------------------- MODULE EventDelivery ----------------------------
(***************************************************************************)
(* What the integration promises of an event, whatever its parts do: who   *)
(* answers for it, what is on the wire to TikTok, and how it ends.  No     *)
(* deduplicator, table, queue or process here: Pipeline implements this.   *)
(***************************************************************************)
EXTENDS Naturals

CONSTANT Events

VARIABLE life      \* what is known of each event

\* taken: it was accepted once; held: some handler, job or slot answers for it;
\* guarded: it cannot be accepted again; wire: requests that TikTok may still
\* record; arrived: TikTok recorded it; ended: why it was given up, if it was.
Life == [taken : BOOLEAN, held : BOOLEAN, guarded : BOOLEAN, wire : Nat,
         arrived : BOOLEAN, ended : SUBSET {"buried", "dropped", "evicted"}]

Unknown == [taken |-> FALSE, held |-> FALSE, guarded |-> TRUE, wire |-> 0,
            arrived |-> FALSE, ended |-> {}]

Init == life = [e \in Events |-> Unknown]

\* The guard of an event may fall at any time, never to rise again.
Unguard(old, new) == new = [old EXCEPT !.guarded = FALSE]

\* Accepted for the first time, or again once the guard has fallen.
Take(old, new) ==
  /\ ~old.taken \/ ~new.guarded
  /\ new = [old EXCEPT !.taken = TRUE, !.held = TRUE, !.guarded = new.guarded]
  /\ new.guarded => old.guarded

\* Only who answers for an event may post it.
Post(old, new) == old.held /\ new = [old EXCEPT !.wire = @ + 1]

\* TikTok records what is on the wire, in time or late, and each request once.
Arrive(old, new) == old.wire > 0 /\ new = [old EXCEPT !.wire = @ - 1, !.arrived = TRUE]

\* TikTok is heard to refuse a request, or the retries of one are over; the event
\* may be given up with the last of them.
Refuse(old, new) ==
  /\ old.held
  /\ old.wire > 0
  /\ new = [old EXCEPT !.wire = @ - 1, !.held = new.held, !.ended = new.ended]

\* One of those who answer for it gives it up.
GiveUp(old, new) ==
  /\ old.held
  /\ new = [old EXCEPT !.held = new.held, !.ended = new.ended]

\* Nobody drops an event without a reason on record, and no record is undone.
Accounted(old, new) ==
  /\ old.ended \subseteq new.ended
  /\ old.held /\ ~new.held => new.arrived \/ new.ended # {}
  /\ new.held => old.held \/ ~old.taken \/ ~new.guarded

Step(old, new) ==
  /\ \/ Unguard(old, new) \/ Take(old, new)
     \/ Post(old, new) \/ Arrive(old, new) \/ Refuse(old, new) \/ GiveUp(old, new)
  /\ Accounted(old, new)

\* An exit of the process reaches several events at once.
Next ==
  /\ DOMAIN life' = Events
  /\ \A e \in Events :
       \E old \in {life[e]}, new \in {life'[e]} :
          \/ new = old
          \/ new \in Life /\ Step(old, new)

Spec == Init /\ [][Next]_life

\* An event does not stay in somebody's hands for ever.
LetsGo == \A e \in Events : life[e].held ~> ~life[e].held

=============================================================================
