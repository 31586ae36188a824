-------------------------- MODULE PipelineDelivery --------------------------
(***************************************************************************)
(* Pipeline implements EventDelivery: the hands an event can be in are the *)
(* handlers that won it, its live job, and the slots that run it, with or  *)
(* without the lock.                                                       *)
(***************************************************************************)
EXTENDS Pipeline

Held(e) == Claimants(e) # {} \/ Queue!Live(e) \/ \E w \in Slots : slot[w] = e

Ended(e) == {r \in {"buried", "dropped", "evicted"} :
               \/ r = "buried" /\ e \in history.dead
               \/ r = "dropped" /\ e \in history.dropped
               \/ r = "evicted" /\ e \in history.evicted}

LifeOf(e) ==
  [taken   |-> history.claimed[e] > 0,
   held    |-> Held(e),
   guarded |-> e \notin history.leaky,
   wire    |-> late[e] + Cardinality(Client!OnTheWire(e)),
   arrived |-> received[e] > 0,
   ended   |-> Ended(e)]

Delivery == INSTANCE EventDelivery WITH life <- [e \in Events |-> LifeOf(e)]

\* Whatever is redelivered, retried, stalled, lost, answered late or killed, what
\* the pipeline does to an event is a step of the contract: taken once while its
\* key guards it, posted only by who answers for it, and let go only with TikTok
\* or with a reason on record.
ImplementsDelivery == Delivery!Spec

\* Every event is let go in the end: no handler hangs in an await, no job stays
\* in the queue, and no slot keeps a job it lost the lock of.
LetsGo == Delivery!LetsGo

=============================================================================
