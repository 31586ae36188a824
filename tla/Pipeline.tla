------------------------------ MODULE Pipeline ------------------------------
(***************************************************************************)
(* From a lead change to TikTok: Pipeline.process over the deduplicator,   *)
(* the event log, the TikTok client and the retry queue with its worker.   *)
(*                                                                         *)
(* A handler is one activation of process().  The listener starts one for  *)
(* every CDC message and waits for none, so handlers run concurrently; pc  *)
(* is the await a handler is suspended at.  An event id stands for the     *)
(* (lead, event name, second) it is the hash of.  Handlers start at the    *)
(* deduplication: what precedes it (filter, enrichment, event set) writes  *)
(* nothing of this module's state.                                         *)
(*                                                                         *)
(* Redis and Postgres calls may reject, applied or not (MaxFaults of them  *)
(* in a behaviour), Redis may evict any key, the process may exit and be   *)
(* restarted by docker (MaxCrashes), and Salesforce may deliver an event   *)
(* again.                                                                  *)
(***************************************************************************)
EXTENDS Naturals, FiniteSets

CONSTANTS Events, Handlers, Slots,
          Retries,             \* env.TIKTOK_MAX_RETRIES as axios-retry uses it
          Attempts,            \* env.TIKTOK_MAX_RETRIES as BullMQ uses it
          MaxStalled,
          MaxDeliveries,       \* bound: deliveries of CDC messages
          MaxFaults,           \* bound: rejected Redis and Postgres calls, lost locks
          MaxCrashes           \* bound: exits of the process

ASSUME PipelineAssumption ==
  /\ Retries \in Nat
  /\ Attempts \in Nat \ {0}
  /\ MaxStalled \in Nat
  /\ MaxDeliveries \in Nat
  /\ MaxFaults \in Nat
  /\ MaxCrashes \in Nat
  /\ IsFiniteSet(Handlers)
  /\ IsFiniteSet(Slots)
  /\ Handlers \cap Slots = {}

VARIABLES tokenConfigured,     \* is env.TIKTOK_ACCESS_TOKEN set?  It stays as it is.
          keys, log, call, late, received, posts, rejected, job, slot,
          pc,                  \* the await each handler is suspended at
          event,               \* the event id each handler computed
          deliveries, faults, crashes,
          history              \* what happened so far; no action reads it

Callers == Handlers \cup Slots

Dedup == INSTANCE EventDeduplicator
Log == INSTANCE EventLog
Client == INSTANCE TikTokAPIClient
Queue == INSTANCE RetryQueue

\* An event id is a digest: none is the mark of a free slot.
ASSUME EventAssumption == Queue!Idle \notin Events

clientVars == <<call, late, received, posts, rejected>>
queueVars == <<job, slot>>
handlerVars == <<pc, event>>
boundVars == <<tokenConfigured, deliveries, faults, crashes>>
vars == <<keys, log, clientVars, queueVars, handlerVars, boundVars, history>>

None == "none"

Awaits == {"dedup", "logDuplicate", "logPending", "send", "markSent", "markFailed", "enqueue"}

(***************************************************************************)
(* History, by event id:                                                   *)
(*   claimed   times isDuplicate answered false                            *)
(*   leaky     the key did not guard it: fail open, or the key is gone     *)
(*   misjudged a novel delivery was answered "duplicate"                   *)
(*   dropped   its claimant ended in an exception or with the process      *)
(*   unacked   its row was updated though the update rejected              *)
(*   dead      its job used up its attempts or stalled too often           *)
(*   evicted   Redis evicted its job before that                           *)
(***************************************************************************)
HistoryInit == [claimed |-> [e \in Events |-> 0], leaky |-> {}, misjudged |-> {},
                dropped |-> {}, unacked |-> {}, dead |-> {}, evicted |-> {}]

HandlerTypeOK ==
  /\ pc \in [Handlers -> Awaits \cup {None}]
  /\ event \in [Handlers -> Events \cup {None}]
  /\ \A h \in Handlers : pc[h] # None => event[h] \in Events

BoundTypeOK ==
  /\ tokenConfigured \in BOOLEAN
  /\ deliveries \in 0 .. MaxDeliveries
  /\ faults \in 0 .. MaxFaults
  /\ crashes \in 0 .. MaxCrashes

HistoryTypeOK ==
  history \in [claimed : [Events -> Nat], leaky : SUBSET Events,
               misjudged : SUBSET Events, dropped : SUBSET Events,
               unacked : SUBSET Events, dead : SUBSET Events, evicted : SUBSET Events]

TypeOK ==
  /\ Dedup!KeysTypeOK
  /\ Log!LogTypeOK
  /\ Client!ClientTypeOK
  /\ Queue!QueueTypeOK
  /\ HandlerTypeOK
  /\ BoundTypeOK
  /\ HistoryTypeOK

Init ==
  /\ tokenConfigured \in BOOLEAN
  /\ Dedup!KeysInit
  /\ Log!LogInit
  /\ Client!ClientInit
  /\ Queue!QueueInit
  /\ pc = [h \in Handlers |-> None]
  /\ event = [h \in Handlers |-> None]
  /\ deliveries = 0
  /\ faults = 0
  /\ crashes = 0
  /\ history = HistoryInit

At(h, await) == pc[h] = await

Goto(h, await) ==
  /\ pc' = [pc EXCEPT ![h] = await]
  /\ UNCHANGED event

\* process() returns or throws; the listener logs what it throws and goes on.
Leave(h) ==
  /\ pc' = [pc EXCEPT ![h] = None]
  /\ event' = [event EXCEPT ![h] = None]

Fault ==
  /\ faults < MaxFaults
  /\ faults' = faults + 1
  /\ UNCHANGED <<tokenConfigured, deliveries, crashes>>

Claims(e) == [history EXCEPT !.claimed[e] = @ + 1]

Drops(E) == [history EXCEPT !.dropped = @ \cup E]

-----------------------------------------------------------------------------
\* Deduplication.

\* A CDC message whose change maps to a TikTok event reaches isDuplicate.
Deliver(h, e) ==
  /\ At(h, None)
  /\ deliveries < MaxDeliveries
  /\ deliveries' = deliveries + 1
  /\ pc' = [pc EXCEPT ![h] = "dedup"]
  /\ event' = [event EXCEPT ![h] = e]
  /\ UNCHANGED <<keys, log, clientVars, queueVars, tokenConfigured, faults, crashes, history>>

Novel(h) ==
  /\ At(h, "dedup")
  /\ Dedup!AnswerNovel(event[h])
  /\ Goto(h, "logPending")
  /\ history' = Claims(event[h])
  /\ UNCHANGED <<log, clientVars, queueVars, boundVars>>

Duplicate(h) ==
  /\ At(h, "dedup")
  /\ Dedup!AnswerDuplicate(event[h])
  /\ Goto(h, "logDuplicate")
  /\ UNCHANGED <<log, clientVars, queueVars, boundVars, history>>

\* Mutant of FailOpen: fail closed.
FailClosed(h) ==
  /\ At(h, "dedup")
  /\ Fault
  /\ Dedup!AnswerFailOpen(event[h])
  /\ Goto(h, "logDuplicate")
  /\ UNCHANGED <<log, clientVars, queueVars, history>>

FailOpen(h) ==
  /\ At(h, "dedup")
  /\ Fault
  /\ Dedup!AnswerFailOpen(event[h])
  /\ Goto(h, "logPending")
  /\ history' = [Claims(event[h]) EXCEPT !.leaky = @ \cup {event[h]}]
  /\ UNCHANGED <<log, clientVars, queueVars>>

OwnKey(h) ==
  /\ At(h, "dedup")
  /\ Fault
  /\ Dedup!AnswerOwnKey(event[h])
  /\ Goto(h, "logDuplicate")
  /\ history' = [history EXCEPT !.misjudged = @ \cup {event[h]}]
  /\ UNCHANGED <<log, clientVars, queueVars>>

\* The insert of the 'duplicate' row, after which process() returns.
LogDuplicate(h) ==
  /\ At(h, "logDuplicate")
  /\ Log!Insert(event[h], "duplicate")
  /\ Leave(h)
  /\ UNCHANGED <<keys, clientVars, queueVars, boundVars, history>>

LogDuplicateFails(h) ==
  /\ At(h, "logDuplicate")
  /\ Fault
  /\ Log!Insert(event[h], "duplicate") \/ UNCHANGED log
  /\ Leave(h)
  /\ UNCHANGED <<keys, clientVars, queueVars, history>>

-----------------------------------------------------------------------------
\* The claimant: log as pending, send, then record the outcome.

LogPending(h) ==
  /\ At(h, "logPending")
  /\ Log!Insert(event[h], "pending")
  /\ Client!BeginSend(h, event[h])
  /\ Goto(h, "send")
  /\ UNCHANGED <<keys, queueVars, boundVars, history>>

\* Mutant of LogPendingFails: the exception is swallowed.
LogPendingSwallows(h) ==
  /\ At(h, "logPending")
  /\ Fault
  /\ Client!BeginSend(h, event[h])
  /\ Goto(h, "send")
  /\ UNCHANGED <<keys, log, queueVars, history>>

\* The insert is outside the try: the event is given up.
LogPendingFails(h) ==
  /\ At(h, "logPending")
  /\ Fault
  /\ Log!Insert(event[h], "pending") \/ UNCHANGED log
  /\ Leave(h)
  /\ history' = Drops({event[h]})
  /\ UNCHANGED <<keys, clientVars, queueVars>>

SendSucceeds(h) ==
  /\ At(h, "send")
  /\ Client!Succeed(h)
  /\ Goto(h, "markSent")
  /\ UNCHANGED <<keys, log, queueVars, boundVars, history>>

SendFails(h) ==
  /\ At(h, "send")
  /\ Client!Fail(h)
  /\ Goto(h, "markFailed")
  /\ UNCHANGED <<keys, log, queueVars, boundVars, history>>

MarkSent(h) ==
  /\ At(h, "markSent")
  /\ Log!UpdateStatus(event[h], "sent")
  /\ Leave(h)
  /\ UNCHANGED <<keys, clientVars, queueVars, boundVars, history>>

\* The update is inside the try: its exception goes the way of a failed send.
MarkSentFails(h) ==
  /\ At(h, "markSent")
  /\ Fault
  /\ \/ /\ Log!UpdateStatus(event[h], "sent")
        /\ history' = [history EXCEPT !.unacked = @ \cup {event[h]}]
     \/ UNCHANGED <<log, history>>
  /\ Goto(h, "markFailed")
  /\ UNCHANGED <<keys, clientVars, queueVars>>

\* Mutant of MarkFailed: no update in the catch block.
MarkFailedSkipsLog(h) ==
  /\ At(h, "markFailed")
  /\ Goto(h, "enqueue")
  /\ UNCHANGED <<keys, log, clientVars, queueVars, boundVars, history>>

\* Mutant of MarkFailed: the catch block returns before enqueuePayload.
MarkFailedReturns(h) ==
  /\ At(h, "markFailed")
  /\ Log!UpdateStatus(event[h], "failed")
  /\ Leave(h)
  /\ UNCHANGED <<keys, clientVars, queueVars, boundVars, history>>

MarkFailed(h) ==
  /\ At(h, "markFailed")
  /\ Log!UpdateStatus(event[h], "failed")
  /\ Goto(h, "enqueue")
  /\ UNCHANGED <<keys, clientVars, queueVars, boundVars, history>>

\* In the catch block already: the event is not enqueued.
MarkFailedFails(h) ==
  /\ At(h, "markFailed")
  /\ Fault
  /\ Log!UpdateStatus(event[h], "failed") \/ UNCHANGED log
  /\ Leave(h)
  /\ history' = Drops({event[h]})
  /\ UNCHANGED <<keys, clientVars, queueVars>>

Enqueue(h) ==
  /\ At(h, "enqueue")
  /\ Queue!Add(event[h])
  /\ Leave(h)
  /\ UNCHANGED <<keys, log, clientVars, boundVars, history>>

EnqueueFails(h) ==
  /\ At(h, "enqueue")
  /\ Fault
  /\ Queue!Add(event[h]) \/ UNCHANGED queueVars
  /\ Leave(h)
  /\ history' = Drops({event[h]})
  /\ UNCHANGED <<keys, log, clientVars>>

-----------------------------------------------------------------------------
\* The worker.  It never touches the event log.

TakeJob(w, e) ==
  /\ Queue!Take(w, e)
  /\ Client!BeginSend(w, e)
  /\ UNCHANGED <<keys, log, handlerVars, boundVars, history>>

\* Jobs that have just failed for good.
Buries == [history EXCEPT !.dead = @ \cup {e \in Events : job'[e].state = "failed"}]

JobSucceeds(w) ==
  /\ slot[w] # Queue!Idle
  /\ Client!Succeed(w)
  /\ Queue!Complete(w)
  /\ UNCHANGED <<keys, log, handlerVars, boundVars, history>>

JobFails(w) ==
  /\ slot[w] # Queue!Idle
  /\ Client!Fail(w)
  /\ Queue!FailAttempt(w)
  /\ history' = Buries
  /\ UNCHANGED <<keys, log, handlerVars, boundVars>>

PromoteJob(e) ==
  /\ Queue!Promote(e)
  /\ UNCHANGED <<keys, log, clientVars, handlerVars, boundVars, history>>

LoseLock(e) ==
  /\ Fault
  /\ Queue!LoseLock(e)
  /\ UNCHANGED <<keys, log, clientVars, handlerVars, history>>

RecoverStalled(e) ==
  /\ Queue!RecoverStalled(e)
  /\ history' = Buries
  /\ UNCHANGED <<keys, log, clientVars, handlerVars, boundVars>>

TrimJob(e) ==
  /\ Queue!Trim(e)
  /\ UNCHANGED <<keys, log, clientVars, handlerVars, boundVars, history>>

-----------------------------------------------------------------------------
\* TikTok, Redis and the process as a whole.

\* One Redis holds the queue and the deduplication keys, and it evicts whatever
\* has not been used for long (allkeys-lru), whether it has a TTL or not.
EvictJob(e) ==
  /\ Queue!Evict(e)
  /\ history' = IF Queue!Live(e) THEN [history EXCEPT !.evicted = @ \cup {e}] ELSE history
  /\ UNCHANGED <<keys, log, clientVars, handlerVars, boundVars>>

Send(c) ==
  /\ Client!Post(c)
  /\ UNCHANGED <<keys, log, queueVars, handlerVars, boundVars, history>>

Retry(c) ==
  /\ Client!Retry(c)
  /\ UNCHANGED <<keys, log, queueVars, handlerVars, boundVars, history>>

Record(c) ==
  /\ Client!Record(c)
  /\ UNCHANGED <<keys, log, queueVars, handlerVars, boundVars, history>>

RecordLate(e) ==
  /\ Client!RecordLate(e)
  /\ UNCHANGED <<keys, log, queueVars, handlerVars, boundVars, history>>

ExpireKey(e) ==
  /\ Dedup!Expire(e)
  /\ history' = [history EXCEPT !.leaky = @ \cup {e}]
  /\ UNCHANGED <<log, clientVars, queueVars, handlerVars, boundVars>>

Claiming == {"logPending", "send", "markSent", "markFailed", "enqueue"}

\* The handlers that won an event and are not done with it.
Claimants(e) == {h \in Handlers : event[h] = e /\ pc[h] \in Claiming}

\* exit(1) and the restart; Salesforce is subscribed to from the latest event.
Crash ==
  /\ crashes < MaxCrashes
  /\ crashes' = crashes + 1
  /\ Client!AbandonAll
  /\ Queue!DropSlots
  /\ pc' = [h \in Handlers |-> None]
  /\ event' = [h \in Handlers |-> None]
  /\ history' = Drops({e \in Events : Claimants(e) # {}})
  /\ UNCHANGED <<keys, log, tokenConfigured, deliveries, faults>>

-----------------------------------------------------------------------------
HandlerStep(h) ==
  \/ Novel(h) \/ Duplicate(h) \/ FailOpen(h) \/ OwnKey(h)
  \/ LogDuplicate(h) \/ LogDuplicateFails(h)
  \/ LogPending(h) \/ LogPendingFails(h)
  \/ SendSucceeds(h) \/ SendFails(h)
  \/ MarkSent(h) \/ MarkSentFails(h)
  \/ MarkFailed(h) \/ MarkFailedFails(h)
  \/ Enqueue(h) \/ EnqueueFails(h)

JobStep(e) == PromoteJob(e) \/ RecoverStalled(e) \/ \E w \in Slots : TakeJob(w, e)

SlotStep(w) == JobSucceeds(w) \/ JobFails(w)

CallStep(c) == Send(c) \/ Retry(c)

Next ==
  \/ \E h \in Handlers : HandlerStep(h) \/ \E e \in Events : Deliver(h, e)
  \/ \E w \in Slots : SlotStep(w)
  \/ \E c \in Callers : CallStep(c) \/ Record(c)
  \/ \E e \in Events : \/ JobStep(e) \/ LoseLock(e) \/ TrimJob(e) \/ EvictJob(e)
                       \/ RecordLate(e) \/ ExpireKey(e)
  \/ Crash

Spec == Init /\ [][Next]_vars

\* Every await of the program is answered or rejected in the end (drivers and
\* axios have timeouts, BullMQ's scheduler moves delayed and stalled jobs).
\* Salesforce, TikTok, evictions, faults and crashes owe nothing.
Fairness ==
  /\ \A h \in Handlers : WF_vars(HandlerStep(h))
  /\ \A w \in Slots : WF_vars(SlotStep(w))
  /\ \A c \in Callers : WF_vars(CallStep(c))
  /\ \A e \in Events : WF_vars(JobStep(e))

FairSpec == Spec /\ Fairness

-----------------------------------------------------------------------------
\* Safety.

\* A row says 'sent' only if TikTok recorded the event, whatever was retried,
\* answered late or failed in between.
SentMeansReceived == \A e \in Events : log[e] = "sent" => received[e] > 0

\* Nothing leaves for TikTok, and nothing is queued, before the event has its
\* row: an event TikTok knows is never missing from the audit log.
LoggedBeforeSent ==
  \A e \in Events : posts[e] > 0 \/ job[e].state # "none" => Log!HasRow(e)

\* SET NX is the only lock between concurrent handlers: as long as the key
\* guards it, one handler in all wins an event, across redeliveries and
\* restarts, and no two are ever at work on it together.
OneClaim ==
  \A e \in Events \ history.leaky :
    /\ history.claimed[e] <= 1
    /\ \A g, h \in Claimants(e) : g = h

\* The ends of an event but for TikTok: a dead letter, an exception out of process()
\* or an exit of the process in mid-flight, and the eviction of its job.
GivenUp == history.dead \cup history.dropped \cup history.evicted

\* An event that was won is being worked on, or TikTok recorded it, or its job
\* is alive or is a dead letter; the only other ends are an exception out of
\* process(), an exit of the process in mid-flight and a Redis that evicts the job.
NoSilentLoss ==
  \A e \in Events :
    history.claimed[e] > 0 =>
      \/ Claimants(e) # {} \/ Queue!Live(e)
      \/ received[e] > 0
      \/ e \in GivenUp

\* The row is 'pending' only while its claimant works or after it was dropped.
PendingIsTransient ==
  \A e \in Events :
    log[e] = "pending" => Claimants(e) # {} \/ e \in history.dropped

\* A row is 'duplicate' because some other delivery won the event, except when
\* a lost answer of Redis made the deduplicator take its own key for another's.
DuplicateHasOriginal ==
  \A e \in Events :
    log[e] = "duplicate" => history.claimed[e] > 0 \/ e \in history.misjudged

\* The two retry layers multiply: one direct call and at most
\* Attempts + MaxStalled executions of the job, each of 1 + Retries requests.
BoundedPosts ==
  \A e \in Events \ history.leaky :
    posts[e] <= (1 + Retries) * (1 + Attempts + MaxStalled)

-----------------------------------------------------------------------------
\* Strengthenings that make the safety properties inductive.

\* The key of an event that was won is still there, and a claimant has won.
KeyGuards ==
  /\ \A e \in Events \ history.leaky : history.claimed[e] > 0 => e \in keys
  /\ \A h \in Handlers : pc[h] \in Claiming => history.claimed[event[h]] > 0

\* Whoever is past the insert, and every open call, has its row.
RowFirst ==
  /\ \A h \in Handlers : pc[h] \in Claiming \ {"logPending"} => Log!HasRow(event[h])
  /\ \A c \in Callers : call[c].step # "none" => Log!HasRow(call[c].event)

\* What a call counts as recorded, TikTok has received.
ReceivedFirst ==
  /\ \A c \in Callers : call[c].step # "none" /\ call[c].recorded => received[call[c].event] > 0
  /\ \A h \in Handlers : pc[h] = "send" => call[h].step # "none" /\ call[h].event = event[h]
  /\ \A h \in Handlers : pc[h] = "markSent" => received[event[h]] > 0

Inv ==
  /\ TypeOK
  /\ OneClaim /\ KeyGuards
  /\ LoggedBeforeSent /\ RowFirst
  /\ SentMeansReceived /\ ReceivedFirst

\* A call is open exactly while its caller awaits it, and is about its caller's event.
CallsBelong ==
  /\ \A h \in Handlers : call[h].step # "none" => pc[h] = "send"
  /\ \A w \in Slots : call[w].step # "none" <=> slot[w] # Queue!Idle
  /\ \A w \in Slots : slot[w] # Queue!Idle => call[w].event = slot[w]

\* Nothing happens to an event nobody won.
ClaimedFirst ==
  \A e \in Events :
    history.claimed[e] = 0 =>
      /\ log[e] # "sent"
      /\ posts[e] = 0
      /\ job[e].state = "none"
      /\ \A w \in Slots : slot[w] # e

\* What the state of a job that is finished, or gone but for its id, tells.
JobTells ==
  \A e \in Events :
    /\ job[e].state = "completed" => received[e] > 0
    /\ job[e].state = "failed" => e \in history.dead
    /\ job[e].state = "stray" => received[e] > 0 \/ e \in history.dead \cup history.evicted

\* A key, and a delivery that met one, have an original.
KeyTells ==
  /\ \A e \in keys : history.claimed[e] > 0 \/ e \in history.misjudged
  /\ \A h \in Handlers :
       pc[h] = "logDuplicate" => history.claimed[event[h]] > 0 \/ event[h] \in history.misjudged

\* What the row of a claimant's event can say.
RowTells ==
  \A h \in Handlers :
    /\ pc[h] = "enqueue" => log[event[h]] \in {"sent", "failed"}
    /\ pc[h] \in Claiming /\ event[h] \notin history.leaky \cup history.unacked => log[event[h]] # "sent"

\* How often the job with this id was given to a slot.
Executions(e) == job[e].made + job[e].stalled + (IF job[e].state = "active" THEN 1 ELSE 0)

\* The requests the open executions of a job may still make, one by one.
Remaining(e) == {r \in Slots \X (1 .. 1 + Retries) : slot[r[1]] = e /\ call[r[1]].tries < r[2]}

\* A lost job tells no more how often it was.
Lost(e) == job[e].state \in {"none", "stray"}

\* What the direct call and n executions of the job may send in all.
Budget(n) == (1 + Retries) * (1 + n)

\* The direct call has a budget of 1 + Retries, and so has every execution of the
\* job; what an execution has not used is kept for it.
PostBudget ==
  /\ \A e \in Events : ~Lost(e) => Executions(e) <= Attempts + MaxStalled
  /\ \A e \in Events \ history.leaky :
       /\ \A h \in Claimants(e) :
            /\ job[e].state = "none"
            /\ \A w \in Slots : slot[w] # e
            /\ posts[e] <= 1 + Retries
            /\ pc[h] = "logPending" => posts[e] = 0
            /\ pc[h] = "send" => posts[e] <= call[h].tries
       /\ posts[e] + Cardinality(Remaining(e)) <=
            Budget(IF Lost(e) THEN Attempts + MaxStalled ELSE Executions(e))

FullInv ==
  /\ Inv
  /\ CallsBelong /\ ClaimedFirst
  /\ NoSilentLoss /\ JobTells
  /\ PendingIsTransient /\ DuplicateHasOriginal /\ KeyTells /\ RowTells
  /\ BoundedPosts /\ PostBudget

-----------------------------------------------------------------------------
\* Action properties.

\* A row that says 'sent' is never rewritten, unless the event lost its key or
\* the update that wrote 'sent' was reported as failed.
SentIsFinal ==
  [][\A e \in Events :
       log[e] = "sent" /\ e \notin history'.leaky \cup history'.unacked => log'[e] = "sent"]_vars

-----------------------------------------------------------------------------
\* Liveness.

\* An event that was won is settled in the end: recorded by TikTok, a dead
\* letter, dropped, or evicted; it never hangs in an await, in the queue or in a slot.
Settles ==
  \A e \in Events :
    history.claimed[e] > 0 ~> received[e] > 0 \/ e \in GivenUp

=============================================================================
