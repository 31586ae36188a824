--------------------------- MODULE PipelineProofs ---------------------------
(***************************************************************************)
(* Proofs about Pipeline, for every number of events, handlers, slots,     *)
(* retries, deliveries, faults and crashes.                                *)
(***************************************************************************)
EXTENDS Pipeline, FiniteSetTheorems, TLAPS

LEMMA KeysTypeStep ==
  ASSUME Dedup!KeysTypeOK, HandlerTypeOK, [Next]_vars
  PROVE  Dedup!KeysTypeOK'
<1> USE DEF Dedup!KeysTypeOK, HandlerTypeOK
<1>1. CASE UNCHANGED keys
  BY <1>1
<1>2. ASSUME NEW h \in Handlers, Novel(h) \/ FailOpen(h) \/ OwnKey(h) PROVE Dedup!KeysTypeOK'
  BY <1>2 DEF Novel, FailOpen, OwnKey, Dedup!AnswerNovel, Dedup!AnswerFailOpen, Dedup!AnswerOwnKey, At, None
<1>3. ASSUME NEW e \in Events, ExpireKey(e) PROVE Dedup!KeysTypeOK'
  BY <1>3 DEF ExpireKey, Dedup!Expire
<1>4. Next => UNCHANGED keys \/ (\E h \in Handlers : Novel(h) \/ FailOpen(h) \/ OwnKey(h)) \/ (\E e \in Events : ExpireKey(e))
  BY DEF Next, HandlerStep, JobStep, SlotStep, CallStep, Duplicate, Dedup!AnswerDuplicate, LogDuplicate, LogDuplicateFails, LogPending, LogPendingFails, SendSucceeds, SendFails, MarkSent, MarkSentFails, MarkFailed, MarkFailedFails, Enqueue, EnqueueFails, TakeJob, JobSucceeds, JobFails, PromoteJob, LoseLock, RecoverStalled, TrimJob, EvictJob, Send, Retry, Record, RecordLate, Crash, Deliver
<1> QED
  BY <1>1, <1>2, <1>3, <1>4 DEF vars

-----------------------------------------------------------------------------
(***************************************************************************)
(* The TikTok client keeps its type.                                       *)
(***************************************************************************)
LEMMA BeginSendType ==
  ASSUME Client!ClientTypeOK, NEW c \in Callers, NEW e \in Events, Client!BeginSend(c, e)
  PROVE  Client!ClientTypeOK'
<1>1. Client!NewCall(e) \in Client!Call
  BY PipelineAssumption DEF Client!NewCall, Client!Call
<1> QED
  BY <1>1 DEF Client!ClientTypeOK, Client!BeginSend, Client!NewCall

LEMMA PostType ==
  ASSUME Client!ClientTypeOK, NEW c \in Callers, Client!Post(c)
  PROVE  Client!ClientTypeOK'
<1> DEFINE new == [step |-> "posted", event |-> call[c].event, tries |-> call[c].tries + 1,
                   recorded |-> FALSE]
<1>1. call' = [call EXCEPT ![c] = new] /\ UNCHANGED <<late, received, rejected>>
  BY DEF Client!Post, Client!ClientTypeOK, Client!Call
<1>2. new \in Client!Call
  BY PipelineAssumption DEF Client!Post, Client!ClientTypeOK, Client!Call
<1>3. new.step = "posted" /\ new.event = call[c].event /\ call[c].event \in Events
  BY DEF Client!Post, Client!ClientTypeOK
<1>4. posts' \in [Events -> Nat]
  BY <1>3 DEF Client!Post, Client!ClientTypeOK
<1> HIDE DEF new
<1> QED
  BY <1>1, <1>2, <1>3, <1>4 DEF Client!ClientTypeOK

LEMMA RecordType ==
  ASSUME Client!ClientTypeOK, NEW c \in Callers, Client!Record(c)
  PROVE  Client!ClientTypeOK'
<1> DEFINE new == [call[c] EXCEPT !.recorded = TRUE]
<1>1. new \in Client!Call /\ new.step = "posted" /\ new.event = call[c].event
  BY DEF Client!Record, Client!ClientTypeOK, Client!Call
<1> QED
  BY <1>1 DEF Client!Record, Client!ClientTypeOK

LEMMA RetryType ==
  ASSUME Client!ClientTypeOK, NEW c \in Callers, Client!Retry(c)
  PROVE  Client!ClientTypeOK'
<1> DEFINE new == [call[c] EXCEPT !.step = "backoff"]
<1>1. new \in Client!Call /\ new.step = "backoff" /\ new.event = call[c].event /\ new.tries = call[c].tries
  BY DEF Client!ClientTypeOK, Client!Call
<1>2. late' \in [Events -> Nat]
  BY DEF Client!Retry, Client!Answered, Client!Abandoned, Client!ClientTypeOK
<1> QED
  BY <1>1, <1>2 DEF Client!Retry, Client!ClientTypeOK

LEMMA EndOfCallType ==
  ASSUME Client!ClientTypeOK, NEW c \in Callers, Client!Succeed(c) \/ Client!Fail(c)
  PROVE  Client!ClientTypeOK'
<1>1. Client!NoCall \in Client!Call /\ Client!NoCall.step = "none"
  BY PipelineAssumption DEF Client!NoCall, Client!Call
<1>2. call' = [call EXCEPT ![c] = Client!NoCall] /\ UNCHANGED <<received, posts>>
  BY DEF Client!Succeed, Client!Fail, Client!NoToken, Client!Rejected, Client!NotAccepted,
         Client!TimedOut, Client!RetriesExhausted, Client!Throw
<1>3. late' \in [Events -> Nat] /\ rejected' \in SUBSET Events
  BY DEF Client!Succeed, Client!Fail, Client!NoToken, Client!Rejected, Client!NotAccepted,
         Client!TimedOut, Client!RetriesExhausted, Client!Answered, Client!Abandoned,
         Client!ClientTypeOK
<1> QED
  BY <1>1, <1>2, <1>3 DEF Client!ClientTypeOK

LEMMA RecordLateType ==
  ASSUME Client!ClientTypeOK, NEW e \in Events, Client!RecordLate(e)
  PROVE  Client!ClientTypeOK'
BY DEF Client!ClientTypeOK, Client!RecordLate

LEMMA AbandonAllType ==
  ASSUME Client!ClientTypeOK, Client!AbandonAll
  PROVE  Client!ClientTypeOK'
<1>1. Client!NoCall \in Client!Call /\ Client!NoCall.step = "none"
  BY PipelineAssumption DEF Client!NoCall, Client!Call
<1>2. ASSUME NEW e \in Events PROVE Cardinality(Client!OnTheWire(e)) \in Nat
  <2>1. IsFiniteSet(Callers)
    BY PipelineAssumption, FS_Union DEF Callers
  <2> QED
    BY <2>1, FS_Subset, FS_CardinalityType DEF Client!OnTheWire
<1> DEFINE wire == [e \in Events |-> Cardinality(Client!OnTheWire(e))]
<1>3. late' \in [Events -> Nat]
  <2>1. wire \in [Events -> Nat]
    BY <1>2
  <2>2. \A e \in Events : wire[e] = Client!Cardinality(Client!OnTheWire(e))
    BY DEF Cardinality, Client!Cardinality
  <2>3. late' = [e \in Events |-> late[e] + wire[e]]
    BY <2>2 DEF Client!AbandonAll
  <2> HIDE DEF wire
  <2> QED
    BY <2>1, <2>3 DEF Client!ClientTypeOK
<1> QED
  BY <1>1, <1>3 DEF Client!ClientTypeOK, Client!AbandonAll

-----------------------------------------------------------------------------
(***************************************************************************)
(* The retry queue keeps its type.                                         *)
(***************************************************************************)
LEMMA AddType ==
  ASSUME Queue!QueueTypeOK, NEW e \in Events, Queue!Add(e)
  PROVE  Queue!QueueTypeOK'
<1>1. Queue!NewJob \in Queue!Job /\ Queue!NewJob.made = 0 /\ Queue!NewJob.stalled = 0
  BY PipelineAssumption DEF Queue!NewJob, Queue!Job, Queue!JobStates
<1> QED
  BY <1>1, PipelineAssumption DEF Queue!QueueTypeOK, Queue!Add, Queue!Live

LEMMA TakeType ==
  ASSUME Queue!QueueTypeOK, NEW e \in Events, NEW w \in Slots, Queue!Take(w, e)
  PROVE  Queue!QueueTypeOK'
<1> DEFINE new == [job[e] EXCEPT !.state = "active", !.lock = w]
<1>1. new \in Queue!Job /\ new.made = job[e].made /\ new.stalled = job[e].stalled
  BY DEF Queue!QueueTypeOK, Queue!Job, Queue!JobStates
<1>2. job' = [job EXCEPT ![e] = new]
  BY DEF Queue!Take, Queue!QueueTypeOK, Queue!Job
<1> QED
  BY <1>1, <1>2 DEF Queue!QueueTypeOK, Queue!Take, Queue!Live

LEMMA FinishType ==
  ASSUME Queue!QueueTypeOK, NEW w \in Slots, slot[w] # Queue!Idle,
         Queue!Complete(w) \/ Queue!FailAttempt(w)
  PROVE  Queue!QueueTypeOK'
<1> DEFINE old == job[slot[w]]
           new(state) == [old EXCEPT !.state = state, !.made = @ + 1, !.lock = Queue!Nobody]
<1>1. slot[w] \in Events /\ old \in Queue!Job
  BY DEF Queue!QueueTypeOK
<1>2. slot' = [slot EXCEPT ![w] = Queue!Idle]
  BY DEF Queue!Complete, Queue!FailAttempt, Queue!Finish
<1>3. CASE job' = job
  BY <1>2, <1>3 DEF Queue!QueueTypeOK, Queue!Live
<1>4. CASE Queue!Holds(w)
  <2>1. PICK state \in {"completed", "failed", "delayed"} :
          /\ job' = [job EXCEPT ![slot[w]] = new(state)]
          /\ state = "delayed" => old.made + 1 < Attempts
    BY <1>4 DEF Queue!Complete, Queue!FailAttempt, Queue!Finish
  <2>2. old.made < Attempts /\ old.stalled <= MaxStalled
    BY <1>1, <1>4 DEF Queue!QueueTypeOK, Queue!Live, Queue!Holds
  <2>3. /\ new(state) \in Queue!Job
        /\ new(state).state = state /\ new(state).made = old.made + 1
        /\ new(state).stalled = old.stalled
    <3>1. old.made + 1 \in 0 .. Attempts
      BY <1>1, <2>2, PipelineAssumption DEF Queue!Job
    <3>2. Queue!Nobody \in Slots \cup {Queue!Nobody} /\ state \in Queue!JobStates
      BY DEF Queue!JobStates
    <3> QED
      BY <1>1, <3>1, <3>2 DEF Queue!Job
  <2> QED
    BY <1>1, <1>2, <2>1, <2>2, <2>3 DEF Queue!QueueTypeOK, Queue!Live
<1> QED
  BY <1>3, <1>4 DEF Queue!Complete, Queue!FailAttempt, Queue!Finish

LEMMA JobStepType ==
  ASSUME Queue!QueueTypeOK, NEW e \in Events,
         Queue!Promote(e) \/ Queue!LoseLock(e) \/ Queue!RecoverStalled(e) \/ Queue!Trim(e) \/ Queue!Evict(e)
  PROVE  Queue!QueueTypeOK'
<1>1. CASE Queue!Promote(e)
  BY <1>1 DEF Queue!QueueTypeOK, Queue!Promote, Queue!Job, Queue!JobStates, Queue!Live
<1>2. CASE Queue!LoseLock(e)
  BY <1>2 DEF Queue!QueueTypeOK, Queue!LoseLock, Queue!Job, Queue!JobStates, Queue!Live
<1>3. CASE Queue!RecoverStalled(e)
  <2> DEFINE state == IF job[e].stalled < MaxStalled THEN "waiting" ELSE "failed"
             new == [job[e] EXCEPT !.state = state, !.stalled = @ + 1]
  <2>1. job[e].stalled <= MaxStalled /\ job[e].made < Attempts
    BY <1>3 DEF Queue!QueueTypeOK, Queue!RecoverStalled, Queue!Live
  <2>2. /\ new \in Queue!Job /\ new.state = state
        /\ new.made = job[e].made /\ new.stalled = job[e].stalled + 1
    <3>1. job[e] \in Queue!Job /\ job[e].stalled + 1 \in 0 .. MaxStalled + 1
      BY <2>1, PipelineAssumption DEF Queue!QueueTypeOK, Queue!Job
    <3>2. state \in Queue!JobStates
      BY DEF Queue!JobStates
    <3> QED
      BY <3>1, <3>2 DEF Queue!Job
  <2>3. job' = [job EXCEPT ![e] = new] /\ slot' = slot
    BY <1>3 DEF Queue!RecoverStalled, Queue!QueueTypeOK, Queue!Job
  <2> QED
    BY <2>1, <2>2, <2>3, PipelineAssumption DEF Queue!QueueTypeOK, Queue!Live, Queue!Job
<1>4. CASE Queue!Trim(e)
  <2>1. Queue!NoJob \in Queue!Job /\ Queue!NoJob.state = "none"
    BY PipelineAssumption DEF Queue!NoJob, Queue!Job, Queue!JobStates
  <2> QED
    BY <1>4, <2>1 DEF Queue!QueueTypeOK, Queue!Trim, Queue!Live
<1>5. CASE Queue!Evict(e)
  <2>1. /\ Queue!NoJob \in Queue!Job /\ Queue!NoJob.state = "none"
        /\ Queue!Stray \in Queue!Job /\ Queue!Stray.state = "stray"
    BY PipelineAssumption DEF Queue!Stray, Queue!NoJob, Queue!Job, Queue!JobStates
  <2>2. PICK left \in {Queue!NoJob, Queue!Stray} : job' = [job EXCEPT ![e] = left] /\ slot' = slot
    BY <1>5 DEF Queue!Evict
  <2> QED
    BY <2>1, <2>2 DEF Queue!QueueTypeOK, Queue!Live
<1> QED
  BY <1>1, <1>2, <1>3, <1>4, <1>5

LEMMA DropSlotsType ==
  ASSUME Queue!QueueTypeOK, Queue!DropSlots
  PROVE  Queue!QueueTypeOK'
<1>1. ASSUME NEW e \in Events
      PROVE  /\ [job[e] EXCEPT !.lock = Queue!Nobody] \in Queue!Job
             /\ [job[e] EXCEPT !.lock = Queue!Nobody].state = job[e].state
             /\ [job[e] EXCEPT !.lock = Queue!Nobody].made = job[e].made
             /\ [job[e] EXCEPT !.lock = Queue!Nobody].stalled = job[e].stalled
  BY DEF Queue!QueueTypeOK, Queue!Job
<1> QED
  BY <1>1 DEF Queue!QueueTypeOK, Queue!DropSlots, Queue!Live

-----------------------------------------------------------------------------
(***************************************************************************)
(* The types of the other variables.                                       *)
(***************************************************************************)
LEMMA ClientTypeStep ==
  ASSUME Client!ClientTypeOK, HandlerTypeOK, [Next]_vars
  PROVE  Client!ClientTypeOK'
<1>1. CASE UNCHANGED clientVars
  BY <1>1 DEF clientVars, Client!ClientTypeOK
<1>2. ASSUME NEW h \in Handlers, LogPending(h) PROVE Client!ClientTypeOK'
  BY <1>2, BeginSendType DEF LogPending, HandlerTypeOK, At, None, Callers
<1>3. ASSUME NEW w \in Slots, NEW e \in Events, TakeJob(w, e) PROVE Client!ClientTypeOK'
  BY <1>3, BeginSendType DEF TakeJob, Callers
<1>4. ASSUME NEW c \in Callers, Client!Succeed(c) \/ Client!Fail(c) PROVE Client!ClientTypeOK'
  BY <1>4, EndOfCallType
<1>5. ASSUME NEW c \in Callers, Send(c) \/ Retry(c) \/ Record(c) PROVE Client!ClientTypeOK'
  BY <1>5, PostType, RetryType, RecordType DEF Send, Retry, Record
<1>6. ASSUME NEW e \in Events, RecordLate(e) PROVE Client!ClientTypeOK'
  BY <1>6, RecordLateType DEF RecordLate
<1>7. CASE Crash
  BY <1>7, AbandonAllType DEF Crash
<1>8. \/ UNCHANGED clientVars \/ Crash
      \/ \E h \in Handlers : LogPending(h)
      \/ \E w \in Slots, e \in Events : TakeJob(w, e)
      \/ \E c \in Callers : Client!Succeed(c) \/ Client!Fail(c) \/ Send(c) \/ Retry(c) \/ Record(c)
      \/ \E e \in Events : RecordLate(e)
  BY DEF vars, Callers, Next, HandlerStep, JobStep, SlotStep, CallStep, Deliver, Novel, Duplicate, FailOpen,
         OwnKey, LogDuplicate, LogDuplicateFails, LogPendingFails, SendSucceeds, SendFails,
         MarkSent, MarkSentFails, MarkFailed, MarkFailedFails, Enqueue, EnqueueFails,
         JobSucceeds, JobFails, PromoteJob, LoseLock, RecoverStalled, TrimJob, EvictJob, ExpireKey
<1> QED
  BY <1>1, <1>2, <1>3, <1>4, <1>5, <1>6, <1>7, <1>8

LEMMA QueueTypeStep ==
  ASSUME Queue!QueueTypeOK, HandlerTypeOK, [Next]_vars
  PROVE  Queue!QueueTypeOK'
<1>1. CASE UNCHANGED queueVars
  BY <1>1 DEF queueVars, Queue!QueueTypeOK, Queue!Live
<1>2. ASSUME NEW h \in Handlers, Enqueue(h) \/ EnqueueFails(h) PROVE Queue!QueueTypeOK'
  <2>1. event[h] \in Events
    BY <1>2 DEF Enqueue, EnqueueFails, HandlerTypeOK, At, None
  <2>2. Queue!Add(event[h]) \/ UNCHANGED queueVars
    BY <1>2 DEF Enqueue, EnqueueFails
  <2> QED
    BY <2>1, <2>2, <1>1, AddType
<1>3. ASSUME NEW w \in Slots, NEW e \in Events, TakeJob(w, e) PROVE Queue!QueueTypeOK'
  BY <1>3, TakeType DEF TakeJob
<1>4. ASSUME NEW w \in Slots, JobSucceeds(w) \/ JobFails(w) PROVE Queue!QueueTypeOK'
  BY <1>4, FinishType DEF JobSucceeds, JobFails
<1>5. ASSUME NEW e \in Events, PromoteJob(e) \/ LoseLock(e) \/ RecoverStalled(e) \/ TrimJob(e) \/ EvictJob(e)
      PROVE  Queue!QueueTypeOK'
  BY <1>5, JobStepType DEF PromoteJob, LoseLock, RecoverStalled, TrimJob, EvictJob
<1>6. CASE Crash
  BY <1>6, DropSlotsType DEF Crash
<1>7. \/ UNCHANGED queueVars \/ Crash
      \/ \E h \in Handlers : Enqueue(h) \/ EnqueueFails(h)
      \/ \E w \in Slots, e \in Events : TakeJob(w, e)
      \/ \E w \in Slots : JobSucceeds(w) \/ JobFails(w)
      \/ \E e \in Events : PromoteJob(e) \/ LoseLock(e) \/ RecoverStalled(e) \/ TrimJob(e) \/ EvictJob(e)
  BY DEF vars, Next, HandlerStep, JobStep, SlotStep, CallStep, Deliver, Novel, Duplicate, FailOpen,
         OwnKey, LogDuplicate, LogDuplicateFails, LogPending, LogPendingFails, SendSucceeds,
         SendFails, MarkSent, MarkSentFails, MarkFailed, MarkFailedFails, Send, Retry, Record,
         RecordLate, ExpireKey
<1> QED
  BY <1>1, <1>2, <1>3, <1>4, <1>5, <1>6, <1>7

LEMMA LogTypeStep ==
  ASSUME Log!LogTypeOK, [Next]_vars
  PROVE  Log!LogTypeOK'
<1>1. \/ UNCHANGED log
      \/ \E e, status : /\ status \in Log!Statuses
                        /\ Log!Insert(e, status) \/ Log!UpdateStatus(e, status)
  BY DEF vars, Log!Statuses, Next, HandlerStep, JobStep, SlotStep, CallStep, Novel, Duplicate, FailOpen, OwnKey, LogDuplicate,
         LogDuplicateFails, LogPending, LogPendingFails, SendSucceeds, SendFails, MarkSent,
         MarkSentFails, MarkFailed, MarkFailedFails, Enqueue, EnqueueFails,
         TakeJob, JobSucceeds, JobFails,
         PromoteJob, LoseLock, RecoverStalled, TrimJob, EvictJob, Send, Retry, Record, RecordLate,
         ExpireKey, Crash, Deliver
<1> QED
  BY <1>1 DEF Log!LogTypeOK, Log!Insert, Log!UpdateStatus

LEMMA HandlerTypeStep ==
  ASSUME HandlerTypeOK, [Next]_vars
  PROVE  HandlerTypeOK'
<1>1. CASE UNCHANGED handlerVars
  BY <1>1 DEF handlerVars, HandlerTypeOK
<1>2. ASSUME NEW h \in Handlers, NEW e \in Events, Deliver(h, e) PROVE HandlerTypeOK'
  BY <1>2 DEF Deliver, HandlerTypeOK, Awaits
<1>3. ASSUME NEW h \in Handlers, HandlerStep(h) PROVE HandlerTypeOK'
  <2>1. Leave(h) \/ \E await \in Awaits : Goto(h, await) /\ pc[h] # None
    BY <1>3 DEF HandlerStep, At, None, Awaits, Novel, Duplicate, FailOpen, OwnKey, LogDuplicate,
         LogDuplicateFails, LogPending, LogPendingFails, SendSucceeds, SendFails, MarkSent,
         MarkSentFails, MarkFailed, MarkFailedFails, Enqueue, EnqueueFails
  <2> QED
    BY <2>1 DEF HandlerTypeOK, Leave, Goto
<1>4. CASE Crash
  BY <1>4 DEF Crash, HandlerTypeOK
<1>5. \/ UNCHANGED handlerVars \/ Crash
      \/ \E h \in Handlers : HandlerStep(h) \/ \E e \in Events : Deliver(h, e)
  BY DEF vars, Next, JobStep, SlotStep, CallStep, TakeJob, JobSucceeds, JobFails,
         PromoteJob, LoseLock, RecoverStalled, TrimJob, EvictJob, Send, Retry, Record, RecordLate,
         ExpireKey
<1> QED
  BY <1>1, <1>2, <1>3, <1>4, <1>5

LEMMA BoundTypeStep ==
  ASSUME BoundTypeOK, [Next]_vars
  PROVE  BoundTypeOK'
<1>1. \/ UNCHANGED boundVars \/ Fault
      \/ deliveries < MaxDeliveries /\ deliveries' = deliveries + 1 /\ UNCHANGED <<tokenConfigured, faults, crashes>>
      \/ crashes < MaxCrashes /\ crashes' = crashes + 1 /\ UNCHANGED <<tokenConfigured, deliveries, faults>>
  BY DEF vars, Next, HandlerStep, JobStep, SlotStep, CallStep, Novel, Duplicate, FailOpen, OwnKey, LogDuplicate,
         LogDuplicateFails, LogPending, LogPendingFails, SendSucceeds, SendFails, MarkSent,
         MarkSentFails, MarkFailed, MarkFailedFails, Enqueue, EnqueueFails,
         TakeJob, JobSucceeds, JobFails,
         PromoteJob, LoseLock, RecoverStalled, TrimJob, EvictJob, Send, Retry, Record, RecordLate,
         ExpireKey, Crash, Deliver
<1> QED
  BY <1>1, PipelineAssumption DEF BoundTypeOK, boundVars, Fault

LEMMA HistoryTypeStep ==
  ASSUME HistoryTypeOK, HandlerTypeOK, [Next]_vars
  PROVE  HistoryTypeOK'
<1>1. CASE UNCHANGED history
  BY <1>1 DEF HistoryTypeOK
<1>2. ASSUME NEW e \in Events,
             \/ history' = Claims(e)
             \/ history' = [Claims(e) EXCEPT !.leaky = @ \cup {e}]
      PROVE  HistoryTypeOK'
  <2> DEFINE more == [history.claimed EXCEPT ![e] = @ + 1]
  <2>1. more \in [Events -> Nat]
    BY DEF HistoryTypeOK
  <2>2. Claims(e) = [history EXCEPT !.claimed = more]
    BY DEF Claims, HistoryTypeOK
  <2>3. CASE history' = [history EXCEPT !.claimed = more]
    BY <2>1, <2>3 DEF HistoryTypeOK
  <2>4. CASE history' = [history EXCEPT !.claimed = more, !.leaky = @ \cup {e}]
    BY <2>1, <2>4 DEF HistoryTypeOK
  <2>5. CASE history' = [Claims(e) EXCEPT !.leaky = @ \cup {e}]
    BY <2>2, <2>4, <2>5 DEF HistoryTypeOK
  <2> QED
    BY <1>2, <2>2, <2>3, <2>5
<1>3. ASSUME NEW e \in Events,
             \/ history' = [history EXCEPT !.leaky = @ \cup {e}]
             \/ history' = [history EXCEPT !.misjudged = @ \cup {e}]
             \/ history' = [history EXCEPT !.unacked = @ \cup {e}]
             \/ history' = [history EXCEPT !.evicted = @ \cup {e}]
      PROVE  HistoryTypeOK'
  BY <1>3 DEF HistoryTypeOK
<1>4. ASSUME NEW E \in SUBSET Events, history' = Drops(E) PROVE HistoryTypeOK'
  BY <1>4 DEF HistoryTypeOK, Drops
<1>5. CASE history' = Buries
  BY <1>5 DEF HistoryTypeOK, Buries
<1>6. ASSUME NEW h \in Handlers, HandlerStep(h) PROVE HistoryTypeOK'
  <2>1. event[h] \in Events
    BY <1>6 DEF HandlerTypeOK, HandlerStep, At, None, Novel, Duplicate, FailOpen, OwnKey, LogDuplicate,
         LogDuplicateFails, LogPending, LogPendingFails, SendSucceeds, SendFails, MarkSent,
         MarkSentFails, MarkFailed, MarkFailedFails, Enqueue, EnqueueFails
  <2>2. \/ UNCHANGED history
        \/ history' = Claims(event[h])
        \/ history' = [Claims(event[h]) EXCEPT !.leaky = @ \cup {event[h]}]
        \/ history' = [history EXCEPT !.misjudged = @ \cup {event[h]}]
        \/ history' = [history EXCEPT !.unacked = @ \cup {event[h]}]
        \/ history' = Drops({event[h]})
    BY <1>6 DEF HandlerStep, Novel, Duplicate, FailOpen, OwnKey, LogDuplicate,
         LogDuplicateFails, LogPending, LogPendingFails, SendSucceeds, SendFails, MarkSent,
         MarkSentFails, MarkFailed, MarkFailedFails, Enqueue, EnqueueFails
  <2> QED
    BY <2>1, <2>2, <1>1, <1>2, <1>3, <1>4
<1>7. CASE Crash
  BY <1>7, <1>4 DEF Crash
<1>8. \/ UNCHANGED history \/ history' = Buries \/ Crash
      \/ \E h \in Handlers : HandlerStep(h)
      \/ \E e \in Events : \/ history' = [history EXCEPT !.leaky = @ \cup {e}]
                           \/ history' = [history EXCEPT !.evicted = @ \cup {e}]
  BY DEF vars, Next, JobStep, SlotStep, CallStep, TakeJob, JobSucceeds, JobFails,
         PromoteJob, LoseLock, RecoverStalled, TrimJob, EvictJob, Send, Retry, Record, RecordLate,
         ExpireKey, Crash, Deliver
<1> QED
  BY <1>1, <1>3, <1>5, <1>6, <1>7, <1>8

LEMMA TypeInit == Init => TypeOK
<1> SUFFICES ASSUME Init PROVE TypeOK
  OBVIOUS
<1>1. Dedup!KeysTypeOK /\ Log!LogTypeOK
  BY DEF Init, Dedup!KeysInit, Dedup!KeysTypeOK, Log!LogInit, Log!LogTypeOK
<1>2. Client!ClientTypeOK
  BY PipelineAssumption DEF Init, Client!ClientInit, Client!ClientTypeOK, Client!NoCall, Client!Call
<1>3. Queue!QueueTypeOK
  BY PipelineAssumption DEF Init, Queue!QueueInit, Queue!QueueTypeOK, Queue!NoJob, Queue!Job,
     Queue!JobStates, Queue!Live
<1>4. HandlerTypeOK /\ BoundTypeOK
  BY PipelineAssumption DEF Init, HandlerTypeOK, BoundTypeOK
<1>5. HistoryTypeOK
  BY DEF Init, HistoryInit, HistoryTypeOK
<1> QED
  BY <1>1, <1>2, <1>3, <1>4, <1>5 DEF TypeOK

LEMMA TypeStep == TypeOK /\ [Next]_vars => TypeOK'
BY KeysTypeStep, LogTypeStep, ClientTypeStep, QueueTypeStep, HandlerTypeStep, BoundTypeStep,
   HistoryTypeStep DEF TypeOK

\* Every variable of the pipeline keeps its type, the counters their bounds, and
\* a job that is not finished has attempts left.
THEOREM TypeCorrect == Spec => []TypeOK
<1>1. Init => TypeOK
  BY TypeInit
<1>2. TypeOK /\ [Next]_vars => TypeOK'
  BY TypeStep
<1> QED
  BY <1>1, <1>2, PTL DEF Spec

-----------------------------------------------------------------------------
(***************************************************************************)
(* One claim per event.  SET NX answers "novel" only when there is no key, *)
(* and the key of an event that was won goes away only with an expiry,     *)
(* which makes the event leaky.                                            *)
(***************************************************************************)
LEMMA ClaimStep ==
  ASSUME TypeOK, OneClaim, KeyGuards, [Next]_vars
  PROVE  OneClaim' /\ KeyGuards'
<1> USE DEF TypeOK, HandlerTypeOK, HistoryTypeOK, Dedup!KeysTypeOK
<1> DEFINE Same == history.claimed' = history.claimed
           Calm == /\ Same /\ history.leaky \subseteq history.leaky'
                   /\ keys \subseteq keys'
                   /\ \A h \in Handlers : pc'[h] \in Claiming =>
                        pc[h] \in Claiming /\ event'[h] = event[h]
  \* Most steps win nothing, take no key away and move claimants only along.
<1>1. ASSUME Calm PROVE OneClaim' /\ KeyGuards'
  BY <1>1 DEF OneClaim, KeyGuards, Claimants
<1>2. ASSUME NEW h \in Handlers, Novel(h) PROVE OneClaim' /\ KeyGuards'
  <2> DEFINE e == event[h]
  <2>1. /\ e \in Events /\ e \notin keys /\ keys' = keys \cup {e}
        /\ pc' = [pc EXCEPT ![h] = "logPending"] /\ event' = event
        /\ history'.leaky = history.leaky
        /\ history'.claimed = [history.claimed EXCEPT ![e] = @ + 1]
    BY <1>2 DEF Novel, Dedup!AnswerNovel, Goto, At, Claims, None
  <2>2. e \notin history.leaky => history.claimed[e] = 0 /\ Claimants(e) = {}
    BY <2>1 DEF KeyGuards, Claimants
  <2>3. \A f \in Events : Claimants(f)' = IF f = e THEN Claimants(f) \cup {h} ELSE Claimants(f)
    BY <1>2, <2>1 DEF Claimants, Claiming, Novel, At
  <2>4. OneClaim'
    BY <2>1, <2>2, <2>3 DEF OneClaim
  <2>5. KeyGuards'
    BY <2>1 DEF KeyGuards, Claiming
  <2> QED
    BY <2>4, <2>5
<1>3. ASSUME NEW h \in Handlers, FailOpen(h) PROVE OneClaim' /\ KeyGuards'
  <2> DEFINE e == event[h]
  <2>1. /\ e \in Events /\ keys \subseteq keys'
        /\ pc' = [pc EXCEPT ![h] = "logPending"] /\ event' = event
        /\ history'.leaky = history.leaky \cup {e}
        /\ history'.claimed = [history.claimed EXCEPT ![e] = @ + 1]
    BY <1>3 DEF FailOpen, Dedup!AnswerFailOpen, Goto, At, Claims, None
  <2>2. \A f \in Events \ {e} : Claimants(f)' = Claimants(f)
    BY <1>3, <2>1 DEF Claimants, Claiming, FailOpen, At
  <2> QED
    BY <2>1, <2>2 DEF OneClaim, KeyGuards, Claiming
<1>4. ASSUME NEW e \in Events, ExpireKey(e) PROVE OneClaim' /\ KeyGuards'
  <2>1. /\ keys' = keys \ {e} /\ UNCHANGED <<pc, event>>
        /\ history'.leaky = history.leaky \cup {e} /\ history'.claimed = history.claimed
    BY <1>4 DEF ExpireKey, Dedup!Expire, handlerVars
  <2> QED
    BY <2>1 DEF OneClaim, KeyGuards, Claimants
<1>5. ASSUME NEW h \in Handlers, HandlerStep(h), ~Novel(h), ~FailOpen(h) PROVE Calm
  <2>1. Same /\ history.leaky \subseteq history.leaky' /\ keys \subseteq keys'
    BY <1>5 DEF HandlerStep, Duplicate, OwnKey, LogDuplicate, LogDuplicateFails, LogPending,
       LogPendingFails, SendSucceeds, SendFails, MarkSent, MarkSentFails, MarkFailed,
       MarkFailedFails, Enqueue, EnqueueFails, Dedup!AnswerDuplicate, Dedup!AnswerOwnKey, Drops
  <2>2. \/ Leave(h)
        \/ \E await \in Claiming : Goto(h, await) /\ pc[h] \in Claiming
        \/ Goto(h, "logDuplicate")
    BY <1>5 DEF HandlerStep, Duplicate, OwnKey, LogDuplicate, LogDuplicateFails, LogPending,
       LogPendingFails, SendSucceeds, SendFails, MarkSent, MarkSentFails, MarkFailed,
       MarkFailedFails, Enqueue, EnqueueFails, Claiming, At
  <2>3. \A g \in Handlers : pc'[g] \in Claiming => pc[g] \in Claiming /\ event'[g] = event[g]
    BY <2>2 DEF Leave, Goto, Claiming, None
  <2> QED
    BY <2>1, <2>3
<1>6. ASSUME NEW h \in Handlers, NEW e \in Events, Deliver(h, e) PROVE Calm
  BY <1>6 DEF Deliver, Claiming
<1>7. CASE Crash
  BY <1>1, <1>7 DEF Crash, Drops, Claiming, None
<1>8. ASSUME UNCHANGED <<keys, pc, event>>,
             \/ UNCHANGED history \/ history' = Buries
             \/ \E E : history' = [history EXCEPT !.evicted = E]
      PROVE  Calm
  BY <1>8 DEF Buries
<1>9. \/ Crash
      \/ /\ UNCHANGED <<keys, pc, event>>
         /\ \/ UNCHANGED history \/ history' = Buries
            \/ \E E : history' = [history EXCEPT !.evicted = E]
      \/ \E h \in Handlers : HandlerStep(h) \/ \E e \in Events : Deliver(h, e)
      \/ \E e \in Events : ExpireKey(e)
  BY DEF vars, handlerVars, Next, JobStep, SlotStep, CallStep, TakeJob, JobSucceeds, JobFails,
         PromoteJob, LoseLock, RecoverStalled, TrimJob, EvictJob, Send, Retry, Record, RecordLate
<1> QED
  BY <1>1, <1>2, <1>3, <1>4, <1>5, <1>6, <1>7, <1>8, <1>9

-----------------------------------------------------------------------------
(***************************************************************************)
(* Shapes of steps the next two proofs share.  Rows never go away, and     *)
(* TikTok never forgets.                                                   *)
(***************************************************************************)
LEMMA RowsStay ==
  ASSUME TypeOK, [Next]_vars
  PROVE  \A e \in Events : log[e] # Log!NoRow => log'[e] # Log!NoRow
<1>1. \/ UNCHANGED log
      \/ \E e, status : /\ status \in Log!Statuses
                        /\ Log!Insert(e, status) \/ Log!UpdateStatus(e, status)
  BY DEF vars, Log!Statuses, Next, HandlerStep, JobStep, SlotStep, CallStep, Novel, Duplicate, FailOpen, OwnKey, LogDuplicate,
       LogDuplicateFails, LogPending, LogPendingFails, SendSucceeds, SendFails, MarkSent,
       MarkSentFails, MarkFailed, MarkFailedFails, Enqueue, EnqueueFails,
       TakeJob, JobSucceeds, JobFails, PromoteJob, LoseLock, RecoverStalled, TrimJob, EvictJob, Send,
       Retry, Record, RecordLate, ExpireKey, Crash, Deliver
<1> QED
  BY <1>1 DEF TypeOK, Log!LogTypeOK, Log!Insert, Log!UpdateStatus, Log!HasRow, Log!Statuses, Log!NoRow

\* What a step does to the open calls.
CallsMove ==
  \A c \in Callers :
    \/ call'[c] = call[c]
    \/ call'[c].step = "none"
    \/ call[c].step # "none" /\ call'[c].event = call[c].event

\* A handler or a slot opens a call.
Opens(c, e) ==
  /\ call' = [call EXCEPT ![c] = Client!NewCall(e)]
  /\ UNCHANGED <<late, received, posts, rejected>>

LEMMA CallShape ==
  ASSUME TypeOK, [Next]_vars
  PROVE  \/ CallsMove
         \/ \E h \in Handlers : LogPending(h) /\ Opens(h, event[h])
         \/ \E w \in Slots, e \in Events : TakeJob(w, e) /\ Opens(w, e)
<1> USE DEF TypeOK, Client!ClientTypeOK
<1>1. ASSUME NEW c \in Callers, Client!Succeed(c) \/ Client!Fail(c) PROVE CallsMove
  <2>1. call' = [call EXCEPT ![c] = Client!NoCall]
    BY <1>1 DEF Client!Succeed, Client!Fail, Client!NoToken, Client!Rejected, Client!NotAccepted,
       Client!TimedOut, Client!RetriesExhausted, Client!Throw
  <2> QED
    BY <2>1 DEF CallsMove, Client!NoCall
<1>2. ASSUME NEW c \in Callers, Send(c) \/ Retry(c) \/ Record(c) PROVE CallsMove
  <2>1. \A d \in Callers : d # c => call'[d] = call[d]
    BY <1>2 DEF Send, Retry, Record, Client!Post, Client!Retry, Client!Record
  <2>2. call[c].step # "none"
    BY <1>2 DEF Send, Retry, Record, Client!Post, Client!Retry, Client!Record
  <2>3. call'[c].event = call[c].event
    BY <1>2 DEF Send, Retry, Record, Client!Post, Client!Retry, Client!Record, Client!Call
  <2> QED
    BY <2>1, <2>2, <2>3 DEF CallsMove
<1>3. CASE Crash
  BY <1>3 DEF Crash, Client!AbandonAll, Client!NoCall, CallsMove
<1>4. CASE UNCHANGED call
  BY <1>4 DEF CallsMove
<1>5. \/ UNCHANGED call \/ Crash
      \/ \E h \in Handlers : LogPending(h) /\ Opens(h, event[h])
      \/ \E w \in Slots, e \in Events : TakeJob(w, e) /\ Opens(w, e)
      \/ \E c \in Callers : Client!Succeed(c) \/ Client!Fail(c) \/ Send(c) \/ Retry(c) \/ Record(c)
  BY DEF Opens, Client!BeginSend, vars, clientVars, Callers, Next, HandlerStep, JobStep,
       SlotStep, CallStep, Novel, Duplicate, FailOpen, OwnKey, LogDuplicate,
       LogDuplicateFails, LogPending, LogPendingFails, SendSucceeds, SendFails, MarkSent,
       MarkSentFails, MarkFailed, MarkFailedFails, Enqueue, EnqueueFails,
       TakeJob, JobSucceeds, JobFails, PromoteJob, LoseLock, RecoverStalled, TrimJob, EvictJob,
       RecordLate, Client!RecordLate, ExpireKey, Deliver
<1> QED
  BY <1>1, <1>2, <1>3, <1>4, <1>5

LEMMA ReceivedGrows ==
  ASSUME TypeOK, [Next]_vars
  PROVE  \A e \in Events : received[e] > 0 => received'[e] > 0
<1>1. \/ UNCHANGED received
      \/ \E e : received' = [received EXCEPT ![e] = @ + 1]
  BY DEF vars, clientVars, Callers, Next, HandlerStep, JobStep, SlotStep, CallStep, Novel, Duplicate, FailOpen, OwnKey, LogDuplicate,
       LogDuplicateFails, LogPending, LogPendingFails, SendSucceeds, SendFails, MarkSent,
       MarkSentFails, MarkFailed, MarkFailedFails, Enqueue, EnqueueFails,
       TakeJob, JobSucceeds, JobFails, PromoteJob, LoseLock, RecoverStalled, TrimJob, EvictJob, Send,
       Retry, Record, RecordLate, ExpireKey, Crash, Deliver, Client!BeginSend, Client!Post,
       Client!Retry, Client!Record, Client!RecordLate, Client!AbandonAll, Client!Succeed, Client!Fail, Client!NoToken, Client!Rejected, Client!NotAccepted,
       Client!TimedOut, Client!RetriesExhausted, Client!Throw
<1> QED
  BY <1>1 DEF TypeOK, Client!ClientTypeOK

\* A request is made only by an open call.
LEMMA PostsMove ==
  ASSUME TypeOK, [Next]_vars
  PROVE  \A e \in Events : posts'[e] > 0 =>
           posts[e] > 0 \/ \E c \in Callers : call[c].step # "none" /\ call[c].event = e
<1> USE DEF TypeOK
<1>1. \/ UNCHANGED posts
      \/ \E c \in Callers : Client!Post(c)
  BY DEF vars, clientVars, Callers, Next, HandlerStep, JobStep, SlotStep, CallStep, Novel, Duplicate, FailOpen, OwnKey, LogDuplicate,
     LogDuplicateFails, LogPending, LogPendingFails, SendSucceeds, SendFails, MarkSent,
     MarkSentFails, MarkFailed, MarkFailedFails, Enqueue, EnqueueFails,
     TakeJob, JobSucceeds, JobFails, PromoteJob, LoseLock, RecoverStalled, TrimJob, EvictJob, Send,
     Retry, Record, RecordLate, ExpireKey, Crash, Deliver, Client!BeginSend,
     Client!Retry, Client!Record, Client!RecordLate, Client!AbandonAll, Client!Succeed, Client!Fail, Client!NoToken, Client!Rejected, Client!NotAccepted,
     Client!TimedOut, Client!RetriesExhausted, Client!Throw
<1> QED
  BY <1>1 DEF Client!Post, Client!ClientTypeOK

\* A job is added only by a handler that enqueues its event.
LEMMA JobsMove ==
  ASSUME TypeOK, [Next]_vars
  PROVE  \A e \in Events : job'[e].state # "none" =>
           \/ job[e].state # "none"
           \/ \E h \in Handlers : event[h] = e /\ pc[h] = "enqueue" /\ (Enqueue(h) \/ EnqueueFails(h))
<1> USE DEF TypeOK
<1>1. ASSUME NEW h \in Handlers, Enqueue(h) \/ EnqueueFails(h)
      PROVE  \A e \in Events :
               job'[e].state # "none" => job[e].state # "none" \/ (pc[h] = "enqueue" /\ event[h] = e)
  <2>1. pc[h] = "enqueue" /\ (job' = job \/ job' = [job EXCEPT ![event[h]] = Queue!NewJob])
    BY <1>1 DEF Enqueue, EnqueueFails, Queue!Add, queueVars, At
  <2>2. \A e \in Events : e # event[h] => job'[e] = job[e]
    BY <2>1 DEF Queue!QueueTypeOK
  <2> QED
    BY <2>1, <2>2
<1>2. ASSUME NEW w \in Slots, slot[w] # Queue!Idle, Queue!Complete(w) \/ Queue!FailAttempt(w)
      PROVE  \A e \in Events : job'[e].state # "none" => job[e].state # "none"
  BY <1>2 DEF Queue!Complete, Queue!FailAttempt, Queue!Finish, Queue!Holds, Queue!QueueTypeOK
<1>3. ASSUME NEW f \in Events,
             \/ Queue!Promote(f) \/ Queue!LoseLock(f) \/ Queue!RecoverStalled(f) \/ Queue!Trim(f) \/ Queue!Evict(f)
             \/ \E w \in Slots : Queue!Take(w, f)
      PROVE  \A e \in Events : job'[e].state # "none" => job[e].state # "none"
  <2>1. job[f].state # "none" /\ \A e \in Events \ {f} : job'[e] = job[e]
    BY <1>3 DEF Queue!Promote, Queue!LoseLock, Queue!RecoverStalled, Queue!Trim, Queue!Evict, Queue!Take,
       Queue!QueueTypeOK
  <2> QED
    BY <2>1
<1>4. CASE Crash
  BY <1>4 DEF Crash, Queue!DropSlots, Queue!QueueTypeOK, Queue!Job
<1>5. CASE UNCHANGED job
  BY <1>5
<1> QED
  BY <1>1, <1>2, <1>3, <1>4, <1>5 DEF vars, queueVars, Next, HandlerStep, JobStep, SlotStep,
     CallStep, Novel, Duplicate, FailOpen, OwnKey, LogDuplicate, LogDuplicateFails, LogPending,
     LogPendingFails, SendSucceeds, SendFails, MarkSent, MarkSentFails, MarkFailed,
     MarkFailedFails, TakeJob, JobSucceeds, JobFails, PromoteJob, LoseLock, RecoverStalled,
     TrimJob, EvictJob, Send, Retry, Record, RecordLate, ExpireKey, Deliver

-----------------------------------------------------------------------------
(***************************************************************************)
(* The row comes first: a handler inserts before it sends, and a job is    *)
(* added by a handler that has inserted.                                   *)
(***************************************************************************)
LEMMA RowStep ==
  ASSUME TypeOK, LoggedBeforeSent, RowFirst, [Next]_vars
  PROVE  LoggedBeforeSent' /\ RowFirst'
<1> USE RowsStay DEF TypeOK, Log!HasRow
<1>1. \A h \in Handlers : pc'[h] \in Claiming \ {"logPending"} => log'[event'[h]] # Log!NoRow
  <2>1. CASE UNCHANGED <<pc, event>> \/ Crash
    BY <2>1 DEF RowFirst, HandlerTypeOK, Crash, Claiming, None
  <2>2. ASSUME NEW h \in Handlers, NEW e \in Events, Deliver(h, e)
        PROVE  \A g \in Handlers : pc'[g] \in Claiming \ {"logPending"} => log'[event'[g]] # Log!NoRow
    BY <2>2 DEF RowFirst, HandlerTypeOK, Deliver, Claiming, None
  <2>3. ASSUME NEW h \in Handlers, HandlerStep(h)
        PROVE  \A g \in Handlers : pc'[g] \in Claiming \ {"logPending"} => log'[event'[g]] # Log!NoRow
    <3>1. \/ Leave(h)
          \/ Goto(h, "logPending") \/ Goto(h, "logDuplicate")
          \/ \E await \in Awaits : Goto(h, await) /\ pc[h] \in Claiming \ {"logPending"}
          \/ LogPending(h)
      BY <2>3 DEF HandlerStep, At, Claiming, Awaits, Novel, Duplicate, FailOpen, OwnKey, LogDuplicate,
       LogDuplicateFails, LogPending, LogPendingFails, SendSucceeds, SendFails, MarkSent,
       MarkSentFails, MarkFailed, MarkFailedFails, Enqueue, EnqueueFails
    <3>2. ASSUME LogPending(h) PROVE Goto(h, "send") /\ event[h] \in Events /\ log'[event[h]] # Log!NoRow
      BY <3>2 DEF LogPending, HandlerTypeOK, At, None, Log!Insert, Log!NoRow, Log!LogTypeOK
    <3> QED
      BY <3>1, <3>2 DEF RowFirst, HandlerTypeOK, Leave, Goto, Claiming, Awaits, None
  <2> QED
    BY <2>1, <2>2, <2>3 DEF vars, handlerVars, Next, JobStep, SlotStep, CallStep, TakeJob,
       JobSucceeds, JobFails, PromoteJob, LoseLock, RecoverStalled, TrimJob, EvictJob, Send, Retry,
       Record, RecordLate, ExpireKey
<1>2. \A c \in Callers : call'[c].step # "none" => log'[call'[c].event] # Log!NoRow
  <2>1. CASE CallsMove
    BY <2>1 DEF CallsMove, RowFirst, Client!ClientTypeOK
  <2>2. ASSUME NEW h \in Handlers, LogPending(h), Opens(h, event[h])
        PROVE  \A c \in Callers : call'[c].step # "none" => log'[call'[c].event] # Log!NoRow
    <3>1. event[h] \in Events /\ log'[event[h]] # Log!NoRow
      BY <2>2 DEF LogPending, HandlerTypeOK, At, None, Log!Insert, Log!NoRow, Log!LogTypeOK
    <3> QED
      BY <2>2, <3>1 DEF Opens, Client!NewCall, RowFirst, Client!ClientTypeOK
  <2>3. ASSUME NEW w \in Slots, NEW e \in Events, TakeJob(w, e), Opens(w, e)
        PROVE  \A c \in Callers : call'[c].step # "none" => log'[call'[c].event] # Log!NoRow
    <3>1. log'[e] # Log!NoRow
      BY <2>3 DEF TakeJob, Queue!Take, LoggedBeforeSent
    <3> QED
      BY <2>3, <3>1 DEF Opens, Client!NewCall, RowFirst, Client!ClientTypeOK
  <2> QED
    BY CallShape, <2>1, <2>2, <2>3
<1>3. LoggedBeforeSent'
  BY PostsMove, JobsMove DEF LoggedBeforeSent, RowFirst, Claiming
<1>4. RowFirst'
  BY <1>1, <1>2 DEF RowFirst
<1> QED
  BY <1>3, <1>4

-----------------------------------------------------------------------------
(***************************************************************************)
(* 'sent' means received: the row is set by the handler whose own call     *)
(* returned, and a call returns only an answer to a recorded request.      *)
(***************************************************************************)
LEMMA ReceivedStep ==
  ASSUME TypeOK, SentMeansReceived, ReceivedFirst, [Next]_vars
  PROVE  SentMeansReceived' /\ ReceivedFirst'
<1> USE ReceivedGrows DEF TypeOK, HandlerTypeOK, Client!ClientTypeOK
<1>1. \A c \in Callers : call'[c].step # "none" /\ call'[c].recorded => received'[call'[c].event] > 0
  <2>1. ASSUME NEW c \in Callers, Client!Record(c)
        PROVE  \A d \in Callers : call'[d].step # "none" /\ call'[d].recorded => received'[call'[d].event] > 0
    <3>1. /\ call[c].event \in Events /\ call'[c].event = call[c].event
          /\ received' = [received EXCEPT ![call[c].event] = @ + 1]
          /\ \A d \in Callers \ {c} : call'[d] = call[d]
      BY <2>1 DEF Client!Record, Client!Call
    <3>2. received'[call[c].event] > 0
      BY <3>1
    <3> QED
      BY <3>1, <3>2 DEF ReceivedFirst
  <2>2. ASSUME NEW c \in Callers, NEW e \in Events, Opens(c, e)
        PROVE  \A d \in Callers : call'[d].step # "none" /\ call'[d].recorded => received'[call'[d].event] > 0
    BY <2>2 DEF Opens, Client!NewCall, ReceivedFirst
  <2>3. ASSUME \A d \in Callers : \/ call'[d] = call[d] \/ call'[d].step = "none"
                                  \/ ~call'[d].recorded
                                  \/ /\ call[d].step # "none" /\ call'[d].event = call[d].event
                                     /\ call'[d].recorded = call[d].recorded
        PROVE  \A d \in Callers : call'[d].step # "none" /\ call'[d].recorded => received'[call'[d].event] > 0
    BY <2>3 DEF ReceivedFirst
  <2>4. ASSUME NEW c \in Callers, Client!Post(c) \/ Client!Retry(c)
        PROVE  \A d \in Callers : \/ call'[d] = call[d] \/ ~call'[d].recorded
                                  \/ /\ call[d].step # "none" /\ call'[d].event = call[d].event
                                     /\ call'[d].recorded = call[d].recorded
    BY <2>4 DEF Client!Post, Client!Retry, Client!Call
  <2>5. ASSUME NEW c \in Callers, Client!Succeed(c) \/ Client!Fail(c)
        PROVE  \A d \in Callers : call'[d] = call[d] \/ call'[d].step = "none"
    <3>1. call' = [call EXCEPT ![c] = Client!NoCall]
      BY <2>5 DEF Client!Succeed, Client!Fail, Client!NoToken, Client!Rejected, Client!NotAccepted,
       Client!TimedOut, Client!RetriesExhausted, Client!Throw
    <3> QED
      BY <3>1 DEF Client!NoCall
  <2>6. CASE Crash
    BY <2>6 DEF Crash, Client!AbandonAll, Client!NoCall
  <2>7. CASE UNCHANGED call
    BY <2>7 DEF ReceivedFirst
  <2>8. \/ UNCHANGED call \/ Crash
        \/ \E c \in Callers, e \in Events : Opens(c, e)
        \/ \E c \in Callers : \/ Client!Succeed(c) \/ Client!Fail(c) \/ Client!Post(c)
                              \/ Client!Retry(c) \/ Client!Record(c)
    BY DEF Opens, Client!BeginSend, vars, clientVars, Callers, At, None, Next, HandlerStep, JobStep,
       SlotStep, CallStep, Novel, Duplicate, FailOpen, OwnKey, LogDuplicate,
       LogDuplicateFails, LogPending, LogPendingFails, SendSucceeds, SendFails, MarkSent,
       MarkSentFails, MarkFailed, MarkFailedFails, Enqueue, EnqueueFails,
       TakeJob, JobSucceeds, JobFails, PromoteJob, LoseLock, RecoverStalled, TrimJob, EvictJob, Send,
       Retry, Record, RecordLate, Client!RecordLate, ExpireKey, Deliver
  <2> QED
    BY <2>1, <2>2, <2>3, <2>4, <2>5, <2>6, <2>7, <2>8
<1>2. \A h \in Handlers : pc'[h] = "send" => call'[h].step # "none" /\ call'[h].event = event'[h]
  <2>1. ASSUME NEW h \in Handlers, LogPending(h)
        PROVE  \A g \in Handlers : pc'[g] = "send" => call'[g].step # "none" /\ call'[g].event = event'[g]
    BY <2>1 DEF LogPending, Client!BeginSend, Client!NewCall, Goto, ReceivedFirst, Callers
  <2>2. ASSUME NEW w \in Slots, Client!Succeed(w) \/ Client!Fail(w) \/ \E e \in Events : Opens(w, e)
        PROVE  \A g \in Handlers : call'[g] = call[g]
    <3>1. \E new : call' = [call EXCEPT ![w] = new]
      BY <2>2 DEF Opens, Client!Succeed, Client!Fail, Client!NoToken, Client!Rejected, Client!NotAccepted,
         Client!TimedOut, Client!RetriesExhausted, Client!Throw
    <3>2. \A g \in Handlers : g # w
      BY PipelineAssumption
    <3> QED
      BY <3>1, <3>2 DEF Callers
  <2>3. ASSUME NEW c \in Callers, Send(c) \/ Retry(c) \/ Record(c), NEW g \in Handlers,
               call[g].step # "none"
        PROVE  call'[g].step # "none" /\ call'[g].event = call[g].event
    BY <2>3 DEF Send, Retry, Record, Client!Post, Client!Retry, Client!Record, Client!Call, Callers
  <2>4. ASSUME NEW h \in Handlers, SendSucceeds(h) \/ SendFails(h)
        PROVE  \A g \in Handlers : pc'[g] = "send" => g # h /\ pc[g] = "send" /\ call'[g] = call[g] /\ event'[g] = event[g]
    BY <2>4 DEF SendSucceeds, SendFails, Goto, Callers, Client!Succeed, Client!Fail, Client!NoToken, Client!Rejected, Client!NotAccepted,
       Client!TimedOut, Client!RetriesExhausted, Client!Throw
  <2>5. ASSUME NEW h \in Handlers, HandlerStep(h), ~LogPending(h), ~SendSucceeds(h), ~SendFails(h)
        PROVE  UNCHANGED call /\ \A g \in Handlers : pc'[g] = "send" => pc[g] = "send" /\ event'[g] = event[g]
    <3>1. Leave(h) \/ \E await \in Awaits \ {"send"} : Goto(h, await)
      BY <2>5 DEF HandlerStep, Awaits, Novel, Duplicate, FailOpen, OwnKey, LogDuplicate,
       LogDuplicateFails, LogPending, LogPendingFails, SendSucceeds, SendFails, MarkSent,
       MarkSentFails, MarkFailed, MarkFailedFails, Enqueue, EnqueueFails
    <3>2. UNCHANGED call
      BY <2>5 DEF HandlerStep, clientVars, Novel, Duplicate, FailOpen, OwnKey, LogDuplicate,
       LogDuplicateFails, LogPending, LogPendingFails, SendSucceeds, SendFails, MarkSent,
       MarkSentFails, MarkFailed, MarkFailedFails, Enqueue, EnqueueFails
    <3> QED
      BY <3>1, <3>2 DEF Leave, Goto, None
  <2>6. ASSUME NEW h \in Handlers, NEW e \in Events, Deliver(h, e)
        PROVE  UNCHANGED call /\ \A g \in Handlers : pc'[g] = "send" => pc[g] = "send" /\ event'[g] = event[g]
    BY <2>6 DEF Deliver, clientVars
  <2>7. CASE Crash
    BY <2>7 DEF Crash, None
  <2>8. ASSUME UNCHANGED call,
               \A g \in Handlers : pc'[g] = "send" => pc[g] = "send" /\ event'[g] = event[g]
        PROVE  \A g \in Handlers : pc'[g] = "send" => call'[g].step # "none" /\ call'[g].event = event'[g]
    BY <2>8 DEF ReceivedFirst
  <2>9. \/ UNCHANGED <<call, pc, event>> \/ Crash
        \/ \E h \in Handlers : HandlerStep(h) \/ \E e \in Events : Deliver(h, e)
        \/ /\ UNCHANGED <<pc, event>>
           /\ \/ \E w \in Slots : Client!Succeed(w) \/ Client!Fail(w) \/ \E e \in Events : Opens(w, e)
              \/ \E c \in Callers : Send(c) \/ Retry(c) \/ Record(c)
    BY DEF Opens, Client!BeginSend, vars, clientVars, handlerVars, Next, JobStep, SlotStep, CallStep,
       TakeJob, JobSucceeds, JobFails, PromoteJob, LoseLock, RecoverStalled, TrimJob, EvictJob, Send, Retry,
       Record, RecordLate, Client!RecordLate, ExpireKey
  <2>10. ASSUME UNCHANGED <<pc, event>>,
                \/ \E w \in Slots : Client!Succeed(w) \/ Client!Fail(w) \/ \E e \in Events : Opens(w, e)
                \/ \E c \in Callers : Send(c) \/ Retry(c) \/ Record(c)
         PROVE  \A g \in Handlers : pc'[g] = "send" => call'[g].step # "none" /\ call'[g].event = event'[g]
    BY <2>2, <2>3, <2>10 DEF ReceivedFirst
  <2> QED
    BY <2>1, <2>4, <2>5, <2>6, <2>7, <2>8, <2>9, <2>10 DEF ReceivedFirst
<1>3. \A h \in Handlers : pc'[h] = "markSent" => received'[event'[h]] > 0
  <2>1. ASSUME NEW h \in Handlers, SendSucceeds(h) PROVE Goto(h, "markSent") /\ event[h] \in Events /\ received[event[h]] > 0
    BY <2>1 DEF SendSucceeds, Client!Succeed, ReceivedFirst, At, None, Callers
  <2>2. ASSUME NEW h \in Handlers, HandlerStep(h), ~SendSucceeds(h)
        PROVE  Leave(h) \/ \E await \in Awaits \ {"markSent"} : Goto(h, await)
    BY <2>2 DEF HandlerStep, Awaits, Novel, Duplicate, FailOpen, OwnKey, LogDuplicate,
       LogDuplicateFails, LogPending, LogPendingFails, SendSucceeds, SendFails, MarkSent,
       MarkSentFails, MarkFailed, MarkFailedFails, Enqueue, EnqueueFails
  <2>3. \/ UNCHANGED <<pc, event>> \/ Crash
        \/ \E h \in Handlers : HandlerStep(h) \/ \E e \in Events : Deliver(h, e)
    BY DEF vars, handlerVars, Next, JobStep, SlotStep, CallStep, TakeJob, JobSucceeds, JobFails,
       PromoteJob, LoseLock, RecoverStalled, TrimJob, EvictJob, Send, Retry, Record, RecordLate, ExpireKey
  <2>4. CASE UNCHANGED <<pc, event>> \/ Crash
    BY <2>4 DEF Crash, None, ReceivedFirst
  <2>5. ASSUME NEW h \in Handlers, NEW e \in Events, Deliver(h, e)
        PROVE  \A g \in Handlers : pc'[g] = "markSent" => received'[event'[g]] > 0
    BY <2>5 DEF Deliver, None, ReceivedFirst
  <2>6. ASSUME NEW h \in Handlers, HandlerStep(h)
        PROVE  \A g \in Handlers : pc'[g] = "markSent" => received'[event'[g]] > 0
    BY <2>1, <2>2, <2>6 DEF Leave, Goto, None, Awaits, ReceivedFirst
  <2> QED
    BY <2>3, <2>4, <2>5, <2>6
<1>4. SentMeansReceived'
  <2>1. ASSUME NEW h \in Handlers, MarkSent(h) \/ MarkSentFails(h) PROVE SentMeansReceived'
    <3>1. event[h] \in Events /\ received[event[h]] > 0
      BY <2>1 DEF MarkSent, MarkSentFails, At, None, ReceivedFirst
    <3>2. log' = log \/ log' = [log EXCEPT ![event[h]] = "sent"]
      BY <2>1 DEF MarkSent, MarkSentFails, Log!UpdateStatus
    <3> QED
      BY <3>1, <3>2 DEF SentMeansReceived, Log!LogTypeOK
  <2>2. ASSUME NEW e, NEW status \in Log!Statuses \ {"sent"},
               Log!Insert(e, status) \/ Log!UpdateStatus(e, status)
        PROVE  SentMeansReceived'
    BY <2>2 DEF Log!Insert, Log!UpdateStatus, SentMeansReceived, Log!LogTypeOK
  <2>3. CASE UNCHANGED log
    BY <2>3 DEF SentMeansReceived
  <2>4. \/ UNCHANGED log
        \/ \E h \in Handlers : MarkSent(h) \/ MarkSentFails(h)
        \/ \E e, status : /\ status \in Log!Statuses \ {"sent"}
                          /\ Log!Insert(e, status) \/ Log!UpdateStatus(e, status)
    BY DEF vars, Log!Statuses, Next, HandlerStep, JobStep, SlotStep, CallStep, Novel, Duplicate,
       FailOpen, OwnKey, LogDuplicate, LogDuplicateFails, LogPending, LogPendingFails,
       SendSucceeds, SendFails, MarkFailed, MarkFailedFails, Enqueue, EnqueueFails, TakeJob,
       JobSucceeds, JobFails, PromoteJob, LoseLock, RecoverStalled, TrimJob, EvictJob, Send, Retry,
       Record, RecordLate, ExpireKey, Crash, Deliver
  <2> QED
    BY <2>1, <2>2, <2>3, <2>4
<1> QED
  BY <1>1, <1>2, <1>3, <1>4 DEF ReceivedFirst

-----------------------------------------------------------------------------
(***************************************************************************)
(* The theorems.                                                           *)
(***************************************************************************)
LEMMA InvInit == Init => Inv
<1> SUFFICES ASSUME Init PROVE Inv
  OBVIOUS
<1>1. TypeOK
  BY TypeInit
<1>2. OneClaim /\ KeyGuards
  BY DEF Init, HistoryInit, OneClaim, KeyGuards, Claimants, Claiming, None
<1>3. LoggedBeforeSent /\ RowFirst
  BY DEF Init, Client!ClientInit, Client!NoCall, Queue!QueueInit, Queue!NoJob, LoggedBeforeSent,
     RowFirst, Claiming, None
<1>4. SentMeansReceived /\ ReceivedFirst
  BY DEF Init, Client!ClientInit, Client!NoCall, Log!LogInit, Log!NoRow, SentMeansReceived,
     ReceivedFirst, None
<1> QED
  BY <1>1, <1>2, <1>3, <1>4 DEF Inv

LEMMA InvStep == Inv /\ [Next]_vars => Inv'
BY TypeStep, ClaimStep, RowStep, ReceivedStep DEF Inv

\* The inductive invariant holds in every behaviour.
THEOREM InvCorrect == Spec => []Inv
<1>1. Init => Inv
  BY InvInit
<1>2. Inv /\ [Next]_vars => Inv'
  BY InvStep
<1> QED
  BY <1>1, <1>2, PTL DEF Spec

\* While its deduplication key guards it, an event is won by one handler in all.
THEOREM OneClaimCorrect == Spec => []OneClaim
<1>1. Inv => OneClaim
  BY DEF Inv
<1> QED
  BY <1>1, InvCorrect, PTL

\* An event TikTok may have seen, or that is queued, has its row in the log.
THEOREM LoggedBeforeSentCorrect == Spec => []LoggedBeforeSent
<1>1. Inv => LoggedBeforeSent
  BY DEF Inv
<1> QED
  BY <1>1, InvCorrect, PTL

\* A row that says 'sent' tells the truth.
THEOREM SentMeansReceivedCorrect == Spec => []SentMeansReceived
<1>1. Inv => SentMeansReceived
  BY DEF Inv
<1> QED
  BY <1>1, InvCorrect, PTL

=============================================================================
