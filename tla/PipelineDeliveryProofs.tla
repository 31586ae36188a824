----------------------- MODULE PipelineDeliveryProofs -----------------------
(***************************************************************************)
(* What becomes of an event that was won, for every number of events,      *)
(* handlers, slots, retries, deliveries, faults and crashes: it is never   *)
(* lost silently, its row and its requests to TikTok stay accountable, and *)
(* the pipeline implements EventDelivery.                                  *)
(***************************************************************************)
EXTENDS PipelineDelivery, PipelineProofs

(***************************************************************************)
(* What the operations of the TikTok client do to the open calls.          *)
(***************************************************************************)
LEMMA CloseShape ==
  ASSUME NEW c \in Callers, Client!Succeed(c) \/ Client!Fail(c)
  PROVE  /\ call[c].step # "none"
         /\ call' = [call EXCEPT ![c] = Client!NoCall]
         /\ UNCHANGED <<received, posts>>
BY DEF Client!Succeed, Client!Fail, Client!NoToken, Client!Rejected, Client!NotAccepted,
   Client!TimedOut, Client!RetriesExhausted, Client!Throw

LEMMA ProgressShape ==
  ASSUME Client!ClientTypeOK, NEW c \in Callers, Send(c) \/ Retry(c) \/ Record(c)
  PROVE  /\ UNCHANGED <<slot, pc, event, history, job, log, keys>>
         /\ call[c].step # "none" /\ call'[c].step # "none"
         /\ call'[c].event = call[c].event
         /\ \A d \in Callers \ {c} : call'[d] = call[d]
<1>1. UNCHANGED <<slot, pc, event, history, job, log, keys>> /\ call[c].step # "none"
  BY DEF Send, Retry, Record, Client!Post, Client!Retry, Client!Record, queueVars, handlerVars
<1>2. call'[c].step # "none" /\ call'[c].event = call[c].event
  BY DEF Send, Retry, Record, Client!Post, Client!Retry, Client!Record, Client!ClientTypeOK, Client!Call
<1>3. \A d \in Callers \ {c} : call'[d] = call[d]
  BY DEF Send, Retry, Record, Client!Post, Client!Retry, Client!Record, Client!ClientTypeOK
<1> QED
  BY <1>1, <1>2, <1>3

(***************************************************************************)
(* The steps of Next by what they do to calls, slots and handlers.         *)
(***************************************************************************)
Quiet(h) ==
  /\ HandlerStep(h)
  /\ ~LogPending(h) /\ ~SendSucceeds(h) /\ ~SendFails(h)

LEMMA QuietShape ==
  ASSUME NEW h \in Handlers, Quiet(h)
  PROVE  /\ UNCHANGED <<clientVars, slot>>
         /\ pc[h] \notin {"none", "send"}
         /\ Leave(h) \/ \E await \in Awaits \ {"send"} : Goto(h, await)
<1>1. UNCHANGED clientVars /\ pc[h] \notin {"none", "send"}
  BY DEF Quiet, HandlerStep, At, Novel, Duplicate, FailOpen, OwnKey, LogDuplicate,
     LogDuplicateFails, LogPendingFails, MarkSent, MarkSentFails, MarkFailed, MarkFailedFails,
     Enqueue, EnqueueFails
<1>2. UNCHANGED slot
  BY DEF Quiet, HandlerStep, queueVars, Queue!Add, Novel, Duplicate, FailOpen, OwnKey,
     LogDuplicate, LogDuplicateFails, LogPendingFails, MarkSent, MarkSentFails, MarkFailed,
     MarkFailedFails, Enqueue, EnqueueFails
<1>3. Leave(h) \/ \E await \in Awaits \ {"send"} : Goto(h, await)
  BY DEF Quiet, HandlerStep, Awaits, Novel, Duplicate, FailOpen, OwnKey, LogDuplicate,
     LogDuplicateFails, LogPendingFails, MarkSent, MarkSentFails, MarkFailed, MarkFailedFails,
     Enqueue, EnqueueFails
<1> QED
  BY <1>1, <1>2, <1>3

LEMMA StepKinds ==
  ASSUME [Next]_vars
  PROVE  \/ \E h \in Handlers : Quiet(h) \/ LogPending(h) \/ SendSucceeds(h) \/ SendFails(h)
         \/ \E h \in Handlers, e \in Events : Deliver(h, e)
         \/ \E w \in Slots : JobSucceeds(w) \/ JobFails(w) \/ \E e \in Events : TakeJob(w, e)
         \/ \E c \in Callers : Send(c) \/ Retry(c) \/ Record(c)
         \/ \E e \in Events : \/ PromoteJob(e) \/ RecoverStalled(e) \/ LoseLock(e) \/ TrimJob(e) \/ EvictJob(e)
                              \/ RecordLate(e) \/ ExpireKey(e)
         \/ Crash
         \/ UNCHANGED vars
BY DEF Next, JobStep, SlotStep, CallStep, Quiet

LEMMA BackgroundShape ==
  ASSUME NEW e \in Events,
         \/ PromoteJob(e) \/ RecoverStalled(e) \/ LoseLock(e) \/ TrimJob(e) \/ EvictJob(e)
         \/ RecordLate(e) \/ ExpireKey(e)
  PROVE  UNCHANGED <<call, slot, posts, pc, event, log>>
BY DEF PromoteJob, RecoverStalled, LoseLock, TrimJob, EvictJob, RecordLate, ExpireKey, clientVars, queueVars,
   handlerVars, Queue!Promote, Queue!RecoverStalled, Queue!LoseLock, Queue!Trim, Queue!Evict,
   Client!RecordLate

LEMMA CallsBelongStep ==
  ASSUME TypeOK, CallsBelong, [Next]_vars
  PROVE  CallsBelong'
<1> USE DEF TypeOK, HandlerTypeOK, Client!ClientTypeOK, Queue!QueueTypeOK
<1>1. ASSUME NEW h \in Handlers, Quiet(h) PROVE CallsBelong'
  BY <1>1, QuietShape DEF CallsBelong, Leave, Goto, clientVars
<1>2. ASSUME NEW h \in Handlers, LogPending(h) PROVE CallsBelong'
  <2>1. /\ call' = [call EXCEPT ![h] = Client!NewCall(event[h])] /\ UNCHANGED slot
        /\ pc' = [pc EXCEPT ![h] = "send"] /\ h \notin Slots /\ h \in Callers
    BY <1>2, PipelineAssumption DEF LogPending, Client!BeginSend, queueVars, Goto, Callers
  <2> QED
    BY <2>1 DEF CallsBelong, Callers
<1>3. ASSUME NEW h \in Handlers, SendSucceeds(h) \/ SendFails(h) PROVE CallsBelong'
  <2>1. /\ call' = [call EXCEPT ![h] = Client!NoCall] /\ UNCHANGED slot
        /\ \E await \in Awaits : pc' = [pc EXCEPT ![h] = await]
        /\ h \notin Slots /\ h \in Callers
    BY <1>3, CloseShape, PipelineAssumption DEF SendSucceeds, SendFails, queueVars, Goto, Callers, Awaits
  <2> QED
    BY <2>1 DEF CallsBelong, Callers, Client!NoCall
<1>4. ASSUME NEW h \in Handlers, NEW e \in Events, Deliver(h, e) PROVE CallsBelong'
  BY <1>4 DEF Deliver, CallsBelong, clientVars, queueVars, At, None
<1>5. ASSUME NEW w \in Slots, JobSucceeds(w) \/ JobFails(w) PROVE CallsBelong'
  <2>1. /\ call' = [call EXCEPT ![w] = Client!NoCall] /\ slot' = [slot EXCEPT ![w] = Queue!Idle]
        /\ UNCHANGED pc /\ w \notin Handlers /\ w \in Callers
    BY <1>5, CloseShape, PipelineAssumption
    DEF JobSucceeds, JobFails, handlerVars, Callers, Queue!Complete, Queue!FailAttempt, Queue!Finish
  <2> QED
    BY <2>1 DEF CallsBelong, Callers, Client!NoCall
<1>6. ASSUME NEW w \in Slots, NEW e \in Events, TakeJob(w, e) PROVE CallsBelong'
  <2>1. /\ call' = [call EXCEPT ![w] = Client!NewCall(e)] /\ slot' = [slot EXCEPT ![w] = e]
        /\ UNCHANGED pc /\ w \notin Handlers /\ w \in Callers
    BY <1>6, PipelineAssumption DEF TakeJob, handlerVars, Callers, Client!BeginSend, Queue!Take
  <2> QED
    BY <2>1, EventAssumption DEF CallsBelong, Callers, Client!NewCall
<1>7. ASSUME NEW c \in Callers, Send(c) \/ Retry(c) \/ Record(c) PROVE CallsBelong'
  BY <1>7, ProgressShape DEF CallsBelong, Callers
<1>8. ASSUME NEW e \in Events,
             \/ PromoteJob(e) \/ RecoverStalled(e) \/ LoseLock(e) \/ TrimJob(e) \/ EvictJob(e)
             \/ RecordLate(e) \/ ExpireKey(e)
      PROVE  CallsBelong'
  BY <1>8, BackgroundShape DEF CallsBelong
<1>9. CASE Crash
  BY <1>9 DEF Crash, CallsBelong, Client!AbandonAll, Client!NoCall, Queue!DropSlots, Callers
<1>10. CASE UNCHANGED vars
  BY <1>10 DEF vars, clientVars, queueVars, handlerVars, CallsBelong
<1> QED
  BY StepKinds, <1>1, <1>2, <1>3, <1>4, <1>5, <1>6, <1>7, <1>8, <1>9, <1>10

-----------------------------------------------------------------------------
(***************************************************************************)
(* The history only grows, and the row of an event is written by whoever   *)
(* is at the await that writes it.                                         *)
(***************************************************************************)
LEMMA HistoryGrows ==
  ASSUME TypeOK, [Next]_vars
  PROVE  /\ \A e \in Events : history.claimed[e] > 0 => history'.claimed[e] > 0
         /\ history.leaky \subseteq history'.leaky
         /\ history.misjudged \subseteq history'.misjudged
         /\ history.dropped \subseteq history'.dropped
         /\ history.unacked \subseteq history'.unacked
         /\ history.dead \subseteq history'.dead
         /\ history.evicted \subseteq history'.evicted
<1> USE DEF TypeOK, HistoryTypeOK
<1> DEFINE Grown == /\ \A e \in Events : history.claimed[e] > 0 => history'.claimed[e] > 0
                    /\ history.leaky \subseteq history'.leaky
                    /\ history.misjudged \subseteq history'.misjudged
                    /\ history.dropped \subseteq history'.dropped
                    /\ history.unacked \subseteq history'.unacked
                    /\ history.dead \subseteq history'.dead
                    /\ history.evicted \subseteq history'.evicted
<1>1. CASE UNCHANGED history \/ history' = Buries
  BY <1>1 DEF Buries
<1>2. ASSUME NEW e, history' = Claims(e) \/ history' = [Claims(e) EXCEPT !.leaky = @ \cup {e}]
      PROVE  Grown
  <2>1. history'.claimed = [history.claimed EXCEPT ![e] = @ + 1]
    BY <1>2 DEF Claims
  <2>2. \A f \in Events : history.claimed[f] > 0 => history'.claimed[f] > 0
    BY <2>1
  <2>3. /\ history.leaky \subseteq history'.leaky /\ history'.misjudged = history.misjudged
        /\ history'.dropped = history.dropped /\ history'.unacked = history.unacked
        /\ history'.dead = history.dead /\ history'.evicted = history.evicted
    BY <1>2 DEF Claims
  <2> QED
    BY <2>2, <2>3
<1>3. ASSUME NEW e,
             \/ history' = [history EXCEPT !.leaky = @ \cup {e}]
             \/ history' = [history EXCEPT !.misjudged = @ \cup {e}]
             \/ history' = [history EXCEPT !.unacked = @ \cup {e}]
             \/ history' = [history EXCEPT !.evicted = @ \cup {e}]
      PROVE  Grown
  BY <1>3
<1>4. ASSUME NEW E, history' = Drops(E) PROVE Grown
  BY <1>4 DEF Drops
<1>5. \/ UNCHANGED history \/ history' = Buries
      \/ \E e : \/ history' = Claims(e) \/ history' = [Claims(e) EXCEPT !.leaky = @ \cup {e}]
                \/ history' = [history EXCEPT !.leaky = @ \cup {e}]
                \/ history' = [history EXCEPT !.misjudged = @ \cup {e}]
                \/ history' = [history EXCEPT !.unacked = @ \cup {e}]
                \/ history' = [history EXCEPT !.evicted = @ \cup {e}]
      \/ \E E : history' = Drops(E)
  BY DEF vars, Next, HandlerStep, JobStep, SlotStep, CallStep, Novel, Duplicate, FailOpen, OwnKey,
     LogDuplicate, LogDuplicateFails, LogPending, LogPendingFails, SendSucceeds, SendFails,
     MarkSent, MarkSentFails, MarkFailed, MarkFailedFails, Enqueue, EnqueueFails, TakeJob,
     JobSucceeds, JobFails, PromoteJob, LoseLock, RecoverStalled, TrimJob, EvictJob, Send, Retry, Record,
     RecordLate, ExpireKey, Crash, Deliver
<1> QED
  BY <1>1, <1>2, <1>3, <1>4, <1>5

\* The handler that inserts or updates the row of e, and what it writes.
Writes(h, e, status) ==
  /\ event[h] = e
  /\ \/ pc[h] = "logDuplicate" /\ status = "duplicate" /\ log[e] = Log!NoRow
     \/ pc[h] = "logPending" /\ status = "pending" /\ log[e] = Log!NoRow
     \/ pc[h] = "markSent" /\ status = "sent"
     \/ pc[h] = "markFailed" /\ status = "failed"

LEMMA LogMove ==
  ASSUME TypeOK, [Next]_vars
  PROVE  \A e \in Events : log'[e] # log[e] => \E h \in Handlers : Writes(h, e, log'[e])
<1> USE DEF TypeOK, Log!LogTypeOK
<1>1. ASSUME NEW h \in Handlers, HandlerStep(h)
      PROVE  \A e \in Events : log'[e] # log[e] => Writes(h, e, log'[e])
  <2>1. \/ UNCHANGED log
        \/ pc[h] = "logDuplicate" /\ Log!Insert(event[h], "duplicate")
        \/ pc[h] = "logPending" /\ Log!Insert(event[h], "pending")
        \/ pc[h] = "markSent" /\ Log!UpdateStatus(event[h], "sent")
        \/ pc[h] = "markFailed" /\ Log!UpdateStatus(event[h], "failed")
    BY <1>1 DEF HandlerStep, At, Novel, Duplicate, FailOpen, OwnKey, LogDuplicate,
       LogDuplicateFails, LogPending, LogPendingFails, SendSucceeds, SendFails, MarkSent,
       MarkSentFails, MarkFailed, MarkFailedFails, Enqueue, EnqueueFails
  <2> QED
    BY <2>1 DEF Writes, Log!Insert, Log!UpdateStatus, Log!HasRow
<1>2. UNCHANGED log \/ \E h \in Handlers : HandlerStep(h)
  BY DEF vars, Next, JobStep, SlotStep, CallStep, TakeJob, JobSucceeds, JobFails, PromoteJob,
     LoseLock, RecoverStalled, TrimJob, EvictJob, Send, Retry, Record, RecordLate, ExpireKey, Crash, Deliver
<1> QED
  BY <1>1, <1>2

\* A slot gets its job by taking it.
LEMMA SlotsMove ==
  ASSUME TypeOK, [Next]_vars
  PROVE  \A w \in Slots : \/ slot'[w] = slot[w] \/ slot'[w] = Queue!Idle
                           \/ \E f \in Events : TakeJob(w, f) /\ slot'[w] = f
<1> USE DEF TypeOK, Queue!QueueTypeOK
<1> DEFINE Moves == \A w \in Slots : \/ slot'[w] = slot[w] \/ slot'[w] = Queue!Idle
                                      \/ \E f \in Events : TakeJob(w, f) /\ slot'[w] = f
<1>1. ASSUME NEW v \in Slots, NEW f \in Events, TakeJob(v, f) PROVE Moves
  <2>1. slot' = [slot EXCEPT ![v] = f]
    BY <1>1 DEF TakeJob, Queue!Take
  <2> QED
    BY <1>1, <2>1
<1>2. ASSUME NEW v \in Slots, JobSucceeds(v) \/ JobFails(v) PROVE Moves
  BY <1>2 DEF JobSucceeds, JobFails, Queue!Complete, Queue!FailAttempt, Queue!Finish
<1>3. ASSUME UNCHANGED slot PROVE Moves
  BY <1>3
<1>4. ASSUME Crash PROVE Moves
  BY <1>4 DEF Crash, Queue!DropSlots
<1>5. ASSUME NEW h \in Handlers, LogPending(h) \/ SendSucceeds(h) \/ SendFails(h) PROVE UNCHANGED slot
  BY <1>5 DEF LogPending, SendSucceeds, SendFails, queueVars
<1>6. \/ UNCHANGED slot \/ Crash
      \/ \E w \in Slots : JobSucceeds(w) \/ JobFails(w) \/ \E f \in Events : TakeJob(w, f)
  BY <1>5, StepKinds, QuietShape, ProgressShape, BackgroundShape DEF Deliver, queueVars, vars
<1> QED
  BY <1>1, <1>2, <1>3, <1>4, <1>6

\* Nothing happens to an event nobody won.
LEMMA ClaimedFirstStep ==
  ASSUME Inv, CallsBelong, ClaimedFirst, [Next]_vars
  PROVE  ClaimedFirst'
<1> USE DEF Inv, TypeOK, HandlerTypeOK
<1> SUFFICES ASSUME NEW e \in Events, history'.claimed[e] = 0
             PROVE  /\ log'[e] # "sent" /\ posts'[e] = 0 /\ job'[e].state = "none"
                    /\ \A w \in Slots : slot'[w] # e
  BY DEF ClaimedFirst
<1>1. history.claimed[e] = 0
  BY HistoryGrows DEF HistoryTypeOK
<1>2. \A h \in Handlers : pc[h] \in Claiming => event[h] # e
  BY <1>1 DEF KeyGuards
<1>3. log'[e] # "sent"
  BY <1>1, <1>2, LogMove DEF Writes, Claiming, ClaimedFirst
<1>4. posts'[e] = 0
  <2>1. \A c \in Callers : call[c].step # "none" => call[c].event # e
    BY <1>1, <1>2 DEF CallsBelong, ClaimedFirst, ReceivedFirst, Callers, Claiming
  <2>2. posts'[e] \in Nat
    BY TypeStep DEF Client!ClientTypeOK
  <2> QED
    BY <1>1, <2>1, <2>2, PostsMove DEF ClaimedFirst
<1>5. job'[e].state = "none"
  BY <1>1, <1>2, JobsMove DEF Claiming, ClaimedFirst
<1>6. \A w \in Slots : slot'[w] # e
  <2>1. \A w \in Slots : ~TakeJob(w, e) /\ slot[w] # e
    BY <1>1 DEF TakeJob, Queue!Take, ClaimedFirst
  <2> QED
    BY <2>1, SlotsMove, EventAssumption
<1> QED
  BY <1>3, <1>4, <1>5, <1>6

-----------------------------------------------------------------------------
(***************************************************************************)
(* No silent loss.  A claimant leaves with an answer, a job or a reason,   *)
(* and a job ends completed, by a slot whose call was recorded, or among   *)
(* the dead letters.                                                       *)
(***************************************************************************)
LEMMA JobEnds ==
  ASSUME TypeOK, [Next]_vars, NEW e \in Events
  PROVE  /\ job'[e].state = "completed" =>
              job[e].state = "completed" \/ \E w \in Slots : JobSucceeds(w) /\ slot[w] = e
         /\ job'[e].state = "failed" => job[e].state = "failed" \/ history' = Buries
         /\ job'[e].state = "stray" => job[e].state = "stray" \/ EvictJob(e)
         /\ job[e].state # "none" => job'[e].state # "none" \/ TrimJob(e) \/ EvictJob(e)
<1> USE DEF TypeOK, Queue!QueueTypeOK
<1> DEFINE Ends == /\ job'[e].state = "completed" =>
                        job[e].state = "completed" \/ \E w \in Slots : JobSucceeds(w) /\ slot[w] = e
                   /\ job'[e].state = "failed" => job[e].state = "failed" \/ history' = Buries
                   /\ job'[e].state = "stray" => job[e].state = "stray" \/ EvictJob(e)
                   /\ job[e].state # "none" => job'[e].state # "none" \/ TrimJob(e) \/ EvictJob(e)
<1>1. ASSUME NEW h \in Handlers, Enqueue(h) \/ EnqueueFails(h) PROVE Ends
  <2>1. \/ job' = job
        \/ job[event[h]].state = "none" /\ job' = [job EXCEPT ![event[h]] = Queue!NewJob]
    BY <1>1 DEF Enqueue, EnqueueFails, Queue!Add, queueVars
  <2> QED
    BY <2>1 DEF Queue!NewJob
<1>2. ASSUME NEW w \in Slots, JobSucceeds(w) PROVE Ends
  <2>1. \/ job' = job
        \/ \E new : job' = [job EXCEPT ![slot[w]] = new] /\ new.state = "completed"
    <3>1. ASSUME Queue!Holds(w)
          PROVE  \E new : job' = [job EXCEPT ![slot[w]] = new] /\ new.state = "completed"
      <4> DEFINE done == [job[slot[w]] EXCEPT !.state = "completed", !.made = @ + 1, !.lock = Queue!Nobody]
      <4>1. job' = [job EXCEPT ![slot[w]] = done]
        BY <1>2, <3>1 DEF JobSucceeds, Queue!Complete, Queue!Finish
      <4>2. job[slot[w]] \in Queue!Job
        BY <1>2 DEF JobSucceeds
      <4>3. done.state = "completed"
        BY <4>2 DEF Queue!Job
      <4> QED
        BY <4>1, <4>3
    <3>2. ~Queue!Holds(w) => job' = job
      BY <1>2 DEF JobSucceeds, Queue!Complete, Queue!Finish
    <3> QED
      BY <3>1, <3>2
  <2> QED
    BY <1>2, <2>1
<1>3. ASSUME NEW w \in Slots, JobFails(w) PROVE Ends
  <2>1. history' = Buries
    BY <1>3 DEF JobFails
  <2>2. \/ job' = job
        \/ \E new : job' = [job EXCEPT ![slot[w]] = new] /\ new.state \in {"delayed", "failed"}
    <3>1. ASSUME Queue!Holds(w)
          PROVE  \E new : job' = [job EXCEPT ![slot[w]] = new] /\ new.state \in {"delayed", "failed"}
      <4> DEFINE done == [job[slot[w]] EXCEPT
                            !.state = IF job[slot[w]].made + 1 < Attempts THEN "delayed" ELSE "failed",
                            !.made = @ + 1, !.lock = Queue!Nobody]
      <4>1. job' = [job EXCEPT ![slot[w]] = done]
        BY <1>3, <3>1 DEF JobFails, Queue!FailAttempt, Queue!Finish
      <4>2. job[slot[w]] \in Queue!Job
        BY <1>3 DEF JobFails
      <4>3. done.state \in {"delayed", "failed"}
        BY <4>2 DEF Queue!Job
      <4> QED
        BY <4>1, <4>3
    <3>2. ~Queue!Holds(w) => job' = job
      BY <1>3 DEF JobFails, Queue!FailAttempt, Queue!Finish
    <3> QED
      BY <3>1, <3>2
  <2> QED
    BY <2>1, <2>2
<1>4. ASSUME NEW w \in Slots, NEW f \in Events, TakeJob(w, f) PROVE Ends
  BY <1>4 DEF TakeJob, Queue!Take, Queue!Job
<1>5. ASSUME NEW f \in Events, PromoteJob(f) \/ LoseLock(f) PROVE Ends
  BY <1>5 DEF PromoteJob, Queue!Promote, LoseLock, Queue!LoseLock, Queue!Job
<1>6. ASSUME NEW f \in Events, RecoverStalled(f) PROVE Ends
  <2>1. history' = Buries
    BY <1>6 DEF RecoverStalled
  <2>2. /\ \A g \in Events \ {f} : job'[g] = job[g]
        /\ job'[f].state \in {"waiting", "failed"}
    BY <1>6 DEF RecoverStalled, Queue!RecoverStalled, Queue!Job
  <2> QED
    BY <2>1, <2>2
<1>7. ASSUME NEW f \in Events, TrimJob(f) \/ EvictJob(f) PROVE Ends
  BY <1>7 DEF TrimJob, Queue!Trim, EvictJob, Queue!Evict, Queue!Stray, Queue!NoJob
<1>8. CASE Crash
  <2>1. job'[e].state = job[e].state
    BY <1>8 DEF Crash, Queue!DropSlots, Queue!Job
  <2> QED
    BY <2>1
<1>9. CASE UNCHANGED job
  BY <1>9
<1>10. \/ UNCHANGED job \/ Crash
       \/ \E h \in Handlers : Enqueue(h) \/ EnqueueFails(h)
       \/ \E w \in Slots : JobSucceeds(w) \/ JobFails(w) \/ \E f \in Events : TakeJob(w, f)
       \/ \E f \in Events : PromoteJob(f) \/ LoseLock(f) \/ RecoverStalled(f) \/ TrimJob(f) \/ EvictJob(f)
  BY DEF vars, queueVars, Next, HandlerStep, JobStep, SlotStep,
     CallStep, Novel, Duplicate, FailOpen, OwnKey, LogDuplicate, LogDuplicateFails, LogPending,
     LogPendingFails, SendSucceeds, SendFails, MarkSent, MarkSentFails, MarkFailed,
     MarkFailedFails, Send, Retry, Record, RecordLate, ExpireKey, Deliver
<1> QED
  BY <1>1, <1>2, <1>3, <1>4, <1>5, <1>6, <1>7, <1>8, <1>9, <1>10

LEMMA JobTellsStep ==
  ASSUME Inv, CallsBelong, JobTells, [Next]_vars
  PROVE  JobTells'
<1> USE DEF Inv, TypeOK
<1> SUFFICES ASSUME NEW e \in Events
             PROVE  /\ job'[e].state = "completed" => received'[e] > 0
                    /\ job'[e].state = "failed" => e \in history'.dead
                    /\ job'[e].state = "stray" =>
                         received'[e] > 0 \/ e \in history'.dead \cup history'.evicted
  BY DEF JobTells
<1>1. ASSUME NEW w \in Slots, JobSucceeds(w), slot[w] = e PROVE received[e] > 0
  BY <1>1 DEF JobSucceeds, Client!Succeed, CallsBelong, ReceivedFirst, Callers
<1>2. job'[e].state = "completed" => received'[e] > 0
  BY <1>1, JobEnds, ReceivedGrows DEF JobTells
<1>3. history' = Buries /\ job'[e].state = "failed" => e \in history'.dead
  BY DEF Buries, HistoryTypeOK
<1>4. job'[e].state = "failed" => e \in history'.dead
  BY <1>3, JobEnds, HistoryGrows DEF JobTells
<1>5. ASSUME EvictJob(e) PROVE received'[e] > 0 \/ e \in history'.dead \cup history'.evicted
  <2>1. job[e].state \in Queue!JobStates \ {"none"}
    BY <1>5 DEF EvictJob, Queue!Evict, Queue!QueueTypeOK, Queue!Job
  <2>2. Queue!Live(e) => e \in history'.evicted
    BY <1>5 DEF EvictJob, HistoryTypeOK
  <2> QED
    BY <2>1, <2>2, ReceivedGrows, HistoryGrows DEF JobTells, Queue!JobStates, Queue!Live
<1>6. job'[e].state = "stray" => received'[e] > 0 \/ e \in history'.dead \cup history'.evicted
  BY <1>5, JobEnds, ReceivedGrows, HistoryGrows DEF JobTells
<1> QED
  BY <1>2, <1>4, <1>6

\* How a handler stops being a claimant.
LEMMA ClaimantMoves ==
  ASSUME TypeOK, [Next]_vars, NEW e \in Events, NEW h \in Claimants(e)
  PROVE  \/ h \in Claimants(e)'
         \/ e \in history'.dropped
         \/ MarkSent(h)
         \/ Enqueue(h)
<1> USE DEF TypeOK, HandlerTypeOK
<1>1. event[h] = e /\ pc[h] \in Claiming /\ h \in Handlers
  BY DEF Claimants
<1>2. ASSUME NEW g \in Handlers, HandlerStep(g), g # h PROVE h \in Claimants(e)'
  <2>1. Leave(g) \/ \E await \in Awaits : Goto(g, await)
    BY <1>2 DEF HandlerStep, Awaits, Novel, Duplicate, FailOpen, OwnKey, LogDuplicate,
         LogDuplicateFails, LogPending, LogPendingFails, SendSucceeds, SendFails, MarkSent,
         MarkSentFails, MarkFailed, MarkFailedFails, Enqueue, EnqueueFails
  <2> QED
    BY <1>1, <1>2, <2>1 DEF Leave, Goto, Claimants
<1>3. ASSUME HandlerStep(h), ~MarkSent(h), ~Enqueue(h)
      PROVE  h \in Claimants(e)' \/ e \in history'.dropped
  <2>1. \/ \E await \in Claiming : Goto(h, await)
        \/ history' = Drops({e})
    BY <1>1, <1>3 DEF HandlerStep, Claiming, At, Novel, Duplicate, FailOpen, OwnKey, LogDuplicate,
         LogDuplicateFails, LogPending, LogPendingFails, SendSucceeds, SendFails, MarkSent,
         MarkSentFails, MarkFailed, MarkFailedFails, Enqueue, EnqueueFails
  <2>2. history' = Drops({e}) => e \in history'.dropped
    BY DEF Drops, HistoryTypeOK
  <2> QED
    BY <1>1, <2>1, <2>2 DEF Goto, Claimants
<1>4. ASSUME NEW g \in Handlers, NEW f \in Events, Deliver(g, f) PROVE h \in Claimants(e)'
  BY <1>1, <1>4 DEF Deliver, At, Claimants, Claiming, None
<1>5. CASE Crash
  <2>1. history' = Drops({f \in Events : Claimants(f) # {}})
    BY <1>5 DEF Crash
  <2>2. e \in history'.dropped
    BY <2>1 DEF Drops, HistoryTypeOK
  <2> QED
    BY <2>2
<1>6. CASE UNCHANGED <<pc, event>>
  BY <1>1, <1>6 DEF Claimants
<1> QED
  BY <1>2, <1>3, <1>4, <1>5, <1>6 DEF vars, handlerVars, Next, JobStep, SlotStep, CallStep, TakeJob,
     JobSucceeds, JobFails, PromoteJob, LoseLock, RecoverStalled, TrimJob, EvictJob, Send, Retry, Record,
     RecordLate, ExpireKey

\* An event is won by the handler at the deduplication that goes on to insert.
LEMMA ClaimedMove ==
  ASSUME TypeOK, [Next]_vars
  PROVE  \A e \in Events :
           \/ history'.claimed[e] = history.claimed[e]
           \/ \E h \in Handlers : (Novel(h) \/ FailOpen(h)) /\ h \in Claimants(e)'
<1> USE DEF TypeOK, HandlerTypeOK, HistoryTypeOK
<1>1. ASSUME NEW h \in Handlers, Novel(h) \/ FailOpen(h), NEW e \in Events
      PROVE  history'.claimed[e] = history.claimed[e] \/ h \in Claimants(e)'
  <2>1. history'.claimed = [history.claimed EXCEPT ![event[h]] = @ + 1]
    BY <1>1 DEF Novel, FailOpen, Claims
  <2>2. pc' = [pc EXCEPT ![h] = "logPending"] /\ UNCHANGED event
    BY <1>1 DEF Novel, FailOpen, Goto
  <2> QED
    BY <2>1, <2>2 DEF Claimants, Claiming
<1>2. \/ history'.claimed = history.claimed
      \/ \E h \in Handlers : Novel(h) \/ FailOpen(h)
  BY DEF vars, Buries, Drops, Next, HandlerStep, JobStep, SlotStep, CallStep, Duplicate, OwnKey,
     LogDuplicate, LogDuplicateFails, LogPending, LogPendingFails, SendSucceeds, SendFails,
     MarkSent, MarkSentFails, MarkFailed, MarkFailedFails, Enqueue, EnqueueFails, TakeJob,
     JobSucceeds, JobFails, PromoteJob, LoseLock, RecoverStalled, TrimJob, EvictJob, Send, Retry, Record,
     RecordLate, ExpireKey, Crash, Deliver
<1> QED
  BY <1>1, <1>2

LEMMA NoSilentLossStep ==
  ASSUME Inv, CallsBelong, JobTells, NoSilentLoss, [Next]_vars
  PROVE  NoSilentLoss'
<1> USE DEF Inv, TypeOK, HandlerTypeOK
<1> DEFINE Fate(e) == \/ Claimants(e) # {} \/ Queue!Live(e)
                      \/ received[e] > 0
                      \/ e \in GivenUp
<1> SUFFICES ASSUME NEW e \in Events, history'.claimed[e] > 0 PROVE Fate(e)'
  BY DEF NoSilentLoss
<1>1. job'[e].state # "none" => Fate(e)'
  <2>1. job'[e].state \in Queue!JobStates
    BY TypeStep DEF Queue!QueueTypeOK, Queue!Job
  <2> QED
    BY <2>1, JobTellsStep DEF JobTells, Queue!JobStates, Queue!Live, GivenUp
<1>2. CASE history.claimed[e] # history'.claimed[e]
  BY <1>2, ClaimedMove
<1>3. CASE history.claimed[e] > 0
  <2>1. ASSUME NEW h \in Claimants(e) PROVE Fate(e)'
    <3>1. ASSUME MarkSent(h) PROVE received[e] > 0
      BY <3>1 DEF MarkSent, At, Claimants, ReceivedFirst
    <3>2. ASSUME Enqueue(h) PROVE job'[e].state # "none"
      BY <3>2 DEF Enqueue, Queue!Add, Queue!NewJob, Queue!QueueTypeOK, Claimants
    <3> QED
      BY <2>1, <3>1, <3>2, <1>1, ClaimantMoves, ReceivedGrows DEF GivenUp
  <2>2. CASE Queue!Live(e)
    <3>1. job[e].state # "none" /\ ~TrimJob(e)
      BY <2>2 DEF Queue!Live, TrimJob, Queue!Trim
    <3>2. EvictJob(e) => e \in history'.evicted
      BY <2>2 DEF EvictJob, HistoryTypeOK
    <3> QED
      BY <3>1, <3>2, <1>1, JobEnds DEF GivenUp
  <2>3. CASE received[e] > 0
    BY <2>3, ReceivedGrows
  <2>4. CASE e \in GivenUp
    BY <2>4, HistoryGrows DEF GivenUp
  <2> QED
    BY <1>3, <2>1, <2>2, <2>3, <2>4 DEF NoSilentLoss
<1> QED
  BY <1>2, <1>3

-----------------------------------------------------------------------------
(***************************************************************************)
(* What the rows say.  The row of a claimant's event moves on with it:     *)
(* 'pending' until the outcome is recorded, and 'sent' only at its end.    *)
(***************************************************************************)
LEMMA KeyTellsStep ==
  ASSUME TypeOK, KeyTells, [Next]_vars
  PROVE  KeyTells'
<1> USE DEF TypeOK, HandlerTypeOK, HistoryTypeOK
<1>1. \A e \in keys' : history'.claimed[e] > 0 \/ e \in history'.misjudged
  <2>1. ASSUME NEW h \in Handlers, Novel(h) \/ FailOpen(h)
        PROVE  \A e \in keys' \ keys : history'.claimed[e] > 0
    <3>1. event[h] \in Events /\ history'.claimed = [history.claimed EXCEPT ![event[h]] = @ + 1]
      BY <2>1 DEF Novel, FailOpen, Claims, At, None
    <3>2. keys' \ keys \subseteq {event[h]}
      BY <2>1 DEF Novel, FailOpen, Dedup!AnswerNovel, Dedup!AnswerFailOpen
    <3> QED
      BY <3>1, <3>2
  <2>2. ASSUME NEW h \in Handlers, OwnKey(h)
        PROVE  \A e \in keys' \ keys : e \in history'.misjudged
    BY <2>2 DEF OwnKey, Dedup!AnswerOwnKey
  <2>3. \/ keys' \subseteq keys
        \/ \E h \in Handlers : Novel(h) \/ FailOpen(h) \/ OwnKey(h)
    BY DEF vars, Next, HandlerStep, JobStep, SlotStep, CallStep, Duplicate, Dedup!AnswerDuplicate,
       LogDuplicate, LogDuplicateFails, LogPending, LogPendingFails, SendSucceeds, SendFails,
       MarkSent, MarkSentFails, MarkFailed, MarkFailedFails, Enqueue, EnqueueFails, TakeJob,
       JobSucceeds, JobFails, PromoteJob, LoseLock, RecoverStalled, TrimJob, EvictJob, Send, Retry, Record,
       RecordLate, ExpireKey, Dedup!Expire, Crash, Deliver
  <2> QED
    BY <2>1, <2>2, <2>3, HistoryGrows DEF KeyTells, Dedup!KeysTypeOK
<1>2. \A h \in Handlers :
        pc'[h] = "logDuplicate" => history'.claimed[event'[h]] > 0 \/ event'[h] \in history'.misjudged
  <2>1. ASSUME NEW h \in Handlers, pc'[h] = "logDuplicate"
        PROVE  \/ pc[h] = "logDuplicate" /\ event'[h] = event[h]
               \/ Duplicate(h) \/ OwnKey(h)
    <3>1. ASSUME NEW g \in Handlers, HandlerStep(g)
          PROVE  \/ pc[h] = "logDuplicate" /\ event'[h] = event[h]
                 \/ Duplicate(h) \/ OwnKey(h)
      <4>1. \/ Leave(g) \/ \E await \in Awaits \ {"logDuplicate"} : Goto(g, await)
            \/ Goto(g, "logDuplicate") /\ (Duplicate(g) \/ OwnKey(g))
        BY <3>1 DEF HandlerStep, Awaits, Novel, Duplicate, FailOpen, OwnKey, LogDuplicate,
           LogDuplicateFails, LogPending, LogPendingFails, SendSucceeds, SendFails, MarkSent,
           MarkSentFails, MarkFailed, MarkFailedFails, Enqueue, EnqueueFails
      <4> QED
        BY <2>1, <4>1 DEF Leave, Goto, None
    <3>2. ASSUME NEW g \in Handlers, NEW e \in Events, Deliver(g, e)
          PROVE  pc[h] = "logDuplicate" /\ event'[h] = event[h]
      BY <2>1, <3>2 DEF Deliver
    <3>3. ~Crash
      BY <2>1 DEF Crash, None
    <3>4. \/ UNCHANGED <<pc, event>> \/ Crash
          \/ \E g \in Handlers : HandlerStep(g) \/ \E e \in Events : Deliver(g, e)
      BY DEF vars, handlerVars, Next, JobStep, SlotStep, CallStep, TakeJob, JobSucceeds, JobFails,
         PromoteJob, LoseLock, RecoverStalled, TrimJob, EvictJob, Send, Retry, Record, RecordLate, ExpireKey
    <3> QED
      BY <2>1, <3>1, <3>2, <3>3, <3>4
  <2>2. ASSUME NEW h \in Handlers, pc[h] = "logDuplicate", event'[h] = event[h]
        PROVE  history'.claimed[event'[h]] > 0 \/ event'[h] \in history'.misjudged
    BY <2>2, HistoryGrows DEF KeyTells, None
  <2>3. ASSUME NEW h \in Handlers, Duplicate(h)
        PROVE  history'.claimed[event'[h]] > 0 \/ event'[h] \in history'.misjudged
    BY <2>3, HistoryGrows DEF Duplicate, Dedup!AnswerDuplicate, Goto, KeyTells, Dedup!KeysTypeOK
  <2>4. ASSUME NEW h \in Handlers, OwnKey(h)
        PROVE  event'[h] \in history'.misjudged
    BY <2>4 DEF OwnKey, Goto
  <2> QED
    BY <2>1, <2>2, <2>3, <2>4
<1> QED
  BY <1>1, <1>2 DEF KeyTells

LEMMA DuplicateStep ==
  ASSUME TypeOK, KeyTells, DuplicateHasOriginal, [Next]_vars
  PROVE  DuplicateHasOriginal'
<1> SUFFICES ASSUME NEW e \in Events, log'[e] = "duplicate"
             PROVE  history'.claimed[e] > 0 \/ e \in history'.misjudged
  BY DEF DuplicateHasOriginal
<1>1. CASE log[e] = "duplicate"
  BY <1>1, HistoryGrows DEF DuplicateHasOriginal
<1>2. ASSUME NEW h \in Handlers, Writes(h, e, "duplicate")
      PROVE  history.claimed[e] > 0 \/ e \in history.misjudged
  BY <1>2 DEF Writes, KeyTells
<1> QED
  BY <1>1, <1>2, LogMove, HistoryGrows

\* A handler that is at the await after 'failed' was written, or became one of
\* the claimants, in this step.
LEMMA ArrivesAtEnqueue ==
  ASSUME TypeOK, [Next]_vars, NEW h \in Handlers, pc'[h] = "enqueue"
  PROVE  \/ MarkFailed(h) /\ event'[h] = event[h]
         \/ pc[h] = "enqueue" /\ event'[h] = event[h]
<1> USE DEF TypeOK, HandlerTypeOK
<1>1. ASSUME NEW g \in Handlers, HandlerStep(g)
      PROVE  \/ pc[h] = "enqueue" /\ event'[h] = event[h]
             \/ MarkFailed(h) /\ event'[h] = event[h]
  <2>1. \/ Leave(g) \/ \E await \in Awaits \ {"enqueue"} : Goto(g, await)
        \/ Goto(g, "enqueue") /\ MarkFailed(g)
    BY <1>1 DEF HandlerStep, Awaits, Novel, Duplicate, FailOpen, OwnKey, LogDuplicate,
       LogDuplicateFails, LogPending, LogPendingFails, SendSucceeds, SendFails, MarkSent,
       MarkSentFails, MarkFailed, MarkFailedFails, Enqueue, EnqueueFails
  <2> QED
    BY <2>1 DEF Leave, Goto, None
<1>2. ASSUME NEW g \in Handlers, NEW e \in Events, Deliver(g, e)
      PROVE  pc[h] = "enqueue" /\ event'[h] = event[h]
  BY <1>2 DEF Deliver
<1>3. ~Crash
  BY DEF Crash, None
<1> QED
  BY <1>1, <1>2, <1>3 DEF vars, handlerVars, Next, JobStep, SlotStep, CallStep, TakeJob, JobSucceeds,
     JobFails, PromoteJob, LoseLock, RecoverStalled, TrimJob, EvictJob, Send, Retry, Record, RecordLate,
     ExpireKey

LEMMA BecomesClaimant ==
  ASSUME TypeOK, [Next]_vars, NEW h \in Handlers, pc'[h] \in Claiming
  PROVE  /\ event'[h] = event[h]
         /\ pc[h] \in Claiming \/ Novel(h) \/ FailOpen(h)
<1> USE DEF TypeOK, HandlerTypeOK
<1>1. ASSUME NEW g \in Handlers, HandlerStep(g)
      PROVE  event'[h] = event[h] /\ (pc[h] \in Claiming \/ Novel(h) \/ FailOpen(h))
  <2>1. \/ Leave(g) \/ Goto(g, "logDuplicate")
        \/ \E await \in Claiming : Goto(g, await) /\ pc[g] \in Claiming
        \/ Goto(g, "logPending") /\ (Novel(g) \/ FailOpen(g))
    BY <1>1 DEF HandlerStep, Claiming, At, Novel, Duplicate, FailOpen, OwnKey, LogDuplicate,
       LogDuplicateFails, LogPending, LogPendingFails, SendSucceeds, SendFails, MarkSent,
       MarkSentFails, MarkFailed, MarkFailedFails, Enqueue, EnqueueFails
  <2> QED
    BY <2>1 DEF Leave, Goto, None, Claiming
<1>2. ASSUME NEW g \in Handlers, NEW e \in Events, Deliver(g, e)
      PROVE  pc[h] \in Claiming /\ event'[h] = event[h]
  BY <1>2 DEF Deliver, Claiming
<1>3. ~Crash
  BY DEF Crash, Claiming, None
<1> QED
  BY <1>1, <1>2, <1>3 DEF vars, handlerVars, Next, JobStep, SlotStep, CallStep, TakeJob, JobSucceeds,
     JobFails, PromoteJob, LoseLock, RecoverStalled, TrimJob, EvictJob, Send, Retry, Record, RecordLate,
     ExpireKey

LEMMA RowTellsStep ==
  ASSUME Inv, ClaimedFirst, RowTells, [Next]_vars
  PROVE  RowTells'
<1> USE DEF Inv, TypeOK, HandlerTypeOK
<1>1. ASSUME NEW h \in Handlers, pc'[h] = "enqueue" PROVE log'[event'[h]] \in {"sent", "failed"}
  <2>1. event[h] \in Events
    BY <1>1, ArrivesAtEnqueue DEF MarkFailed, At, None
  <2>2. CASE MarkFailed(h) /\ event'[h] = event[h]
    BY <2>1, <2>2 DEF MarkFailed, At, Log!UpdateStatus, Log!LogTypeOK, RowFirst, Claiming
  <2>3. CASE pc[h] = "enqueue" /\ event'[h] = event[h]
    <3>1. log[event[h]] \in {"sent", "failed"}
      BY <2>3 DEF RowTells
    <3>2. log'[event[h]] # log[event[h]] => log'[event[h]] \in {"sent", "failed"}
      BY <2>1, <3>1, LogMove DEF Writes, Log!NoRow
    <3> QED
      BY <2>3, <3>1, <3>2
  <2> QED
    BY <1>1, <2>2, <2>3, ArrivesAtEnqueue
<1>2. ASSUME NEW h \in Handlers, pc'[h] \in Claiming, event'[h] \notin history'.leaky \cup history'.unacked
      PROVE  log'[event'[h]] # "sent"
  <2> DEFINE e == event[h]
  <2>1. /\ event'[h] = e /\ e \in Events
        /\ e \notin history.leaky \cup history.unacked
    BY <1>2, BecomesClaimant, HistoryGrows DEF Novel, FailOpen, At, Claiming, None
  <2>2. CASE pc[h] \in Claiming
    <3>1. log[e] # "sent" /\ h \in Claimants(e)
      BY <2>1, <2>2 DEF RowTells, Claimants
    <3>2. ASSUME NEW g \in Handlers, Writes(g, e, "sent") PROVE pc[h] = "markSent"
      <4>1. g \in Claimants(e) /\ pc[g] = "markSent"
        BY <3>2 DEF Writes, Claimants, Claiming
      <4> QED
        BY <2>1, <3>1, <4>1 DEF OneClaim
    <3>3. ASSUME log'[e] = "sent" PROVE FALSE
      <4>1. pc[h] = "markSent"
        BY <3>1, <3>2, <3>3, <2>1, LogMove
      <4>2. HandlerStep(h)
        <5>1. UNCHANGED log \/ \E g \in Handlers : HandlerStep(g)
          BY DEF vars, Next, JobStep, SlotStep, CallStep, TakeJob, JobSucceeds, JobFails,
             PromoteJob, LoseLock, RecoverStalled, TrimJob, EvictJob, Send, Retry, Record, RecordLate,
             ExpireKey, Crash, Deliver
        <5>2. PICK g \in Handlers : HandlerStep(g)
          BY <3>1, <3>3, <5>1
        <5>3. \/ UNCHANGED log
              \/ pc[g] = "logDuplicate" /\ Log!Insert(event[g], "duplicate")
              \/ pc[g] = "logPending" /\ Log!Insert(event[g], "pending")
              \/ pc[g] = "markSent" /\ Log!UpdateStatus(event[g], "sent")
              \/ pc[g] = "markFailed" /\ Log!UpdateStatus(event[g], "failed")
          BY <5>2 DEF HandlerStep, At, Novel, Duplicate, FailOpen, OwnKey, LogDuplicate,
             LogDuplicateFails, LogPending, LogPendingFails, SendSucceeds, SendFails, MarkSent,
             MarkSentFails, MarkFailed, MarkFailedFails, Enqueue, EnqueueFails
        <5>4. pc[g] = "markSent" /\ event[g] = e
          BY <2>1, <3>1, <3>3, <5>3 DEF Log!Insert, Log!UpdateStatus, Log!LogTypeOK
        <5> QED
          BY <2>1, <3>1, <5>2, <5>4 DEF OneClaim, Claimants, Claiming
      <4>3. MarkSent(h) \/ MarkSentFails(h)
        BY <4>1, <4>2 DEF HandlerStep, At, Novel, Duplicate, FailOpen, OwnKey, LogDuplicate,
           LogDuplicateFails, LogPending, LogPendingFails, SendSucceeds, SendFails, MarkFailed,
           MarkFailedFails, Enqueue, EnqueueFails
      <4>4. CASE MarkSent(h)
        BY <1>2, <4>4 DEF MarkSent, Leave, None, Claiming
      <4>5. CASE MarkSentFails(h)
        BY <1>2, <2>1, <3>1, <3>3, <4>5 DEF MarkSentFails, HistoryTypeOK
      <4> QED
        BY <4>3, <4>4, <4>5
    <3> QED
      BY <2>1, <3>3
  <2>3. CASE Novel(h) \/ FailOpen(h)
    <3>1. ASSUME FailOpen(h) PROVE FALSE
      <4>1. history'.leaky = history.leaky \cup {e}
        BY <3>1 DEF FailOpen, Claims
      <4> QED
        BY <1>2, <2>1, <4>1
    <3>2. history.claimed[e] = 0 /\ UNCHANGED log
      BY <2>1, <2>3, <3>1 DEF Novel, Dedup!AnswerNovel, KeyGuards, HistoryTypeOK
    <3> QED
      BY <2>1, <3>2 DEF ClaimedFirst
  <2> QED
    BY <1>2, <2>2, <2>3, BecomesClaimant
<1> QED
  BY <1>1, <1>2 DEF RowTells

LEMMA PendingStep ==
  ASSUME Inv, RowTells, PendingIsTransient, [Next]_vars
  PROVE  PendingIsTransient'
<1> USE DEF Inv, TypeOK, HandlerTypeOK
<1> SUFFICES ASSUME NEW e \in Events, log'[e] = "pending"
             PROVE  Claimants(e)' # {} \/ e \in history'.dropped
  BY DEF PendingIsTransient
<1>1. ASSUME NEW h \in Claimants(e) PROVE Claimants(e)' # {} \/ e \in history'.dropped
  <2>1. ~MarkSent(h)
    BY <1>1 DEF MarkSent, At, Claimants, Claiming, RowFirst, Log!UpdateStatus, Log!LogTypeOK
  <2>2. ~Enqueue(h)
    BY <1>1 DEF Enqueue, At, Claimants, RowTells
  <2> QED
    BY <2>1, <2>2, ClaimantMoves
<1>2. CASE log[e] = "pending"
  BY <1>1, <1>2, HistoryGrows DEF PendingIsTransient
<1>3. ASSUME NEW h \in Handlers, Writes(h, e, "pending") PROVE h \in Claimants(e)
  BY <1>3 DEF Writes, Claimants, Claiming
<1> QED
  BY <1>1, <1>2, <1>3, LogMove

\* Once the row says 'sent', no claimant is left to overwrite it.
LEMMA SentStays ==
  ASSUME Inv, RowTells, [Next]_vars, NEW e \in Events, log[e] = "sent",
         e \notin history'.leaky \cup history'.unacked
  PROVE  log'[e] = "sent"
<1>1. e \notin history.leaky \cup history.unacked
  BY HistoryGrows DEF Inv
<1>2. ASSUME NEW h \in Handlers, NEW status, Writes(h, e, status), status # "sent" PROVE FALSE
  BY <1>1, <1>2 DEF Writes, RowTells, Claiming, Log!NoRow
<1> QED
  BY <1>2, LogMove DEF Inv

-----------------------------------------------------------------------------
(***************************************************************************)
(* The budget of requests.  Every execution of a job adds 1 + Retries to   *)
(* what the slots may still send and to the budget; every request takes    *)
(* one from the former.                                                    *)
(***************************************************************************)
LEMMA BudgetArith ==
  /\ \A n \in Nat : Budget(n) \in Nat /\ Budget(n + 1) = Budget(n) + (1 + Retries)
  /\ \A m, n \in Nat : m <= n => Budget(m) <= Budget(n)
  /\ \A n \in Nat : 1 + Retries <= Budget(n)
<1> DEFINE k == 1 + Retries
<1>1. k \in Nat /\ k >= 1
  BY PipelineAssumption
<1>2. \A n \in Nat : k * (1 + (n + 1)) = k * (1 + n) + k
  BY <1>1
<1>3. \A n \in Nat : k * (1 + n) \in Nat /\ k <= k * (1 + n)
  BY <1>1
<1>4. \A m, n \in Nat : m <= n => k * (1 + m) <= k * (1 + n)
  BY <1>1
<1> QED
  BY <1>2, <1>3, <1>4 DEF Budget

LEMMA RemainingFinite ==
  ASSUME NEW e \in Events
  PROVE  /\ IsFiniteSet(Remaining(e)) /\ Cardinality(Remaining(e)) \in Nat
         /\ Cardinality(Remaining(e)') \in Nat
<1>1. IsFiniteSet(1 .. 1 + Retries)
  BY PipelineAssumption, FS_Interval
<1>2. IsFiniteSet(Slots \X (1 .. 1 + Retries))
  BY <1>1, PipelineAssumption, FS_Product
<1>3. /\ Remaining(e) \in SUBSET (Slots \X (1 .. 1 + Retries))
      /\ Remaining(e)' \in SUBSET (Slots \X (1 .. 1 + Retries))
  BY DEF Remaining
<1>4. IsFiniteSet(Remaining(e)) /\ IsFiniteSet(Remaining(e)')
  BY <1>2, <1>3, FS_Subset
<1> QED
  BY <1>4, FS_CardinalityType

\* A job that is finished stays so until it is trimmed or evicted, and what is left of an
\* evicted one is never run.
LEMMA JobRests ==
  ASSUME TypeOK, [Next]_vars, NEW e \in Events, job[e].state \in {"completed", "failed", "stray"}
  PROVE  job'[e].state \in {job[e].state, "none", "stray"}
<1> USE DEF TypeOK, Queue!QueueTypeOK
<1> DEFINE Rests == job'[e].state \in {job[e].state, "none", "stray"}
<1>1. ASSUME NEW h \in Handlers, Enqueue(h) \/ EnqueueFails(h) PROVE Rests
  <2>1. \/ job' = job
        \/ job[event[h]].state = "none" /\ job' = [job EXCEPT ![event[h]] = Queue!NewJob]
    BY <1>1 DEF Enqueue, EnqueueFails, Queue!Add, queueVars
  <2> QED
    BY <2>1
<1>2. ASSUME NEW w \in Slots, JobSucceeds(w) \/ JobFails(w) PROVE Rests
  <2>1. \/ job' = job
        \/ job[slot[w]].state = "active" /\ \E new : job' = [job EXCEPT ![slot[w]] = new]
    BY <1>2 DEF JobSucceeds, JobFails, Queue!Complete, Queue!FailAttempt, Queue!Finish, Queue!Holds
  <2> QED
    BY <2>1
<1>3. ASSUME NEW f \in Events,
             \/ PromoteJob(f) \/ LoseLock(f) \/ RecoverStalled(f) \/ TrimJob(f) \/ EvictJob(f)
             \/ \E w \in Slots : TakeJob(w, f)
      PROVE  Rests
  <2>1. /\ \A g \in Events \ {f} : job'[g] = job[g]
        /\ job[f].state \in {"completed", "failed", "stray"} => job'[f].state \in {"none", "stray"}
    BY <1>3 DEF PromoteJob, Queue!Promote, LoseLock, Queue!LoseLock, RecoverStalled,
       Queue!RecoverStalled, TrimJob, Queue!Trim, EvictJob, Queue!Evict, Queue!Stray, Queue!NoJob, TakeJob, Queue!Take
  <2> QED
    BY <2>1
<1>4. CASE Crash
  BY <1>4 DEF Crash, Queue!DropSlots, Queue!Job
<1>5. CASE UNCHANGED job
  BY <1>5
<1>6. \/ UNCHANGED job \/ Crash
      \/ \E h \in Handlers : Enqueue(h) \/ EnqueueFails(h)
      \/ \E w \in Slots : JobSucceeds(w) \/ JobFails(w) \/ \E f \in Events : TakeJob(w, f)
      \/ \E f \in Events : PromoteJob(f) \/ LoseLock(f) \/ RecoverStalled(f) \/ TrimJob(f) \/ EvictJob(f)
  BY DEF vars, queueVars, Next, HandlerStep, JobStep, SlotStep,
     CallStep, Novel, Duplicate, FailOpen, OwnKey, LogDuplicate, LogDuplicateFails, LogPending,
     LogPendingFails, SendSucceeds, SendFails, MarkSent, MarkSentFails, MarkFailed,
     MarkFailedFails, Send, Retry, Record, RecordLate, ExpireKey, Deliver
<1> QED
  BY <1>1, <1>2, <1>3, <1>4, <1>5, <1>6

\* What a step does to the executions of a job.
LEMMA ExecutionsMove ==
  ASSUME TypeOK, [Next]_vars, NEW e \in Events
  PROVE  \/ Lost(e)'
         \/ /\ job[e].state = "none" /\ Executions(e)' = 0
            /\ \E h \in Handlers : event[h] = e /\ pc[h] = "enqueue" /\ (Enqueue(h) \/ EnqueueFails(h))
         \/ ~Lost(e) /\ Executions(e)' = Executions(e)
         \/ /\ job[e].state = "waiting" /\ Executions(e)' = Executions(e) + 1
            /\ \E w \in Slots : TakeJob(w, e)
<1> USE DEF TypeOK, Queue!QueueTypeOK
<1> DEFINE Same == job[e].state # "none" => Executions(e)' = Executions(e)
<1>1. job[e] \in Queue!Job /\ Executions(e) \in Nat
  BY DEF Queue!Job, Executions
<1>2. CASE job[e].state = "none" /\ job'[e].state # "none"
  <2>1. PICK h \in Handlers : event[h] = e /\ pc[h] = "enqueue" /\ (Enqueue(h) \/ EnqueueFails(h))
    BY <1>2, JobsMove
  <2>2. job'[e] = Queue!NewJob
    BY <1>2, <2>1 DEF Enqueue, EnqueueFails, Queue!Add, queueVars
  <2>3. Executions(e)' = 0
    BY <2>2 DEF Executions, Queue!NewJob
  <2> QED
    BY <1>2, <2>1, <2>3
<1>3. ASSUME NEW w \in Slots, JobSucceeds(w) \/ JobFails(w) PROVE Same
  <2>1. CASE Queue!Holds(w) /\ slot[w] = e
    <3>1. \E state \in {"completed", "delayed", "failed"} :
            job'[e] = [job[e] EXCEPT !.state = state, !.made = @ + 1, !.lock = Queue!Nobody]
      BY <1>3, <2>1 DEF JobSucceeds, JobFails, Queue!Complete, Queue!FailAttempt, Queue!Finish
    <3>2. job[e].state = "active"
      BY <2>1 DEF Queue!Holds
    <3> QED
      BY <1>1, <3>1, <3>2 DEF Executions, Queue!Job
  <2>2. CASE ~(Queue!Holds(w) /\ slot[w] = e)
    <3>1. job'[e] = job[e]
      BY <1>3, <2>2 DEF JobSucceeds, JobFails, Queue!Complete, Queue!FailAttempt, Queue!Finish
    <3> QED
      BY <3>1 DEF Executions
  <2> QED
    BY <2>1, <2>2
<1>4. ASSUME NEW w \in Slots, NEW f \in Events, TakeJob(w, f)
      PROVE  Same \/ (e = f /\ job[e].state = "waiting" /\ Executions(e)' = Executions(e) + 1)
  <2>1. CASE e # f
    BY <1>4, <2>1 DEF TakeJob, Queue!Take, Executions
  <2>2. CASE e = f
    <3>1. job[e].state = "waiting" /\ job'[e] = [job[e] EXCEPT !.state = "active", !.lock = w]
      BY <1>4, <2>2 DEF TakeJob, Queue!Take
    <3> QED
      BY <1>1, <2>2, <3>1 DEF Executions, Queue!Job
  <2> QED
    BY <2>1, <2>2
<1>5. ASSUME NEW f \in Events, PromoteJob(f) \/ LoseLock(f) PROVE Same
  BY <1>1, <1>5 DEF PromoteJob, LoseLock, Queue!Promote, Queue!LoseLock, Executions, Queue!Job
<1>6. ASSUME NEW f \in Events, RecoverStalled(f) PROVE Same
  <2>1. CASE e # f
    BY <1>6, <2>1 DEF RecoverStalled, Queue!RecoverStalled, Executions
  <2>2. CASE e = f
    <3>1. /\ job[e].state = "active"
          /\ job'[e] = [job[e] EXCEPT !.state = IF job[e].stalled < MaxStalled THEN "waiting" ELSE "failed",
                                      !.stalled = @ + 1]
      BY <1>6, <2>2 DEF RecoverStalled, Queue!RecoverStalled, Queue!Job
    <3>2. job'[e].state # "active" /\ job'[e].made = job[e].made /\ job'[e].stalled = job[e].stalled + 1
      BY <1>1, <3>1 DEF Queue!Job
    <3> QED
      BY <1>1, <3>1, <3>2 DEF Executions, Queue!Job
  <2> QED
    BY <2>1, <2>2
<1>7. ASSUME NEW f \in Events, TrimJob(f) \/ EvictJob(f) PROVE Same \/ Lost(e)'
  BY <1>7 DEF TrimJob, Queue!Trim, EvictJob, Queue!Evict, Queue!Stray, Queue!NoJob, Executions, Lost
<1>8. ASSUME Crash PROVE Same
  BY <1>1, <1>8 DEF Crash, Queue!DropSlots, Queue!Job, Executions
<1>9. ASSUME UNCHANGED job PROVE Same
  BY <1>9 DEF Executions
<1>10. ASSUME NEW h \in Handlers, Enqueue(h) \/ EnqueueFails(h) PROVE Same
  <2>1. job[e].state # "none" => job'[e] = job[e]
    BY <1>10 DEF Enqueue, EnqueueFails, Queue!Add, queueVars
  <2> QED
    BY <2>1 DEF Executions
<1>11. \/ UNCHANGED job \/ Crash
       \/ \E h \in Handlers : Enqueue(h) \/ EnqueueFails(h)
       \/ \E w \in Slots : JobSucceeds(w) \/ JobFails(w) \/ \E f \in Events : TakeJob(w, f)
       \/ \E f \in Events : PromoteJob(f) \/ LoseLock(f) \/ RecoverStalled(f) \/ TrimJob(f) \/ EvictJob(f)
  BY DEF vars, queueVars, Next, HandlerStep, JobStep, SlotStep,
     CallStep, Novel, Duplicate, FailOpen, OwnKey, LogDuplicate, LogDuplicateFails, LogPending,
     LogPendingFails, SendSucceeds, SendFails, MarkSent, MarkSentFails, MarkFailed,
     MarkFailedFails, Send, Retry, Record, RecordLate, ExpireKey, Deliver
<1>12. Same \/ Lost(e)'
       \/ (job[e].state = "waiting" /\ Executions(e)' = Executions(e) + 1 /\ \E w \in Slots : TakeJob(w, e))
  <2> HIDE DEF Same
  <2> QED
    BY <1>3, <1>4, <1>5, <1>6, <1>7, <1>8, <1>9, <1>10, <1>11
<1>13. job[e].state = "stray" => Lost(e)'
  BY JobRests DEF Lost
<1> QED
  BY <1>2, <1>12, <1>13 DEF Lost

\* What a step does to the requests made of an event and to those still due.
LEMMA RemainingMove ==
  ASSUME Inv, CallsBelong, [Next]_vars, NEW e \in Events
  PROVE  \/ Remaining(e)' \subseteq Remaining(e) /\ posts'[e] = posts[e]
         \/ \E w \in Slots : /\ TakeJob(w, e) /\ posts'[e] = posts[e]
                             /\ Remaining(e)' = Remaining(e) \cup ({w} \X (1 .. 1 + Retries))
         \/ \E w \in Slots, n \in 1 .. 1 + Retries :
               /\ slot[w] = e /\ posts'[e] = posts[e] + 1
               /\ <<w, n>> \in Remaining(e) /\ Remaining(e)' = Remaining(e) \ {<<w, n>>}
         \/ \E h \in Handlers :
               /\ h \in Claimants(e) /\ Send(h) /\ pc[h] = "send"
               /\ Remaining(e)' = Remaining(e) /\ posts'[e] = posts[e] + 1
               /\ call'[h].tries = call[h].tries + 1
<1> USE DEF Inv, TypeOK, Client!ClientTypeOK, Queue!QueueTypeOK, HandlerTypeOK
<1> DEFINE Shrinks == Remaining(e)' \subseteq Remaining(e) /\ posts'[e] = posts[e]
<1>1. ASSUME UNCHANGED <<call, slot, posts>> PROVE Shrinks
  BY <1>1 DEF Remaining
<1>2. ASSUME NEW h \in Handlers, LogPending(h) \/ SendSucceeds(h) \/ SendFails(h) PROVE Shrinks
  <2>1. UNCHANGED <<slot, posts>> /\ \A w \in Slots : call'[w] = call[w]
    <3>1. UNCHANGED <<slot, posts>> /\ \E new : call' = [call EXCEPT ![h] = new]
      BY <1>2, CloseShape
      DEF LogPending, SendSucceeds, SendFails, Client!BeginSend, queueVars, Callers
    <3> QED
      BY <3>1, PipelineAssumption DEF Callers
  <2> QED
    BY <2>1 DEF Remaining
<1>3. ASSUME NEW w \in Slots, JobSucceeds(w) \/ JobFails(w) PROVE Shrinks
  <2>1. /\ UNCHANGED posts /\ slot' = [slot EXCEPT ![w] = Queue!Idle]
        /\ call' = [call EXCEPT ![w] = Client!NoCall]
    BY <1>3, CloseShape
    DEF JobSucceeds, JobFails, Queue!Complete, Queue!FailAttempt, Queue!Finish, Callers
  <2> QED
    BY <2>1, EventAssumption DEF Remaining, Callers
<1>4. ASSUME NEW w \in Slots, NEW f \in Events, TakeJob(w, f)
      PROVE  /\ posts'[e] = posts[e]
             /\ Remaining(e)' = IF e = f THEN Remaining(e) \cup ({w} \X (1 .. 1 + Retries))
                                        ELSE Remaining(e)
  <2>1. /\ UNCHANGED posts /\ slot[w] = Queue!Idle /\ slot' = [slot EXCEPT ![w] = f]
        /\ call' = [call EXCEPT ![w] = Client!NewCall(f)]
    BY <1>4 DEF TakeJob, Queue!Take, Client!BeginSend
  <2>2. ASSUME NEW v \in Slots, NEW n \in 1 .. 1 + Retries
        PROVE  (slot'[v] = e /\ call'[v].tries < n) <=>
                 (slot[v] = e /\ call[v].tries < n) \/ (v = w /\ e = f)
    <3>1. CASE v = w
      BY <2>1, <3>1, EventAssumption DEF Client!NewCall, Callers
    <3>2. CASE v # w
      BY <2>1, <3>2 DEF Callers
    <3> QED
      BY <3>1, <3>2
  <2> QED
    BY <2>1, <2>2 DEF Remaining
<1>5. ASSUME NEW c \in Callers, Retry(c) \/ Record(c) PROVE Shrinks
  <2>1. /\ UNCHANGED <<slot, posts>> /\ \A d \in Callers : call'[d].tries = call[d].tries
    BY <1>5 DEF Retry, Record, Client!Retry, Client!Record, queueVars, Client!Call
  <2> QED
    BY <2>1 DEF Remaining, Callers
<1>6. ASSUME NEW c \in Callers, Send(c)
      PROVE  /\ UNCHANGED slot /\ call[c].tries \in 0 .. Retries /\ call[c].event \in Events
             /\ call[c].step # "none"
             /\ call'[c].tries = call[c].tries + 1
             /\ \A d \in Callers \ {c} : call'[d] = call[d]
             /\ posts' = [posts EXCEPT ![call[c].event] = @ + 1]
  <2>1. UNCHANGED slot /\ call[c].step \in {"limiter", "backoff"} /\ call[c].event \in Events
    BY <1>6 DEF Send, Client!Post, queueVars
  <2>2. call[c].tries \in 0 .. Retries
    BY <2>1, PipelineAssumption DEF Client!Call
  <2>3. call'[c].tries = call[c].tries + 1 /\ \A d \in Callers \ {c} : call'[d] = call[d]
    BY <1>6 DEF Send, Client!Post, Client!Call
  <2>4. posts' = [posts EXCEPT ![call[c].event] = @ + 1]
    BY <1>6 DEF Send, Client!Post
  <2> QED
    BY <2>1, <2>2, <2>3, <2>4
<1>7. ASSUME NEW c \in Callers, Send(c), call[c].event # e PROVE Shrinks
  <2>1. c \in Slots => slot[c] # e
    BY <1>6, <1>7, EventAssumption DEF CallsBelong
  <2>2. \A w \in Slots : slot[w] = e => call'[w] = call[w]
    BY <1>6, <1>7, <2>1 DEF Callers
  <2>3. posts'[e] = posts[e] /\ UNCHANGED slot
    BY <1>6, <1>7
  <2> QED
    BY <2>2, <2>3 DEF Remaining
<1>8. ASSUME NEW w \in Slots, Send(w), call[w].event = e
      PROVE  \E n \in 1 .. 1 + Retries :
               /\ slot[w] = e /\ posts'[e] = posts[e] + 1
               /\ <<w, n>> \in Remaining(e) /\ Remaining(e)' = Remaining(e) \ {<<w, n>>}
  <2> DEFINE t == call[w].tries
  <2>1. /\ slot[w] = e /\ t \in 0 .. Retries /\ UNCHANGED slot /\ posts'[e] = posts[e] + 1
        /\ call'[w].tries = t + 1 /\ \A v \in Slots \ {w} : call'[v] = call[v]
    BY <1>6, <1>8 DEF CallsBelong, Callers
  <2>2. t + 1 \in 1 .. 1 + Retries
    BY <2>1, PipelineAssumption
  <2>3. <<w, t + 1>> \in Remaining(e)
    BY <2>1, <2>2 DEF Remaining
  <2>4. \A v \in Slots, n \in 1 .. 1 + Retries :
          (slot'[v] = e /\ call'[v].tries < n) <=>
            (slot[v] = e /\ call[v].tries < n /\ (v # w \/ n # t + 1))
    <3> SUFFICES ASSUME NEW v \in Slots, NEW n \in 1 .. 1 + Retries
                 PROVE  (slot'[v] = e /\ call'[v].tries < n) <=>
                          (slot[v] = e /\ call[v].tries < n /\ (v # w \/ n # t + 1))
      OBVIOUS
    <3>1. CASE v # w
      BY <2>1, <3>1
    <3>2. t + 1 < n <=> t < n /\ n # t + 1
      BY <2>1, PipelineAssumption
    <3>3. CASE v = w
      BY <2>1, <3>2, <3>3
    <3> QED
      BY <3>1, <3>3
  <2>5. Remaining(e)' = Remaining(e) \ {<<w, t + 1>>}
    BY <2>4 DEF Remaining
  <2> QED
    BY <2>1, <2>2, <2>3, <2>5
<1>9. ASSUME NEW h \in Handlers, Send(h), call[h].event = e
      PROVE  /\ h \in Claimants(e) /\ pc[h] = "send"
             /\ Remaining(e)' = Remaining(e) /\ posts'[e] = posts[e] + 1
             /\ call'[h].tries = call[h].tries + 1
  <2>1. h \in Callers /\ \A w \in Slots : w # h
    BY PipelineAssumption DEF Callers
  <2>2. pc[h] = "send" /\ event[h] = e
    BY <1>6, <1>9, <2>1 DEF CallsBelong, ReceivedFirst
  <2>3. /\ posts'[e] = posts[e] + 1 /\ call'[h].tries = call[h].tries + 1
        /\ UNCHANGED slot /\ \A w \in Slots : call'[w] = call[w]
    BY <1>6, <1>9, <2>1 DEF Callers
  <2>4. Remaining(e)' = Remaining(e)
    BY <2>3 DEF Remaining
  <2> QED
    BY <2>2, <2>3, <2>4 DEF Claimants, Claiming
<1>10. ASSUME Crash PROVE Shrinks
  BY <1>10, EventAssumption DEF Crash, Queue!DropSlots, Client!AbandonAll, Remaining
<1>11. \/ UNCHANGED <<call, slot, posts>> \/ Crash
       \/ \E h \in Handlers : LogPending(h) \/ SendSucceeds(h) \/ SendFails(h)
       \/ \E w \in Slots : JobSucceeds(w) \/ JobFails(w) \/ \E f \in Events : TakeJob(w, f)
       \/ \E c \in Callers : Send(c) \/ Retry(c) \/ Record(c)
  BY StepKinds, QuietShape, BackgroundShape DEF clientVars, Deliver, queueVars, vars
<1>12. ASSUME NEW c \in Callers, Send(c), call[c].event = e PROVE c \in Slots \/ c \in Handlers
  BY DEF Callers
<1> HIDE DEF Shrinks
<1>13. ASSUME ~Shrinks
       PROVE  \/ \E w \in Slots : TakeJob(w, e)
              \/ \E c \in Callers : Send(c) /\ call[c].event = e
  <2>1. ASSUME NEW w \in Slots, NEW f \in Events, TakeJob(w, f), f # e PROVE Shrinks
    BY <1>4, <2>1 DEF Shrinks
  <2> QED
    BY <1>1, <1>2, <1>3, <1>5, <1>7, <1>10, <1>11, <1>13, <2>1
<1>14. CASE Shrinks
  BY <1>14 DEF Shrinks
<1>15. CASE \E w \in Slots : TakeJob(w, e)
  BY <1>4, <1>15
<1>16. CASE \E c \in Callers : Send(c) /\ call[c].event = e
  BY <1>8, <1>9, <1>12, <1>16
<1> QED
  BY <1>13, <1>14, <1>15, <1>16

\* The same in numbers.
LEMMA DueMove ==
  ASSUME Inv, CallsBelong, [Next]_vars, NEW e \in Events
  PROVE  LET due == Cardinality(Remaining(e))
             due1 == Cardinality(Remaining(e)')
         IN  \/ posts'[e] = posts[e] /\ due1 <= due
             \/ (\E w \in Slots : TakeJob(w, e)) /\ posts'[e] = posts[e] /\ due1 <= due + (1 + Retries)
             \/ (\E w \in Slots : slot[w] = e) /\ posts'[e] = posts[e] + 1 /\ due1 = due - 1
             \/ \E h \in Claimants(e) :
                  /\ Send(h) /\ pc[h] = "send" /\ posts'[e] = posts[e] + 1 /\ due1 = due
                  /\ call'[h].tries = call[h].tries + 1
<1>1. IsFiniteSet(Remaining(e)) /\ Cardinality(Remaining(e)) \in Nat
  BY RemainingFinite
<1>2. ASSUME Remaining(e)' \subseteq Remaining(e)
      PROVE  Cardinality(Remaining(e)') <= Cardinality(Remaining(e))
  BY <1>1, <1>2, FS_Subset
<1>3. ASSUME NEW w \in Slots, Remaining(e)' = Remaining(e) \cup ({w} \X (1 .. 1 + Retries))
      PROVE  Cardinality(Remaining(e)') <= Cardinality(Remaining(e)) + (1 + Retries)
  <2> DEFINE more == {w} \X (1 .. 1 + Retries)
  <2>1. IsFiniteSet(1 .. 1 + Retries) /\ Cardinality(1 .. 1 + Retries) = 1 + Retries
    BY PipelineAssumption, FS_Interval
  <2>2. IsFiniteSet({w}) /\ Cardinality({w}) = 1
    BY FS_Singleton
  <2>3. IsFiniteSet(more) /\ Cardinality(more) = 1 * (1 + Retries)
    BY <2>1, <2>2, FS_Product
  <2>4. Cardinality(Remaining(e) \cap more) \in Nat
    BY <1>1, FS_Intersection, FS_CardinalityType
  <2> HIDE DEF more
  <2>5. Cardinality(Remaining(e) \cup more)
          = Cardinality(Remaining(e)) + Cardinality(more) - Cardinality(Remaining(e) \cap more)
    BY <1>1, <2>3, FS_Union
  <2> QED
    BY <1>1, <1>3, <2>3, <2>4, <2>5, PipelineAssumption DEF more
<1>4. ASSUME NEW r \in Remaining(e), Remaining(e)' = Remaining(e) \ {r}
      PROVE  Cardinality(Remaining(e)') = Cardinality(Remaining(e)) - 1
  BY <1>1, <1>4, FS_RemoveElement
<1> QED
  BY RemainingMove, <1>2, <1>3, <1>4

\* A claimant begins at the insert, and sends after it.
LEMMA ClaimantOrder ==
  ASSUME TypeOK, [Next]_vars, NEW h \in Handlers, pc[h] \in Claiming
  PROVE  /\ pc'[h] = "logPending" => pc[h] = "logPending"
         /\ pc'[h] = "send" => pc[h] = "send" \/ LogPending(h)
<1> USE DEF TypeOK, HandlerTypeOK
<1> DEFINE Ordered == /\ pc'[h] = "logPending" => pc[h] = "logPending"
                      /\ pc'[h] = "send" => pc[h] = "send" \/ LogPending(h)
<1>1. ASSUME NEW g \in Handlers, HandlerStep(g) PROVE Ordered
  <2>1. \/ Leave(g)
        \/ \E await \in Awaits \ {"logPending", "send"} : Goto(g, await)
        \/ Goto(g, "logPending") /\ pc[g] = "dedup"
        \/ Goto(g, "send") /\ LogPending(g)
    BY <1>1 DEF HandlerStep, Awaits, At, Novel, Duplicate, FailOpen, OwnKey, LogDuplicate,
       LogDuplicateFails, LogPending, LogPendingFails, SendSucceeds, SendFails, MarkSent,
       MarkSentFails, MarkFailed, MarkFailedFails, Enqueue, EnqueueFails
  <2> QED
    BY <2>1 DEF Leave, Goto, None, Claiming
<1>2. ASSUME NEW g \in Handlers, NEW e \in Events, Deliver(g, e) PROVE Ordered
  BY <1>2 DEF Deliver
<1>3. ASSUME Crash PROVE Ordered
  BY <1>3 DEF Crash, None
<1>4. ASSUME UNCHANGED pc PROVE Ordered
  BY <1>4
<1> QED
  BY <1>1, <1>2, <1>3, <1>4 DEF vars, handlerVars, Next, JobStep, SlotStep, CallStep, TakeJob,
     JobSucceeds, JobFails, PromoteJob, LoseLock, RecoverStalled, TrimJob, EvictJob, Send, Retry, Record,
     RecordLate, ExpireKey

\* The tries of a handler's call are not forgotten while it sends.
LEMMA TriesGrow ==
  ASSUME TypeOK, [Next]_vars, NEW h \in Handlers, pc[h] = "send", pc'[h] = "send"
  PROVE  call'[h].tries >= call[h].tries
<1> USE DEF TypeOK, HandlerTypeOK, Client!ClientTypeOK
<1>1. h \in Callers /\ h \notin Slots /\ call[h].tries \in 0 .. Retries + 1
  BY PipelineAssumption DEF Callers, Client!Call
<1>2. ASSUME call'[h] = call[h] PROVE call'[h].tries >= call[h].tries
  BY <1>1, <1>2, PipelineAssumption
<1>3. ASSUME NEW g \in Handlers, LogPending(g) PROVE call'[h] = call[h]
  BY <1>1, <1>3 DEF LogPending, At, Client!BeginSend
<1>4. ASSUME NEW g \in Handlers, SendSucceeds(g) \/ SendFails(g) PROVE call'[h] = call[h]
  <2>1. g # h
    BY <1>4 DEF SendSucceeds, SendFails, Goto
  <2> QED
    BY <1>1, <1>4, <2>1, CloseShape DEF SendSucceeds, SendFails, Callers
<1>5. ASSUME NEW w \in Slots, JobSucceeds(w) \/ JobFails(w) \/ \E e \in Events : TakeJob(w, e)
      PROVE  call'[h] = call[h]
  <2>1. \E new : call' = [call EXCEPT ![w] = new]
    BY <1>5, CloseShape DEF JobSucceeds, JobFails, TakeJob, Client!BeginSend, Callers
  <2> QED
    BY <1>1, <2>1
<1>6. ASSUME NEW c \in Callers, Send(c) \/ Retry(c) \/ Record(c)
      PROVE  call'[h].tries >= call[h].tries
  <2>1. call'[c].tries \in {call[c].tries, call[c].tries + 1}
    BY <1>6 DEF Send, Retry, Record, Client!Post, Client!Retry, Client!Record, Client!Call
  <2>2. c # h => call'[h] = call[h]
    BY <1>1, <1>6, ProgressShape
  <2> QED
    BY <1>1, <1>2, <2>1, <2>2, PipelineAssumption
<1>7. ~Crash
  BY DEF Crash, None
<1>8. UNCHANGED call => call'[h] = call[h]
  OBVIOUS
<1> QED
  BY <1>2, <1>3, <1>4, <1>5, <1>6, <1>7, <1>8, StepKinds, QuietShape, BackgroundShape
  DEF clientVars, Deliver, vars

LEMMA ClaimantBudget ==
  ASSUME Inv, CallsBelong, ClaimedFirst, PostBudget, [Next]_vars,
         NEW e \in Events, e \notin history'.leaky, NEW h \in Claimants(e)'
  PROVE  /\ job'[e].state = "none"
         /\ \A w \in Slots : slot'[w] # e
         /\ posts'[e] <= 1 + Retries
         /\ pc'[h] = "logPending" => posts'[e] = 0
         /\ pc'[h] = "send" => posts'[e] <= call'[h].tries
<1> USE DEF Inv, TypeOK, HandlerTypeOK
<1>1. /\ h \in Handlers /\ event'[h] = e /\ pc'[h] \in Claiming
      /\ e \notin history.leaky
  BY HistoryGrows DEF Claimants
<1>2. event[h] = e /\ (pc[h] \in Claiming \/ Novel(h))
  <2>1. ASSUME FailOpen(h), event[h] = e PROVE FALSE
    <3>1. history'.leaky = history.leaky \cup {e}
      BY <2>1 DEF FailOpen, Claims
    <3> QED
      BY <3>1
  <2> QED
    BY <1>1, <2>1, BecomesClaimant
<1>3. CASE Novel(h)
  <2>1. history.claimed[e] = 0
    BY <1>1, <1>2, <1>3 DEF Novel, Dedup!AnswerNovel, KeyGuards, HistoryTypeOK
  <2>2. UNCHANGED <<clientVars, queueVars>> /\ pc'[h] = "logPending"
    BY <1>3, <1>1 DEF Novel, Goto
  <2> QED
    BY <2>1, <2>2, PipelineAssumption DEF ClaimedFirst, clientVars, queueVars
<1>4. CASE pc[h] \in Claiming
  <2>1. h \in Claimants(e) /\ \A g \in Claimants(e) : g = h
    BY <1>1, <1>2, <1>4 DEF Claimants, OneClaim
  <2>2. /\ job[e].state = "none"
        /\ \A w \in Slots : slot[w] # e
        /\ posts[e] <= 1 + Retries
        /\ pc[h] = "logPending" => posts[e] = 0
        /\ pc[h] = "send" => posts[e] <= call[h].tries
    BY <1>1, <2>1 DEF PostBudget
  <2>3. job'[e].state = "none"
    <3>1. ASSUME NEW g \in Handlers, event[g] = e, pc[g] = "enqueue", Enqueue(g) \/ EnqueueFails(g)
          PROVE  FALSE
      <4>1. g = h
        BY <2>1, <3>1 DEF Claimants, Claiming
      <4>2. pc'[h] = None
        BY <3>1, <4>1 DEF Enqueue, EnqueueFails, Leave
      <4> QED
        BY <1>1, <4>2 DEF None, Claiming
    <3> QED
      BY <2>2, <3>1, JobsMove
  <2>4. \A w \in Slots : slot'[w] # e
    BY <2>2, SlotsMove, EventAssumption DEF TakeJob, Queue!Take
  <2>5. \/ posts'[e] = posts[e]
        \/ pc[h] = "send" /\ posts'[e] = posts[e] + 1 /\ call'[h].tries = call[h].tries + 1
    <3>1. ~\E w \in Slots : slot[w] = e
      BY <2>2
    <3> QED
      BY <2>1, <3>1, DueMove
  <2>6. posts[e] \in Nat /\ call[h].tries \in Nat /\ call'[h].tries \in 0 .. Retries + 1
    <3>1. h \in Callers
      BY <1>1 DEF Callers
    <3>2. Client!ClientTypeOK /\ Client!ClientTypeOK'
      BY TypeStep
    <3> QED
      BY <3>1, <3>2, PipelineAssumption DEF Client!ClientTypeOK, Client!Call
  <2>7. posts'[e] <= 1 + Retries
    BY <2>2, <2>5, <2>6, PipelineAssumption
  <2>8. pc'[h] = "logPending" => posts'[e] = 0
    BY <1>1, <1>4, <2>2, <2>5, ClaimantOrder
  <2>9. ASSUME pc'[h] = "send" PROVE posts'[e] <= call'[h].tries
    <3>1. CASE pc[h] = "send"
      <4>1. call'[h].tries >= call[h].tries
        BY <1>1, <2>9, <3>1, TriesGrow
      <4> QED
        BY <2>2, <2>5, <2>6, <3>1, <4>1
    <3>2. CASE LogPending(h)
      <4>1. pc[h] = "logPending"
        BY <3>2 DEF LogPending, At
      <4> QED
        BY <2>2, <2>5, <2>6, <4>1
    <3> QED
      BY <1>1, <1>4, <2>9, <3>1, <3>2, ClaimantOrder
  <2> QED
    BY <2>3, <2>4, <2>7, <2>8, <2>9
<1> QED
  BY <1>2, <1>3, <1>4

\* Without a slot on the job nothing is due.
LEMMA NothingDue ==
  ASSUME NEW e \in Events
  PROVE  /\ (\A w \in Slots : slot[w] # e) => Cardinality(Remaining(e)) = 0
         /\ (\A w \in Slots : slot'[w] # e) => Cardinality(Remaining(e)') = 0
BY FS_EmptySet DEF Remaining

LEMMA PostBudgetStep ==
  ASSUME Inv, CallsBelong, ClaimedFirst, PostBudget, [Next]_vars
  PROVE  PostBudget'
<1> USE DEF Inv, TypeOK
<1> DEFINE Most == Attempts + MaxStalled
           Worth(e) == IF Lost(e) THEN Most ELSE Executions(e)
<1>1. Most \in Nat /\ \A e \in Events : Executions(e) \in Nat /\ Executions(e)' \in Nat
  <2>1. Most \in Nat
    BY PipelineAssumption
  <2>2. Queue!QueueTypeOK /\ Queue!QueueTypeOK'
    BY TypeStep
  <2> QED
    BY <2>1, <2>2 DEF Queue!QueueTypeOK, Queue!Job, Executions
<1>2. ASSUME NEW e \in Events, ~Lost(e)' PROVE Executions(e)' <= Most
  <2>1. CASE job[e].state = "waiting" /\ Executions(e)' = Executions(e) + 1
    <3>1. job[e] \in Queue!Job /\ job[e].made < Attempts /\ job[e].stalled <= MaxStalled
      BY <2>1 DEF Queue!QueueTypeOK, Queue!Live
    <3>2. Executions(e) = job[e].made + job[e].stalled
      BY <2>1, <3>1 DEF Executions, Queue!Job
    <3> QED
      BY <2>1, <3>1, <3>2, PipelineAssumption DEF Queue!Job
  <2>2. CASE Executions(e)' = 0
    BY <1>1, <2>2
  <2>3. CASE ~Lost(e) /\ Executions(e)' = Executions(e)
    BY <2>3 DEF PostBudget
  <2> QED
    BY <1>2, <2>1, <2>2, <2>3, ExecutionsMove
<1>3. ASSUME NEW e \in Events, e \notin history'.leaky
      PROVE  posts'[e] + Cardinality(Remaining(e)') <= Budget(Worth(e)')
  <2> DEFINE due == Cardinality(Remaining(e))
             due1 == Cardinality(Remaining(e)')
  <2>1. /\ e \notin history.leaky
        /\ posts[e] \in Nat /\ posts'[e] \in Nat /\ due \in Nat /\ due1 \in Nat
    <3>1. Client!ClientTypeOK /\ Client!ClientTypeOK'
      BY TypeStep
    <3>2. e \notin history.leaky
      BY <1>3, HistoryGrows
    <3>3. due \in Nat /\ due1 \in Nat
      BY RemainingFinite
    <3> QED
      BY <3>1, <3>2, <3>3 DEF Client!ClientTypeOK
  <2>2. posts[e] + due <= Budget(Worth(e))
    BY <2>1 DEF PostBudget
  <2>3. Worth(e) \in Nat /\ Worth(e)' \in Nat /\ Worth(e) <= Most /\ Worth(e)' <= Most
    BY <1>1, <1>2, <1>3 DEF PostBudget
  <2>4. CASE Claimants(e)' # {}
    <3>1. PICK h \in Claimants(e)' : TRUE
      BY <2>4
    <3>2. job'[e].state = "none" /\ (\A w \in Slots : slot'[w] # e) /\ posts'[e] <= 1 + Retries
      BY <1>3, <3>1, ClaimantBudget
    <3>3. due1 = 0 /\ Worth(e)' = Most
      BY <3>2, NothingDue DEF Lost
    <3>4. 1 + Retries <= Budget(Most) /\ Budget(Most) \in Nat
      BY <1>1, BudgetArith
    <3> QED
      BY <2>1, <3>2, <3>3, <3>4, PipelineAssumption
  <2>5. CASE job[e].state = "none" /\ job'[e].state # "none"
    <3>1. PICK h \in Handlers : event[h] = e /\ pc[h] = "enqueue" /\ (Enqueue(h) \/ EnqueueFails(h))
      BY <2>5, JobsMove
    <3>2. UNCHANGED posts /\ UNCHANGED slot
      BY <3>1 DEF Enqueue, EnqueueFails, clientVars, queueVars, Queue!Add
    <3>3. h \in Claimants(e)
      BY <3>1 DEF Claimants, Claiming
    <3>4. posts[e] <= 1 + Retries /\ \A w \in Slots : slot[w] # e
      BY <2>1, <3>3 DEF PostBudget
    <3>5. due1 = 0
      BY <3>2, <3>4, NothingDue
    <3>6. 1 + Retries <= Budget(Worth(e)') /\ Budget(Worth(e)') \in Nat
      BY <2>3, BudgetArith
    <3> QED
      BY <2>1, <3>2, <3>4, <3>5, <3>6, PipelineAssumption
  <2>6. ASSUME NEW w \in Slots, TakeJob(w, e)
        PROVE  Budget(Worth(e)') = Budget(Worth(e)) + (1 + Retries)
    <3>1. /\ job[e] \in Queue!Job /\ job[e].state = "waiting"
          /\ job'[e] = [job[e] EXCEPT !.state = "active", !.lock = w]
      BY <2>6 DEF TakeJob, Queue!Take, Queue!QueueTypeOK
    <3>2. Executions(e)' = Executions(e) + 1 /\ job'[e].state = "active"
      BY <3>1 DEF Executions, Queue!Job
    <3> QED
      BY <1>1, <3>1, <3>2, BudgetArith DEF Lost
  <2>7. ASSUME job[e].state # "none" \/ job'[e].state = "none"
        PROVE  /\ Budget(Worth(e)) <= Budget(Worth(e)')
               /\ Budget(Worth(e)) \in Nat /\ Budget(Worth(e)') \in Nat
    <3>1. Worth(e) <= Worth(e)'
      <4>1. CASE Lost(e)'
        BY <2>3, <4>1
      <4>2. CASE ~Lost(e)'
        BY <1>1, <2>7, <4>2, ExecutionsMove DEF Lost
      <4> QED
        BY <4>1, <4>2
    <3> HIDE DEF Worth
    <3> QED
      BY <2>3, <3>1, BudgetArith
  <2>8. ASSUME NEW h \in Claimants(e), Send(h) PROVE Claimants(e)' # {}
    BY <2>8, ProgressShape DEF Claimants, Callers
  <2>9. CASE /\ Claimants(e)' = {}
             /\ job[e].state # "none" \/ job'[e].state = "none"
    <3> HIDE DEF Worth, due, due1
    <3>1. /\ Budget(Worth(e)) <= Budget(Worth(e)')
          /\ Budget(Worth(e)) \in Nat /\ Budget(Worth(e)') \in Nat
      BY <2>7, <2>9
    <3>2. \/ posts'[e] = posts[e] /\ due1 <= due
          \/ (\E w \in Slots : TakeJob(w, e)) /\ posts'[e] = posts[e] /\ due1 <= due + (1 + Retries)
          \/ posts'[e] = posts[e] + 1 /\ due1 = due - 1
      BY <2>8, <2>9, DueMove DEF due, due1
    <3>3. posts'[e] + due1 <= Budget(Worth(e)')
      BY <2>1, <2>2, <2>6, <3>1, <3>2, PipelineAssumption
    <3> QED
      BY <3>3 DEF due1
  <2> QED
    BY <2>4, <2>5, <2>9
<1>4. \A e \in Events \ history'.leaky :
        posts'[e] + Cardinality(Remaining(e)') <=
          Budget(IF Lost(e)' THEN Attempts + MaxStalled ELSE Executions(e)')
  BY <1>3
<1> QED
  BY <1>2, <1>4, ClaimantBudget DEF PostBudget

LEMMA BudgetBounds == TypeOK /\ PostBudget => BoundedPosts
<1> DEFINE Most == Attempts + MaxStalled
<1> SUFFICES ASSUME TypeOK, PostBudget, NEW e \in Events, e \notin history.leaky
             PROVE  posts[e] <= (1 + Retries) * (1 + Attempts + MaxStalled)
  BY DEF BoundedPosts
<1>1. Most \in Nat /\ Executions(e) \in Nat /\ posts[e] \in Nat /\ Cardinality(Remaining(e)) \in Nat
  BY PipelineAssumption, RemainingFinite
  DEF TypeOK, Queue!QueueTypeOK, Queue!Job, Executions, Client!ClientTypeOK
<1>2. PICK n \in Nat : n <= Most /\ posts[e] + Cardinality(Remaining(e)) <= Budget(n)
  BY <1>1 DEF PostBudget
<1>3. Budget(n) <= Budget(Most) /\ Budget(n) \in Nat /\ Budget(Most) \in Nat
  BY <1>1, <1>2, BudgetArith
<1>4. posts[e] <= Budget(Most)
  BY <1>1, <1>2, <1>3
<1>5. 1 + Most = 1 + Attempts + MaxStalled
  BY PipelineAssumption
<1> QED
  BY <1>4, <1>5 DEF Budget

-----------------------------------------------------------------------------
(***************************************************************************)
(* The theorems.                                                           *)
(***************************************************************************)
LEMMA FullInvInit == Init => FullInv
<1> SUFFICES ASSUME Init PROVE FullInv
  OBVIOUS
<1> USE DEF Init, HistoryInit
<1>1. Inv
  BY InvInit
<1>2. CallsBelong
  BY DEF CallsBelong, Client!ClientInit, Client!NoCall, Queue!QueueInit, Callers
<1>3. ClaimedFirst
  BY EventAssumption
  DEF ClaimedFirst, Log!LogInit, Log!NoRow, Client!ClientInit, Queue!QueueInit, Queue!NoJob
<1>4. NoSilentLoss /\ JobTells
  BY DEF NoSilentLoss, JobTells, Queue!QueueInit, Queue!NoJob
<1>5. PendingIsTransient /\ DuplicateHasOriginal
  BY DEF PendingIsTransient, DuplicateHasOriginal, Log!LogInit, Log!NoRow
<1>6. KeyTells /\ RowTells
  BY DEF KeyTells, RowTells, Dedup!KeysInit, None, Claiming
<1>7. PostBudget
  <2>1. \A e \in Events : /\ job[e].state = "none" /\ posts[e] = 0 /\ Claimants(e) = {}
                         /\ \A w \in Slots : slot[w] # e
    BY EventAssumption
    DEF Queue!QueueInit, Queue!NoJob, Client!ClientInit, Claimants, Claiming, None
  <2>2. \A e \in Events : Cardinality(Remaining(e)) = 0
    BY <2>1, NothingDue
  <2>3. Budget(Attempts + MaxStalled) \in Nat
    BY PipelineAssumption, BudgetArith
  <2> QED
    BY <2>1, <2>2, <2>3 DEF PostBudget, Lost
<1>8. BoundedPosts
  BY <1>1, <1>7, BudgetBounds DEF Inv
<1> QED
  BY <1>1, <1>2, <1>3, <1>4, <1>5, <1>6, <1>7, <1>8 DEF FullInv

LEMMA FullInvStep == FullInv /\ [Next]_vars => FullInv'
<1> SUFFICES ASSUME FullInv, [Next]_vars PROVE FullInv'
  OBVIOUS
<1> USE DEF FullInv
<1>1. Inv' /\ TypeOK'
  BY InvStep DEF Inv
<1>2. CallsBelong' /\ ClaimedFirst'
  BY CallsBelongStep, ClaimedFirstStep DEF Inv
<1>3. NoSilentLoss' /\ JobTells'
  BY NoSilentLossStep, JobTellsStep
<1>4. DuplicateHasOriginal' /\ KeyTells'
  BY DuplicateStep, KeyTellsStep DEF Inv
<1>5. PendingIsTransient' /\ RowTells'
  BY PendingStep, RowTellsStep
<1>6. PostBudget'
  BY PostBudgetStep
<1>7. TypeOK /\ PostBudget => BoundedPosts
  BY BudgetBounds
<1>8. BoundedPosts'
  BY <1>1, <1>6, <1>7, BudgetBounds, PTL
<1> QED
  BY <1>1, <1>2, <1>3, <1>4, <1>5, <1>6, <1>8

\* The inductive invariant of the whole pipeline holds in every behaviour.
THEOREM FullInvCorrect == Spec => []FullInv
<1>1. Init => FullInv
  BY FullInvInit
<1>2. FullInv /\ [Next]_vars => FullInv'
  BY FullInvStep
<1> QED
  BY <1>1, <1>2, PTL DEF Spec

\* An event that was won is in somebody's hands, at TikTok, a dead letter, or was given
\* up by an exception out of process(), an exit of the process or the eviction of its job.
THEOREM NoSilentLossCorrect == Spec => []NoSilentLoss
<1>1. FullInv => NoSilentLoss
  BY DEF FullInv
<1> QED
  BY <1>1, FullInvCorrect, PTL

\* A row is 'pending' only while its claimant is at work or after it was dropped.
THEOREM PendingIsTransientCorrect == Spec => []PendingIsTransient
<1>1. FullInv => PendingIsTransient
  BY DEF FullInv
<1> QED
  BY <1>1, FullInvCorrect, PTL

\* A 'duplicate' row has an original, unless the deduplicator met its own key.
THEOREM DuplicateHasOriginalCorrect == Spec => []DuplicateHasOriginal
<1>1. FullInv => DuplicateHasOriginal
  BY DEF FullInv
<1> QED
  BY <1>1, FullInvCorrect, PTL

\* The retry layers together send an event at most
\* (1 + Retries) * (1 + Attempts + MaxStalled) times.
THEOREM BoundedPostsCorrect == Spec => []BoundedPosts
<1>1. FullInv => BoundedPosts
  BY DEF FullInv
<1> QED
  BY <1>1, FullInvCorrect, PTL

\* No step rewrites a row that says 'sent', unless the event lost its key or the
\* update that wrote 'sent' was reported as failed.
THEOREM SentIsFinalCorrect == Spec => SentIsFinal
<1>1. FullInv /\ [Next]_vars =>
        [\A e \in Events :
           log[e] = "sent" /\ e \notin history'.leaky \cup history'.unacked => log'[e] = "sent"]_vars
  BY SentStays DEF FullInv
<1> QED
  BY <1>1, FullInvCorrect, PTL DEF Spec, SentIsFinal

-----------------------------------------------------------------------------
(***************************************************************************)
(* The refinement.  First the requests on the wire: a request that was     *)
(* made is on the wire until TikTok records it or refuses it; giving up on *)
(* an answer, and the exit of the process, leave it there.                 *)
(***************************************************************************)
Wire(e) == late[e] + Cardinality(Client!OnTheWire(e))

LEMMA WireType ==
  ASSUME NEW e \in Events
  PROVE  /\ IsFiniteSet(Client!OnTheWire(e)) /\ Cardinality(Client!OnTheWire(e)) \in Nat
         /\ IsFiniteSet(Client!OnTheWire(e)') /\ Cardinality(Client!OnTheWire(e)') \in Nat
<1>1. IsFiniteSet(Callers)
  BY PipelineAssumption, FS_Union DEF Callers
<1>2. /\ Client!OnTheWire(e) \in SUBSET Callers
      /\ Client!OnTheWire(e)' \in SUBSET Callers
  BY DEF Client!OnTheWire
<1> QED
  BY <1>1, <1>2, FS_Subset, FS_CardinalityType

\* A caller's call is closed or goes to back-off: its request is not awaited any more.
LEMMA WireOfEnd ==
  ASSUME Client!ClientTypeOK, NEW c \in Callers, NEW e \in Events,
         Client!Succeed(c) \/ Client!Fail(c) \/ Client!Retry(c)
  PROVE  /\ Client!OnTheWire(e)' = Client!OnTheWire(e) \ {c}
         /\ \/ late'[e] = late[e] + 1 /\ c \in Client!OnTheWire(e)
            \/ late'[e] = late[e] /\ (c \in Client!OnTheWire(e) => call[c].step # "none" /\ call[c].event = e)
<1> USE DEF Client!ClientTypeOK
<1>1. /\ call[c].step # "none" /\ call'[c].step # "posted"
      /\ \A d \in Callers \ {c} : call'[d] = call[d]
  <2>1. CASE Client!Succeed(c) \/ Client!Fail(c)
    BY <2>1, CloseShape DEF Client!NoCall
  <2>2. CASE Client!Retry(c)
    BY <2>2 DEF Client!Retry, Client!Call
  <2> QED
    BY <2>1, <2>2
<1>2. Client!OnTheWire(e)' = Client!OnTheWire(e) \ {c}
  BY <1>1 DEF Client!OnTheWire
<1>3. \/ UNCHANGED late
      \/ /\ ~call[c].recorded /\ call[c].step = "posted"
         /\ late' = [late EXCEPT ![call[c].event] = @ + 1]
  BY DEF Client!Succeed, Client!Fail, Client!Retry, Client!NoToken, Client!Rejected, Client!NotAccepted,
     Client!TimedOut, Client!RetriesExhausted, Client!Answered, Client!Abandoned
<1>4. c \in Client!OnTheWire(e) => call[c].step # "none" /\ call[c].event = e
  BY DEF Client!OnTheWire
<1>5. CASE UNCHANGED late
  BY <1>2, <1>4, <1>5
<1>6. CASE /\ ~call[c].recorded /\ call[c].step = "posted"
           /\ late' = [late EXCEPT ![call[c].event] = @ + 1]
  <2>1. CASE call[c].event = e
    BY <1>2, <1>6, <2>1 DEF Client!OnTheWire
  <2>2. CASE call[c].event # e
    BY <1>2, <1>4, <1>6, <2>2
  <2> QED
    BY <2>1, <2>2
<1> QED
  BY <1>3, <1>5, <1>6

Ends(c) == Client!Succeed(c) \/ Client!Fail(c) \/ Retry(c)

\* A request goes onto the wire when it is sent, and leaves it when TikTok records it.
LEMMA WireOfRequest ==
  ASSUME TypeOK, [Next]_vars, NEW e \in Events
  PROVE  /\ \A c \in Callers : Send(c) =>
              Wire(e)' = IF call[c].event = e THEN Wire(e) + 1 ELSE Wire(e)
         /\ \A c \in Callers : Record(c) =>
              IF call[c].event = e THEN Wire(e) > 0 /\ Wire(e)' = Wire(e) - 1 ELSE Wire(e)' = Wire(e)
         /\ \A f \in Events : RecordLate(f) =>
              IF f = e THEN Wire(e) > 0 /\ Wire(e)' = Wire(e) - 1 ELSE Wire(e)' = Wire(e)
<1> USE DEF TypeOK, Client!ClientTypeOK
<1> DEFINE on == Client!OnTheWire(e)
           on1 == Client!OnTheWire(e)'
<1>1. /\ IsFiniteSet(on) /\ Cardinality(on) \in Nat /\ Cardinality(on1) \in Nat
      /\ late[e] \in Nat /\ late'[e] \in Nat
      /\ Wire(e) = late[e] + Cardinality(on) /\ Wire(e)' = late'[e] + Cardinality(on1)
  BY WireType, TypeStep DEF Wire
<1>2. ASSUME NEW c \in Callers, Send(c)
      PROVE  Wire(e)' = IF call[c].event = e THEN Wire(e) + 1 ELSE Wire(e)
  <2>1. /\ UNCHANGED late /\ c \notin on
        /\ call'[c].step = "posted" /\ call'[c].event = call[c].event /\ ~call'[c].recorded
        /\ \A d \in Callers \ {c} : call'[d] = call[d]
    BY <1>2 DEF Send, Client!Post, Client!Call, Client!OnTheWire
  <2>2. on1 = IF call[c].event = e THEN on \cup {c} ELSE on
    BY <2>1 DEF Client!OnTheWire
  <2>3. Cardinality(on \cup {c}) = Cardinality(on) + 1
    BY <1>1, <2>1, FS_AddElement
  <2> QED
    BY <1>1, <2>1, <2>2, <2>3
<1>3. ASSUME NEW c \in Callers, Record(c)
      PROVE  IF call[c].event = e THEN Wire(e) > 0 /\ Wire(e)' = Wire(e) - 1 ELSE Wire(e)' = Wire(e)
  <2>1. /\ UNCHANGED late /\ call[c].step = "posted" /\ ~call[c].recorded
        /\ call'[c].recorded
        /\ \A d \in Callers \ {c} : call'[d] = call[d]
    BY <1>3 DEF Record, Client!Record, Client!Call
  <2>2. on1 = on \ {c} /\ (c \in on <=> call[c].event = e)
    BY <2>1 DEF Client!OnTheWire
  <2>3. c \in on => Cardinality(on \ {c}) = Cardinality(on) - 1
    BY <1>1, FS_RemoveElement
  <2>4. c \notin on => on \ {c} = on
    OBVIOUS
  <2> HIDE DEF on, on1
  <2>5. CASE call[c].event = e
    BY <1>1, <2>1, <2>2, <2>3, <2>5
  <2>6. CASE call[c].event # e
    BY <1>1, <2>1, <2>2, <2>4, <2>6
  <2> QED
    BY <2>5, <2>6
<1>4. ASSUME NEW f \in Events, RecordLate(f)
      PROVE  IF f = e THEN Wire(e) > 0 /\ Wire(e)' = Wire(e) - 1 ELSE Wire(e)' = Wire(e)
  <2>1. /\ UNCHANGED call /\ late[f] > 0 /\ late' = [late EXCEPT ![f] = @ - 1]
    BY <1>4 DEF RecordLate, Client!RecordLate
  <2>2. on1 = on
    BY <2>1 DEF Client!OnTheWire
  <2> QED
    BY <1>1, <2>1, <2>2
<1> QED
  BY <1>2, <1>3, <1>4

LEMMA WireMove ==
  ASSUME Inv, CallsBelong, [Next]_vars, NEW e \in Events
  PROVE  /\ Wire(e) \in Nat /\ Wire(e)' \in Nat
         /\ \/ Wire(e)' = Wire(e)
            \/ Wire(e)' = Wire(e) + 1 /\ \E c \in Callers : Send(c) /\ call[c].event = e
            \/ Wire(e) > 0 /\ Wire(e)' = Wire(e) - 1 /\ (RecordLate(e) \/ \E c \in Callers : Record(c) /\ call[c].event = e)
            \/ /\ Wire(e) > 0 /\ Wire(e)' = Wire(e) - 1
               /\ \E c \in Callers : Ends(c) /\ call[c].step # "none" /\ call[c].event = e
<1> USE DEF Inv, TypeOK, Client!ClientTypeOK
<1> DEFINE on == Client!OnTheWire(e)
           on1 == Client!OnTheWire(e)'
<1>1. /\ IsFiniteSet(on) /\ Cardinality(on) \in Nat /\ Cardinality(on1) \in Nat
      /\ late[e] \in Nat /\ late'[e] \in Nat
      /\ Wire(e) = late[e] + Cardinality(on) /\ Wire(e)' = late'[e] + Cardinality(on1)
  BY WireType, TypeStep DEF Wire
<1>2. Wire(e) \in Nat /\ Wire(e)' \in Nat
  BY <1>1
<1>3. ASSUME late'[e] = late[e], on1 = on PROVE Wire(e)' = Wire(e)
  BY <1>1, <1>3
<1>4. ASSUME NEW c \in Callers, Ends(c), ~(call[c].step # "none" /\ call[c].event = e /\ c \in on)
      PROVE  Wire(e)' = Wire(e)
  <2>1. Client!Succeed(c) \/ Client!Fail(c) \/ Client!Retry(c)
    BY <1>4 DEF Ends, Retry
  <2>2. /\ on1 = on \ {c}
        /\ \/ late'[e] = late[e] + 1 /\ c \in on
           \/ late'[e] = late[e] /\ (c \in on => call[c].step # "none" /\ call[c].event = e)
    BY <2>1, WireOfEnd
  <2>3. c \in on => call[c].step # "none" /\ call[c].event = e
    BY DEF Client!OnTheWire
  <2> HIDE DEF on, on1
  <2>4. on1 = on /\ late'[e] = late[e]
    BY <1>4, <2>2, <2>3
  <2> QED
    BY <1>3, <2>4
<1>5. ASSUME NEW c \in Callers, Ends(c), call[c].step # "none", call[c].event = e, c \in on
      PROVE  \/ Wire(e)' = Wire(e)
             \/ Wire(e) > 0 /\ Wire(e)' = Wire(e) - 1
  <2>0. Client!Succeed(c) \/ Client!Fail(c) \/ Client!Retry(c)
    BY <1>5 DEF Ends, Retry
  <2>1. on1 = on \ {c} /\ (late'[e] = late[e] + 1 \/ late'[e] = late[e])
    BY <2>0, WireOfEnd
  <2>2. c \in on => Cardinality(on \ {c}) = Cardinality(on) - 1
    BY <1>1, FS_RemoveElement
  <2>3. c \in on
    BY <1>5
  <2>4. Cardinality(on) > 0
    BY <1>1, <2>3, FS_EmptySet
  <2> HIDE DEF on, on1
  <2> QED
    BY <1>1, <2>1, <2>2, <2>3, <2>4
<1>6. ASSUME NEW c \in Callers, call[c].step = "none", NEW f \in Events, Opens(c, f)
      PROVE  Wire(e)' = Wire(e)
  <2>1. c \notin on /\ call'[c].step = "limiter" /\ UNCHANGED late
        /\ \A d \in Callers \ {c} : call'[d] = call[d]
    BY <1>6 DEF Opens, Client!NewCall, Client!OnTheWire
  <2>2. on1 = on
    BY <2>1 DEF Client!OnTheWire
  <2> QED
    BY <1>3, <2>1, <2>2
<1>7. ASSUME Crash PROVE Wire(e)' = Wire(e)
  <2>1. late'[e] = late[e] + Cardinality(on) /\ on1 = {}
    BY <1>7 DEF Crash, Client!AbandonAll, Client!OnTheWire, Client!NoCall, Cardinality, Client!Cardinality
  <2>2. Cardinality(on1) = 0
    BY <2>1, FS_EmptySet
  <2> QED
    BY <1>1, <2>1, <2>2
<1>8. ASSUME UNCHANGED <<call, late>> PROVE Wire(e)' = Wire(e)
  BY <1>8 DEF Wire, Client!OnTheWire
<1>9. ASSUME NEW h \in Handlers, LogPending(h)
       PROVE  h \in Callers /\ call[h].step = "none" /\ event[h] \in Events /\ Opens(h, event[h])
  BY <1>9 DEF LogPending, Client!BeginSend, Opens, CallsBelong, At, HandlerTypeOK, None, Callers
<1>10. ASSUME NEW w \in Slots, NEW f \in Events, TakeJob(w, f)
       PROVE  w \in Callers /\ call[w].step = "none" /\ Opens(w, f)
  BY <1>10 DEF TakeJob, Client!BeginSend, Opens, CallsBelong, Queue!Take, Callers
<1>11. \/ UNCHANGED <<call, late>> \/ Crash
       \/ \E h \in Handlers : LogPending(h)
       \/ \E w \in Slots, f \in Events : TakeJob(w, f)
       \/ \E c \in Callers : Ends(c) \/ Send(c) \/ Record(c)
       \/ \E f \in Events : RecordLate(f)
  BY StepKinds, QuietShape
  DEF Ends, Callers, clientVars, Deliver, vars, SendSucceeds, SendFails, JobSucceeds, JobFails,
      PromoteJob, RecoverStalled, LoseLock, TrimJob, EvictJob, ExpireKey
<1> HIDE DEF on, on1
<1>12. CASE UNCHANGED <<call, late>> \/ Crash
  BY <1>2, <1>7, <1>8, <1>12
<1>13. CASE \E h \in Handlers : LogPending(h)
  BY <1>2, <1>6, <1>9, <1>13
<1>14. CASE \E w \in Slots, f \in Events : TakeJob(w, f)
  BY <1>2, <1>6, <1>10, <1>14
<1>15. CASE \E c \in Callers : Ends(c)
  BY <1>2, <1>4, <1>5, <1>15
<1>16. CASE \E c \in Callers : Send(c) \/ Record(c)
  BY <1>2, <1>16, WireOfRequest
<1>17. CASE \E f \in Events : RecordLate(f)
  BY <1>2, <1>17, WireOfRequest
<1> QED
  BY <1>11, <1>12, <1>13, <1>14, <1>15, <1>16, <1>17

-----------------------------------------------------------------------------
(***************************************************************************)
(* Who answers for an event.  An event in nobody's hands is touched only   *)
(* by a handler that wins it.                                              *)
(***************************************************************************)
\* A handler wins the event.
Wins(h, e) == (Novel(h) \/ FailOpen(h)) /\ event[h] = e

\* Only who is won over is counted, only a claimant's event is dropped, only a job
\* that failed is buried, and a guard falls with a fail open or with the key.
LEMMA HistoryMove ==
  ASSUME TypeOK, [Next]_vars, NEW e \in Events
  PROVE  /\ history'.claimed[e] = history.claimed[e] \/ \E h \in Handlers : Wins(h, e)
         /\ e \in history'.leaky => \/ e \in history.leaky \/ ExpireKey(e)
                                    \/ \E h \in Handlers : Wins(h, e)
         /\ e \in history'.dropped => e \in history.dropped \/ Claimants(e) # {}
         /\ e \in history'.dead => e \in history.dead \/ job'[e].state = "failed"
         /\ e \in history'.evicted => e \in history.evicted \/ Queue!Live(e)
<1> USE DEF TypeOK, HandlerTypeOK, HistoryTypeOK
<1> DEFINE Same == /\ history'.claimed[e] = history.claimed[e]
                   /\ e \in history'.leaky => e \in history.leaky
                   /\ e \in history'.dropped => e \in history.dropped
                   /\ e \in history'.dead => e \in history.dead
                   /\ e \in history'.evicted => e \in history.evicted
           Moves == /\ history'.claimed[e] = history.claimed[e] \/ \E h \in Handlers : Wins(h, e)
                    /\ e \in history'.leaky => \/ e \in history.leaky \/ ExpireKey(e)
                                               \/ \E h \in Handlers : Wins(h, e)
                    /\ e \in history'.dropped => e \in history.dropped \/ Claimants(e) # {}
                    /\ e \in history'.dead => e \in history.dead \/ job'[e].state = "failed"
                    /\ e \in history'.evicted => e \in history.evicted \/ Queue!Live(e)
<1>1. ASSUME NEW h \in Handlers, Novel(h) \/ FailOpen(h) PROVE Moves
  <2>1. /\ history'.claimed = [history.claimed EXCEPT ![event[h]] = @ + 1]
        /\ history'.leaky \subseteq history.leaky \cup {event[h]}
        /\ history'.dropped = history.dropped /\ history'.dead = history.dead
        /\ history'.evicted = history.evicted
    BY <1>1 DEF Novel, FailOpen, Claims
  <2> QED
    BY <1>1, <2>1 DEF Wins
<1>2. ASSUME NEW h \in Handlers, OwnKey(h) \/ MarkSentFails(h) PROVE Same
  BY <1>2 DEF OwnKey, MarkSentFails
<1>3. ASSUME NEW h \in Handlers, LogPendingFails(h) \/ MarkFailedFails(h) \/ EnqueueFails(h) PROVE Moves
  <2>1. /\ history' = Drops({event[h]}) /\ pc[h] \in Claiming
    BY <1>3 DEF LogPendingFails, MarkFailedFails, EnqueueFails, At, Claiming
  <2> QED
    BY <2>1 DEF Drops, Claimants
<1>4. ASSUME NEW f \in Events, ExpireKey(f) PROVE Moves
  BY <1>4 DEF ExpireKey
<1>5. CASE Crash
  BY <1>5 DEF Crash, Drops
<1>6. CASE history' = Buries
  BY <1>6 DEF Buries
<1>7. CASE UNCHANGED history
  BY <1>7
<1>8. ASSUME NEW f \in Events, EvictJob(f) PROVE Moves
  BY <1>8 DEF EvictJob
<1>9. \/ UNCHANGED history \/ history' = Buries \/ Crash
      \/ \E h \in Handlers : \/ Novel(h) \/ FailOpen(h) \/ OwnKey(h) \/ MarkSentFails(h)
                             \/ LogPendingFails(h) \/ MarkFailedFails(h) \/ EnqueueFails(h)
      \/ \E f \in Events : ExpireKey(f) \/ EvictJob(f)
  BY DEF vars, Next, HandlerStep, JobStep, SlotStep, CallStep, Duplicate,
     LogDuplicate, LogDuplicateFails, LogPending, SendSucceeds, SendFails,
     MarkSent, MarkFailed, Enqueue, TakeJob,
     JobSucceeds, JobFails, PromoteJob, LoseLock, RecoverStalled, TrimJob, Send, Retry, Record,
     RecordLate, Deliver
<1> QED
  BY <1>1, <1>2, <1>3, <1>4, <1>5, <1>6, <1>7, <1>8, <1>9

LEMMA HeldMove ==
  ASSUME Inv, JobTells, [Next]_vars, NEW e \in Events, ~Held(e), \A h \in Handlers : ~Wins(h, e)
  PROVE  ~Held(e)' /\ Ended(e)' = Ended(e)
<1> USE DEF Inv, TypeOK, HandlerTypeOK
<1>1. Claimants(e) = {} /\ ~Queue!Live(e) /\ \A w \in Slots : slot[w] # e
  BY DEF Held
<1>2. ASSUME NEW h \in Claimants(e)' PROVE FALSE
  <2>1. h \in Handlers /\ pc'[h] \in Claiming /\ event'[h] = e
    BY DEF Claimants
  <2>2. event[h] = e /\ (pc[h] \in Claiming \/ Novel(h) \/ FailOpen(h))
    BY <2>1, BecomesClaimant
  <2> QED
    BY <1>1, <2>1, <2>2 DEF Wins, Claimants
<1>3. job'[e].state \in {job[e].state, "none", "stray"}
  <2>1. job[e].state \in {"none", "completed", "failed", "stray"}
    BY <1>1 DEF Queue!Live, Queue!QueueTypeOK, Queue!Job, Queue!JobStates
  <2>2. ASSUME NEW h \in Handlers, event[h] = e, pc[h] = "enqueue" PROVE FALSE
    BY <1>1, <2>2 DEF Claimants, Claiming
  <2> QED
    BY <2>1, <2>2, JobsMove, JobRests
<1>4. ~Queue!Live(e)'
  BY <1>1, <1>3 DEF Queue!Live
<1>5. ASSUME NEW w \in Slots, slot'[w] = e PROVE FALSE
  <2>1. ASSUME NEW f \in Events, TakeJob(w, f), slot'[w] = f PROVE FALSE
    BY <1>1, <1>5, <2>1 DEF TakeJob, Queue!Take, Queue!Live
  <2> QED
    BY <1>1, <1>5, <2>1, SlotsMove, EventAssumption
<1>6. e \in history'.dropped <=> e \in history.dropped
  BY <1>1, HistoryMove, HistoryGrows
<1>7. e \in history'.dead <=> e \in history.dead
  BY <1>3, HistoryMove, HistoryGrows DEF JobTells
<1>8. e \in history'.evicted <=> e \in history.evicted
  BY <1>1, HistoryMove, HistoryGrows
<1> QED
  BY <1>2, <1>4, <1>5, <1>6, <1>7, <1>8 DEF Held, Ended

\* TikTok's count of an event changes only when TikTok records a request of it.
LEMMA ArrivedMove ==
  ASSUME TypeOK, [Next]_vars, NEW e \in Events
  PROVE  \/ received'[e] = received[e]
         \/ received'[e] > 0 /\ (RecordLate(e) \/ \E c \in Callers : Record(c) /\ call[c].event = e)
<1> USE DEF TypeOK, Client!ClientTypeOK
<1>1. ASSUME NEW c \in Callers, Record(c)
      PROVE  IF call[c].event = e THEN received'[e] > 0 ELSE received'[e] = received[e]
  BY <1>1 DEF Record, Client!Record
<1>2. ASSUME NEW f \in Events, RecordLate(f)
      PROVE  IF f = e THEN received'[e] > 0 ELSE received'[e] = received[e]
  BY <1>2 DEF RecordLate, Client!RecordLate
<1>3. \/ UNCHANGED received
      \/ \E c \in Callers : Record(c)
      \/ \E f \in Events : RecordLate(f)
  BY DEF vars, clientVars, Callers, Next, HandlerStep, JobStep, SlotStep, CallStep, Novel, Duplicate, FailOpen, OwnKey, LogDuplicate,
     LogDuplicateFails, LogPending, LogPendingFails, SendSucceeds, SendFails, MarkSent,
     MarkSentFails, MarkFailed, MarkFailedFails, Enqueue, EnqueueFails,
     TakeJob, JobSucceeds, JobFails, PromoteJob, LoseLock, RecoverStalled, TrimJob, EvictJob, Send,
     Retry, ExpireKey, Crash, Deliver, Client!BeginSend, Client!Post,
     Client!Retry, Client!AbandonAll, Client!Succeed, Client!Fail, Client!NoToken, Client!Rejected, Client!NotAccepted,
     Client!TimedOut, Client!RetriesExhausted, Client!Throw
<1> QED
  BY <1>1, <1>2, <1>3

-----------------------------------------------------------------------------
(***************************************************************************)
(* Each step is, for each event, a step of the contract or none.           *)
(***************************************************************************)
\* The contract, part by part.
LEMMA ContractSteps ==
  ASSUME NEW old \in Delivery!Life, NEW new \in Delivery!Life, Delivery!Accounted(old, new),
         \/ \* Unguard
            /\ new.taken = old.taken /\ new.held = old.held /\ ~new.guarded
            /\ new.wire = old.wire /\ new.arrived = old.arrived /\ new.ended = old.ended
         \/ \* Take
            /\ ~old.taken \/ ~new.guarded
            /\ new.taken /\ new.held /\ (new.guarded => old.guarded)
            /\ new.wire = old.wire /\ new.arrived = old.arrived /\ new.ended = old.ended
         \/ \* Post
            /\ old.held /\ new.taken = old.taken /\ new.held = old.held /\ new.guarded = old.guarded
            /\ new.wire = old.wire + 1 /\ new.arrived = old.arrived /\ new.ended = old.ended
         \/ \* Arrive
            /\ new.taken = old.taken /\ new.held = old.held /\ new.guarded = old.guarded
            /\ old.wire > 0 /\ new.wire = old.wire - 1 /\ new.arrived /\ new.ended = old.ended
         \/ \* Refuse
            /\ old.held /\ new.taken = old.taken /\ new.guarded = old.guarded
            /\ old.wire > 0 /\ new.wire = old.wire - 1 /\ new.arrived = old.arrived
         \/ \* GiveUp
            /\ old.held /\ new.taken = old.taken /\ new.guarded = old.guarded
            /\ new.wire = old.wire /\ new.arrived = old.arrived
  PROVE  Delivery!Step(old, new)
<1> USE DEF Delivery!Life
<1> DEFINE Same == new.taken = old.taken /\ new.guarded = old.guarded
           Stays == new.held = old.held /\ new.ended = old.ended
<1>1. ASSUME new.taken = old.taken, new.arrived = old.arrived, new.wire = old.wire, Stays, ~new.guarded
      PROVE  Delivery!Unguard(old, new)
  BY <1>1 DEF Delivery!Unguard
<1>2. ASSUME ~old.taken \/ ~new.guarded, new.taken, new.held, new.guarded => old.guarded,
             new.wire = old.wire, new.arrived = old.arrived, new.ended = old.ended
      PROVE  Delivery!Take(old, new)
  BY <1>2 DEF Delivery!Take
<1>3. ASSUME old.held, Same, Stays, new.wire = old.wire + 1, new.arrived = old.arrived
      PROVE  Delivery!Post(old, new)
  BY <1>3 DEF Delivery!Post
<1>4. ASSUME Same, Stays, old.wire > 0, new.wire = old.wire - 1, new.arrived
      PROVE  Delivery!Arrive(old, new)
  BY <1>4 DEF Delivery!Arrive
<1>5. ASSUME old.held, Same, old.wire > 0, new.wire = old.wire - 1, new.arrived = old.arrived
      PROVE  Delivery!Refuse(old, new)
  BY <1>5 DEF Delivery!Refuse
<1>6. ASSUME old.held, Same, new.wire = old.wire, new.arrived = old.arrived
      PROVE  Delivery!GiveUp(old, new)
  BY <1>6 DEF Delivery!GiveUp
<1> QED
  BY <1>1, <1>2, <1>3, <1>4, <1>5, <1>6 DEF Delivery!Step

\* Whoever has a call open about an event answers for it.
LEMMA CallersHold ==
  ASSUME Inv, CallsBelong, NEW c \in Callers, call[c].step # "none"
  PROVE  Held(call[c].event)
<1>1. CASE c \in Handlers
  BY <1>1 DEF CallsBelong, Inv, ReceivedFirst, Held, Claimants, Claiming
<1>2. CASE c \in Slots
  BY <1>2 DEF CallsBelong, Held
<1> QED
  BY <1>1, <1>2 DEF Callers

\* A handler wins an event for the first time, or after its guard has fallen.
LEMMA WinIsTake ==
  ASSUME Inv, [Next]_vars, NEW e \in Events, NEW h \in Handlers, Wins(h, e)
  PROVE  /\ history.claimed[e] = 0 \/ e \in history'.leaky
         /\ history'.claimed[e] > 0 /\ Held(e)'
         /\ e \in history.leaky => e \in history'.leaky
         /\ Wire(e)' = Wire(e) /\ UNCHANGED received /\ Ended(e)' = Ended(e)
<1> USE DEF Inv, TypeOK, HandlerTypeOK, HistoryTypeOK
<1>1. /\ history'.claimed = [history.claimed EXCEPT ![e] = @ + 1]
      /\ history'.dropped = history.dropped /\ history'.dead = history.dead
      /\ history'.evicted = history.evicted
      /\ history'.leaky = history.leaky \/ e \in history'.leaky
      /\ UNCHANGED clientVars
      /\ pc' = [pc EXCEPT ![h] = "logPending"] /\ UNCHANGED event
  BY DEF Wins, Novel, FailOpen, Claims, Goto
<1>2. history.claimed[e] = 0 \/ e \in history'.leaky
  <2>1. ASSUME Novel(h) PROVE e \notin keys
    BY <2>1 DEF Novel, Dedup!AnswerNovel, Wins
  <2>2. ASSUME FailOpen(h) PROVE e \in history'.leaky
    BY <2>2 DEF FailOpen, Claims, Wins
  <2> QED
    BY <1>1, <2>1, <2>2 DEF KeyGuards, Wins
<1>3. history'.claimed[e] > 0
  BY <1>1
<1>4. Held(e)'
  BY <1>1 DEF Held, Claimants, Claiming, Wins
<1>5. Wire(e)' = Wire(e)
  BY <1>1 DEF Wire, clientVars, Client!OnTheWire
<1>6. UNCHANGED received /\ Ended(e)' = Ended(e)
  BY <1>1 DEF clientVars, Ended
<1> QED
  BY <1>1, <1>2, <1>3, <1>4, <1>5, <1>6

\* The parts of an event's life.
LEMMA LifeParts ==
  ASSUME TypeOK, [Next]_vars, NEW e \in Events
  PROVE  /\ LifeOf(e) \in Delivery!Life /\ LifeOf(e)' \in Delivery!Life
         /\ LifeOf(e).taken = (history.claimed[e] > 0)
         /\ LifeOf(e).held = Held(e)
         /\ LifeOf(e).guarded = (e \notin history.leaky)
         /\ LifeOf(e).wire = Wire(e)
         /\ LifeOf(e).arrived = (received[e] > 0)
         /\ LifeOf(e).ended = Ended(e)
         /\ LifeOf(e)'.taken = (history'.claimed[e] > 0)
         /\ LifeOf(e)'.held = Held(e)'
         /\ LifeOf(e)'.guarded = (e \notin history'.leaky)
         /\ LifeOf(e)'.wire = Wire(e)'
         /\ LifeOf(e)'.arrived = (received'[e] > 0)
         /\ LifeOf(e)'.ended = Ended(e)'
<1> USE DEF TypeOK, Client!ClientTypeOK, HistoryTypeOK
<1>1. Wire(e) \in Nat /\ Wire(e)' \in Nat
  <2>1. late[e] \in Nat /\ late'[e] \in Nat
    BY TypeStep
  <2> QED
    BY <2>1, WireType DEF Wire
<1>2. /\ Ended(e) \in SUBSET {"buried", "dropped", "evicted"}
      /\ Ended(e)' \in SUBSET {"buried", "dropped", "evicted"}
  BY DEF Ended
<1>3. Held(e) \in BOOLEAN /\ Held(e)' \in BOOLEAN
  BY DEF Held, Queue!Live
<1>4. /\ LifeOf(e) = [taken |-> history.claimed[e] > 0, held |-> Held(e), guarded |-> e \notin history.leaky,
                      wire |-> Wire(e), arrived |-> received[e] > 0, ended |-> Ended(e)]
      /\ LifeOf(e)' = [taken |-> history'.claimed[e] > 0, held |-> Held(e)', guarded |-> e \notin history'.leaky,
                       wire |-> Wire(e)', arrived |-> received'[e] > 0, ended |-> Ended(e)']
  BY DEF LifeOf, Wire
<1>5. LifeOf(e) \in Delivery!Life /\ LifeOf(e)' \in Delivery!Life
  BY <1>1, <1>2, <1>3, <1>4 DEF Delivery!Life
<1>6. /\ LifeOf(e).taken = (history.claimed[e] > 0)
      /\ LifeOf(e).held = Held(e)
      /\ LifeOf(e).guarded = (e \notin history.leaky)
      /\ LifeOf(e).wire = Wire(e)
      /\ LifeOf(e).arrived = (received[e] > 0)
      /\ LifeOf(e).ended = Ended(e)
  BY <1>4
<1>7. /\ LifeOf(e)'.taken = (history'.claimed[e] > 0)
      /\ LifeOf(e)'.held = Held(e)'
      /\ LifeOf(e)'.guarded = (e \notin history'.leaky)
      /\ LifeOf(e)'.wire = Wire(e)'
      /\ LifeOf(e)'.arrived = (received'[e] > 0)
      /\ LifeOf(e)'.ended = Ended(e)'
  BY <1>4
<1> QED
  BY <1>5, <1>6, <1>7

LEMMA LifeStep ==
  ASSUME FullInv, [Next]_vars, NEW e \in Events
  PROVE  LifeOf(e)' = LifeOf(e) \/ Delivery!Step(LifeOf(e), LifeOf(e)')
<1> USE DEF FullInv, Inv
<1> DEFINE old == LifeOf(e)
           new == LifeOf(e)'
           Same == new.taken = old.taken /\ new.guarded = old.guarded
           Stays == new.held = old.held /\ new.ended = old.ended
<1>1. Delivery!Accounted(old, new)
  <2>1. Ended(e) \subseteq Ended(e)'
    BY HistoryGrows DEF Ended
  <2>2. ASSUME Held(e), ~Held(e)' PROVE received'[e] > 0 \/ Ended(e)' # {}
    <3>1. history.claimed[e] > 0
      <4>1. history.claimed[e] \in Nat
        BY DEF TypeOK, HistoryTypeOK
      <4>2. ASSUME NEW h \in Claimants(e) PROVE history.claimed[e] > 0
        BY DEF KeyGuards, Claimants
      <4>3. history.claimed[e] = 0 => ~Queue!Live(e) /\ \A w \in Slots : slot[w] # e
        BY DEF ClaimedFirst, Queue!Live
      <4> QED
        BY <2>2, <4>1, <4>2, <4>3 DEF Held
    <3>2. history'.claimed[e] > 0 /\ NoSilentLoss'
      BY <3>1, HistoryGrows, FullInvStep
    <3> QED
      BY <2>2, <3>2 DEF NoSilentLoss, Held, Ended, GivenUp
  <2>3. ASSUME Held(e)', ~Held(e) PROVE history.claimed[e] = 0 \/ e \in history'.leaky
    BY <2>3, HeldMove, WinIsTake
  <2>4. history.claimed[e] = 0 => ~(history.claimed[e] > 0)
    OBVIOUS
  <2> QED
    BY <2>1, <2>2, <2>3, <2>4, LifeParts DEF Delivery!Accounted
<1>2. CASE \E h \in Handlers : Wins(h, e)
  <2>1. /\ history.claimed[e] = 0 \/ e \in history'.leaky
        /\ history'.claimed[e] > 0 /\ Held(e)'
        /\ e \in history.leaky => e \in history'.leaky
        /\ Wire(e)' = Wire(e) /\ UNCHANGED received /\ Ended(e)' = Ended(e)
    BY <1>2, WinIsTake
  <2>2. ~old.taken \/ ~new.guarded
    <3>1. history.claimed[e] = 0 => ~(history.claimed[e] > 0)
      OBVIOUS
    <3> QED
      BY <2>1, <3>1, LifeParts
  <2>3. new.taken /\ new.held /\ (new.guarded => old.guarded)
    BY <2>1, LifeParts
  <2>4. new.wire = old.wire /\ new.arrived = old.arrived /\ new.ended = old.ended
    BY <2>1, LifeParts
  <2> QED
    BY <1>1, <2>2, <2>3, <2>4, LifeParts, ContractSteps
<1>3. CASE ExpireKey(e)
  <2>1. /\ history' = [history EXCEPT !.leaky = @ \cup {e}]
        /\ UNCHANGED <<clientVars, queueVars, handlerVars>>
    BY <1>3 DEF ExpireKey
  <2>2. /\ history'.claimed = history.claimed /\ e \in history'.leaky
        /\ history'.dropped = history.dropped /\ history'.dead = history.dead
        /\ history'.evicted = history.evicted
    BY <2>1 DEF TypeOK, HistoryTypeOK
  <2>3. /\ Held(e)' = Held(e) /\ Wire(e)' = Wire(e) /\ UNCHANGED received /\ Ended(e)' = Ended(e)
    BY <2>1, <2>2 DEF clientVars, queueVars, handlerVars, Held, Claimants, Queue!Live, Wire,
       Client!OnTheWire, Ended
  <2>4. new.taken = old.taken /\ new.held = old.held /\ new.arrived = old.arrived
    BY <2>2, <2>3, LifeParts DEF Delivery!Life
  <2>5. ~new.guarded /\ new.wire = old.wire /\ new.ended = old.ended
    BY <2>2, <2>3, LifeParts
  <2> QED
    BY <1>1, <2>4, <2>5, LifeParts, ContractSteps
<1>4. ASSUME ~ExpireKey(e), \A h \in Handlers : ~Wins(h, e)
      PROVE  new = old \/ Delivery!Step(old, new)
  <2>1. Same
    <3>1. /\ history'.claimed[e] = history.claimed[e]
          /\ e \in history'.leaky <=> e \in history.leaky
      BY <1>4, HistoryMove, HistoryGrows
    <3> QED
      BY <3>1, LifeParts DEF Delivery!Life
  <2>2. ~old.held => Stays
    BY <1>4, HeldMove, LifeParts DEF Delivery!Life
  <2>3. ASSUME NEW c \in Callers, Send(c) \/ Record(c), call[c].event = e
        PROVE  Stays /\ (Send(c) => UNCHANGED received /\ old.held)
    <3>1. /\ UNCHANGED <<queueVars, handlerVars, history>>
          /\ call[c].step # "none"
          /\ Send(c) => UNCHANGED received
      BY <2>3 DEF Send, Client!Post, Record, Client!Record
    <3>2. Held(e) /\ Held(e)' = Held(e) /\ Ended(e)' = Ended(e)
      BY <2>3, <3>1, CallersHold DEF queueVars, handlerVars, Held, Claimants, Queue!Live, Ended
    <3> QED
      BY <3>1, <3>2, LifeParts DEF Delivery!Life
  <2>4. ASSUME RecordLate(e) PROVE Stays
    <3>1. UNCHANGED <<queueVars, handlerVars, history>>
      BY <2>4 DEF RecordLate
    <3>2. Held(e)' = Held(e) /\ Ended(e)' = Ended(e)
      BY <3>1 DEF queueVars, handlerVars, Held, Claimants, Queue!Live, Ended
    <3> QED
      BY <3>2, LifeParts DEF Delivery!Life
  <2>5. ASSUME received'[e] = received[e] PROVE new.arrived = old.arrived
    BY <2>5, LifeParts DEF Delivery!Life
  <2>6. CASE Wire(e)' = Wire(e) /\ received'[e] = received[e]
    <3>1. new.wire = old.wire /\ new.arrived = old.arrived
      BY <2>5, <2>6, LifeParts
    <3>2. CASE old.held
      BY <1>1, <2>1, <3>1, <3>2, LifeParts, ContractSteps
    <3>3. CASE ~old.held
      BY <2>1, <2>2, <3>1, <3>3, LifeParts DEF Delivery!Life
    <3> QED
      BY <3>2, <3>3
  <2>7. CASE \E c \in Callers : Send(c) /\ call[c].event = e
    <3>1. Stays /\ UNCHANGED received /\ old.held
      BY <2>3, <2>7
    <3>2. new.wire = old.wire + 1 /\ new.arrived = old.arrived
      BY <2>5, <2>7, <3>1, WireOfRequest, LifeParts
    <3> QED
      BY <1>1, <2>1, <3>1, <3>2, LifeParts, ContractSteps
  <2>8. CASE RecordLate(e) \/ \E c \in Callers : Record(c) /\ call[c].event = e
    <3>1. Stays
      BY <2>3, <2>4, <2>8
    <3>2. old.wire > 0 /\ new.wire = old.wire - 1
      BY <2>8, WireOfRequest, LifeParts
    <3>3. received'[e] > 0
      BY <2>8 DEF RecordLate, Client!RecordLate, Record, Client!Record, TypeOK, Client!ClientTypeOK
    <3>4. new.arrived
      BY <3>3, LifeParts
    <3> QED
      BY <1>1, <2>1, <3>1, <3>2, <3>4, LifeParts, ContractSteps
  <2>9. CASE /\ Wire(e) > 0 /\ Wire(e)' = Wire(e) - 1 /\ received'[e] = received[e]
             /\ \E c \in Callers : Ends(c) /\ call[c].step # "none" /\ call[c].event = e
    <3>1. old.wire > 0 /\ new.wire = old.wire - 1 /\ new.arrived = old.arrived
      BY <2>5, <2>9, LifeParts
    <3>2. Held(e)
      BY <2>9, CallersHold
    <3>3. old.held
      BY <3>2, LifeParts
    <3> QED
      BY <1>1, <2>1, <3>1, <3>3, LifeParts, ContractSteps
  <2> HIDE DEF old, new, FullInv, Inv
  <2> QED
    BY <2>6, <2>7, <2>8, <2>9, WireMove, ArrivedMove DEF FullInv, Inv
<1> QED
  BY <1>2, <1>3, <1>4

LEMMA DeliveryInit == Init => Delivery!Init
<1> SUFFICES ASSUME Init, NEW e \in Events PROVE LifeOf(e) = Delivery!Unknown
  BY DEF Delivery!Init
<1>1. (history.claimed[e] > 0) = FALSE /\ (received[e] > 0) = FALSE
  <2>1. history.claimed[e] = 0 /\ received[e] = 0
    BY DEF Init, HistoryInit, Client!ClientInit
  <2> QED
    BY <2>1
<1>2. Held(e) = FALSE
  <2>1. Claimants(e) = {}
    BY DEF Init, Claimants, Claiming, None
  <2>2. ~Queue!Live(e)
    BY DEF Init, Queue!QueueInit, Queue!NoJob, Queue!Live
  <2>3. \A w \in Slots : slot[w] # e
    BY EventAssumption DEF Init, Queue!QueueInit
  <2> QED
    BY <2>1, <2>2, <2>3 DEF Held
<1>3. (e \notin history.leaky) = TRUE /\ Ended(e) = {}
  BY DEF Init, HistoryInit, Ended
<1>4. Wire(e) = 0
  <2>1. late[e] = 0 /\ Client!OnTheWire(e) = {}
    BY DEF Init, Client!ClientInit, Client!OnTheWire, Client!NoCall
  <2> QED
    BY <2>1, FS_EmptySet DEF Wire
<1>5. LifeOf(e) = [taken |-> history.claimed[e] > 0, held |-> Held(e), guarded |-> e \notin history.leaky,
                   wire |-> Wire(e), arrived |-> received[e] > 0, ended |-> Ended(e)]
  BY DEF LifeOf, Wire
<1>6. /\ LifeOf(e).taken = (history.claimed[e] > 0)
      /\ LifeOf(e).held = Held(e)
      /\ LifeOf(e).guarded = (e \notin history.leaky)
      /\ LifeOf(e).wire = Wire(e)
      /\ LifeOf(e).arrived = (received[e] > 0)
      /\ LifeOf(e).ended = Ended(e)
  BY <1>5
<1>7. /\ LifeOf(e).taken = FALSE
      /\ LifeOf(e).held = FALSE
      /\ LifeOf(e).guarded = TRUE
      /\ LifeOf(e).wire = 0
      /\ LifeOf(e).arrived = FALSE
      /\ LifeOf(e).ended = {}
  BY <1>1, <1>2, <1>3, <1>4, <1>6
<1> DEFINE life == LifeOf(e)
<1>8. /\ DOMAIN life = {"taken", "held", "guarded", "wire", "arrived", "ended"}
      /\ life = [f \in {"taken", "held", "guarded", "wire", "arrived", "ended"} |-> life[f]]
  BY <1>5
<1> HIDE DEF life
<1> QED
  BY <1>7, <1>8 DEF Delivery!Unknown, life

LEMMA DeliveryStep == FullInv /\ [Next]_vars => [Delivery!Next]_([e \in Events |-> LifeOf(e)])
<1> SUFFICES ASSUME FullInv, [Next]_vars PROVE Delivery!Next
  OBVIOUS
<1>1. TypeOK
  BY DEF FullInv, Inv
<1>2. ASSUME NEW e \in Events
      PROVE  LifeOf(e)' \in Delivery!Life
             /\ (LifeOf(e)' = LifeOf(e) \/ Delivery!Step(LifeOf(e), LifeOf(e)'))
  BY <1>1, LifeStep, LifeParts
<1> QED
  BY <1>2 DEF Delivery!Next

\* Pipeline implements the contract: an event is taken once while its key guards it,
\* posted only by who answers for it, and let go only with TikTok or for a reason.
THEOREM ImplementsDeliveryCorrect == Spec => ImplementsDelivery
<1> QED
  BY DeliveryInit, DeliveryStep, FullInvCorrect, PTL DEF Spec, ImplementsDelivery, Delivery!Spec

=============================================================================
