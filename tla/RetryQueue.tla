----------------------------- MODULE RetryQueue -----------------------------
(***************************************************************************)
(* The BullMQ queue tiktok-events and its worker as retry-queue.ts sets    *)
(* them up: the job id is the event id, a job is tried Attempts times with *)
(* a back-off delay between tries, and finished jobs are kept for a while. *)
(*                                                                         *)
(* A slot is one of the worker's concurrent executions of the processor.   *)
(* A slot works on a job it holds the lock of; the lock can be lost while  *)
(* the slot goes on, and the job is then stalled and is run again.         *)
(* The keys of the queue are in a Redis that evicts any key when its       *)
(* memory is full, so a job may be lost in any state.                      *)
(* Operations only: Pipeline composes them.                                *)
(***************************************************************************)
EXTENDS Naturals

CONSTANTS Events,        \* event ids, which are the job ids
          Slots,         \* concurrent executions of the worker
          Attempts,      \* defaultJobOptions.attempts = env.TIKTOK_MAX_RETRIES
          MaxStalled     \* BullMQ's maxStalledCount

VARIABLES job,           \* state of the job with this id
          slot           \* the job a slot is executing

queueVars == <<job, slot>>

Idle == "idle"
Nobody == "nobody"

JobStates == {"none", "waiting", "delayed", "active", "completed", "failed", "stray"}

\* made: attemptsMade, the tries that ended; stalled: how often it stalled;
\* lock: the slot whose lock token the job carries.
NoJob == [state |-> "none", made |-> 0, stalled |-> 0, lock |-> Nobody]

\* What is left of a job when the list it was in is gone: its hash, so an id that is
\* taken, and nothing that leads a worker to it.
Stray == [NoJob EXCEPT !.state = "stray"]

NewJob == [state |-> "waiting", made |-> 0, stalled |-> 0, lock |-> Nobody]

Job == [state : JobStates, made : 0 .. Attempts, stalled : 0 .. MaxStalled + 1,
        lock : Slots \cup {Nobody}]

Live(e) == job[e].state \in {"waiting", "delayed", "active"}

QueueTypeOK ==
  /\ job \in [Events -> Job]
  /\ \A e \in Events : Live(e) => job[e].made < Attempts /\ job[e].stalled <= MaxStalled
  /\ slot \in [Slots -> Events \cup {Idle}]

QueueInit ==
  /\ job = [e \in Events |-> NoJob]
  /\ slot = [w \in Slots |-> Idle]

\* q.add with a jobId: nothing happens if a job with this id is still kept,
\* finished or not, or if its hash is all that is left of it.
Add(e) ==
  /\ job' = IF job[e].state = "none" THEN [job EXCEPT ![e] = NewJob] ELSE job
  /\ UNCHANGED slot

\* The worker takes a waiting job into a free slot.
Take(w, e) ==
  /\ slot[w] = Idle
  /\ job[e].state = "waiting"
  /\ job' = [job EXCEPT ![e].state = "active", ![e].lock = w]
  /\ slot' = [slot EXCEPT ![w] = e]

Holds(w) == job[slot[w]].state = "active" /\ job[slot[w]].lock = w

\* A slot is done with its job.  Without the lock BullMQ ignores the outcome.
Finish(w, outcome) ==
  /\ slot' = [slot EXCEPT ![w] = Idle]
  /\ job' = IF Holds(w) THEN [job EXCEPT ![slot[w]] = outcome] ELSE job

\* The processor returned.
Complete(w) ==
  Finish(w, [job[slot[w]] EXCEPT !.state = "completed", !.made = @ + 1, !.lock = Nobody])

\* Mutant of FailAttempt: a job that failed for good is removed at once.
FailAttemptForgets(w) ==
  Finish(w, IF job[slot[w]].made + 1 < Attempts
            THEN [job[slot[w]] EXCEPT !.state = "delayed", !.made = @ + 1, !.lock = Nobody]
            ELSE NoJob)

\* The processor threw, whatever the error: another try after the back-off, or
\* the end.
FailAttempt(w) ==
  Finish(w, [job[slot[w]] EXCEPT !.state = IF job[slot[w]].made + 1 < Attempts
                                           THEN "delayed" ELSE "failed",
                                 !.made = @ + 1, !.lock = Nobody])

\* The back-off delay is over.
Promote(e) ==
  /\ job[e].state = "delayed"
  /\ job' = [job EXCEPT ![e].state = "waiting"]
  /\ UNCHANGED slot

\* The lock was not renewed within lockDuration.
LoseLock(e) ==
  /\ job[e].state = "active"
  /\ job[e].lock # Nobody
  /\ job' = [job EXCEPT ![e].lock = Nobody]
  /\ UNCHANGED slot

\* The stalled check finds an active job without a lock.
RecoverStalled(e) ==
  /\ job[e].state = "active"
  /\ job[e].lock = Nobody
  /\ job' = [job EXCEPT ![e].state = IF job[e].stalled < MaxStalled THEN "waiting" ELSE "failed",
                        ![e].stalled = @ + 1]
  /\ UNCHANGED slot

\* removeOnComplete and removeOnFail keep only the last finished jobs.
Trim(e) ==
  /\ job[e].state \in {"completed", "failed"}
  /\ job' = [job EXCEPT ![e] = NoJob]
  /\ UNCHANGED slot

\* Redis evicts the job's hash, which is the job, or the list it was in, which leaves
\* the hash behind.  A slot that runs it goes on.
Evict(e) ==
  /\ job[e].state # "none"
  /\ \E left \in {NoJob, Stray} : job' = [job EXCEPT ![e] = left]
  /\ UNCHANGED slot

\* Mutant of DropSlots: locks that never expire.
DropSlotsKeepLocks ==
  /\ slot' = [w \in Slots |-> Idle]
  /\ UNCHANGED job

\* The process exits: every slot is gone and no lock is renewed any more.
DropSlots ==
  /\ slot' = [w \in Slots |-> Idle]
  /\ job' = [e \in Events |-> [job[e] EXCEPT !.lock = Nobody]]

=============================================================================
