--------------------------- MODULE ServerLifecycle ---------------------------
(***************************************************************************)
(* One life of the process: bootstrap() of server.ts, the handlers, worker *)
(* slots and HTTP requests it runs, and the shutdown that closes what they *)
(* work with.  The shutdown waits for the open HTTP requests, then starts  *)
(* all the closings in one go and waits for them, not for the handlers.  A *)
(* second signal begins them all again, and pg's Pools reject that at once.*)
(* Calls on an open connection are answered here: their failures, and what *)
(* becomes of the jobs and rows afterwards, are Pipeline's.  Whether a     *)
(* Pool (10 connections) has one left for a query is left open.            *)
(* The timer of 30 s is untimed: it may fire at any time after a signal.   *)
(***************************************************************************)
EXTENDS Naturals

CONSTANTS Handlers, Slots, Requests

VARIABLES phase,       \* how far bootstrap() and shutdown() have come
          ended,       \* how the process ended, or "running"
          armed,       \* is a timer of the shutdown running?
          again,       \* has there been a second signal?
          subscribed,  \* is the CDC subscription there?
          work,        \* the activation of handleRawMessage and process()
          slot, http,  \* is the slot executing a job, is the request open?
          link         \* the connections the work goes through

tasks == <<work, slot, http>>
process == <<phase, ended, armed, again, subscribed>>
vars == <<process, tasks, link>>

Phases == {"starting", "serving", "closing", "settling"}
Ends == {"clean", "forced", "crashed", "killed"}

\* worker, queue: drainQueue(); pool, redis: of EventLog and EventDeduplicator,
\* which every instance of them shares; pg, cache: Postgres and Redis of the event
\* set manager and the token store.
Pools == {"pool", "pg"}
Links == {"worker", "queue", "redis", "cache"} \cup Pools

\* The awaits of a handler, with what each goes through; the first three after fetch
\* are resolve()'s.
Through ==
  [fetch |-> "none", getCache |-> "cache", getRow |-> "pg", warmCache |-> "cache",
   dedup |-> "redis", logDuplicate |-> "pool", logPending |-> "pool", send |-> "none",
   markSent |-> "pool", markFailed |-> "pool", enqueue |-> "queue"]

Awaits == DOMAIN Through

\* What may follow each of them when it is answered; idle when process() returns.
After ==
  [fetch |-> {"getCache", "dedup", "idle"}, getCache |-> {"getRow", "dedup"},
   getRow |-> {"warmCache", "dedup"}, warmCache |-> {"dedup"},
   dedup |-> {"logDuplicate", "logPending"}, logDuplicate |-> {"idle"},
   logPending |-> {"send"}, send |-> {"markSent", "markFailed"}, markSent |-> {"idle"},
   markFailed |-> {"enqueue"}, enqueue |-> {"idle"}]

\* at: the await, or idle, or dropped by an exception; call: whether its call was made,
\* waits for a connection of the Pool, or finds the connection closed; tried:
\* sendEvents was called; row: what the log says of its event.
NoWork == [at |-> "idle", call |-> "none", tried |-> FALSE, row |-> "none"]

TypeOK ==
  /\ phase \in Phases
  /\ ended \in Ends \cup {"running"}
  /\ armed \in BOOLEAN
  /\ again \in BOOLEAN
  /\ subscribed \in BOOLEAN
  /\ work \in [Handlers -> [at : Awaits \cup {"idle", "dropped"},
                            call : {"none", "made", "queued", "refused"},
                            tried : BOOLEAN, row : {"none", "pending", "failed"}]]
  /\ slot \in [Slots -> BOOLEAN]
  /\ http \in [Requests -> BOOLEAN]
  /\ link \in [Links -> {"open", "closing", "closed"}]
  /\ link["queue"] # "open" => link["worker"] = "closed"

\* startWorker() runs before the listener connects.
Init ==
  /\ phase = "starting"
  /\ ended = "running"
  /\ armed = FALSE
  /\ again = FALSE
  /\ subscribed = FALSE
  /\ work = [h \in Handlers |-> NoWork]
  /\ slot = [w \in Slots |-> FALSE]
  /\ http = [r \in Requests |-> FALSE]
  /\ link = [l \in Links |-> "open"]

Running == ended = "running"

\* connect() returned: the server listens and the signals have their handlers.
Connected ==
  /\ Running
  /\ phase = "starting"
  /\ phase' = "serving"
  /\ subscribed' = TRUE
  /\ UNCHANGED <<ended, armed, again, tasks, link>>

-----------------------------------------------------------------------------
\* Handlers.

Message(h) ==
  /\ Running
  /\ subscribed
  /\ work[h].at = "idle"
  /\ work' = [work EXCEPT ![h] = [NoWork EXCEPT !.at = "fetch", !.call = "made"]]
  /\ UNCHANGED <<process, slot, http, link>>

\* What becomes of a call: a Pool may have no connection for it.
Calls(await) ==
  CASE Through[await] = "none" -> {"made"}
    [] Through[await] # "none" /\ link[Through[await]] # "open" -> {"refused"}
    [] OTHER -> {"made"} \cup (IF Through[await] \in Pools THEN {"queued"} ELSE {})

\* A handler goes on to its next call, returns, or ends by an exception.
GoOn(h, next, row) ==
  \/ /\ next \in Awaits
     /\ \E call \in Calls(next) :
          work' = [work EXCEPT ![h] = [at |-> next, call |-> call,
                                       tried |-> @.tried \/ next = "send", row |-> row]]
  \/ next = "idle" /\ work' = [work EXCEPT ![h] = NoWork]
  \/ next = "dropped" /\ work' = [work EXCEPT ![h] = [@ EXCEPT !.at = next, !.call = "none"]]

RowAfter(h) ==
  CASE work[h].at = "logPending" -> "pending"
    [] work[h].at = "markFailed" -> "failed"
    [] OTHER -> work[h].row

\* The call of a handler is answered.
Answer(h) ==
  /\ Running
  /\ work[h].at \in Awaits
  /\ work[h].call = "made"
  /\ \E next \in After[work[h].at] : GoOn(h, next, RowAfter(h))
  /\ UNCHANGED <<process, slot, http, link>>

\* Mutant of Rejected: the insert is inside the try, whose catch goes on.
RejectedInTry(await) ==
  CASE await = "getCache" -> "getRow"
    [] await \in {"getRow", "warmCache"} -> "dedup"
    [] await = "dedup" -> "logPending"
    [] await \in {"logPending", "markSent"} -> "markFailed"
    [] OTHER -> "dropped"

\* What a handler does when a call rejects: resolve() goes on without the cache, and
\* process() without resolve(); dedup fails open; the catch marks the row; any other
\* rejection ends the handler.
Rejected(await) ==
  CASE await = "getCache" -> "getRow"
    [] await \in {"getRow", "warmCache"} -> "dedup"
    [] await = "dedup" -> "logPending"
    [] await = "markSent" -> "markFailed"
    [] OTHER -> "dropped"

\* A call on a closed connection rejects, and after 5 s one that waits for a connection
\* of EventLog's pool.
Reject(h) ==
  /\ Running
  /\ work[h].at \in Awaits
  /\ \/ work[h].call = "refused"
     \/ work[h].call = "queued" /\ Through[work[h].at] = "pool"
  /\ GoOn(h, Rejected(work[h].at), work[h].row)
  /\ UNCHANGED <<process, slot, http, link>>

\* A Pool that is not ending gives a waiting call the next connection.
Serve(h) ==
  /\ Running
  /\ work[h].at \in Awaits
  /\ work[h].call = "queued"
  /\ link[Through[work[h].at]] = "open"
  /\ work' = [work EXCEPT ![h] = [@ EXCEPT !.call = "made"]]
  /\ UNCHANGED <<process, slot, http, link>>

-----------------------------------------------------------------------------
\* The worker, and HTTP.

TakeJob(w) ==
  /\ Running
  /\ link["worker"] = "open"
  /\ ~slot[w]
  /\ slot' = [slot EXCEPT ![w] = TRUE]
  /\ UNCHANGED <<process, work, http, link>>

FinishJob(w) ==
  /\ Running
  /\ slot[w]
  /\ slot' = [slot EXCEPT ![w] = FALSE]
  /\ UNCHANGED <<process, work, http, link>>

OpenRequest(r) ==
  /\ Running
  /\ phase = "serving"
  /\ ~http[r]
  /\ http' = [http EXCEPT ![r] = TRUE]
  /\ UNCHANGED <<process, work, slot, link>>

CloseRequest(r) ==
  /\ Running
  /\ http[r]
  /\ http' = [http EXCEPT ![r] = FALSE]
  /\ UNCHANGED <<process, work, slot, link>>

-----------------------------------------------------------------------------
\* shutdown().

\* Mutant of Signal: the timer is started when the server has closed.
SignalUnarmed ==
  /\ Running
  /\ phase # "starting"
  /\ phase' = IF phase = "serving" THEN "closing" ELSE phase
  /\ again' = (phase # "serving")
  /\ armed' = (phase = "settling")
  /\ UNCHANGED <<ended, subscribed, tasks, link>>

\* server.close(), which stops listening, and the timer.  A second signal has its own
\* timer and its own callback, which runs with the first one's or at once if that ran.
Signal ==
  /\ Running
  /\ phase # "starting"
  /\ phase' = IF phase = "serving" THEN "closing" ELSE phase
  /\ again' = (phase # "serving")
  /\ armed' = TRUE
  /\ UNCHANGED <<ended, subscribed, tasks, link>>

\* The callback of server.close(): the subscription is cancelled at once, and
\* every other closing begins, but for the queue, which follows the worker.
HttpClosed ==
  /\ Running
  /\ phase = "closing"
  /\ \A r \in Requests : ~http[r]
  /\ phase' = "settling"
  /\ subscribed' = FALSE
  /\ link' = [l \in Links |-> IF l = "queue" THEN link[l] ELSE "closing"]
  /\ UNCHANGED <<ended, armed, again, tasks>>

CallThrough(h, l) == work[h].at \in Awaits /\ work[h].call = "made" /\ Through[work[h].at] = l

\* Mutant of InUse: worker.close(true), which does not wait for its jobs.
InUseByHandlers(l) == \E h \in Handlers : CallThrough(h, l)

\* What the closing of a connection waits for: worker.close() for the jobs that run,
\* quit() for the calls that were made before it, and end() for the connections in
\* use, but not for the calls that wait for one.
InUse(l) ==
  \/ l = "worker" /\ \E w \in Slots : slot[w]
  \/ \E h \in Handlers : CallThrough(h, l)

Close(l) ==
  /\ Running
  /\ link[l] = "closing"
  /\ ~InUse(l)
  /\ link' = [i \in Links |-> IF i = l THEN "closed"
                              ELSE IF l = "worker" /\ i = "queue" THEN "closing"
                              ELSE link[i]]
  /\ UNCHANGED <<process, tasks>>

End(how) ==
  /\ Running
  /\ ended' = how
  /\ UNCHANGED <<phase, armed, again, subscribed, tasks, link>>

\* allSettled: exit(0).  The second end() of a Pool rejects at once, and the second
\* allSettled takes that for settled; every other second closing waits for the first.
Settled ==
  /\ phase = "settling"
  /\ \A l \in Links : link[l] = "closed" \/ (again /\ l \in Pools)
  /\ End("clean")

Timeout == armed /\ End("forced")

\* exit(1): a bootstrap that failed, an unhandled rejection, an exception; the
\* pool of server.ts has no listener for the errors of its idle clients.
Crash == End("crashed")

\* SIGKILL by docker, or a signal before there is a handler for it.
Kill == (armed \/ phase = "starting") /\ End("killed")

Next ==
  \/ Connected \/ Signal \/ HttpClosed \/ Settled \/ Timeout \/ Crash \/ Kill
  \/ \E h \in Handlers : Message(h) \/ Answer(h) \/ Reject(h) \/ Serve(h)
  \/ \E w \in Slots : TakeJob(w) \/ FinishJob(w)
  \/ \E r \in Requests : OpenRequest(r) \/ CloseRequest(r)
  \/ \E l \in Links : Close(l)

Spec == Init /\ [][Next]_vars

\* The timer of the shutdown fires; nothing else is owed to anyone.
FairSpec == Spec /\ WF_vars(Timeout)

-----------------------------------------------------------------------------
\* Safety.

\* exit(0) interrupts no job, no open HTTP request and no call that a connection took:
\* it cuts off handlers that wait for Salesforce, for TikTok or for a connection of a
\* Pool.  Only after a second signal does it interrupt a query.
CleanExitInterruptsNoCall ==
  ended = "clean" =>
    /\ \A w \in Slots : ~slot[w]
    /\ \A r \in Requests : ~http[r]
    /\ \A h \in Handlers, l \in Links : CallThrough(h, l) => again /\ l \in Pools

\* However the connections go away under a handler, in whatever order, it never
\* sends an event that has no row, nor calls one 'failed' that was not tried.
RowsHoldInShutdown ==
  \A h \in Handlers :
    /\ work[h].tried => work[h].row # "none"
    /\ work[h].row = "failed" => work[h].tried

-----------------------------------------------------------------------------
\* Liveness.

\* A process that was told to stop stops, whatever hangs.
Stops == phase \in {"closing", "settling"} ~> ~Running

=============================================================================
