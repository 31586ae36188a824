------------------------ MODULE ServerLifecycleProofs ------------------------
(***************************************************************************)
(* Proofs about ServerLifecycle, for any handlers, worker slots and HTTP   *)
(* requests: the types, what a clean exit cuts off, and what the log says  *)
(* of events whose handlers lose their connections.                        *)
(***************************************************************************)
EXTENDS ServerLifecycle, TLAPS

\* The awaits before the send and from it on.
Before == {"fetch", "getCache", "getRow", "warmCache", "dedup", "logDuplicate", "logPending"}
FromSend == {"send", "markSent", "markFailed", "enqueue"}

\* A handler is in front of its row and its send, or past both.
RowFirst ==
  \A h \in Handlers :
    /\ work[h].at \in Before => ~work[h].tried /\ work[h].row = "none"
    /\ work[h].at \in FromSend => work[h].tried /\ work[h].row # "none"

\* The connections are left alone until the requests are gone, nobody uses one that is
\* closed, and exit(0) comes after all of them that a second signal leaves to wait for.
Drained ==
  /\ phase # "settling" => \A l \in Links : link[l] = "open"
  /\ phase = "settling" => \A r \in Requests : ~http[r]
  /\ \A l \in Links : link[l] = "closed" => ~InUse(l)
  /\ ended = "clean" =>
       /\ phase = "settling"
       /\ \A l \in Links : link[l] = "closed" \/ (again /\ l \in Pools)

\* The inductive invariant.
Inv == TypeOK /\ RowFirst /\ RowsHoldInShutdown /\ Drained

-----------------------------------------------------------------------------
\* The awaits.

LEMMA AwaitNames ==
  /\ Awaits = Before \cup FromSend
  /\ \A a \in Awaits : Through[a] \in Links \cup {"none"}
  /\ \A a \in Awaits : Through[a] = "none" <=> a \in {"fetch", "send"}
  /\ "none" \notin Links
BY DEF Awaits, Before, FromSend, Through, Links, Pools

\* What follows an await before the send is before it too, or is the send, and
\* the send has the insert of the row in front of it.
LEMMA NextAwait ==
  ASSUME NEW a \in Awaits, NEW next \in After[a]
  PROVE  /\ next \in Awaits \cup {"idle"}
         /\ next \in Before => a \in Before \ {"logPending"}
         /\ next \in FromSend => a \in FromSend \/ (a = "logPending" /\ next = "send")
<1>1. CASE a \in Before
  BY <1>1, AwaitNames DEF After, Before, FromSend
<1>2. CASE a \in FromSend
  BY <1>2, AwaitNames DEF After, Before, FromSend
<1>. QED BY <1>1, <1>2, AwaitNames

\* After a rejection a handler goes on to another await in front of the send, or marks the
\* row of an event it has sent, or is dropped.
LEMMA NextOfRejected ==
  ASSUME NEW a \in Awaits
  PROVE  /\ Rejected(a) \in Awaits \cup {"dropped"}
         /\ Rejected(a) \in Before => a \in Before \ {"logPending"}
         /\ Rejected(a) \in FromSend => a = "markSent" /\ Rejected(a) = "markFailed"
BY AwaitNames DEF Rejected, Before, FromSend

\* A call is made on an open connection only.
LEMMA MadeOnOpen ==
  ASSUME NEW a \in Awaits
  PROVE  /\ Calls(a) \subseteq {"made", "queued", "refused"}
         /\ "made" \in Calls(a) => Through[a] = "none" \/ link[Through[a]] = "open"
<1>1. CASE Through[a] = "none"
  BY <1>1 DEF Calls
<1>2. CASE Through[a] # "none" /\ link[Through[a]] # "open"
  BY <1>2 DEF Calls
<1>3. CASE Through[a] # "none" /\ link[Through[a]] = "open"
  BY <1>3 DEF Calls
<1>. QED BY <1>1, <1>2, <1>3

-----------------------------------------------------------------------------
LEMMA InitInv == Init => Inv
<1>. SUFFICES ASSUME Init
              PROVE  Inv
  OBVIOUS
<1>1. TypeOK
  BY DEF Init, TypeOK, Phases, Ends, Links, Pools, NoWork
<1>2. RowFirst /\ RowsHoldInShutdown
  BY DEF Init, RowFirst, RowsHoldInShutdown, NoWork, Before, FromSend
<1>3. Drained
  BY DEF Init, Drained
<1>. QED BY <1>1, <1>2, <1>3 DEF Inv

\* The steps that leave the handlers, the slots and the connections alone.
LEMMA MainStep ==
  ASSUME Inv, Connected \/ Signal \/ Settled \/ Timeout \/ Crash \/ Kill
  PROVE  Inv'
<1>. USE DEF Inv
<1>1. UNCHANGED <<tasks, link>>
  BY DEF Connected, Signal, Settled, Timeout, Crash, Kill, End
<1>2. TypeOK'
  BY <1>1 DEF Connected, Signal, Settled, Timeout, Crash, Kill, End, TypeOK, Phases, Ends, tasks
<1>3. RowFirst' /\ RowsHoldInShutdown'
  BY <1>1 DEF RowFirst, RowsHoldInShutdown, tasks
<1>4. Drained'
  <2>1. (phase' = "settling") = (phase = "settling")
    BY DEF Connected, Signal, Settled, Timeout, Crash, Kill, End, process
  <2>2. ended' = "clean" =>
          /\ phase' = "settling"
          /\ \A l \in Links : link[l] = "closed" \/ (again' /\ l \in Pools)
    BY DEF Connected, Signal, Settled, Timeout, Crash, Kill, End, Running, Drained
  <2>3. \A l \in Links : InUse(l)' = InUse(l)
    BY <1>1 DEF InUse, CallThrough, tasks
  <2>. QED BY <1>1, <2>1, <2>2, <2>3 DEF Drained, tasks
<1>. QED BY <1>2, <1>3, <1>4

\* A step of one handler that enters no connection but an open one, and stands right with
\* its row and its send.
LEMMA WorkKeepsInv ==
  ASSUME Inv, NEW h \in Handlers, Running, UNCHANGED <<process, slot, http, link>>,
         NEW w \in [at : Awaits \cup {"idle", "dropped"},
                    call : {"none", "made", "queued", "refused"},
                    tried : BOOLEAN, row : {"none", "pending", "failed"}],
         work' = [work EXCEPT ![h] = w],
         w.at \in Before => ~w.tried /\ w.row = "none",
         w.at \in FromSend => w.tried /\ w.row # "none",
         w.tried => w.row # "none",
         w.row = "failed" => w.tried,
         w.at \in Awaits /\ w.call = "made" =>
           Through[w.at] = "none" \/ link[Through[w.at]] = "open"
  PROVE  Inv'
<1>. USE DEF Inv
<1>1. work'[h] = w /\ \A g \in Handlers \ {h} : work'[g] = work[g]
  BY DEF TypeOK
<1>2. TypeOK'
  BY DEF TypeOK, process
<1>3. RowFirst' /\ RowsHoldInShutdown'
  BY <1>1 DEF RowFirst, RowsHoldInShutdown
<1>4. \A l \in Links : link[l] = "closed" /\ InUse(l)' => InUse(l)
  <2>. SUFFICES ASSUME NEW l \in Links, link[l] = "closed", NEW g \in Handlers,
                       CallThrough(g, l)'
                PROVE  CallThrough(g, l)
    BY DEF InUse
  <2>1. g # h
    BY <1>1, AwaitNames DEF CallThrough
  <2>. QED BY <1>1, <2>1 DEF CallThrough
<1>5. Drained'
  BY <1>4 DEF Drained, process
<1>. QED BY <1>2, <1>3, <1>5

\* So does going on to a call that may follow.
LEMMA GoOnKeepsInv ==
  ASSUME Inv, NEW h \in Handlers, Running, UNCHANGED <<process, slot, http, link>>,
         work[h].at \in Awaits,
         NEW next \in Awaits \cup {"idle", "dropped"},
         NEW row \in {"none", "pending", "failed"},
         GoOn(h, next, row),
         next \in Before => ~work[h].tried /\ row = "none",
         next \in FromSend => (work[h].tried \/ next = "send") /\ row # "none",
         row = "failed" => work[h].tried
  PROVE  Inv'
<1>. USE DEF Inv
<1>1. /\ "idle" \notin Awaits /\ "dropped" \notin Awaits
      /\ "idle" \notin Before \cup FromSend /\ "dropped" \notin Before \cup FromSend
      /\ "send" \notin Before
  BY AwaitNames DEF Before, FromSend
<1>2. CASE next = "idle"
  <2>1. work' = [work EXCEPT ![h] = NoWork]
    BY <1>1, <1>2 DEF GoOn
  <2>2. /\ NoWork.at = "idle" /\ ~NoWork.tried /\ NoWork.row = "none"
        /\ NoWork \in [at : Awaits \cup {"idle", "dropped"},
                       call : {"none", "made", "queued", "refused"},
                       tried : BOOLEAN, row : {"none", "pending", "failed"}]
    BY DEF NoWork
  <2>. HIDE DEF Inv
  <2>. QED BY <1>1, <2>1, <2>2, WorkKeepsInv
<1>3. CASE next = "dropped"
  <2>. DEFINE w == [work[h] EXCEPT !.at = "dropped", !.call = "none"]
  <2>1. work' = [work EXCEPT ![h] = w]
    BY <1>1, <1>3 DEF GoOn
  <2>2. /\ w.at = "dropped" /\ w.tried = work[h].tried /\ w.row = work[h].row
        /\ w \in [at : Awaits \cup {"idle", "dropped"},
                  call : {"none", "made", "queued", "refused"},
                  tried : BOOLEAN, row : {"none", "pending", "failed"}]
    BY DEF TypeOK
  <2>3. /\ work[h].tried => work[h].row # "none"
        /\ work[h].row = "failed" => work[h].tried
    BY DEF RowsHoldInShutdown
  <2>. HIDE DEF w, Inv
  <2>. QED BY <1>1, <2>1, <2>2, <2>3, WorkKeepsInv
<1>4. CASE next \in Awaits
  <2>1. PICK call \in Calls(next) :
          work' = [work EXCEPT ![h] = [at |-> next, call |-> call,
                                       tried |-> work[h].tried \/ next = "send", row |-> row]]
    BY <1>1, <1>4 DEF GoOn, TypeOK
  <2>. DEFINE sent == work[h].tried \/ next = "send"
              w == [at |-> next, call |-> call, tried |-> sent, row |-> row]
  <2>2. /\ call \in {"made", "queued", "refused"}
        /\ call = "made" => Through[next] = "none" \/ link[Through[next]] = "open"
    BY <1>4, MadeOnOpen
  <2>3. sent \in BOOLEAN
    OBVIOUS
  <2>4. /\ next \in Before => ~sent /\ row = "none"
        /\ next \in FromSend => sent /\ row # "none"
        /\ sent => row # "none"
        /\ row = "failed" => sent
    BY <1>1, <1>4, AwaitNames
  <2>5. work' = [work EXCEPT ![h] = w]
    BY <2>1
  <2>. HIDE DEF sent
  <2>6. /\ w.at = next /\ w.call = call /\ w.tried = sent /\ w.row = row
        /\ w \in [at : Awaits \cup {"idle", "dropped"},
                  call : {"none", "made", "queued", "refused"},
                  tried : BOOLEAN, row : {"none", "pending", "failed"}]
    BY <1>4, <2>2, <2>3
  <2>. HIDE DEF w, Inv
  <2>. QED BY <1>1, <2>2, <2>4, <2>5, <2>6, WorkKeepsInv
<1>. QED BY <1>2, <1>3, <1>4

LEMMA HandlerStep ==
  ASSUME Inv, NEW h \in Handlers, Message(h) \/ Answer(h) \/ Reject(h) \/ Serve(h)
  PROVE  Inv'
<1>0. UNCHANGED <<process, slot, http, link>> /\ Running
  BY DEF Message, Answer, Reject, Serve
<1>1. CASE Message(h)
  <2>. DEFINE w == [NoWork EXCEPT !.at = "fetch", !.call = "made"]
  <2>1. work' = [work EXCEPT ![h] = w]
    BY <1>1 DEF Message
  <2>2. "fetch" \in Awaits /\ "fetch" \notin FromSend /\ Through["fetch"] = "none"
    BY AwaitNames DEF Before, FromSend
  <2>3. /\ w.at = "fetch" /\ ~w.tried /\ w.row = "none"
        /\ w \in [at : Awaits \cup {"idle", "dropped"},
                  call : {"none", "made", "queued", "refused"},
                  tried : BOOLEAN, row : {"none", "pending", "failed"}]
    BY <2>2 DEF NoWork
  <2>. HIDE DEF w
  <2>. QED BY <1>0, <2>1, <2>2, <2>3, WorkKeepsInv
<1>2. CASE Answer(h)
  <2>1. PICK next \in After[work[h].at] : GoOn(h, next, RowAfter(h))
    BY <1>2 DEF Answer
  <2>2. work[h].at \in Awaits
    BY <1>2 DEF Answer
  <2>3. /\ next \in Awaits \cup {"idle"}
        /\ next \in Before => work[h].at \in Before \ {"logPending"}
        /\ next \in FromSend =>
             work[h].at \in FromSend \/ (work[h].at = "logPending" /\ next = "send")
    BY <2>1, <2>2, NextAwait
  <2>4. /\ work[h].at \in Before => ~work[h].tried /\ work[h].row = "none"
        /\ work[h].at \in FromSend => work[h].tried /\ work[h].row # "none"
        /\ work[h].row = "failed" => work[h].tried
    BY DEF Inv, RowFirst, RowsHoldInShutdown
  <2>5. /\ RowAfter(h) \in {"none", "pending", "failed"}
        /\ work[h].at \in Before \ {"logPending"} => RowAfter(h) = "none"
        /\ work[h].at \in FromSend \cup {"logPending"} => RowAfter(h) # "none"
        /\ RowAfter(h) = "failed" => work[h].tried
    <3>1. work[h].row \in {"none", "pending", "failed"}
      BY DEF Inv, TypeOK
    <3>. QED BY <2>4, <3>1 DEF RowAfter, Before, FromSend
  <2>. QED BY <1>0, <2>1, <2>2, <2>3, <2>4, <2>5, GoOnKeepsInv
<1>3. CASE Reject(h)
  <2>. DEFINE next == Rejected(work[h].at)
  <2>1. work[h].at \in Awaits /\ GoOn(h, next, work[h].row)
    BY <1>3 DEF Reject
  <2>2. /\ next \in Awaits \cup {"dropped"}
        /\ next \in Before => work[h].at \in Before
        /\ next \in FromSend => work[h].at \in FromSend
    BY <2>1, NextOfRejected DEF FromSend
  <2>3. /\ work[h].row \in {"none", "pending", "failed"}
        /\ work[h].at \in Before => ~work[h].tried /\ work[h].row = "none"
        /\ work[h].at \in FromSend => work[h].tried /\ work[h].row # "none"
        /\ work[h].row = "failed" => work[h].tried
    BY DEF Inv, TypeOK, RowFirst, RowsHoldInShutdown
  <2>. HIDE DEF next
  <2>. QED BY <1>0, <2>1, <2>2, <2>3, GoOnKeepsInv
<1>4. CASE Serve(h)
  <2>. DEFINE w == [work[h] EXCEPT !.call = "made"]
  <2>1. /\ work[h].at \in Awaits
        /\ link[Through[work[h].at]] = "open"
        /\ work' = [work EXCEPT ![h] = w]
    BY <1>4 DEF Serve
  <2>2. /\ w.at = work[h].at /\ w.tried = work[h].tried /\ w.row = work[h].row
        /\ w \in [at : Awaits \cup {"idle", "dropped"},
                  call : {"none", "made", "queued", "refused"},
                  tried : BOOLEAN, row : {"none", "pending", "failed"}]
    BY DEF Inv, TypeOK
  <2>3. /\ work[h].at \in Before => ~work[h].tried /\ work[h].row = "none"
        /\ work[h].at \in FromSend => work[h].tried /\ work[h].row # "none"
        /\ work[h].tried => work[h].row # "none"
        /\ work[h].row = "failed" => work[h].tried
    BY DEF Inv, RowFirst, RowsHoldInShutdown
  <2>. HIDE DEF w
  <2>. QED BY <1>0, <2>1, <2>2, <2>3, WorkKeepsInv
<1>. QED BY <1>1, <1>2, <1>3, <1>4

LEMMA WorkerStep ==
  ASSUME Inv, NEW w \in Slots, TakeJob(w) \/ FinishJob(w)
  PROVE  Inv'
<1>. USE DEF Inv
<1>1. UNCHANGED <<process, work, http, link>>
  BY DEF TakeJob, FinishJob
<1>2. TypeOK'
  BY <1>1 DEF TakeJob, FinishJob, TypeOK, process
<1>3. RowFirst' /\ RowsHoldInShutdown'
  BY <1>1 DEF RowFirst, RowsHoldInShutdown
<1>4. \A l \in Links : link[l] = "closed" /\ InUse(l)' => InUse(l)
  BY <1>1 DEF TakeJob, FinishJob, InUse, CallThrough, TypeOK
<1>5. Drained'
  BY <1>1, <1>4 DEF Drained, process
<1>. QED BY <1>2, <1>3, <1>5

LEMMA RequestStep ==
  ASSUME Inv, NEW r \in Requests, OpenRequest(r) \/ CloseRequest(r)
  PROVE  Inv'
<1>. USE DEF Inv
<1>1. UNCHANGED <<process, work, slot, link>>
  BY DEF OpenRequest, CloseRequest
<1>2. TypeOK'
  BY <1>1 DEF OpenRequest, CloseRequest, TypeOK, process
<1>3. RowFirst' /\ RowsHoldInShutdown'
  BY <1>1 DEF RowFirst, RowsHoldInShutdown
<1>4. \A l \in Links : InUse(l)' = InUse(l)
  BY <1>1 DEF InUse, CallThrough
<1>5. phase = "settling" => \A i \in Requests : ~http'[i]
  BY DEF OpenRequest, CloseRequest, Drained, TypeOK
<1>6. Drained'
  BY <1>1, <1>4, <1>5 DEF Drained, process
<1>. QED BY <1>2, <1>3, <1>6

LEMMA ClosingStep ==
  ASSUME Inv, HttpClosed \/ \E l \in Links : Close(l)
  PROVE  Inv'
<1>. USE DEF Inv
<1>1. UNCHANGED <<ended, armed, again, tasks>> /\ Running
  BY DEF HttpClosed, Close, process
<1>2. RowFirst' /\ RowsHoldInShutdown'
  BY <1>1 DEF RowFirst, RowsHoldInShutdown, tasks
<1>3. \A l \in Links : InUse(l)' = InUse(l)
  BY <1>1 DEF InUse, CallThrough, tasks
<1>4. ended' # "clean"
  BY <1>1 DEF Running
<1>5. CASE HttpClosed
  <2>1. \A l \in Links : link[l] = "open"
    BY <1>5 DEF HttpClosed, Drained
  <2>2. link' = [l \in Links |-> IF l = "queue" THEN "open" ELSE "closing"]
    BY <1>5, <2>1 DEF HttpClosed
  <2>3. TypeOK'
    <3>1. link'["queue"] = "open" /\ link' \in [Links -> {"open", "closing", "closed"}]
      BY <2>2 DEF Links
    <3>2. phase' \in Phases /\ subscribed' \in BOOLEAN
      BY <1>5 DEF HttpClosed, Phases
    <3>. QED BY <1>1, <3>1, <3>2 DEF TypeOK, tasks
  <2>4. Drained'
    BY <1>1, <1>4, <1>5, <2>2 DEF HttpClosed, Drained, tasks
  <2>. QED BY <1>2, <2>3, <2>4
<1>6. ASSUME NEW l \in Links, Close(l)
      PROVE  Inv'
  <2>1. /\ UNCHANGED process
        /\ link[l] = "closing"
        /\ ~InUse(l)
        /\ link' = [i \in Links |-> IF i = l THEN "closed"
                                    ELSE IF l = "worker" /\ i = "queue" THEN "closing"
                                    ELSE link[i]]
    BY <1>6 DEF Close
  <2>2. "worker" \in Links /\ "queue" \in Links
    BY DEF Links, Pools
  <2>3. link'["queue"] # "open" => link'["worker"] = "closed"
    BY <2>1, <2>2 DEF TypeOK
  <2>4. TypeOK'
    BY <1>1, <2>1, <2>3 DEF TypeOK, tasks, process
  <2>5. phase = "settling"
    BY <2>1 DEF Drained
  <2>6. \A i \in Links : link'[i] = "closed" => ~InUse(i)
    BY <2>1 DEF Drained
  <2>7. Drained'
    BY <1>1, <1>3, <1>4, <2>1, <2>5, <2>6 DEF Drained, tasks, process
  <2>. QED BY <1>2, <2>4, <2>7
<1>. QED BY <1>5, <1>6

-----------------------------------------------------------------------------
LEMMA InvInductive == Inv /\ [Next]_vars => Inv'
<1>. SUFFICES ASSUME Inv, [Next]_vars
              PROVE  Inv'
  OBVIOUS
<1>1. CASE UNCHANGED vars
  <2>1. UNCHANGED <<phase, ended, armed, again, subscribed, work, slot, http, link>>
    BY <1>1 DEF vars, process, tasks
  <2>2. \A l \in Links : InUse(l)' = InUse(l)
    BY <2>1 DEF InUse, CallThrough
  <2>. QED BY <2>1, <2>2 DEF Inv, TypeOK, RowFirst, RowsHoldInShutdown, Drained
<1>2. CASE Next
  BY <1>2, MainStep, HandlerStep, WorkerStep, RequestStep, ClosingStep DEF Next
<1>. QED BY <1>1, <1>2

LEMMA CleanExit == Inv => CleanExitInterruptsNoCall
<1>. SUFFICES ASSUME Inv, ended = "clean"
              PROVE  /\ \A w \in Slots : ~slot[w]
                     /\ \A r \in Requests : ~http[r]
                     /\ \A h \in Handlers, l \in Links :
                          CallThrough(h, l) => again /\ l \in Pools
  BY DEF CleanExitInterruptsNoCall
<1>1. /\ phase = "settling"
      /\ \A l \in Links : ~InUse(l) \/ (again /\ l \in Pools)
  BY DEF Inv, Drained
<1>2. "worker" \in Links /\ "worker" \notin Pools
  BY DEF Links, Pools
<1>3. \A w \in Slots : ~slot[w]
  BY <1>1, <1>2 DEF InUse
<1>4. \A h \in Handlers, l \in Links : CallThrough(h, l) => again /\ l \in Pools
  BY <1>1 DEF InUse
<1>. QED BY <1>1, <1>3, <1>4 DEF Inv, Drained

\* Whatever the order of signals, answers and closings, the process is in one of
\* the states of server.ts, and the queue is closed after the worker only.
THEOREM TypeCorrect == Spec => []TypeOK
<1>1. Inv => TypeOK
  BY DEF Inv
<1>. QED BY <1>1, InitInv, InvInductive, PTL DEF Spec

\* exit(0) interrupts no job, no open HTTP request and no call that a connection took,
\* however many were running when the signal came; a query only after a second signal.
THEOREM CleanExitCorrect == Spec => []CleanExitInterruptsNoCall
BY CleanExit, InitInv, InvInductive, PTL DEF Spec

\* However many handlers lose their connections, none sends an event that has no
\* row, nor calls one 'failed' that was not tried.
THEOREM RowsHoldCorrect == Spec => []RowsHoldInShutdown
<1>1. Inv => RowsHoldInShutdown
  BY DEF Inv
<1>. QED BY <1>1, InitInv, InvInductive, PTL DEF Spec

=============================================================================
