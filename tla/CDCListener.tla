----------------------------- MODULE CDCListener -----------------------------
(***************************************************************************)
(* From a commit in Salesforce to Pipeline.process: SalesforceCDCListener  *)
(* with the start of the process around it, and the head of process().     *)
(*                                                                         *)
(* A change's place in the stream is its replay id.  Every message starts  *)
(* a handleRawMessage of its own that nobody awaits; fetch[i] is where the *)
(* one of change i stands.  The subscription starts at the latest change;  *)
(* the CometD client under jsforce renews a broken one by itself, from the *)
(* latest change too, as long as Salesforce takes the access token.  There *)
(* is one token for the life of the process: nothing refreshes it, and     *)
(* nothing looks at what becomes of the subscription.                      *)
(***************************************************************************)
EXTENDS Naturals, Sequences, EventFilter

CONSTANTS Inputs,            \* the changes leads undergo, a subset of Change
          maxRetries,        \* of connect(): 30
          retries,           \* of fetchLead(): 5
          MaxChanges,        \* bound: commits in a behaviour
          MaxFaults          \* bound: failed calls, broken connections, exits

ASSUME ListenerAssumption ==
  /\ Inputs \subseteq Change
  /\ maxRetries \in Nat \ {0} /\ retries \in Nat \ {0}
  /\ MaxChanges \in Nat /\ MaxFaults \in Nat

VARIABLES changes,           \* Salesforce: the changes committed so far
          conn,              \* the connection to Salesforce
          expired,           \* has the session of the access token ended?
          attempt,           \* of connect()
          next,              \* the replay id the subscription pushes next
          lastReplayId,
          fetch, tries,      \* the handleRawMessage of each change; its attempt
          events,            \* what reached deduplication, in that order
          faults,
          missed             \* history: changes nobody was subscribed to

subscription == <<conn, expired, attempt, next>>
vars == <<changes, subscription, lastReplayId, fetch, tries, events, faults, missed>>

Latest == 0        \* lastReplayId = -1; replay ids count from 1 here

Ids == 1 .. MaxChanges

Outcomes == {"filtered", "handed", "failed", "killed"}

TypeOK ==
  /\ changes \in Seq(Inputs)
  /\ conn \in {"connecting", "subscribing", "subscribed", "broken", "refused"}
  /\ expired \in BOOLEAN
  /\ attempt \in 1 .. maxRetries
  /\ next \in 1 .. MaxChanges + 1
  /\ lastReplayId \in 0 .. MaxChanges
  /\ fetch \in [Ids -> {"none", "fetching"} \cup Outcomes]
  /\ tries \in [Ids -> 0 .. retries]
  /\ events \in Seq(Ids)
  /\ faults \in 0 .. MaxFaults
  /\ missed \in SUBSET Ids

Init ==
  /\ changes = <<>>
  /\ conn = "connecting"
  /\ expired = FALSE
  /\ attempt = 1
  /\ next = 1
  /\ lastReplayId = Latest
  /\ fetch = [i \in Ids |-> "none"]
  /\ tries = [i \in Ids |-> 0]
  /\ events = <<>>
  /\ faults = 0
  /\ missed = {}

Fault == faults < MaxFaults /\ faults' = faults + 1

\* Everything committed from the given replay id on.
Since(i) == {j \in Ids : i <= j /\ j <= Len(changes)}

-----------------------------------------------------------------------------
\* Salesforce.

Commit(c) ==
  /\ Len(changes) < MaxChanges
  /\ changes' = Append(changes, c)
  /\ UNCHANGED <<subscription, lastReplayId, fetch, tries, events, faults, missed>>

-----------------------------------------------------------------------------
\* connect(), the subscription and the process.

\* Salesforce hands out an access token, subscribe() is called, and connect() returns.
Connect ==
  /\ conn = "connecting"
  /\ conn' = "subscribing"
  /\ attempt' = 1
  /\ UNCHANGED <<changes, expired, next, lastReplayId, fetch, tries, events, faults, missed>>

Opening == conn \in {"subscribing", "broken"}

\* Mutant of Subscribe: from all retained changes (-2).
SubscribeFromStart ==
  /\ Opening
  /\ ~expired
  /\ conn' = "subscribed"
  /\ next' = 1
  /\ UNCHANGED <<changes, expired, attempt, lastReplayId, fetch, tries, events, faults, missed>>

\* subscribe() passes no replay id, and the library renews without one: the
\* subscription begins with what is committed from now on.
Subscribe ==
  /\ Opening
  /\ ~expired
  /\ conn' = "subscribed"
  /\ missed' = missed \cup Since(next)
  /\ next' = Len(changes) + 1
  /\ UNCHANGED <<changes, expired, attempt, lastReplayId, fetch, tries, events, faults>>

\* Salesforce refuses the subscription, and nobody is told.
Refuse ==
  /\ Opening
  /\ Fault \/ (expired /\ UNCHANGED faults)
  /\ conn' = "refused"
  /\ UNCHANGED <<changes, expired, attempt, next, lastReplayId, fetch, tries, events, missed>>

\* The session of the access token ends.
Expire ==
  /\ conn # "connecting"
  /\ ~expired
  /\ expired' = TRUE
  /\ UNCHANGED <<changes, conn, attempt, next, lastReplayId, fetch, tries, events, faults, missed>>

\* The next attempt is five seconds later.
ConnectFails ==
  /\ conn = "connecting"
  /\ attempt < maxRetries
  /\ Fault
  /\ attempt' = attempt + 1
  /\ UNCHANGED <<changes, conn, expired, next, lastReplayId, fetch, tries, events, missed>>

\* exit(1), and docker starts the process again: connect() from its first
\* attempt, with another token, no replay id, and nothing in flight.
Restart ==
  /\ conn' = "connecting"
  /\ expired' = FALSE
  /\ attempt' = 1
  /\ lastReplayId' = Latest
  /\ fetch' = [i \in Ids |-> IF fetch[i] = "fetching" THEN "killed" ELSE fetch[i]]
  /\ UNCHANGED <<changes, next, tries, events, missed>>

\* Mutant of GiveUp: bootstrap() fails and the process stays.
GiveUpQuietly ==
  /\ conn = "connecting"
  /\ attempt = maxRetries
  /\ Fault
  /\ conn' = "idle"
  /\ UNCHANGED <<changes, expired, attempt, next, lastReplayId, fetch, tries, events, missed>>

\* The last attempt throws and bootstrap() fails.
GiveUp ==
  /\ conn = "connecting"
  /\ attempt = maxRetries
  /\ Fault
  /\ Restart

Crash == Fault /\ Restart

Break ==
  /\ conn = "subscribed"
  /\ Fault \/ (expired /\ UNCHANGED faults)
  /\ conn' = "broken"
  /\ UNCHANGED <<changes, expired, attempt, next, lastReplayId, fetch, tries, events, missed>>

-----------------------------------------------------------------------------
\* handleRawMessage, fetchLead and the head of process().

\* Mutant of Message: of a backlog only the newest is handled.
NewestMessage ==
  /\ conn = "subscribed"
  /\ next <= Len(changes)
  /\ lastReplayId' = Len(changes)
  /\ fetch' = [fetch EXCEPT ![Len(changes)] = "fetching"]
  /\ tries' = [tries EXCEPT ![Len(changes)] = 1]
  /\ next' = Len(changes) + 1
  /\ UNCHANGED <<changes, conn, expired, attempt, events, faults, missed>>

Message ==
  /\ conn = "subscribed"
  /\ next <= Len(changes)
  /\ lastReplayId' = next
  /\ fetch' = [fetch EXCEPT ![next] = "fetching"]
  /\ tries' = [tries EXCEPT ![next] = 1]
  /\ next' = next + 1
  /\ UNCHANGED <<changes, conn, expired, attempt, events, faults, missed>>

\* The lead is there, as it is now; process() filters by the message and goes on
\* to deduplication.
FetchLead(i) ==
  /\ fetch[i] = "fetching"
  /\ ~expired
  /\ IF ShouldProcess(changes[i])
     THEN /\ fetch' = [fetch EXCEPT ![i] = "handed"]
          /\ events' = Append(events, i)
     ELSE fetch' = [fetch EXCEPT ![i] = "filtered"] /\ UNCHANGED events
  /\ UNCHANGED <<changes, subscription, lastReplayId, tries, faults, missed>>

\* EADDRNOTAVAIL: again after three seconds.
FetchRetries(i) ==
  /\ fetch[i] = "fetching"
  /\ tries[i] < retries
  /\ Fault
  /\ tries' = [tries EXCEPT ![i] = @ + 1]
  /\ UNCHANGED <<changes, subscription, lastReplayId, fetch, events, missed>>

\* Any other error, the end of the session among them, or the last try: null, and the
\* change is dropped.
FetchFails(i) ==
  /\ fetch[i] = "fetching"
  /\ Fault \/ (expired /\ UNCHANGED faults)
  /\ fetch' = [fetch EXCEPT ![i] = "failed"]
  /\ UNCHANGED <<changes, subscription, lastReplayId, tries, events, missed>>

Next ==
  \/ \E c \in Inputs : Commit(c)
  \/ Connect \/ ConnectFails \/ GiveUp \/ Crash
  \/ Subscribe \/ Refuse \/ Expire \/ Break
  \/ Message
  \/ \E i \in Ids : FetchLead(i) \/ FetchRetries(i) \/ FetchFails(i)

Spec == Init /\ [][Next]_vars

-----------------------------------------------------------------------------
Committed == 1 .. Len(changes)

\* Safety.

\* Every change that matters is on its way, handed to the pipeline, or lost for
\* one of three reasons: nobody was subscribed when it was pushed, its lead
\* could not be fetched, or the process ended while it was being fetched.
ChangesAccounted ==
  \A i \in Committed :
    ShouldProcess(changes[i]) =>
      \/ i >= next /\ fetch[i] = "none"
      \/ i \in missed /\ fetch[i] = "none"
      \/ fetch[i] \in {"fetching", "handed", "failed", "killed"}

\* The pipeline sees a change at most once, however often the subscription was
\* renewed and the process restarted while its message was handled.
HandedOnce == \A m, n \in 1 .. Len(events) : events[m] = events[n] => m = n

-----------------------------------------------------------------------------
\* Liveness.

\* A process that lost its connection, gave up or was killed is subscribed again, unless
\* Salesforce refused the subscription or the session of its token ended.
SubscribedAgain == []<>(conn \in {"subscribed", "refused"} \/ expired)

=============================================================================
