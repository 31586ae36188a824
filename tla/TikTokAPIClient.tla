-------------------------- MODULE TikTokAPIClient --------------------------
(***************************************************************************)
(* TikTokAPIClient.sendEvents and the TikTok endpoint it posts to.         *)
(*                                                                         *)
(* A caller (a pipeline handler or a worker slot) has at most one call     *)
(* open.  One call waits for the rate limiter, then posts, and axios-retry *)
(* posts again while an answer is retryable and its budget lasts.  TikTok  *)
(* may record an event although the caller never hears of it: the answer   *)
(* can be lost, or the request can arrive after the caller gave up (late). *)
(*                                                                         *)
(* A module of operations only: Pipeline composes them.  The arithmetic of *)
(* the rate limiter is in RateLimiter.                                     *)
(***************************************************************************)
EXTENDS Naturals, FiniteSets

CONSTANTS Callers,           \* who may call sendEvents
          Events,            \* event ids, one event per payload
          Retries            \* env.TIKTOK_MAX_RETRIES of axios-retry

VARIABLES tokenConfigured,   \* is env.TIKTOK_ACCESS_TOKEN set?
          call,              \* the open call of each caller
          late,              \* requests whose caller has given up, by event
          received,          \* how often TikTok recorded an event
          posts,             \* how often an event was put on the wire
          rejected           \* history: events answered with 400, 401 or 403

clientVars == <<call, late, received, posts, rejected>>

NoEvent == "noEvent"

\* step: where the call is suspended; recorded: TikTok recorded this request.
NoCall == [step |-> "none", event |-> NoEvent, tries |-> 0, recorded |-> FALSE]

NewCall(e) == [step |-> "limiter", event |-> e, tries |-> 0, recorded |-> FALSE]

Call == [step : {"none", "limiter", "posted", "backoff"},
         event : Events \cup {NoEvent}, tries : 0 .. Retries + 1, recorded : BOOLEAN]

ClientTypeOK ==
  /\ call \in [Callers -> Call]
  /\ \A c \in Callers :
       /\ call[c].step # "none" => call[c].event \in Events
       /\ call[c].step = "limiter" => call[c].tries = 0
       /\ call[c].step = "backoff" => call[c].tries <= Retries
  /\ late \in [Events -> Nat]
  /\ received \in [Events -> Nat]
  /\ posts \in [Events -> Nat]
  /\ rejected \in SUBSET Events

ClientInit ==
  /\ call = [c \in Callers |-> NoCall]
  /\ late = [e \in Events |-> 0]
  /\ received = [e \in Events |-> 0]
  /\ posts = [e \in Events |-> 0]
  /\ rejected = {}

\* sendEvents is entered and awaits rateLimiter.acquire().
BeginSend(c, e) ==
  /\ call' = [call EXCEPT ![c] = NewCall(e)]
  /\ UNCHANGED <<late, received, posts, rejected>>

\* acquire() and resolveToken() returned, or the back-off delay of axios-retry
\* is over: the request leaves.
Post(c) ==
  /\ \/ call[c].step = "limiter" /\ tokenConfigured
     \/ call[c].step = "backoff"
  /\ call' = [call EXCEPT ![c].step = "posted", ![c].tries = @ + 1, ![c].recorded = FALSE]
  /\ posts' = [posts EXCEPT ![call[c].event] = @ + 1]
  /\ UNCHANGED <<late, received, rejected>>

\* TikTok records the event of an open request.
Record(c) ==
  /\ call[c].step = "posted"
  /\ ~call[c].recorded
  /\ call' = [call EXCEPT ![c].recorded = TRUE]
  /\ received' = [received EXCEPT ![call[c].event] = @ + 1]
  /\ UNCHANGED <<late, posts, rejected>>

\* A request that outlived its caller's patience arrives after all.
RecordLate(e) ==
  /\ late[e] > 0
  /\ late' = [late EXCEPT ![e] = @ - 1]
  /\ received' = [received EXCEPT ![e] = @ + 1]
  /\ UNCHANGED <<call, posts, rejected>>

Answered == UNCHANGED late

\* The request may still be on its way: a lost connection or a timeout.
Abandoned(c) ==
  late' = IF call[c].recorded THEN late ELSE [late EXCEPT ![call[c].event] = @ + 1]

\* The call rejects: the caller sees an exception.
Throw(c) == call' = [call EXCEPT ![c] = NoCall]

\* Mutant of Succeed: the code in the body is not looked at.
SucceedUnchecked(c) ==
  /\ call[c].step = "posted"
  /\ Throw(c)
  /\ Answered
  /\ UNCHANGED <<received, posts, rejected>>

\* HTTP 200 with code 0: sendEvents returns the response.
Succeed(c) ==
  /\ call[c].step = "posted"
  /\ call[c].recorded
  /\ Throw(c)
  /\ Answered
  /\ UNCHANGED <<received, posts, rejected>>

\* resolveToken() throws when no static token is configured.
NoToken(c) ==
  /\ call[c].step = "limiter"
  /\ ~tokenConfigured
  /\ Throw(c)
  /\ UNCHANGED <<late, received, posts, rejected>>

\* 400, 401 or 403: TikTok refused the event; axios-retry leaves it alone.
Rejected(c) ==
  /\ call[c].step = "posted"
  /\ ~call[c].recorded
  /\ Throw(c)
  /\ Answered
  /\ rejected' = rejected \cup {call[c].event}
  /\ UNCHANGED <<received, posts>>

\* A non-zero code in the body, or another status that is not retried: refused
\* as well.
NotAccepted(c) ==
  /\ call[c].step = "posted"
  /\ ~call[c].recorded
  /\ Throw(c)
  /\ Answered
  /\ UNCHANGED <<received, posts, rejected>>

\* ECONNABORTED after the 15 s timeout is no network error to axios-retry.
TimedOut(c) ==
  /\ call[c].step = "posted"
  /\ Throw(c)
  /\ Abandoned(c)
  /\ UNCHANGED <<received, posts, rejected>>

\* Mutant of Retry: one retry too many.
RetryOnceMore(c) ==
  /\ call[c].step = "posted"
  /\ call[c].tries <= Retries + 1
  /\ call' = [call EXCEPT ![c].step = "backoff"]
  /\ Answered \/ Abandoned(c)
  /\ UNCHANGED <<received, posts, rejected>>

\* 429, 5xx or a network error, seen while axios-retry has retries left.
Retry(c) ==
  /\ call[c].step = "posted"
  /\ call[c].tries <= Retries
  /\ call' = [call EXCEPT ![c].step = "backoff"]
  /\ Answered \/ Abandoned(c)
  /\ UNCHANGED <<received, posts, rejected>>

\* The same errors with the retries used up, or with less of the 15 s left
\* than the next delay needs (axios-retry keeps one timeout for all tries).
RetriesExhausted(c) ==
  /\ call[c].step = "posted"
  /\ Throw(c)
  /\ Answered \/ Abandoned(c)
  /\ UNCHANGED <<received, posts, rejected>>

\* Every way sendEvents can throw.
Fail(c) == NoToken(c) \/ Rejected(c) \/ NotAccepted(c) \/ TimedOut(c) \/ RetriesExhausted(c)

\* The process exits: nobody hears the answers any more, and the requests on
\* the wire may still reach TikTok.
OnTheWire(e) == {c \in Callers : call[c].step = "posted" /\ call[c].event = e /\ ~call[c].recorded}

AbandonAll ==
  /\ call' = [c \in Callers |-> NoCall]
  /\ late' = [e \in Events |-> late[e] + Cardinality(OnTheWire(e))]
  /\ UNCHANGED <<received, posts, rejected>>

=============================================================================
