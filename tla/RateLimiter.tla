----------------------------- MODULE RateLimiter -----------------------------
(***************************************************************************)
(* The rate limits of the process: the pipeline and the worker build a     *)
(* TikTokAPIClient each, with a RateLimiter of its own, and the retries of *)
(* axios-retry stay inside the post that passed it.  acquire() runs        *)
(* without an await until it sleeps, so refill-and-take is one step;       *)
(* sleepers and newcomers race for the tokens of the next refill, in no    *)
(* order.  Time is relative and counts Period ticks to the second of       *)
(* refillIntervalMs: a Date.now() appears as the age of the last refill,   *)
(* and a timer as what is left of it.  A timer may fire late.              *)
(***************************************************************************)
EXTENDS Naturals, FiniteSetsExt

CONSTANTS PipelineCalls, WorkerCalls,   \* sendEvents() in progress, by client
          MaxTokens,         \* rps
          Period,            \* refillIntervalMs
          Floor,             \* the shortest sleep, 10 ms
          RetryDelay,        \* TIKTOK_INITIAL_RETRY_DELAY_MS
          MaxRetries         \* TIKTOK_MAX_RETRIES

ASSUME LimiterAssumption ==
  /\ MaxTokens \in Nat
  /\ Period \in Nat \ {0}
  /\ Floor \in 1 .. Period
  /\ MaxRetries \in Nat
  /\ RetryDelay \in Nat
  /\ \A n \in 0 .. MaxRetries : RetryDelay * 2 ^ n \in Nat /\ RetryDelay * 2 ^ n >= RetryDelay
  /\ PipelineCalls \intersect WorkerCalls = {}
  /\ IsFiniteSet(PipelineCalls \union WorkerCalls)

Clients == {"pipeline", "worker"}
Calls == PipelineCalls \union WorkerCalls
ClientOf(c) == IF c \in PipelineCalls THEN "pipeline" ELSE "worker"

VARIABLES tokens, age,       \* per client; age is that of the last refill
          phase, timer,      \* per call; timer is what is left of its setTimeout
          tries,             \* retries of the post so far
          granted, resent    \* history: acquires and retries, at most i ticks ago

vars == <<tokens, age, phase, timer, tries, granted, resent>>

Window == 0 .. Period - 1
Ago == [Window -> Nat]

OneMore(h) == [i \in Window |-> h[i] + 1]
Shift(h) == [i \in Window |-> IF i = 0 THEN 0 ELSE h[i - 1]]

TypeOK ==
  /\ tokens \in [Clients -> 0 .. MaxTokens]
  /\ age \in [Clients -> 0 .. Period]
  /\ phase \in [Calls -> {"idle", "acquiring", "posted", "pausing"}]
  /\ timer \in [Calls -> Nat]
  /\ tries \in [Calls -> 0 .. MaxRetries]
  /\ granted \in [Clients -> Ago]
  /\ resent \in Ago

Init ==
  /\ tokens = [k \in Clients |-> MaxTokens]
  /\ age = [k \in Clients |-> 0]
  /\ phase = [c \in Calls |-> "idle"]
  /\ timer = [c \in Calls |-> 0]
  /\ tries = [c \in Calls |-> 0]
  /\ granted = [k \in Clients |-> [i \in Window |-> 0]]
  /\ resent = [i \in Window |-> 0]

\* refill(): all tokens at once, when a period has passed since the last time.
RefillDue(k) == age[k] >= Period

AfterRefill(k) == IF RefillDue(k) THEN MaxTokens ELSE tokens[k]

\* Mutant of LastRefill: every look is taken for a refill.
LastLook(k) == 0

LastRefill(k) == IF RefillDue(k) THEN 0 ELSE age[k]

\* Mutant of Wait: a whole period, whenever it began.
WaitPeriod(since) == Period

\* Math.max(waitMs, 10): what is left of the period, but no less than the floor.
Wait(since) == Max({Period - since, Floor})

\* sendEvents() enters acquire().
Call(c) ==
  /\ phase[c] = "idle"
  /\ phase' = [phase EXCEPT ![c] = "acquiring"]
  /\ UNCHANGED <<tokens, age, timer, tries, granted, resent>>

Runs(c, p) == phase[c] = p /\ timer[c] = 0

\* A token is there: with the static token the post follows in the same turn.
Acquire(c) == LET k == ClientOf(c) IN
  /\ Runs(c, "acquiring")
  /\ AfterRefill(k) >= 1
  /\ tokens' = [tokens EXCEPT ![k] = AfterRefill(k) - 1]
  /\ age' = [age EXCEPT ![k] = LastRefill(k)]
  /\ phase' = [phase EXCEPT ![c] = "posted"]
  /\ granted' = [granted EXCEPT ![k] = OneMore(@)]
  /\ UNCHANGED <<timer, tries, resent>>

Sleep(c) == LET k == ClientOf(c) IN
  /\ Runs(c, "acquiring")
  /\ AfterRefill(k) < 1
  /\ tokens' = [tokens EXCEPT ![k] = AfterRefill(k)]
  /\ age' = [age EXCEPT ![k] = LastRefill(k)]
  /\ timer' = [timer EXCEPT ![c] = Wait(LastRefill(k))]
  /\ UNCHANGED <<phase, tries, granted, resent>>

\* Mutant of Delay: axios-retry's own default.
NoDelay(n) == 0

\* retryDelay: exponential; the jitter only makes a timer later.
Delay(n) == RetryDelay * 2 ^ n

\* A 429, a 5xx, a network error or the timeout: axios-retry pauses ...
PostFails(c) ==
  /\ phase[c] = "posted"
  /\ tries[c] < MaxRetries
  /\ phase' = [phase EXCEPT ![c] = "pausing"]
  /\ timer' = [timer EXCEPT ![c] = Delay(tries[c])]
  /\ UNCHANGED <<tokens, age, tries, granted, resent>>

\* ... and posts again, without a token.
Repost(c) ==
  /\ Runs(c, "pausing")
  /\ phase' = [phase EXCEPT ![c] = "posted"]
  /\ tries' = [tries EXCEPT ![c] = @ + 1]
  /\ resent' = OneMore(resent)
  /\ UNCHANGED <<tokens, age, timer, granted>>

\* sendEvents() returns or throws.
Return(c) ==
  /\ phase[c] = "posted"
  /\ phase' = [phase EXCEPT ![c] = "idle"]
  /\ tries' = [tries EXCEPT ![c] = 0]
  /\ UNCHANGED <<tokens, age, timer, granted, resent>>

Tick ==
  /\ age' = [k \in Clients |-> Min({age[k] + 1, Period})]
  /\ timer' = [c \in Calls |-> Max({timer[c], 1}) - 1]
  /\ granted' = [k \in Clients |-> Shift(granted[k])]
  /\ resent' = Shift(resent)
  /\ UNCHANGED <<tokens, phase, tries>>

CallStep(c) ==
  Call(c) \/ Acquire(c) \/ Sleep(c) \/ PostFails(c) \/ Repost(c) \/ Return(c)

Next == (\E c \in Calls : CallStep(c)) \/ Tick

Spec == Init /\ [][Next]_vars

\* Time passes, and Node runs the callback of a timer that is due.
FairSpec == Spec /\ WF_vars(Tick) /\ \A c \in Calls : WF_vars(Acquire(c) \/ Sleep(c))

-----------------------------------------------------------------------------
InPeriod(h) == h[Period - 1]

\* What the process may post in a period, both clients and all retries
\* together: twice the rate of each limiter and one retry for each call in
\* progress.  It takes a first delay of at least a period, as in env.ts.
PostsBounded ==
  RetryDelay >= Period =>
    InPeriod(granted["pipeline"]) + InPeriod(granted["worker"]) + InPeriod(resent)
      <= 2 * MaxTokens + 2 * MaxTokens + Cardinality(Calls)

\* Nobody oversleeps: whoever refills the bucket in the meantime, a caller asleep
\* in acquire() is due when it can be refilled again, or later by no more than the
\* floor, which a sleep that begins just before the refill is rounded up to.
NobodyOversleeps ==
  \A c \in Calls : phase[c] = "acquiring" => timer[c] + age[ClientOf(c)] <= Period + Floor

\* Strengthenings that make the bound inductive.

\* A client has taken since its last refill what is missing in the bucket, and no
\* more than a bucket in the rest of a period before.
GrantsBounded ==
  \A k \in Clients, i \in Window :
    granted[k][i] <= (IF i < age[k] THEN MaxTokens ELSE 2 * MaxTokens) - tokens[k]

\* The calls that may have posted again at most i ticks ago: one that pauses has
\* been at it for what its timer is short of a period.
MayHaveResent(i) == {c \in Calls : phase[c] = "pausing" => timer[c] + i >= Period}

ResentBounded ==
  RetryDelay >= Period => \A i \in Window : resent[i] <= Cardinality(MayHaveResent(i))

\* Callers cannot keep each other from the tokens for ever: as long as
\* somebody waits for a limiter, somebody passes it.  Who, is left open: the
\* code has no queue, and a caller may lose every race.
SomebodyPasses ==
  \A k \in Clients :
    \/ []<>(\A c \in Calls : ClientOf(c) = k => phase[c] /= "acquiring")
    \/ []<><<\E c \in Calls : ClientOf(c) = k /\ Acquire(c)>>_vars

=============================================================================
