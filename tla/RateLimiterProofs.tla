-------------------------- MODULE RateLimiterProofs --------------------------
(***************************************************************************)
(* Proofs about RateLimiter, for any callers, rate and period: the types,  *)
(* that no caller of acquire() sleeps past the next refill, and what both  *)
(* clients and their retries may post in a period.                         *)
(***************************************************************************)
EXTENDS RateLimiter, FiniteSetTheorems, TLAPS

\* Max and Min of two numbers, as the waits and the clock use them.
LEMMA MaxOfTwo ==
  ASSUME NEW a \in Int, NEW b \in Int
  PROVE  /\ Max({a, b}) \in {a, b}
         /\ Max({a, b}) >= a
         /\ Max({a, b}) >= b
<1>1. \E x \in {a, b} : \A y \in {a, b} : x >= y
  OBVIOUS
<1>. QED BY <1>1 DEF Max

LEMMA MinOfTwo ==
  ASSUME NEW a \in Int, NEW b \in Int
  PROVE  /\ Min({a, b}) \in {a, b}
         /\ Min({a, b}) <= a
         /\ Min({a, b}) <= b
<1>1. \E x \in {a, b} : \A y \in {a, b} : x <= y
  OBVIOUS
<1>. QED BY <1>1 DEF Min

LEMMA WindowType == Window \subseteq Nat /\ 0 \in Window /\ Period - 1 \in Window
BY LimiterAssumption DEF Window

\* A count that is shifted along the window is one still, and so is one with one more.
LEMMA ShiftType ==
  ASSUME NEW h \in Ago
  PROVE  Shift(h) \in Ago /\ OneMore(h) \in Ago
<1>1. \A i \in Window : i # 0 => i - 1 \in Window
  BY LimiterAssumption DEF Window
<1>2. Shift(h) \in Ago
  BY <1>1 DEF Shift, Ago, Window
<1>3. OneMore(h) \in Ago
  BY DEF OneMore, Ago
<1>. QED BY <1>2, <1>3

\* The refill leaves a number of tokens, and the time it happened, within the
\* bounds of the bucket and the period.
LEMMA RefillType ==
  ASSUME TypeOK, NEW k \in Clients
  PROVE  /\ AfterRefill(k) \in 0 .. MaxTokens
         /\ LastRefill(k) \in 0 .. Period
BY LimiterAssumption DEF TypeOK, AfterRefill, LastRefill, RefillDue

\* A sleeper wakes at the next refill, or within the floor after it.
LEMMA WaitType ==
  ASSUME TypeOK, NEW k \in Clients
  PROVE  /\ Wait(LastRefill(k)) \in Nat
         /\ Wait(LastRefill(k)) + LastRefill(k) <= Period + Floor
<1>1. LastRefill(k) \in 0 .. Period /\ LastRefill(k) # Period
  BY RefillType, LimiterAssumption DEF LastRefill, RefillDue, TypeOK
<1>2. Period - LastRefill(k) \in Int /\ Period - LastRefill(k) >= 1
  BY <1>1, LimiterAssumption
<1>3. Max({Period - LastRefill(k), Floor}) \in {Period - LastRefill(k), Floor}
  <2>. DEFINE left == Period - LastRefill(k)
  <2>1. left \in Int /\ Floor \in Int
    BY <1>2, LimiterAssumption
  <2>2. Max({left, Floor}) \in {left, Floor}
    BY <2>1, MaxOfTwo
  <2>. QED BY <2>2
<1>. QED BY <1>1, <1>2, <1>3, LimiterAssumption DEF Wait

LEMMA ClientType ==
  \A c \in Calls : ClientOf(c) \in Clients
BY DEF ClientOf, Clients

-----------------------------------------------------------------------------
\* What a call's timer and tries are good for depends on its phase: only a
\* sleeper and a pausing post have a timer, and a post that pauses has a retry
\* left.
TimersMatch ==
  \A c \in Calls :
    /\ phase[c] \in {"idle", "posted"} => timer[c] = 0
    /\ phase[c] = "pausing" => tries[c] < MaxRetries

\* The inductive invariant.
Inv == TypeOK /\ TimersMatch /\ NobodyOversleeps

-----------------------------------------------------------------------------
\* Types.

LEMMA InitTyped == Init => TypeOK
<1>1. 0 \in Window
  BY LimiterAssumption DEF Window
<1>. QED BY <1>1, LimiterAssumption DEF Init, TypeOK, Ago

LEMMA CallKeepsTypes ==
  ASSUME TypeOK, TimersMatch, NEW c \in Calls, CallStep(c)
  PROVE  TypeOK'
<1>. DEFINE k == ClientOf(c)
<1>0. k \in Clients
  BY ClientType
<1>1. CASE Call(c)
  BY <1>1 DEF Call, TypeOK
<1>2. CASE Acquire(c)
  <2>1. AfterRefill(k) - 1 \in 0 .. MaxTokens
    BY <1>0, <1>2, RefillType, LimiterAssumption DEF Acquire
  <2>2. granted' \in [Clients -> Ago]
    BY <1>0, <1>2, ShiftType DEF Acquire, TypeOK
  <2>. QED BY <1>0, <1>2, <2>1, <2>2, RefillType DEF Acquire, TypeOK
<1>3. CASE Sleep(c)
  BY <1>0, <1>3, RefillType, WaitType DEF Sleep, TypeOK
<1>4. CASE PostFails(c)
  <2>1. Delay(tries[c]) \in Nat
    BY <1>4, LimiterAssumption DEF PostFails, TypeOK, Delay
  <2>. QED BY <1>4, <2>1 DEF PostFails, TypeOK
<1>5. CASE Repost(c)
  <2>2. resent' \in Ago
    BY <1>5, ShiftType DEF Repost, TypeOK
  <2>3. tries' \in [Calls -> 0 .. MaxRetries]
    BY <1>5, LimiterAssumption DEF Repost, Runs, TypeOK, TimersMatch
  <2>. QED BY <1>5, <2>2, <2>3 DEF Repost, TypeOK
<1>6. CASE Return(c)
  BY <1>6, LimiterAssumption DEF Return, TypeOK
<1>. QED BY <1>1, <1>2, <1>3, <1>4, <1>5, <1>6 DEF CallStep

LEMMA TickKeepsTypes ==
  ASSUME TypeOK, Tick
  PROVE  TypeOK'
<1>1. age' \in [Clients -> 0 .. Period]
  <2>1. ASSUME NEW k \in Clients
        PROVE  Min({age[k] + 1, Period}) \in 0 .. Period
    <3>1. age[k] \in Nat /\ Period \in Nat /\ age[k] + 1 \in Int /\ Period \in Int
      BY LimiterAssumption DEF TypeOK
    <3>2. /\ Min({age[k] + 1, Period}) \in {age[k] + 1, Period}
          /\ Min({age[k] + 1, Period}) <= Period
      BY <3>1, MinOfTwo
    <3>. QED BY <3>1, <3>2
  <2>. QED BY <2>1 DEF Tick
<1>2. timer' \in [Calls -> Nat]
  <2>1. ASSUME NEW c \in Calls
        PROVE  Max({timer[c], 1}) - 1 \in Nat
    <3>1. timer[c] \in Int /\ 1 \in Int
      BY DEF TypeOK
    <3>2. /\ Max({timer[c], 1}) \in {timer[c], 1}
          /\ Max({timer[c], 1}) >= 1
      BY <3>1, MaxOfTwo
    <3>. QED BY <3>1, <3>2
  <2>. QED BY <2>1 DEF Tick
<1>3. granted' \in [Clients -> Ago] /\ resent' \in Ago
  BY ShiftType DEF Tick, TypeOK
<1>. QED BY <1>1, <1>2, <1>3 DEF Tick, TypeOK

-----------------------------------------------------------------------------
\* Timers.

LEMMA CallKeepsTimers ==
  ASSUME Inv, NEW c \in Calls, CallStep(c)
  PROVE  TimersMatch'
<1>1. CASE Call(c)
  BY <1>1 DEF Call, Inv, TypeOK, TimersMatch
<1>2. CASE Acquire(c)
  BY <1>2 DEF Acquire, Runs, Inv, TypeOK, TimersMatch
<1>3. CASE Sleep(c)
  BY <1>3 DEF Sleep, Runs, Inv, TypeOK, TimersMatch
<1>4. CASE PostFails(c)
  BY <1>4 DEF PostFails, Inv, TypeOK, TimersMatch
<1>5. CASE Repost(c)
  BY <1>5 DEF Repost, Runs, Inv, TypeOK, TimersMatch
<1>6. CASE Return(c)
  BY <1>6 DEF Return, Inv, TypeOK, TimersMatch
<1>. QED BY <1>1, <1>2, <1>3, <1>4, <1>5, <1>6 DEF CallStep

\* What a tick leaves of a timer: none stays none, and no timer grows.
LEMMA TickRunsTimers ==
  ASSUME TypeOK, Tick, NEW c \in Calls
  PROVE  timer'[c] = IF timer[c] = 0 THEN 0 ELSE timer[c] - 1
<1>1. timer[c] \in Nat /\ timer[c] \in Int /\ 1 \in Int
  BY DEF TypeOK
<1>2. /\ Max({timer[c], 1}) \in {timer[c], 1}
      /\ Max({timer[c], 1}) >= 1
      /\ Max({timer[c], 1}) >= timer[c]
  BY <1>1, MaxOfTwo
<1>3. timer'[c] = Max({timer[c], 1}) - 1
  BY DEF Tick
<1>. QED BY <1>1, <1>2, <1>3

LEMMA TickKeepsTimers ==
  ASSUME Inv, Tick
  PROVE  TimersMatch'
BY TickRunsTimers DEF Inv, Tick, TimersMatch

-----------------------------------------------------------------------------
\* Sleepers.

\* No caller but c changes, and the refill of a client makes no age greater:
\* who slept well before goes on to.  c itself sleeps until the next refill, or for the floor.
LEMMA CallKeepsSleepers ==
  ASSUME Inv, NEW c \in Calls, CallStep(c)
  PROVE  NobodyOversleeps'
<1>. DEFINE k == ClientOf(c)
<1>0. k \in Clients /\ \A d \in Calls : ClientOf(d) \in Clients
  BY ClientType
<1>1. CASE Call(c)
  BY <1>0, <1>1, LimiterAssumption DEF Call, Inv, TypeOK, TimersMatch, NobodyOversleeps
<1>a. LastRefill(k) \in 0 .. Period /\ LastRefill(k) <= age[k]
  BY <1>0, RefillType, LimiterAssumption DEF LastRefill, RefillDue, Inv, TypeOK
<1>2. CASE Acquire(c)
  BY <1>0, <1>2, <1>a, LimiterAssumption DEF Acquire, Runs, Inv, TypeOK, NobodyOversleeps
<1>3. CASE Sleep(c)
  <2>1. Wait(LastRefill(k)) \in Nat /\ Wait(LastRefill(k)) + LastRefill(k) <= Period + Floor
    BY <1>0, WaitType DEF Inv
  <2>. QED BY <1>0, <1>3, <1>a, <2>1, LimiterAssumption
         DEF Sleep, Runs, Inv, TypeOK, NobodyOversleeps
<1>4. CASE PostFails(c)
  BY <1>0, <1>4 DEF PostFails, Inv, TypeOK, NobodyOversleeps
<1>5. CASE Repost(c)
  BY <1>0, <1>5 DEF Repost, Inv, TypeOK, NobodyOversleeps
<1>6. CASE Return(c)
  BY <1>0, <1>6 DEF Return, Inv, TypeOK, NobodyOversleeps
<1>. QED BY <1>1, <1>2, <1>3, <1>4, <1>5, <1>6 DEF CallStep

\* The clock takes from the timer what it adds to the age, until the timer has
\* run out; the age stops at a period.
LEMMA TickKeepsSleepers ==
  ASSUME Inv, Tick
  PROVE  NobodyOversleeps'
<1>. SUFFICES ASSUME NEW c \in Calls, phase'[c] = "acquiring"
              PROVE  timer'[c] + age'[ClientOf(c)] <= Period + Floor
  BY DEF NobodyOversleeps
<1>. DEFINE k == ClientOf(c)
<1>1. k \in Clients /\ age[k] \in 0 .. Period /\ timer[c] \in Nat
  BY ClientType DEF Inv, TypeOK
<1>2. timer[c] + age[k] <= Period + Floor
  BY DEF Tick, Inv, NobodyOversleeps
<1>3. age'[k] \in {age[k] + 1, Period} /\ age'[k] <= age[k] + 1 /\ age'[k] <= Period
  <2>1. age[k] + 1 \in Int /\ Period \in Int
    BY <1>1, LimiterAssumption
  <2>. QED BY <1>1, <2>1, MinOfTwo DEF Tick
<1>4. timer'[c] = IF timer[c] = 0 THEN 0 ELSE timer[c] - 1
  BY TickRunsTimers DEF Inv
<1>. QED BY <1>1, <1>2, <1>3, <1>4, LimiterAssumption

-----------------------------------------------------------------------------
\* Grants.

\* A grant takes a token; the refill comes a whole period after the last, when what
\* the period before granted is a bucket at most.
LEMMA CallKeepsGrants ==
  ASSUME TypeOK, GrantsBounded, NEW c \in Calls, CallStep(c)
  PROVE  GrantsBounded'
<1>. DEFINE k == ClientOf(c)
<1>0. k \in Clients
  BY ClientType
<1>. SUFFICES ASSUME NEW j \in Clients, NEW i \in Window
              PROVE  granted'[j][i] <= (IF i < age'[j] THEN MaxTokens ELSE 2 * MaxTokens) - tokens'[j]
  BY DEF GrantsBounded
<1>1. granted[j][i] <= (IF i < age[j] THEN MaxTokens ELSE 2 * MaxTokens) - tokens[j]
  BY DEF GrantsBounded
<1>2. /\ granted[j][i] \in Nat /\ tokens[j] \in 0 .. MaxTokens /\ age[j] \in 0 .. Period
      /\ i \in 0 .. Period - 1 /\ MaxTokens \in Nat /\ Period \in Nat \ {0}
  BY LimiterAssumption DEF TypeOK, Ago, Window
<1>3. CASE Acquire(c)
  <2>1. CASE j = k
    <3>1. /\ granted'[j][i] = granted[j][i] + 1
          /\ tokens'[j] = AfterRefill(j) - 1 /\ age'[j] = LastRefill(j)
      BY <1>0, <1>3, <2>1 DEF Acquire, OneMore, TypeOK
    <3>2. CASE age[j] >= Period
      <4>1. tokens'[j] = MaxTokens - 1 /\ age'[j] = 0
        BY <3>1, <3>2 DEF AfterRefill, LastRefill, RefillDue
      <4>. QED BY <1>1, <1>2, <3>1, <3>2, <4>1
    <3>3. CASE ~(age[j] >= Period)
      <4>1. tokens'[j] = tokens[j] - 1 /\ age'[j] = age[j]
        BY <3>1, <3>3 DEF AfterRefill, LastRefill, RefillDue
      <4>. QED BY <1>1, <1>2, <3>1, <4>1
    <3>. QED BY <3>2, <3>3
  <2>2. CASE j # k
    <3>1. granted'[j] = granted[j] /\ tokens'[j] = tokens[j] /\ age'[j] = age[j]
      BY <1>3, <2>2 DEF Acquire, TypeOK
    <3>. QED BY <1>1, <3>1
  <2>. QED BY <2>1, <2>2
<1>4. CASE Sleep(c)
  <2>1. CASE j = k
    <3>1. /\ granted'[j] = granted[j] /\ AfterRefill(j) < 1
          /\ tokens'[j] = AfterRefill(j) /\ age'[j] = LastRefill(j)
      BY <1>0, <1>4, <2>1 DEF Sleep, TypeOK
    <3>2. CASE age[j] >= Period
      <4>1. tokens'[j] = MaxTokens /\ age'[j] = 0 /\ MaxTokens < 1
        BY <3>1, <3>2 DEF AfterRefill, LastRefill, RefillDue
      <4>. QED BY <1>1, <1>2, <3>1, <3>2, <4>1
    <3>3. CASE ~(age[j] >= Period)
      <4>1. tokens'[j] = tokens[j] /\ age'[j] = age[j]
        BY <3>1, <3>3 DEF AfterRefill, LastRefill, RefillDue
      <4>. QED BY <1>1, <3>1, <4>1
    <3>. QED BY <3>2, <3>3
  <2>2. CASE j # k
    <3>1. granted'[j] = granted[j] /\ tokens'[j] = tokens[j] /\ age'[j] = age[j]
      BY <1>4, <2>2 DEF Sleep, TypeOK
    <3>. QED BY <1>1, <3>1
  <2>. QED BY <2>1, <2>2
<1>5. CASE UNCHANGED <<tokens, age, granted>>
  BY <1>1, <1>5
<1>. QED BY <1>3, <1>4, <1>5 DEF CallStep, Call, PostFails, Repost, Return

\* What was granted at most i ticks ago was so at most i - 1 ticks ago before the
\* tick, and the age grows by no more than the tick.
LEMMA TickKeepsGrants ==
  ASSUME TypeOK, GrantsBounded, Tick
  PROVE  GrantsBounded'
<1>. SUFFICES ASSUME NEW k \in Clients, NEW i \in Window
              PROVE  granted'[k][i] <= (IF i < age'[k] THEN MaxTokens ELSE 2 * MaxTokens) - tokens'[k]
  BY DEF GrantsBounded
<1>1. /\ tokens'[k] = tokens[k] /\ tokens[k] \in 0 .. MaxTokens /\ age[k] \in 0 .. Period
      /\ i \in 0 .. Period - 1 /\ MaxTokens \in Nat /\ Period \in Nat \ {0}
  BY LimiterAssumption DEF Tick, TypeOK, Window
<1>2. granted'[k][i] = IF i = 0 THEN 0 ELSE granted[k][i - 1]
  BY DEF Tick, Shift
<1>3. age'[k] \in 0 .. Period /\ age'[k] <= age[k] + 1
  <2>1. age[k] + 1 \in Int /\ Period \in Int
    BY <1>1
  <2>2. age'[k] = Min({age[k] + 1, Period})
    BY DEF Tick
  <2>3. /\ age'[k] \in {age[k] + 1, Period}
        /\ age'[k] <= age[k] + 1 /\ age'[k] <= Period
    BY <2>1, <2>2, MinOfTwo
  <2>. QED BY <1>1, <2>3
<1>4. CASE i = 0
  BY <1>1, <1>2, <1>3, <1>4
<1>5. CASE i # 0
  <2>1. i - 1 \in Window /\ i - 1 \in Nat
    BY <1>1, <1>5 DEF Window
  <2>2. granted[k][i - 1] <= (IF i - 1 < age[k] THEN MaxTokens ELSE 2 * MaxTokens) - tokens[k]
    BY <2>1 DEF GrantsBounded
  <2>3. granted[k][i - 1] \in Nat
    BY <2>1 DEF TypeOK, Ago
  <2>. QED BY <1>1, <1>2, <1>3, <1>5, <2>2, <2>3
<1>. QED BY <1>4, <1>5

-----------------------------------------------------------------------------
\* Retries.

LEMMA ResentType ==
  /\ IsFiniteSet(Calls)
  /\ \A i : /\ IsFiniteSet(MayHaveResent(i)) /\ Cardinality(MayHaveResent(i)) \in Nat
            /\ Cardinality(MayHaveResent(i)) <= Cardinality(Calls)
<1>1. IsFiniteSet(Calls)
  BY LimiterAssumption DEF Calls
<1>2. \A i : MayHaveResent(i) \subseteq Calls
  BY DEF MayHaveResent
<1>. QED BY <1>1, <1>2, FS_Subset, FS_CardinalityType

\* A pause begins with a whole period on its timer, so the call that begins it may
\* still be one of those that posted again; the call that ends it was none of them.
LEMMA CallKeepsResent ==
  ASSUME Inv, ResentBounded, NEW c \in Calls, CallStep(c)
  PROVE  ResentBounded'
<1>. SUFFICES ASSUME RetryDelay >= Period, NEW i \in Window
              PROVE  resent'[i] <= Cardinality(MayHaveResent(i)')
  BY DEF ResentBounded
<1>1. resent[i] <= Cardinality(MayHaveResent(i)) /\ resent[i] \in Nat /\ i \in Nat
  BY WindowType DEF ResentBounded, Inv, TypeOK, Ago
<1>2. ASSUME resent' = resent, MayHaveResent(i)' = MayHaveResent(i)
      PROVE  resent'[i] <= Cardinality(MayHaveResent(i)')
  BY <1>1, <1>2
<1>3. CASE Call(c) \/ Acquire(c) \/ Return(c)
  <2>1. \A d \in Calls : /\ phase'[d] = "pausing" <=> phase[d] = "pausing"
                         /\ timer'[d] = timer[d]
    BY <1>3 DEF Call, Acquire, Return, Runs, Inv, TypeOK
  <2>2. resent' = resent /\ MayHaveResent(i)' = MayHaveResent(i)
    BY <1>3, <2>1 DEF Call, Acquire, Return, MayHaveResent
  <2>. QED BY <1>2, <2>2
<1>4. CASE Sleep(c)
  <2>1. \A d \in Calls : /\ phase'[d] = "pausing" <=> phase[d] = "pausing"
                         /\ phase[d] = "pausing" => timer'[d] = timer[d]
    BY <1>4 DEF Sleep, Runs, Inv, TypeOK
  <2>2. resent' = resent /\ MayHaveResent(i)' = MayHaveResent(i)
    BY <1>4, <2>1 DEF Sleep, MayHaveResent
  <2>. QED BY <1>2, <2>2
<1>5. CASE PostFails(c)
  <2>1. Delay(tries[c]) \in Nat /\ Delay(tries[c]) >= Period
    <3>1. tries[c] \in 0 .. MaxRetries
      BY DEF Inv, TypeOK
    <3>2. Delay(tries[c]) \in Nat /\ Delay(tries[c]) >= RetryDelay
      BY <3>1, LimiterAssumption DEF Delay
    <3>. QED BY <3>2, LimiterAssumption
  <2>2. \A d \in Calls : IF d = c THEN phase[d] = "posted" /\ timer'[d] + i >= Period
                         ELSE phase'[d] = phase[d] /\ timer'[d] = timer[d]
    BY <1>1, <1>5, <2>1, LimiterAssumption DEF PostFails, Inv, TypeOK
  <2>3. resent' = resent /\ MayHaveResent(i)' = MayHaveResent(i)
    BY <1>5, <2>2 DEF PostFails, MayHaveResent
  <2>. QED BY <1>2, <2>3
<1>6. CASE Repost(c)
  <2>1. /\ phase[c] = "pausing" /\ timer[c] = 0 /\ phase'[c] = "posted"
        /\ \A d \in Calls \ {c} : phase'[d] = phase[d]
        /\ timer' = timer
    BY <1>6 DEF Repost, Runs, Inv, TypeOK
  <2>2. ~(timer[c] + i >= Period)
    BY <2>1, LimiterAssumption DEF Window
  <2>3. c \notin MayHaveResent(i) /\ MayHaveResent(i)' = MayHaveResent(i) \union {c}
    BY <2>1, <2>2 DEF MayHaveResent
  <2>4. Cardinality(MayHaveResent(i)') = Cardinality(MayHaveResent(i)) + 1
    BY <2>3, ResentType, FS_AddElement
  <2>5. resent'[i] = resent[i] + 1
    BY <1>6 DEF Repost, OneMore
  <2>. QED BY <1>1, <2>4, <2>5, ResentType
<1>. QED BY <1>3, <1>4, <1>5, <1>6 DEF CallStep

\* The tick moves the count and the timers alike.
LEMMA TickKeepsResent ==
  ASSUME Inv, ResentBounded, Tick
  PROVE  ResentBounded'
<1>. SUFFICES ASSUME RetryDelay >= Period, NEW i \in Window
              PROVE  resent'[i] <= Cardinality(MayHaveResent(i)')
  BY DEF ResentBounded
<1>1. resent'[i] = IF i = 0 THEN 0 ELSE resent[i - 1]
  BY DEF Tick, Shift
<1>2. CASE i = 0
  <2>1. Cardinality(MayHaveResent(i)') \in Nat
    <3>1. MayHaveResent(i)' \subseteq Calls
      BY DEF MayHaveResent
    <3>. QED BY <3>1, ResentType, FS_Subset, FS_CardinalityType
  <2>. QED BY <1>1, <1>2, <2>1
<1>3. CASE i # 0
  <2>1. i - 1 \in Window /\ i \in Nat /\ i < Period
    BY <1>3, LimiterAssumption DEF Window
  <2>2. ASSUME NEW c \in Calls
        PROVE  (phase'[c] = "pausing" => timer'[c] + i >= Period)
                 <=> (phase[c] = "pausing" => timer[c] + (i - 1) >= Period)
    <3>1. /\ timer[c] \in Nat /\ phase'[c] = phase[c]
          /\ timer'[c] = IF timer[c] = 0 THEN 0 ELSE timer[c] - 1
      BY TickRunsTimers DEF Inv, TypeOK, Tick
    <3>. QED BY <2>1, <3>1, LimiterAssumption
  <2>3. MayHaveResent(i)' = MayHaveResent(i - 1)
    BY <2>2 DEF MayHaveResent
  <2>. QED BY <1>1, <1>3, <2>1, <2>3 DEF ResentBounded
<1>. QED BY <1>2, <1>3

-----------------------------------------------------------------------------
LEMMA InitInv == Init => Inv
<1>1. ASSUME Init
      PROVE  TimersMatch /\ NobodyOversleeps
  BY <1>1, ClientType, LimiterAssumption DEF Init, TimersMatch, NobodyOversleeps
<1>. QED BY <1>1, InitTyped DEF Inv

LEMMA InvInductive == Inv /\ [Next]_vars => Inv'
<1>. SUFFICES ASSUME Inv, [Next]_vars
              PROVE  Inv'
  OBVIOUS
<1>1. ASSUME NEW c \in Calls, CallStep(c)
      PROVE  Inv'
  BY <1>1, CallKeepsTypes, CallKeepsTimers, CallKeepsSleepers DEF Inv
<1>2. CASE Tick
  BY <1>2, TickKeepsTypes, TickKeepsTimers, TickKeepsSleepers DEF Inv
<1>3. CASE UNCHANGED vars
  BY <1>3 DEF vars, Inv, TypeOK, TimersMatch, NobodyOversleeps
<1>. QED BY <1>1, <1>2, <1>3 DEF Next

\* acquire(), refill() and the retries keep every variable in its range: a
\* bucket holds at most rps tokens and never less than none.
THEOREM TypeCorrect == Spec => []TypeOK
<1>1. Inv => TypeOK
  BY DEF Inv
<1>. QED BY <1>1, InitInv, InvInductive, PTL DEF Spec

\* A caller asleep in acquire() is due when the bucket can be refilled, or at most the
\* 10 ms floor after it, for any number of callers, any rate, period and floor.
THEOREM NobodyOversleepsCorrect == Spec => []NobodyOversleeps
<1>1. Inv => NobodyOversleeps
  BY DEF Inv
<1>. QED BY <1>1, InitInv, InvInductive, PTL DEF Spec

LEMMA BoundsInductive ==
  /\ Init => GrantsBounded /\ ResentBounded
  /\ Inv /\ GrantsBounded /\ ResentBounded /\ [Next]_vars => GrantsBounded' /\ ResentBounded'
<1>1. Init => GrantsBounded /\ ResentBounded
  <2>. SUFFICES ASSUME Init PROVE GrantsBounded /\ ResentBounded
    OBVIOUS
  <2>1. GrantsBounded
    BY WindowType, LimiterAssumption DEF Init, GrantsBounded, Clients
  <2>2. ResentBounded
    BY WindowType, ResentType DEF Init, ResentBounded
  <2>. QED BY <2>1, <2>2
<1>2. ASSUME Inv, GrantsBounded, ResentBounded, [Next]_vars
      PROVE  GrantsBounded' /\ ResentBounded'
  <2>1. ASSUME NEW c \in Calls, CallStep(c) PROVE GrantsBounded' /\ ResentBounded'
    BY <1>2, <2>1, CallKeepsGrants, CallKeepsResent DEF Inv
  <2>2. CASE Tick
    BY <1>2, <2>2, TickKeepsGrants, TickKeepsResent DEF Inv
  <2>3. CASE UNCHANGED vars
    BY <1>2, <2>3 DEF vars, GrantsBounded, ResentBounded, MayHaveResent
  <2>. QED BY <1>2, <2>1, <2>2, <2>3 DEF Next
<1>. QED BY <1>1, <1>2

\* In no period do both clients, with the retries axios-retry makes without asking
\* the limiter, post more than twice their rates and once for each call.
THEOREM PostsBoundedCorrect == Spec => []PostsBounded
<1>1. TypeOK /\ GrantsBounded /\ ResentBounded => PostsBounded
  <2>. SUFFICES ASSUME TypeOK, GrantsBounded, ResentBounded, RetryDelay >= Period PROVE PostsBounded
    BY DEF PostsBounded
  <2>1. ASSUME NEW k \in Clients PROVE InPeriod(granted[k]) \in Nat /\ InPeriod(granted[k]) <= 2 * MaxTokens
    <3>1. /\ InPeriod(granted[k]) <= (IF Period - 1 < age[k] THEN MaxTokens ELSE 2 * MaxTokens) - tokens[k]
          /\ tokens[k] \in 0 .. MaxTokens /\ InPeriod(granted[k]) \in Nat
      BY WindowType DEF GrantsBounded, InPeriod, TypeOK, Ago
    <3>. QED BY <3>1, LimiterAssumption
  <2>2. InPeriod(resent) \in Nat /\ InPeriod(resent) <= Cardinality(Calls)
    <3>1. InPeriod(resent) <= Cardinality(MayHaveResent(Period - 1)) /\ InPeriod(resent) \in Nat
      BY WindowType DEF ResentBounded, InPeriod, TypeOK, Ago
    <3>2. Cardinality(Calls) \in Nat
      BY ResentType, FS_CardinalityType
    <3>. QED BY <3>1, <3>2, ResentType
  <2>3. "pipeline" \in Clients /\ "worker" \in Clients /\ Cardinality(Calls) \in Nat
    BY ResentType, FS_CardinalityType DEF Clients
  <2>4. /\ InPeriod(granted["pipeline"]) \in Nat /\ InPeriod(granted["pipeline"]) <= 2 * MaxTokens
        /\ InPeriod(granted["worker"]) \in Nat /\ InPeriod(granted["worker"]) <= 2 * MaxTokens
    BY <2>1, <2>3
  <2>. QED BY <2>2, <2>3, <2>4, LimiterAssumption DEF PostsBounded
<1>2. Inv => TypeOK
  BY DEF Inv
<1>. QED BY <1>1, <1>2, InitInv, InvInductive, BoundsInductive, PTL DEF Spec

=============================================================================
