# salesforce-tiktok-crm in TLA+

The service listens to changes of Salesforce leads, turns those that mean something into
TikTok CRM events and posts them, exactly once if it can. This directory holds its TLA+
models, the TLC instances that check them and the TLAPS proofs about them. Source paths
are relative to `src/salesforce-tiktok-crm/`; a bare file name is one of its `src/`.

Run a model with `tlc -config <cfg> <module>`, and the proofs with `tlapm <module>` for each of
`PipelineProofs`, `PipelineDeliveryProofs`, `LeadEventsProofs`, `CRMEventSetProofs`,
`TikTokOAuthProofs`, `RateLimiterProofs`, `ServerLifecycleProofs` and `TikTokEventBuilderProofs`.

## The system

```
 Salesforce --CDC--> SalesforceCDCListener --> Pipeline.process ----------------------> TikTok
                     (handler per message)       | EventFilter                             ^
                                                 | CRMEventSetManager.resolve              |
                                                 | EventDeduplicator  (Redis SET NX EX)    |
                                                 | EventLog           (Postgres)           |
                                                 | TikTokAPIClient    (RateLimiter, axios-retry)
                                                 +--> BullMQ queue --> worker --> its own --+
                                                                                  client
 browser --/auth/tiktok--> OAuth routes --> TikTokOAuthClient --> TokenStore (Postgres + Redis)
 operator --/event-sets--> routes -------> CRMEventSetManager --> Postgres + Redis + TikTok
```

One Node process runs everything, with Redis (policy `allkeys-lru`) and Postgres beside it;
docker restarts it whenever it exits (`restart: unless-stopped`, `docker-compose.yml:16`). The `docker
run` of `README.md:419` has no such policy: deployed that way an exit is the end, and what the models
say after an exit does not come to pass. JavaScript runs a handler
from one `await` to the next without interruption, so an action of a model is the code
between two awaits, and interleaving happens at awaits only.

| Component | State it keeps | Operations | What makes it correct |
|---|---|---|---|
| `SalesforceCDCListener` (`listeners/salesforce-cdc.ts`) | the connection, `lastReplayId` | `connect`, `subscribe`, `handleRawMessage`, `fetchLead`, `disconnect` | every change is handed over once or lost for a known reason; the process comes back to a subscription while its token is good |
| `EventFilter` (`filters/event-filter.ts`) | none | `evaluate` | leads' changes map to the right event, others to none |
| `Pipeline` (`pipeline.ts`) | none of its own | `process` | one handler works on an event; the log tells the truth; nothing is lost silently |
| `EventDeduplicator` (`deduplication/redis-dedup.ts`) | Redis keys `crm:dedup:<id>` for 48 h | `isDuplicate` | one winner per event while the key lives |
| `EventLog` (`db/event-log.ts`) | table `crm_event_log` | `insert`, `updateStatus` | a row before anything leaves; 'sent' is final |
| `TikTokAPIClient` (`clients/tiktok-api-client.ts`) | open requests | `sendEvents`, `resolveToken`, axios-retry | success only when TikTok took the event; bounded requests |
| `RateLimiter` (same file) | tokens, last refill | `acquire`, `refill` | a bound on what the process posts, nobody oversleeps, somebody gets on |
| Retry queue, worker (`queue/retry-queue.ts`) | BullMQ jobs, by event id | `enqueuePayload`, processor, `drainQueue` | one slot per job, bounded tries, every job ends |
| `CRMEventSetManager`, `event-set-routes.ts` | table `advertiser_event_sets`, Redis for 1 h | `list`, `create`, `provision`, `select`, `resolve`, `store` | an advertiser's leads go to its own set; the cache never invents one |
| `TikTokOAuthClient`, `TokenStore`, `oauth-routes.ts` | table `tiktok_oauth_tokens`, Redis for 23 h, states for 10 min | initiation, callback, `getValidToken`, `refreshAccessToken`, `revoke` | a token handed out is alive; a state works once; a revoke holds |
| `ProactiveRefresher` | its timer | `start`, `refreshAll`, `stop` | tokens are refreshed before they die (`server.ts:104` has its start commented out) |
| `server.ts` | none that lasts | bootstrap, shutdown, exit on unhandled rejections | it stops when told to; a clean exit cuts off no call on a store |
| `IdentityEnrichmentLayer` (`enrichment/identity-enrichment.ts`) | none | `enrich`, the score | the score knows every key that is sent |
| `Normalizer`, `Hasher` (`normalization/`) | none | one function per field | one person, one key; two numbers, two keys |
| `TikTokEventBuilder` (`transformer/tiktok-event-builder.ts`) | none | `buildPayload` | personal data leave as digests only |

How they interact: the listener calls `process` without awaiting it. `process` awaits Redis,
Postgres, the client and the queue in turn. The queue's worker shares with it only the job and
TikTok: it never touches the event log or the deduplication key. The pipeline reads event sets
that HTTP requests write. The clients of pipeline and worker use the static token of
`env.TIKTOK_ACCESS_TOKEN` (they are built without a token resolver), so OAuth tokens reach
TikTok only through the event-set routes.

The hard behaviours: concurrent handlers of one event, and of one lead; Redis failing open,
answering late, or evicting the key while the event is still at work, and the job that is all that
is left of it; calls that reject after they took effect; three retry layers (redelivery, BullMQ,
axios-retry) stacked on each other; requests that time out while TikTok records them; jobs whose
lock is lost and that run twice; exits between any two steps; readers that warm a cache with what a
writer has just replaced or revoked; several route handlers acting on lists that are old; tokens
whose recorded expiry is not the real one; a shutdown that closes the stores under running handlers,
and begins a second time on a second signal. `PROJECT.json` lists each at its line, with the
properties that are about it.

## Modules

| Module | Models | State and actions |
|---|---|---|
| `EventDeduplicator`, `EventLog`, `TikTokAPIClient`, `RetryQueue` | one class or file each | operations without a `Next` of their own: what `Pipeline` composes by `INSTANCE` |
| `Pipeline` | `process` from the deduplication on, the worker, exits | `pc[h]` is the await handler `h` is at; one action per outcome of that await |
| `EventDelivery` | nothing of the code: what the integration promises of an event | `life[e]`, one record per event |
| `PipelineDelivery` | | the refinement mapping from `Pipeline` to `EventDelivery` |
| `EventFilter` | `evaluate` as an operator | none |
| `CDCListener` | listener, restarts, the head of `process` | `fetch[i]` is where the handler of change `i` stands |
| `LeadEvents` | `CDCListener` with its data and the deduplicator: lead, event id, event time, status | `built[i]` is what became of change `i` |
| `RateLimiter` | `acquire` and `refill` of both clients, and axios-retry's timers, against a clock | `phase[c]` and `timer[c]` of each call of `sendEvents` |
| `ServerLifecycle` | bootstrap, signals, graceful shutdown, and what they find running | `work[h].at` is the await of handler `h`, `link[l]` each connection |
| `CRMEventSetManager` | manager, its routes, `resolve` in the pipeline, exits | `req[r].pc` is the await request `r` is at |
| `TikTokOAuth` | client, store, routes, refresher, clock, exits | the same |
| `Normalizer`, `IdentityEnrichmentLayer` | the pure functions of both, and `Hasher` | operators |
| `TikTokEventBuilder` | from the filter to the payload | one step from a lead to its payload |
| `PipelineClaims`, `CRMEventSetClaims`, `CDCListenerClaims` | what comments and docs say and the code does not keep | properties only |
| `MC*` | | instances for TLC: symmetry sets and inputs |
| `PipelineProofs`, `PipelineDeliveryProofs`, `LeadEventsProofs`, `CRMEventSetProofs`, `TikTokOAuthProofs`, `RateLimiterProofs`, `ServerLifecycleProofs`, `TikTokEventBuilderProofs` | | TLAPS proofs about the module each is named after; `LeadEventsProofs` has those about `CDCListener`, which it extends |

`Pipeline`, action by action. `Deliver` is the listener calling `process`. `Novel`, `Duplicate`,
`FailOpen` and `OwnKey` are the four ways `isDuplicate` can answer: the last is a SET that ran
although its answer was lost, after which ioredis repeats the command and finds its own key.
`LogPending` inserts the row and opens the call. `Send`, `Retry`, `Record`, `RecordLate` are the
client and TikTok: a request may be recorded although nobody hears of it, even after the caller gave
up. `SendSucceeds`, `SendFails`, `MarkSent`, `MarkFailed` and `Enqueue` are the try and the catch of
`process`; each `...Fails` is the same await rejecting, with the call applied or not. `TakeJob` to
`TrimJob` are BullMQ and the worker. `ExpireKey` is the TTL of a key or its eviction, and `EvictJob`
the eviction of a job: BullMQ's keys are in the same Redis, whose policy `allkeys-lru`
(`docker-compose.yml:30`) may drop a waiting, delayed or running job. Either the hash goes, and with
it the job, or the list it was in, and then the id is taken by a hash no worker is led to
(`"stray"`), so that a later add is a silent no-op. `Crash` is an exit and the restart. Before the
deduplication `process` writes nothing this module keeps, so handlers start there. `history` holds
what no action reads: who won, which keys leaked, what was dropped, misjudged, buried or evicted.
Where the code leaves an end open, such as an exception out of `process`, the properties name that
end by this history and exclude every other.

`EventDelivery` is the contract behind all of it, without deduplicator, table, queue or process. An
event is taken, held, posted, recorded and let go; it is taken a second time only when its guard has
fallen, posted only by who holds it, recorded once per request, and let go only when it arrived or
with a reason on record. `PipelineDelivery` maps `Pipeline` to it (`LifeOf`): taken is a handler
that won, held is a handler at work, a live job or a slot that runs it, the guard is the absence of
a leak, the wire is what was posted and may still be recorded, and ended is the history of dead
letters, drops and evictions. Every action of `Pipeline` must be one of its steps, an exit for
several events at once.

`CDCListener`: `Connect` gets the access token and calls `subscribe`, whose outcome nobody awaits:
`Subscribe` or `Refuse`. `Break` loses the subscription, and the CometD client under jsforce renews it,
by `Subscribe` again, as long as Salesforce takes the token. `Expire` ends the session of the token,
which is never refreshed: from then on fetches fail, and a subscription that breaks is refused for good.

`LeadEvents` repeats each step of `CDCListener` and adds what it carries. `CommitTo` stamps a change
with the lead and the second of its `commitTimestamp`, which may be missing from the message, and then
`EventTime` is the time of the handler; `FetchAndBuild` is `fetchLead`, the filter, the event id and
the answer of the deduplicator, which may fail open or meet its own key (`FailsOpen`, `MeetsOwnKey`);
`ExpireKey` is the end of a key.

`RateLimiter`: `Call` enters `sendEvents`, `Acquire` and `Sleep` are the two ways through the loop,
`PostFails` and `Repost` are axios-retry, which passes by the limiter, and `Return` leaves. A timer
counts down and may fire late, never early. A second has `Period` ticks, of which `Floor` stand for
the 10 ms that a sleep is rounded up to (`tiktok-api-client.ts:28`). The pipeline's calls and the
worker's have a bucket each. `granted` and `resent` are history: how many tokens and retries there
were at most `i` ticks ago, for each `i` of a period.

`ServerLifecycle`: `Connected` ends the bootstrap; the worker runs before it. `Signal` closes the
HTTP server and arms the timer, `HttpClosed` is the callback that starts all other closings at once,
`Close(l)` ends one of them when no call that was made is on it any more (the queue begins when the
worker is done, as in `drainQueue`), `Settled` is `exit(0)`, `Timeout` the forced exit, `Crash` and
`Kill` the rest. `again` is a second signal: its callback calls `end()` of the two Postgres pools
again, which rejects at once, so that its own `allSettled` does not wait for the queries the first
`end()` waits for. A handler's call is made, refused by a closed connection, or, on a pool that may
have no connection left, queued; `end()` does not serve the queue. `Answer(h)` moves a handler to
its next await, `Serve` gives a queued call its connection, and `Rejected` says where a rejection
leads: the event-set query and the deduplicator swallow the error, the catch of the send marks the
row, everything else leaves `process`.

`CRMEventSetManager` and `TikTokOAuth` share a form: requests come in kinds, `Begin` starts one,
every await has its answer and its rejection, and `Fault` counts the rejections and the exits. A
TikTok token is its issue hour (what TikTok goes by) and its stamp (what the client recorded),
because the client takes the stamp of a refresh before it asks and that of an exchange after the
answer.

`TikTokEventBuilder`, `IdentityEnrichmentLayer` and `Normalizer` treat a text as its word in lower
case and how it is written (upper case, padding), a phone number as its digits and what stands around
them, and SHA-256 as a constructor: equal digests are of equal values.

## What TLC checks

Every bound is a constant of the module and is named there. Each run takes less than three minutes
with two workers.

| Run | Instance | Shows |
|---|---|---|
| `pipeline_faults` | 1 event, 2 handlers, 1 slot, 3 deliveries, 1 fault, 1 exit, evictions, no axios retry, 2 attempts, no stall | `SentMeansReceived`, `LoggedBeforeSent`, `OneClaim`, `NoSilentLoss`, `PendingIsTransient`, `DuplicateHasOriginal`, the action property `SentIsFinal`, and the refinement `ImplementsDelivery` |
| `pipeline_retries` | 1 event, 1 handler, 2 slots, 1 axios retry, 2 attempts, 1 stall, 1 fault, 1 exit, evictions, under fairness | the inductive invariant `FullInv`, `BoundedPosts`; every event settles (`Settles`) and is let go by everybody (`LetsGo`) |
| `event_sets` | 2 advertisers, 2 sets, 2 requests at once of 3, 1 fault or exit, under fairness | the inductive invariant `Inv`, `ActiveBelongs`, `RoutedToOwn`, `OrphansNeedFaults`, `ManualSelectionStands`, `CacheConverges` |
| `oauth_races` | 2 advertisers, 2 requests at once of 3, 1 fault or exit, refresher on | the inductive invariant `Inv`, `StateIsOneTime`, `RevokeWins` |
| `oauth_clock` | 1 advertiser, access tokens of 2 hours, refresh tokens of 3, 4 hours, 1 fault or exit, refresher off | `HandedIsAlive` |
| `rate_limiter` | 2 calls of the pipeline and 1 of the worker, 1 token, period 4, floor 2, first retry delay 4, 1 retry, under fairness | `PostsBounded`, `NobodyOversleeps`, `SomebodyPasses` |
| `listener` | 2 changes of 3 kinds to 2 leads in 2 seconds, stamped or not, 3 faults, 1 fault of Redis, 2 attempts per loop, under fairness | `ChangesAccounted`, `HandedOnce`, `OnlyTwinsAreDropped`, `EventTimesKeepOrder`, `SubscribedAgain` |
| `lifecycle` | 2 handlers, 1 slot, 1 HTTP request, any signals and exits | `CleanExitInterruptsNoCall`, `RowsHoldInShutdown`, `Stops` |
| `payload` | every spelling of an address, a name and an id, phone numbers of 9 to 12 digits in every dress, every event | `OnlyDigests`, `KeysIdentify`, `ScoreCoversKeys` |

Why these bounds are enough for the questions asked. Events do not share any state of `Pipeline` but
the handlers and slots, which are no more than places to run: one event has every interleaving that
matters, and the proofs cover any number. Two handlers give every race for the key, and the third
delivery is the one that comes after the first two are done with. One fault and one exit meet in
every order, at every await; what needs two rejections in a row ends in an exception already
excluded by name. A retry budget of one has the last, and the one before the last, try. Evictions
are not bounded: any job and any key may go at any time, again and again. Stalls, which need a
second slot, are in `pipeline_retries` only. Two advertisers can be confused with each other, two
sets make a choice, three requests include two that overlap and a later reader. Four hours go past
the end of a refresh token of three. Two callers of one bucket race for its one token, the third has
another bucket; four ticks to a period and two to the floor have a sleep that begins too late to end
with the period, and the clock of `RateLimiter` is relative, so its behaviours are unbounded. Two
changes of one lead in a second make a pair of twins, and in two seconds, or of two leads, none;
three faults break a subscription, fail its renewal or a fetch, and end the process. In `lifecycle`
two handlers are at different awaits when the connections go, two queries are on a pool that ends,
and a signal may come a second time. The numbers of `payload` are of every length `phone` tells
apart, among them one US number with its country code and without, and a foreign one with the same
last ten digits. Symmetry is declared only in runs without liveness.

Several properties are conditional, and the condition is the code's:

- `OneClaim`, `BoundedPosts`, `SentIsFinal` except the events in `history.leaky`: the key was
  gone (TTL, eviction) or Redis failed open, which `redis-dedup.ts:78` chooses on purpose. In
  `EventDelivery` this is the guard, which falls and never rises.
- `NoSilentLoss`, `Settles`, `LetsGo`, `ImplementsDelivery`: an event may end as `dropped`, when an
  exception left `process` or the process exited in mid-flight, and as `evicted`, when Redis dropped
  its live job. Nothing in the code takes such an event up again, or notices the second.
- `SubscribedAgain` excepts a subscription that Salesforce refused, and everything after the end of the
  token's session: the code neither sees the one nor does anything about the other.
- `DuplicateHasOriginal` excepts the events whose own key was taken for another's.
- `EventTimesKeepOrder` supposes that the earlier of two changes came with its `commitTimestamp`; the
  fallback of `pipeline.ts:109` is the time of the handler, which may be later than the next change. It
  compares the clock of the integration with Salesforce's, and takes them for one clock.
- `OnlyTwinsAreDropped` excepts an id whose own key was taken for another's, after Redis lost an
  answer. Two real changes of a lead in one second that mean the same event are twins; one of them
  is dropped, and not always the later. The event id has no more than the second to tell them apart
  (`pipeline.ts:115`).
- `PostsBounded` supposes a first retry delay of at least a second, as `env.ts` sets it.
- `NobodyOversleeps` allows the floor of the timer: who looks 9 ms before the refill sleeps 10.
- `CleanExitInterruptsNoCall` speaks of the stores, the worker and HTTP. Handlers that wait for
  Salesforce, for TikTok or for a connection of a pool are cut off: nothing in the shutdown waits for
  them. After a second signal the queries of the two pools may be cut off as well.
- `KeysIdentify` excepts foreign numbers of ten digits behind a '+', which `phone` takes for US
  numbers without a country code (`normalizer.ts:33`).
- `ScoreCoversKeys` is about the keys that count towards the score, so not the names, and excepts a
  plaintext id that is blank: it is sent and not scored.
- `OrphansNeedFaults`: a failed call or an exit between `create` and the end of `store` does leave a set
  nobody stored, and then it is in `forsaken`; what other requests do never has that effect.
- `HandedIsAlive` supposes that the exchange was answered within the window of one hour and
  the request did not itself outlast a token's life: this axios client has no timeout. One `AccessTTL`
  stands for the life of a token at TikTok and for the 24 h the client records.
- `ManualSelectionStands` allows the overwrite by a provision that listed before the chosen set
  existed. No code prevents that one.
- `RevokeWins` excepts what must be: after a revoke an authorization brings a token back, and so may a
  request that held the advertiser's token in memory when the row was gone (`racers`), by its upsert or
  by warming the cache. A revoke whose `DEL` failed has not ended: the route answers 500, and the cached
  token is served until its key ends.

### Fairness

`Pipeline`: weak fairness of each handler, slot, call and job step. Every await settles, because the
drivers and axios have timeouts and BullMQ's scheduler promotes delayed jobs and recovers stalled
ones. It asks for one step of the handler or call, never for success: a fair behaviour may fail
every send. In `CRMEventSetManager` every await settles, and Redis drops keys at the end of their TTL
(`Expire`). In `LeadEvents` the assumptions are that `connect` is answered and that the
CometD client of jsforce opens or renews its subscription while the token is good; none is made about
messages or fetches. `TikTokOAuth` has none. In
`RateLimiter` time passes and Node runs the callback of a timer that is due; nothing is assumed
about which of several callers comes first, so that `SomebodyPasses` holds, while a
single caller may lose every race, as in the code. In `ServerLifecycle` only the timer of the
shutdown is fair: `Stops` holds even if HTTP requests, jobs and handlers hang for ever. Nothing is
assumed of Salesforce, TikTok's recording, evictions, faults or exits, and nothing is strong.

## Where the code and what it says differ

Three runs find a counterexample, and are expected to:

| Run | Said | Done |
|---|---|---|
| `claim_RejectedIsNotRetried` | `README.md:459`: "400/401/403 from TikTok are never retried" | axios-retry does not, but `process` enqueues every failed send and the worker posts it again |
| `claim_CreatesOnlyTheFirst` | `crm-event-set-manager.ts:127`: "0 existing → create a new one" | the list is old by the time of the create: a set made meanwhile, in Events Manager as in the counterexample or by another provision, makes two |
| `claim_ResumesAfterLast` | `salesforce-cdc.ts:97`: "Track replay ID for durable subscriptions" | the id is tracked, but `subscribe` never passes it: what was committed meanwhile is skipped |

Further ones met while modelling, that the models contain or leave out by name, and no run is spent on:

- `redis-dedup.ts:52` calls a duplicate "already processed"; the key is set before any work and
  never taken back, so that after a failed insert redeliveries are turned away although nobody
  has the event (`LogPendingFails`).
- `proactive-refresher.ts:13` says the pipeline "never stalls due to an expired token"; a run skips
  a token with more than an hour left (line 77), and the next run is 23 hours later. `getValidToken`
  then refreshes on demand, which is why `HandedIsAlive` holds; and `server.ts:104` never starts the
  refresher.
- `tests/pipeline.test.ts:244` says that nothing is enqueued after a successful send; when the
  update to 'sent' rejects, `pipeline.ts:168` goes to the catch block and enqueues (`MarkSentFails`).
- `tests/pipeline.test.ts:270` says that a failed send is enqueued; when the update to 'failed'
  rejects, `pipeline.ts:182` throws first and it is not (`MarkFailedFails`).
- `README.md:470` speaks of a "durable queue that survives process restarts"; it survives those, but
  not the memory limit of its Redis, which may evict a live job (`EvictJob`). With `--appendonly
  yes` a Redis that ends may besides lose its last second of writes, which looks the same to the
  code.
- `salesforce-cdc.ts:17` says "Auto-reconnects on disconnection"; with the token of `_connect` only,
  so not after its session ended, and a subscription that is refused is never noticed (`Refuse`,
  `Expire`).
- `pipeline.ts:103` says the fallback to `Date.now()` should never happen; where it does, a change may
  get a later event time than the next one of the same lead.
- `README.md:57` lets a retried event end as sent; `retry-queue.ts:90` never updates the
  log, so a row stays 'failed' after its job was delivered.
- `event-set-routes.ts:31` speaks of the active set; `resolve` may answer with a cached one that
  was replaced while it was warming the cache (`crm-event-set-manager.ts:209`), for up to an hour.
- `crm-event-set-manager.ts:87` says a created set is stored immediately; the route stores it by
  `select`, whose `list` may fail after the creation (`event-set-routes.ts:127`).
- `oauth-routes.ts:12` says the callback provisions an event set; no code does.
- `oauth-routes.ts:20` says a revoke removes the tokens; a refresh under way inserts them
  again (`tiktok-oauth.ts:166`), and a reader under way caches them again (`token-store.ts:111`).
- `oauth-routes.ts:67` reads the state outside every `try`: an error of Redis is an unhandled rejection
  and ends the process (`ConsumeFails`). An exchange that covers several advertisers stores them one by
  one; a failure in the middle leaves the first of them authorized, and the code is spent.
- A query of `resolve` that fails is taken for an advertiser without a set, and its events go to the env
  variable's (`pipeline.ts:88`, `Fallback`).
- `fetchLead` reads the lead when its message is handled, so the payload may show a later status than
  the one its event is about (`salesforce-cdc.ts:118`).
- `README.md:82` counts the negative statuses among the filtered; `event-filter.ts:118` maps
  them to a `Purchase` event.
- `README.md:227` and `server.ts:140` speak of a graceful shutdown; it waits neither for a handler
  that is fetching nor for one that is sending, and closes the stores both need afterwards; a second
  signal makes it exit 0 while a query is still under way (`again`). Docker's own grace period of
  ten seconds is over before the 30 s timer (`Kill`), a signal during the bootstrap finds no handler
  (`Kill` in `"starting"`), and the pool of `server.ts` has no listener for the errors of its idle
  clients (`Crash`).
- `normalizer.ts:19` adds the US country code when none is given; a foreign number of ten digits
  behind a '+' gets it too, since the '+' is stripped first (`Misread`).
- `README.md:106` and `tests/match-rate.test.ts:5` weigh email, phone and ttclid with 35, 25 and 20, 80
  together and above 70; the code's 30, 20 and 15 make 65 (`Weight`).
- A blank `tiktok_lead_id` or `ttclid` is not scored, and is sent all the same; city, state, zip and
  country are hashed and not sent; the `value` and `currency` of a `Purchase` are never set.
- `salesforce-cdc.ts:112` handles the first of a message's `recordIds`; a bulk change of several
  leads has an event for one of them.
- `env.ts:56` accepts a rate below 1, with which no call ever gets a token, and line 55 a batch size of
  0, with which `batchEvents` would not end; nothing calls `batchEvents`.
- Without `TIKTOK_ACCESS_TOKEN` every send throws before it posts, since neither client has a token
  resolver (`tokenConfigured` in `Pipeline`).

## What is proved

Every safety invariant and every action property that a run checks is a theorem, and so is the
refinement. Each proof module proves its theorems for every value of the constants that the
assumptions of the module allow: any sets of events, handlers, slots, calls, advertisers, requests,
leads, words and changes, and any number of retries, attempts, faults, exits and seconds.

Every proof has the same form. The property is not inductive as it stands, so strengthenings are
defined beside it (in the module, or in its proof module where no run needs them). Their conjunction
is the inductive invariant: `FullInv` is checked by `pipeline_retries`, `Inv` by `event_sets` and by
`oauth_races`. The proof has a lemma per conjunct with a step per action that can disturb it. What a
group of actions does to one variable is a lemma of its own ("this step moves one request, and in
this form"), so that a conjunct about other variables need not look at the actions.

`PipelineProofs`, from `PipelineAssumption` (finite handlers and slots, natural bounds):

- `TypeCorrect`: `Spec => []TypeOK`, which includes the bounds on tries and attempts;
- `InvCorrect`: `Spec => []Inv`;
- `OneClaimCorrect`: while its key guards it, an event is won by one handler in all;
- `LoggedBeforeSentCorrect`: nothing is posted or queued without a row;
- `SentMeansReceivedCorrect`: a row says 'sent' only if TikTok recorded the event.

None of the three is inductive alone. `OneClaim` counts winners, and another could win if the key of
a won event were missing: `KeyGuards` says it is there unless the event leaked, and that whoever is
past the deduplication has won. `LoggedBeforeSent` looks at posts and jobs; both come from handlers
and calls that are past the insert, so `RowFirst` says that those have a row already.
`SentMeansReceived` reads the log, which `MarkSent` writes two awaits after TikTok answered:
`ReceivedFirst` carries the fact from the call's `recorded` flag to the handler at `markSent`. `Inv`
is their conjunction with `TypeOK`.

`PipelineDeliveryProofs`, on top of it, and from `EventAssumption` (no event is the mark of an idle
slot):

- `FullInvCorrect`: `Spec => []FullInv`;
- `NoSilentLossCorrect`: an event that was won is in somebody's hands, in a live job, at TikTok, a
  dead letter, dropped or evicted, whatever fails, stalls, exits and is delivered again;
- `PendingIsTransientCorrect`, `DuplicateHasOriginalCorrect`: what those rows may still say;
- `BoundedPostsCorrect`: the two retry layers, redeliveries and stalled reruns included, stay in one
  budget;
- `SentIsFinalCorrect`: the action property that no step takes back a 'sent';
- `ImplementsDeliveryCorrect`: `Spec => ImplementsDelivery`, the refinement of `EventDelivery`.

`NoSilentLoss` hands an event from a handler to a call, to a job, to a slot and to TikTok. The
strengthenings say that nothing gets lost in the handing over: a call is open exactly while its
caller awaits it (`CallsBelong`), nothing happens to an event nobody won (`ClaimedFirst`), a
completed job means an event received, a failed one a dead letter, and a hash that is left over one
of the two or an eviction (`JobTells`). `DuplicateHasOriginal` reads a row that was decided at the
key, so `KeyTells` carries the original along, and `RowTells` says what the row of an event in hand
can be, which `PendingIsTransient` and `SentIsFinal` need. `BoundedPosts` is a sum over executions
that overlap, because a job with a lost lock runs in two slots: `PostBudget` counts what an event
has posted and every request its open executions may still make (`Remaining`, a set of pairs of slot
and try, so that its cardinality is a budget), and says that both fit in `1 + Retries` for the
direct call and for each execution so far. A step that posts moves one pair from the second to the
first; `Take` adds an execution and its pairs. A job that was evicted may still run in a slot and
tells no more how often it ran: its budget is that of all its executions (`Lost`). The refinement
maps a state to one `life` per event (`LifeOf`); its proof has a lemma per part of a life (who holds
it, the wire, what arrived, the history), and `LifeStep` puts the parts of each step together into
one step of the contract, or none. The wire takes the most: a request is on it from `Post` until
TikTok records or refuses it, and giving up on the answer must leave it there.

`LeadEventsProofs`, from `ListenerAssumption` and `LeadEventsAssumption`. Of `CDCListener`:

- `TypeCorrect`: the loops never go past their last attempt, the subscription never past the stream;
- `HandedOnceCorrect`: no restart or renewal hands a change over twice;
- `ChangesAccountedCorrect`: every change that matters is ahead, in hand, handed, or lost for a
  reason.

The invariant splits the stream at `next`: nobody works on what is `Ahead`, and what is `Behind` was
either pushed or missed, never both. With that, `Message` cannot start a change over, a handler that
is fetching is not among the `events` (`EventsHanded`), and a change filtered once does not matter
now (`FilteredRightly`). Of `LeadEvents`:

- `LeadsFollowListener`: `LeadSpec => Spec`, `LeadEvents` implements `CDCListener`; the theorems
  above hold of it too;
- `OnlyTwinsCorrect`, `EventTimesCorrect`: the two properties of `LeadEvents`.

A duplicate needs a twin because behind every key there is an event that went through, or one that met
its own key (`KeysHaveOwners`), and equal ids are of equal lead, event and second. Event times are in
order because the commits are, a stamped event has the second of its commit, and one without a stamp
a time that is no earlier than any commit so far.

`CRMEventSetProofs`, from `EventSetAssumption`:

- `TypeCorrect`, and `InvCorrect`: `Spec => []Inv`;
- `ActiveBelongsCorrect`: a row, a cached value and what is about to be written are the advertiser's
  own;
- `RoutedToOwnCorrect`: the pipeline and the cache see only what a row has held, or the env
  fallback;
- `OrphansNeedFaultsCorrect`: a set made for this service is forgotten by a failure of the request that
  had it made, and by nothing else;
- `ManualSelectionStandsCorrect`: an automatic choice replaces a manual one only if it could not
  have seen it.

A cache entry is warmed from a row that may have changed since, so `StoredBelongs` speaks of all
that rows have held. `OrphansNeedFaults` asks for the request that carries the set to its store,
which must be of the right advertiser to get there (`MadeIsFollowed`). The action property looks at
the last step of a provision, and needs that what it is about to store is all it listed
(`AutomaticChoice`).

`TikTokOAuthProofs`, from `OAuthAssumption` (an access token outlives the window and is outlived by
its refresh token):

- `TypeCorrect`, and `InvCorrect`: `Spec => []Inv`;
- `StateIsOneTimeCorrect`: of overlapping callbacks with one state, one is accepted;
- `RevokeWinsCorrect`: a revoke leaves no token in either store, and but for an authorization only a
  request that held one at that moment brings it back;
- `HandedIsAliveCorrect`: what `getValidToken` hands out is alive at TikTok.

An accepted state is no longer stored and never drawn again (`StatesAreSpent`). A request with a
token of a revoked advertiser in hand is a racer or a callback (`RevokedIsQuiet`): others find both
stores empty, and only callbacks come with a token of their own (`GrantsAreCallbacks`).
`HandedIsAlive` compares the hour of the answer with the issue: a token from the stores has passed
`NeedsRefresh` at some hour of the request, and one on its way into them was issued since the
request began (`TokensAreFresh`).

`RateLimiterProofs`, from `LimiterAssumption`. One of its conjuncts, that a retry delay `RetryDelay
* 2 ^ n` is a natural number no smaller than `RetryDelay`, is plain arithmetic, for which the
provers would need an induction; TLC evaluates it for the values of the run. Another is that the
calls in progress are finitely many.

- `TypeCorrect`: no bucket goes below zero or above the rate, no post beyond its retries;
- `NobodyOversleepsCorrect`: whoever sleeps is due at the next refill, or later by the floor at most;
- `PostsBoundedCorrect`: the bound on all posts of the process in one period.

`NobodyOversleeps` is inductive with the types and `TimersMatch`, which says whose timers run: a
refill by somebody else makes the bucket younger, so the sum can only fall, and a tick takes from
the timer what it adds to the age. `PostsBounded` is about the last `Period` ticks. `GrantsBounded`
says it for the last `i` ticks, for every `i`: since its last refill a client has granted what is
missing in the bucket, and before that no more than a bucket within the period, so a refill, which
only comes when the bucket is `Period` old, finds at most a bucket in the window. `ResentBounded`
counts the retries by the calls that can have made them: one that pauses now made its last retry so
long ago as its delay, of a period at least, has run.

`ServerLifecycleProofs`, with no assumption:

- `TypeCorrect`: the states of the process, and the queue closed after the worker only;
- `CleanExitCorrect`: `exit(0)` interrupts no job, HTTP request or call a connection has taken, but for
  queries after a second signal;
- `RowsHoldCorrect`: a handler that loses its connections in any order, or waits for one in vain,
  neither sends without a row nor marks 'failed' what was not tried.

The first needs `Drained`: connections are left open until the requests are gone, nobody has a call on
one that is closed, and `exit(0)` comes after the last of them, the pools excepted if there was a second
signal. `Close` waits for the calls that were made, and `Calls` and `Serve` let no new one through a
closing connection, so this is kept. The second needs `RowFirst`, which places
each await before the send or after it.

`TikTokEventBuilderProofs`, from `BuilderAssumption` (phone numbers are sequences of digits):

- `OnlyDigestsCorrect`: personal data leave as digests only, of normalised values, under the keys of
  the API;
- `KeysIdentifyCorrect`: one person has one key however it is written, two numbers have two;
- `ScoreCoversKeysCorrect`: the score counts every key that is sent, but names and blank plaintext ids.

The invariant is that payload and score are those of the lead (`FromLead`); the rest is about the
functions. `PhoneIsMeant` is the heart of the second: the branches of `phone` on the length of the
digits all give the number that was meant, unless it is misread. `KeysAreSignals` is that of the
third: a field whose normalised value is sent had a raw one.

Only model-checked, because the prover handles neither fairness nor ENABLED: the liveness properties
`Settles`, `LetsGo`, `CacheConverges`, `SomebodyPasses`, `SubscribedAgain` and `Stops`. The three
counterexamples above are TLC's as well.

## Not modelled

- `EventLog.withTransaction`, `EventDeduplicator.filterDuplicates`, `batchEvents`: nothing calls them.
- The other records of a CDC message, and a message without a header or record id: the code drops them
  at once.
- The BullMQ worker's own limiter, which is the library's (`retry-queue.ts:106`): it can only make the
  worker slower, and `PostsBounded` does without it.
- The list, status, health and metrics routes, and `findByLeadId`: they read.
- `verifyState`, which compares a state with the key it was found under; `ProactiveRefresher.stop`,
  which clears a timer that is never started.
- Migrations, environment, logging, the DNS workaround, types: declarations and I/O. The UNIQUE
  constraint on `event_id` and the variables of `env.ts` appear as guards and constants.
- A Redis or Postgres that is restored from an older snapshot, and with it keys, jobs and rows that had
  gone. What Redis may lose of its last second when it ends looks like evictions.
- A message that Salesforce delivers twice: to the listener it is a change of its own; what it means for
  the event is `Deliver` in `Pipeline`, which delivers an event as often as the bound allows.
- Route handlers that outlive their HTTP connection: in `ServerLifecycle` a request ends with it.
- Collisions of SHA-256, and time zones: an event id stands for the (lead, event name, second) it is
  the hash of.

## Plan

1. *Done.* The core: the four operation modules, `Pipeline`, its proofs; `CRMEventSetManager`,
   `TikTokOAuth`, `EventFilter`, `CDCListener`.
2. *Done.* `EventDelivery` and the refinement; `LeadEvents`; `ServerLifecycle`; `RateLimiter` with both
   clients and the retries that pass it by; enrichment, normalizer and payload; exits in the event-set
   and OAuth modules; the proofs about listener, leads, limiter and lifecycle.
3. *Done.* Proofs of all safety invariants and action properties: the rest of `Pipeline` and its
   refinement, `PostsBounded`, `CRMEventSetManager`, `TikTokOAuth` and `TikTokEventBuilder`.
4. *Done.* What Redis may evict besides keys, the session of Salesforce's token, a failing Redis and
   missing time stamps in `LeadEvents`, the floor of the limiter's timer, the second signal and the
   pools' queues, revokes with racing requests, orphans by the request that left them.
5. Left: an abstract specification of the event sets (an advertiser's active set, without cache and
   table) and of the token store, with the refinement checked and proved, as `EventDelivery` does
   for the pipeline; the safety core of the liveness arguments, such as that a state in which
   nothing of an event can move is one in which it is settled; shorter proofs where several lemmas
   share a case analysis.
