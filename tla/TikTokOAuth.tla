----------------------------- MODULE TikTokOAuth -----------------------------
(***************************************************************************)
(* The OAuth tokens of the advertisers: TikTokOAuthClient and TokenStore   *)
(* behind the /auth routes, getValidToken and the ProactiveRefresher.      *)
(*                                                                         *)
(* A token is known by the hour TikTok issued it, which with AccessTTL     *)
(* says when it really dies; the row carries the expiry the client worked  *)
(* out from its own clock (stamp).  A request is one activation of a       *)
(* handler; pc is the await it is suspended at and since the hour it       *)
(* began.  Nothing bounds how long a request takes: axios has no timeout   *)
(* here, so the clock may run on while a request waits.                    *)
(***************************************************************************)
EXTENDS Integers, FiniteSets

CONSTANTS Advertisers, Requests,
          None,
          States,            \* OAuth state tokens generateStateToken may draw
          AccessTTL, RefreshTTL,
          Window,            \* a token is refreshed this long before its end
          Interval,          \* intervalMs of the ProactiveRefresher
          RefresherStarted,  \* server.ts:104 has the call commented out
          MaxTime,           \* bound: hours in a behaviour
          MaxRequests,       \* bound: requests in a behaviour
          MaxFaults          \* bound: rejected calls to TikTok, Postgres, Redis; exits

ASSUME OAuthAssumption ==
  /\ AccessTTL \in Nat /\ RefreshTTL \in Nat /\ Window \in Nat
  /\ Interval \in Nat \ {0}
  /\ Window < AccessTTL /\ AccessTTL <= RefreshTTL
  /\ RefresherStarted \in BOOLEAN
  /\ MaxTime \in Nat /\ MaxRequests \in Nat /\ MaxFaults \in Nat

VARIABLES now,
          row,               \* table tiktok_oauth_tokens
          cache,             \* Redis: tiktok:token:<advertiser>
          states,            \* Redis: tiktok:oauth:state:<state>
          drawn,             \* states generated so far
          req,               \* the requests in flight
          due, nextRun,      \* the refresher: left to do in this run; its timer
          requests, faults,
          accepted,          \* history: callbacks that passed with a state
          handed,            \* history: the last answer of getValidToken
          revoked,           \* history: advertisers that stay revoked, see RevokeWins
          racers             \* history: requests that held a token of theirs when it was revoked

refresher == <<due, nextRun>>
history == <<accepted, handed, revoked, racers>>
vars == <<now, row, cache, states, drawn, req, refresher, requests, faults, history>>

Hours == 0 .. MaxTime

Token == [issued : Hours, stamp : Hours]

Expiry(t) == t.stamp + AccessTTL            \* column access_token_expires_at
RefreshExpiry(t) == t.stamp + RefreshTTL    \* column refresh_token_expires_at

Kinds == {"callback", "valid", "refresh", "proactive", "revoke"}

Awaits == {"getdel", "exchange", "getCache", "delStale", "getRow", "rewarm",
           "getStored", "refresh", "upsert", "cacheToken", "delete", "del"}

NoRequest == [pc |-> "none", kind |-> "none", adv |-> None, todo |-> {}, state |-> None,
              token |-> None, asked |-> 0, since |-> 0]

\* adv: the advertiser the request is at work on; todo: those of a callback's
\* grant that are still to come; token: the one it read or got; asked: the "now"
\* refreshAccessToken took before it asked TikTok.
Request == [pc : Awaits, kind : Kinds, adv : Advertisers \cup {None}, todo : SUBSET Advertisers,
            state : States \cup {None}, token : Token \cup {None},
            asked : Hours, since : Hours]

TypeOK ==
  /\ now \in Hours
  /\ row \in [Advertisers -> Token \cup {None}]
  /\ cache \in [Advertisers -> Token \cup {None}]
  /\ states \in SUBSET States
  /\ drawn \in SUBSET States
  /\ req \in [Requests -> Request \cup {NoRequest}]
  /\ due \in SUBSET Advertisers
  /\ nextRun \in Nat
  /\ requests \in 0 .. MaxRequests
  /\ faults \in 0 .. MaxFaults
  /\ accepted \in [States -> Nat]
  /\ handed \in [token : Token, since : Hours, at : Hours] \cup {None}
  /\ revoked \in SUBSET Advertisers
  /\ racers \in SUBSET Requests

Init ==
  /\ now = 0
  /\ row = [a \in Advertisers |-> None]
  /\ cache = [a \in Advertisers |-> None]
  /\ states = {}
  /\ drawn = {}
  /\ req = [r \in Requests |-> NoRequest]
  /\ due = {}
  /\ nextRun = 0
  /\ requests = 0
  /\ faults = 0
  /\ accepted = [s \in States |-> 0]
  /\ handed = None
  /\ revoked = {}
  /\ racers = {}

-----------------------------------------------------------------------------
At(r, await) == req[r].pc = await

For(r, a) == req[r].adv = a

Goto(r, await) == req' = [req EXCEPT ![r].pc = await]
GotoWith(r, await, t) == req' = [req EXCEPT ![r].pc = await, ![r].token = t]
Reply(r) == req' = [req EXCEPT ![r] = NoRequest]

Fault == faults < MaxFaults /\ faults' = faults + 1
NoFault == UNCHANGED faults

SetRow(a, t) == row' = [row EXCEPT ![a] = t]
SetCache(a, t) == cache' = [cache EXCEPT ![a] = t]

\* getValidToken returns t to its caller; the refresher and the refresh route
\* do not use what they get.
Return(r, t) ==
  handed' = IF req[r].kind = "valid" THEN [token |-> t, since |-> req[r].since, at |-> now]
            ELSE handed

\* Mutant of NeedsRefresh: no hour in hand.
NeedsRefreshTooLate(t) == Expiry(t) <= now

\* needsRefresh: within the hour, by the recorded expiry.
NeedsRefresh(t) == Expiry(t) <= now + Window

\* The advertisers with a refresh token that lives: the WHERE of the queries.
Active == {a \in Advertisers : row[a] # None /\ RefreshExpiry(row[a]) > now}

\* What getValidToken and refreshAll do with an active token.
Use(r, t) ==
  IF NeedsRefresh(t) THEN Goto(r, "getStored") /\ UNCHANGED handed
  ELSE Reply(r) /\ Return(r, t)

Untimed == UNCHANGED <<now, states, drawn, refresher, requests, accepted, racers>>

-----------------------------------------------------------------------------
\* The OAuth flow: GET /auth/tiktok and its callback.

\* A random state is drawn and stored; storeState may fail.
Initiate(s) ==
  /\ s \notin drawn
  /\ drawn' = drawn \cup {s}
  /\ \/ states' = states \cup {s} /\ (NoFault \/ Fault)
     \/ UNCHANGED states /\ Fault
  /\ UNCHANGED <<now, row, cache, req, refresher, requests, history>>

ExpireState(s) ==
  /\ s \in states
  /\ states' = states \ {s}
  /\ UNCHANGED <<now, row, cache, drawn, req, refresher, requests, faults, history>>

Begin(r, kind, await, a, s) ==
  /\ At(r, "none")
  /\ requests < MaxRequests
  /\ requests' = requests + 1
  /\ req' = [req EXCEPT ![r] = [pc |-> await, kind |-> kind, adv |-> a, todo |-> {}, state |-> s,
                                token |-> None, asked |-> 0, since |-> now]]
  /\ racers' = racers \ {r}
  /\ UNCHANGED <<now, row, cache, states, drawn, faults, accepted, handed, revoked>>

\* The browser may bring a state more than once, and one that has expired.
Callback(r, s) == Begin(r, "callback", "getdel", None, s) /\ UNCHANGED refresher

\* Mutant of ConsumeState: GET for GETDEL.
ReadState(r) ==
  /\ At(r, "getdel")
  /\ IF req[r].state \in states
     THEN /\ Goto(r, "exchange")
          /\ accepted' = [accepted EXCEPT ![req[r].state] = @ + 1]
     ELSE Reply(r) /\ UNCHANGED accepted
  /\ UNCHANGED <<now, row, cache, states, drawn, refresher, requests, faults, handed, revoked, racers>>

\* GETDEL: of the callbacks that bring a state one finds it.
ConsumeState(r) ==
  /\ At(r, "getdel")
  /\ IF req[r].state \in states
     THEN /\ Goto(r, "exchange")
          /\ states' = states \ {req[r].state}
          /\ accepted' = [accepted EXCEPT ![req[r].state] = @ + 1]
     ELSE Reply(r) /\ UNCHANGED <<states, accepted>>
  /\ UNCHANGED <<now, row, cache, drawn, refresher, requests, faults, handed, revoked, racers>>

\* The process exits with everything in flight, each request with its last call
\* answered or not; docker starts it again, and the refresher runs at once.
Restart ==
  /\ Fault
  /\ req' = [r \in Requests |-> NoRequest]
  /\ due' = {}
  /\ nextRun' = now
  /\ UNCHANGED <<now, row, cache, drawn, requests, history>>

Exit == Restart /\ UNCHANGED states

\* GETDEL rejects outside any try: an unhandled rejection ends the process,
\* whether the state was consumed or not.
ConsumeFails(r) ==
  /\ At(r, "getdel")
  /\ Restart
  /\ states' = states \/ states' = states \ {req[r].state}

\* The grant covers some advertisers; TikTok issued the token at some hour
\* since the request began, the client stamps it when the answer is there.
Exchange(r, ids, issued) ==
  /\ At(r, "exchange")
  /\ issued \in req[r].since .. now
  /\ \E a \in ids :
       req' = [req EXCEPT ![r].pc = "upsert", ![r].adv = a, ![r].todo = ids \ {a},
                          ![r].token = [issued |-> issued, stamp |-> now]]
  /\ NoFault
  /\ UNCHANGED <<row, cache, handed, revoked>> /\ Untimed

-----------------------------------------------------------------------------
\* TokenStore.upsert, one advertiser after the other.

\* A request that may end a revocation writes a token of a.
Revives(r, a) ==
  revoked' = IF req[r].kind = "callback" \/ r \in racers THEN revoked \ {a} ELSE revoked

Upsert(r, a) ==
  /\ At(r, "upsert")
  /\ For(r, a)
  /\ SetRow(a, req[r].token)
  /\ Revives(r, a)
  /\ UNCHANGED <<cache, handed>> /\ Untimed
  /\ \/ Goto(r, "cacheToken") /\ NoFault
     \/ Reply(r) /\ Fault

\* The INSERT rejects without having run: the rest of the grant is not stored.
UpsertFails(r) ==
  /\ At(r, "upsert")
  /\ Fault
  /\ Reply(r)
  /\ UNCHANGED <<row, cache, handed, revoked>> /\ Untimed

\* cacheToken swallows what Redis throws.
CacheToken(r, a) ==
  /\ At(r, "cacheToken")
  /\ For(r, a)
  /\ \/ SetCache(a, req[r].token) /\ NoFault
     \/ UNCHANGED cache /\ Fault
  /\ IF req[r].todo # {}
     THEN /\ \E b \in req[r].todo :
               req' = [req EXCEPT ![r].pc = "upsert", ![r].adv = b, ![r].todo = @ \ {b}]
          /\ UNCHANGED handed
     ELSE Reply(r) /\ Return(r, req[r].token)
  /\ Revives(r, a)
  /\ UNCHANGED row /\ Untimed

-----------------------------------------------------------------------------
\* getActiveToken.

Valid(r, a) == Begin(r, "valid", "getCache", a, None) /\ UNCHANGED refresher

CacheHit(r, a) ==
  /\ At(r, "getCache")
  /\ For(r, a)
  /\ cache[a] # None
  /\ IF Expiry(cache[a]) <= now
     THEN Goto(r, "delStale") /\ UNCHANGED handed
     ELSE Use(r, cache[a])
  /\ NoFault
  /\ UNCHANGED <<row, cache, revoked>> /\ Untimed

CacheMiss(r, a) ==
  /\ At(r, "getCache")
  /\ For(r, a)
  /\ (cache[a] = None /\ NoFault) \/ Fault
  /\ Goto(r, "getRow")
  /\ UNCHANGED <<row, cache, handed, revoked>> /\ Untimed

\* By now the key may hold another token than the expired one.
DelStale(r, a) ==
  /\ At(r, "delStale")
  /\ For(r, a)
  /\ \/ SetCache(a, None) /\ NoFault
     \/ UNCHANGED cache /\ Fault
  /\ Goto(r, "getRow")
  /\ UNCHANGED <<row, handed, revoked>> /\ Untimed

\* SELECT ... WHERE refresh_token_expires_at > NOW(); a live access token goes
\* back into the cache first.
RowFound(r, a) ==
  /\ At(r, "getRow")
  /\ For(r, a)
  /\ a \in Active
  /\ IF Expiry(row[a]) > now
     THEN GotoWith(r, "rewarm", row[a]) /\ UNCHANGED handed
     ELSE Use(r, row[a])
  /\ NoFault
  /\ UNCHANGED <<row, cache, revoked>> /\ Untimed

RowMissing(r, a) ==
  /\ At(r, "getRow")
  /\ For(r, a)
  /\ (a \notin Active /\ NoFault) \/ Fault
  /\ Reply(r)
  /\ UNCHANGED <<row, cache, handed, revoked>> /\ Untimed

Rewarm(r, a) ==
  /\ At(r, "rewarm")
  /\ For(r, a)
  /\ \/ SetCache(a, req[r].token) /\ NoFault
     \/ UNCHANGED cache /\ Fault
  /\ Use(r, req[r].token)
  /\ Revives(r, a)
  /\ UNCHANGED row /\ Untimed

-----------------------------------------------------------------------------
\* refreshAccessToken.

PostRefresh(r, a) == Begin(r, "refresh", "getStored", a, None) /\ UNCHANGED refresher

\* A row with a live refresh token; asked is taken before TikTok is.
StoredFound(r, a) ==
  /\ At(r, "getStored")
  /\ For(r, a)
  /\ a \in Active
  /\ req' = [req EXCEPT ![r].pc = "refresh", ![r].token = row[a], ![r].asked = now]
  /\ NoFault
  /\ UNCHANGED <<row, cache, handed, revoked>> /\ Untimed

StoredMissing(r, a) ==
  /\ At(r, "getStored")
  /\ For(r, a)
  /\ (a \notin Active /\ NoFault) \/ Fault
  /\ Reply(r)
  /\ UNCHANGED <<row, cache, handed, revoked>> /\ Untimed

\* Mutant of StampOf: the life of the token is added here as well.
StampTwice(r) == req[r].asked + AccessTTL

\* The stamp recorded with a refreshed token: the time before the request.
StampOf(r) == req[r].asked

Refresh(r, issued) ==
  /\ At(r, "refresh")
  /\ issued \in req[r].asked .. now
  /\ GotoWith(r, "upsert", [issued |-> issued, stamp |-> StampOf(r)])
  /\ NoFault
  /\ UNCHANGED <<row, cache, handed, revoked>> /\ Untimed

\* TikTok refuses or cannot be reached, at the exchange or at the refresh.
TikTokFails(r) ==
  /\ req[r].pc \in {"exchange", "refresh"}
  /\ Fault
  /\ Reply(r)
  /\ UNCHANGED <<row, cache, handed, revoked>> /\ Untimed

-----------------------------------------------------------------------------
\* revoke: the row first, then the key.

PostRevoke(r, a) == Begin(r, "revoke", "delete", a, None) /\ UNCHANGED refresher

Delete(r, a) ==
  /\ At(r, "delete")
  /\ For(r, a)
  /\ SetRow(a, None)
  /\ \/ Goto(r, "del") /\ NoFault
     \/ Reply(r) /\ Fault
  /\ UNCHANGED <<cache, handed, revoked>> /\ Untimed

\* Has the request read a token of its advertiser, or got one, that it may still write?
Holds(q) == req[q].pc \in {"rewarm", "refresh", "upsert", "cacheToken"}

\* The revoke is done: who holds a token of a at this moment is a racer.
Revoked(r, a) ==
  /\ racers' = {q \in Requests : IF For(q, a) THEN q # r /\ Holds(q) ELSE q \in racers}
  /\ revoked' = IF row[a] = None THEN revoked \cup {a} ELSE revoked

\* Mutant of Del: another key is deleted.
DelOtherKey(r, a) ==
  /\ At(r, "del")
  /\ For(r, a)
  /\ Reply(r)
  /\ Revoked(r, a)
  /\ NoFault
  /\ UNCHANGED <<now, row, cache, states, drawn, refresher, requests, accepted, handed>>

Del(r, a) ==
  /\ At(r, "del")
  /\ For(r, a)
  /\ SetCache(a, None)
  /\ Reply(r)
  /\ Revoked(r, a)
  /\ NoFault
  /\ UNCHANGED <<now, row, states, drawn, refresher, requests, accepted, handed>>

\* DELETE or DEL rejects; the route answers 500 and what was done stays done.
RevokeFails(r) ==
  /\ req[r].pc \in {"delete", "del"}
  /\ Fault
  /\ Reply(r)
  /\ UNCHANGED <<row, cache, handed, revoked>> /\ Untimed

-----------------------------------------------------------------------------
\* The ProactiveRefresher, the cache's TTL and the clock.

RefreshAll ==
  /\ RefresherStarted
  /\ nextRun <= now
  /\ due' = Active
  /\ nextRun' = now + Interval
  /\ UNCHANGED <<now, row, cache, states, drawn, req, requests, faults, history>>

RefreshOne(r, a) ==
  /\ a \in due
  /\ due' = due \ {a}
  /\ Begin(r, "proactive", "getCache", a, None)
  /\ UNCHANGED nextRun

Expire(a) ==
  /\ cache[a] # None
  /\ SetCache(a, None)
  /\ UNCHANGED <<now, row, states, drawn, req, refresher, requests, faults, history>>

\* The refresher's timer fires on time.
Tick ==
  /\ now < MaxTime
  /\ now' = now + 1
  /\ RefresherStarted => nextRun > now
  /\ UNCHANGED <<row, cache, states, drawn, req, refresher, requests, faults, history>>

RequestStep(r) ==
  \/ ConsumeState(r) \/ ConsumeFails(r)
  \/ \E ids \in SUBSET Advertisers \ {{}}, issued \in Hours : Exchange(r, ids, issued)
  \/ \E issued \in Hours : Refresh(r, issued)
  \/ TikTokFails(r) \/ UpsertFails(r) \/ RevokeFails(r)
  \/ \E a \in Advertisers :
       \/ Upsert(r, a) \/ CacheToken(r, a)
       \/ CacheHit(r, a) \/ CacheMiss(r, a) \/ DelStale(r, a)
       \/ RowFound(r, a) \/ RowMissing(r, a) \/ Rewarm(r, a)
       \/ StoredFound(r, a) \/ StoredMissing(r, a)
       \/ Delete(r, a) \/ Del(r, a)

Arrive(r) ==
  \/ \E s \in States : Callback(r, s)
  \/ \E a \in Advertisers :
       Valid(r, a) \/ PostRefresh(r, a) \/ PostRevoke(r, a) \/ RefreshOne(r, a)

Next ==
  \/ \E r \in Requests : RequestStep(r) \/ Arrive(r)
  \/ \E s \in States : Initiate(s) \/ ExpireState(s)
  \/ \E a \in Advertisers : Expire(a)
  \/ RefreshAll
  \/ Tick
  \/ Exit

Spec == Init /\ [][Next]_vars

-----------------------------------------------------------------------------
\* Safety.

\* The token getValidToken returns is still good at TikTok, whatever was
\* refreshed, cached or overwritten meanwhile, provided the client stamped it
\* late by no more than the window (the answer to the exchange was that slow)
\* and the request itself did not outlast a token's life.
HandedIsAlive ==
  handed # None =>
    LET t == handed.token
        lag == IF t.stamp > t.issued THEN t.stamp - t.issued ELSE 0
    IN  lag <= Window /\ handed.at - handed.since < AccessTTL =>
          t.issued + AccessTTL > handed.at

\* A state is accepted once, whoever brings it how often and however the
\* callbacks overlap.
StateIsOneTime == \A s \in States : accepted[s] <= 1

\* A revoke that ends with the row still gone takes the token out of both stores for
\* good: but for an authorization, only a request that held the token in memory at
\* that moment can bring one back, by its upsert, its re-warming or its caching.  One
\* that had begun, and had not read yet, cannot.
RevokeWins == \A a \in revoked : row[a] = None /\ cache[a] = None

-----------------------------------------------------------------------------
\* Strengthenings that make the safety properties inductive.

\* A state that was accepted is spent: drawn, and no longer stored.
StatesAreSpent ==
  /\ states \subseteq drawn
  /\ \A s \in States : accepted[s] > 0 => s \in drawn \ states

\* Only a callback exchanges a code, and only its grant covers several advertisers.
GrantsAreCallbacks ==
  \A r \in Requests :
    req[r].pc \in {"getdel", "exchange"} \/ req[r].todo # {} => req[r].kind = "callback"

\* A token on its way into the stores was issued since its request began.
TokensAreFresh ==
  \A r \in Requests :
    /\ req[r].since <= now
    /\ At(r, "refresh") => req[r].asked >= req[r].since
    /\ At(r, "rewarm") => req[r].token \in Token
    /\ req[r].pc \in {"upsert", "cacheToken"} =>
         req[r].token \in Token /\ req[r].token.issued >= req[r].since

\* A request for a revoked advertiser that holds a token is a racer or a callback.
RevokedIsQuiet ==
  \A r \in Requests :
    req[r].adv \in revoked /\ Holds(r) => r \in racers \/ req[r].kind = "callback"

Inv ==
  /\ TypeOK
  /\ StateIsOneTime /\ RevokeWins /\ HandedIsAlive
  /\ StatesAreSpent /\ GrantsAreCallbacks /\ TokensAreFresh /\ RevokedIsQuiet

=============================================================================
