-------------------------- MODULE TikTokOAuthProofs --------------------------
(***************************************************************************)
(* Proofs about TikTokOAuth: a state is accepted once, a revoke is undone  *)
(* only by a request that held the token then, and the token getValidToken *)
(* hands out is alive, for any number of advertisers and requests, any     *)
(* lives of the tokens, and any hour, with the refresher on or off.        *)
(***************************************************************************)
EXTENDS TikTokOAuth, FiniteSetTheorems, TLAPS

(***************************************************************************)
(* How a request moves on.                                                 *)
(***************************************************************************)
\* The request goes to another await; its kind, state and start stay.
Moved(r, await, a, todo, t, asked) ==
  req' = [req EXCEPT ![r] = [pc |-> await, kind |-> req[r].kind, adv |-> a, todo |-> todo,
                             state |-> req[r].state, token |-> t, asked |-> asked,
                             since |-> req[r].since]]

LEMMA RequestType ==
  ASSUME TypeOK, NEW r \in Requests
  PROVE  /\ req[r] \in Request <=> req[r].pc # "none"
         /\ req[r].pc = "none" => req[r] = NoRequest
         /\ NoRequest.pc = "none" /\ NoRequest.adv = None /\ NoRequest.todo = {} /\ NoRequest.since = 0
BY DEF TypeOK, Request, NoRequest, Awaits

\* The ways the code moves a request, in one form.
LEMMA MovesOn ==
  ASSUME TypeOK, NEW r \in Requests, req[r].pc # "none",
         NEW await, NEW a, NEW todo, NEW t, NEW asked
  PROVE  /\ Goto(r, await) => Moved(r, await, req[r].adv, req[r].todo, req[r].token, req[r].asked)
         /\ GotoWith(r, await, t) => Moved(r, await, req[r].adv, req[r].todo, t, req[r].asked)
         /\ req' = [req EXCEPT ![r].pc = await, ![r].adv = a, ![r].todo = todo, ![r].token = t] =>
              Moved(r, await, a, todo, t, req[r].asked)
         /\ req' = [req EXCEPT ![r].pc = await, ![r].adv = a, ![r].todo = todo] =>
              Moved(r, await, a, todo, req[r].token, req[r].asked)
         /\ req' = [req EXCEPT ![r].pc = await, ![r].token = t, ![r].asked = asked] =>
              Moved(r, await, req[r].adv, req[r].todo, t, asked)
<1>1. req[r] \in Request /\ req \in [Requests -> Request \cup {NoRequest}]
  BY RequestType DEF TypeOK
<1> QED
  BY <1>1 DEF Goto, GotoWith, Moved, Request

\* The request goes to another await and keeps the rest.
Goes(r, await) == Moved(r, await, req[r].adv, req[r].todo, req[r].token, req[r].asked)

\* Every step of a request, and where it goes.
LEMMA RequestMoves ==
  ASSUME TypeOK, NEW r \in Requests, RequestStep(r)
  PROVE  /\ req[r].pc # "none"
         /\ \/ Reply(r)
            \/ ConsumeFails(r)
            \/ ConsumeState(r) /\ Goes(r, "exchange")
            \/ \E ids \in SUBSET Advertisers, a \in Advertisers, issued \in Hours :
                 /\ Exchange(r, ids, issued)
                 /\ Moved(r, "upsert", a, ids \ {a}, [issued |-> issued, stamp |-> now], req[r].asked)
            \/ \E issued \in Hours :
                 /\ Refresh(r, issued)
                 /\ Moved(r, "upsert", req[r].adv, req[r].todo,
                          [issued |-> issued, stamp |-> req[r].asked], req[r].asked)
            \/ \E a \in Advertisers :
                 /\ For(r, a)
                 /\ \/ Upsert(r, a) /\ Goes(r, "cacheToken")
                    \/ \E b \in req[r].todo :
                         /\ CacheToken(r, a)
                         /\ Moved(r, "upsert", b, req[r].todo \ {b}, req[r].token, req[r].asked)
                    \/ CacheHit(r, a) /\ Goes(r, "delStale")
                    \/ (CacheMiss(r, a) \/ DelStale(r, a)) /\ Goes(r, "getRow")
                    \/ /\ RowFound(r, a)
                       /\ Moved(r, "rewarm", req[r].adv, req[r].todo, row[a], req[r].asked)
                    \/ (CacheHit(r, a) \/ RowFound(r, a) \/ Rewarm(r, a)) /\ Goes(r, "getStored")
                    \/ /\ StoredFound(r, a)
                       /\ Moved(r, "refresh", req[r].adv, req[r].todo, row[a], now)
                    \/ Delete(r, a) /\ Goes(r, "del")
<1>1. req[r].pc # "none"
  BY DEF RequestStep, ConsumeState, ConsumeFails, Exchange, Refresh, TikTokFails, UpsertFails,
     RevokeFails, Upsert, CacheToken, CacheHit, CacheMiss, DelStale, RowFound, RowMissing, Rewarm,
     StoredFound, StoredMissing, Delete, Del, At
<1>2. ConsumeState(r) => Reply(r) \/ Goes(r, "exchange")
  BY <1>1, MovesOn DEF ConsumeState, Goes
<1>3. ASSUME NEW ids \in SUBSET Advertisers, NEW issued \in Hours, Exchange(r, ids, issued)
      PROVE  \E a \in Advertisers :
               Moved(r, "upsert", a, ids \ {a}, [issued |-> issued, stamp |-> now], req[r].asked)
  BY <1>1, <1>3, MovesOn DEF Exchange
<1>4. ASSUME NEW issued \in Hours, Refresh(r, issued)
      PROVE  Moved(r, "upsert", req[r].adv, req[r].todo, [issued |-> issued, stamp |-> req[r].asked], req[r].asked)
  BY <1>1, <1>4, MovesOn DEF Refresh, StampOf
<1>5. TikTokFails(r) \/ UpsertFails(r) \/ RevokeFails(r) => Reply(r)
  BY DEF TikTokFails, UpsertFails, RevokeFails
<1>6. ASSUME NEW a \in Advertisers PROVE Upsert(r, a) => Reply(r) \/ Goes(r, "cacheToken")
  BY <1>1, MovesOn DEF Upsert, Goes
<1>7. ASSUME NEW a \in Advertisers, CacheToken(r, a)
      PROVE  Reply(r) \/ \E b \in req[r].todo : Moved(r, "upsert", b, req[r].todo \ {b}, req[r].token, req[r].asked)
  <2>1. CASE req[r].todo = {}
    BY <1>7, <2>1 DEF CacheToken
  <2>2. CASE req[r].todo # {}
    <3>1. PICK b \in req[r].todo :
            req' = [req EXCEPT ![r].pc = "upsert", ![r].adv = b, ![r].todo = @ \ {b}]
      BY <1>7, <2>2 DEF CacheToken
    <3>2. Moved(r, "upsert", b, req[r].todo \ {b}, req[r].token, req[r].asked)
      BY <1>1, <3>1, MovesOn
    <3> QED
      BY <3>2
  <2> QED
    BY <2>1, <2>2
<1>8. ASSUME NEW a \in Advertisers, NEW t, Use(r, t) PROVE Reply(r) \/ Goes(r, "getStored")
  BY <1>1, <1>8, MovesOn DEF Use, Goes
<1>9. ASSUME NEW a \in Advertisers, CacheHit(r, a)
      PROVE  Reply(r) \/ Goes(r, "delStale") \/ Goes(r, "getStored")
  BY <1>1, <1>8, <1>9, MovesOn DEF CacheHit, Goes
<1>10. ASSUME NEW a \in Advertisers, CacheMiss(r, a) \/ DelStale(r, a) PROVE Goes(r, "getRow")
  BY <1>1, <1>10, MovesOn DEF CacheMiss, DelStale, Goes
<1>11. ASSUME NEW a \in Advertisers, RowFound(r, a)
       PROVE  \/ Reply(r) \/ Goes(r, "getStored")
              \/ Moved(r, "rewarm", req[r].adv, req[r].todo, row[a], req[r].asked)
  BY <1>1, <1>8, <1>11, MovesOn DEF RowFound
<1>12. ASSUME NEW a \in Advertisers, Rewarm(r, a) PROVE Reply(r) \/ Goes(r, "getStored")
  BY <1>8, <1>12 DEF Rewarm
<1>13. ASSUME NEW a \in Advertisers, StoredFound(r, a)
       PROVE  Moved(r, "refresh", req[r].adv, req[r].todo, row[a], now)
  BY <1>1, <1>13, MovesOn DEF StoredFound
<1>14. ASSUME NEW a \in Advertisers, Delete(r, a) PROVE Reply(r) \/ Goes(r, "del")
  BY <1>1, <1>14, MovesOn DEF Delete, Goes
<1>15. ASSUME NEW a \in Advertisers, RowMissing(r, a) \/ StoredMissing(r, a) \/ Del(r, a) PROVE Reply(r)
  BY <1>15 DEF RowMissing, StoredMissing, Del
<1>16. ASSUME NEW a \in Advertisers,
              \/ Upsert(r, a) \/ CacheToken(r, a) \/ CacheHit(r, a) \/ CacheMiss(r, a)
              \/ DelStale(r, a) \/ RowFound(r, a) \/ Rewarm(r, a) \/ StoredFound(r, a) \/ Delete(r, a)
       PROVE  For(r, a)
  BY <1>16 DEF Upsert, CacheToken, CacheHit, CacheMiss, DelStale, RowFound, Rewarm, StoredFound, Delete
<1> DEFINE Step(a) == \/ Upsert(r, a) /\ Goes(r, "cacheToken")
                      \/ \E b \in req[r].todo :
                           /\ CacheToken(r, a)
                           /\ Moved(r, "upsert", b, req[r].todo \ {b}, req[r].token, req[r].asked)
                      \/ CacheHit(r, a) /\ Goes(r, "delStale")
                      \/ (CacheMiss(r, a) \/ DelStale(r, a)) /\ Goes(r, "getRow")
                      \/ /\ RowFound(r, a)
                         /\ Moved(r, "rewarm", req[r].adv, req[r].todo, row[a], req[r].asked)
                      \/ (CacheHit(r, a) \/ RowFound(r, a) \/ Rewarm(r, a)) /\ Goes(r, "getStored")
                      \/ /\ StoredFound(r, a)
                         /\ Moved(r, "refresh", req[r].adv, req[r].todo, row[a], now)
                      \/ Delete(r, a) /\ Goes(r, "del")
<1>17. ASSUME NEW a \in Advertisers,
              \/ Upsert(r, a) \/ CacheToken(r, a) \/ CacheHit(r, a) \/ CacheMiss(r, a)
              \/ DelStale(r, a) \/ RowFound(r, a) \/ Rewarm(r, a) \/ StoredFound(r, a) \/ Delete(r, a)
       PROVE  Reply(r) \/ (For(r, a) /\ Step(a))
  BY <1>6, <1>7, <1>9, <1>10, <1>11, <1>12, <1>13, <1>14, <1>16, <1>17
<1> HIDE DEF Step
<1>18. \/ Reply(r) \/ ConsumeFails(r)
       \/ ConsumeState(r) /\ Goes(r, "exchange")
       \/ \E ids \in SUBSET Advertisers, issued \in Hours : Exchange(r, ids, issued)
       \/ \E issued \in Hours : Refresh(r, issued)
       \/ \E a \in Advertisers : For(r, a) /\ Step(a)
  BY <1>2, <1>5, <1>15, <1>17 DEF RequestStep
<1> QED
  BY <1>1, <1>3, <1>4, <1>18 DEF Step

\* Every step is a request's, an arrival, an exit, the refresher's or one from outside.
LEMMA StepKinds ==
  ASSUME [Next]_vars
  PROVE  \/ \E r \in Requests : RequestStep(r)
         \/ \E r \in Requests, kind \in Kinds, await \in {"getdel", "getCache", "getStored", "delete"},
               a \in Advertisers \cup {None}, s \in States \cup {None} :
              /\ Begin(r, kind, await, a, s)
              /\ await = "getdel" => kind = "callback"
              /\ due' \subseteq due /\ UNCHANGED nextRun
         \/ Exit
         \/ \E s \in States : Initiate(s) \/ ExpireState(s)
         \/ \E a \in Advertisers : Expire(a)
         \/ RefreshAll
         \/ Tick
         \/ UNCHANGED vars
<1>1. ASSUME NEW r \in Requests, Arrive(r)
      PROVE  \E kind \in Kinds, await \in {"getdel", "getCache", "getStored", "delete"},
               a \in Advertisers \cup {None}, s \in States \cup {None} :
              /\ Begin(r, kind, await, a, s)
              /\ await = "getdel" => kind = "callback"
              /\ due' \subseteq due /\ UNCHANGED nextRun
  <2>1. ASSUME NEW s \in States, Callback(r, s)
        PROVE  Begin(r, "callback", "getdel", None, s) /\ due' \subseteq due /\ UNCHANGED nextRun
    BY <2>1 DEF Callback, refresher
  <2>2. ASSUME NEW a \in Advertisers, Valid(r, a) \/ PostRefresh(r, a) \/ PostRevoke(r, a) \/ RefreshOne(r, a)
        PROVE  /\ \/ Begin(r, "valid", "getCache", a, None) \/ Begin(r, "refresh", "getStored", a, None)
                  \/ Begin(r, "revoke", "delete", a, None) \/ Begin(r, "proactive", "getCache", a, None)
               /\ due' \subseteq due /\ UNCHANGED nextRun
    BY <2>2 DEF Valid, PostRefresh, PostRevoke, RefreshOne, refresher
  <2> QED
    BY <1>1, <2>1, <2>2 DEF Arrive, Kinds
<1> QED
  BY <1>1 DEF Next

\* What becomes of one request in a step.
LEMMA OneMoves ==
  ASSUME TypeOK, [Next]_vars, NEW q \in Requests
  PROVE  \/ req'[q] = req[q]
         \/ req'[q] = NoRequest
         \/ \E kind \in Kinds, await \in {"getdel", "getCache", "getStored", "delete"},
               a \in Advertisers \cup {None}, s \in States \cup {None} :
              /\ await = "getdel" => kind = "callback"
              /\ req'[q] = [pc |-> await, kind |-> kind, adv |-> a, todo |-> {}, state |-> s,
                            token |-> None, asked |-> 0, since |-> now]
         \/ RequestStep(q)
<1> DEFINE New == \E kind \in Kinds, await \in {"getdel", "getCache", "getStored", "delete"},
                     a \in Advertisers \cup {None}, s \in States \cup {None} :
                    /\ await = "getdel" => kind = "callback"
                    /\ req'[q] = [pc |-> await, kind |-> kind, adv |-> a, todo |-> {}, state |-> s,
                                  token |-> None, asked |-> 0, since |-> now]
           Outcome == req'[q] = req[q] \/ req'[q] = NoRequest \/ New \/ RequestStep(q)
<1>1. ASSUME NEW r \in Requests, RequestStep(r), r # q PROVE req'[q] = req[q] \/ req'[q] = NoRequest
  <2>1. ASSUME NEW await, NEW a, NEW todo, NEW t, NEW asked, Moved(r, await, a, todo, t, asked)
        PROVE  req'[q] = req[q]
    BY <1>1, <2>1 DEF Moved, TypeOK
  <2>2. Reply(r) => req'[q] = req[q]
    BY <1>1 DEF Reply, TypeOK
  <2>3. ConsumeFails(r) => req'[q] = NoRequest
    BY DEF ConsumeFails, Restart
  <2> QED
    BY <1>1, <2>1, <2>2, <2>3, RequestMoves DEF Goes
<1>2. ASSUME NEW r \in Requests, NEW kind \in Kinds, NEW await \in {"getdel", "getCache", "getStored", "delete"},
             NEW a \in Advertisers \cup {None}, NEW s \in States \cup {None},
             Begin(r, kind, await, a, s), await = "getdel" => kind = "callback"
      PROVE  req'[q] = req[q] \/ New
  BY <1>2 DEF Begin, TypeOK
<1>3. Exit => req'[q] = NoRequest
  BY DEF Exit, Restart
<1>4. ASSUME UNCHANGED req PROVE req'[q] = req[q]
  BY <1>4
<1>5. ASSUME \/ \E s \in States : Initiate(s) \/ ExpireState(s)
             \/ \E a \in Advertisers : Expire(a)
             \/ RefreshAll \/ Tick \/ UNCHANGED vars
      PROVE  UNCHANGED req
  BY <1>5 DEF Initiate, ExpireState, Expire, RefreshAll, Tick, vars
<1> HIDE DEF New
<1>6. Outcome
  BY <1>1, <1>2, <1>3, <1>4, <1>5, StepKinds
<1> QED
  BY <1>6 DEF New

(***************************************************************************)
(* What a step does to the stores and the histories.                       *)
(***************************************************************************)
\* A state is accepted only by a callback that takes it out of Redis.
LEMMA StatesMove ==
  ASSUME TypeOK, [Next]_vars, NEW s \in States
  PROVE  /\ \/ accepted'[s] = accepted[s]
            \/ s \in states \ states' /\ accepted'[s] = accepted[s] + 1
         /\ s \in states' => s \in states \/ s \in drawn' \ drawn
         /\ drawn \subseteq drawn'
<1> USE DEF TypeOK
<1>1. ASSUME NEW r \in Requests, RequestStep(r)
      PROVE  \/ UNCHANGED <<states, drawn, accepted>>
             \/ ConsumeState(r) \/ ConsumeFails(r)
  BY <1>1 DEF RequestStep, Exchange, Refresh, TikTokFails, UpsertFails, RevokeFails, Upsert,
     CacheToken, CacheHit, CacheMiss, DelStale, RowFound, RowMissing, Rewarm, StoredFound,
     StoredMissing, Delete, Del, Untimed
<1>2. ASSUME NEW r \in Requests, ConsumeState(r)
      PROVE  /\ \/ accepted'[s] = accepted[s]
                \/ s \in states \ states' /\ accepted'[s] = accepted[s] + 1
             /\ s \in states' => s \in states
             /\ UNCHANGED drawn
  BY <1>2 DEF ConsumeState
<1>3. ASSUME NEW r \in Requests, ConsumeFails(r)
      PROVE  accepted'[s] = accepted[s] /\ (s \in states' => s \in states) /\ UNCHANGED drawn
  BY <1>3 DEF ConsumeFails, Restart, history
<1>4. ASSUME NEW t \in States, Initiate(t) \/ ExpireState(t)
      PROVE  /\ accepted'[s] = accepted[s]
             /\ s \in states' => s \in states \/ s \in drawn' \ drawn
             /\ drawn \subseteq drawn'
  BY <1>4 DEF Initiate, ExpireState, history
<1> QED
  BY <1>1, <1>2, <1>3, <1>4, StepKinds DEF Begin, Exit, Restart, Expire, RefreshAll, Tick, history, vars

\* A row is written only by a request at its upsert, and a callback that writes it
\* takes the advertiser off the revoked.
LEMMA RowsMove ==
  ASSUME TypeOK, [Next]_vars, NEW a \in Advertisers
  PROVE  \/ row'[a] = row[a]
         \/ row'[a] = None
         \/ \E r \in Requests : /\ At(r, "upsert") /\ For(r, a) /\ row'[a] = req[r].token
                                /\ req[r].kind = "callback" \/ r \in racers => a \notin revoked'
<1> USE DEF TypeOK
<1>1. ASSUME NEW r \in Requests, RequestStep(r)
      PROVE  \/ UNCHANGED row
             \/ \E b \in Advertisers : Upsert(r, b) \/ SetRow(b, None)
  BY <1>1 DEF RequestStep, ConsumeState, ConsumeFails, Restart, Exchange, Refresh, TikTokFails,
     UpsertFails, RevokeFails, CacheToken, CacheHit, CacheMiss, DelStale, RowFound, RowMissing,
     Rewarm, StoredFound, StoredMissing, Delete, Del
<1>2. ASSUME NEW r \in Requests, NEW b \in Advertisers, Upsert(r, b)
      PROVE  \/ row'[a] = row[a]
             \/ /\ At(r, "upsert") /\ For(r, a) /\ row'[a] = req[r].token
                /\ req[r].kind = "callback" \/ r \in racers => a \notin revoked'
  BY <1>2 DEF Upsert, Revives, SetRow
<1>3. ASSUME NEW b \in Advertisers, SetRow(b, None) PROVE row'[a] = row[a] \/ row'[a] = None
  BY <1>3 DEF SetRow
<1> QED
  BY <1>1, <1>2, <1>3, StepKinds
  DEF Begin, Exit, Restart, Initiate, ExpireState, Expire, RefreshAll, Tick, vars

\* A key is written only by a request that has just stored its token or found it.
LEMMA CachesMove ==
  ASSUME TypeOK, [Next]_vars, NEW a \in Advertisers
  PROVE  \/ cache'[a] = cache[a]
         \/ cache'[a] = None
         \/ \E r \in Requests : /\ At(r, "cacheToken") \/ At(r, "rewarm")
                                /\ For(r, a) /\ cache'[a] = req[r].token
                                /\ req[r].kind = "callback" \/ r \in racers => a \notin revoked'
<1> USE DEF TypeOK
<1>1. ASSUME NEW r \in Requests, RequestStep(r)
      PROVE  \/ UNCHANGED cache
             \/ \E b \in Advertisers :
                  \/ SetCache(b, None)
                  \/ /\ At(r, "cacheToken") \/ At(r, "rewarm")
                     /\ For(r, b) /\ SetCache(b, req[r].token) /\ Revives(r, b)
  BY <1>1 DEF RequestStep, ConsumeState, ConsumeFails, Restart, Exchange, Refresh, TikTokFails,
     UpsertFails, RevokeFails, Upsert, CacheToken, CacheHit, CacheMiss, DelStale, RowFound,
     RowMissing, Rewarm, StoredFound, StoredMissing, Delete, Del
<1>2. ASSUME NEW r \in Requests, NEW b \in Advertisers, For(r, b), SetCache(b, req[r].token), Revives(r, b)
      PROVE  \/ cache'[a] = cache[a]
             \/ /\ For(r, a) /\ cache'[a] = req[r].token
                /\ req[r].kind = "callback" \/ r \in racers => a \notin revoked'
  BY <1>2 DEF SetCache, Revives
<1>3. ASSUME NEW b \in Advertisers, SetCache(b, None) PROVE cache'[a] = cache[a] \/ cache'[a] = None
  BY <1>3 DEF SetCache
<1> QED
  BY <1>1, <1>2, <1>3, StepKinds
  DEF Begin, Exit, Restart, Initiate, ExpireState, Expire, RefreshAll, Tick, vars

\* An advertiser becomes revoked only by a DEL that leaves neither store a token, and
\* whoever still holds one is a racer from then on.
LEMMA RevokedMoves ==
  ASSUME TypeOK, [Next]_vars
  PROVE  /\ revoked' \in SUBSET Advertisers
         /\ \A a \in revoked' \ revoked :
              /\ row[a] = None /\ row'[a] = None /\ cache'[a] = None
              /\ \A q \in Requests :
                   \/ req'[q] = NoRequest
                   \/ req'[q] = req[q] /\ (For(q, a) /\ Holds(q) => q \in racers')
<1> DEFINE Outcome == /\ revoked' \in SUBSET Advertisers
                      /\ \A a \in revoked' \ revoked :
                           /\ row[a] = None /\ row'[a] = None /\ cache'[a] = None
                           /\ \A q \in Requests :
                                \/ req'[q] = NoRequest
                                \/ req'[q] = req[q] /\ (For(q, a) /\ Holds(q) => q \in racers')
<1> USE DEF TypeOK
<1>1. ASSUME NEW r \in Requests, RequestStep(r)
      PROVE  UNCHANGED revoked \/ \E b \in Advertisers : Revives(r, b) \/ Del(r, b)
  BY <1>1 DEF RequestStep, ConsumeState, ConsumeFails, Restart, Exchange, Refresh, TikTokFails,
     UpsertFails, RevokeFails, Upsert, CacheToken, CacheHit, CacheMiss, DelStale, RowFound,
     RowMissing, Rewarm, StoredFound, StoredMissing, Delete, history
<1>2. ASSUME NEW r \in Requests, NEW b \in Advertisers, Revives(r, b) PROVE Outcome
  BY <1>2 DEF Revives
<1>3. ASSUME NEW r \in Requests, NEW b \in Advertisers, Del(r, b) PROVE Outcome
  <2>1. /\ revoked' \subseteq revoked \cup {b}
        /\ b \in revoked' \ revoked => row[b] = None
        /\ UNCHANGED row /\ cache'[b] = None
    BY <1>3 DEF Del, SetCache, Revoked
  <2>2. ASSUME NEW q \in Requests
        PROVE  \/ req'[q] = NoRequest
               \/ req'[q] = req[q] /\ (For(q, b) /\ Holds(q) => q \in racers')
    BY <1>3 DEF Del, Reply, Revoked
  <2> QED
    BY <2>1, <2>2
<1>4. CASE UNCHANGED revoked
  BY <1>4
<1> QED
  BY <1>1, <1>2, <1>3, <1>4, StepKinds
  DEF Begin, Exit, Restart, Initiate, ExpireState, Expire, RefreshAll, Tick, history, vars

\* A racer stays one until its request is over or has let go of its token.
LEMMA RacersMove ==
  ASSUME TypeOK, [Next]_vars
  PROVE  /\ racers' \in SUBSET Requests
         /\ \A q \in racers : q \in racers' \/ ~Holds(q) \/ ~Holds(q)'
<1> DEFINE Outcome == /\ racers' \in SUBSET Requests
                      /\ \A q \in racers : q \in racers' \/ ~Holds(q) \/ ~Holds(q)'
<1> USE DEF TypeOK
<1>1. ASSUME NEW r \in Requests, RequestStep(r)
      PROVE  UNCHANGED racers \/ \E a \in Advertisers : Del(r, a)
  BY <1>1 DEF RequestStep, ConsumeState, ConsumeFails, Restart, Exchange, Refresh, TikTokFails,
     UpsertFails, RevokeFails, Upsert, CacheToken, CacheHit, CacheMiss, DelStale, RowFound,
     RowMissing, Rewarm, StoredFound, StoredMissing, Delete, Untimed, history
<1>2. ASSUME NEW r \in Requests, NEW a \in Advertisers, Del(r, a) PROVE Outcome
  <2>1. ~Holds(r)
    BY <1>2 DEF Del, At, Holds
  <2>2. racers' = {q \in Requests : IF For(q, a) THEN q # r /\ Holds(q) ELSE q \in racers}
    BY <1>2 DEF Del, Revoked
  <2> QED
    BY <2>1, <2>2
<1>3. ASSUME NEW r \in Requests, NEW kind, NEW await \in {"getdel", "getCache", "getStored", "delete"},
             NEW a, NEW s, Begin(r, kind, await, a, s)
      PROVE  Outcome
  <2>1. racers' = racers \ {r}
    BY <1>3 DEF Begin
  <2>2. ~Holds(r)'
    BY <1>3 DEF Begin, Holds
  <2> QED
    BY <2>1, <2>2
<1>4. UNCHANGED racers => Outcome
  OBVIOUS
<1> HIDE DEF Outcome
<1>5. Outcome
  BY <1>1, <1>2, <1>3, <1>4, StepKinds
  DEF Exit, Restart, Initiate, ExpireState, Expire, RefreshAll, Tick, history, vars
<1> QED
  BY <1>5 DEF Outcome

\* getValidToken hands out a token that is not due for its refresh, or the one it
\* has just stored.
LEMMA HandedMoves ==
  ASSUME TypeOK, TokensAreFresh, [Next]_vars
  PROVE  \/ UNCHANGED handed
         \/ \E r \in Requests, t \in Token :
              /\ req[r].since \in Hours
              /\ handed' = [token |-> t, since |-> req[r].since, at |-> now]
              /\ ~NeedsRefresh(t) \/ (At(r, "cacheToken") /\ t = req[r].token)
<1> DEFINE Outcome == \/ UNCHANGED handed
                      \/ \E r \in Requests, t \in Token :
                           /\ req[r].since \in Hours
                           /\ handed' = [token |-> t, since |-> req[r].since, at |-> now]
                           /\ ~NeedsRefresh(t) \/ (At(r, "cacheToken") /\ t = req[r].token)
<1>1. ASSUME NEW r \in Requests, RequestStep(r)
      PROVE  \/ UNCHANGED handed
             \/ \E a \in Advertisers :
                  \/ CacheHit(r, a) /\ Use(r, cache[a])
                  \/ RowFound(r, a) /\ Use(r, row[a])
                  \/ Rewarm(r, a) /\ Use(r, req[r].token)
                  \/ CacheToken(r, a) /\ Return(r, req[r].token)
  BY <1>1 DEF RequestStep, ConsumeState, ConsumeFails, Restart, Exchange, Refresh, TikTokFails,
     UpsertFails, RevokeFails, Upsert, CacheToken, CacheHit, CacheMiss, DelStale, RowFound,
     RowMissing, Rewarm, StoredFound, StoredMissing, Delete, Del, history
<1>2. ASSUME NEW r \in Requests, RequestStep(r) PROVE req[r].since \in Hours
  BY <1>2, RequestMoves, RequestType DEF Request
<1>3. ASSUME NEW r \in Requests, RequestStep(r), NEW t \in Token, Use(r, t) PROVE Outcome
  BY <1>2, <1>3 DEF Use, Return
<1>4. ASSUME NEW r \in Requests, RequestStep(r), NEW a \in Advertisers, CacheToken(r, a), Return(r, req[r].token)
      PROVE  Outcome
  <2>1. At(r, "cacheToken") /\ req[r].token \in Token
    BY <1>4 DEF CacheToken, TokensAreFresh, At
  <2> QED
    BY <1>2, <1>4, <2>1 DEF Return
<1>5. ASSUME NEW r \in Requests, NEW a \in Advertisers
      PROVE  /\ CacheHit(r, a) => cache[a] \in Token
             /\ RowFound(r, a) => row[a] \in Token
             /\ Rewarm(r, a) => req[r].token \in Token
  BY DEF CacheHit, RowFound, Rewarm, Active, TokensAreFresh, TypeOK
<1>6. ASSUME NEW r \in Requests, RequestStep(r) PROVE Outcome
  <2> HIDE DEF Outcome
  <2>1. UNCHANGED handed => Outcome
    BY DEF Outcome
  <2> QED
    BY <1>1, <1>3, <1>4, <1>5, <1>6, <2>1
<1> QED
  BY <1>6, StepKinds
  DEF Begin, Exit, Restart, Initiate, ExpireState, Expire, RefreshAll, Tick, history, vars

-----------------------------------------------------------------------------
(***************************************************************************)
(* Types.                                                                  *)
(***************************************************************************)
LEMMA HoursAreNat == Hours \subseteq Nat /\ 0 \in Hours /\ (now \in Hours => \A h \in 0 .. now : h \in Hours)
BY OAuthAssumption DEF Hours

LEMMA RequestTypeStep ==
  ASSUME TypeOK, [Next]_vars
  PROVE  req' \in [Requests -> Request \cup {NoRequest}]
<1> USE DEF TypeOK
<1> DEFINE Typed == req' \in [Requests -> Request \cup {NoRequest}]
<1>1. ASSUME NEW r \in Requests, Reply(r) PROVE Typed
  BY <1>1 DEF Reply
<1>2. ASSUME NEW r \in Requests, NEW await \in Awaits, NEW kind \in Kinds, NEW a \in Advertisers \cup {None},
             NEW todo \in SUBSET Advertisers, NEW s \in States \cup {None}, NEW t \in Token \cup {None},
             NEW asked \in Hours, NEW since \in Hours,
             req' = [req EXCEPT ![r] = [pc |-> await, kind |-> kind, adv |-> a, todo |-> todo, state |-> s,
                                        token |-> t, asked |-> asked, since |-> since]]
      PROVE  Typed
  <2> DEFINE new == [pc |-> await, kind |-> kind, adv |-> a, todo |-> todo, state |-> s,
                     token |-> t, asked |-> asked, since |-> since]
  <2>1. new \in Request
    BY DEF Request
  <2>2. req' = [req EXCEPT ![r] = new]
    BY <1>2
  <2> HIDE DEF new
  <2> QED
    BY <2>1, <2>2
<1>3. ASSUME NEW r \in Requests, RequestStep(r) PROVE Typed
  <2>1. /\ req[r].kind \in Kinds /\ req[r].adv \in Advertisers \cup {None}
        /\ req[r].todo \in SUBSET Advertisers /\ req[r].state \in States \cup {None}
        /\ req[r].token \in Token \cup {None} /\ req[r].asked \in Hours /\ req[r].since \in Hours
    BY <1>3, RequestMoves, RequestType DEF Request
  <2>2. ASSUME NEW await \in Awaits, NEW a \in Advertisers \cup {None}, NEW todo \in SUBSET Advertisers,
               NEW t \in Token \cup {None}, NEW asked \in Hours, Moved(r, await, a, todo, t, asked)
        PROVE  Typed
    BY <1>2, <2>1, <2>2 DEF Moved
  <2>3. /\ {"exchange", "upsert", "cacheToken", "delStale", "getRow", "rewarm", "getStored", "refresh", "del"}
             \subseteq Awaits
        /\ \A h, g \in Hours : [issued |-> h, stamp |-> g] \in Token \cup {None}
        /\ now \in Hours
    BY DEF Awaits, Token
  <2>4. ASSUME NEW ids \in SUBSET Advertisers, NEW a \in Advertisers, NEW issued \in Hours,
               Moved(r, "upsert", a, ids \ {a}, [issued |-> issued, stamp |-> now], req[r].asked)
        PROVE  Typed
    BY <2>1, <2>2, <2>3, <2>4
  <2>5. ASSUME NEW issued \in Hours,
               Moved(r, "upsert", req[r].adv, req[r].todo, [issued |-> issued, stamp |-> req[r].asked], req[r].asked)
        PROVE  Typed
    BY <2>1, <2>2, <2>3, <2>5
  <2>6. ASSUME NEW b \in req[r].todo, Moved(r, "upsert", b, req[r].todo \ {b}, req[r].token, req[r].asked)
        PROVE  Typed
    BY <2>1, <2>2, <2>3, <2>6
  <2>7. ASSUME NEW a \in Advertisers,
               \/ Moved(r, "rewarm", req[r].adv, req[r].todo, row[a], req[r].asked)
               \/ Moved(r, "refresh", req[r].adv, req[r].todo, row[a], now)
        PROVE  Typed
    BY <2>1, <2>2, <2>3, <2>7
  <2>8. ASSUME NEW await \in {"exchange", "cacheToken", "delStale", "getRow", "getStored", "del"}, Goes(r, await)
        PROVE  Typed
    BY <2>1, <2>2, <2>3, <2>8 DEF Goes
  <2>9. ConsumeFails(r) => Typed
    BY DEF ConsumeFails, Restart
  <2> HIDE DEF Typed
  <2> QED
    BY <1>1, <1>3, <2>4, <2>5, <2>6, <2>7, <2>8, <2>9, RequestMoves
<1>4. ASSUME NEW r \in Requests, NEW kind \in Kinds, NEW await \in {"getdel", "getCache", "getStored", "delete"},
             NEW a \in Advertisers \cup {None}, NEW s \in States \cup {None}, Begin(r, kind, await, a, s)
      PROVE  Typed
  <2>1. await \in Awaits /\ 0 \in Hours /\ now \in Hours /\ {} \in SUBSET Advertisers
    BY HoursAreNat DEF Awaits
  <2> QED
    BY <1>2, <1>4, <2>1 DEF Begin
<1>5. Exit => Typed
  BY DEF Exit, Restart
<1>6. UNCHANGED req => Typed
  OBVIOUS
<1> HIDE DEF Typed
<1>7. Typed
  BY <1>3, <1>4, <1>5, <1>6, StepKinds DEF Initiate, ExpireState, Expire, RefreshAll, Tick, vars
<1> QED
  BY <1>7 DEF Typed

\* What is written to the functions leaves them functions.
LEMMA Writes ==
  ASSUME TypeOK, [Next]_vars
  PROVE  /\ row' = [a \in Advertisers |-> row'[a]]
         /\ cache' = [a \in Advertisers |-> cache'[a]]
         /\ accepted' = [s \in States |-> accepted'[s]]
<1> DEFINE Write == /\ UNCHANGED row \/ \E a, t : SetRow(a, t)
                    /\ UNCHANGED cache \/ \E a, t : SetCache(a, t)
                    /\ UNCHANGED accepted \/ \E s : accepted' = [accepted EXCEPT ![s] = @ + 1]
<1>1. ASSUME NEW r \in Requests, RequestStep(r) PROVE Write
  <2>1. UNCHANGED row \/ \E a, t : SetRow(a, t)
    BY <1>1 DEF RequestStep, ConsumeState, ConsumeFails, Restart, Exchange, Refresh, TikTokFails,
       UpsertFails, RevokeFails, Upsert, CacheToken, CacheHit, CacheMiss, DelStale, RowFound,
       RowMissing, Rewarm, StoredFound, StoredMissing, Delete, Del
  <2>2. UNCHANGED cache \/ \E a, t : SetCache(a, t)
    BY <1>1 DEF RequestStep, ConsumeState, ConsumeFails, Restart, Exchange, Refresh, TikTokFails,
       UpsertFails, RevokeFails, Upsert, CacheToken, CacheHit, CacheMiss, DelStale, RowFound,
       RowMissing, Rewarm, StoredFound, StoredMissing, Delete, Del
  <2>3. UNCHANGED accepted \/ ConsumeState(r)
    BY <1>1 DEF RequestStep, ConsumeFails, Restart, Exchange, Refresh, TikTokFails,
       UpsertFails, RevokeFails, Upsert, CacheToken, CacheHit, CacheMiss, DelStale, RowFound,
       RowMissing, Rewarm, StoredFound, StoredMissing, Delete, Del, Untimed, history
  <2>4. ConsumeState(r) => UNCHANGED accepted \/ \E s : accepted' = [accepted EXCEPT ![s] = @ + 1]
    BY DEF ConsumeState
  <2> QED
    BY <2>1, <2>2, <2>3, <2>4
<1>2. ASSUME NEW b \in Advertisers, Expire(b) PROVE Write
  BY <1>2 DEF Expire, history
<1>3. ASSUME UNCHANGED <<row, cache, accepted>> PROVE Write
  BY <1>3
<1> HIDE DEF Write
<1>4. Write
  BY <1>1, <1>2, <1>3, StepKinds DEF Begin, Exit, Restart, Initiate, ExpireState, RefreshAll, Tick, history, vars
<1> QED
  BY <1>4 DEF Write, SetRow, SetCache, TypeOK

LEMMA RestMoves ==
  ASSUME TypeOK, [Next]_vars
  PROVE  /\ now' = now \/ (now < MaxTime /\ now' = now + 1)
         /\ drawn' \in SUBSET States /\ states' \in SUBSET States
         /\ due' \in SUBSET Advertisers
         /\ nextRun' = nextRun \/ nextRun' = now \/ nextRun' = now + Interval
         /\ requests' = requests \/ (requests < MaxRequests /\ requests' = requests + 1)
         /\ NoFault \/ Fault
<1> USE DEF TypeOK
<1>2. ASSUME NEW r \in Requests, RequestStep(r)
      PROVE  /\ UNCHANGED <<now, drawn, requests>> /\ states' \subseteq states /\ (NoFault \/ Fault)
             /\ UNCHANGED refresher \/ (due' = {} /\ nextRun' = now)
  BY <1>2 DEF RequestStep, ConsumeState, ConsumeFails, Restart, Exchange, Refresh, TikTokFails,
     UpsertFails, RevokeFails, Upsert, CacheToken, CacheHit, CacheMiss, DelStale, RowFound,
     RowMissing, Rewarm, StoredFound, StoredMissing, Delete, Del, Untimed, NoFault, refresher
<1> QED
  BY <1>2, StepKinds DEF Begin, Exit, Restart, Initiate, ExpireState, Expire, RefreshAll, Tick, Active,
     refresher, vars, NoFault

LEMMA TypeStep == TypeOK /\ TokensAreFresh /\ [Next]_vars => TypeOK'
<1> SUFFICES ASSUME TypeOK, TokensAreFresh, [Next]_vars PROVE TypeOK'
  OBVIOUS
<1> USE DEF TypeOK
<1>1. req' \in [Requests -> Request \cup {NoRequest}]
  BY RequestTypeStep
<1>3. /\ now' = now \/ (now < MaxTime /\ now' = now + 1)
      /\ drawn' \in SUBSET States /\ states' \in SUBSET States
      /\ due' \in SUBSET Advertisers
      /\ nextRun' = nextRun \/ nextRun' = now \/ nextRun' = now + Interval
      /\ requests' = requests \/ (requests < MaxRequests /\ requests' = requests + 1)
      /\ NoFault \/ Fault
  BY RestMoves
<1>4. now' \in Hours /\ nextRun' \in Nat /\ requests' \in 0 .. MaxRequests /\ faults' \in 0 .. MaxFaults
  BY <1>3, OAuthAssumption DEF Hours, Fault, NoFault
<1>5. row' \in [Advertisers -> Token \cup {None}]
  <2>1. ASSUME NEW r \in Requests, RequestStep(r), At(r, "upsert") PROVE req[r].token \in Token \cup {None}
    BY <2>1, RequestMoves, RequestType DEF Request
  <2>2. ASSUME NEW r \in Requests, At(r, "upsert") PROVE req[r].token \in Token
    BY <2>2 DEF TokensAreFresh, At
  <2>3. \A a \in Advertisers : row'[a] \in Token \cup {None}
    BY <2>2, RowsMove
  <2>5. row' = [a \in Advertisers |-> row'[a]]
    BY Writes
  <2> QED
    BY <2>3, <2>5
<1>6. cache' \in [Advertisers -> Token \cup {None}]
  <2>1. ASSUME NEW r \in Requests, At(r, "cacheToken") \/ At(r, "rewarm") PROVE req[r].token \in Token
    BY <2>1 DEF TokensAreFresh, At
  <2>2. \A a \in Advertisers : cache'[a] \in Token \cup {None}
    BY <2>1, CachesMove
  <2>4. cache' = [a \in Advertisers |-> cache'[a]]
    BY Writes
  <2> QED
    BY <2>2, <2>4
<1>7. accepted' \in [States -> Nat]
  <2>1. \A s \in States : accepted'[s] \in Nat
    BY StatesMove
  <2>3. accepted' = [s \in States |-> accepted'[s]]
    BY Writes
  <2> QED
    BY <2>1, <2>3
<1>8. handed' \in [token : Token, since : Hours, at : Hours] \cup {None}
  BY HandedMoves
<1>9. revoked' \in SUBSET Advertisers
  BY RevokedMoves
<1>10. racers' \in SUBSET Requests
  BY RacersMove
<1> QED
  BY <1>1, <1>3, <1>4, <1>5, <1>6, <1>7, <1>8, <1>9, <1>10

-----------------------------------------------------------------------------
(***************************************************************************)
(* The invariant, part by part.                                            *)
(***************************************************************************)
LEMMA StatesStep ==
  ASSUME TypeOK, StateIsOneTime, StatesAreSpent, [Next]_vars
  PROVE  StateIsOneTime' /\ StatesAreSpent'
<1>1. ASSUME NEW s \in States
      PROVE  /\ accepted'[s] <= 1
             /\ accepted'[s] > 0 => s \in drawn' \ states'
             /\ s \in states' => s \in drawn'
  <2>1. /\ accepted[s] \in Nat /\ accepted[s] <= 1
        /\ accepted[s] > 0 => s \in drawn \ states
        /\ s \in states => s \in drawn
    BY DEF TypeOK, StateIsOneTime, StatesAreSpent
  <2> QED
    BY <2>1, StatesMove
<1>2. states' \subseteq States
  BY RestMoves
<1> QED
  BY <1>1, <1>2 DEF StateIsOneTime, StatesAreSpent

\* A state brought in a request ends a callback's life, or is followed by the
\* exchange; the other awaits carry no grant.
LEMMA GrantsStep ==
  ASSUME TypeOK, GrantsAreCallbacks, [Next]_vars
  PROVE  GrantsAreCallbacks'
<1> SUFFICES ASSUME NEW r \in Requests
             PROVE  (req[r].pc \in {"getdel", "exchange"} \/ req[r].todo # {} => req[r].kind = "callback")'
  BY DEF GrantsAreCallbacks
<1> DEFINE Granted == req'[r].pc \in {"getdel", "exchange"} \/ req'[r].todo # {} => req'[r].kind = "callback"
<1>1. req[r].pc \in {"getdel", "exchange"} \/ req[r].todo # {} => req[r].kind = "callback"
  BY DEF GrantsAreCallbacks
<1>2. req'[r] = NoRequest => Granted
  BY DEF NoRequest
<1>3. ASSUME RequestStep(r) PROVE Granted
  <2>1. ASSUME NEW await, NEW a, NEW todo, NEW t, NEW asked, Moved(r, await, a, todo, t, asked)
        PROVE  req'[r].pc = await /\ req'[r].todo = todo /\ req'[r].kind = req[r].kind
    BY <2>1 DEF Moved, TypeOK
  <2>2. ConsumeState(r) \/ (\E ids, issued : Exchange(r, ids, issued)) => req[r].kind = "callback"
    BY <1>1 DEF ConsumeState, Exchange, At
  <2>3. Reply(r) \/ ConsumeFails(r) => req'[r] = NoRequest
    BY DEF Reply, ConsumeFails, Restart, TypeOK
  <2>4. ASSUME NEW await, NEW a, NEW todo, NEW t, NEW asked, Moved(r, await, a, todo, t, asked),
               req[r].kind = "callback" \/ (todo = req[r].todo /\ await \notin {"getdel", "exchange"})
        PROVE  Granted
    BY <1>1, <2>1, <2>4
  <2>5. ASSUME NEW await, Goes(r, await), req[r].kind = "callback" \/ await \notin {"getdel", "exchange"}
        PROVE  Granted
    BY <2>4, <2>5 DEF Goes
  <2>6. ASSUME NEW b \in req[r].todo, Moved(r, "upsert", b, req[r].todo \ {b}, req[r].token, req[r].asked)
        PROVE  Granted
    BY <1>1, <2>4, <2>6
  <2>7. ASSUME NEW ids \in SUBSET Advertisers, NEW issued \in Hours, Exchange(r, ids, issued), NEW a,
               Moved(r, "upsert", a, ids \ {a}, [issued |-> issued, stamp |-> now], req[r].asked)
        PROVE  Granted
    BY <2>2, <2>4, <2>7
  <2>8. Reply(r) \/ ConsumeFails(r) => Granted
    BY <1>2, <2>3
  <2> HIDE DEF Granted
  <2> QED
    BY <1>3, <2>2, <2>4, <2>5, <2>6, <2>7, <2>8, RequestMoves
<1>4. ASSUME NEW kind, NEW await, NEW a, NEW s, await = "getdel" => kind = "callback",
             await \in {"getdel", "getCache", "getStored", "delete"},
             req'[r] = [pc |-> await, kind |-> kind, adv |-> a, todo |-> {}, state |-> s,
                        token |-> None, asked |-> 0, since |-> now]
      PROVE  Granted
  BY <1>4
<1>5. req'[r] = req[r] => Granted
  BY <1>1
<1>6. Granted
  <2> HIDE DEF Granted
  <2> QED
    BY <1>2, <1>3, <1>4, <1>5, OneMoves
<1> QED
  BY <1>6

\* A request carries a token that TikTok issued it, or that it read from the row.
LEMMA FreshStep ==
  ASSUME TypeOK, TokensAreFresh, [Next]_vars
  PROVE  TokensAreFresh'
<1> DEFINE Fresh(q, time) ==
             /\ q.since <= time
             /\ q.pc = "refresh" => q.asked >= q.since
             /\ q.pc = "rewarm" => q.token \in Token
             /\ q.pc \in {"upsert", "cacheToken"} => q.token \in Token /\ q.token.issued >= q.since
<1>1. SUFFICES ASSUME NEW r \in Requests PROVE Fresh(req'[r], now')
  BY DEF TokensAreFresh, At
<1>2. Fresh(req[r], now) /\ req[r].since \in Nat /\ now \in Nat /\ now' \in Nat /\ now' >= now
  <2>1. Fresh(req[r], now)
    BY DEF TokensAreFresh, At
  <2>2. req[r].since \in Nat /\ now \in Nat
    <3>1. req[r] \in Request => req[r].since \in Hours
      BY DEF Request
    <3>2. req[r] = NoRequest => req[r].since = 0
      BY DEF NoRequest
    <3> QED
      BY <3>1, <3>2, HoursAreNat DEF TypeOK
  <2>3. now' = now \/ now' = now + 1
    BY RestMoves
  <2> QED
    BY <2>1, <2>2, <2>3
<1>3. req'[r] = req[r] => Fresh(req'[r], now')
  BY <1>2
<1>4. req'[r] = NoRequest => Fresh(req'[r], now')
  BY <1>2 DEF NoRequest
<1>5. ASSUME NEW kind, NEW await \in {"getdel", "getCache", "getStored", "delete"}, NEW a, NEW s,
             req'[r] = [pc |-> await, kind |-> kind, adv |-> a, todo |-> {}, state |-> s,
                        token |-> None, asked |-> 0, since |-> now]
      PROVE  Fresh(req'[r], now')
  BY <1>2, <1>5
<1>6. ASSUME RequestStep(r) PROVE Fresh(req'[r], now')
  <2>1. ASSUME NEW await, NEW a, NEW todo, NEW t, NEW asked, Moved(r, await, a, todo, t, asked),
               await = "refresh" => asked >= req[r].since,
               await = "rewarm" => t \in Token,
               await \in {"upsert", "cacheToken"} => t \in Token /\ t.issued >= req[r].since
        PROVE  Fresh(req'[r], now')
    <3>1. /\ req'[r].pc = await /\ req'[r].token = t /\ req'[r].asked = asked
          /\ req'[r].since = req[r].since
      BY <2>1 DEF Moved, TypeOK
    <3> QED
      BY <1>2, <2>1, <3>1
  <2>2. req[r].asked \in Hours /\ now \in Hours
    BY <1>6, RequestMoves, RequestType DEF Request, TypeOK
  <2>3. Reply(r) \/ ConsumeFails(r) => req'[r] = NoRequest
    BY DEF Reply, ConsumeFails, Restart, TypeOK
  <2>4. ASSUME NEW ids, NEW issued \in Hours, Exchange(r, ids, issued), NEW a, NEW todo, NEW asked,
               Moved(r, "upsert", a, todo, [issued |-> issued, stamp |-> now], asked)
        PROVE  Fresh(req'[r], now')
    <3>1. issued >= req[r].since /\ [issued |-> issued, stamp |-> now] \in Token
      BY <1>2, <2>2, <2>4 DEF Exchange, Token
    <3> QED
      BY <2>1, <2>4, <3>1
  <2>5. ASSUME NEW issued \in Hours, Refresh(r, issued), NEW a, NEW todo, NEW asked,
               Moved(r, "upsert", a, todo, [issued |-> issued, stamp |-> req[r].asked], asked)
        PROVE  Fresh(req'[r], now')
    <3>1. issued >= req[r].asked /\ req[r].asked >= req[r].since
      BY <1>2, <2>2, <2>5, HoursAreNat DEF Refresh, At
    <3>2. issued >= req[r].since
      <4>1. issued \in Nat /\ req[r].asked \in Nat /\ req[r].since \in Nat
        BY <1>2, <2>2, HoursAreNat
      <4> HIDE DEF Fresh
      <4> QED
        BY <3>1, <4>1
    <3>3. [issued |-> issued, stamp |-> req[r].asked] \in Token
      BY <2>2 DEF Token
    <3> QED
      BY <2>1, <2>5, <3>2, <3>3
  <2>6. ASSUME NEW a \in Advertisers, Upsert(r, a) /\ Goes(r, "cacheToken") PROVE Fresh(req'[r], now')
    BY <1>2, <2>1, <2>6 DEF Upsert, At, Goes
  <2>7. ASSUME NEW a \in Advertisers, CacheToken(r, a), NEW b, NEW todo,
               Moved(r, "upsert", b, todo, req[r].token, req[r].asked)
        PROVE  Fresh(req'[r], now')
    BY <1>2, <2>1, <2>7 DEF CacheToken, At
  <2>8. ASSUME NEW a \in Advertisers, RowFound(r, a), Moved(r, "rewarm", req[r].adv, req[r].todo, row[a], req[r].asked)
        PROVE  Fresh(req'[r], now')
    <3>1. row[a] \in Token
      BY <2>8 DEF RowFound, Active, TypeOK
    <3> QED
      BY <2>1, <2>8, <3>1
  <2>9. ASSUME NEW a \in Advertisers, Moved(r, "refresh", req[r].adv, req[r].todo, row[a], now)
        PROVE  Fresh(req'[r], now')
    BY <1>2, <2>1, <2>9
  <2>10. ASSUME NEW await \in {"exchange", "delStale", "getRow", "getStored", "del"}, Goes(r, await)
         PROVE  Fresh(req'[r], now')
    BY <2>1, <2>10 DEF Goes
  <2> HIDE DEF Fresh
  <2> QED
    BY <1>4, <1>6, <2>3, <2>4, <2>5, <2>6, <2>7, <2>8, <2>9, <2>10, RequestMoves
<1> HIDE DEF Fresh
<1> QED
  BY <1>3, <1>4, <1>5, <1>6, OneMoves

\* A request that begins to hold a token of a revoked advertiser is a callback: the
\* others find nothing to hold.
LEMMA QuietStep ==
  ASSUME TypeOK, RevokeWins, GrantsAreCallbacks, RevokedIsQuiet, [Next]_vars
  PROVE  RevokedIsQuiet'
<1>1. SUFFICES ASSUME NEW r \in Requests, req'[r].adv \in revoked', Holds(r)'
               PROVE  r \in racers' \/ req'[r].kind = "callback"
  BY DEF RevokedIsQuiet
<1>2. req'[r] # NoRequest
  BY <1>1 DEF NoRequest, Holds
<1>3. CASE req'[r].adv \notin revoked
  <2>1. req'[r] = req[r] /\ (For(r, req'[r].adv) /\ Holds(r) => r \in racers')
    BY <1>1, <1>2, <1>3, RevokedMoves
  <2> QED
    BY <1>1, <2>1 DEF For, Holds
<1>4. CASE req'[r].adv \in revoked
  <2>1. ASSUME Holds(r), req'[r].adv = req[r].adv, req'[r].kind = req[r].kind
        PROVE  r \in racers' \/ req'[r].kind = "callback"
    BY <1>1, <1>4, <2>1, RacersMove DEF RevokedIsQuiet
  <2>2. CASE req'[r] = req[r]
    BY <1>1, <2>1, <2>2 DEF Holds
  <2>3. ASSUME NEW kind, NEW await \in {"getdel", "getCache", "getStored", "delete"}, NEW a, NEW s,
               req'[r] = [pc |-> await, kind |-> kind, adv |-> a, todo |-> {}, state |-> s,
                          token |-> None, asked |-> 0, since |-> now]
        PROVE  FALSE
    BY <1>1, <2>3 DEF Holds
  <2>4. CASE RequestStep(r)
    <3>1. ASSUME NEW await, NEW a, NEW todo, NEW t, NEW asked, Moved(r, await, a, todo, t, asked)
          PROVE  req'[r].pc = await /\ req'[r].adv = a /\ req'[r].kind = req[r].kind
      BY <3>1 DEF Moved, TypeOK
    <3>2. ~Reply(r) /\ ~ConsumeFails(r)
      BY <1>2 DEF Reply, ConsumeFails, Restart, TypeOK
    <3>3. ASSUME NEW await \in {"exchange", "delStale", "getRow", "getStored", "del"}, Goes(r, await)
          PROVE  FALSE
      BY <1>1, <3>1, <3>3 DEF Goes, Holds
    <3>4. ASSUME req[r].kind = "callback", NEW a, NEW todo, NEW t, NEW asked,
                 Moved(r, "upsert", a, todo, t, asked)
          PROVE  req'[r].kind = "callback"
      BY <3>1, <3>4
    <3>5. ASSUME NEW ids, NEW issued, Exchange(r, ids, issued) PROVE req[r].kind = "callback"
      BY <3>5 DEF Exchange, At, GrantsAreCallbacks
    <3>6. req[r].todo # {} => req[r].kind = "callback"
      BY DEF GrantsAreCallbacks
    <3>7. ASSUME NEW issued, Refresh(r, issued), NEW t,
                 Moved(r, "upsert", req[r].adv, req[r].todo, t, req[r].asked)
          PROVE  r \in racers' \/ req'[r].kind = "callback"
      <4>1. Holds(r)
        BY <3>7 DEF Refresh, At, Holds
      <4> QED
        BY <2>1, <3>1, <3>7, <4>1
    <3>8. ASSUME NEW a \in Advertisers, For(r, a), Upsert(r, a), Goes(r, "cacheToken") PROVE FALSE
      <4>1. req'[r].adv = a /\ req[r].adv = a
        BY <3>1, <3>8 DEF Goes, For
      <4>2. req[r].kind = "callback" \/ r \in racers
        BY <1>4, <3>8, <4>1 DEF Upsert, At, Holds, RevokedIsQuiet
      <4> QED
        BY <1>1, <3>8, <4>1, <4>2 DEF Upsert, Revives
    <3>9. ASSUME NEW a \in Advertisers, For(r, a), NEW await, NEW t, NEW asked,
                 Moved(r, await, req[r].adv, req[r].todo, t, asked)
          PROVE  ~RowFound(r, a) /\ ~StoredFound(r, a)
      <4>1. a \in revoked
        BY <1>4, <3>1, <3>9 DEF For
      <4> QED
        BY <4>1 DEF RevokeWins, RowFound, StoredFound, Active
    <3> QED
      BY <2>4, <3>2, <3>3, <3>4, <3>5, <3>6, <3>7, <3>8, <3>9, RequestMoves
  <2> QED
    BY <2>2, <2>3, <2>4, <1>2, OneMoves
<1> QED
  BY <1>3, <1>4

LEMMA RevokeStep ==
  ASSUME TypeOK, RevokeWins, RevokedIsQuiet, [Next]_vars
  PROVE  RevokeWins'
<1> SUFFICES ASSUME NEW a \in Advertisers, a \in revoked' PROVE row'[a] = None /\ cache'[a] = None
  BY RevokedMoves DEF RevokeWins
<1>1. CASE a \notin revoked
  BY <1>1, RevokedMoves
<1>2. CASE a \in revoked
  <2>1. row[a] = None /\ cache[a] = None
    BY <1>2 DEF RevokeWins
  <2>2. ASSUME NEW r \in Requests, For(r, a), At(r, "upsert") \/ At(r, "cacheToken") \/ At(r, "rewarm")
        PROVE  req[r].kind = "callback" \/ r \in racers
    BY <1>2, <2>2 DEF For, At, Holds, RevokedIsQuiet
  <2>4. row'[a] = None
    BY <2>1, <2>2, RowsMove
  <2>5. cache'[a] = None
    BY <2>1, <2>2, CachesMove
  <2> QED
    BY <2>4, <2>5
<1> QED
  BY <1>1, <1>2

\* A token that is not due for a refresh by its stamp is alive if the stamp is not
\* later than the token by more than the window; one that was issued after the
\* request began outlives it if the request is shorter than the token's life.
LEMMA HandedStep ==
  ASSUME TypeOK, TokensAreFresh, HandedIsAlive, [Next]_vars
  PROVE  HandedIsAlive'
<1>1. CASE UNCHANGED handed
  BY <1>1 DEF HandedIsAlive
<1>2. ASSUME NEW r \in Requests, NEW t \in Token, req[r].since \in Hours,
             handed' = [token |-> t, since |-> req[r].since, at |-> now],
             ~NeedsRefresh(t) \/ (At(r, "cacheToken") /\ t = req[r].token)
      PROVE  HandedIsAlive'
  <2>1. /\ handed'.token = t /\ handed'.since = req[r].since /\ handed'.at = now
        /\ t.issued \in Nat /\ t.stamp \in Nat /\ now \in Nat /\ req[r].since \in Nat
        /\ AccessTTL \in Nat /\ Window \in Nat
    BY <1>2, HoursAreNat, OAuthAssumption DEF Token, TypeOK
  <2> DEFINE lag == IF t.stamp > t.issued THEN t.stamp - t.issued ELSE 0
  <2>2. ASSUME lag <= Window, now - req[r].since < AccessTTL PROVE t.issued + AccessTTL > now
    <3>1. CASE ~NeedsRefresh(t)
      BY <2>1, <2>2, <3>1 DEF NeedsRefresh, Expiry
    <3>2. CASE At(r, "cacheToken") /\ t = req[r].token
      <4>1. t.issued >= req[r].since
        BY <3>2 DEF TokensAreFresh, At
      <4> QED
        BY <2>1, <2>2, <4>1
    <3> QED
      BY <1>2, <3>1, <3>2
  <2> QED
    BY <2>1, <2>2 DEF HandedIsAlive
<1> QED
  BY <1>1, <1>2, HandedMoves

-----------------------------------------------------------------------------
(***************************************************************************)
(* The theorems.                                                           *)
(***************************************************************************)
\* Whatever requests, faults and expiries come in whatever order, the states that
\* were accepted are spent, tokens under way are no older than their requests, and
\* only racers and callbacks hold a token of a revoked advertiser.
THEOREM InvCorrect == Spec => []Inv
<1>1. Init => Inv
  BY OAuthAssumption DEF Init, Inv, TypeOK, StateIsOneTime, RevokeWins, HandedIsAlive, StatesAreSpent,
     GrantsAreCallbacks, TokensAreFresh, RevokedIsQuiet, Holds, NoRequest, Hours, At
<1>2. Inv /\ [Next]_vars => Inv'
  BY TypeStep, StatesStep, GrantsStep, FreshStep, QuietStep, RevokeStep, HandedStep DEF Inv
<1> QED
  BY <1>1, <1>2, PTL DEF Spec

\* The rows, the cache, the states in Redis and the requests in flight have the
\* types the module declares.
THEOREM TypeCorrect == Spec => []TypeOK
<1>1. Inv => TypeOK
  BY DEF Inv
<1> QED
  BY <1>1, InvCorrect, PTL

\* GETDEL makes a state good for one callback, however many bring it at once.
THEOREM StateIsOneTimeCorrect == Spec => []StateIsOneTime
<1>1. Inv => StateIsOneTime
  BY DEF Inv
<1> QED
  BY <1>1, InvCorrect, PTL

\* After a revoke neither store has a token again unless the advertiser authorizes, or a
\* request that held the token at that moment writes it back: no other reader, refresh
\* or run of the refresher does, however it overlaps with the revoke.
THEOREM RevokeWinsCorrect == Spec => []RevokeWins
<1>1. Inv => RevokeWins
  BY DEF Inv
<1> QED
  BY <1>1, InvCorrect, PTL

\* The token getValidToken hands out is alive at TikTok, within the window's
\* tolerance for a late stamp and for a request shorter than a token's life.
THEOREM HandedIsAliveCorrect == Spec => []HandedIsAlive
<1>1. Inv => HandedIsAlive
  BY DEF Inv
<1> QED
  BY <1>1, InvCorrect, PTL

=============================================================================
