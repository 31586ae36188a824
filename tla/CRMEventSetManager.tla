------------------------- MODULE CRMEventSetManager -------------------------
(***************************************************************************)
(* Which CRM event set an advertiser's events go to: CRMEventSetManager    *)
(* with its HTTP routes, and the pipeline's use of resolve().              *)
(*                                                                         *)
(* The truth is in three places: the sets TikTok holds, one Postgres row   *)
(* per advertiser and one Redis key per advertiser that lives an hour.  A  *)
(* request is an activation of a route handler or of a pipeline handler's  *)
(* resolve(); pc is the await it is suspended at.  Requests run            *)
(* concurrently and nothing locks an advertiser.                           *)
(***************************************************************************)
EXTENDS Naturals, FiniteSets

CONSTANTS Advertisers,
          Sets,              \* event set ids TikTok may hand out
          Requests,          \* activations in flight
          EnvSet,            \* env.TIKTOK_CRM_EVENT_SET_ID, NoSet when unset
          NoSet,
          MaxRequests,       \* bound: requests in a behaviour
          MaxFaults          \* bound: rejected TikTok, Postgres and Redis calls, exits

Nobody == "nobody"

ASSUME EventSetAssumption ==
  /\ NoSet \notin Sets
  /\ EnvSet \notin Sets
  /\ Nobody \notin Advertisers
  /\ MaxRequests \in Nat
  /\ MaxFaults \in Nat

VARIABLES owner,             \* TikTok: the advertiser a set belongs to
          authorized,        \* advertisers getValidToken has a token for
          row,               \* table advertiser_event_sets
          cache,             \* Redis: tiktok:event_set:<advertiser>
          req,               \* the requests in flight
          requests, faults,
          made,              \* history: sets TikTok has made for this service
          stored,            \* history: sets an advertiser's row has held
          forsaken,          \* history: sets whose maker failed before it stored them
          routed             \* history: sets the pipeline sent its events to

vars == <<owner, authorized, row, cache, req, requests, faults, made, stored, forsaken, routed>>
history == <<made, stored, forsaken, routed>>

NoRow == [set |-> NoSet, source |-> "none"]
Sources == {"auto_created", "auto_selected", "manually_selected"}

Kinds == {"provision", "create", "select", "active", "pipeline"}
Awaits == {"list", "create", "store", "warm", "getCache", "getRow"}

\* set: the set chosen so far; source: what store() is called with; listed:
\* what list() returned.
NoRequest == [pc |-> "none", kind |-> "none", adv |-> Nobody, set |-> NoSet,
              source |-> "none", listed |-> {}]

Request == [pc : Awaits, kind : Kinds, adv : Advertisers, set : Sets \cup {NoSet},
            source : Sources \cup {"none"}, listed : SUBSET Sets]

TypeOK ==
  /\ owner \in [Sets -> Advertisers \cup {Nobody}]
  /\ authorized \in SUBSET Advertisers
  /\ row \in [Advertisers -> [set : Sets, source : Sources] \cup {NoRow}]
  /\ cache \in [Advertisers -> Sets \cup {NoSet}]
  /\ req \in [Requests -> Request \cup {NoRequest}]
  /\ \A r \in Requests : req[r].pc \in {"store", "warm"} => req[r].set \in Sets
  /\ \A r \in Requests : req[r].pc = "store" => req[r].source \in Sources
  /\ requests \in 0 .. MaxRequests
  /\ faults \in 0 .. MaxFaults
  /\ made \in SUBSET Sets
  /\ stored \in [Advertisers -> SUBSET Sets]
  /\ forsaken \in SUBSET Sets
  /\ routed \in [Advertisers -> SUBSET (Sets \cup {EnvSet, NoSet})]

Init ==
  /\ owner = [s \in Sets |-> Nobody]
  /\ authorized = {}
  /\ row = [a \in Advertisers |-> NoRow]
  /\ cache = [a \in Advertisers |-> NoSet]
  /\ req = [r \in Requests |-> NoRequest]
  /\ requests = 0
  /\ faults = 0
  /\ made = {}
  /\ stored = [a \in Advertisers |-> {}]
  /\ forsaken = {}
  /\ routed = [a \in Advertisers |-> {}]

-----------------------------------------------------------------------------
At(r, await) == req[r].pc = await
Adv(r) == req[r].adv

\* The handler answers; the request is over.
Reply(r) == req' = [req EXCEPT ![r] = NoRequest]

Goto(r, await) == req' = [req EXCEPT ![r].pc = await]

\* The next await is store(): its INSERT.
GotoStore(r, s, source) ==
  req' = [req EXCEPT ![r].pc = "store", ![r].set = s, ![r].source = source]

Fault == faults < MaxFaults /\ faults' = faults + 1
NoFault == UNCHANGED faults

SetCache(a, s) == cache' = [cache EXCEPT ![a] = s]

\* The pipeline puts the resolved set, or the env variable, or '' in the payload.
Route(r, s) ==
  routed' = IF req[r].kind = "pipeline" THEN [routed EXCEPT ![Adv(r)] = @ \cup {s}] ELSE routed

\* What GET /crm/list/ returns for an advertiser.
Owned(a) == {s \in Sets : owner[s] = a}

Fresh(s) == owner[s] = Nobody

\* The set is what this very request had made, and it is on its way to store it.
Carries(r, s) ==
  /\ req[r].set = s
  /\ \/ At(r, "list") /\ req[r].kind = "create"
     \/ At(r, "store") /\ (req[r].kind = "create" \/ req[r].source = "auto_created")

\* Requests that fail leave behind what they carried.
Forsake(rs) == forsaken' = forsaken \cup {s \in made : \E r \in rs : Carries(r, s)}

\* Mutant of OnlyChoice: the first of several will do.
AnyChoice(sets, s) == s \in sets

\* provision() selects by itself only when there is nothing to choose from.
OnlyChoice(sets, s) == sets = {s}

-----------------------------------------------------------------------------
\* Requests arrive.  The four that talk to TikTok begin with getValidToken.

Authorize(a) ==
  /\ a \notin authorized
  /\ authorized' = authorized \cup {a}
  /\ UNCHANGED <<owner, row, cache, req, requests, faults, history>>

Begin(r, a, kind, await, s) ==
  /\ At(r, "none")
  /\ requests < MaxRequests
  /\ requests' = requests + 1
  /\ req' = [req EXCEPT ![r] = [pc |-> await, kind |-> kind, adv |-> a, set |-> s,
                                source |-> "none", listed |-> {}]]
  /\ UNCHANGED <<owner, authorized, row, cache, faults, history>>

PostProvision(r, a) == a \in authorized /\ Begin(r, a, "provision", "list", NoSet)

PostCreate(r, a) == a \in authorized /\ Begin(r, a, "create", "create", NoSet)

\* event_set_id comes with the request: any id at all.
PostSelect(r, a, s) == a \in authorized /\ Begin(r, a, "select", "list", s)

GetActive(r, a) == Begin(r, a, "active", "getCache", NoSet)

ProcessLead(r, a) == Begin(r, a, "pipeline", "getCache", NoSet)

-----------------------------------------------------------------------------
\* list(), create() and store().

ListForProvision(r) ==
  /\ At(r, "list")
  /\ req[r].kind = "provision"
  /\ LET sets == Owned(Adv(r))
     IN  \/ /\ sets = {}
            /\ Goto(r, "create")
         \/ \E s \in sets :
              /\ OnlyChoice(sets, s)
              /\ req' = [req EXCEPT ![r].pc = "store", ![r].set = s,
                                    ![r].source = "auto_selected", ![r].listed = sets]
         \/ /\ Cardinality(sets) > 1
            /\ Reply(r)
  /\ NoFault
  /\ UNCHANGED <<owner, authorized, row, cache, requests, history>>

\* Mutant of Belongs: the id is taken on trust.
BelongsUnchecked(s, sets) == TRUE

\* select() verifies that the set belongs to the advertiser.
Belongs(s, sets) == s \in sets

ListForSelect(r) ==
  /\ At(r, "list")
  /\ req[r].kind \in {"select", "create"}
  /\ IF Belongs(req[r].set, Owned(Adv(r)))
     THEN GotoStore(r, req[r].set, "manually_selected")
     ELSE Reply(r)
  /\ NoFault
  /\ UNCHANGED <<owner, authorized, row, cache, requests, history>>

ListFails(r) ==
  /\ At(r, "list")
  /\ Fault
  /\ Reply(r)
  /\ Forsake({r})
  /\ UNCHANGED <<owner, authorized, row, cache, requests, made, stored, routed>>

\* TikTok makes a set for an advertiser that asked for one.
Make(a, s) ==
  /\ Fresh(s)
  /\ owner' = [owner EXCEPT ![s] = a]
  /\ made' = made \cup {s}

\* Mutant of Created: POST /event-sets leaves the storing to create().
CreatedOnly(r, s) ==
  IF req[r].kind = "provision" THEN GotoStore(r, s, "auto_created") ELSE Reply(r)

\* provision() stores what it created; POST /event-sets goes on to select() it.
Created(r, s) ==
  IF req[r].kind = "provision"
  THEN GotoStore(r, s, "auto_created")
  ELSE req' = [req EXCEPT ![r].pc = "list", ![r].set = s]

Create(r, s) ==
  /\ At(r, "create")
  /\ Make(Adv(r), s)
  /\ Created(r, s)
  /\ NoFault
  /\ UNCHANGED <<authorized, row, cache, requests, stored, forsaken, routed>>

\* The call rejects, whether TikTok made the set or not.
CreateFails(r) ==
  /\ At(r, "create")
  /\ Fault
  /\ Reply(r)
  /\ \/ \E s \in Sets : Make(Adv(r), s) /\ forsaken' = forsaken \cup {s}
     \/ UNCHANGED <<owner, made, forsaken>>
  /\ UNCHANGED <<authorized, row, cache, requests, stored, routed>>

\* INSERT ... ON CONFLICT (advertiser_id) DO UPDATE: the last writer wins.
Upsert(a, s, source) ==
  /\ row' = [row EXCEPT ![a] = [set |-> s, source |-> source]]
  /\ stored' = [stored EXCEPT ![a] = @ \cup {s}]

Store(r) ==
  /\ At(r, "store")
  /\ Upsert(Adv(r), req[r].set, req[r].source)
  /\ Goto(r, "warm")
  /\ NoFault
  /\ UNCHANGED <<owner, authorized, cache, requests, made, forsaken, routed>>

\* Mutant of StoreFails: the exception is swallowed and the cache warmed.
StoreSwallows(r) ==
  /\ At(r, "store")
  /\ Fault
  /\ Goto(r, "warm")
  /\ UNCHANGED <<owner, authorized, row, cache, requests, history>>

StoreFails(r) ==
  /\ At(r, "store")
  /\ Fault
  /\ \/ Upsert(Adv(r), req[r].set, req[r].source) /\ UNCHANGED forsaken
     \/ Forsake({r}) /\ UNCHANGED <<row, stored>>
  /\ Reply(r)
  /\ UNCHANGED <<owner, authorized, cache, requests, made, routed>>

-----------------------------------------------------------------------------
\* resolve(), and the write to the cache it shares with store().

CacheHit(r) ==
  /\ At(r, "getCache")
  /\ cache[Adv(r)] # NoSet
  /\ Route(r, cache[Adv(r)])
  /\ Reply(r)
  /\ NoFault
  /\ UNCHANGED <<owner, authorized, row, cache, requests, made, stored, forsaken>>

CacheMiss(r) ==
  /\ At(r, "getCache")
  /\ (cache[Adv(r)] = NoSet /\ NoFault) \/ Fault
  /\ Goto(r, "getRow")
  /\ UNCHANGED <<owner, authorized, row, cache, requests, history>>

\* Mutant of RowFound: rows.length is not looked at.
RowAssumed(r) ==
  /\ At(r, "getRow")
  /\ req' = [req EXCEPT ![r].pc = "warm", ![r].set = row[Adv(r)].set]
  /\ NoFault
  /\ UNCHANGED <<owner, authorized, row, cache, requests, history>>

RowFound(r) ==
  /\ At(r, "getRow")
  /\ row[Adv(r)] # NoRow
  /\ req' = [req EXCEPT ![r].pc = "warm", ![r].set = row[Adv(r)].set]
  /\ NoFault
  /\ UNCHANGED <<owner, authorized, row, cache, requests, history>>

\* No row: the env variable, or an exception that the pipeline catches.  A
\* query that rejects is such an exception too: the pipeline then falls back
\* to the env variable although there may be a row.
Fallback(r) ==
  /\ At(r, "getRow")
  /\ (row[Adv(r)] = NoRow /\ NoFault) \/ Fault
  /\ Route(r, EnvSet)
  /\ Reply(r)
  /\ UNCHANGED <<owner, authorized, row, cache, requests, made, stored, forsaken>>

\* The last await of store() and of resolve(); its exception is swallowed.
WarmCache(r) ==
  /\ At(r, "warm")
  /\ (SetCache(Adv(r), req[r].set) /\ NoFault) \/ (UNCHANGED cache /\ Fault)
  /\ Route(r, req[r].set)
  /\ Reply(r)
  /\ UNCHANGED <<owner, authorized, row, requests, made, stored, forsaken>>

-----------------------------------------------------------------------------
\* The outside: the hour of the cache key, and TikTok's own Events Manager.

\* Mutant of Expire: SET without EX.
NeverExpires(a) == FALSE /\ UNCHANGED vars

Expire(a) ==
  /\ cache[a] # NoSet
  /\ SetCache(a, NoSet)
  /\ UNCHANGED <<owner, authorized, row, req, requests, faults, history>>

CreateElsewhere(a, s) ==
  /\ Fresh(s)
  /\ owner' = [owner EXCEPT ![s] = a]
  /\ UNCHANGED <<authorized, row, cache, req, requests, faults, history>>

\* The process ends and docker starts it again: the requests are gone, each with
\* its last call answered or not, and no request knows what the others did.
Exit ==
  /\ Fault
  /\ req' = [r \in Requests |-> NoRequest]
  /\ Forsake(Requests)
  /\ UNCHANGED <<owner, authorized, row, cache, requests, made, stored, routed>>

RequestStep(r) ==
  \/ ListForProvision(r) \/ ListForSelect(r) \/ ListFails(r)
  \/ \E s \in Sets : Create(r, s)
  \/ CreateFails(r) \/ Store(r) \/ StoreFails(r)
  \/ CacheHit(r) \/ CacheMiss(r) \/ RowFound(r) \/ Fallback(r) \/ WarmCache(r)

Arrive(r, a) ==
  \/ PostProvision(r, a) \/ PostCreate(r, a) \/ \E s \in Sets : PostSelect(r, a, s)
  \/ GetActive(r, a) \/ ProcessLead(r, a)

Next ==
  \/ \E r \in Requests : RequestStep(r) \/ \E a \in Advertisers : Arrive(r, a)
  \/ Exit
  \/ \E a \in Advertisers : Authorize(a) \/ Expire(a) \/ \E s \in Sets : CreateElsewhere(a, s)

Spec == Init /\ [][Next]_vars

\* Every await settles (TikTok may be out of ids to hand out in the model, so a
\* create may also wait), and Redis drops a key when its hour is over.
Fairness ==
  /\ \A r \in Requests : WF_vars(RequestStep(r))
  /\ \A a \in Advertisers : WF_vars(Expire(a))

FairSpec == Spec /\ Fairness

-----------------------------------------------------------------------------
\* Safety.

\* Whatever requests interleave, an advertiser's row, its cached value and what
\* a request is about to write name a set that TikTok lists under that very
\* advertiser: no lead is reported into another advertiser's set.
ActiveBelongs ==
  /\ \A a \in Advertisers :
       /\ row[a] # NoRow => owner[row[a].set] = a
       /\ cache[a] # NoSet => owner[cache[a]] = a
  /\ \A r \in Requests : req[r].pc \in {"store", "warm"} => owner[req[r].set] = Adv(r)

\* The cache is only ever warmed with what Postgres holds or has held: when the
\* INSERT failed, no reader sees the set that was not stored, and the pipeline
\* reports an advertiser's lead into a set that was that advertiser's active one
\* at some time, or into the env fallback.
RoutedToOwn ==
  \A a \in Advertisers :
    /\ cache[a] # NoSet => cache[a] \in stored[a]
    /\ routed[a] \subseteq stored[a] \cup {EnvSet}

\* A set that TikTok made and nobody stored has a failure of its own to show: the
\* request that had it made is still carrying it to its store, or one of that
\* request's calls rejected, or the process ended under it.  No other request, with
\* or without failures, takes a set from the one that made it.
OrphansNeedFaults ==
  \A s \in made :
    \/ s \in stored[owner[s]] \/ s \in forsaken
    \/ \E r \in Requests : Carries(r, s)

-----------------------------------------------------------------------------
\* Strengthenings that make the safety properties inductive.

\* What a row held stays its advertiser's; a row, and what is warmed, was stored.
StoredBelongs ==
  /\ \A a \in Advertisers : \A s \in stored[a] : owner[s] = a
  /\ \A a \in Advertisers : row[a] # NoRow => row[a].set \in stored[a]
  /\ \A r \in Requests : At(r, "warm") => req[r].set \in stored[Adv(r)]

\* Who carries a set to its store carries it to the advertiser it was made for.
MadeIsFollowed ==
  /\ \A s \in made : owner[s] # Nobody
  /\ \A r \in Requests : At(r, "create") => req[r].kind \in {"provision", "create"}
  /\ \A s \in made :
       \/ s \in stored[owner[s]] \/ s \in forsaken
       \/ \E r \in Requests : Carries(r, s) /\ Adv(r) = owner[s]

\* An automatic choice is a provision's, which saw no other set.
AutomaticChoice ==
  \A r \in Requests :
    /\ req[r].kind = "provision" /\ req[r].pc \in {"list", "create"} => req[r].listed = {}
    /\ At(r, "store") /\ req[r].source # "manually_selected" =>
         req[r].kind = "provision" /\ req[r].listed \subseteq {req[r].set}

Inv ==
  /\ TypeOK
  /\ ActiveBelongs /\ RoutedToOwn /\ OrphansNeedFaults
  /\ StoredBelongs /\ MadeIsFollowed /\ AutomaticChoice

-----------------------------------------------------------------------------
\* Action and liveness properties.

\* An automatic choice replaces a manual one only if the provision that makes
\* it listed the advertiser's sets before the chosen one existed.
ManualSelectionStands ==
  [][\A a \in Advertisers :
       /\ row[a].source = "manually_selected"
       /\ row'[a].source # "manually_selected"
       /\ row'[a].set # row[a].set
       => \E r \in Requests : /\ req[r].kind = "provision" /\ At(r, "store") /\ Adv(r) = a
                              /\ row[a].set \notin req[r].listed]_vars

\* A stale cache entry, as concurrent writers leave behind, does not outlive its
\* hour: once requests stop arriving, the cache agrees with Postgres for good.
CacheConverges == <>[](\A a \in Advertisers : cache[a] \in {NoSet, row[a].set})

=============================================================================
