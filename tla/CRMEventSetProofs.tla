-------------------------- MODULE CRMEventSetProofs --------------------------
(***************************************************************************)
(* Proofs about CRMEventSetManager: no lead is reported into another       *)
(* advertiser's set, no set made is forgotten without a fault, and an      *)
(* automatic choice replaces a manual one only when it could not have seen *)
(* it, for any number of advertisers, sets, requests and faults.           *)
(***************************************************************************)
EXTENDS CRMEventSetManager, FiniteSetTheorems, TLAPS

(***************************************************************************)
(* How a request moves on.                                                 *)
(***************************************************************************)
\* The request goes to another await with what it chose, for whom it was.
Moved(r, await, s, source, listed) ==
  req' = [req EXCEPT ![r] = [pc |-> await, kind |-> req[r].kind, adv |-> Adv(r), set |-> s,
                             source |-> source, listed |-> listed]]

LEMMA RequestType ==
  ASSUME TypeOK, NEW r \in Requests
  PROVE  /\ req[r] \in Request <=> req[r].pc # "none"
         /\ req[r].pc = "none" => req[r] = NoRequest
         /\ NoRequest.pc = "none" /\ NoRequest.set = NoSet
BY DEF TypeOK, Request, NoRequest, Awaits

\* The three ways the code moves a request, in one form.
LEMMA MovesOn ==
  ASSUME TypeOK, NEW r \in Requests, req[r].pc # "none", NEW await, NEW s, NEW source, NEW listed
  PROVE  /\ Goto(r, await) => Moved(r, await, req[r].set, req[r].source, req[r].listed)
         /\ GotoStore(r, s, source) => Moved(r, "store", s, source, req[r].listed)
         /\ req' = [req EXCEPT ![r].pc = await, ![r].set = s] =>
              Moved(r, await, s, req[r].source, req[r].listed)
         /\ req' = [req EXCEPT ![r].pc = await, ![r].set = s, ![r].source = source, ![r].listed = listed] =>
              Moved(r, await, s, source, listed)
<1>1. req[r] \in Request /\ req \in [Requests -> Request \cup {NoRequest}]
  BY RequestType DEF TypeOK
<1> QED
  BY <1>1 DEF Goto, GotoStore, Moved, Adv, Request

\* Every step of a request, and where it goes.
LEMMA RequestMoves ==
  ASSUME TypeOK, NEW r \in Requests, RequestStep(r)
  PROVE  /\ req[r].pc # "none" /\ Adv(r) \in Advertisers
         /\ \/ Reply(r)
            \/ /\ ListForProvision(r)
               /\ Moved(r, "create", req[r].set, req[r].source, req[r].listed)
            \/ \E s \in Sets : /\ ListForProvision(r) /\ Owned(Adv(r)) = {s}
                               /\ Moved(r, "store", s, "auto_selected", {s})
            \/ /\ ListForSelect(r) /\ req[r].set \in Owned(Adv(r))
               /\ Moved(r, "store", req[r].set, "manually_selected", req[r].listed)
            \/ \E s \in Sets : /\ Create(r, s) /\ req[r].kind = "provision"
                               /\ Moved(r, "store", s, "auto_created", req[r].listed)
            \/ \E s \in Sets : /\ Create(r, s) /\ req[r].kind # "provision"
                               /\ Moved(r, "list", s, req[r].source, req[r].listed)
            \/ Store(r) /\ Moved(r, "warm", req[r].set, req[r].source, req[r].listed)
            \/ CacheMiss(r) /\ Moved(r, "getRow", req[r].set, req[r].source, req[r].listed)
            \/ RowFound(r) /\ Moved(r, "warm", row[Adv(r)].set, req[r].source, req[r].listed)
<1>1. req[r].pc # "none"
  BY DEF RequestStep, ListForProvision, ListForSelect, ListFails, Create, CreateFails, Store,
     StoreFails, CacheHit, CacheMiss, RowFound, Fallback, WarmCache, At
<1>2. Adv(r) \in Advertisers
  BY <1>1, RequestType DEF Adv, Request
<1>3. ListFails(r) \/ CreateFails(r) \/ StoreFails(r) \/ CacheHit(r) \/ Fallback(r) \/ WarmCache(r) => Reply(r)
  BY DEF ListFails, CreateFails, StoreFails, CacheHit, Fallback, WarmCache
<1>4. ASSUME ListForProvision(r)
      PROVE  \/ Reply(r)
             \/ Moved(r, "create", req[r].set, req[r].source, req[r].listed)
             \/ \E s \in Sets : /\ Owned(Adv(r)) = {s}
                                /\ Moved(r, "store", s, "auto_selected", {s})
  <2>1. \/ Reply(r) \/ Goto(r, "create")
        \/ \E s \in Owned(Adv(r)) :
             /\ Owned(Adv(r)) = {s}
             /\ req' = [req EXCEPT ![r].pc = "store", ![r].set = s,
                                   ![r].source = "auto_selected", ![r].listed = {s}]
    BY <1>4 DEF ListForProvision, OnlyChoice
  <2> QED
    BY <1>1, <2>1, MovesOn DEF Owned
<1>5. ASSUME ListForSelect(r)
      PROVE  \/ Reply(r)
             \/ /\ req[r].set \in Owned(Adv(r))
                /\ Moved(r, "store", req[r].set, "manually_selected", req[r].listed)
  BY <1>1, <1>5, MovesOn DEF ListForSelect, Belongs
<1>6. ASSUME NEW s \in Sets, Create(r, s)
      PROVE  IF req[r].kind = "provision"
             THEN Moved(r, "store", s, "auto_created", req[r].listed)
             ELSE Moved(r, "list", s, req[r].source, req[r].listed)
  BY <1>1, <1>6, MovesOn DEF Create, Created
<1>7. Store(r) => Moved(r, "warm", req[r].set, req[r].source, req[r].listed)
  BY <1>1, MovesOn DEF Store
<1>8. CacheMiss(r) => Moved(r, "getRow", req[r].set, req[r].source, req[r].listed)
  BY <1>1, MovesOn DEF CacheMiss
<1>9. RowFound(r) => Moved(r, "warm", row[Adv(r)].set, req[r].source, req[r].listed)
  BY <1>1, MovesOn DEF RowFound
<1> QED
  BY <1>1, <1>2, <1>3, <1>4, <1>5, <1>6, <1>7, <1>8, <1>9 DEF RequestStep

\* Every step is a request's, an arrival, an exit, or one from outside.
LEMMA StepKinds ==
  ASSUME [Next]_vars
  PROVE  \/ \E r \in Requests : RequestStep(r)
         \/ \E r \in Requests, a \in Advertisers, kind \in Kinds, s \in Sets \cup {NoSet} :
              /\ Begin(r, a, kind, IF kind \in {"provision", "select"} THEN "list"
                                   ELSE IF kind = "create" THEN "create" ELSE "getCache", s)
         \/ Exit
         \/ \E a \in Advertisers : Authorize(a) \/ Expire(a) \/ \E s \in Sets : CreateElsewhere(a, s)
         \/ UNCHANGED vars
<1>1. ASSUME NEW r \in Requests, NEW a \in Advertisers, Arrive(r, a)
      PROVE  \E kind \in Kinds, s \in Sets \cup {NoSet} :
               Begin(r, a, kind, IF kind \in {"provision", "select"} THEN "list"
                                 ELSE IF kind = "create" THEN "create" ELSE "getCache", s)
  BY <1>1 DEF Arrive, PostProvision, PostCreate, PostSelect, GetActive, ProcessLead, Kinds
<1> QED
  BY <1>1 DEF Next

(***************************************************************************)
(* What a step does to the sets: an owner is for good, rows and caches are *)
(* written with what a request is about to write, and nothing stored or    *)
(* made is taken off the record.                                           *)
(***************************************************************************)
LEMMA OwnersStay ==
  ASSUME TypeOK, [Next]_vars
  PROVE  /\ owner' \in [Sets -> Advertisers \cup {Nobody}]
         /\ made' \in SUBSET Sets
         /\ \A s \in Sets : owner[s] # Nobody => owner'[s] = owner[s]
         /\ made \subseteq made'
         /\ \A s \in made' \ made : owner'[s] # Nobody
<1> DEFINE Kept == /\ owner' \in [Sets -> Advertisers \cup {Nobody}]
                   /\ made' \in SUBSET Sets
                   /\ \A s \in Sets : owner[s] # Nobody => owner'[s] = owner[s]
                   /\ made \subseteq made'
                   /\ \A s \in made' \ made : owner'[s] # Nobody
<1> USE DEF TypeOK
<1>1. ASSUME NEW a \in Advertisers, NEW s \in Sets, Make(a, s) PROVE Kept
  BY <1>1, EventSetAssumption DEF Make, Fresh
<1>2. ASSUME NEW a \in Advertisers, NEW s \in Sets, CreateElsewhere(a, s) PROVE Kept
  BY <1>2 DEF CreateElsewhere, Fresh, history
<1>3. CASE UNCHANGED <<owner, made>>
  BY <1>3
<1>4. ASSUME NEW r \in Requests, RequestStep(r)
      PROVE  UNCHANGED <<owner, made>> \/ \E s \in Sets : Make(Adv(r), s)
  BY <1>4 DEF RequestStep, ListForProvision, ListForSelect, ListFails, Create, CreateFails, Store,
     StoreFails, CacheHit, CacheMiss, RowFound, Fallback, WarmCache, history
<1>5. ASSUME NEW r \in Requests, RequestStep(r) PROVE Kept
  BY <1>1, <1>3, <1>4, <1>5, RequestMoves
<1> QED
  BY <1>2, <1>3, <1>5, StepKinds DEF Begin, Exit, Authorize, Expire, history, vars

\* A row is written only by a request at store(), with what it is about to store.
LEMMA RowsMove ==
  ASSUME TypeOK, [Next]_vars, NEW a \in Advertisers
  PROVE  \/ row'[a] = row[a] /\ stored'[a] = stored[a]
         \/ \E r \in Requests :
              /\ At(r, "store") /\ Adv(r) = a /\ RequestStep(r)
              /\ row'[a] = [set |-> req[r].set, source |-> req[r].source]
              /\ stored'[a] = stored[a] \cup {req[r].set}
<1> USE DEF TypeOK
<1>1. ASSUME NEW r \in Requests, RequestStep(r)
      PROVE  \/ UNCHANGED <<row, stored>>
             \/ At(r, "store") /\ Upsert(Adv(r), req[r].set, req[r].source)
  BY <1>1 DEF RequestStep, ListForProvision, ListForSelect, ListFails, Create, CreateFails, Store,
     StoreFails, CacheHit, CacheMiss, RowFound, Fallback, WarmCache, history
<1>2. ASSUME NEW r \in Requests, RequestStep(r), At(r, "store"), Upsert(Adv(r), req[r].set, req[r].source)
      PROVE  \/ row'[a] = row[a] /\ stored'[a] = stored[a]
             \/ /\ Adv(r) = a
                /\ row'[a] = [set |-> req[r].set, source |-> req[r].source]
                /\ stored'[a] = stored[a] \cup {req[r].set}
  BY <1>2 DEF Upsert
<1> QED
  BY <1>1, <1>2, StepKinds DEF Begin, Exit, Authorize, Expire, CreateElsewhere, history, vars

\* A cache key is written only by a request at its last await.
LEMMA CachesMove ==
  ASSUME TypeOK, [Next]_vars, NEW a \in Advertisers
  PROVE  \/ cache'[a] = cache[a]
         \/ cache'[a] = NoSet
         \/ \E r \in Requests : At(r, "warm") /\ Adv(r) = a /\ cache'[a] = req[r].set
<1> USE DEF TypeOK
<1>1. ASSUME NEW r \in Requests, RequestStep(r)
      PROVE  UNCHANGED cache \/ (At(r, "warm") /\ SetCache(Adv(r), req[r].set))
  BY <1>1 DEF RequestStep, ListForProvision, ListForSelect, ListFails, Create, CreateFails, Store,
     StoreFails, CacheHit, CacheMiss, RowFound, Fallback, WarmCache, history
<1>2. ASSUME NEW b \in Advertisers, Expire(b) PROVE cache'[a] = cache[a] \/ cache'[a] = NoSet
  BY <1>2 DEF Expire, SetCache
<1> QED
  BY <1>1, <1>2, StepKinds DEF SetCache, Begin, Exit, Authorize, CreateElsewhere, vars

\* The pipeline is told what is cached, what it warms the cache with, or to fall back.
LEMMA RoutesMove ==
  ASSUME TypeOK, [Next]_vars, NEW a \in Advertisers
  PROVE  \/ routed'[a] = routed[a]
         \/ routed'[a] = routed[a] \cup {EnvSet}
         \/ cache[a] # NoSet /\ routed'[a] = routed[a] \cup {cache[a]}
         \/ \E r \in Requests :
              At(r, "warm") /\ Adv(r) = a /\ routed'[a] = routed[a] \cup {req[r].set}
<1> USE DEF TypeOK
<1>1. ASSUME NEW r \in Requests, RequestStep(r)
      PROVE  \/ UNCHANGED routed \/ Route(r, EnvSet)
             \/ cache[Adv(r)] # NoSet /\ Route(r, cache[Adv(r)])
             \/ At(r, "warm") /\ Route(r, req[r].set)
  BY <1>1 DEF RequestStep, ListForProvision, ListForSelect, ListFails, Create, CreateFails, Store,
     StoreFails, CacheHit, CacheMiss, RowFound, Fallback, WarmCache, history
<1>2. ASSUME NEW r \in Requests, NEW s, Route(r, s)
      PROVE  routed'[a] = routed[a] \/ (Adv(r) = a /\ routed'[a] = routed[a] \cup {s})
  <2>1. routed' = routed \/ routed' = [routed EXCEPT ![Adv(r)] = routed[Adv(r)] \cup {s}]
    BY <1>2 DEF Route
  <2> QED
    BY <2>1
<1> QED
  BY <1>1, <1>2, StepKinds DEF Begin, Exit, Authorize, Expire, CreateElsewhere, history, vars

-----------------------------------------------------------------------------
(***************************************************************************)
(* Types.                                                                  *)
(***************************************************************************)
RequestTypeOK ==
  /\ req \in [Requests -> Request \cup {NoRequest}]
  /\ \A r \in Requests : req[r].pc \in {"store", "warm"} => req[r].set \in Sets
  /\ \A r \in Requests : req[r].pc = "store" => req[r].source \in Sources

LEMMA RequestTypeStep ==
  ASSUME TypeOK, [Next]_vars
  PROVE  RequestTypeOK'
<1> USE DEF TypeOK
<1>1. ASSUME NEW r \in Requests, Reply(r) PROVE RequestTypeOK'
  BY <1>1, RequestType DEF Reply, RequestTypeOK
<1>2. ASSUME NEW r \in Requests, NEW await \in Awaits, NEW kind \in Kinds, NEW a \in Advertisers,
             NEW s \in Sets \cup {NoSet}, NEW source \in Sources \cup {"none"}, NEW listed \in SUBSET Sets,
             await \in {"store", "warm"} => s \in Sets,
             await = "store" => source \in Sources,
             req' = [req EXCEPT ![r] = [pc |-> await, kind |-> kind, adv |-> a, set |-> s,
                                        source |-> source, listed |-> listed]]
      PROVE  RequestTypeOK'
  <2> DEFINE new == [pc |-> await, kind |-> kind, adv |-> a, set |-> s, source |-> source, listed |-> listed]
  <2>1. new \in Request /\ new.pc = await /\ new.set = s /\ new.source = source
    BY DEF Request
  <2>2. req' = [req EXCEPT ![r] = new]
    BY <1>2
  <2> HIDE DEF new
  <2> QED
    BY <1>2, <2>1, <2>2 DEF RequestTypeOK
<1>3. ASSUME NEW r \in Requests, RequestStep(r) PROVE RequestTypeOK'
  <2>1. /\ req[r] \in Request /\ Adv(r) \in Advertisers
        /\ req[r].kind \in Kinds /\ req[r].set \in Sets \cup {NoSet}
        /\ req[r].source \in Sources \cup {"none"} /\ req[r].listed \in SUBSET Sets
    BY <1>3, RequestMoves, RequestType DEF Request
  <2>2. ASSUME NEW await \in Awaits, NEW s \in Sets \cup {NoSet}, NEW source \in Sources \cup {"none"},
               NEW listed \in SUBSET Sets,
               await \in {"store", "warm"} => s \in Sets,
               await = "store" => source \in Sources,
               Moved(r, await, s, source, listed)
        PROVE  RequestTypeOK'
    BY <1>2, <2>1, <2>2 DEF Moved
  <2>3. /\ Store(r) => req[r].set \in Sets
        /\ RowFound(r) => row[Adv(r)].set \in Sets
    BY <2>1 DEF Store, RowFound, At, NoRow
  <2>4. \/ Reply(r)
        \/ \E await \in Awaits, s \in Sets \cup {NoSet}, source \in Sources \cup {"none"}, listed \in SUBSET Sets :
             /\ await \in {"store", "warm"} => s \in Sets
             /\ await = "store" => source \in Sources
             /\ Moved(r, await, s, source, listed)
    BY <1>3, <2>1, <2>3, RequestMoves DEF Awaits, Sources, Owned
  <2> QED
    BY <1>1, <2>2, <2>4
<1>4. ASSUME NEW r \in Requests, NEW a \in Advertisers, NEW kind \in Kinds, NEW s \in Sets \cup {NoSet},
             Begin(r, a, kind, IF kind \in {"provision", "select"} THEN "list"
                               ELSE IF kind = "create" THEN "create" ELSE "getCache", s)
      PROVE  RequestTypeOK'
  <2> DEFINE await == IF kind \in {"provision", "select"} THEN "list"
                      ELSE IF kind = "create" THEN "create" ELSE "getCache"
  <2>1. await \in Awaits \ {"store", "warm"}
    BY DEF Awaits
  <2>2. req' = [req EXCEPT ![r] = [pc |-> await, kind |-> kind, adv |-> a, set |-> s,
                                   source |-> "none", listed |-> {}]]
    BY <1>4 DEF Begin
  <2> HIDE DEF await
  <2>3. /\ await \in Awaits /\ (await \in {"store", "warm"} => s \in Sets)
        /\ await = "store" => "none" \in Sources
        /\ {} \in SUBSET Sets /\ "none" \in Sources \cup {"none"}
    BY <2>1
  <2> QED
    BY <1>2, <2>2, <2>3
<1>5. CASE Exit
  BY <1>5, RequestType DEF Exit, RequestTypeOK, NoRequest
<1>6. CASE UNCHANGED req
  BY <1>6 DEF RequestTypeOK
<1> QED
  BY <1>3, <1>4, <1>5, <1>6, StepKinds DEF Authorize, Expire, CreateElsewhere, vars

LEMMA TypeStep == TypeOK /\ [Next]_vars => TypeOK'
<1> SUFFICES ASSUME TypeOK, [Next]_vars PROVE TypeOK'
  OBVIOUS
<1> USE DEF TypeOK
<1>1. owner' \in [Sets -> Advertisers \cup {Nobody}] /\ made' \in SUBSET Sets
  BY OwnersStay
<1>2. ASSUME NEW r \in Requests, RequestStep(r)
      PROVE  UNCHANGED <<authorized, requests>> /\ (NoFault \/ Fault)
  BY <1>2 DEF RequestStep, ListForProvision, ListForSelect, ListFails, Create, CreateFails, Store,
     StoreFails, CacheHit, CacheMiss, RowFound, Fallback, WarmCache
<1>3. /\ authorized' \in SUBSET Advertisers
      /\ requests' = requests \/ (requests < MaxRequests /\ requests' = requests + 1)
      /\ NoFault \/ Fault
  BY <1>2, StepKinds DEF Begin, Exit, Authorize, Expire, CreateElsewhere, vars, NoFault
<1>8. requests' \in 0 .. MaxRequests /\ faults' \in 0 .. MaxFaults
  BY <1>3, EventSetAssumption DEF Fault, NoFault
<1>4. RequestTypeOK'
  BY RequestTypeStep
<1>5. row' \in [Advertisers -> [set : Sets, source : Sources] \cup {NoRow}] /\ stored' \in [Advertisers -> SUBSET Sets]
  <2>1. ASSUME NEW r \in Requests, RequestStep(r), At(r, "store")
        PROVE  req[r].set \in Sets /\ req[r].source \in Sources
    BY <2>1 DEF At
  <2>2. ASSUME NEW a \in Advertisers
        PROVE  row'[a] \in [set : Sets, source : Sources] \cup {NoRow} /\ stored'[a] \in SUBSET Sets
    <3>1. CASE row'[a] = row[a] /\ stored'[a] = stored[a]
      BY <3>1
    <3>2. CASE \E s \in Sets, source \in Sources :
                 row'[a] = [set |-> s, source |-> source] /\ stored'[a] = stored[a] \cup {s}
      BY <3>2
    <3> QED
      BY <2>1, <3>1, <3>2, RowsMove
  <2>3. \/ UNCHANGED <<row, stored>>
        \/ \E a, s, source : Upsert(a, s, source)
    BY DEF RequestStep, ListForProvision, ListForSelect, ListFails, Create, CreateFails, Store,
     StoreFails, CacheHit, CacheMiss, RowFound, Fallback, WarmCache, Next, Arrive, PostProvision, PostCreate,
     PostSelect, GetActive, ProcessLead, Begin, Exit, Authorize, Expire, CreateElsewhere, vars, history
  <2>4. /\ row' = [a \in Advertisers |-> row'[a]] /\ stored' = [a \in Advertisers |-> stored'[a]]
    BY <2>3 DEF Upsert
  <2> QED
    BY <2>2, <2>4
<1>6. cache' \in [Advertisers -> Sets \cup {NoSet}]
  <2>1. \A a \in Advertisers : cache'[a] \in Sets \cup {NoSet}
    BY CachesMove DEF At
  <2>2. UNCHANGED cache \/ \E a, s : SetCache(a, s)
    BY DEF RequestStep, ListForProvision, ListForSelect, ListFails, Create, CreateFails, Store,
     StoreFails, CacheHit, CacheMiss, RowFound, Fallback, WarmCache, Next, Arrive, PostProvision, PostCreate,
     PostSelect, GetActive, ProcessLead, Begin, Exit, Authorize, Expire, CreateElsewhere, vars, history
  <2>3. cache' = [a \in Advertisers |-> cache'[a]]
    BY <2>2 DEF SetCache
  <2> QED
    BY <2>1, <2>3
<1>9. forsaken' \in SUBSET Sets
  <2>1. ASSUME NEW r \in Requests, RequestStep(r) PROVE forsaken' \in SUBSET Sets
    BY <2>1 DEF RequestStep, ListForProvision, ListForSelect, ListFails, Create, CreateFails, Store,
       StoreFails, CacheHit, CacheMiss, RowFound, Fallback, WarmCache, history, Forsake
  <2> QED
    BY <2>1, StepKinds DEF Begin, Exit, Authorize, Expire, CreateElsewhere, vars, history, Forsake
<1>7. routed' \in [Advertisers -> SUBSET (Sets \cup {EnvSet, NoSet})]
  <2>1. \A a \in Advertisers : routed'[a] \in SUBSET (Sets \cup {EnvSet, NoSet})
    BY RoutesMove DEF At
  <2>2. UNCHANGED routed \/ \E r, s : Route(r, s)
    BY DEF RequestStep, ListForProvision, ListForSelect, ListFails, Create, CreateFails, Store,
     StoreFails, CacheHit, CacheMiss, RowFound, Fallback, WarmCache, Next, Arrive, PostProvision, PostCreate,
     PostSelect, GetActive, ProcessLead, Begin, Exit, Authorize, Expire, CreateElsewhere, vars, history
  <2>3. routed' = [a \in Advertisers |-> routed'[a]]
    BY <2>2 DEF Route
  <2> QED
    BY <2>1, <2>3
<1> QED
  BY <1>1, <1>9, <1>3, <1>4, <1>5, <1>6, <1>7, <1>8 DEF RequestTypeOK

\* Rows, caches and requests hold sets of TikTok's and sources of the code's, never
\* a gap where provisioning, selection or resolution expects a set.
THEOREM TypeCorrect == Spec => []TypeOK
<1>1. Init => TypeOK
  BY EventSetAssumption DEF Init, TypeOK, NoRequest
<1> QED
  BY <1>1, TypeStep, PTL DEF Spec

-----------------------------------------------------------------------------
(***************************************************************************)
(* The invariant, part by part.                                            *)
(***************************************************************************)
\* A request that is about to store or to warm got its set from TikTok's list
\* for its advertiser, from TikTok's answer to its create, or from the row.
LEMMA CarriedBelongs ==
  ASSUME TypeOK, ActiveBelongs, StoredBelongs, [Next]_vars,
         NEW r \in Requests, req'[r].pc \in {"store", "warm"}
  PROVE  /\ owner'[req'[r].set] = Adv(r)'
         /\ At(r, "warm")' => req'[r].set \in stored'[Adv(r)']
<1> USE DEF TypeOK
<1> DEFINE Carried == /\ owner'[req'[r].set] = Adv(r)'
                      /\ At(r, "warm")' => req'[r].set \in stored'[Adv(r)']
<1>1. /\ \A a \in Advertisers : stored[a] \subseteq stored'[a]
      /\ \A s \in Sets : owner[s] # Nobody => owner'[s] = owner[s]
      /\ req[r].pc # "none" => Adv(r) \in Advertisers
      /\ \A a \in Advertisers : a # Nobody
  <2>1. \A a \in Advertisers : stored[a] \subseteq stored'[a]
    BY RowsMove
  <2>2. \A s \in Sets : owner[s] # Nobody => owner'[s] = owner[s]
    BY OwnersStay
  <2>3. req[r].pc # "none" => Adv(r) \in Advertisers
    BY RequestType DEF Adv, Request
  <2> QED
    BY <2>1, <2>2, <2>3, EventSetAssumption
<1>2. ASSUME req'[r] = req[r] PROVE Carried
  BY <1>1, <1>2 DEF ActiveBelongs, StoredBelongs, At, Adv
<1>3. ASSUME RequestStep(r) PROVE Carried
  <2>1. ASSUME NEW await, NEW s, NEW source, NEW listed, Moved(r, await, s, source, listed)
        PROVE  /\ req'[r].pc = await /\ req'[r].set = s /\ Adv(r)' = Adv(r)
               /\ At(r, "warm")' <=> await = "warm"
    BY <2>1 DEF Moved, Adv, At
  <2>2. Adv(r) \in Advertisers
    BY <1>3, RequestMoves
  <2>3. ~Reply(r)
    BY RequestType DEF Reply
  <2>4. ASSUME NEW s \in Sets, owner[s] = Adv(r), NEW source, NEW listed, Moved(r, "store", s, source, listed)
        PROVE  Carried
    BY <1>1, <2>1, <2>2, <2>4
  <2>5. ASSUME NEW s \in Sets, Create(r, s), NEW source, NEW listed, Moved(r, "store", s, source, listed)
        PROVE  Carried
    BY <1>1, <2>1, <2>2, <2>5 DEF Create, Make
  <2>6. ASSUME Store(r), NEW source, NEW listed, Moved(r, "warm", req[r].set, source, listed)
        PROVE  Carried
    <3>1. /\ req[r].set \in Sets /\ owner[req[r].set] = Adv(r)
          /\ stored' = [stored EXCEPT ![Adv(r)] = @ \cup {req[r].set}]
      BY <2>6 DEF Store, Upsert, At, ActiveBelongs
    <3> QED
      BY <1>1, <2>1, <2>2, <2>6, <3>1
  <2>7. ASSUME RowFound(r), NEW source, NEW listed, Moved(r, "warm", row[Adv(r)].set, source, listed)
        PROVE  Carried
    <3>1. row[Adv(r)].set \in Sets /\ owner[row[Adv(r)].set] = Adv(r) /\ row[Adv(r)].set \in stored[Adv(r)]
      BY <2>2, <2>7 DEF RowFound, ActiveBelongs, StoredBelongs
    <3> QED
      BY <1>1, <2>1, <2>2, <2>7, <3>1
  <2>8. ASSUME NEW await \in Awaits \ {"store", "warm"}, NEW s, NEW source, NEW listed,
               Moved(r, await, s, source, listed)
        PROVE  Carried
    BY <2>1, <2>8
  <2>9. \A s \in Sets : Owned(Adv(r)) = {s} \/ s \in Owned(Adv(r)) => owner[s] = Adv(r)
    BY DEF Owned
  <2>10. req[r].set \in Owned(Adv(r)) => req[r].set \in Sets
    BY DEF Owned
  <2> QED
    BY <1>3, <2>3, <2>4, <2>5, <2>6, <2>7, <2>8, <2>9, <2>10, RequestMoves DEF Awaits
<1>4. ASSUME NEW q \in Requests, RequestStep(q), q # r PROVE req'[r] = req[r]
  BY <1>4, RequestMoves DEF Reply, Moved
<1>5. ASSUME NEW q \in Requests, NEW a, NEW kind, NEW s, NEW await \in {"list", "create", "getCache"},
             Begin(q, a, kind, await, s)
      PROVE  req'[r] = req[r]
  BY <1>5 DEF Begin
<1>6. ~Exit
  BY DEF Exit, NoRequest
<1>7. ASSUME NEW q \in Requests, NEW a \in Advertisers, NEW kind \in Kinds, NEW s \in Sets \cup {NoSet},
             Begin(q, a, kind, IF kind \in {"provision", "select"} THEN "list"
                               ELSE IF kind = "create" THEN "create" ELSE "getCache", s)
      PROVE  req'[r] = req[r]
  BY <1>5, <1>7
<1> QED
  BY <1>2, <1>3, <1>4, <1>6, <1>7, StepKinds DEF Authorize, Expire, CreateElsewhere, vars

LEMMA BelongsStep ==
  ASSUME TypeOK, ActiveBelongs, StoredBelongs, RoutedToOwn, [Next]_vars
  PROVE  ActiveBelongs' /\ StoredBelongs' /\ RoutedToOwn'
<1> USE DEF TypeOK
<1>1. /\ \A a \in Advertisers : stored[a] \subseteq stored'[a]
      /\ \A s \in Sets : owner[s] # Nobody => owner'[s] = owner[s]
      /\ \A a \in Advertisers : a # Nobody
  BY RowsMove, OwnersStay, EventSetAssumption
<1>2. ASSUME NEW a \in Advertisers
      PROVE  /\ \A s \in stored'[a] : owner'[s] = a
             /\ row'[a] # NoRow => row'[a].set \in stored'[a]
  <2>1. CASE row'[a] = row[a] /\ stored'[a] = stored[a]
    BY <1>1, <2>1 DEF StoredBelongs
  <2>2. ASSUME NEW r \in Requests, At(r, "store"), Adv(r) = a,
               row'[a] = [set |-> req[r].set, source |-> req[r].source],
               stored'[a] = stored[a] \cup {req[r].set}
        PROVE  /\ \A s \in stored'[a] : owner'[s] = a
               /\ row'[a] # NoRow => row'[a].set \in stored'[a]
    <3>1. req[r].set \in Sets /\ owner[req[r].set] = a
      BY <2>2 DEF At, ActiveBelongs
    <3> QED
      BY <1>1, <2>2, <3>1 DEF StoredBelongs
  <2> QED
    BY <2>1, <2>2, RowsMove
<1>3. StoredBelongs'
  BY <1>2, CarriedBelongs DEF StoredBelongs, At
<1>4. ASSUME NEW a \in Advertisers
      PROVE  /\ cache'[a] # NoSet => cache'[a] \in stored'[a]
             /\ routed'[a] \subseteq stored'[a] \cup {EnvSet}
  <2>1. \A r \in Requests : At(r, "warm") /\ Adv(r) = a => req[r].set \in stored[a]
    BY DEF StoredBelongs
  <2>2. cache'[a] # NoSet => cache'[a] \in stored'[a]
    BY <1>1, <2>1, CachesMove DEF RoutedToOwn
  <2>3. routed'[a] \subseteq stored'[a] \cup {EnvSet}
    BY <1>1, <2>1, RoutesMove DEF RoutedToOwn
  <2> QED
    BY <2>2, <2>3
<1>5. RoutedToOwn'
  BY <1>4 DEF RoutedToOwn
<1>6. ActiveBelongs'
  <2>1. \A a \in Advertisers : cache'[a] # NoSet => owner'[cache'[a]] = a
    BY <1>2, <1>4
  <2>2. \A a \in Advertisers : row'[a] # NoRow => owner'[row'[a].set] = a
    BY <1>2
  <2> QED
    BY <2>1, <2>2, CarriedBelongs DEF ActiveBelongs
<1> QED
  BY <1>3, <1>5, <1>6

LEMMA ChoiceStep ==
  ASSUME TypeOK, AutomaticChoice, [Next]_vars
  PROVE  AutomaticChoice'
<1> USE DEF TypeOK
<1> DEFINE Told(r) ==
      /\ req[r].kind = "provision" /\ req[r].pc \in {"list", "create"} => req[r].listed = {}
      /\ At(r, "store") /\ req[r].source # "manually_selected" =>
           req[r].kind = "provision" /\ req[r].listed \subseteq {req[r].set}
<1> SUFFICES ASSUME NEW r \in Requests PROVE Told(r)'
  BY DEF AutomaticChoice
<1>1. Told(r)
  BY DEF AutomaticChoice
<1>2. ASSUME req'[r] = req[r] PROVE Told(r)'
  BY <1>1, <1>2 DEF At
<1>3. ASSUME req'[r].pc = "none" PROVE Told(r)'
  BY <1>3 DEF At
<1>4. ASSUME RequestStep(r) PROVE Told(r)'
  <2>1. ASSUME NEW await, NEW s, NEW source, NEW listed, Moved(r, await, s, source, listed)
        PROVE  /\ req'[r].pc = await /\ req'[r].set = s /\ req'[r].source = source
               /\ req'[r].listed = listed /\ req'[r].kind = req[r].kind
    BY <2>1 DEF Moved
  <2>2. Reply(r) => req'[r].pc = "none"
    BY RequestType DEF Reply
  <2>3. /\ ListForProvision(r) => req[r].kind = "provision" /\ req[r].pc = "list"
        /\ \A s \in Sets : Create(r, s) => req[r].pc = "create"
    BY DEF ListForProvision, Create, At
  <2>4. ASSUME NEW await, NEW s, NEW source, NEW listed, Moved(r, await, s, source, listed),
               req[r].kind = "provision" /\ await \in {"list", "create"} => listed = {},
               await = "store" /\ source # "manually_selected" =>
                 req[r].kind = "provision" /\ listed \subseteq {s}
        PROVE  Told(r)'
    BY <2>1, <2>4 DEF At
  <2>5. ASSUME ListForProvision(r), Moved(r, "create", req[r].set, req[r].source, req[r].listed)
        PROVE  Told(r)'
    BY <1>1, <2>3, <2>4, <2>5
  <2>6. ASSUME NEW s \in Sets, ListForProvision(r), Moved(r, "store", s, "auto_selected", {s})
        PROVE  Told(r)'
    BY <2>3, <2>4, <2>6
  <2>7. ASSUME Moved(r, "store", req[r].set, "manually_selected", req[r].listed) PROVE Told(r)'
    BY <2>4, <2>7
  <2>8. ASSUME NEW s \in Sets, Create(r, s), req[r].kind = "provision",
               Moved(r, "store", s, "auto_created", req[r].listed)
        PROVE  Told(r)'
    BY <1>1, <2>3, <2>4, <2>8
  <2>9. ASSUME NEW s \in Sets, req[r].kind # "provision", Moved(r, "list", s, req[r].source, req[r].listed)
        PROVE  Told(r)'
    BY <2>4, <2>9
  <2>10. ASSUME NEW await \in {"warm", "getRow"}, NEW s, Moved(r, await, s, req[r].source, req[r].listed)
         PROVE  Told(r)'
    BY <2>4, <2>10
  <2> QED
    BY <1>3, <1>4, <2>2, <2>5, <2>6, <2>7, <2>8, <2>9, <2>10, RequestMoves
<1>5. ASSUME NEW q \in Requests, RequestStep(q), q # r PROVE req'[r] = req[r]
  BY <1>5, RequestMoves DEF Reply, Moved
<1>6. ASSUME NEW q \in Requests, NEW a \in Advertisers, NEW kind \in Kinds, NEW s \in Sets \cup {NoSet},
             Begin(q, a, kind, IF kind \in {"provision", "select"} THEN "list"
                               ELSE IF kind = "create" THEN "create" ELSE "getCache", s)
      PROVE  Told(r)'
  <2>1. CASE q = r
    <3>1. req'[r].listed = {} /\ req'[r].pc \in {"list", "create", "getCache"}
      BY <1>6, <2>1 DEF Begin
    <3> QED
      BY <3>1 DEF At
  <2>2. CASE q # r
    BY <1>2, <1>6, <2>2 DEF Begin
  <2> QED
    BY <2>1, <2>2
<1>7. Exit => req'[r].pc = "none"
  BY DEF Exit, NoRequest
<1> QED
  BY <1>2, <1>3, <1>4, <1>5, <1>6, <1>7, StepKinds DEF Authorize, Expire, CreateElsewhere, vars

\* A set that was made is stored, or its maker goes on to its store, or fails and
\* leaves it behind.
LEMMA MadeStep ==
  ASSUME TypeOK, MadeIsFollowed, [Next]_vars
  PROVE  MadeIsFollowed'
<1> USE DEF TypeOK
<1> DEFINE Follows(r, s) == Carries(r, s) /\ Adv(r) = owner[s]
<1>1. /\ \A a \in Advertisers : stored[a] \subseteq stored'[a]
      /\ \A s \in Sets : owner[s] # Nobody => owner'[s] = owner[s]
      /\ \A s \in made' \ made : owner'[s] # Nobody
      /\ owner' \in [Sets -> Advertisers \cup {Nobody}] /\ made' \in SUBSET Sets
  BY RowsMove, OwnersStay
<1>2. \A s \in made' : owner'[s] # Nobody
  BY <1>1 DEF MadeIsFollowed
<1>3. ASSUME NEW r \in Requests, NEW await, NEW s, NEW source, NEW listed, Moved(r, await, s, source, listed)
      PROVE  /\ req'[r].pc = await /\ req'[r].set = s /\ Adv(r)' = Adv(r) /\ req'[r].kind = req[r].kind
  BY <1>3 DEF Moved, Adv
<1>4. ASSUME NEW r \in Requests, NEW q \in Requests, RequestStep(q), q # r PROVE req'[r] = req[r]
  BY <1>4, RequestMoves DEF Reply, Moved
<1>5. ASSUME NEW r \in Requests, NEW q \in Requests, NEW a \in Advertisers, NEW kind \in Kinds,
             NEW s \in Sets \cup {NoSet},
             Begin(q, a, kind, IF kind \in {"provision", "select"} THEN "list"
                               ELSE IF kind = "create" THEN "create" ELSE "getCache", s)
      PROVE  IF q = r THEN req[r].pc = "none" /\ (req'[r].pc = "create" => req'[r].kind = "create")
                      ELSE req'[r] = req[r]
  <2>1. req[q].pc = "none" /\ \A t \in Requests \ {q} : req'[t] = req[t]
    BY <1>5 DEF Begin, At
  <2>2. req'[q].pc = "create" => req'[q].kind = "create"
    BY <1>5 DEF Begin
  <2> QED
    BY <2>1, <2>2
<1>6. ASSUME NEW r \in Requests, At(r, "create")' PROVE req'[r].kind \in {"provision", "create"}
  <2>1. CASE req'[r] = req[r]
    BY <1>6, <2>1 DEF MadeIsFollowed, At
  <2>2. CASE RequestStep(r)
    <3>1. ListForProvision(r) => req[r].kind = "provision"
      BY DEF ListForProvision
    <3>2. ~Reply(r)
      BY <1>6, RequestType DEF Reply, At
    <3>3. ASSUME NEW await, NEW s, NEW source, NEW listed, Moved(r, await, s, source, listed)
          PROVE  await = "create" /\ req'[r].kind = req[r].kind
      BY <1>3, <1>6, <3>3 DEF At
    <3>4. ListForProvision(r) /\ req'[r].kind = req[r].kind
      <4>1. "store" # "create" /\ "list" # "create" /\ "warm" # "create" /\ "getRow" # "create"
        OBVIOUS
      <4> QED
        BY <2>2, <3>2, <3>3, <4>1, RequestMoves
    <3> QED
      BY <3>1, <3>4
  <2>3. ~Exit
    BY <1>6 DEF Exit, NoRequest, At
  <2> QED
    BY <1>4, <1>5, <1>6, <2>1, <2>2, <2>3, StepKinds DEF Authorize, Expire, CreateElsewhere, vars, At
<1>7. ASSUME NEW s \in made'
      PROVE  s \in stored'[owner'[s]] \/ s \in forsaken' \/ \E r \in Requests : Follows(r, s)'
  <2>1. forsaken \subseteq forsaken'
    <3>1. ASSUME NEW r \in Requests, RequestStep(r) PROVE forsaken \subseteq forsaken'
      BY <3>1 DEF RequestStep, ListForProvision, ListForSelect, ListFails, Create, CreateFails, Store,
         StoreFails, CacheHit, CacheMiss, RowFound, Fallback, WarmCache, history, Forsake
    <3> QED
      BY <3>1, StepKinds DEF Begin, Exit, Authorize, Expire, CreateElsewhere, vars, history, Forsake
  <2>2. CASE s \notin made
    <3>1. ASSUME NEW r \in Requests, RequestStep(r) PROVE s \in forsaken' \/ Create(r, s)
      <4>1. ASSUME NEW t \in Sets, Make(Adv(r), t) PROVE s = t
        BY <1>7, <2>2, <4>1 DEF Make
      <4>2. made' = made \/ CreateFails(r) \/ \E t \in Sets : Create(r, t)
        BY <3>1 DEF RequestStep, ListForProvision, ListForSelect, ListFails, Store, StoreFails,
           CacheHit, CacheMiss, RowFound, Fallback, WarmCache, history
      <4>3. CreateFails(r) => s \in forsaken'
        BY <1>7, <2>2, <4>1 DEF CreateFails
      <4> QED
        BY <1>7, <2>2, <4>1, <4>2, <4>3 DEF Create
    <3>2. ASSUME NEW r \in Requests, Create(r, s) PROVE Follows(r, s)'
      <4>1. /\ owner'[s] = Adv(r) /\ req[r].kind \in {"provision", "create"} /\ s \in Sets
            /\ req[r].pc # "none"
        BY <1>1, <1>7, <3>2, OwnersStay DEF Create, Make, MadeIsFollowed, At
      <4>2. IF req[r].kind = "provision"
            THEN Moved(r, "store", s, "auto_created", req[r].listed)
            ELSE Moved(r, "list", s, req[r].source, req[r].listed)
        BY <3>2, <4>1, MovesOn DEF Create, Created
      <4>3. /\ req'[r].set = s /\ Adv(r)' = owner'[s] /\ req'[r].kind = req[r].kind
            /\ req'[r].pc = IF req[r].kind = "provision" THEN "store" ELSE "list"
            /\ req[r].kind = "provision" => req'[r].source = "auto_created"
        BY <1>3, <4>1, <4>2 DEF Moved
      <4> QED
        BY <4>1, <4>3 DEF At, Carries
    <3> QED
      BY <1>7, <2>2, <3>1, <3>2, StepKinds DEF Begin, Exit, Authorize, Expire, CreateElsewhere, history, vars
  <2>3. CASE s \in made /\ (s \in stored[owner[s]] \/ s \in forsaken)
    BY <1>1, <2>1, <2>3 DEF MadeIsFollowed
  <2>4. ASSUME s \in made, NEW r \in Requests, Follows(r, s)
        PROVE  s \in stored'[owner'[s]] \/ s \in forsaken' \/ Follows(r, s)'
    <3>1. owner'[s] = owner[s] /\ owner[s] \in Advertisers
      BY <1>1, <2>4 DEF MadeIsFollowed
    <3>2. ASSUME req'[r] = req[r] PROVE Follows(r, s)'
      BY <2>4, <3>1, <3>2 DEF At, Adv, Carries
    <3>3. req[r].set = s /\ req[r].pc \in {"list", "store"}
      BY <2>4 DEF Carries, At
    <3>4. ASSUME RequestStep(r), At(r, "store") PROVE s \in stored'[owner'[s]] \/ s \in forsaken'
      <4>1. Store(r) \/ StoreFails(r)
        BY <3>4 DEF RequestStep, ListForProvision, ListForSelect, ListFails, Create, CreateFails, CacheHit,
           CacheMiss, RowFound, Fallback, WarmCache, At
      <4>2. Upsert(Adv(r), s, req[r].source) \/ Forsake({r})
        BY <3>3, <4>1 DEF Store, StoreFails
      <4> QED
        BY <2>4, <3>1, <4>2 DEF Upsert, Forsake
    <3>5. ASSUME RequestStep(r), At(r, "list") PROVE s \in forsaken' \/ Follows(r, s)'
      <4>1. req[r].kind = "create"
        BY <2>4, <3>5 DEF At, Carries
      <4>2. ListForSelect(r) \/ ListFails(r)
        BY <3>5, <4>1 DEF RequestStep, ListForProvision, Create, CreateFails, Store, StoreFails, CacheHit,
           CacheMiss, RowFound, Fallback, WarmCache, At
      <4>3. ASSUME ListForSelect(r) PROVE Follows(r, s)'
        <5>1. GotoStore(r, req[r].set, "manually_selected")
          BY <2>4, <3>3, <4>3 DEF ListForSelect, Belongs, Owned
        <5>2. Moved(r, "store", s, "manually_selected", req[r].listed)
          BY <3>3, <3>5, <5>1, MovesOn DEF At
        <5> QED
          BY <1>3, <2>4, <3>1, <4>1, <5>2 DEF At, Carries
      <4>4. ListFails(r) => s \in forsaken'
        BY <2>4 DEF ListFails, Forsake
      <4> QED
        BY <4>2, <4>3, <4>4
    <3>6. Exit => s \in forsaken'
      BY <2>4 DEF Exit, Forsake
    <3> QED
      BY <1>4, <1>5, <3>2, <3>3, <3>4, <3>5, <3>6, StepKinds DEF At, Authorize, Expire, CreateElsewhere, vars
  <2> QED
    BY <2>2, <2>3, <2>4 DEF MadeIsFollowed
<1> QED
  BY <1>2, <1>6, <1>7 DEF MadeIsFollowed

LEMMA FollowedNotOrphaned == TypeOK /\ MadeIsFollowed => OrphansNeedFaults
BY DEF MadeIsFollowed, OrphansNeedFaults

LEMMA InvInit == Init => Inv
<1> SUFFICES ASSUME Init PROVE Inv
  OBVIOUS
<1>1. TypeOK
  BY EventSetAssumption DEF Init, TypeOK, NoRequest
<1>2. ActiveBelongs /\ RoutedToOwn /\ OrphansNeedFaults /\ StoredBelongs
  BY DEF Init, ActiveBelongs, RoutedToOwn, OrphansNeedFaults, StoredBelongs, NoRequest, At
<1>3. MadeIsFollowed /\ AutomaticChoice
  BY DEF Init, MadeIsFollowed, AutomaticChoice, NoRequest, At
<1> QED
  BY <1>1, <1>2, <1>3 DEF Inv

LEMMA InvStep == Inv /\ [Next]_vars => Inv'
<1> SUFFICES ASSUME Inv, [Next]_vars PROVE Inv'
  OBVIOUS
<1>1. /\ TypeOK /\ ActiveBelongs /\ RoutedToOwn /\ StoredBelongs /\ MadeIsFollowed /\ AutomaticChoice
  BY DEF Inv
<1>2. TypeOK' /\ MadeIsFollowed'
  BY <1>1, TypeStep, MadeStep
<1>3. OrphansNeedFaults'
  BY <1>2, FollowedNotOrphaned DEF TypeOK, MadeIsFollowed, OrphansNeedFaults, At
<1>4. ActiveBelongs' /\ StoredBelongs' /\ RoutedToOwn' /\ AutomaticChoice'
  BY <1>1, BelongsStep, ChoiceStep
<1> QED
  BY <1>2, <1>3, <1>4 DEF Inv

\* However provisions, selections and resolutions overlap, and whatever call fails,
\* every set made is stored, on its way into the row or given up to a fault, and
\* what is stored, cached or on its way belongs to its advertiser.
THEOREM InvCorrect == Spec => []Inv
<1> QED
  BY InvInit, InvStep, PTL DEF Spec

\* A row, a cached value and what a request is about to write name a set of that
\* very advertiser.
THEOREM ActiveBelongsCorrect == Spec => []ActiveBelongs
<1>1. Inv => ActiveBelongs
  BY DEF Inv
<1> QED
  BY <1>1, InvCorrect, PTL

\* The pipeline reports a lead into a set that was its advertiser's active one, or
\* into the env fallback; the cache holds nothing else.
THEOREM RoutedToOwnCorrect == Spec => []RoutedToOwn
<1>1. Inv => RoutedToOwn
  BY DEF Inv
<1> QED
  BY <1>1, InvCorrect, PTL

\* A set that was made and not stored is carried to its store by the request that
\* had it made, or was left behind by a failure of that very request.
THEOREM OrphansNeedFaultsCorrect == Spec => []OrphansNeedFaults
<1>1. Inv => OrphansNeedFaults
  BY DEF Inv
<1> QED
  BY <1>1, InvCorrect, PTL

\* An automatic choice replaces a manual one only if its provision listed the sets
\* before the chosen one existed.
THEOREM ManualSelectionStandsCorrect == Spec => ManualSelectionStands
<1>1. ASSUME Inv, [Next]_vars, NEW a \in Advertisers,
             row[a].source = "manually_selected", row'[a].source # "manually_selected",
             row'[a].set # row[a].set
      PROVE  \E r \in Requests : /\ req[r].kind = "provision" /\ At(r, "store") /\ Adv(r) = a
                                 /\ row[a].set \notin req[r].listed
  <2>1. PICK r \in Requests : /\ At(r, "store") /\ Adv(r) = a
                              /\ row'[a] = [set |-> req[r].set, source |-> req[r].source]
    BY <1>1, RowsMove DEF Inv
  <2>2. row'[a].set = req[r].set /\ row'[a].source = req[r].source
    BY <2>1
  <2>3. req[r].kind = "provision" /\ req[r].listed \subseteq {req[r].set}
    BY <1>1, <2>1, <2>2 DEF Inv, AutomaticChoice
  <2> QED
    BY <1>1, <2>1, <2>2, <2>3
<1>2. Inv /\ [Next]_vars =>
        [\A a \in Advertisers :
           /\ row[a].source = "manually_selected"
           /\ row'[a].source # "manually_selected"
           /\ row'[a].set # row[a].set
           => \E r \in Requests : /\ req[r].kind = "provision" /\ At(r, "store") /\ Adv(r) = a
                                  /\ row[a].set \notin req[r].listed]_vars
  BY <1>1
<1> QED
  BY <1>2, InvCorrect, PTL DEF Spec, ManualSelectionStands

=============================================================================
