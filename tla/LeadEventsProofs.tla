--------------------------- MODULE LeadEventsProofs ---------------------------
(***************************************************************************)
(* Proofs about CDCListener and LeadEvents, for any leads, changes,        *)
(* attempts, faults and clock.  Of the listener: the types, that no change *)
(* is handed over twice, and that each one that matters is accounted for.  *)
(* Of LeadEvents: it behaves as the listener does, only twins are dropped  *)
(* as duplicates, and event times keep the order of a lead's changes.      *)
(***************************************************************************)
EXTENDS LeadEvents, SequenceTheorems, TLAPS

(***************************************************************************)
(* The listener.                                                           *)
(***************************************************************************)
\* The subscription is at most one past the last change; what it has not pushed
\* yet nobody works on.
Ahead ==
  /\ Len(changes) <= MaxChanges
  /\ next <= Len(changes) + 1
  /\ \A i \in Ids : i >= next => fetch[i] = "none"

\* What it has passed was pushed or missed, and not both.
Behind ==
  /\ \A i \in Ids : i < next => i \in missed \/ fetch[i] # "none"
  /\ \A i \in missed : i < next /\ fetch[i] = "none"

\* A change that was filtered does not matter.
FilteredRightly ==
  \A i \in Ids : fetch[i] = "filtered" => ~ShouldProcess(changes[i])

\* What the pipeline saw, it was handed.
EventsHanded == \A n \in 1 .. Len(events) : fetch[events[n]] = "handed"

\* The inductive invariant.
Inv == TypeOK /\ Ahead /\ Behind /\ FilteredRightly /\ EventsHanded /\ HandedOnce

-----------------------------------------------------------------------------
\* What a commit appends to, stays.
LEMMA AppendKeeps ==
  ASSUME NEW S, NEW s \in Seq(S), NEW x \in S
  PROVE  /\ Append(s, x) \in Seq(S)
         /\ Len(s) \in Nat
         /\ Len(Append(s, x)) = Len(s) + 1
         /\ \A n \in 1 .. Len(s) : Append(s, x)[n] = s[n]
         /\ Append(s, x)[Len(s) + 1] = x
BY AppendProperties, LenProperties

LEMMA InitInv == Init => Inv
<1>. SUFFICES ASSUME Init PROVE Inv
  OBVIOUS
<1>1. TypeOK
  <2>1. expired \in BOOLEAN
    BY DEF Init
  <2>2. changes \in Seq(Inputs) /\ events \in Seq(Ids) /\ missed \in SUBSET Ids
    BY EmptySeq DEF Init
  <2>3. attempt \in 1 .. maxRetries /\ next \in 1 .. MaxChanges + 1
    BY ListenerAssumption DEF Init
  <2>4. lastReplayId \in 0 .. MaxChanges /\ faults \in 0 .. MaxFaults
    BY ListenerAssumption DEF Init, Latest
  <2>5. fetch \in [Ids -> {"none", "fetching"} \cup Outcomes] /\ tries \in [Ids -> 0 .. retries]
    BY ListenerAssumption DEF Init
  <2>. QED BY <2>1, <2>2, <2>3, <2>4, <2>5 DEF TypeOK, Init
<1>. QED
  BY <1>1, ListenerAssumption, EmptySeq
  DEF Init, Inv, Ahead, Behind, FilteredRightly, EventsHanded, HandedOnce, Ids

-----------------------------------------------------------------------------
\* Commits.

LEMMA CommitKeepsInv ==
  ASSUME Inv, NEW c \in Inputs, Commit(c)
  PROVE  Inv'
<1>. USE DEF Commit
<1>1. /\ changes' \in Seq(Inputs)
      /\ Len(changes) \in Nat
      /\ Len(changes') = Len(changes) + 1
      /\ \A n \in 1 .. Len(changes) : changes'[n] = changes[n]
  BY AppendKeeps DEF Inv, TypeOK
<1>2. TypeOK'
  BY <1>1 DEF Inv, TypeOK, subscription
<1>3. Ahead'
  BY <1>1, <1>2, ListenerAssumption DEF Inv, Ahead, TypeOK, subscription
<1>4. Behind'
  BY DEF Inv, Behind, subscription
<1>5. FilteredRightly'
  <2>. SUFFICES ASSUME NEW i \in Ids, fetch[i] = "filtered"
                PROVE  ~ShouldProcess(changes'[i])
    BY DEF FilteredRightly
  <2>1. i \in 1 .. Len(changes)
    BY <1>1 DEF Inv, Ahead, Ids, TypeOK
  <2>. QED BY <1>1, <2>1 DEF Inv, FilteredRightly
<1>6. EventsHanded' /\ HandedOnce'
  BY DEF Inv, EventsHanded, HandedOnce
<1>. QED BY <1>2, <1>3, <1>4, <1>5, <1>6 DEF Inv

-----------------------------------------------------------------------------
\* Connections and restarts.

\* A subscription jumps over what nobody has seen; what it jumps over was missed.
LEMMA SubscribeKeepsInv ==
  ASSUME Inv, Subscribe
  PROVE  Inv'
<1>. USE DEF Subscribe, Inv
<1>1. Len(changes) \in Nat
  BY LenProperties DEF TypeOK
<1>2. TypeOK'
  BY <1>1, ListenerAssumption DEF TypeOK, Ahead, Since
<1>3. Ahead'
  BY <1>1, <1>2, ListenerAssumption DEF Ahead, TypeOK, Ids
<1>4. Behind'
  BY <1>1, ListenerAssumption DEF Behind, Ahead, TypeOK, Since, Ids
<1>5. FilteredRightly' /\ EventsHanded' /\ HandedOnce'
  BY DEF FilteredRightly, EventsHanded, HandedOnce
<1>. QED BY <1>2, <1>3, <1>4, <1>5

\* A restart drops what was being fetched, and nothing else.
LEMMA RestartKeepsInv ==
  ASSUME Inv, Restart, Fault
  PROVE  Inv'
<1>. USE DEF Restart, Fault, Inv
<1>1. TypeOK'
  <2>1. fetch' \in [Ids -> {"none", "fetching"} \cup Outcomes]
    BY DEF TypeOK, Outcomes
  <2>2. 1 \in 1 .. maxRetries /\ faults' \in 0 .. MaxFaults /\ 0 \in 0 .. MaxChanges
    BY ListenerAssumption DEF TypeOK
  <2>. QED BY <2>1, <2>2 DEF TypeOK, Latest
<1>2. \A i \in Ids : /\ fetch'[i] = "none" <=> fetch[i] = "none"
                     /\ fetch'[i] = "filtered" <=> fetch[i] = "filtered"
                     /\ fetch'[i] = "handed" <=> fetch[i] = "handed"
  BY DEF TypeOK
<1>3. Ahead'
  BY <1>2 DEF Ahead
<1>4. Behind'
  BY <1>2 DEF Behind, TypeOK
<1>5. FilteredRightly'
  BY <1>2 DEF FilteredRightly
<1>6. EventsHanded'
  <2>. SUFFICES ASSUME NEW n \in 1 .. Len(events)
                PROVE  fetch'[events[n]] = "handed"
    BY DEF EventsHanded
  <2>1. events[n] \in Ids
    BY ElementOfSeq DEF TypeOK
  <2>. QED BY <1>2, <2>1 DEF EventsHanded
<1>7. HandedOnce'
  BY DEF HandedOnce
<1>. QED BY <1>1, <1>3, <1>4, <1>5, <1>6, <1>7

LEMMA ConnectionKeepsInv ==
  ASSUME Inv, Connect \/ ConnectFails \/ Refuse \/ Expire \/ Break
  PROVE  Inv'
<1>1. TypeOK'
  <2>1. CASE Connect
    BY <2>1, ListenerAssumption DEF Inv, TypeOK, Connect
  <2>2. CASE ConnectFails
    BY <2>2, ListenerAssumption DEF Inv, TypeOK, ConnectFails, Fault
  <2>3. CASE Refuse
    BY <2>3, ListenerAssumption DEF Inv, TypeOK, Refuse, Fault
  <2>4. CASE Expire
    BY <2>4 DEF Inv, TypeOK, Expire
  <2>5. CASE Break
    BY <2>5, ListenerAssumption DEF Inv, TypeOK, Break, Fault
  <2>. QED BY <2>1, <2>2, <2>3, <2>4, <2>5
<1>2. UNCHANGED <<changes, next, fetch, events, missed>>
  BY DEF Connect, ConnectFails, Refuse, Expire, Break
<1>. QED
  BY <1>1, <1>2 DEF Inv, Ahead, Behind, FilteredRightly, EventsHanded, HandedOnce

-----------------------------------------------------------------------------
\* Messages and fetches.

LEMMA MessageKeepsInv ==
  ASSUME Inv, Message
  PROVE  Inv'
<1>. USE DEF Message, Inv
<1>1. /\ Len(changes) \in Nat
      /\ next \in Ids
      /\ fetch[next] = "none"
  BY LenProperties, ListenerAssumption DEF TypeOK, Ahead, Ids
<1>2. TypeOK'
  BY <1>1, ListenerAssumption DEF TypeOK, Ids
<1>3. /\ fetch'[next] = "fetching"
      /\ \A i \in Ids \ {next} : fetch'[i] = fetch[i]
  BY <1>1 DEF TypeOK
<1>4. Ahead'
  BY <1>1, <1>3 DEF Ahead, TypeOK, Ids
<1>5. Behind'
  BY <1>1, <1>3 DEF Behind, TypeOK, Ids
<1>6. FilteredRightly'
  BY <1>3 DEF FilteredRightly
<1>7. EventsHanded'
  <2>. SUFFICES ASSUME NEW n \in 1 .. Len(events)
                PROVE  fetch'[events[n]] = "handed"
    BY DEF EventsHanded
  <2>1. events[n] \in Ids \ {next}
    BY <1>1, ElementOfSeq DEF TypeOK, EventsHanded
  <2>. QED BY <1>3, <2>1 DEF EventsHanded
<1>8. HandedOnce'
  BY DEF HandedOnce
<1>. QED BY <1>2, <1>4, <1>5, <1>6, <1>7, <1>8

\* Whatever ends the fetch of one change leaves the others where they are.
LEMMA FetchLeadKeepsInv ==
  ASSUME Inv, NEW i \in Ids, FetchLead(i)
  PROVE  Inv'
<1>. USE DEF FetchLead, Inv
<1>1. /\ fetch'[i] \in {"handed", "filtered"}
      /\ \A j \in Ids \ {i} : fetch'[j] = fetch[j]
      /\ fetch' \in [Ids -> {"none", "fetching"} \cup Outcomes]
  BY DEF TypeOK, Outcomes
<1>2. \A n \in 1 .. Len(events) : events[n] \in Ids \ {i}
  BY ElementOfSeq DEF TypeOK, EventsHanded
<1>3. Ahead' /\ Behind'
  BY <1>1 DEF Ahead, Behind, TypeOK, subscription
<1>4. CASE ShouldProcess(changes[i])
  <2>1. fetch'[i] = "handed" /\ events' = Append(events, i)
    BY <1>4 DEF TypeOK
  <2>2. /\ events' \in Seq(Ids)
        /\ Len(events) \in Nat
        /\ Len(events') = Len(events) + 1
        /\ \A n \in 1 .. Len(events) : events'[n] = events[n]
        /\ events'[Len(events) + 1] = i
    BY <2>1, AppendKeeps DEF TypeOK
  <2>3. TypeOK'
    BY <1>1, <2>2 DEF TypeOK, subscription
  <2>4. FilteredRightly'
    BY <1>1, <2>1 DEF FilteredRightly
  <2>5. \A n \in 1 .. Len(events') : n \in 1 .. Len(events) \/ n = Len(events) + 1
    BY <2>2
  <2>6. EventsHanded'
    BY <1>1, <1>2, <2>1, <2>2, <2>5 DEF EventsHanded
  <2>7. HandedOnce'
    BY <1>2, <2>2, <2>5 DEF HandedOnce
  <2>. QED BY <1>3, <2>3, <2>4, <2>6, <2>7
<1>5. CASE ~ShouldProcess(changes[i])
  <2>1. fetch'[i] = "filtered" /\ events' = events
    BY <1>5 DEF TypeOK
  <2>2. TypeOK'
    BY <1>1, <2>1 DEF TypeOK, subscription
  <2>3. FilteredRightly'
    BY <1>1, <1>5 DEF FilteredRightly
  <2>4. EventsHanded' /\ HandedOnce'
    BY <1>1, <1>2, <2>1 DEF EventsHanded, HandedOnce
  <2>. QED BY <1>3, <2>2, <2>3, <2>4
<1>. QED BY <1>4, <1>5

LEMMA FetchMissKeepsInv ==
  ASSUME Inv, NEW i \in Ids, FetchRetries(i) \/ FetchFails(i)
  PROVE  Inv'
<1>. USE DEF FetchRetries, FetchFails, Fault, Inv
<1>1. /\ fetch'[i] \in {"fetching", "failed"} /\ fetch[i] = "fetching"
      /\ \A j \in Ids \ {i} : fetch'[j] = fetch[j]
  BY DEF TypeOK
<1>2. TypeOK'
  <2>1. fetch' \in [Ids -> {"none", "fetching"} \cup Outcomes]
    BY DEF TypeOK, Outcomes
  <2>2. tries' \in [Ids -> 0 .. retries]
    <3>1. CASE FetchRetries(i)
      <4>1. tries[i] + 1 \in 0 .. retries
        BY <3>1, ListenerAssumption DEF TypeOK
      <4>. QED BY <3>1, <4>1 DEF TypeOK
    <3>2. CASE FetchFails(i)
      BY <3>2 DEF TypeOK
    <3>. QED BY <3>1, <3>2
  <2>3. faults' \in 0 .. MaxFaults
    BY ListenerAssumption DEF TypeOK
  <2>. QED BY <2>1, <2>2, <2>3 DEF TypeOK, subscription
<1>3. \A n \in 1 .. Len(events) : events[n] \in Ids \ {i}
  BY <1>1, ElementOfSeq DEF TypeOK, EventsHanded
<1>4. Ahead' /\ Behind'
  BY <1>1 DEF Ahead, Behind, TypeOK, subscription
<1>5. FilteredRightly'
  BY <1>1 DEF FilteredRightly
<1>6. EventsHanded' /\ HandedOnce'
  BY <1>1, <1>3 DEF EventsHanded, HandedOnce
<1>. QED BY <1>2, <1>4, <1>5, <1>6

-----------------------------------------------------------------------------
LEMMA StutterKeepsInv == Inv /\ UNCHANGED vars => Inv'
BY DEF Inv, TypeOK, Ahead, Behind, FilteredRightly, EventsHanded, HandedOnce,
       vars, subscription

LEMMA NextKeepsInv == Inv /\ [Next]_vars => Inv'
<1>. SUFFICES ASSUME Inv, [Next]_vars PROVE Inv'
  OBVIOUS
<1>1. ASSUME NEW c \in Inputs, Commit(c) PROVE Inv'
  BY <1>1, CommitKeepsInv
<1>2. CASE Subscribe
  BY <1>2, SubscribeKeepsInv
<1>3. CASE Connect \/ ConnectFails \/ Refuse \/ Expire \/ Break
  BY <1>3, ConnectionKeepsInv
<1>4. CASE GiveUp \/ Crash
  BY <1>4, RestartKeepsInv DEF GiveUp, Crash
<1>6. CASE Message
  BY <1>6, MessageKeepsInv
<1>7. ASSUME NEW i \in Ids, FetchLead(i) PROVE Inv'
  BY <1>7, FetchLeadKeepsInv
<1>8. ASSUME NEW i \in Ids, FetchRetries(i) \/ FetchFails(i) PROVE Inv'
  BY <1>8, FetchMissKeepsInv
<1>9. CASE UNCHANGED vars
  BY <1>9, StutterKeepsInv
<1>. QED
  BY <1>1, <1>2, <1>3, <1>4, <1>6, <1>7, <1>8, <1>9 DEF Next

\* A change that matters and is committed cannot be filtered, and is either
\* ahead of the subscription or behind it.
LEMMA InvAccounts == Inv => ChangesAccounted
<1>. SUFFICES ASSUME Inv, NEW i \in Committed, ShouldProcess(changes[i])
              PROVE  \/ i >= next /\ fetch[i] = "none"
                     \/ i \in missed /\ fetch[i] = "none"
                     \/ fetch[i] \in {"fetching", "handed", "failed", "killed"}
  BY DEF ChangesAccounted
<1>1. i \in Ids /\ next \in Nat
  BY LenProperties, ListenerAssumption DEF Inv, Ahead, TypeOK, Committed, Ids
<1>2. fetch[i] # "filtered"
  BY <1>1 DEF Inv, FilteredRightly
<1>3. fetch[i] \in {"none", "fetching"} \cup Outcomes
  BY <1>1 DEF Inv, TypeOK
<1>4. fetch[i] = "none" => i >= next \/ i \in missed
  BY <1>1 DEF Inv, Behind, Ids
<1>. QED BY <1>2, <1>3, <1>4 DEF Outcomes

\* The invariant holds in every state of the listener.
LEMMA InvCorrect == Spec => []Inv
BY InitInv, NextKeepsInv, PTL DEF Spec

\* Connection, attempts and messages stay in their ranges: connect() and
\* fetchLead() never go past their last attempt.
THEOREM TypeCorrect == Spec => []TypeOK
<1>1. Inv => TypeOK
  BY DEF Inv
<1>. QED BY <1>1, InvCorrect, PTL

\* However often the subscription was renewed and the process restarted, the
\* pipeline sees a change once at most.
THEOREM HandedOnceCorrect == Spec => []HandedOnce
<1>1. Inv => HandedOnce
  BY DEF Inv
<1>. QED BY <1>1, InvCorrect, PTL

\* Every committed change that matters is to come, in hand, handed over, or lost
\* for one of the named reasons.
THEOREM ChangesAccountedCorrect == Spec => []ChangesAccounted
BY InvAccounts, InvCorrect, PTL

-----------------------------------------------------------------------------
(***************************************************************************)
(* The events of a lead.                                                   *)
(***************************************************************************)
\* The commits and the changes are one list, in the order of the clock.
Stamps == [lead : Leads, second : 0 .. MaxSeconds, stamped : BOOLEAN]

Commits ==
  /\ now \in 0 .. MaxSeconds
  /\ commits \in Seq(Stamps)
  /\ Len(commits) = Len(changes)
  /\ \A i \in 1 .. Len(commits) : commits[i].second <= now
  /\ \A i, j \in 1 .. Len(commits) : i <= j => commits[i].second <= commits[j].second

\* What was handed over was committed.
HandedCommitted == \A i \in Handed : i \in 1 .. Len(commits)

\* The id of an event is that of its lead, its name and its time, and its time is the
\* second of its change or, if the message does not tell that, a later one.
BuiltOfHanded ==
  /\ DOMAIN built = Ids
  /\ \A i \in Handed :
       /\ built[i].id = [lead |-> commits[i].lead, name |-> Evaluate(changes[i]),
                         time |-> built[i].time]
       /\ built[i].time \in Nat
       /\ commits[i].second <= built[i].time
       /\ commits[i].stamped => built[i].time = commits[i].second

\* Behind every key is an event that went through, or one whose own key was taken for a
\* duplicate.
KeysHaveOwners ==
  \A k \in keys :
    k \in misjudged \/ \E j \in Handed : ~built[j].duplicate /\ built[j].id = k

\* The inductive invariant, over that of the listener.
LeadInv ==
  /\ Inv
  /\ Commits
  /\ HandedCommitted
  /\ BuiltOfHanded
  /\ KeysHaveOwners
  /\ OnlyTwinsAreDropped

-----------------------------------------------------------------------------
\* Every step of LeadEvents is one of the listener's, or leaves it alone.
LEMMA LeadStepIsListeners ==
  ASSUME [LeadNext]_allVars
  PROVE  [Next]_vars
<1>1. ASSUME NEW lead \in Leads, NEW c \in Inputs, NEW stamped \in BOOLEAN,
             CommitTo(lead, c, stamped)
      PROVE  Next
  BY <1>1 DEF CommitTo, Next
<1>2. CASE ListenerStep
  BY <1>2 DEF ListenerStep, Next
<1>3. ASSUME NEW i \in Ids, FetchAndBuild(i) PROVE Next
  BY <1>3 DEF FetchAndBuild, Next
<1>4. ASSUME NEW i \in Ids, FetchMisses(i) PROVE Next
  BY <1>4 DEF FetchMisses, Next
<1>5. CASE Tick
  BY <1>5 DEF Tick
<1>6. ASSUME NEW id \in EventIds, ExpireKey(id) PROVE UNCHANGED vars
  BY <1>6 DEF ExpireKey
<1>7. CASE UNCHANGED allVars
  BY <1>7 DEF allVars
<1>. QED BY <1>1, <1>2, <1>3, <1>4, <1>5, <1>6, <1>7 DEF LeadNext

\* LeadEvents, its data left out, is CDCListener.
THEOREM LeadsFollowListener == LeadSpec => Spec
<1>1. LeadInit => Init
  BY DEF LeadInit
<1>. QED BY <1>1, LeadStepIsListeners, PTL DEF LeadSpec, Spec

-----------------------------------------------------------------------------
LEMMA SecondsAreNumbers ==
  ASSUME Commits
  PROVE  /\ Len(commits) \in Nat
         /\ \A i \in 1 .. Len(commits) :
              /\ commits[i] \in Stamps
              /\ commits[i].second \in Nat
<1>1. \A i \in 1 .. Len(commits) : commits[i] \in Stamps
  BY ElementOfSeq DEF Commits
<1>2. \A c \in Stamps : c.second \in Nat
  BY LeadEventsAssumption DEF Stamps
<1>. QED BY <1>1, <1>2, LenProperties DEF Commits

-----------------------------------------------------------------------------
\* The invariant.

LEMMA LeadInitInv == LeadInit => LeadInv
<1>. SUFFICES ASSUME LeadInit PROVE LeadInv
  OBVIOUS
<1>1. Inv
  BY InitInv DEF LeadInit
<1>2. Handed = {}
  BY DEF LeadInit, Init, Handed
<1>3. Commits
  BY LeadEventsAssumption, EmptySeq DEF LeadInit, Init, Commits
<1>4. DOMAIN built = Ids /\ keys = {}
  BY DEF LeadInit, Dedup!KeysInit
<1>. QED
  BY <1>1, <1>2, <1>3, <1>4
  DEF LeadInv, HandedCommitted, BuiltOfHanded, KeysHaveOwners, OnlyTwinsAreDropped

\* Whatever adds nothing to what was handed over, and changes neither its commits
\* nor its events, keeps what is said of them.
LEMMA SameHandedKeepsData ==
  ASSUME LeadInv, Handed' = Handed, keys' \subseteq keys, UNCHANGED <<built, misjudged>>,
         Len(commits) <= Len(commits'), Len(commits) \in Nat, Len(commits') \in Nat,
         \A i \in 1 .. Len(commits) : /\ commits'[i] = commits[i]
                                      /\ changes'[i] = changes[i]
  PROVE  /\ HandedCommitted'
         /\ BuiltOfHanded'
         /\ KeysHaveOwners'
         /\ OnlyTwinsAreDropped'
<1>. USE DEF LeadInv
<1>1. \A i \in Handed : i \in 1 .. Len(commits) /\ i \in 1 .. Len(commits')
  BY DEF HandedCommitted
<1>3. HandedCommitted'
  BY <1>1 DEF HandedCommitted
<1>4. BuiltOfHanded'
  BY <1>1 DEF BuiltOfHanded
<1>5. KeysHaveOwners'
  BY DEF KeysHaveOwners
<1>6. OnlyTwinsAreDropped'
  BY <1>1 DEF OnlyTwinsAreDropped
<1>. QED BY <1>3, <1>4, <1>5, <1>6

\* The clock runs on.
LEMMA TickKeepsData ==
  ASSUME LeadInv, Inv', Tick
  PROVE  LeadInv'
<1>. USE DEF Tick, LeadInv
<1>1. Commits'
  <2>1. now \in Nat /\ now + 1 \in 0 .. MaxSeconds
    BY LeadEventsAssumption DEF Commits
  <2>2. \A i \in 1 .. Len(commits) : commits[i].second <= now + 1
    BY <2>1, SecondsAreNumbers DEF Commits
  <2>. QED BY <2>1, <2>2 DEF Commits, vars
<1>2. UNCHANGED <<changes, fetch, commits, keys, built, misjudged>>
  BY DEF vars
<1>3. Len(commits) \in Nat
  BY LenProperties DEF Commits
<1>4. Handed' = Handed
  BY <1>2 DEF Handed
<1>. QED BY <1>1, <1>2, <1>3, <1>4, SameHandedKeepsData

LEMMA CommitToKeepsData ==
  ASSUME LeadInv, Inv', NEW lead \in Leads, NEW c \in Inputs, NEW stamped \in BOOLEAN,
         CommitTo(lead, c, stamped)
  PROVE  LeadInv'
<1>. USE DEF LeadInv
<1>. DEFINE new == [lead |-> lead, second |-> now, stamped |-> stamped]
<1>1. commits' = Append(commits, new) /\ changes' = Append(changes, c)
  BY DEF CommitTo, Commit
<1>2. new \in Stamps /\ new.second = now
  BY DEF Commits, Stamps
<1>3. /\ commits' \in Seq(Stamps)
      /\ Len(commits) \in Nat
      /\ Len(commits') = Len(commits) + 1
      /\ \A i \in 1 .. Len(commits) : commits'[i] = commits[i]
      /\ commits'[Len(commits) + 1].second = now
  <2>. HIDE DEF new
  <2>. QED BY <1>1, <1>2, AppendKeeps DEF Commits
<1>4. /\ Len(changes') = Len(changes) + 1
      /\ \A i \in 1 .. Len(changes) : changes'[i] = changes[i]
  BY <1>1, AppendKeeps DEF Inv, TypeOK
<1>5. \A i \in 1 .. Len(commits') : i \in 1 .. Len(commits) \/ i = Len(commits) + 1
  BY <1>3
<1>6. now' = now /\ now \in Nat
  BY LeadEventsAssumption DEF CommitTo, Commits
<1>7. Commits'
  <2>1. \A i \in 1 .. Len(commits) : commits[i].second \in Nat /\ commits[i].second <= now
    BY SecondsAreNumbers DEF Commits
  <2>2. \A i \in 1 .. Len(commits') : commits'[i].second <= now'
    BY <1>3, <1>5, <1>6, <2>1
  <2>3. \A i, j \in 1 .. Len(commits') : i <= j => commits'[i].second <= commits'[j].second
    <3>. SUFFICES ASSUME NEW i \in 1 .. Len(commits'), NEW j \in 1 .. Len(commits'), i <= j
                  PROVE  commits'[i].second <= commits'[j].second
      OBVIOUS
    <3>1. CASE j \in 1 .. Len(commits)
      <4>. HIDE DEF new
      <4>1. i \in 1 .. Len(commits)
        BY <1>3, <3>1
      <4>2. commits'[i] = commits[i] /\ commits'[j] = commits[j]
        BY <1>3, <3>1, <4>1
      <4>3. commits[i].second <= commits[j].second
        BY <3>1, <4>1 DEF Commits
      <4>. QED BY <4>2, <4>3
    <3>2. CASE j = Len(commits) + 1
      BY <1>3, <1>6, <2>2, <3>2
    <3>. QED BY <1>5, <3>1, <3>2
  <2>. QED BY <1>3, <1>4, <1>6, <2>2, <2>3 DEF Commits
<1>8. Handed' = Handed
  BY DEF CommitTo, Commit, Handed
<1>9. UNCHANGED <<keys, built, misjudged>>
  BY DEF CommitTo
<1>10. Len(changes) = Len(commits)
  BY DEF Commits
<1>. QED BY <1>3, <1>4, <1>7, <1>8, <1>9, <1>10, SameHandedKeepsData

\* Neither the connection, a restart nor a failed fetch takes back what was
\* handed over, or adds to it.
LEMMA ListenerKeepsData ==
  ASSUME LeadInv, Inv', ListenerStep \/ \E i \in Ids : FetchMisses(i)
  PROVE  LeadInv'
<1>. USE DEF LeadInv
<1>1. UNCHANGED leadVars
  BY DEF ListenerStep, FetchMisses
<1>2. UNCHANGED changes /\ Handed' = Handed
  <2>1. CASE Connect \/ ConnectFails \/ Subscribe \/ Refuse \/ Expire \/ Break
    BY <2>1 DEF Connect, ConnectFails, Subscribe, Refuse, Expire, Break, Handed
  <2>2. CASE GiveUp \/ Crash
    BY <2>2 DEF GiveUp, Crash, Restart, Handed
  <2>3. CASE Message
    <3>1. next \in Ids /\ fetch[next] = "none"
      BY <2>3, LenProperties, ListenerAssumption DEF Message, Inv, Ahead, TypeOK, Ids
    <3>. QED BY <2>3, <3>1 DEF Message, Handed, Inv, TypeOK
  <2>4. ASSUME NEW i \in Ids, FetchRetries(i) \/ FetchFails(i)
        PROVE  UNCHANGED changes /\ Handed' = Handed
    BY <2>4 DEF FetchRetries, FetchFails, Handed, Inv, TypeOK
  <2>. QED BY <2>1, <2>2, <2>3, <2>4 DEF ListenerStep, FetchMisses
<1>3. Commits'
  BY <1>1, <1>2 DEF Commits, leadVars
<1>4. Len(commits) \in Nat
  BY LenProperties DEF Commits
<1>. QED BY <1>1, <1>2, <1>3, <1>4, SameHandedKeepsData DEF leadVars

\* A key that goes takes nothing with it.
LEMMA ExpireKeyKeepsData ==
  ASSUME LeadInv, Inv', NEW id \in EventIds, ExpireKey(id)
  PROVE  LeadInv'
<1>. USE DEF LeadInv
<1>1. /\ UNCHANGED <<changes, fetch, now, commits, built, misjudged>>
      /\ keys' \subseteq keys
  BY DEF ExpireKey, vars, Dedup!Expire
<1>2. Commits' /\ Handed' = Handed /\ Len(commits) \in Nat
  BY <1>1, LenProperties DEF Commits, Handed
<1>. QED BY <1>1, <1>2, SameHandedKeepsData

-----------------------------------------------------------------------------
\* A change is handed over, and its event meets the deduplicator.

LEMMA BuildKeepsData ==
  ASSUME LeadInv, Inv', NEW i \in Ids, FetchAndBuild(i)
  PROVE  LeadInv'
<1>. USE DEF LeadInv
<1>1. /\ fetch[i] = "fetching"
      /\ UNCHANGED <<changes, next, missed, now, commits>>
      /\ Len(commits) \in Nat
  BY LenProperties DEF FetchAndBuild, FetchLead, subscription, Commits
<1>2. i \in 1 .. Len(commits) /\ i \notin Handed
  <2>1. i < next /\ next <= Len(commits) + 1
    BY <1>1 DEF Inv, Ahead, Commits, TypeOK, Ids
  <2>. QED BY <1>1, <2>1 DEF Handed, Ids, Inv, TypeOK
<1>3. Commits'
  BY <1>1 DEF Commits
<1>4. CASE ~ShouldProcess(changes[i])
  <2>1. Handed' = Handed /\ UNCHANGED <<keys, built, misjudged>>
    BY <1>4 DEF FetchAndBuild, FetchLead, Handed, Inv, TypeOK
  <2>. QED BY <1>1, <1>3, <2>1, SameHandedKeepsData
<1>5. CASE ShouldProcess(changes[i])
  <2>. DEFINE id == EventId(i)
  <2>1. Handed' = Handed \cup {i}
    BY <1>5 DEF FetchAndBuild, FetchLead, Handed, Inv, TypeOK
  <2>2. PICK duplicate \in BOOLEAN :
          /\ Built(i, duplicate)
          /\ keys' \subseteq keys \cup {id}
          /\ duplicate => id \in keys \cup misjudged'
          /\ misjudged' \in {misjudged, misjudged \cup {id}}
          /\ keys' = keys \/ ~duplicate \/ id \in misjudged'
    <3>1. CASE Answered(i)
      BY <3>1 DEF Answered, Dedup!AnswerNovel, Dedup!AnswerDuplicate
    <3>2. CASE FailsOpen(i)
      BY <3>2 DEF FailsOpen, Dedup!AnswerFailOpen
    <3>3. CASE MeetsOwnKey(i)
      BY <3>3 DEF MeetsOwnKey, Dedup!AnswerOwnKey
    <3>. QED BY <1>5, <3>1, <3>2, <3>3 DEF FetchAndBuild
  <2>3. /\ built'[i] = [time |-> EventTime(i), id |-> id, duplicate |-> duplicate]
        /\ \A j \in Handed : built'[j] = built[j]
        /\ DOMAIN built' = Ids
    BY <1>2, <2>2 DEF BuiltOfHanded, Built
  <2>4. /\ built'[i].id = id
        /\ built'[i].time = EventTime(i)
        /\ built'[i].duplicate = duplicate
    BY <2>3
  <2>5. /\ EventTime(i) \in Nat
        /\ commits[i].second <= EventTime(i)
        /\ commits[i].stamped => EventTime(i) = commits[i].second
    BY <1>2, SecondsAreNumbers, LeadEventsAssumption DEF EventTime, Commits
  <2>6. id = [lead |-> commits[i].lead, name |-> Evaluate(changes[i]), time |-> EventTime(i)]
    BY DEF EventId
  <2>7. HandedCommitted'
    BY <1>1, <1>2, <2>1 DEF HandedCommitted
  <2>. HIDE DEF id
  <2>8. BuiltOfHanded'
    BY <1>1, <2>1, <2>3, <2>4, <2>5, <2>6 DEF BuiltOfHanded
  <2>9. KeysHaveOwners'
    <3>1. \A k \in keys :
            k \in misjudged' \/ \E j \in Handed' : ~built'[j].duplicate /\ built'[j].id = k
      BY <2>1, <2>2, <2>3 DEF KeysHaveOwners
    <3>2. ~duplicate => ~built'[i].duplicate /\ built'[i].id = id
      BY <2>4
    <3>. QED BY <2>1, <2>2, <3>1, <3>2 DEF KeysHaveOwners
  <2>10. OnlyTwinsAreDropped'
    <3>1. \A j \in Handed : built'[j].duplicate =>
            \/ built'[j].id \in misjudged'
            \/ \E k \in Handed' \ {j} :
                 /\ ~built'[k].duplicate
                 /\ commits'[k].lead = commits'[j].lead
                 /\ Evaluate(changes'[k]) = Evaluate(changes'[j])
                 /\ built'[k].time = built'[j].time
      BY <1>1, <2>1, <2>2, <2>3 DEF OnlyTwinsAreDropped
    <3>2. ASSUME duplicate, id \notin misjudged'
          PROVE  \E k \in Handed' \ {i} :
                   /\ ~built'[k].duplicate
                   /\ commits'[k].lead = commits'[i].lead
                   /\ Evaluate(changes'[k]) = Evaluate(changes'[i])
                   /\ built'[k].time = built'[i].time
      <4>1. PICK k \in Handed : ~built[k].duplicate /\ built[k].id = id
        BY <2>2, <3>2 DEF KeysHaveOwners
      <4>2. k # i
        BY <1>2
      <4>3. /\ commits[k].lead = commits[i].lead
            /\ Evaluate(changes[k]) = Evaluate(changes[i])
            /\ built[k].time = EventTime(i)
        <5>1. [lead |-> commits[k].lead, name |-> Evaluate(changes[k]), time |-> built[k].time]
                = [lead |-> commits[i].lead, name |-> Evaluate(changes[i]), time |-> EventTime(i)]
          BY <2>6, <4>1 DEF BuiltOfHanded
        <5>. HIDE DEF LeadInv
        <5>. QED BY <5>1
      <4>4. k \in Handed' \ {i} /\ built'[k] = built[k]
        BY <2>1, <2>3, <4>2
      <4>5. UNCHANGED <<commits, changes>> /\ built'[i].time = EventTime(i)
        BY <1>1, <2>4
      <4>. QED BY <4>1, <4>3, <4>4, <4>5
    <3>. QED BY <2>1, <2>4, <3>1, <3>2 DEF OnlyTwinsAreDropped
  <2>. QED BY <1>3, <2>7, <2>8, <2>9, <2>10
<1>. QED BY <1>4, <1>5

-----------------------------------------------------------------------------
LEMMA LeadNextKeepsInv == LeadInv /\ [LeadNext]_allVars => LeadInv'
<1>. SUFFICES ASSUME LeadInv, [LeadNext]_allVars PROVE LeadInv'
  OBVIOUS
<1>1. Inv'
  BY LeadStepIsListeners, NextKeepsInv DEF LeadInv
<1>2. CASE Tick
  BY <1>1, <1>2, TickKeepsData
<1>3. ASSUME NEW lead \in Leads, NEW c \in Inputs, NEW stamped \in BOOLEAN,
             CommitTo(lead, c, stamped)
      PROVE  LeadInv'
  BY <1>1, <1>3, CommitToKeepsData
<1>4. CASE ListenerStep
  BY <1>1, <1>4, ListenerKeepsData
<1>5. ASSUME NEW i \in Ids, FetchAndBuild(i) PROVE LeadInv'
  BY <1>1, <1>5, BuildKeepsData
<1>6. ASSUME NEW i \in Ids, FetchMisses(i) PROVE LeadInv'
  BY <1>1, <1>6, ListenerKeepsData
<1>7. ASSUME NEW id \in EventIds, ExpireKey(id) PROVE LeadInv'
  BY <1>1, <1>7, ExpireKeyKeepsData
<1>8. CASE UNCHANGED allVars
  <2>1. /\ UNCHANGED <<changes, fetch, now, commits, keys, built, misjudged>>
        /\ Handed' = Handed
    BY <1>8 DEF allVars, vars, leadVars, Handed
  <2>2. Commits' /\ Len(commits) \in Nat
    BY <2>1, LenProperties DEF LeadInv, Commits
  <2>. QED BY <1>1, <2>1, <2>2, SameHandedKeepsData DEF LeadInv
<1>. QED BY <1>2, <1>3, <1>4, <1>5, <1>6, <1>7, <1>8 DEF LeadNext

LEMMA LeadInvCorrect == LeadSpec => []LeadInv
BY LeadInitInv, LeadNextKeepsInv, PTL DEF LeadSpec

\* Only a twin that went through, of the same lead, event and event time, makes a change
\* a duplicate, unless Redis's answer to the SET of its key was lost.
THEOREM OnlyTwinsCorrect == LeadSpec => []OnlyTwinsAreDropped
<1>1. LeadInv => OnlyTwinsAreDropped
  BY DEF LeadInv
<1>. QED BY <1>1, LeadInvCorrect, PTL

\* The event times of a lead are in the order of its changes, whatever order their
\* messages are handled in and whether or not the later one was stamped.
THEOREM EventTimesCorrect == LeadSpec => []EventTimesKeepOrder
<1>1. LeadInv => EventTimesKeepOrder
  <2>. SUFFICES ASSUME LeadInv, NEW i \in Handed, NEW j \in Handed, i < j,
                       commits[i].stamped
                PROVE  built[i].time <= built[j].time
    BY DEF EventTimesKeepOrder
  <2>1. i \in 1 .. Len(commits) /\ j \in 1 .. Len(commits) /\ i <= j
    BY DEF LeadInv, HandedCommitted
  <2>2. commits[i].second <= commits[j].second
    BY <2>1 DEF LeadInv, Commits
  <2>3. /\ built[i].time = commits[i].second
        /\ commits[j].second <= built[j].time
        /\ built[j].time \in Nat
    BY DEF LeadInv, BuiltOfHanded
  <2>4. commits[i].second \in Nat /\ commits[j].second \in Nat
    BY <2>1, SecondsAreNumbers DEF LeadInv
  <2>. QED BY <2>2, <2>3, <2>4
<1>. QED BY <1>1, LeadInvCorrect, PTL

=============================================================================
