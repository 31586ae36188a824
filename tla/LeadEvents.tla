----------------------------- MODULE LeadEvents -----------------------------
(***************************************************************************)
(* What becomes of the changes of a lead: the event time and the event id  *)
(* that process() builds from the message, and which of them the           *)
(* deduplicator lets through, also when Redis fails it, when its answer is *)
(* lost and when a key is gone.  The steps are CDCListener's with the data *)
(* they carry.                                                             *)
(***************************************************************************)
EXTENDS CDCListener

CONSTANTS Leads,
          LeadInputs,        \* the changes a lead undergoes: pairs of lead and change
          MaxSeconds,        \* bound: how far the clock runs
          MaxRedisFaults     \* bound: rejected or lost answers of Redis

ASSUME LeadEventsAssumption ==
  /\ LeadInputs \subseteq Leads \X Inputs
  /\ MaxSeconds \in Nat /\ MaxRedisFaults \in Nat

VARIABLES now,               \* seconds, at Salesforce and at the integration
          commits,           \* lead and second of each change, and whether its message
                             \* is stamped with the second (commitTimestamp)
          keys,              \* EventDeduplicator: the ids whose key exists
          built,             \* what process() made of each change it was handed:
                             \* event time, event id and verdict
          redisFaults,
          misjudged          \* history: ids whose own key was taken for a duplicate

leadVars == <<now, commits, keys, built, redisFaults, misjudged>>
allVars == <<vars, leadVars>>

EventIds == [lead : Leads, name : EventNames, time : 0 .. MaxSeconds]

Dedup == INSTANCE EventDeduplicator WITH Events <- EventIds

NotBuilt == "notBuilt"

LeadInit ==
  /\ Init
  /\ now = 0
  /\ commits = <<>>
  /\ Dedup!KeysInit
  /\ built = [i \in Ids |-> NotBuilt]
  /\ redisFaults = 0
  /\ misjudged = {}

RedisFault == redisFaults < MaxRedisFaults /\ redisFaults' = redisFaults + 1

Tick ==
  /\ now < MaxSeconds
  /\ now' = now + 1
  /\ UNCHANGED <<vars, commits, keys, built, redisFaults, misjudged>>

CommitTo(lead, c, stamped) ==
  /\ <<lead, c>> \in LeadInputs
  /\ Commit(c)
  /\ commits' = Append(commits, [lead |-> lead, second |-> now, stamped |-> stamped])
  /\ UNCHANGED <<now, keys, built, redisFaults, misjudged>>

\* Mutant of EventTime: the time at which the pipeline gets to it.
PipelineTime(i) == now

\* event_time: the second of the commitTimestamp in the message, or else now.
EventTime(i) == IF commits[i].stamped THEN commits[i].second ELSE now

\* Mutant of EventId: without the time.
EventIdWithoutTime(i) ==
  [lead |-> commits[i].lead, name |-> Evaluate(changes[i]), time |-> 0]

\* Hasher.eventId, which no two different triples share.
EventId(i) ==
  [lead |-> commits[i].lead, name |-> Evaluate(changes[i]), time |-> EventTime(i)]

Built(i, duplicate) ==
  built' = [built EXCEPT ![i] = [time |-> EventTime(i), id |-> EventId(i), duplicate |-> duplicate]]

Answered(i) ==
  /\ \/ Dedup!AnswerNovel(EventId(i)) /\ Built(i, FALSE)
     \/ Dedup!AnswerDuplicate(EventId(i)) /\ Built(i, TRUE)
  /\ UNCHANGED <<redisFaults, misjudged>>

FailsOpen(i) ==
  /\ RedisFault
  /\ Dedup!AnswerFailOpen(EventId(i))
  /\ Built(i, FALSE)
  /\ UNCHANGED misjudged

MeetsOwnKey(i) ==
  /\ RedisFault
  /\ Dedup!AnswerOwnKey(EventId(i))
  /\ Built(i, TRUE)
  /\ misjudged' = misjudged \cup {EventId(i)}

\* The lead is fetched, and what is not filtered goes through isDuplicate.
FetchAndBuild(i) ==
  /\ FetchLead(i)
  /\ IF ShouldProcess(changes[i])
     THEN Answered(i) \/ FailsOpen(i) \/ MeetsOwnKey(i)
     ELSE UNCHANGED <<keys, built, redisFaults, misjudged>>
  /\ UNCHANGED <<now, commits>>

\* The key of an id goes: its TTL is over, or Redis evicts it.
ExpireKey(id) ==
  /\ Dedup!Expire(id)
  /\ UNCHANGED <<vars, now, commits, built, redisFaults, misjudged>>

FetchMisses(i) == (FetchRetries(i) \/ FetchFails(i)) /\ UNCHANGED leadVars

ListenerStep ==
  /\ \/ Connect \/ ConnectFails \/ GiveUp \/ Crash
     \/ Subscribe \/ Refuse \/ Expire \/ Break
     \/ Message
  /\ UNCHANGED leadVars

LeadNext ==
  \/ Tick
  \/ \E lead \in Leads, c \in Inputs, stamped \in BOOLEAN : CommitTo(lead, c, stamped)
  \/ ListenerStep
  \/ \E i \in Ids : FetchAndBuild(i) \/ FetchMisses(i)
  \/ \E id \in EventIds : ExpireKey(id)

LeadSpec == LeadInit /\ [][LeadNext]_allVars

\* connect() tries on, and the CometD client opens the subscription while the token is good.
LeadFairness ==
  /\ WF_allVars(Connect /\ UNCHANGED leadVars)
  /\ WF_allVars(Subscribe /\ UNCHANGED leadVars)

LeadFairSpec == LeadSpec /\ LeadFairness

-----------------------------------------------------------------------------
Handed == {i \in Ids : fetch[i] = "handed"}

\* A change is dropped as a duplicate only for the sake of a twin that went
\* through: the same lead, the same event and the same event time.  Two real changes
\* can be twins; then one of them, not always the later, never reaches TikTok.  Only a
\* lost answer of Redis, after which the SET is repeated, drops one that has no twin.
OnlyTwinsAreDropped ==
  \A i \in Handed :
    built[i].duplicate =>
      \/ built[i].id \in misjudged
      \/ \E j \in Handed \ {i} :
           /\ ~built[j].duplicate
           /\ commits[j].lead = commits[i].lead
           /\ Evaluate(changes[j]) = Evaluate(changes[i])
           /\ built[j].time = built[i].time

\* However late and in whatever order messages are handled, the event times of a lead
\* are in the order of its changes, as long as the earlier one came with its second.
EventTimesKeepOrder ==
  \A i, j \in Handed :
    i < j /\ commits[i].lead = commits[j].lead /\ commits[i].stamped =>
      built[i].time <= built[j].time

=============================================================================
