------------------------- MODULE EventDeduplicator -------------------------
(***************************************************************************)
(* EventDeduplicator.isDuplicate: one SET key NX EX in Redis.  What it     *)
(* answers in each of its four cases is an operation of its own; Expire is *)
(* Redis's, when the TTL runs out or allkeys-lru evicts the key.           *)
(* Operations only: Pipeline composes them.                                *)
(***************************************************************************)
CONSTANT Events       \* event ids

VARIABLE keys         \* the event ids whose key crm:dedup:<id> exists

KeysTypeOK == keys \in SUBSET Events

KeysInit == keys = {}

\* Mutant of AnswerNovel: SET without NX.
AnswerNovelWithoutNX(e) == keys' = keys \cup {e}

\* SET answers OK: false, the event is novel and now marked.
AnswerNovel(e) == e \notin keys /\ keys' = keys \cup {e}

\* SET answers nil: true, the event is a duplicate.
AnswerDuplicate(e) == e \in keys /\ UNCHANGED keys

\* The command is rejected: false, fail open, whether Redis ran it or not.
AnswerFailOpen(e) == keys' = keys \/ keys' = keys \cup {e}

\* Redis ran the command but the connection dropped before the answer; ioredis
\* sends it again, and the key it finds is its own: true for a novel event.
AnswerOwnKey(e) == e \notin keys /\ keys' = keys \cup {e}

Expire(e) == e \in keys /\ keys' = keys \ {e}

=============================================================================
