------------------------------ MODULE EventLog ------------------------------
(***************************************************************************)
(* The table crm_event_log as the class EventLog writes it: event_id is    *)
(* UNIQUE, a second insert does nothing, and an update of a row that is    *)
(* not there changes nothing.  The payload, response and error columns are *)
(* left out.  Operations only: Pipeline composes them.                     *)
(***************************************************************************)
CONSTANT Events       \* event ids

VARIABLE log          \* status column by event id, NoRow where there is no row

NoRow == "noRow"
Statuses == {"pending", "sent", "failed", "duplicate"}

LogTypeOK == log \in [Events -> Statuses \cup {NoRow}]

LogInit == log = [e \in Events |-> NoRow]

HasRow(e) == log[e] # NoRow

\* Mutant of Insert: ON CONFLICT DO UPDATE.
InsertOverwrites(e, status) == log' = [log EXCEPT ![e] = status]

\* insert: ON CONFLICT (event_id) DO NOTHING.
Insert(e, status) == log' = IF HasRow(e) THEN log ELSE [log EXCEPT ![e] = status]

\* updateStatus: UPDATE ... WHERE event_id = e.
UpdateStatus(e, status) == log' = IF HasRow(e) THEN [log EXCEPT ![e] = status] ELSE log

=============================================================================
