---------------------------- MODULE EventFilter ----------------------------
(***************************************************************************)
(* EventFilter.evaluate: which lead changes become TikTok events.  The     *)
(* statuses that STATUS_TO_EVENT maps alike are one member of Statuses;    *)
(* negative stands for its terminal negative ones (unqualified, junk lead, *)
(* lost, inactive, ...), unmapped for any other text.                      *)
(***************************************************************************)
Filtered == "filtered"

STATUS_TO_EVENT ==
  [open |-> "SubmitForm", contacted |-> "Contact", scheduled |-> "Schedule",
   qualified |-> "CompleteRegistration", opportunity |-> "SubmitApplication",
   won |-> "Purchase", negative |-> "Purchase", approved |-> "ApplicationApproval",
   subscribed |-> "Subscribe", trial |-> "StartTrial"]

Mapped == DOMAIN STATUS_TO_EVENT
Statuses == Mapped \cup {"unmapped"}

EventNames == {STATUS_TO_EVENT[s] : s \in Mapped}

ChangeTypes == {"CREATE", "UPDATE", "DELETE", "UNDELETE"}
Fields == {"Status", "IsConverted", "pii", "other"}

\* status is payload['Status'], which counts only when the field changed.
Change == [entity : {"Lead", "Contact"}, type : ChangeTypes, fields : SUBSET Fields,
           status : Statuses]

\* Whatever an UPDATE changes, conversion goes before status, and no other
\* field matters, so the PII-only test rejects nothing that is not rejected.
Evaluate(c) ==
  IF c.entity # "Lead" THEN Filtered
  ELSE IF c.type = "CREATE" THEN "SubmitForm"
  ELSE IF c.type # "UPDATE" THEN Filtered
  ELSE IF "IsConverted" \in c.fields THEN "Purchase"
  ELSE IF "Status" \in c.fields /\ c.status \in Mapped THEN STATUS_TO_EVENT[c.status]
  ELSE Filtered

ShouldProcess(c) == Evaluate(c) # Filtered

=============================================================================
