---------------------------- MODULE MCLeadEvents ----------------------------
(***************************************************************************)
(* TLC instances of LeadEvents: one lead with a change of each kind the    *)
(* filter tells apart, and another with a change the first one has too.    *)
(***************************************************************************)
EXTENDS LeadEvents

CONSTANTS lead1, lead2

Update(fields, status) ==
  [entity |-> "Lead", type |-> "UPDATE", fields |-> fields, status |-> status]

Contacted == Update({"Status"}, "contacted")

MCInputs == {Contacted, Update({"Status", "IsConverted"}, "contacted"), Update({"pii"}, "unmapped")}

MCLeadInputs == ({lead1} \X MCInputs) \cup {<<lead2, Contacted>>}

=============================================================================
