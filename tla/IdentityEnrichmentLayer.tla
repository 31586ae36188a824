----------------------- MODULE IdentityEnrichmentLayer -----------------------
(***************************************************************************)
(* IdentityEnrichmentLayer: the identity signals of a lead and their       *)
(* score.  extractUser, extractAttribution and extractDevice rename        *)
(* fields, so a lead is a record of the names they give; device stands for *)
(* the ip and the user agent, which are treated alike.                     *)
(***************************************************************************)
EXTENDS Normalizer

Signals == {"tiktok_lead_id", "email", "phone", "ttclid", "external_id", "device"}

Weight == [tiktok_lead_id |-> 40, email |-> 30, phone |-> 20, ttclid |-> 15,
           external_id |-> 10, device |-> 3 + 2]

\* Mutant of Has: the phone is looked up under its later name.
HasMisnamed(lead, s) == s # "phone" /\ Present(lead[s])

Has(lead, s) == IF s = "phone" THEN PresentPhone(lead.phone) ELSE Present(lead[s])

SumOfWeights(signals) == LET Points(s) == IF s \in signals THEN Weight[s] ELSE 0 IN
  Points("tiktok_lead_id") + Points("email") + Points("phone") + Points("ttclid")
    + Points("external_id") + Points("device")

ScoreSignals(lead) == SumOfWeights({s \in Signals : Has(lead, s)})

=============================================================================
