------------------------- MODULE TikTokEventBuilder -------------------------
(***************************************************************************)
(* TikTokEventBuilder, at its place in Pipeline.process: a change that     *)
(* passes the filter, the lead with whatever people have typed into its    *)
(* fields, the score of its signals and the payload that is sent.  One     *)
(* step, since the only await in between, the resolution of the event set, *)
(* touches nothing of it; its result is an input.  value and currency are  *)
(* never sent: process sets neither.                                       *)
(***************************************************************************)
EXTENDS IdentityEnrichmentLayer, EventFilter

CONSTANTS Addresses,         \* words with an '@', in lower case
          Words,             \* words without
          Numbers,           \* phone numbers as sequences of digits
          Changes,
          EventSets,         \* event set ids
          ConfiguredSet      \* TIKTOK_CRM_EVENT_SET_ID, or NoSet

NoSet == "no set"            \* undefined, and '' in a payload

ASSUME BuilderAssumption ==
  /\ Numbers \subseteq Seq(0 .. 9)
  /\ Changes \subseteq Change
  /\ ConfiguredSet \in EventSets \union {NoSet}

\* A field in which nothing but its presence matters holds one word.
Filled == [Undefined EXCEPT !.word = "filled"]

Leads ==
  [tiktok_lead_id : {Undefined, Blank, Filled},
   email : Written(Addresses) \union Written(Words) \union {Undefined, Blank},
   phone : Dialled(Numbers) \union NoNumbers,
   name : {Undefined, [Filled EXCEPT !.upper = TRUE]},
   external_id : {Undefined, Blank, Filled, [Filled EXCEPT !.padded = TRUE]},
   ttclid : {Undefined, Blank, Filled},
   device : {Undefined, Blank, Filled}]

EVENT_TO_DFO_STAGE ==
  [SubmitForm |-> 1, Contact |-> 2, Schedule |-> 2, CompleteRegistration |-> 3,
   SubmitApplication |-> 3, Purchase |-> 4, ApplicationApproval |-> 4, Subscribe |-> 4,
   StartTrial |-> 4]

VARIABLES change, lead, resolved,   \* the input; resolved is the advertiser's event set
          score, payload

vars == <<change, lead, resolved, score, payload>>

NoPayload == [event |-> Filtered]

\* Only what is there is assigned; of a plaintext field a blank is.
Given(data) == [k \in {j \in DOMAIN data : data[j] # Absent} |-> data[k]]
Plaintext(text) == IF text = Undefined THEN Absent ELSE text

BuildUserData(l) == LET hashed == HashUser(l, Addresses) IN
  Given([lead_id |-> Plaintext(l.tiktok_lead_id), email |-> hashed.email,
         phone_number |-> hashed.phone_number, external_id |-> hashed.external_id,
         name |-> hashed.name, ttclid |-> Plaintext(l.ttclid), device |-> Plaintext(l.device)])

DfoStage(event) ==
  IF event \in DOMAIN EVENT_TO_DFO_STAGE THEN EVENT_TO_DFO_STAGE[event] ELSE 0

BuildPayload(event) ==
  [event |-> event,
   event_source_id |-> IF resolved # NoSet THEN resolved ELSE ConfiguredSet,
   user |-> BuildUserData(lead),
   dfo_stage |-> DfoStage(event)]

Init ==
  /\ change \in Changes
  /\ lead \in Leads
  /\ resolved \in EventSets \union {NoSet}
  /\ score = 0
  /\ payload = NoPayload

Process ==
  /\ payload = NoPayload
  /\ ShouldProcess(change)
  /\ score' = ScoreSignals(lead)
  /\ payload' = BuildPayload(Evaluate(change))
  /\ UNCHANGED <<change, lead, resolved>>

Spec == Init /\ [][Process]_vars

-----------------------------------------------------------------------------
Built == payload # NoPayload
PlainKeys == {"lead_id", "ttclid", "device"}
HashedKeys == {"email", "phone_number", "external_id", "name"}

\* What TikTok gets: a standard event of one of the four funnel stages for every
\* change the filter lets through, an event set unless neither the advertiser
\* nor the environment has one, and no personal data but under the keys of the
\* API and as the digest of a normalised value.
OnlyDigests == Built =>
  /\ payload.event \in EventNames
  /\ payload.dfo_stage \in 1 .. 4
  /\ payload.event_source_id = NoSet => {resolved, ConfiguredSet} = {NoSet}
  /\ DOMAIN payload.user \subseteq PlainKeys \union HashedKeys
  /\ \A k \in HashedKeys \intersect DOMAIN payload.user :
       /\ DOMAIN payload.user[k] = {"sha256"}
       /\ k # "phone_number" => ~payload.user[k].sha256.padded

\* The number a phone field means: with a '+', or longer than a number of the
\* US, it has its country code.
Meant(p) == IF p.around = "plus" \/ Len(p.digits) # 10 THEN p.digits ELSE <<1>> \o p.digits

\* The '+' is stripped like any mark, so a foreign number of ten digits in all
\* is taken for one of the US.
Misread(p) == p.around = "plus" /\ Len(p.digits) = 10

Rewritten(text) == IF Present(text) THEN Written({text.word}) ELSE {Undefined, Blank}

\* However a person's data are written, in whatever case, padding or dress,
\* TikTok gets the same keys for that person.  Only an id is kept in its case.
SpellingsAgree == Built =>
  \A email \in Rewritten(lead.email), name \in Rewritten(lead.name),
     phone \in {p \in Dialled(Numbers) :
                 ~Misread(p) /\ ~Misread(lead.phone) /\ Meant(p) = Meant(lead.phone)} \union {lead.phone} :
    BuildUserData([lead EXCEPT !.email = email, !.name = name, !.phone = phone]) = payload.user

\* Two phone fields share a key only when they mean one number.
NumbersApart == Built =>
  \A p \in Dialled(Numbers) :
    \/ Phone(p) = <<>> \/ Phone(p) # Phone(lead.phone)
    \/ Misread(p) \/ Misread(lead.phone)
    \/ Meant(p) = Meant(lead.phone)

\* A key stands for a person: however the data of one are written TikTok gets the
\* same keys, and nobody's events are matched by somebody else's phone, but for
\* the numbers that are misread.
KeysIdentify == SpellingsAgree /\ NumbersApart

\* The signal each key of a payload is scored as; the name is not scored.
Counted == [lead_id |-> "tiktok_lead_id", email |-> "email", phone_number |-> "phone",
            external_id |-> "external_id", ttclid |-> "ttclid", device |-> "device"]

\* The score that is logged covers every key that is sent, although presence is
\* tested on the raw text and sending on the normalised one, but for the names and
\* for a lead id, a ttclid or a device field that is blank: that is sent all the
\* same, since a plaintext field is tested untrimmed, and scores nothing.
ScoreCoversKeys == Built =>
  LET counted == {k \in DOMAIN Counted \intersect DOMAIN payload.user : payload.user[k] # Blank}
  IN  score >= SumOfWeights({Counted[k] : k \in counted})

=============================================================================
