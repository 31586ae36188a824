----------------------- MODULE TikTokEventBuilderProofs -----------------------
(***************************************************************************)
(* Proofs about TikTokEventBuilder, for any change, any words, addresses   *)
(* and numbers a lead may hold, and any event sets: nothing personal is    *)
(* sent but as a digest, a key stands for a person, and the score covers   *)
(* the keys.                                                               *)
(***************************************************************************)
EXTENDS TikTokEventBuilder, SequenceTheorems, TLAPS

\* The payload and the score are those of the lead as it came.
FromLead ==
  /\ change \in Changes /\ lead \in Leads /\ resolved \in EventSets \union {NoSet}
  /\ Built => /\ ShouldProcess(change)
              /\ score = ScoreSignals(lead)
              /\ payload = BuildPayload(Evaluate(change))

LEMMA FromLeadCorrect == Spec => []FromLead
<1>1. Init => FromLead
  BY DEF Init, FromLead, Built
<1>2. FromLead /\ [Process]_vars => FromLead'
  <2>. SUFFICES ASSUME FromLead, [Process]_vars PROVE FromLead'
    OBVIOUS
  <2>1. CASE Process
    BY <2>1 DEF Process, FromLead, Built, BuildPayload
  <2>2. CASE UNCHANGED vars
    BY <2>2 DEF vars, FromLead, Built, BuildPayload
  <2>. QED BY <2>1, <2>2
<1>. QED BY <1>1, <1>2, PTL DEF Spec

-----------------------------------------------------------------------------
(***************************************************************************)
(* Texts and digests.                                                      *)
(***************************************************************************)
\* Every text of a lead is a word, and how it is written.
AnyText == [word : Addresses \union Words \union {"", "filled"}, upper : BOOLEAN, padded : BOOLEAN]

LEMMA BlankTexts ==
  /\ Undefined \in AnyText /\ Blank \in AnyText /\ Undefined.word = "" /\ Blank.word = ""
BY DEF AnyText, Undefined, Blank

LEMMA LeadType ==
  ASSUME NEW l \in Leads
  PROVE  /\ l.tiktok_lead_id \in AnyText /\ l.email \in AnyText /\ l.name \in AnyText
         /\ l.external_id \in AnyText /\ l.ttclid \in AnyText /\ l.device \in AnyText
         /\ l.phone \in Dialled(Numbers) \union NoNumbers
<1>1. /\ Undefined \in AnyText /\ Blank \in AnyText /\ Filled \in AnyText
      /\ [Filled EXCEPT !.upper = TRUE] \in AnyText /\ [Filled EXCEPT !.padded = TRUE] \in AnyText
  BY DEF AnyText, Undefined, Blank, Filled
<1>2. Written(Addresses) \subseteq AnyText /\ Written(Words) \subseteq AnyText
  BY DEF AnyText, Written
<1>. QED BY <1>1, <1>2 DEF Leads

\* Normalising takes case and padding off, and keeps the word.
LEMMA Normalised ==
  ASSUME NEW t \in AnyText
  PROVE  /\ NameField(t) = [word |-> t.word, upper |-> FALSE, padded |-> FALSE]
         /\ NameField(t) \in AnyText /\ ExternalId(t) \in AnyText
         /\ ~NameField(t).padded /\ ~ExternalId(t).padded
         /\ Email(t, Addresses) = IF t.word \in Addresses THEN NameField(t) ELSE Undefined
         /\ Present(t) <=> ExternalId(t) # Undefined
         /\ NameField(t) # Undefined => Present(t)
<1>1. Trim(t) \in AnyText /\ Trim(t).word = t.word /\ ~Trim(t).padded
  BY DEF AnyText, Trim
<1>2. /\ NameField(t) \in AnyText /\ NameField(t).word = t.word
      /\ ~NameField(t).padded /\ ~NameField(t).upper
  BY <1>1 DEF AnyText, NameField, Lower
<1>3. NameField(t) = [word |-> t.word, upper |-> FALSE, padded |-> FALSE]
  BY <1>2 DEF AnyText
<1>4. Trim(t) = Undefined => NameField(t) = Undefined
  <2>1. Undefined.word = ""
    BY DEF Undefined
  <2>2. Trim(t) = Undefined => t.word = ""
    BY <1>1, <2>1
  <2>. QED BY <1>3, <2>2 DEF Undefined
<1>. QED BY <1>1, <1>2, <1>3, <1>4 DEF ExternalId, Email, Present

\* A digest is of a value, or there is none.
LEMMA Digests ==
  ASSUME NEW value, NEW none
  PROVE  /\ Sha256(value, none) # Absent => value # none /\ Sha256(value, none) = [sha256 |-> value]
         /\ value = none => Sha256(value, none) = Absent
         /\ [sha256 |-> value] # Absent
BY DEF Sha256, Absent

\* The fields of a lead, each under its key of the API.
UserFields(l) ==
  [lead_id |-> Plaintext(l.tiktok_lead_id),
   email |-> Sha256(Email(l.email, Addresses), Undefined),
   phone_number |-> Sha256(Phone(l.phone), <<>>),
   external_id |-> Sha256(ExternalId(l.external_id), Undefined),
   name |-> Sha256(NameField(l.name), Undefined),
   ttclid |-> Plaintext(l.ttclid), device |-> Plaintext(l.device)]

LEMMA UserDataIs ==
  ASSUME NEW l
  PROVE  /\ BuildUserData(l) = Given(UserFields(l))
         /\ DOMAIN BuildUserData(l) = {k \in PlainKeys \union HashedKeys : UserFields(l)[k] # Absent}
         /\ \A k \in DOMAIN BuildUserData(l) : BuildUserData(l)[k] = UserFields(l)[k]
<1>1. BuildUserData(l) = Given(UserFields(l))
  BY DEF BuildUserData, HashUser, UserFields
<1>2. DOMAIN UserFields(l) = PlainKeys \union HashedKeys
  BY DEF UserFields, PlainKeys, HashedKeys
<1>. QED BY <1>1, <1>2 DEF Given

LEMMA FieldsOf ==
  ASSUME NEW l
  PROVE  /\ UserFields(l).lead_id = Plaintext(l.tiktok_lead_id)
         /\ UserFields(l).email = Sha256(Email(l.email, Addresses), Undefined)
         /\ UserFields(l).phone_number = Sha256(Phone(l.phone), <<>>)
         /\ UserFields(l).external_id = Sha256(ExternalId(l.external_id), Undefined)
         /\ UserFields(l).name = Sha256(NameField(l.name), Undefined)
         /\ UserFields(l).ttclid = Plaintext(l.ttclid)
         /\ UserFields(l).device = Plaintext(l.device)
BY DEF UserFields

-----------------------------------------------------------------------------
(***************************************************************************)
(* What TikTok gets.                                                       *)
(***************************************************************************)
\* Each event the filter makes of a change is a stage of the funnel.
LEMMA EventStages ==
  ASSUME NEW c \in Change, ShouldProcess(c)
  PROVE  Evaluate(c) \in EventNames /\ DfoStage(Evaluate(c)) \in 1 .. 4
<1>1. /\ "SubmitForm" \in EventNames /\ "Purchase" \in EventNames
  <2>1. /\ "open" \in Mapped /\ STATUS_TO_EVENT["open"] = "SubmitForm"
        /\ "won" \in Mapped /\ STATUS_TO_EVENT["won"] = "Purchase"
    BY DEF Mapped, STATUS_TO_EVENT
  <2>. QED BY <2>1 DEF EventNames
<1>2. Evaluate(c) \in EventNames
  BY <1>1 DEF ShouldProcess, Evaluate, EventNames
<1>3. EventNames \subseteq {"SubmitForm", "Contact", "Schedule", "CompleteRegistration", "SubmitApplication",
                            "Purchase", "ApplicationApproval", "Subscribe", "StartTrial"}
  BY DEF EventNames, Mapped, STATUS_TO_EVENT
<1>4. \A e \in EventNames : DfoStage(e) \in 1 .. 4
  BY <1>3 DEF DfoStage, EVENT_TO_DFO_STAGE
<1>. QED BY <1>2, <1>4

LEMMA DigestsOnly ==
  ASSUME NEW l \in Leads, NEW k \in HashedKeys \intersect DOMAIN BuildUserData(l)
  PROVE  /\ DOMAIN BuildUserData(l)[k] = {"sha256"}
         /\ k # "phone_number" => ~BuildUserData(l)[k].sha256.padded
<1>. DEFINE key == BuildUserData(l)[k]
<1>1. key = UserFields(l)[k] /\ key # Absent
  BY UserDataIs
<1>2. ASSUME NEW value, NEW none, key = Sha256(value, none)
      PROVE  key = [sha256 |-> value] /\ value # none
  BY <1>1, <1>2, Digests
<1>3. ASSUME NEW value, key = [sha256 |-> value]
      PROVE  DOMAIN key = {"sha256"} /\ key.sha256 = value
  BY <1>3
<1>4. CASE k = "email"
  <2>1. key = [sha256 |-> Email(l.email, Addresses)] /\ Email(l.email, Addresses) # Undefined
    BY <1>1, <1>2, <1>4, FieldsOf
  <2>2. ~Email(l.email, Addresses).padded
    BY <2>1, LeadType, Normalised
  <2>. QED BY <1>3, <2>1, <2>2
<1>5. CASE k = "phone_number"
  <2>1. key = [sha256 |-> Phone(l.phone)]
    BY <1>1, <1>2, <1>5, FieldsOf
  <2>. QED BY <1>3, <1>5, <2>1
<1>6. CASE k = "external_id"
  <2>1. key = [sha256 |-> ExternalId(l.external_id)]
    BY <1>1, <1>2, <1>6, FieldsOf
  <2>2. ~ExternalId(l.external_id).padded
    BY LeadType, Normalised
  <2>. QED BY <1>3, <2>1, <2>2
<1>7. CASE k = "name"
  <2>1. key = [sha256 |-> NameField(l.name)]
    BY <1>1, <1>2, <1>7, FieldsOf
  <2>2. ~NameField(l.name).padded
    BY LeadType, Normalised
  <2>. QED BY <1>3, <2>1, <2>2
<1>. QED BY <1>4, <1>5, <1>6, <1>7 DEF HashedKeys

\* Whatever is typed into a lead's fields, TikTok gets a standard event of the
\* funnel, an event set if there is one, and no personal data but as the digest of
\* a normalised value under the keys of the API.
THEOREM OnlyDigestsCorrect == Spec => []OnlyDigests
<1>1. FromLead => OnlyDigests
  <2>. SUFFICES ASSUME FromLead, Built PROVE OnlyDigests
    BY DEF OnlyDigests
  <2>1. /\ change \in Change /\ ShouldProcess(change) /\ lead \in Leads
        /\ payload = BuildPayload(Evaluate(change))
    BY BuilderAssumption DEF FromLead
  <2>2. /\ payload.event = Evaluate(change) /\ payload.dfo_stage = DfoStage(Evaluate(change))
        /\ payload.event_source_id = IF resolved # NoSet THEN resolved ELSE ConfiguredSet
        /\ payload.user = BuildUserData(lead)
    BY <2>1 DEF BuildPayload
  <2>3. payload.event \in EventNames /\ payload.dfo_stage \in 1 .. 4
    BY <2>1, <2>2, EventStages
  <2>4. DOMAIN payload.user \subseteq PlainKeys \union HashedKeys
    BY <2>2, UserDataIs
  <2>5. \A k \in HashedKeys \intersect DOMAIN payload.user :
          /\ DOMAIN payload.user[k] = {"sha256"}
          /\ k # "phone_number" => ~payload.user[k].sha256.padded
    BY <2>1, <2>2, DigestsOnly
  <2>. QED BY <2>2, <2>3, <2>4, <2>5 DEF OnlyDigests
<1>. QED BY <1>1, FromLeadCorrect, PTL

-----------------------------------------------------------------------------
(***************************************************************************)
(* Whom a key stands for.                                                  *)
(***************************************************************************)
\* A number that is not misread is known by what it means: all of it, if it is long
\* enough to count.
LEMMA PhoneIsMeant ==
  ASSUME NEW p \in Dialled(Numbers) \union NoNumbers, ~Misread(p)
  PROVE  Phone(p) = IF Len(Meant(p)) > 10 THEN Meant(p) ELSE <<>>
<1>1. p.digits \in Seq(0 .. 9) /\ Len(p.digits) \in Nat
  <2>1. CASE p \in Dialled(Numbers)
    <3>1. p.digits \in Numbers
      BY <2>1 DEF Dialled
    <3>. QED BY <3>1, BuilderAssumption
  <2>2. CASE p \in NoNumbers
    <3>1. p.digits = <<>>
      BY <2>2 DEF NoNumbers, NoPhone, BlankPhone
    <3>. QED BY <3>1
  <2>. QED BY <2>1, <2>2
<1>2. CASE Len(p.digits) = 10
  <2>1. Meant(p) = <<1>> \o p.digits /\ Phone(p) = <<1>> \o p.digits
    BY <1>1, <1>2 DEF Misread, Meant, Phone
  <2>2. Len(<<1>> \o p.digits) = 11
    <3>1. <<1>> \in Seq(0 .. 9) /\ Len(<<1>>) = 1
      OBVIOUS
    <3>2. Len(<<1>> \o p.digits) = Len(<<1>>) + Len(p.digits)
      BY <1>1, <3>1, ConcatProperties, Zenon
    <3>. QED BY <1>2, <3>1, <3>2
  <2>. QED BY <2>1, <2>2
<1>3. CASE Len(p.digits) # 10
  BY <1>1, <1>3 DEF Meant, Phone
<1>. QED BY <1>2, <1>3

\* A lead and the same lead as somebody else would write it.
SamePerson(l, other) ==
  /\ other.email \in Rewritten(l.email) /\ other.name \in Rewritten(l.name)
  /\ Phone(other.phone) = Phone(l.phone)
  /\ other.tiktok_lead_id = l.tiktok_lead_id /\ other.external_id = l.external_id
  /\ other.ttclid = l.ttclid /\ other.device = l.device

LEMMA SpellingCounts ==
  ASSUME NEW l \in Leads, NEW other, SamePerson(l, other)
  PROVE  BuildUserData(other) = BuildUserData(l)
<1>1. ASSUME NEW t \in AnyText, NEW u \in Rewritten(t)
      PROVE  NameField(u) = NameField(t) /\ Email(u, Addresses) = Email(t, Addresses)
  <2>1. CASE Present(t)
    <3>1. u \in [word : {t.word}, upper : BOOLEAN, padded : BOOLEAN]
      BY <1>1, <2>1 DEF Rewritten, Written
    <3>2. u \in AnyText /\ u.word = t.word
      BY <1>1, <3>1 DEF AnyText
    <3>. QED BY <3>2, Normalised
  <2>2. CASE ~Present(t)
    <3>1. u \in AnyText /\ u.word = ""
      BY <1>1, <2>2, BlankTexts DEF Rewritten
    <3>2. NameField(t) = Undefined
      BY <2>2, Normalised
    <3>3. NameField(u) = Undefined
      BY <3>1, Normalised DEF Undefined
    <3>4. t.word = ""
      <4>1. NameField(t) = [word |-> t.word, upper |-> FALSE, padded |-> FALSE]
        BY Normalised
      <4>2. NameField(t).word = t.word
        BY <4>1
      <4>. QED BY <3>2, <4>2, BlankTexts
    <3>. QED BY <3>1, <3>2, <3>3, <3>4, Normalised
  <2>. QED BY <2>1, <2>2
<1>3. /\ NameField(other.email) = NameField(l.email) /\ NameField(other.name) = NameField(l.name)
      /\ Email(other.email, Addresses) = Email(l.email, Addresses)
  BY <1>1, LeadType DEF SamePerson
<1>4. UserFields(other) = UserFields(l)
  BY <1>3 DEF UserFields, SamePerson
<1>. QED BY <1>4, UserDataIs

\* Whoever types a person's data, in whatever case, padding or dress, TikTok gets
\* the same keys, and no two numbers share one unless they are the same; save for
\* foreign numbers of ten digits.
THEOREM KeysIdentifyCorrect == Spec => []KeysIdentify
<1>1. FromLead => KeysIdentify
  <2>. SUFFICES ASSUME FromLead, Built PROVE KeysIdentify
    BY DEF KeysIdentify, SpellingsAgree, NumbersApart
  <2>1. /\ lead \in Leads /\ payload.user = BuildUserData(lead)
        /\ lead.phone \in Dialled(Numbers) \union NoNumbers
    BY LeadType DEF FromLead, BuildPayload
  <2>2. SpellingsAgree
    <3>. SUFFICES ASSUME NEW email \in Rewritten(lead.email), NEW name \in Rewritten(lead.name),
                         NEW phone \in {p \in Dialled(Numbers) :
                                         ~Misread(p) /\ ~Misread(lead.phone) /\ Meant(p) = Meant(lead.phone)}
                                       \union {lead.phone}
                  PROVE  BuildUserData([lead EXCEPT !.email = email, !.name = name, !.phone = phone]) = payload.user
      BY DEF SpellingsAgree
    <3>1. Phone(phone) = Phone(lead.phone)
      BY <2>1, PhoneIsMeant
    <3>. DEFINE other == [lead EXCEPT !.email = email, !.name = name, !.phone = phone]
    <3>2. lead \in [tiktok_lead_id : AnyText, email : AnyText, phone : Dialled(Numbers) \union NoNumbers,
                    name : AnyText, external_id : AnyText, ttclid : AnyText, device : AnyText]
      BY <2>1, LeadType DEF Leads
    <3>3. SamePerson(lead, other)
      BY <3>1, <3>2 DEF SamePerson
    <3>. HIDE DEF other
    <3>4. BuildUserData(other) = BuildUserData(lead)
      BY <2>1, <3>3, SpellingCounts
    <3>. QED BY <2>1, <3>4 DEF other
  <2>3. NumbersApart
    BY <2>1, PhoneIsMeant DEF NumbersApart
  <2>. QED BY <2>2, <2>3 DEF KeysIdentify
<1>. QED BY <1>1, FromLeadCorrect, PTL

-----------------------------------------------------------------------------
(***************************************************************************)
(* The score.                                                              *)
(***************************************************************************)
\* More signals weigh more.
LEMMA SumIsMonotone ==
  ASSUME NEW A, NEW B, A \subseteq B
  PROVE  SumOfWeights(A) <= SumOfWeights(B)
BY DEF SumOfWeights, Weight

\* The keys of a payload's user that the score is to count.
Countable(user) == {k \in DOMAIN Counted \intersect DOMAIN user : user[k] # Blank}

\* A plaintext field that is sent, and not as a blank, is there.
LEMMA PlaintextIsThere ==
  ASSUME NEW t \in {Undefined, Blank, Filled}, Plaintext(t) # Absent, Plaintext(t) # Blank
  PROVE  Present(t)
<1>1. t = Filled
  BY DEF Plaintext
<1>2. Trim(Filled).word = "filled" /\ Undefined.word = ""
  BY DEF Trim, Filled, Undefined
<1>. QED BY <1>1, <1>2 DEF Present

\* A key that is sent, and not as a blank, comes of a field that is there.
LEMMA KeysAreSignals ==
  ASSUME NEW l \in Leads
  PROVE  {Counted[k] : k \in Countable(BuildUserData(l))} \subseteq {s \in Signals : Has(l, s)}
<1>1. /\ \A k \in DOMAIN BuildUserData(l) : UserFields(l)[k] # Absent
      /\ \A k \in Countable(BuildUserData(l)) : UserFields(l)[k] # Absent /\ UserFields(l)[k] # Blank
  BY UserDataIs DEF Countable
<1>a. /\ l.tiktok_lead_id \in {Undefined, Blank, Filled}
      /\ l.ttclid \in {Undefined, Blank, Filled} /\ l.device \in {Undefined, Blank, Filled}
  BY DEF Leads
<1>b. "lead_id" \in Countable(BuildUserData(l)) => Has(l, "tiktok_lead_id")
  BY <1>1, <1>a, FieldsOf, PlaintextIsThere DEF Has
<1>c. "ttclid" \in Countable(BuildUserData(l)) => Has(l, "ttclid")
  BY <1>1, <1>a, FieldsOf, PlaintextIsThere DEF Has
<1>d. "device" \in Countable(BuildUserData(l)) => Has(l, "device")
  BY <1>1, <1>a, FieldsOf, PlaintextIsThere DEF Has
<1>2. "email" \in DOMAIN BuildUserData(l) => Has(l, "email")
  <2>1. Email(l.email, Addresses) # Undefined => Present(l.email)
    BY LeadType, Normalised
  <2>. QED BY <1>1, <2>1, FieldsOf, Digests DEF Has
<1>3. "phone_number" \in DOMAIN BuildUserData(l) => Has(l, "phone")
  <2>1. Phone(l.phone) # <<>> => PresentPhone(l.phone)
    <3>1. l.phone \in {NoPhone, BlankPhone} => l.phone.digits = <<>>
      BY DEF NoPhone, BlankPhone
    <3>2. l.phone.digits = <<>> => Phone(l.phone) = <<>>
      BY DEF Phone
    <3>. QED BY <3>1, <3>2 DEF PresentPhone
  <2>. QED BY <1>1, <2>1, FieldsOf, Digests DEF Has
<1>4. "external_id" \in DOMAIN BuildUserData(l) => Has(l, "external_id")
  <2>1. ExternalId(l.external_id) # Undefined => Present(l.external_id)
    BY LeadType, Normalised
  <2>. QED BY <1>1, <2>1, FieldsOf, Digests DEF Has
<1>5. ASSUME NEW k \in Countable(BuildUserData(l)) PROVE Counted[k] \in Signals /\ Has(l, Counted[k])
  <2>1. k \in DOMAIN BuildUserData(l) /\ k \in DOMAIN Counted
    BY DEF Countable
  <2>2. CASE k \in {"email", "phone_number", "external_id"}
    BY <1>2, <1>3, <1>4, <2>1, <2>2 DEF Counted, Signals
  <2>3. CASE k \in {"lead_id", "ttclid", "device"}
    BY <1>b, <1>c, <1>d, <2>3 DEF Counted, Signals
  <2>. QED BY <2>1, <2>2, <2>3 DEF Counted
<1>. QED BY <1>5

\* The score counts every key that is sent, but the names and the blanks.
THEOREM ScoreCoversKeysCorrect == Spec => []ScoreCoversKeys
<1>1. FromLead => ScoreCoversKeys
  <2>. SUFFICES ASSUME FromLead, Built PROVE ScoreCoversKeys
    BY DEF ScoreCoversKeys
  <2>. DEFINE sent == {Counted[k] : k \in Countable(payload.user)}
              there == {s \in Signals : Has(lead, s)}
  <2>1. /\ lead \in Leads /\ payload.user = BuildUserData(lead) /\ score = ScoreSignals(lead)
    BY DEF FromLead, BuildPayload
  <2>2. SumOfWeights(sent) <= SumOfWeights(there)
    BY <2>1, KeysAreSignals, SumIsMonotone
  <2>3. SumOfWeights(sent) \in Nat /\ SumOfWeights(there) \in Nat
    BY DEF SumOfWeights, Weight
  <2>4. score = SumOfWeights(there)
    BY <2>1 DEF ScoreSignals
  <2>5. score >= SumOfWeights(sent)
    <3>. HIDE DEF sent, there
    <3>. QED BY <2>2, <2>3, <2>4
  <2>. QED BY <2>5 DEF ScoreCoversKeys, Countable
<1>. QED BY <1>1, FromLeadCorrect, PTL

=============================================================================
