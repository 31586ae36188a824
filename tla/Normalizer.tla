----------------------------- MODULE Normalizer -----------------------------
(***************************************************************************)
(* Normalizer and Hasher: what becomes of a lead's fields before they are  *)
(* sent.  A text is its word in lower case and how it is written; the text *)
(* without a word is undefined, or blank when it is padded.  A phone       *)
(* number is its digits and what stands around them.                       *)
(***************************************************************************)
EXTENDS Naturals, Sequences

Written(words) == [word : words, upper : BOOLEAN, padded : BOOLEAN]
Undefined == [word |-> "", upper |-> FALSE, padded |-> FALSE]
Blank == [Undefined EXCEPT !.padded = TRUE]

Trim(text) == [text EXCEPT !.padded = FALSE]
Lower(text) == [text EXCEPT !.upper = FALSE]

Dialled(numbers) == [digits : numbers, around : {"nothing", "marks", "plus"}]
NoPhone == [digits |-> <<>>, around |-> "nothing"]
BlankPhone == [NoPhone EXCEPT !.around = "spaces"]
NoNumbers == {NoPhone, BlankPhone, [NoPhone EXCEPT !.around = "marks"]}

\* Boolean(value?.trim())
Present(text) == Trim(text) # Undefined
PresentPhone(raw) == raw \notin {NoPhone, BlankPhone}

NameField(raw) == Lower(Trim(raw))
ExternalId(raw) == Trim(raw)

\* addresses are the words with an '@'.
Email(raw, addresses) == IF raw.word \in addresses THEN NameField(raw) ELSE Undefined

\* Mutant of Phone: the last ten digits count.
PhoneLastTen(raw) == LET n == Len(raw.digits) IN
  IF n >= 10 THEN <<1>> \o SubSeq(raw.digits, n - 9, n) ELSE <<>>

\* The digits behind the '+'; none when there are too few.
Phone(raw) ==
  CASE Len(raw.digits) = 10 -> <<1>> \o raw.digits
    [] Len(raw.digits) > 10 -> raw.digits
    [] OTHER -> <<>>

Absent == [absent |-> TRUE]

\* The digest of a value is a constructor: equal for equal values only.
Sha256(value, none) == IF value = none THEN Absent ELSE [sha256 |-> value]

\* Mutant of HashUser: the external id is passed on as it is.
HashUserButId(user, addresses) ==
  [email |-> Sha256(Email(user.email, addresses), Undefined),
   phone_number |-> Sha256(Phone(user.phone), <<>>),
   name |-> Sha256(NameField(user.name), Undefined),
   external_id |-> IF user.external_id = Undefined THEN Absent ELSE user.external_id]

\* name stands for first_name and last_name.  The city, state, zip and country
\* are hashed too, but no payload takes them up.
HashUser(user, addresses) ==
  [email |-> Sha256(Email(user.email, addresses), Undefined),
   phone_number |-> Sha256(Phone(user.phone), <<>>),
   name |-> Sha256(NameField(user.name), Undefined),
   external_id |-> Sha256(ExternalId(user.external_id), Undefined)]

=============================================================================
