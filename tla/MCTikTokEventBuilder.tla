------------------------ MODULE MCTikTokEventBuilder ------------------------
(***************************************************************************)
(* TLC instance of TikTokEventBuilder: numbers of every length the code    *)
(* tells apart, among them one of the US with and without its country      *)
(* code and one whose last ten digits are the same, and one change for     *)
(* every event and for what the filter drops.                              *)
(***************************************************************************)
EXTENDS TikTokEventBuilder

Fives(n) == [i \in 1 .. n |-> 5]

NumbersMC ==
  {Fives(9), Fives(10), <<1>> \o Fives(10), <<4, 4>> \o Fives(10)}

Update(fields, s) == [entity |-> "Lead", type |-> "UPDATE", fields |-> fields, status |-> s]

ChangesMC ==
  {Update({"Status"}, s) : s \in Statuses} \union
  {Update({"IsConverted"}, "open"), [Update({}, "open") EXCEPT !.type = "CREATE"]}

=============================================================================
