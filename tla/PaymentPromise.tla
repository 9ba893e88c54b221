--------------------------- MODULE PaymentPromise ---------------------------
(***************************************************************************)
(* What a conversation promises about the transfers it offers, with none   *)
(* of the machinery: at most one transfer is on the table at a time, an    *)
(* offer taken up is paid at most once, an offer withdrawn was never paid  *)
(* and stays withdrawn, and only a payment can be concluded.               *)
(***************************************************************************)
EXTENDS Naturals

CONSTANT Attempts

VARIABLES
  offer,  \* [Attempts -> Offers]
  paid    \* [Attempts -> {0, 1}]

vars == <<offer, paid>>

Offers == {"none", "open", "taken", "concluded", "withdrawn"}

Init ==
  /\ offer = [a \in Attempts |-> "none"]
  /\ paid = [a \in Attempts |-> 0]

OnTable(table) == {a \in Attempts : table[a] \in {"open", "taken"}}

\* What one step may do to one attempt it has not paid before.
Unpaid(a) ==
  /\ paid[a] = 0
  /\ \/ /\ paid'[a] = 0
        /\ <<offer[a], offer'[a]>> \in
             {<<"none", "open">>, <<"none", "taken">>, <<"open", "taken">>,
              <<"open", "withdrawn">>, <<"taken", "open">>, <<"taken", "withdrawn">>}
     \/ /\ paid'[a] = 1
        /\ offer[a] = "taken" /\ offer'[a] = "taken"

Conclude(a) ==
  /\ paid[a] = 1 /\ paid'[a] = 1
  /\ offer[a] = "taken" /\ offer'[a] = "concluded"

\* One step may withdraw an offer and open the next one.
Next ==
  /\ \A a \in Attempts :
       Unpaid(a) \/ Conclude(a) \/ <<offer[a], paid[a]>>' = <<offer[a], paid[a]>>
  /\ \A a, b \in OnTable(offer') : a = b

Spec == Init /\ [][Next]_vars

=============================================================================
