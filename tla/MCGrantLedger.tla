---------------------------- MODULE MCGrantLedger ----------------------------
(* A small instance of GrantLedger for TLC: two grants, the first the        *)
(* tighter, and two executions that fit it only one at a time.               *)
EXTENDS GrantLedger, TLC

GrantIds == {1, 2}
Amounts == [k \in Keys |-> 1]
TransferCaps == <<1, 2>>
CumulativeCaps == <<1, 1>>
Expiries == <<1, 2>>

Symmetry == Permutations(Slots) \cup Permutations(Contacts) \cup Permutations(Keys)
=============================================================================
