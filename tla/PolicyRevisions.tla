--------------------------- MODULE PolicyRevisions ---------------------------
(***************************************************************************)
(* What the recipient policy of a wallet promises to whoever spends from   *)
(* it: every recorded change closes the gate, and only the verification of *)
(* the latest recorded revision opens it again; the applied revision never *)
(* goes back and never runs ahead.                                         *)
(***************************************************************************)
EXTENDS Naturals

VARIABLES
  desired,  \* the last revision recorded
  applied,  \* the last revision verified at the provider
  open      \* may a delegated grant spend?

vars == <<desired, applied, open>>

Init == desired = 0 /\ applied = 0 /\ open = FALSE

Record == desired' = desired + 1 /\ open' = FALSE /\ UNCHANGED applied

Verify == applied' = desired /\ open' \in BOOLEAN /\ UNCHANGED desired

Close == open' = FALSE /\ UNCHANGED <<desired, applied>>

Next == Record \/ Verify \/ Close

Spec == Init /\ [][Next]_vars

==============================================================================
