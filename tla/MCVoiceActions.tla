---------------------------- MODULE MCVoiceActions ----------------------------
(* A small instance of VoiceActions for TLC.                                 *)
EXTENDS VoiceActions, TLC

\* How a card's name was resolved, and what a confirmation comes to and is told as.
Names == INSTANCE NameResolution
Outcomes == INSTANCE ProposalOutcomes
ASSUME ProposalsAreClaimed == Names!NameClaims /\ Outcomes!ProposalClaims

Symmetry == Permutations(Calls)
=============================================================================
