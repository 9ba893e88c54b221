------------------------- MODULE MCAssistantTurns -------------------------
(* A small instance of AssistantTurns: one name that leads to the first of  *)
(* two addresses, one contact saved under that name, and two turns that may *)
(* overlap each other and the wallet screen's requests.                     *)
EXTENDS AssistantTurns, TLC

CONSTANTS a1, a2, n1

MCSaved == <<Row(a1, Claim(n1, a1))>>

\* What the tools accept and answer, what the row is shown as, and whom a name is
\* taken for.
Agent == INSTANCE AgentTools
State == INSTANCE ConversationState
Retrieval == INSTANCE RecipientSearch
ASSUME AgentClaims == Agent!ToolClaims /\ State!StateClaims /\ Retrieval!SearchClaims

Symmetry == Permutations(Turns) \cup Permutations(Requests)
=============================================================================
