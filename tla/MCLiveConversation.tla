------------------------- MODULE MCLiveConversation -------------------------
(* Two jobs on one conversation; four revisions after the first. *)
EXTENDS LiveConversation, TLC

CONSTANTS j1, j2

MCJobs == {j1, j2}

(* The page's voice session and the job's room, over every state they reach. *)
Presence == INSTANCE VoicePresence
Room == INSTANCE VoiceRoom
ASSUME VoiceClaims == Presence!PresenceClaims /\ Room!RoomClaims

=============================================================================
