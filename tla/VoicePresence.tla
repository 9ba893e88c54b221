--------------------------- MODULE VoicePresence ---------------------------
(***************************************************************************)
(* The live voice of the page: the phase its reducer keeps, the room it    *)
(* has joined and the microphone it publishes, while the agent, the        *)
(* network, the browser's visibility and the user act in any order.        *)
(*                                                                         *)
(* The module is a transition relation over small records, explored by     *)
(* Reached; what a phase says is compared with the microphone.  Joining,   *)
(* binding and the first publication of the microphone are one step: the   *)
(* phases "connecting" and "binding" are passed through in it, or left for *)
(* "failed".  Copy, transcripts and playback permission are left out.      *)
(***************************************************************************)
EXTENDS Integers, FiniteSets

\* opening: the turn in which the agent greets; prev: the microphone to restore;
\* link: the room, "trying" while it reconnects, "down" once it gave up; noted: the
\* client's flag that the loss was told; mic: the microphone is published.
Idle == [phase |-> "idle", opening |-> FALSE, prev |-> "enabled",
         link |-> "none", noted |-> FALSE, mic |-> FALSE, hidden |-> FALSE]

AgentStates == {"initializing", "idle", "listening", "thinking", "speaking", "failed"}

-----------------------------------------------------------------------------
(* The reducer                                                             *)

\* isConnectedPhase.
Connected(s) == s.phase \in {"listening", "muted", "thinking", "speaking", "request_waiting"}

\* micPreference.
Preference(s) ==
  IF s.phase = "muted" THEN "muted"
  ELSE IF s.phase \in {"paused", "reconnecting"} THEN s.prev ELSE "enabled"

To(s, phase) == [s EXCEPT !.phase = phase, !.opening = FALSE]

\* AGENT_STATE: an opening turn ends when the agent speaks; a muted phase ends too.
AgentState(s, agent) ==
  IF s.phase \in {"idle", "failed"} THEN s
  ELSE IF agent = "failed" THEN To(s, "failed")
  ELSE IF ~Connected(s) THEN s
  ELSE IF agent = "speaking" THEN To(s, "speaking")
  ELSE IF agent \in {"thinking", "initializing"}
  THEN IF s.phase = "thinking" THEN s ELSE To(s, "thinking")
  ELSE IF (s.phase = "thinking" /\ s.opening) \/ s.phase = "muted" THEN s
  ELSE To(s, "listening")

\* AVATAR_PRESSED.
Pressed(s) ==
  IF s.phase = "listening" THEN To(s, "muted")
  ELSE IF s.phase \in {"muted", "paused", "speaking"} THEN To(s, "listening")
  ELSE s

\* avatarAction.
AvatarAction(s) ==
  IF s.phase \in {"idle", "failed"} THEN "start"
  ELSE IF s.phase = "listening" THEN "mute"
  ELSE IF s.phase \in {"muted", "paused"} THEN "resume"
  ELSE IF s.phase = "speaking" THEN "interrupt" ELSE "none"

\* commandsForLiveVoiceEvent: what a press should do to the microphone; the hook
\* issues its own commands and does not read this list.
CommandedMic(s) ==
  IF s.phase = "listening" THEN FALSE
  ELSE IF s.phase \in {"muted", "paused", "speaking"} THEN TRUE ELSE s.mic

-----------------------------------------------------------------------------
(* The session                                                             *)

\* disconnect.
Left(s) == [s EXCEPT !.link = "none", !.mic = FALSE]
Failed(s) == Left(To(s, "failed"))

\* start, by a press or by the page coming to the foreground while idle; an attempt
\* that fails in the room resets the flag, one that fails before it does not.
Start(s) ==
  IF s.phase = "failed" \/ (s.phase = "idle" /\ ~s.hidden)
  THEN {[To(s, "thinking") EXCEPT !.opening = TRUE, !.link = "up", !.mic = TRUE],
        Failed(s), [Failed(s) EXCEPT !.noted = FALSE]}
  ELSE {}

\* handleAvatarPress on a live session: the phase first, the microphone after it;
\* an interruption leaves the microphone alone, and a command that fails ends the
\* session.
Press(s) ==
  LET action == AvatarAction(s)
  IN IF action \in {"start", "none"} THEN {}
     ELSE {[Pressed(s) EXCEPT !.mic = IF action = "mute" THEN FALSE
                                      ELSE IF action = "resume" THEN TRUE ELSE s.mic],
           Failed(s)}

\* Reconnecting, Disconnected, Reconnected of the room, the page having read the
\* conversation again, and the recovery that takes too long.
Lose(s) ==
  IF Connected(s) THEN [To(s, "reconnecting") EXCEPT !.prev = Preference(s)] ELSE s

LinkTrying(s) ==
  IF s.link # "up" THEN {}
  ELSE IF s.noted THEN {[s EXCEPT !.link = "trying"]}
  ELSE {[Lose(s) EXCEPT !.link = "trying", !.mic = FALSE, !.noted = TRUE]}

LinkDown(s) ==
  IF s.link \notin {"up", "trying"} THEN {}
  ELSE {[(IF s.noted THEN s ELSE Lose(s)) EXCEPT !.link = "down", !.mic = FALSE]}

LinkBack(s) ==
  IF s.link # "trying" THEN {}
  ELSE IF s.phase # "reconnecting" THEN {[s EXCEPT !.link = "up", !.noted = FALSE]}
  ELSE {[To(s, IF s.prev = "muted" THEN "muted" ELSE "listening")
           EXCEPT !.link = "up", !.noted = FALSE, !.mic = s.prev # "muted"],
        [Failed(s) EXCEPT !.noted = FALSE]}

RecoveryExpires(s) == IF s.phase = "reconnecting" THEN {Failed(s)} ELSE {}

GreetingExpires(s) ==
  IF s.phase = "thinking" /\ s.opening THEN {To(s, "listening")} ELSE {}

\* visibilitychange and pagehide: pauseForLifecycle after the phase; the room is
\* kept.
Hide(s) ==
  {[(IF Connected(s) THEN [To(s, "paused") EXCEPT !.prev = Preference(s), !.mic = FALSE]
     ELSE s) EXCEPT !.hidden = TRUE]}
Show(s) == {[s EXCEPT !.hidden = FALSE]}

\* endConversation: from the button of a session that is live, or as the page goes.
EndConversation(s) ==
  IF s.phase \notin {"idle", "failed"} THEN {Left(To(s, "idle"))} ELSE {}

Successors(s) ==
  Start(s) \cup Press(s) \cup LinkTrying(s) \cup LinkDown(s) \cup LinkBack(s)
    \cup RecoveryExpires(s) \cup GreetingExpires(s) \cup Hide(s) \cup Show(s)
    \cup EndConversation(s)
    \cup (IF s.link = "up" THEN {AgentState(s, agent) : agent \in AgentStates} ELSE {})

\* What n steps reach; Steps is enough for all that any number of steps reaches.
Steps == 12
Reached[n \in 0..Steps] ==
  IF n = 0 THEN {Idle}
  ELSE LET before == Reached[n - 1] IN before \cup UNION {Successors(s) : s \in before}

-----------------------------------------------------------------------------
(* Claims, evaluated over every state that is reached                      *)

AllReached == UNION {Successors(s) : s \in Reached[Steps]} \subseteq Reached[Steps]

\* When the page says that it does not listen, the microphone is off.
SilentWhenSaid ==
  \A s \in Reached[Steps] :
    s.phase \in {"idle", "muted", "paused", "reconnecting"} => ~s.mic

\* A page that is idle is in no room, and one in no room publishes nothing.
MicHasRoom ==
  \A s \in Reached[Steps] : /\ s.phase = "idle" => s.link = "none"
                            /\ s.mic => s.link # "none"

\* A recovery restores the microphone the user had: it is not opened for one who
\* had closed it.
RecoveryRestores ==
  \A s \in Reached[Steps] : s.phase = "reconnecting" =>
    \A t \in LinkBack(s) : t.mic <=> (t.phase = "listening" /\ s.prev = "enabled")

\* Every session can be ended or restarted from where it is, without the agent.
NeverStuck ==
  \A s \in Reached[Steps] :
    \E t \in Start([s EXCEPT !.hidden = FALSE]) \cup EndConversation(s) : t.phase # s.phase

\* The phase "request_waiting" is never entered: the page does not pass on the
\* activity that the worker sends for a turn it deferred.
WaitingIsNeverShown == \A s \in Reached[Steps] : s.phase # "request_waiting"

\* Not so: that the page listens when it says so.  A muted phase is overwritten when
\* the agent thinks or speaks, and "listening" follows with the microphone closed;
\* interrupting the agent does not open it either.
ListeningIsHeard == \A s \in Reached[Steps] : s.phase = "listening" => s.mic
PressDoesAsCommanded ==
  \A s \in Reached[Steps] : AvatarAction(s) \in {"mute", "resume", "interrupt"} =>
    \E t \in Press(s) : t.phase # "failed" /\ t.mic = CommandedMic(s)

\* Not so: that a session that failed has left its room.  When the agent reports
\* that it failed, the page shows the failure, and the microphone stays published.
FailedHasLeft == \A s \in Reached[Steps] : s.phase = "failed" => ~s.mic

\* Not so: that losing the room is noticed.  Leaving a room that was reconnecting leaves
\* the client's flag behind, and the first loss of the next session is told to nobody.
LossIsNoticed ==
  \A s \in Reached[Steps] : s.link = "up" =>
    \A t \in LinkTrying(s) \cup LinkDown(s) : ~Connected(t)

\* Not so: that a page in the background is silent.  One that was hidden while it
\* reconnected takes the microphone back on its own.
HiddenIsSilent == \A s \in Reached[Steps] : s.hidden => ~s.mic

PresenceClaims ==
  /\ AllReached /\ SilentWhenSaid /\ MicHasRoom /\ RecoveryRestores /\ NeverStuck
  /\ WaitingIsNeverShown
  /\ ~ListeningIsHeard /\ ~PressDoesAsCommanded /\ ~FailedHasLeft /\ ~LossIsNoticed
  /\ ~HiddenIsSilent
=============================================================================
