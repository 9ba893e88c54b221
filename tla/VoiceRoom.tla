----------------------------- MODULE VoiceRoom -----------------------------
(***************************************************************************)
(* One LiveKit job inside its room: the binding its gate keeps, the agent  *)
(* sessions it has started, the one utterance it keeps while a turn is     *)
(* worked on, the microphone during the greeting, and the steps of its     *)
(* shutdown.  LiveConversation has the lease among jobs and the page; here *)
(* is what one job does with a second binding, since the room's name is    *)
(* the conversation's and a page that comes back meets the same job.       *)
(*                                                                         *)
(* The rooms are small records, explored by Reached.  Turns by transcript  *)
(* are RoomConversation's; the worker binds through it and speaks through  *)
(* the tools of its session, and only tests feed it transcripts.           *)
(***************************************************************************)
EXTENDS Integers, FiniteSets

\* bound: the binding kept; held: the lease it knows of; lease: the row under that
\* lease's token; ready: the gate; sessions: those started and not closed; turns: those
\* in flight; working, deferred: activeWork and the queue; late: a lease has lapsed.
Waiting == [job |-> "waiting", bound |-> FALSE, held |-> FALSE, lease |-> "none",
            ready |-> FALSE, sessions |-> 0, turns |-> 0, working |-> FALSE,
            deferred |-> FALSE, late |-> FALSE]

-----------------------------------------------------------------------------
(* Binding                                                                 *)

\* release.
Released(r) ==
  [r EXCEPT !.bound = FALSE, !.held = FALSE, !.working = FALSE, !.deferred = FALSE,
            !.lease = IF r.held THEN "none" ELSE @]

\* RoomConversation.bind with startSession behind it: what is left of the room, and
\* whether the browser is told that it is bound.  A token refused early leaves all as it
\* was; a read or a lease that fails leaves the new binding without one.
Binds(r) ==
  LET leased == [r EXCEPT !.bound = TRUE, !.held = TRUE, !.lease = "mine"]
  IN {<<r, FALSE>>, <<[r EXCEPT !.bound = TRUE], FALSE>>}
     \cup (IF r.lease = "mine" THEN {<<[r EXCEPT !.bound = FALSE], FALSE>>}
           ELSE {<<[leased EXCEPT !.ready = TRUE, !.sessions = @ + 1], TRUE>>,
                 <<Released(leased), FALSE>>})

\* runJob: the first answer decides whether the job serves; the method stays registered.
Bind(r) ==
  CASE r.job = "waiting" ->
         {IF b[2] THEN [b[1] EXCEPT !.job = "serving"] ELSE [Released(b[1]) EXCEPT !.job = "gone"]
            : b \in Binds(r)}
    [] r.job = "serving" -> {b[1] : b \in {c \in Binds(r) : c[1].sessions <= 2}}
    [] OTHER -> {}

\* A job too busy to renew in time; renew only extends a lease that has not lapsed.
Lapse(r) == IF r.lease = "mine" THEN {[r EXCEPT !.lease = "lapsed", !.late = TRUE]} ELSE {}

\* The shutdown callback closes the session it knows, the last one, and releases.
Leave(r) ==
  IF r.job = "serving" THEN {[Released(r) EXCEPT !.job = "gone", !.sessions = @ - 1]} ELSE {}

-----------------------------------------------------------------------------
(* Turns                                                                   *)

\* handleFinalTranscript: answered now, kept for later, or dropped without a word.
Heard(r) ==
  IF ~r.ready \/ ~r.bound THEN "not_bound"
  ELSE IF ~r.working THEN "turn"
  ELSE IF ~r.deferred THEN "request_waiting" ELSE "dropped"

Speak(r) ==
  CASE Heard(r) = "turn" -> {[r EXCEPT !.turns = @ + 1, !.working = TRUE]}
    [] Heard(r) = "request_waiting" -> {[r EXCEPT !.deferred = TRUE]}
    [] OTHER -> {r}

\* processTranscript, after the last event of a turn: the utterance kept is taken up,
\* unless the room was released; a turn that failed forgets it.
TurnEnds(r) ==
  IF r.turns = 0 THEN {}
  ELSE IF r.deferred /\ r.bound THEN {[r EXCEPT !.working = TRUE, !.deferred = FALSE]}
  ELSE {[r EXCEPT !.working = FALSE, !.deferred = FALSE, !.turns = @ - 1]}

TurnFails(r) ==
  IF r.turns = 0 THEN {}
  ELSE {[r EXCEPT !.working = FALSE, !.deferred = FALSE, !.turns = @ - 1]}

Successors(r) ==
  Bind(r) \cup Lapse(r) \cup Leave(r) \cup Speak(r) \cup TurnEnds(r) \cup TurnFails(r)

\* What n steps reach; Steps is enough for all that any number of steps reaches.
Steps == 16
Reached[n \in 0..Steps] ==
  IF n = 0 THEN {Waiting}
  ELSE LET before == Reached[n - 1]
       IN before \cup {r \in UNION {Successors(s) : s \in before} : r.turns <= 2}

-----------------------------------------------------------------------------
(* The greeting                                                            *)

\* speakGreeting: spent before anything is said; the microphone is closed until the
\* playout settles, the safety timeout passes, or the reply cannot be made at all.
Fresh == [spent |-> FALSE, listens |-> TRUE, released |-> TRUE, playing |-> FALSE]

SpeakGreeting(g) ==
  IF g.spent THEN {g}
  ELSE {[spent |-> TRUE, listens |-> FALSE, released |-> FALSE, playing |-> TRUE],
        [spent |-> TRUE, listens |-> TRUE, released |-> TRUE, playing |-> FALSE]}

ReleaseInput(g) == IF g.released THEN g ELSE [g EXCEPT !.listens = TRUE, !.released = TRUE]

Settles(g) == IF g.playing THEN {[ReleaseInput(g) EXCEPT !.playing = FALSE]} ELSE {}
TimesOut(g) == IF g.playing THEN {ReleaseInput(g)} ELSE {}

GreetingReached ==
  LET Next(S) == S \cup UNION {SpeakGreeting(g) \cup Settles(g) \cup TimesOut(g) : g \in S}
  IN Next(Next(Next(Next({Fresh}))))

-----------------------------------------------------------------------------
(* Shutting down                                                           *)

Timeout == 10       \* config.shutdownTimeoutMs, in seconds
Grace == 2          \* SHUTDOWN_EXIT_GRACE_MS
Durations == {0, 1, 5, Timeout, 3 * Timeout}

\* drain and boundedShutdownStep: a step is waited for, but never longer than that.
Bounded(d) == IF d < Timeout THEN d ELSE Timeout

\* When the drain ends or is given up, and when the process exits.  The room calls
\* the callbacks; whether it waits for the first before the second is its own choice.
Drained(work) == Bounded(work)
ExitAt(together, work, close, release) ==
  (IF together THEN 0 ELSE Drained(work)) + Bounded(close) + Bounded(release) + Grace

-----------------------------------------------------------------------------
(* Claims, evaluated over every room that is reached and every duration    *)

AllReached ==
  {r \in UNION {Successors(s) : s \in Reached[Steps]} : r.turns <= 2} \subseteq Reached[Steps]

\* A job that has gone holds no lease that is still good, and starts no turn.
GoneIsSilent ==
  \A r \in Reached[Steps] : r.job = "gone" => ~r.held /\ r.lease # "mine" /\ Heard(r) = "not_bound"

\* What was said is kept only while a turn is worked on, for that turn to take up.
KeptForATurn == \A r \in Reached[Steps] : r.deferred => r.working /\ r.turns > 0

\* Released speech is not answered: no turn is started for it, and a failed turn
\* leaves none behind.
NothingIsReplayed ==
  \A r \in Reached[Steps] :
    /\ \A t \in TurnFails(r) : ~t.deferred
    /\ ~r.bound => \A t \in TurnEnds(r) : ~t.working \/ r.working

\* As long as its lease was renewed in time, a job has one session and one turn at a
\* time.  Not so after a lease that lapsed: a second binding whose session does not start
\* releases the room under a turn, and the next binding starts a turn beside it.
OneAtATime == \A r \in Reached[Steps] : ~r.late => r.sessions <= 1 /\ r.turns <= 1
OneTurnEver == \A r \in Reached[Steps] : r.turns <= 1

\* Not so: a page that comes back to a room that serves it is bound again.  The job's
\* own lease refuses it, and what the room was bound to is forgotten with it.
ReturningPageBinds ==
  \A r \in Reached[Steps] : r.job = "serving" /\ r.lease = "mine" => \E b \in Binds(r) : b[2]
HeldIsBound == \A r \in Reached[Steps] : r.job = "serving" /\ r.held => r.bound

\* Not so: every session that was started is closed.  A binding after the lease had
\* lapsed starts another, and the first is closed by nobody.
SessionsAreClosed == \A r \in Reached[Steps] : r.job = "gone" => r.sessions = 0

\* Not so: whoever is not answered is told that the request waits.
NothingIsDropped == \A r \in Reached[Steps] : Heard(r) # "dropped"

\* However the greeting ends, the room listens after it, and it never closes the
\* microphone a second time.
RoomListensAgain ==
  \A g \in GreetingReached : /\ ~g.playing => g.listens
                             /\ g.listens /\ g.spent =>
                                  \A h \in SpeakGreeting(g) \cup Settles(g) \cup TimesOut(g) : h.listens

\* The process ends, whatever hangs; with the money drained before it when the callbacks
\* are called one after the other, and not so when they are called together.
ExitIsBounded ==
  \A together \in BOOLEAN : \A work \in Durations, close \in Durations, release \in Durations :
    ExitAt(together, work, close, release) <= 3 * Timeout + Grace
DrainsBeforeExit(together) ==
  \A work \in Durations, close \in Durations, release \in Durations :
    Drained(work) <= ExitAt(together, work, close, release)

RoomClaims ==
  /\ AllReached /\ GoneIsSilent /\ KeptForATurn /\ NothingIsReplayed /\ OneAtATime
  /\ ~OneTurnEver /\ ~ReturningPageBinds /\ ~HeldIsBound /\ ~SessionsAreClosed /\ ~NothingIsDropped
  /\ RoomListensAgain
  /\ ExitIsBounded /\ DrainsBeforeExit(FALSE) /\ ~DrainsBeforeExit(TRUE)
=============================================================================
