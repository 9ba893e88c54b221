--------------------------- MODULE LiveConversation ---------------------------
(***************************************************************************)
(* One conversation shared by the API, the live-voice jobs and the page    *)
(* that shows it.                                                          *)
(*                                                                         *)
(* The server keeps a revision, the mode (typed or live), the newest       *)
(* transfer attempt and a live lease (conversations/postgres-repository).  *)
(* A LiveKit job takes the lease when a browser binds to it, renews it     *)
(* while it serves and releases it when it shuts down; a job that dies     *)
(* leaves the row to expire (livekit/room-conversation.ts, worker.ts).     *)
(* The page reads the projection with an ETag, is told of new revisions    *)
(* through the room, and ends the voice by naming the revision it shows    *)
(* (useConversationState.ts, livekit-web-client.ts, api/conversations.ts). *)
(*                                                                         *)
(* Abstracted: message texts, progress labels, language and summaries; a   *)
(* transfer is "none", "previewed" or "broadcasting" (what an end-live     *)
(* calls unresolved); the clock, as a lease that may lapse.                *)
(***************************************************************************)
EXTENDS Integers

CONSTANTS Jobs,         \* LiveKit room jobs; each is dispatched once
          NoJob,        \* no job
          MaxRevision   \* bound on the conversation's revision

ASSUME LiveAssumption == /\ NoJob \notin Jobs
                         /\ MaxRevision \in Nat

VARIABLES row,       \* [revision, mode]: conversation_state.revision, conversations.mode
          transfer,  \* the attempt readSnapshot finds
          lease,     \* conversation_live_leases: holder, and whether expires_at > now()
          jobs,      \* per job: pc, and whether it has served
          voice,     \* the page's voice session: phase, job bound to, revision it is to be answered
          page,      \* useConversationState: applied and requested revision, queued refresh, shown state
          fetch,     \* the page's state request and the answer being read for it
          end,       \* the page's end-live request
          unbumped,  \* (history) the transfer changed since the last revision
          acquiredAt \* (history) the revision of the last acquisition

vars == <<row, transfer, lease, jobs, voice, page, fetch, end, unbumped, acquiredAt>>

Revisions == 0 .. MaxRevision
Transfers == {"none", "previewed", "broadcasting"}
Never == -1          \* appliedRevisionRef before the first state

Over == [pc |-> "gone", served |-> FALSE]
NoLease == [holder |-> NoJob, fresh |-> FALSE]
NoFetch == [pc |-> "none", etag |-> Never, revision |-> Never, mode |-> "typed", transfer |-> "none"]
NoEnd == [pc |-> "idle", expected |-> Never, ack |-> FALSE]
Silent == [phase |-> "idle", job |-> NoJob, revision |-> 0]

Init ==
  /\ row = [revision |-> 0, mode |-> "typed"]
  /\ transfer = "none"
  /\ lease = NoLease
  /\ jobs = [j \in Jobs |-> [pc |-> "waiting", served |-> FALSE]]
  /\ voice = Silent
  /\ page = [applied |-> Never, requested |-> Never, queued |-> FALSE, mode |-> "typed", transfer |-> "none"]
  /\ fetch = [NoFetch EXCEPT !.pc = "sent"]
  /\ end = NoEnd
  /\ unbumped = FALSE
  /\ acquiredAt = 0

-------------------------------------------------------------------------------
(* The server's writes.                                                      *)

\* revision = revision + 1, and the mode the same transaction writes.
Bump(mode) ==
  /\ row.revision < MaxRevision
  /\ row' = [revision |-> row.revision + 1, mode |-> mode]
  /\ unbumped' = FALSE

\* What financial work does to the attempt; each move is one transaction that
\* also writes a new revision.
Moves == {<<"none", "previewed">>, <<"previewed", "previewed">>, <<"previewed", "none">>,
          <<"previewed", "broadcasting">>, <<"broadcasting", "none">>}

\* Mutant of Work: a preview is stored without a new revision.
WorkSilentPreview ==
  \E t \in Transfers :
    /\ <<transfer, t>> \in Moves
    /\ transfer' = t
    /\ IF t = "previewed" THEN UNCHANGED <<row, unbumped>> ELSE Bump(row.mode)
    /\ UNCHANGED <<lease, jobs, voice, page, fetch, end, acquiredAt>>

Work ==
  \E t \in Transfers :
    /\ <<transfer, t>> \in Moves
    /\ transfer' = t
    /\ Bump(row.mode)
    /\ UNCHANGED <<lease, jobs, voice, page, fetch, end, acquiredAt>>

\* releasePendingTransferClaim: the claim goes back to a preview and the
\* revision stays; the event published after it carries the old revision.
ReleaseClaim ==
  /\ transfer = "broadcasting"
  /\ transfer' = "previewed"
  /\ unbumped' = TRUE
  /\ UNCHANGED <<row, lease, jobs, voice, page, fetch, end, acquiredAt>>

-------------------------------------------------------------------------------
(* The page's reading of the state.                                          *)

\* A request that must bring something newer carries no ETag.
Asking(p) == [NoFetch EXCEPT !.pc = "sent", !.etag = IF p.requested > p.applied THEN Never ELSE p.applied]

Later(r, s) == IF r > s THEN r ELSE s

\* applyState: older and equal revisions are dropped. (A requested revision only
\* ever matters while it is above the applied one, and is forgotten then.)
Applying(p, s) ==
  IF s.revision <= p.applied THEN p
  ELSE [p EXCEPT !.applied = s.revision, !.mode = s.mode, !.transfer = s.transfer,
                 !.requested = IF @ <= s.revision THEN Never ELSE @]

\* refresh(r): one request at a time; a second call is queued behind it.
Refresh(p, r) ==
  LET q == [p EXCEPT !.requested = Later(@, r)]
  IN IF fetch.pc = "none"
     THEN page' = q /\ fetch' = Asking(q)
     ELSE page' = [q EXCEPT !.queued = TRUE] /\ UNCHANGED fetch

\* refreshRevision(r): nothing to do for a revision already shown.
RefreshRevision(r) == IF r <= page.applied THEN UNCHANGED <<page, fetch>> ELSE Refresh(page, r)

\* Mutant of MustRepeat: the finally block only looks at the queued flag.
MustRepeatQueued(p) == p.queued
MustRepeat(p) == p.queued \/ p.requested > p.applied

\* The finally block of refresh.
Finally(p) ==
  IF MustRepeat(p)
  THEN LET q == [p EXCEPT !.queued = FALSE] IN page' = q /\ fetch' = Asking(q)
  ELSE page' = p /\ fetch' = NoFetch

\* inspect runs one statement after another, each seeing what is committed by
\* then: the row (revision and mode) first, the newest attempt last.
\* Mutant of InspectOrder: the attempt is read before the row it belongs to.
InspectBackwards == <<"transfer", "row">>
InspectOrder == <<"row", "transfer">>

Reading(part, f) ==
  IF part = "row" THEN [f EXCEPT !.revision = row.revision, !.mode = row.mode]
  ELSE [f EXCEPT !.transfer = transfer]

ReadFirst ==
  /\ fetch.pc = "sent"
  /\ fetch' = [Reading(InspectOrder[1], fetch) EXCEPT !.pc = "half"]
  /\ UNCHANGED <<row, transfer, lease, jobs, voice, page, end, unbumped, acquiredAt>>

ReadLast ==
  /\ fetch.pc = "half"
  /\ fetch' = [Reading(InspectOrder[2], fetch) EXCEPT !.pc = "answered"]
  /\ UNCHANGED <<row, transfer, lease, jobs, voice, page, end, unbumped, acquiredAt>>

\* The answer arrives: 304 when the ETag still names the revision.
FetchDone ==
  /\ fetch.pc = "answered"
  /\ Finally(IF fetch.revision = fetch.etag THEN page ELSE Applying(page, fetch))
  /\ UNCHANGED <<row, transfer, lease, jobs, voice, end, unbumped, acquiredAt>>

\* The request fails, here when its answer is due; there is no backoff and no
\* retry of its own.
FetchFails ==
  /\ fetch.pc = "answered"
  /\ Finally(page)
  /\ UNCHANGED <<row, transfer, lease, jobs, voice, end, unbumped, acquiredAt>>

\* The 750 ms timer while the state shown is being worked on.
Poll ==
  /\ page.transfer = "broadcasting"
  /\ Refresh(page, Never)
  /\ UNCHANGED <<row, transfer, lease, jobs, voice, end, unbumped, acquiredAt>>

-------------------------------------------------------------------------------
(* The live lease and the jobs.                                              *)

\* acquireLiveLease: insert, or take over a row whose expires_at has passed.
CanTake == ~lease.fresh

\* bind_conversation on job j. The RPC stays registered, so a page that meets
\* a serving job in the room binds it again. A second device is the page that
\* left and came back while its old job goes on.
BindAccepted(j) ==
  /\ CanTake
  /\ lease' = [holder |-> j, fresh |-> TRUE]
  /\ Bump("live")
  /\ acquiredAt' = row.revision + 1
  /\ jobs' = [jobs EXCEPT ![j].pc = "starting"]
  /\ voice' = [voice EXCEPT !.job = j, !.revision = row.revision + 1]

\* Only the first answer is waited for: it ends the job, a later one does not.
Unbound(job) == IF job.served THEN [job EXCEPT !.pc = "serving"] ELSE Over

\* conversation_already_live.
BindRefused(j) ==
  /\ ~CanTake
  /\ jobs' = [jobs EXCEPT ![j] = Unbound(@)]
  /\ voice' = Silent
  /\ UNCHANGED <<row, lease, unbumped, acquiredAt>>

Bind(j) ==
  /\ jobs[j].pc \in {"waiting", "serving"}
  /\ voice.phase = "binding" /\ voice.job = NoJob
  /\ BindAccepted(j) \/ BindRefused(j)
  /\ UNCHANGED <<transfer, page, fetch, end>>

\* startSession succeeds and the RPC answers with the revision of the binding.
Start(j) ==
  /\ jobs[j].pc = "starting"
  /\ jobs' = [jobs EXCEPT ![j] = [pc |-> "serving", served |-> TRUE]]
  /\ IF voice.phase = "binding" /\ voice.job = j
     THEN voice' = [voice EXCEPT !.phase = "live", !.revision = 0] /\ RefreshRevision(voice.revision)
     ELSE UNCHANGED <<voice, page, fetch>>
  /\ UNCHANGED <<row, transfer, lease, end, unbumped, acquiredAt>>

\* Mutant of Owns: the row is deleted by conversation alone.
OwnsAny(j) == lease.holder # NoJob
\* releaseLiveLease deletes by conversation, jti and worker.
Owns(j) == lease.holder = j
Release(j) == IF Owns(j) THEN lease' = NoLease /\ Bump("typed") ELSE UNCHANGED <<lease, row, unbumped>>

\* startSession fails: release, and a job that never served shuts down.
StartFails(j) ==
  /\ jobs[j].pc = "starting"
  /\ Release(j)
  /\ jobs' = [jobs EXCEPT ![j] = Unbound(@)]
  /\ voice' = IF voice.job = j THEN Silent ELSE voice
  /\ UNCHANGED <<transfer, page, fetch, end, acquiredAt>>

\* The shutdown callback of a job that served.
Stop(j) ==
  /\ jobs[j].pc = "serving"
  /\ Release(j)
  /\ jobs' = [jobs EXCEPT ![j] = Over]
  /\ UNCHANGED <<transfer, voice, page, fetch, end, acquiredAt>>

\* A job ends without releasing: the process died, the bounded step ran out, or
\* it was shut down before its callback was registered.
Crash(j) ==
  /\ jobs[j].pc \in {"starting", "serving"}
  /\ jobs' = [jobs EXCEPT ![j] = Over]
  /\ UNCHANGED <<row, transfer, lease, voice, page, fetch, end, unbumped, acquiredAt>>

\* No renewal reached the row in time. A renewal in time (every 10 s of 30)
\* leaves the lease as it is; its result is not looked at, so a job whose lease
\* has lapsed goes on serving.
Lapse ==
  /\ lease.fresh
  /\ lease' = [lease EXCEPT !.fresh = FALSE]
  /\ UNCHANGED <<row, transfer, jobs, voice, page, fetch, end, unbumped, acquiredAt>>

-------------------------------------------------------------------------------
(* The page's voice session.                                                 *)

Connect ==
  /\ voice.phase = "idle"
  /\ voice' = [voice EXCEPT !.phase = "binding"]
  /\ UNCHANGED <<row, transfer, lease, jobs, page, fetch, end, unbumped, acquiredAt>>

\* No agent in 10 s, no answer in 10 s, the recovery deadline, or the user leaves.
Disconnect ==
  /\ voice.phase # "idle"
  /\ voice' = Silent
  /\ UNCHANGED <<row, transfer, lease, jobs, page, fetch, end, unbumped, acquiredAt>>

\* The room is back after a loss (the packets of the time between are lost):
\* onReconnected refreshes, and the microphone follows that call's return.
Reconnected ==
  /\ voice.phase = "live"
  /\ Refresh(page, Never)
  /\ UNCHANGED <<row, transfer, lease, jobs, voice, end, unbumped, acquiredAt>>

\* conversation_state_changed reaches a page bound to the conversation. A job
\* publishes the revisions its financial tasks write; nobody waits for a packet,
\* so any revision written so far may come, late, twice, or never.
Hear ==
  \E r \in 0 .. row.revision :
    /\ voice.phase = "live"
    /\ RefreshRevision(r)
    /\ UNCHANGED <<row, transfer, lease, jobs, voice, end, unbumped, acquiredAt>>

-------------------------------------------------------------------------------
(* Ending the voice from the page.                                           *)

\* endLiveConversation: only a shown live mode can be ended, and a shown
\* transfer must be acknowledged.
EndLive ==
  \E ack \in BOOLEAN :
    /\ end.pc = "idle"
    /\ page.applied # Never /\ page.mode = "live"
    /\ ack \/ page.transfer = "none"
    /\ end' = [pc |-> "sent", expected |-> page.applied, ack |-> ack]
    /\ UNCHANGED <<row, transfer, lease, jobs, voice, page, fetch, unbumped, acquiredAt>>

\* The route inspects: unresolved work without an acknowledgement is a 409.
EndCheck ==
  /\ end.pc = "sent"
  /\ IF transfer # "none" /\ ~end.ack
     THEN end' = NoEnd /\ Refresh(page, Never)
     ELSE end' = [end EXCEPT !.pc = "checked"] /\ UNCHANGED <<page, fetch>>
  /\ UNCHANGED <<row, transfer, lease, jobs, voice, unbumped, acquiredAt>>

\* Mutant of SameRevision: the update does not compare the revision.
SameRevisionSkipped == TRUE
\* setMode: ... AND revision = expectedRevision.
SameRevision == row.revision = end.expected

\* setMode('typed', expectedRevision); the lease row is left to its job. The
\* answer carries the state it leaves, and the page disconnects; a stale
\* revision makes the page refresh.
EndSet ==
  /\ end.pc = "checked"
  /\ end' = NoEnd
  /\ IF SameRevision
     THEN /\ Bump("typed")
          /\ page' = Applying(page, [revision |-> row.revision + 1, mode |-> "typed", transfer |-> transfer])
          /\ voice' = Silent
          /\ UNCHANGED fetch
     ELSE Refresh(page, Never) /\ UNCHANGED <<row, unbumped, voice>>
  /\ UNCHANGED <<transfer, lease, jobs, acquiredAt>>

-------------------------------------------------------------------------------
Next ==
  \/ Work \/ ReleaseClaim
  \/ ReadFirst \/ ReadLast \/ FetchDone \/ FetchFails \/ Poll
  \/ \E j \in Jobs : Bind(j) \/ Start(j) \/ StartFails(j) \/ Stop(j) \/ Crash(j)
  \/ Lapse
  \/ Connect \/ Disconnect \/ Reconnected \/ Hear
  \/ EndLive \/ EndCheck \/ EndSet

\* No packet, user, job or renewal is owed a step. The server answers a state
\* request, and a page that keeps asking is not failed every time.
Fairness == WF_vars(ReadFirst) /\ WF_vars(ReadLast) /\ SF_vars(FetchDone)

Spec == Init /\ [][Next]_vars /\ Fairness

-------------------------------------------------------------------------------
\* A lease that has not lapsed is only given up by the job that holds it: a job
\* that lost its lease cannot release its successor's, and no binding takes over
\* a session being served.
LeaseIsItsHolders ==
  [][lease.fresh /\ lease'.holder # lease.holder
       => lease.holder # NoJob /\ lease' = NoLease /\ jobs[lease.holder] # jobs'[lease.holder]]_vars

\* Ending the voice from the page: live becomes typed and the lease row stays.
Ended == row.mode = "live" /\ row'.mode = "typed" /\ lease' = lease

\* An end-live request ends the session the user was looking at, never one
\* that was bound after the state shown.
EndsTheSessionSeen == [][Ended => end.expected >= acquiredAt]_vars

\* Voice is not ended over a transfer in progress that the user did not
\* acknowledge, also one stored between the route's check and its update.
EndIsAcknowledged == [][Ended => end.ack \/ transfer = "none"]_vars

\* What is shown under the server's current revision is the server's current
\* state, although the page trusts a 304 and inspect reads it in two
\* statements. Only a released claim, which writes no revision, escapes it.
ShownIsCurrent ==
  page.applied = row.revision /\ ~unbumped => page.mode = row.mode /\ page.transfer = transfer

\* A page that has heard of a newer revision catches up with what it has heard
\* of, also when the packet came during a request and when requests fail.
HeardIsShown == page.requested > page.applied ~> page.requested <= page.applied

=============================================================================
