-------------------------- MODULE NotificationFeed --------------------------
(***************************************************************************)
(* From the assistant lifecycle outbox to the page's inbox.                *)
(*                                                                         *)
(* A transfer attempt that reaches a state worth telling leaves an outbox  *)
(* event in the same transaction (conversations/assistant-outbox.ts).      *)
(* Every server process runs a dispatcher loop (notifications/             *)
(* outbox-worker.ts, outbox-dispatcher.ts): it loads a batch of pending    *)
(* events without a lock, oldest first, and commits each one's             *)
(* notification together with its completion.  The winner of the insert    *)
(* announces the conversation's revision to the LiveKit room.  The page    *)
(* (useNotificationsFeed.ts) reads the feed on an interval while it is     *)
(* visible, on focus and on an announced revision, one request at a time.  *)
(***************************************************************************)
EXTENDS Naturals, FiniteSets, Sequences

CONSTANTS
  Attempts,  \* transfer attempts of one conversation
  Servers,   \* processes that run the dispatcher loop
  Batch,     \* events loaded at once (100)
  Latest,    \* rows the feed answers with (100)
  Faults,    \* subset of {"refuse", "lose", "crash", "page"}
  MaxFaults, \* how many of them happen
  MaxReads   \* how many rows the user marks as read

ASSUME FeedAssumption ==
  /\ Batch \in Nat \ {0} /\ Latest \in Nat \ {0}
  /\ Faults \subseteq {"refuse", "lose", "crash", "page"}
  /\ MaxFaults \in Nat /\ MaxReads \in Nat

VARIABLES
  outbox,    \* assistant_lifecycle_outbox, in the order of created_at
  feed,      \* wallet_notifications, in the order of created_at
  revision,  \* conversation_state.revision
  worker,    \* the dispatcher loop of each server
  page,      \* what the inbox shows and which revision it has heard of
  request,   \* the page's GET /v1/notifications
  marking,   \* the page's POST /v1/notifications/:id/read
  faults,    \* faults so far
  reads      \* rows marked as read so far

vars == <<outbox, feed, revision, worker, page, request, marking, faults, reads>>
database == <<outbox, feed, revision>>
client == <<page, request, marking, reads>>

-----------------------------------------------------------------------------
(* The rows                                                                *)

NotificationStates == {"submitted", "uncertain", "confirmed", "reverted", "receipt_invalid"}

\* The state an attempt's last event told, and the ones it may tell next.
ToldOf(a) == {outbox[i].status : i \in {k \in DOMAIN outbox : outbox[k].attempt = a}}
NextStates(a) ==
  IF ToldOf(a) = {} THEN {"submitted", "uncertain"}
  ELSE IF ToldOf(a) = {"submitted"} THEN {"confirmed", "reverted", "receipt_invalid"}
  ELSE {}

\* A notification's dedupe key is its attempt and its state.
KeyOf(event) == [attempt |-> event.attempt, status |-> event.status]
Notified == {KeyOf(feed[i]) : i \in DOMAIN feed}

Resting == [pc |-> "timer", batch |-> {}]
NoRequest == [pc |-> "none", rows |-> {}]
NoMark == [pc |-> "none", key |-> {}]

Init ==
  /\ outbox = <<>> /\ feed = <<>> /\ revision = 0
  /\ worker = [s \in Servers |-> Resting]
  /\ page = [rows |-> {}, heard |-> 0, visible |-> TRUE]
  /\ request = [NoRequest EXCEPT !.pc = "sent"]   \* the page reads the feed when it mounts
  /\ marking = NoMark
  /\ faults = 0 /\ reads = 0

Fault(kind) == kind \in Faults /\ faults < MaxFaults /\ faults' = faults + 1
NoFault == UNCHANGED faults

-----------------------------------------------------------------------------
(* The attempt and its outbox                                              *)

\* insertAssistantOutboxRow, in the transaction that moves the attempt and
\* bumps the revision.
TellState(a) ==
  /\ \E status \in NextStates(a) :
       outbox' = Append(outbox, [attempt |-> a, status |-> status, processed |-> FALSE])
  /\ revision' = revision + 1
  /\ UNCHANGED <<feed, worker, client, faults>>

-----------------------------------------------------------------------------
(* The dispatcher loop                                                     *)

\* The events not completed yet, by their place in the outbox.
Pending == {i \in DOMAIN outbox : ~outbox[i].processed}
Oldest(events) == {i \in events : Cardinality({k \in events : k < i}) < Batch}

\* loadPendingEvents: one unlocked SELECT, oldest first.
LoadPendingEvents(s) ==
  /\ worker[s].pc = "timer"
  /\ Pending # {}
  /\ worker' = [worker EXCEPT ![s] = [pc |-> "commit", batch |-> Oldest(Pending)]]
  /\ UNCHANGED <<database, client, faults>>

\* The event of its batch that server s is at.
IsNext(s, e) == e \in worker[s].batch /\ \A f \in worker[s].batch : e <= f

\* The loop goes on with the batch, or rests until its timer.
Continued(s, e) ==
  LET rest == worker[s].batch \ {e} IN
    IF rest = {} THEN Resting ELSE [pc |-> "commit", batch |-> rest]

\* insertNotificationRow: a row whose dedupe key is taken is not written.
Inserted(event) == KeyOf(event) \notin Notified

\* Mutant of Completed: the UPDATE names the attempt and not the state.
CompletedAttempt(event) ==
  [i \in DOMAIN outbox |->
     IF outbox[i].attempt = event.attempt THEN [outbox[i] EXCEPT !.processed = TRUE] ELSE outbox[i]]
\* The completion of the event, by winner and loser alike.
Completed(event) ==
  [i \in DOMAIN outbox |->
     IF KeyOf(outbox[i]) = KeyOf(event) THEN [outbox[i] EXCEPT !.processed = TRUE] ELSE outbox[i]]

\* commitNotificationAndCompleteEvent, one transaction of the owner.
CommitRows(event) ==
  /\ feed' = IF Inserted(event)
             THEN Append(feed, [attempt |-> event.attempt, status |-> event.status, read |-> FALSE])
             ELSE feed
  /\ outbox' = Completed(event)
  /\ UNCHANGED revision

Commit(s) ==
  /\ worker[s].pc = "commit"
  /\ \E e \in DOMAIN outbox :
       /\ IsNext(s, e)
       /\ CommitRows(outbox[e])
       /\ worker' = [worker EXCEPT ![s] = Continued(s, e)]
  /\ NoFault
  /\ UNCHANGED client

\* Mutant of AfterFailure: the pass skips the event it could not commit.
SkipsTheEvent(s, e) == Continued(s, e)
\* A commit that throws ends the pass; the loop backs off and starts again.
AfterFailure(s, e) == Resting

\* The transaction fails, or it commits and its answer is lost.
CommitFails(s) ==
  /\ worker[s].pc = "commit"
  /\ \E e \in DOMAIN outbox :
       /\ IsNext(s, e)
       /\ \/ Fault("refuse") /\ UNCHANGED database
          \/ Fault("lose") /\ CommitRows(outbox[e])
       /\ worker' = [worker EXCEPT ![s] = AfterFailure(s, e)]
  /\ UNCHANGED client

\* The process stops and starts again.
Restart(s) ==
  /\ worker[s].pc # "timer"
  /\ Fault("crash")
  /\ worker' = [worker EXCEPT ![s] = Resting]
  /\ UNCHANGED <<database, client>>

-----------------------------------------------------------------------------
(* The page                                                                *)

\* The newest rows the feed route answers with.
FeedAnswer ==
  {feed[i] : i \in {k \in DOMAIN feed : Len(feed) - k < Latest}}

\* refresh: nothing while a request is under way.
Refresh == request' = IF request.pc = "none" THEN [NoRequest EXCEPT !.pc = "sent"] ELSE request

\* The interval of a visible page, its focus, and the inbox's button.
Poll ==
  /\ page.visible
  /\ request.pc = "none"
  /\ Refresh
  /\ UNCHANGED <<database, worker, page, marking, faults, reads>>

\* The page is hidden for a while, or shown again: focus reads the feed.
Hide ==
  /\ page.visible
  /\ page' = [page EXCEPT !.visible = FALSE]
  /\ UNCHANGED <<database, worker, request, marking, faults, reads>>

Focus ==
  /\ ~page.visible
  /\ page' = [page EXCEPT !.visible = TRUE]
  /\ Refresh
  /\ UNCHANGED <<database, worker, marking, faults, reads>>

\* refreshFromConversationRevision: a revision heard of before is ignored.  The
\* voice job sends every revision to the room and the dispatcher sends the one
\* of its transaction once more: a packet may arrive late, or not at all.
HearRevision ==
  /\ \E r \in page.heard + 1 .. revision : page' = [page EXCEPT !.heard = r]
  /\ Refresh
  /\ UNCHANGED <<database, worker, marking, faults, reads>>

ReadFeed ==
  /\ request.pc = "sent"
  /\ request' = [pc |-> "answered", rows |-> FeedAnswer]
  /\ UNCHANGED <<database, worker, page, marking, faults, reads>>

ShowFeed ==
  /\ request.pc = "answered"
  /\ page' = [page EXCEPT !.rows = request.rows]
  /\ request' = NoRequest
  /\ UNCHANGED <<database, worker, marking, faults, reads>>

\* Mutant of AfterError: the flag stays up when the request fails.
StaysInFlight == [NoRequest EXCEPT !.pc = "failed"]
\* The request fails: the flag is lowered and the rows stay.
AfterError == NoRequest

RequestFails ==
  /\ request.pc \in {"sent", "answered"}
  /\ Fault("page")
  /\ request' = AfterError
  /\ UNCHANGED <<database, worker, page, marking, reads>>

\* markRead: a POST, and the row is shown as read when it has succeeded.
MarkRead ==
  /\ marking.pc = "none" /\ reads < MaxReads
  /\ \E row \in page.rows :
       /\ ~row.read
       /\ marking' = [pc |-> "sent", key |-> KeyOf(row)]
  /\ reads' = reads + 1
  /\ UNCHANGED <<database, worker, page, request, faults>>

WithRead(row) == [row EXCEPT !.read = TRUE]

StoreRead ==
  /\ marking.pc = "sent"
  /\ feed' = [i \in DOMAIN feed |-> IF KeyOf(feed[i]) = marking.key THEN WithRead(feed[i]) ELSE feed[i]]
  /\ marking' = [marking EXCEPT !.pc = "answered"]
  /\ UNCHANGED <<outbox, revision, worker, page, request, faults, reads>>

\* The rows on the page when the answer arrives.
MarkedRows == {IF KeyOf(row) = marking.key THEN WithRead(row) ELSE row : row \in page.rows}

ShowRead ==
  /\ marking.pc = "answered"
  /\ page' = [page EXCEPT !.rows = MarkedRows]
  /\ marking' = NoMark
  /\ UNCHANGED <<database, worker, request, faults, reads>>

MarkFails ==
  /\ marking.pc \in {"sent", "answered"}
  /\ Fault("page")
  /\ marking' = NoMark
  /\ UNCHANGED <<database, worker, page, request, reads>>

-----------------------------------------------------------------------------
Dispatch(s) == LoadPendingEvents(s) \/ Commit(s)

Next ==
  \/ \E a \in Attempts : TellState(a)
  \/ \E s \in Servers : Dispatch(s) \/ CommitFails(s) \/ Restart(s)
  \/ Poll \/ Hide \/ Focus \/ HearRevision \/ ReadFeed \/ ShowFeed \/ RequestFails
  \/ MarkRead \/ StoreRead \/ ShowRead \/ MarkFails

Spec == Init /\ [][Next]_vars

\* The loop's timer is armed again after every pass, and the page's interval
\* runs while it is visible; requests and transactions end.
Fairness ==
  /\ \A s \in Servers : WF_vars(Dispatch(s) \/ CommitFails(s))
  /\ WF_vars(Poll) /\ WF_vars(ReadFeed \/ RequestFails) /\ WF_vars(ShowFeed)

FairSpec == Spec /\ Fairness

-----------------------------------------------------------------------------
(* Properties                                                              *)

\* Event f is told at place j of the feed, after the earlier ones of its attempt.
ToldInOrder(f, j) ==
  /\ KeyOf(outbox[f]) = KeyOf(feed[j])
  /\ \A e \in 1..f - 1 :
       outbox[e].attempt = outbox[f].attempt =>
         \E i \in 1..j - 1 : KeyOf(feed[i]) = KeyOf(outbox[e])

\* The inbox tells the story of every attempt in the order it happened, each
\* state once: no confirmation before its sending, whichever processes dispatch
\* the events and however often a pass is cut short and repeated.
StoryInOrder ==
  /\ \A i, j \in DOMAIN feed : KeyOf(feed[i]) = KeyOf(feed[j]) => i = j
  /\ \A j \in DOMAIN feed : \E f \in DOMAIN outbox : ToldInOrder(f, j)

\* An event is completed exactly when its notification is in the feed.
CompletedIsNotified ==
  \A i \in DOMAIN outbox : outbox[i].processed <=> KeyOf(outbox[i]) \in Notified

\* Every told state is in the end on the page, unless the page is hidden or
\* newer rows fill the feed.
ToldIsShown ==
  \A a \in Attempts : \A status \in NotificationStates :
    LET key == [attempt |-> a, status |-> status] IN
      status \in ToldOf(a) ~>
        (~page.visible \/ key \in {KeyOf(row) : row \in page.rows}
         \/ (key \in Notified /\ key \notin {KeyOf(row) : row \in FeedAnswer}))
=============================================================================
