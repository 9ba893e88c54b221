-------------------------- MODULE TransferAttempts --------------------------
(***************************************************************************)
(* The life of a transfer attempt of ONE conversation: the rows of         *)
(* conversation_transfer_attempts, the requests that read and rewrite them *)
(* (typed turns, touch and voice decisions, voice previews), the financial *)
(* tasks that broadcast a claimed attempt, the grant reservations that may *)
(* authorize one, and the outbox rows that announce its outcome.           *)
(*                                                                         *)
(* Every database transaction of the code is one action; whatever the code *)
(* keeps in memory between two transactions is in req (a request being     *)
(* handled) or task (a running financial task), and dies with its process. *)
(*                                                                         *)
(* Left to other modules: the message log, the progress label, the         *)
(* revision counter and the last-hash column of conversation_state, and    *)
(* why a grant claim is refused.                                           *)
(***************************************************************************)
EXTENDS Naturals, FiniteSets

CONSTANTS
  Attempts,   \* identities of rows of conversation_transfer_attempts
  Procs,      \* processes sharing the database: the API, the voice worker
  Slots,      \* requests a process handles at a time
  Grants,     \* delegated grants of the user
  None,       \* SQL NULL / undefined
  Texts,      \* what a typed turn says: a subset of {"yes", "no", "other"}
  Outcomes,   \* what waitForFinality may report
  Faults,     \* faults explored: a subset of {"crash", "drain", "throw"}
  MaxClaims   \* bound on the claims of one attempt

TextKinds == {"yes", "no", "other"}
FinalStatuses == {"confirmed", "reverted", "receipt_invalid"}
FaultKinds == {"crash", "drain", "throw"}

ASSUME NoneAssumption == None \notin Attempts \cup Grants /\ "user" \notin Grants
ASSUME InputAssumption ==
  /\ Texts \subseteq TextKinds
  /\ Outcomes \subseteq FinalStatuses
  /\ Faults \subseteq FaultKinds
  /\ MaxClaims \in Nat

VARIABLES
  status,     \* [Attempts -> Statuses], "absent" before the INSERT
  origin,     \* the attempt whose preview created the transfer of a row
  claimId,    \* claim_id: 0 is NULL, a claim writes a value never used before
  hash,       \* transaction_hash: whose claimed broadcast it names, or None
  outbox,     \* rows <<attempt, status>> of assistant_lifecycle_outbox
  ledger,     \* grant_claim_ledger, by <<grant, attempt>> (the idempotency key)
  accepting,  \* FinancialTaskRegistry.accepting of each process
  req,        \* the requests being handled, by <<process, slot>>
  task,       \* the registry's tasks, by <<process, attempt>>
  sent,       \* auxiliary: broadcasts of a claimed attempt that left the process
  payer       \* auxiliary: who authorized the claimed broadcast

rows  == <<status, origin, claimId, hash>>
ghost == <<sent, payer>>
vars  == <<rows, outbox, ledger, accepting, req, task, ghost>>

Statuses == {"absent", "previewed", "broadcasting", "submitted", "uncertain",
             "confirmed", "reverted", "receipt_invalid", "cancelled"}
ActiveStatuses == {"previewed", "broadcasting", "submitted", "uncertain"}
NotifiedStatuses == {"submitted", "uncertain"} \cup FinalStatuses

Requests == Procs \X Slots
Tasks    == Procs \X Attempts
Payers   == {"user"} \cup Grants

\* A new preview that exists only in the session of a turn, not yet a row.
Fresh == "fresh"

Sessions == [pending : Attempts \cup {None, Fresh},
             state   : {"none", "broadcasting", "uncertain"}]

RequestPcs == {"idle", "turn", "agent_send", "save", "gate", "ledger",
               "resolve", "cancel", "claim", "start"}
RequestRecords ==
  [pc : RequestPcs, text : TextKinds, session : Sessions,
   target : Attempts \cup {None}, by : Payers,
   candidates : SUBSET Grants, claimId : Nat]

TaskPcs == {"none", "validate", "send", "settle", "clear", "release",
            "mark_uncertain", "mark_submitted", "verify", "ending"}
TaskRecords == [pc : TaskPcs, claimId : Nat, by : Payers]

EmptySession == [pending |-> None, state |-> "none"]
IdleRequest ==
  [pc |-> "idle", text |-> "other", session |-> EmptySession, target |-> None,
   by |-> "user", candidates |-> {}, claimId |-> 0]
NoTask == [pc |-> "none", claimId |-> 0, by |-> "user"]

TypeOK ==
  /\ status \in [Attempts -> Statuses]
  /\ origin \in [Attempts -> Attempts \cup {None}]
  /\ claimId \in [Attempts -> Nat]
  /\ hash \in [Attempts -> Attempts \cup {None}]
  /\ outbox \subseteq Attempts \X NotifiedStatuses
  /\ ledger \in [Grants \X Attempts -> {"none", "held", "released"}]
  /\ accepting \in [Procs -> BOOLEAN]
  /\ req \in [Requests -> RequestRecords]
  /\ task \in [Tasks -> TaskRecords]
  /\ sent \in [Attempts -> Nat]
  /\ payer \in [Attempts -> Payers \cup {None}]

Init ==
  /\ status = [a \in Attempts |-> "absent"]
  /\ origin = [a \in Attempts |-> None]
  /\ claimId = [a \in Attempts |-> 0]
  /\ hash = [a \in Attempts |-> None]
  /\ outbox = {}
  /\ ledger = [k \in Grants \X Attempts |-> "none"]
  /\ accepting = [p \in Procs |-> TRUE]
  /\ req = [r \in Requests |-> IdleRequest]
  /\ task = [t \in Tasks |-> NoTask]
  /\ sent = [a \in Attempts |-> 0]
  /\ payer = [a \in Attempts |-> None]

-----------------------------------------------------------------------------
(* Reading and writing the rows                                            *)

Active == {a \in Attempts : status[a] \in ActiveStatuses}

\* The one active attempt (conversation_one_active_transfer_idx), or none.
Pending == IF Active = {} THEN None ELSE CHOOSE a \in Active : TRUE

\* What readSnapshot finds: the latest row by updated_at that is not cancelled.
\* updated_at is the start of a transaction, so a final row may come out later
\* than an active one committed after it, and hide it.
Shown ==
  {Pending} \cup (IF \E a \in Attempts : status[a] \in FinalStatuses THEN {None} ELSE {})

\* asSnapshot: the part of a snapshot that describes the pending transfer a.
Snapshot(a) ==
  [pending |-> a,
   state   |-> IF a # None /\ status[a] \in {"broadcasting", "uncertain"}
               THEN status[a] ELSE "none"]

\* Mutant of CancelPreviewed: the WHERE clause cancels whatever is active.
CancelActive ==
  [a \in Attempts |-> IF a \in Active THEN "cancelled" ELSE status[a]]

\* UPDATE ... SET status = 'cancelled' ... WHERE status = 'previewed'
CancelPreviewed ==
  [a \in Attempts |-> IF status[a] = "previewed" THEN "cancelled" ELSE status[a]]

\* Mutant of IndexConflict: the migration forgets the unique index.
NoUniqueIndex == FALSE

\* An INSERT of an active row breaks the unique index when another active row
\* than the previewed ones cancelled just before is there.
IndexConflict == \E a \in Active : status[a] # "previewed"

OutOfAttempts == \A a \in Attempts : status[a] # "absent"

\* INSERT of row n in status s for the transfer first previewed as o.
InsertAttempt(n, s, o, x) ==
  /\ status[n] = "absent"
  /\ status' = [CancelPreviewed EXCEPT ![n] = s]
  /\ origin' = [origin EXCEPT ![n] = o]
  /\ hash' = [hash EXCEPT ![n] = x]
  /\ UNCHANGED claimId

\* Request r goes on to a decision about attempt a; what it read is forgotten.
Ask(r, text, a, by) ==
  req' = [req EXCEPT ![r] = [IdleRequest EXCEPT !.pc = "resolve", !.text = text,
                                                !.target = a, !.by = by]]

Goto(r, l) == req' = [req EXCEPT ![r].pc = l]
Finish(r)  == req' = [req EXCEPT ![r] = IdleRequest]
Step(t, l) == task' = [task EXCEPT ![t].pc = l]

-----------------------------------------------------------------------------
(* Typed turns: handleTurnStream, handleMessage, saveSnapshot              *)

\* conversations.get at the top of handleTurnStream: a yes or no to the preview
\* it reads becomes a decision about that one, any other text goes on.
BeginTurn(r) ==
  /\ req[r].pc = "idle"
  /\ \E text \in Texts, a \in Shown :
       IF a # None /\ text \in {"yes", "no"}
       THEN Ask(r, text, a, "user")
       ELSE req' = [req EXCEPT ![r] = [IdleRequest EXCEPT !.pc = "turn", !.text = text,
                                                          !.session = Snapshot(a)]]
  /\ UNCHANGED <<rows, outbox, ledger, accepting, task, ghost>>

\* A turn that clarifies or drops an interpretation never runs the agent.
TurnEndsEarly(r) ==
  /\ req[r].pc = "turn"
  /\ Finish(r)
  /\ UNCHANGED <<rows, outbox, ledger, accepting, task, ghost>>

\* The turn reaches handleMessage, which works on the session alone. A text that
\* looks like a transfer first stores the progress "working", which reads the
\* pending transfer again (no refusal looks like one, but "envia" also confirms).
AgentAnswers(r) ==
  LET Leave(session, l) ==
        req' = [req EXCEPT ![r] = [IdleRequest EXCEPT !.pc = l, !.session = session]]
  IN
  /\ req[r].pc = "turn"
  /\ \E session \in {req[r].session} \cup (IF req[r].text = "no" THEN {} ELSE {Snapshot(Pending)}) :
       LET waiting == session.pending # None /\ session.state = "none" IN
       \/ ~(waiting /\ req[r].text = "yes") /\ Leave(session, "save")
       \/ /\ session.pending = None /\ req[r].text # "yes"
          /\ Leave([session EXCEPT !.pending = Fresh], "save")
       \/ /\ waiting /\ req[r].text = "yes"
          /\ Leave([session EXCEPT !.state = "broadcasting"], "agent_send")
  /\ UNCHANGED <<rows, outbox, ledger, accepting, task, ghost>>

\* executeConfirmedTransfer: the agent broadcasts on the in-memory claim alone.
\* A refused recipient or policy and a known receipt clear the pending transfer,
\* a refused preview or a missing tool gives it back, all else is "uncertain".
AgentBroadcasts(r) ==
  LET a == req[r].session.pending IN
  /\ req[r].pc = "agent_send"
  /\ \E session \in {EmptySession, [pending |-> a, state |-> "none"],
                     [pending |-> a, state |-> "uncertain"]} :
       req' = [req EXCEPT ![r].pc = "save", ![r].session = session]
  /\ UNCHANGED <<rows, outbox, ledger, accepting, task, ghost>>

\* Mutant of SavedStatus: no default for a session without resolution state.
RawStatus(session) == session.state

\* snapshot.transferResolutionState ?? "previewed"
SavedStatus(session) == IF session.state = "none" THEN "previewed" ELSE session.state

\* saveSnapshot: cancels every previewed row and inserts the session's pending
\* transfer again under a new identity, whatever became of the row it was read
\* from. transaction_hash is the snapshot's last one: any hash recorded so far.
\* An index conflict aborts the transaction; the turn answers with the error.
SaveSnapshot(r) ==
  LET session == req[r].session
      asks  == session.pending = Fresh
  IN
  /\ req[r].pc = "save"
  /\ \/ /\ session.pending = None
        /\ status' = CancelPreviewed
        /\ UNCHANGED <<origin, claimId, hash>>
        /\ Finish(r)
     \/ /\ session.pending # None /\ ~IndexConflict
        /\ \E n \in Attempts, x \in {None} \cup {hash[b] : b \in Attempts} :
             InsertAttempt(n, SavedStatus(session), IF asks THEN n ELSE origin[session.pending], x)
        /\ IF asks THEN req' = [req EXCEPT ![r] = [IdleRequest EXCEPT !.pc = "gate"]]
                   ELSE Finish(r)
     \/ /\ session.pending # None /\ (IndexConflict \/ OutOfAttempts)
        /\ UNCHANGED rows /\ Finish(r)
  /\ UNCHANGED <<outbox, ledger, accepting, task, ghost>>

-----------------------------------------------------------------------------
(* Delegated grants: the server gate after a turn that asks to confirm      *)

\* The conversation is read again; the gate finds the grants that cover the
\* transfer pending now, or leaves it to the user.
GateEvaluates(r) ==
  /\ req[r].pc = "gate"
  /\ \/ Finish(r)
     \/ \E a \in Shown \ {None}, cover \in (SUBSET Grants) \ {{}} :
          req' = [req EXCEPT ![r].pc = "ledger", ![r].target = a,
                             ![r].candidates = cover]
  /\ UNCHANGED <<rows, outbox, ledger, accepting, task, ghost>>

\* claimConsumption for one candidate: a live reservation under this key is
\* returned again, a released one refused; a new one is inserted or refused.
ClaimConsumption(r) ==
  /\ req[r].pc = "ledger"
  /\ \E g \in req[r].candidates :
       LET k == <<g, req[r].target>> IN
       \/ /\ ledger[k] \in {"none", "held"}
          /\ ledger' = [ledger EXCEPT ![k] = "held"]
          /\ Ask(r, "yes", req[r].target, g)
       \/ /\ ledger[k] \in {"none", "released"}
          /\ req' = IF req[r].candidates = {g}
                    THEN [req EXCEPT ![r] = IdleRequest]
                    ELSE [req EXCEPT ![r].candidates = @ \ {g}]
          /\ UNCHANGED ledger
  /\ UNCHANGED <<rows, outbox, accepting, task, ghost>>

-----------------------------------------------------------------------------
(* Decisions: POST /decisions, the voice tools, resolveDecision             *)

\* The caller has read the pending preview and decides about that one.
BeginDecision(r) ==
  /\ req[r].pc = "idle"
  /\ \E text \in {"yes", "no"}, a \in Shown \ {None} : Ask(r, text, a, "user")
  /\ UNCHANGED <<rows, outbox, ledger, accepting, task, ghost>>

\* resolveDecision reads the conversation: any other pending attempt is stale.
ResolveDecision(r) ==
  /\ req[r].pc = "resolve"
  /\ \E a \in Shown :
       IF a # req[r].target THEN Finish(r)
       ELSE Goto(r, IF req[r].text = "no" THEN "cancel" ELSE "claim")
  /\ UNCHANGED <<rows, outbox, ledger, accepting, task, ghost>>

\* cancelPendingTransfer: compare-and-set previewed -> cancelled.
CancelPendingTransfer(r) ==
  LET a == req[r].target IN
  /\ req[r].pc = "cancel"
  /\ status' = IF status[a] = "previewed"
               THEN [status EXCEPT ![a] = "cancelled"] ELSE status
  /\ Finish(r)
  /\ UNCHANGED <<origin, claimId, hash, outbox, ledger, accepting, task, ghost>>

\* Mutant of Claimable: a claim that was already won can be won again.
Reclaimable(a) == status[a] \in {"previewed", "broadcasting"} /\ claimId[a] < MaxClaims

\* The compare of the claim's compare-and-set, and the bound of the model.
Claimable(a) == status[a] = "previewed" /\ claimId[a] < MaxClaims

\* claimPendingTransfer: compare-and-set previewed -> broadcasting.
ClaimPendingTransfer(r) ==
  LET a == req[r].target IN
  /\ req[r].pc = "claim"
  /\ IF Claimable(a)
     THEN /\ status' = [status EXCEPT ![a] = "broadcasting"]
          /\ claimId' = [claimId EXCEPT ![a] = @ + 1]
          /\ req' = [req EXCEPT ![r].pc = "start", ![r].claimId = claimId[a] + 1]
     ELSE UNCHANGED <<status, claimId>> /\ Finish(r)
  /\ UNCHANGED <<origin, hash, outbox, ledger, accepting, task, ghost>>

\* financialTasks.start: refused ("already_running") while the process drains or
\* still holds a task for the same attempt; the claim is kept either way.
StartFinancialTask(r) ==
  LET t == <<r[1], req[r].target>> IN
  /\ req[r].pc = "start"
  /\ task' = IF accepting[r[1]] /\ task[t].pc = "none"
             THEN [task EXCEPT ![t] = [pc |-> "validate", claimId |-> req[r].claimId,
                                       by |-> req[r].by]]
             ELSE task
  /\ Finish(r)
  /\ UNCHANGED <<rows, outbox, ledger, accepting, ghost>>

\* previewTransfer of the voice tool: setPendingTransfer in one transaction.
PreviewTransfer ==
  /\ ~IndexConflict
  /\ \E n \in Attempts : InsertAttempt(n, "previewed", n, None)
  /\ UNCHANGED <<outbox, ledger, accepting, req, task, ghost>>

-----------------------------------------------------------------------------
(* Financial tasks: runFinancialTransfer                                   *)

\* How a definitive non-dispatch goes on: a grant settles, a user's releases.
AfterRefusal(t) == IF task[t].by = "user" THEN "release" ELSE "settle"

\* Whatever broadcastTransfer throws that is not a provider refusal is uncertain.
AfterUnknown(t) == "mark_uncertain"

\* isClaimedRecipientValid.
ValidateRecipient(t) ==
  /\ task[t].pc = "validate"
  /\ \E l \in {"send", AfterRefusal(t)} : Step(t, l)
  /\ UNCHANGED <<rows, outbox, ledger, accepting, req, ghost>>

\* broadcastTransfer: not dispatched, submitted, or uncertain, when nobody
\* knows whether the transaction left.
BroadcastTransfer(t) ==
  LET a == t[2]
      Leaves == /\ sent' = [sent EXCEPT ![a] = @ + 1]
                /\ payer' = [payer EXCEPT ![a] = task[t].by]
  IN
  /\ task[t].pc = "send"
  /\ \/ Step(t, AfterRefusal(t)) /\ UNCHANGED <<sent, payer>>
     \/ Step(t, "mark_submitted") /\ Leaves
     \/ Step(t, AfterUnknown(t)) /\ (Leaves \/ UNCHANGED <<sent, payer>>)
  /\ UNCHANGED <<rows, outbox, ledger, accepting, req>>

\* settleGrantReservation: in one transaction the owner's compare-and-set
\* broadcasting -> cancelled and the release; a lost one retains.
SettleGrantReservation(t) ==
  LET a == t[2] IN
  /\ task[t].pc = "settle"
  /\ IF status[a] = "broadcasting" /\ claimId[a] = task[t].claimId
     THEN /\ status' = [status EXCEPT ![a] = "cancelled"]
          /\ ledger' = [ledger EXCEPT ![<<task[t].by, a>>] =
                          IF @ = "held" THEN "released" ELSE @]
     ELSE UNCHANGED <<status, ledger>>
  /\ Step(t, "clear")
  /\ UNCHANGED <<origin, claimId, hash, outbox, accepting, req, ghost>>

\* clearPendingTransfer: every previewed row of the conversation.
ClearPendingTransfer(t) ==
  /\ task[t].pc = "clear"
  /\ status' = CancelPreviewed
  /\ Step(t, "ending")
  /\ UNCHANGED <<origin, claimId, hash, outbox, ledger, accepting, req, ghost>>

\* The updates below name the conversation, not the attempt the task claimed.
Move(from, s) ==
  status' = [a \in Attempts |-> IF a \in from THEN s ELSE status[a]]

\* Mutant of Broadcasting: the WHERE clause names the conversation only.
AnyRow == {a \in Attempts : status[a] # "absent"}

Broadcasting == {a \in Attempts : status[a] = "broadcasting"}

\* releasePendingTransferClaim.
ReleasePendingTransferClaim(t) ==
  /\ task[t].pc = "release"
  /\ Move(Broadcasting, "previewed")
  /\ Step(t, "ending")
  /\ UNCHANGED <<origin, claimId, hash, outbox, ledger, accepting, req, ghost>>

\* markPendingTransferUncertain.
MarkPendingTransferUncertain(t) ==
  /\ task[t].pc = "mark_uncertain"
  /\ Move(Broadcasting, "uncertain")
  /\ outbox' = outbox \cup (Broadcasting \X {"uncertain"})
  /\ Step(t, "ending")
  /\ UNCHANGED <<origin, claimId, hash, ledger, accepting, req, ghost>>

\* markTransferSubmitted.
MarkTransferSubmitted(t) ==
  /\ task[t].pc = "mark_submitted"
  /\ Move(Broadcasting, "submitted")
  /\ hash' = [a \in Attempts |-> IF a \in Broadcasting THEN t[2] ELSE hash[a]]
  /\ outbox' = outbox \cup (Broadcasting \X {"submitted"})
  /\ Step(t, "verify")
  /\ UNCHANGED <<origin, claimId, ledger, accepting, req, ghost>>

\* Mutant of Verified: markTransferSubmitted has already moved the row on.
VerifiedTooLate(t) == {a \in Broadcasting : hash[a] = t[2]}

\* The rows that carry the hash of the task's transaction.
Verified(t) ==
  {a \in Attempts : status[a] \in {"submitted", "broadcasting"} /\ hash[a] = t[2]}

\* waitForFinality, then finalizeTransfer.
FinalizeTransfer(t) ==
  /\ task[t].pc = "verify"
  /\ \E s \in Outcomes :
       Move(Verified(t), s) /\ outbox' = outbox \cup (Verified(t) \X {s})
  /\ Step(t, "ending")
  /\ UNCHANGED <<origin, claimId, hash, ledger, accepting, req, ghost>>

\* The last messages are written and the registry forgets the task.
EndTask(t) ==
  /\ task[t].pc = "ending"
  /\ task' = [task EXCEPT ![t] = NoTask]
  /\ UNCHANGED <<rows, outbox, ledger, accepting, req, ghost>>

-----------------------------------------------------------------------------
(* Faults                                                                  *)

\* A repository call of the task rejects: the registry stores the failure.
TaskThrows(t) ==
  /\ "throw" \in Faults
  /\ task[t].pc # "none"
  /\ task' = [task EXCEPT ![t] = NoTask]
  /\ UNCHANGED <<rows, outbox, ledger, accepting, req, ghost>>

\* A repository call of the request rejects, or its client goes away.
RequestThrows(r) ==
  /\ "throw" \in Faults
  /\ req[r].pc # "idle"
  /\ Finish(r)
  /\ UNCHANGED <<rows, outbox, ledger, accepting, task, ghost>>

\* stopAccepting, the first step of drain.
StopAccepting(p) ==
  /\ "drain" \in Faults
  /\ accepting[p]
  /\ accepting' = [accepting EXCEPT ![p] = FALSE]
  /\ UNCHANGED <<rows, outbox, ledger, req, task, ghost>>

\* The process dies (or exits when the drain interval is over) and a new one
\* starts: its requests and tasks are gone, the database stays.
Restart(p) ==
  /\ "crash" \in Faults \/ ~accepting[p]
  /\ accepting' = [accepting EXCEPT ![p] = TRUE]
  /\ req' = [r \in Requests |-> IF r[1] = p THEN IdleRequest ELSE req[r]]
  /\ task' = [t \in Tasks |-> IF t[1] = p THEN NoTask ELSE task[t]]
  /\ UNCHANGED <<rows, outbox, ledger, ghost>>

-----------------------------------------------------------------------------
TurnStep(r) ==
  \/ BeginTurn(r) \/ TurnEndsEarly(r) \/ AgentAnswers(r)
  \/ AgentBroadcasts(r) \/ SaveSnapshot(r) \/ GateEvaluates(r) \/ ClaimConsumption(r)

DecisionStep(r) ==
  \/ BeginDecision(r) \/ ResolveDecision(r) \/ CancelPendingTransfer(r)
  \/ ClaimPendingTransfer(r) \/ StartFinancialTask(r)

TaskStep(t) ==
  \/ ValidateRecipient(t) \/ BroadcastTransfer(t) \/ SettleGrantReservation(t)
  \/ ClearPendingTransfer(t) \/ ReleasePendingTransferClaim(t)
  \/ MarkPendingTransferUncertain(t) \/ MarkTransferSubmitted(t)
  \/ FinalizeTransfer(t) \/ EndTask(t)

Next ==
  \/ \E r \in Requests : TurnStep(r) \/ DecisionStep(r) \/ RequestThrows(r)
  \/ \E t \in Tasks : TaskStep(t) \/ TaskThrows(t)
  \/ \E p \in Procs : StopAccepting(p) \/ Restart(p)
  \/ PreviewTransfer

Spec == Init /\ [][Next]_vars

\* A running process keeps executing what it has begun: a request already past
\* its first read goes on to its end, and so does a task; a draining process
\* exits when its drain interval is over.
Fairness ==
  /\ \A t \in Tasks : WF_vars(TaskStep(t))
  /\ \A r \in Requests :
       WF_vars(req[r].pc # "idle" /\ (TurnStep(r) \/ DecisionStep(r)))
  /\ \A p \in Procs : WF_vars(~accepting[p] /\ Restart(p))
FairSpec == Spec /\ Fairness

-----------------------------------------------------------------------------
(* What must hold                                                          *)

\* However requests, tasks, processes and faults interleave, the transaction of
\* one attempt leaves the process at most once (claimPendingTransfer is the
\* only way into runFinancialTransfer, and every way back to "previewed" is
\* taken only when nothing left).
AtMostOneBroadcast == \A a \in Attempts : sent[a] <= 1

\* A row the user may still confirm, or is told was cancelled, stands for
\* money that never moved; a row reported as submitted or final for money that
\* did. The updates name the conversation, so a task that had lost its claim
\* would break this for the attempt of another.
StatusTellsTheMoney ==
  \A a \in Attempts :
    /\ status[a] \in {"absent", "previewed", "cancelled"} => sent[a] = 0
    /\ status[a] \in {"submitted"} \cup FinalStatuses => sent[a] = 1

\* A broadcast authorized by a grant keeps its reservation for good, and a
\* reservation is given back only for an attempt that was never sent and is
\* cancelled: settleGrantReservation against claims, retries and restarts.
GrantSpendReserved ==
  \A k \in Grants \X Attempts :
    /\ payer[k[2]] = k[1] => ledger[k] = "held"
    /\ ledger[k] = "released" => status[k[2]] = "cancelled" /\ sent[k[2]] = 0

\* The outbox tells the whole story of an attempt: nothing before it is
\* broadcast, its submission, and one verdict after it, even across a crash
\* between the two. ("uncertain" rows that saveSnapshot re-inserts are exempt:
\* they have no claim and no event.)
Announced(a) == {s \in NotifiedStatuses : <<a, s>> \in outbox}
OutboxTellsTheStory ==
  \A a \in Attempts :
    Announced(a) =
      CASE status[a] \in FinalStatuses -> {"submitted", status[a]}
        [] status[a] = "submitted" -> {"submitted"}
        [] status[a] = "uncertain" /\ claimId[a] # 0 -> {"uncertain"}
        [] OTHER -> {}

\* A broadcasting or submitted row changes only by a step of the task that owns
\* that very attempt, although release, markUncertain and markSubmitted update
\* every broadcasting row of the conversation.
OnlyOwnTaskResolves ==
  [][\A a \in Attempts :
       status[a] \in {"broadcasting", "submitted"} /\ status'[a] # status[a] =>
         \E p \in Procs : /\ task[<<p, a>>].claimId = claimId[a]
                          /\ task'[<<p, a>>] # task[<<p, a>>]]_vars

\* What the row of an attempt means to the user it was offered to.
Offered(a) ==
  CASE status[a] = "absent" -> "none"
    [] status[a] = "previewed" -> "open"
    [] status[a] = "cancelled" -> "withdrawn"
    [] status[a] \in FinalStatuses -> "concluded"
    [] OTHER -> "taken"

\* The rows, the tasks and the sends implement the promise made to the user.
Promise ==
  INSTANCE PaymentPromise WITH offer <- [a \in Attempts |-> Offered(a)], paid <- sent
KeepsPromise == Promise!Spec

\* Unless its process is told to stop, a submitted transfer gets its verdict: the
\* task that submitted it waits for finality and writes it on the row with its
\* own hash.
SubmittedResolves ==
  \A t \in Tasks :
    status[t[2]] = "submitted" /\ task[t].pc = "verify" ~>
      status[t[2]] \in FinalStatuses \/ ~accepting[t[1]]

-----------------------------------------------------------------------------
(* Why it holds: the inductive invariant                                   *)

\* Steps in which a task still owns its claim, and those before the send.
Unsent  == {"validate", "send", "settle", "release"}
Working == Unsent \cup {"mark_uncertain", "mark_submitted"}
Owning  == Working \cup {"verify"}

\* The unique index: one active attempt in the conversation.
OneActive == \A a, b \in Active : a = b

\* A claim is held from the compare-and-set on: by the request that won it, then
\* by the task it starts, which stays the only one until it gives the claim up.
ClaimOwned ==
  /\ \A t \in Tasks :
       /\ task[t].pc \in Owning => /\ claimId[t[2]] = task[t].claimId
                                   /\ task[t].claimId # 0
       /\ task[t].pc \in Working => status[t[2]] = "broadcasting"
       /\ task[t].pc = "verify" => status[t[2]] = "submitted" /\ hash[t[2]] = t[2]
  /\ \A r \in Requests :
       req[r].pc = "start" =>
         /\ req[r].target \in Attempts
         /\ status[req[r].target] = "broadcasting"
         /\ claimId[req[r].target] = req[r].claimId
         /\ req[r].claimId # 0

OneOwner ==
  /\ \A t, u \in Tasks :
       task[t].pc \in Owning /\ task[u].pc \in Owning /\ t[2] = u[2] => t = u
  /\ \A r, q \in Requests :
       req[r].pc = "start" /\ req[q].pc = "start" => req[r].target # req[q].target \/ r = q
  /\ \A r \in Requests, t \in Tasks :
       req[r].pc = "start" /\ task[t].pc \in Owning => req[r].target # t[2]

\* What each owner knows about the money of its attempt.
MoneyKnown ==
  /\ StatusTellsTheMoney
  /\ \A r \in Requests : req[r].pc = "start" => sent[req[r].target] = 0
  /\ \A t \in Tasks :
       /\ task[t].pc \in Unsent => sent[t[2]] = 0
       /\ task[t].pc = "mark_submitted" => sent[t[2]] = 1
  /\ \A a \in Attempts : payer[a] # None => sent[a] = 1

\* A decision taken by a grant has its reservation, settled or not.
Reserved ==
  /\ \A r \in Requests :
       req[r].pc \in {"resolve", "cancel", "claim", "start"} =>
         /\ req[r].target \in Attempts
         /\ req[r].by \in Grants => ledger[<<req[r].by, req[r].target>>] # "none"
  /\ \A r \in Requests : req[r].pc = "ledger" => req[r].target \in Attempts
  /\ \A t \in Tasks :
       /\ task[t].pc \in Working /\ task[t].by \in Grants =>
            ledger[<<task[t].by, t[2]>>] # "none"
       /\ task[t].pc = "settle" => task[t].by \in Grants
  /\ \A k \in Grants \X Attempts :
       /\ payer[k[2]] = k[1] => ledger[k] # "none"
       /\ ledger[k] = "released" => status[k[2]] = "cancelled"

UnclaimedBefore == \A a \in Attempts : status[a] = "absent" => claimId[a] = 0

IInv ==
  /\ TypeOK /\ OneActive /\ ClaimOwned /\ OneOwner
  /\ AtMostOneBroadcast /\ MoneyKnown /\ Reserved /\ OutboxTellsTheStory
  /\ UnclaimedBefore

-----------------------------------------------------------------------------
(* Said by the documents and refuted by the model: see the README          *)

\* docs/architecture.md: a task that outlives the drain deadline "is reconciled
\* rather than broadcast again", so a claimed attempt leaves "broadcasting".
ClaimedIsReconciled ==
  \A a \in Attempts :
    status[a] = "broadcasting" /\ claimId[a] # 0 ~> status[a] # "broadcasting"

\* docs/api.md: "A stale preview, repeated decision, or uncertain broadcast [...]
\* never starts another broadcast": rows that descend from one preview, because
\* saveSnapshot inserts a transfer read earlier again, are paid at most once.
PreviewPaidOnce ==
  \A a, b \in Attempts :
    a # b /\ origin[a] = origin[b] /\ origin[a] # None => sent[a] + sent[b] <= 1

\* openspec, slice 3: "Any broadcast must also win the single-winner
\* claimPendingTransfer transition", also one the chat agent makes.
BroadcastWinsTheClaim ==
  \A r \in Requests :
    req[r].pc = "agent_send" => status[req[r].session.pending] = "broadcasting"

\* assistant-outbox.ts: a refused dispatch is "retryable" and returns the attempt
\* to previewed, so a claim is always held by a request about to start its task
\* or by the task.
ClaimHasAnOwner ==
  \A a \in Attempts :
    status[a] = "broadcasting" /\ claimId[a] # 0 =>
      \/ \E r \in Requests : req[r].pc = "start" /\ req[r].target = a
      \/ \E p \in Procs : task[<<p, a>>].pc \notin {"none", "ending"}

=============================================================================
