------------------------ MODULE TransferSafetyProofs ------------------------
(***************************************************************************)
(* The safety of TransferAttempts, for every value of its constants: IInv  *)
(* is inductive, and the invariants that the runs check follow from it.    *)
(*                                                                         *)
(* The argument: at most one row of a conversation is active, and whoever  *)
(* works on a claim (the request that won it, then the task it started)    *)
(* faces a row that is still "broadcasting". So the updates that name the  *)
(* conversation, not the attempt, hit the row of their own task and no     *)
(* other, and no second owner of the same claim can ever be about.         *)
(***************************************************************************)
EXTENDS TransferAttempts, TLAPS

-----------------------------------------------------------------------------
(* Types of the records that requests and tasks are made of                *)

\* The records of an idle request and of no task are well typed.
LEMMA EmptyRecords == IdleRequest \in RequestRecords /\ NoTask \in TaskRecords
BY DEF IdleRequest, RequestRecords, RequestPcs, TextKinds, Sessions, EmptySession,
       Payers, NoTask, TaskRecords, TaskPcs

\* The fields of a request's record.
LEMMA RequestFields ==
  ASSUME NEW x \in RequestRecords
  PROVE  /\ x.pc \in RequestPcs /\ x.text \in TextKinds /\ x.session \in Sessions
         /\ x.target \in Attempts \cup {None} /\ x.by \in Payers
         /\ x.candidates \subseteq Grants /\ x.claimId \in Nat
BY DEF RequestRecords

\* A request that moves on stays well typed.
LEMMA RequestMoves ==
  ASSUME NEW x \in RequestRecords, NEW l \in RequestPcs
  PROVE  /\ [x EXCEPT !.pc = l] \in RequestRecords
         /\ \A s \in Sessions :
              /\ [x EXCEPT !.pc = l, !.session = s] \in RequestRecords
              /\ \A text \in TextKinds :
                   [x EXCEPT !.pc = l, !.text = text, !.session = s] \in RequestRecords
         /\ \A c \in Nat : [x EXCEPT !.pc = l, !.claimId = c] \in RequestRecords
         /\ \A a \in Attempts \cup {None}, c \in SUBSET Grants :
              [x EXCEPT !.pc = l, !.target = a, !.candidates = c] \in RequestRecords
         /\ \A c \in SUBSET Grants : [x EXCEPT !.candidates = c] \in RequestRecords
BY DEF RequestRecords

\* What a request remembers when it goes on to a decision is well typed.
LEMMA AskRecord ==
  ASSUME NEW text \in TextKinds, NEW a \in Attempts \cup {None}, NEW by \in Payers
  PROVE  [IdleRequest EXCEPT !.pc = "resolve", !.text = text, !.target = a, !.by = by]
           \in RequestRecords
BY DEF IdleRequest, RequestRecords, RequestPcs, TextKinds, Sessions, EmptySession

\* What asSnapshot keeps of a pending attempt is a session.
LEMMA SnapshotType ==
  ASSUME TypeOK, NEW a \in Attempts \cup {None}
  PROVE  Snapshot(a) \in Sessions
BY DEF Snapshot, Sessions, TypeOK

\* readSnapshot shows an attempt, or none.
LEMMA ShownType == Pending \in Attempts \cup {None} /\ Shown \subseteq Attempts \cup {None}
<1>1. Active = {} \/ (CHOOSE a \in Active : TRUE) \in Active
  OBVIOUS
<1> QED
  BY <1>1 DEF Pending, Shown, Active

\* Replacing the record of one request keeps the type of all.
LEMMA RequestUpdate ==
  ASSUME TypeOK, NEW r \in Requests, NEW x \in RequestRecords, req' = [req EXCEPT ![r] = x]
  PROVE  req' \in [Requests -> RequestRecords]
BY DEF TypeOK

\* Going on to a decision keeps the requests well typed.
LEMMA AskType ==
  ASSUME TypeOK, NEW r \in Requests, NEW text \in TextKinds,
         NEW a \in Attempts \cup {None}, NEW by \in Payers, Ask(r, text, a, by)
  PROVE  req' \in [Requests -> RequestRecords]
BY AskRecord, RequestUpdate DEF Ask

\* Ending a request keeps the requests well typed.
LEMMA FinishType ==
  ASSUME TypeOK, NEW r \in Requests, Finish(r)
  PROVE  req' \in [Requests -> RequestRecords]
BY EmptyRecords, RequestUpdate DEF Finish

\* Moving a request to its next transaction keeps the requests well typed.
LEMMA GotoType ==
  ASSUME TypeOK, NEW r \in Requests, NEW l \in RequestPcs, Goto(r, l)
  PROVE  req' \in [Requests -> RequestRecords]
BY RequestMoves DEF Goto, TypeOK

\* Moving a task to its next step keeps the tasks well typed.
LEMMA StepType ==
  ASSUME TypeOK, NEW t \in Tasks, NEW l \in TaskPcs, Step(t, l)
  PROVE  task' \in [Tasks -> TaskRecords]
BY DEF Step, TypeOK, TaskRecords

\* Cancelling the previews leaves every row with a status.
LEMMA CancelType == TypeOK => CancelPreviewed \in [Attempts -> Statuses]
BY DEF CancelPreviewed, TypeOK, Statuses

-----------------------------------------------------------------------------
(* Type correctness                                                        *)

\* A step of a typed turn preserves the types.
LEMMA TurnTypes ==
  ASSUME TypeOK, NEW r \in Requests, TurnStep(r)
  PROVE  TypeOK'
<1> USE DEF rows, ghost
<1>0. req[r] \in RequestRecords
  BY DEF TypeOK
<1>1. CASE BeginTurn(r)
  <2>1. PICK text \in Texts, a \in Shown :
          IF a # None /\ text \in {"yes", "no"}
          THEN Ask(r, text, a, "user")
          ELSE req' = [req EXCEPT ![r] =
                         [IdleRequest EXCEPT !.pc = "turn", !.text = text,
                                             !.session = Snapshot(a)]]
    BY <1>1 DEF BeginTurn
  <2>2. /\ text \in TextKinds /\ a \in Attempts \cup {None} /\ Snapshot(a) \in Sessions
        /\ "user" \in Payers /\ "turn" \in RequestPcs
    BY InputAssumption, SnapshotType, ShownType DEF Payers, RequestPcs
  <2>3. [IdleRequest EXCEPT !.pc = "turn", !.text = text, !.session = Snapshot(a)]
          \in RequestRecords
    BY <2>2, EmptyRecords, RequestMoves
  <2>4. req' \in [Requests -> RequestRecords]
    BY <2>1, <2>2, <2>3, AskType, RequestUpdate
  <2> QED
    BY <1>1, <2>4 DEF TypeOK, BeginTurn
<1>2. CASE TurnEndsEarly(r)
  BY <1>2, FinishType DEF TypeOK, TurnEndsEarly
<1>3. CASE AgentAnswers(r)
  <2>1. PICK s \in {req[r].session} \cup
                    (IF req[r].text = "no" THEN {} ELSE {Snapshot(Pending)}),
             l \in {"save", "agent_send"} :
          \E x \in {s, [s EXCEPT !.pending = Fresh], [s EXCEPT !.state = "broadcasting"]} :
            req' = [req EXCEPT ![r] = [IdleRequest EXCEPT !.pc = l, !.session = x]]
    BY <1>3 DEF AgentAnswers
  <2>2. s \in Sessions
    BY <1>0, RequestFields, SnapshotType, ShownType
  <2>3. /\ {s, [s EXCEPT !.pending = Fresh], [s EXCEPT !.state = "broadcasting"]}
              \subseteq Sessions
        /\ l \in RequestPcs
    BY <2>2 DEF Sessions, RequestPcs
  <2>4. req' \in [Requests -> RequestRecords]
    BY <2>1, <2>3, EmptyRecords, RequestMoves, RequestUpdate
  <2> QED
    BY <1>3, <2>4 DEF TypeOK, AgentAnswers
<1>4. CASE AgentBroadcasts(r)
  <2>1. req[r].session.pending \in Attempts \cup {None, Fresh}
    BY <1>0, RequestFields DEF Sessions
  <2>2. PICK s \in {EmptySession, [pending |-> req[r].session.pending, state |-> "none"],
                    [pending |-> req[r].session.pending, state |-> "uncertain"]} :
          req' = [req EXCEPT ![r].pc = "save", ![r].session = s]
    BY <1>4 DEF AgentBroadcasts
  <2>3. s \in Sessions
    BY <2>1 DEF EmptySession, Sessions
  <2>4. req' = [req EXCEPT ![r] = [req[r] EXCEPT !.pc = "save", !.session = s]]
    BY <2>2
  <2>5. req' \in [Requests -> RequestRecords]
    BY <1>0, <2>3, <2>4, RequestMoves, RequestUpdate DEF RequestPcs
  <2> QED
    BY <1>4, <2>5 DEF TypeOK, AgentBroadcasts
<1>5. CASE SaveSnapshot(r)
  <2>1. req[r].session \in Sessions
    BY <1>0, RequestFields
  <2>2. [IdleRequest EXCEPT !.pc = "gate"] \in RequestRecords
    BY EmptyRecords, RequestMoves DEF RequestPcs
  <2>3. req' \in [Requests -> RequestRecords]
    BY <1>5, <2>2, FinishType, RequestUpdate DEF SaveSnapshot
  <2> DEFINE Rows ==
        /\ status' \in [Attempts -> Statuses]
        /\ origin' \in [Attempts -> Attempts \cup {None}]
        /\ claimId' \in [Attempts -> Nat]
        /\ hash' \in [Attempts -> Attempts \cup {None}]
  <2>4. Rows
    <3>1. CASE status' = CancelPreviewed /\ UNCHANGED <<origin, claimId, hash>>
      BY <3>1, CancelType DEF TypeOK
    <3>2. ASSUME NEW n \in Attempts, NEW o \in Attempts \cup {None},
                 NEW x \in Attempts \cup {None}, NEW s \in Statuses, InsertAttempt(n, s, o, x)
          PROVE  Rows
      BY <3>2, CancelType DEF InsertAttempt, TypeOK
    <3>3. SavedStatus(req[r].session) \in Statuses
      BY <2>1 DEF SavedStatus, Statuses, Sessions
    <3>4. \A b \in Attempts : origin[b] \in Attempts \cup {None} /\ hash[b] \in Attempts \cup {None}
      BY DEF TypeOK
    <3>5. CASE UNCHANGED rows
      BY <3>5 DEF TypeOK, rows
    <3> QED
      BY <1>5, <2>1, <3>1, <3>2, <3>3, <3>4, <3>5 DEF SaveSnapshot, Sessions
  <2> QED
    BY <1>5, <2>3, <2>4 DEF TypeOK, SaveSnapshot
<1>6. CASE GateEvaluates(r)
  <2>1. CASE Finish(r)
    BY <1>6, <2>1, FinishType DEF TypeOK, GateEvaluates
  <2>2. CASE ~Finish(r)
    <3>1. PICK a \in Shown \ {None}, c \in SUBSET Grants :
            req' = [req EXCEPT ![r].pc = "ledger", ![r].target = a, ![r].candidates = c]
      BY <1>6, <2>2 DEF GateEvaluates
    <3>2. [req[r] EXCEPT !.pc = "ledger", !.target = a, !.candidates = c] \in RequestRecords
      BY <1>0, ShownType, RequestMoves DEF RequestPcs
    <3>3. req' = [req EXCEPT ![r] = [req[r] EXCEPT !.pc = "ledger", !.target = a,
                                                   !.candidates = c]]
      BY <3>1
    <3>4. req' \in [Requests -> RequestRecords]
      BY <3>2, <3>3, RequestUpdate
    <3> QED
      BY <1>6, <3>4 DEF TypeOK, GateEvaluates
  <2> QED
    BY <2>1, <2>2
<1>7. CASE ClaimConsumption(r)
  <2>1. PICK g \in req[r].candidates :
          LET k == <<g, req[r].target>> IN
          \/ /\ ledger' = [ledger EXCEPT ![k] = "held"]
             /\ Ask(r, "yes", req[r].target, g)
          \/ /\ UNCHANGED ledger
             /\ \/ req' = [req EXCEPT ![r] = IdleRequest]
                \/ req' = [req EXCEPT ![r] =
                             [req[r] EXCEPT !.candidates = req[r].candidates \ {g}]]
    BY <1>7 DEF ClaimConsumption
  <2>2. /\ g \in Payers /\ req[r].target \in Attempts \cup {None} /\ "yes" \in TextKinds
        /\ req[r].candidates \ {g} \in SUBSET Grants /\ req[r].pc \in RequestPcs
    BY <1>0, RequestFields DEF Payers, TextKinds
  <2>3. req' \in [Requests -> RequestRecords]
    BY <1>0, <2>1, <2>2, AskType, EmptyRecords, RequestMoves, RequestUpdate
  <2>4. ledger' \in [Grants \X Attempts -> {"none", "held", "released"}]
    BY <2>1 DEF TypeOK
  <2> QED
    BY <1>7, <2>3, <2>4 DEF TypeOK, ClaimConsumption
<1> QED
  BY <1>1, <1>2, <1>3, <1>4, <1>5, <1>6, <1>7 DEF TurnStep

\* A step of a decision preserves the types.
LEMMA DecisionTypes ==
  ASSUME TypeOK, Reserved, NEW r \in Requests, DecisionStep(r) \/ RequestThrows(r)
  PROVE  TypeOK'
<1> USE DEF rows, ghost
<1>0. req[r] \in RequestRecords
  BY DEF TypeOK
<1>1. CASE BeginDecision(r)
  <2>1. req' \in [Requests -> RequestRecords]
    BY <1>1, ShownType, AskType DEF BeginDecision, TextKinds, Payers
  <2> QED
    BY <1>1, <2>1 DEF TypeOK, BeginDecision
<1>2. CASE ResolveDecision(r)
  <2>1. req' \in [Requests -> RequestRecords]
    BY <1>2, FinishType, GotoType DEF ResolveDecision, RequestPcs
  <2> QED
    BY <1>2, <2>1 DEF TypeOK, ResolveDecision
<1>3. CASE CancelPendingTransfer(r)
  <2>1. status' \in [Attempts -> Statuses]
    BY <1>3 DEF CancelPendingTransfer, TypeOK, Statuses
  <2> QED
    BY <1>3, <2>1, FinishType DEF TypeOK, CancelPendingTransfer
<1>4. CASE ClaimPendingTransfer(r)
  <2>1. req[r].target \in Attempts
    BY <1>4 DEF ClaimPendingTransfer, Reserved
  <2>2. CASE Finish(r) /\ UNCHANGED <<status, claimId>>
    BY <1>4, <2>2, FinishType DEF TypeOK, ClaimPendingTransfer
  <2>3. CASE /\ req' = [req EXCEPT ![r] = [req[r] EXCEPT !.pc = "start",
                                             !.claimId = claimId[req[r].target] + 1]]
             /\ status' = [status EXCEPT ![req[r].target] = "broadcasting"]
             /\ claimId' = [claimId EXCEPT ![req[r].target] = @ + 1]
    <3>1. claimId[req[r].target] + 1 \in Nat
      BY <2>1 DEF TypeOK
    <3>2. req' \in [Requests -> RequestRecords]
      BY <1>0, <2>3, <3>1, RequestMoves, RequestUpdate DEF RequestPcs
    <3>3. status' \in [Attempts -> Statuses] /\ claimId' \in [Attempts -> Nat]
      BY <2>1, <2>3, <3>1 DEF TypeOK, Statuses
    <3> QED
      BY <1>4, <3>2, <3>3 DEF TypeOK, ClaimPendingTransfer
  <2> QED
    BY <1>4, <2>2, <2>3 DEF ClaimPendingTransfer
<1>5. CASE StartFinancialTask(r)
  <2>1. [pc |-> "validate", claimId |-> req[r].claimId, by |-> req[r].by] \in TaskRecords
    BY <1>0, RequestFields DEF TaskRecords, TaskPcs
  <2>2. task' \in [Tasks -> TaskRecords]
    BY <1>5, <2>1 DEF StartFinancialTask, TypeOK
  <2> QED
    BY <1>5, <2>2, FinishType DEF TypeOK, StartFinancialTask
<1>6. CASE RequestThrows(r)
  BY <1>6, FinishType DEF TypeOK, RequestThrows
<1> QED
  BY <1>1, <1>2, <1>3, <1>4, <1>5, <1>6 DEF DecisionStep

\* A step of a financial task preserves the types (a settling one because
\* its decision was a grant's, which Reserved says).
LEMMA TaskTypes ==
  ASSUME TypeOK, NEW t \in Tasks, TaskStep(t) \/ TaskThrows(t)
  PROVE  TypeOK'
<1> USE DEF rows, ghost
<1>0. t[1] \in Procs /\ t[2] \in Attempts /\ task[t] \in TaskRecords
  BY DEF TypeOK, Tasks
<1>1. CASE ValidateRecipient(t)
  <2>1. task' \in [Tasks -> TaskRecords]
    BY <1>1, StepType DEF ValidateRecipient, AfterRefusal, TaskPcs
  <2> QED
    BY <1>1, <2>1 DEF TypeOK, ValidateRecipient
<1>2. CASE BroadcastTransfer(t)
  <2>1. task' \in [Tasks -> TaskRecords]
    BY <1>2, StepType DEF BroadcastTransfer, AfterRefusal, AfterUnknown, TaskPcs
  <2>2. sent' \in [Attempts -> Nat] /\ payer' \in [Attempts -> Payers \cup {None}]
    <3>1. /\ sent' \in {sent, [sent EXCEPT ![t[2]] = @ + 1]}
          /\ payer' \in {payer, [payer EXCEPT ![t[2]] = task[t].by]}
      BY <1>2 DEF BroadcastTransfer
    <3>2. sent[t[2]] + 1 \in Nat /\ task[t].by \in Payers
      BY <1>0 DEF TypeOK, TaskRecords
    <3> QED
      BY <3>1, <3>2 DEF TypeOK
  <2> QED
    BY <1>2, <2>1, <2>2 DEF TypeOK, BroadcastTransfer
<1>3. CASE SettleGrantReservation(t)
  <2>1. task' \in [Tasks -> TaskRecords]
    BY <1>3, StepType DEF SettleGrantReservation, TaskPcs
  <2>2. /\ status' \in [Attempts -> Statuses]
        /\ ledger' \in [Grants \X Attempts -> {"none", "held", "released"}]
    <3>1. status' \in [Attempts -> Statuses]
      BY <1>3 DEF SettleGrantReservation, TypeOK, Statuses
    <3>2. \/ ledger' = ledger
          \/ ledger' = [ledger EXCEPT ![<<task[t].by, t[2]>>] =
                          IF @ = "held" THEN "released" ELSE @]
      BY <1>3 DEF SettleGrantReservation
    <3>3. ledger \in [Grants \X Attempts -> {"none", "held", "released"}]
      BY DEF TypeOK
    <3>4. ledger' \in [Grants \X Attempts -> {"none", "held", "released"}]
      BY <3>2, <3>3
    <3> QED
      BY <3>1, <3>4
  <2> QED
    BY <1>3, <2>1, <2>2 DEF TypeOK, SettleGrantReservation
<1>4. CASE ClearPendingTransfer(t)
  <2>1. task' \in [Tasks -> TaskRecords]
    BY <1>4, StepType DEF ClearPendingTransfer, TaskPcs
  <2> QED
    BY <1>4, <2>1, CancelType DEF TypeOK, ClearPendingTransfer
<1>5. CASE ReleasePendingTransferClaim(t)
  <2>1. task' \in [Tasks -> TaskRecords]
    BY <1>5, StepType DEF ReleasePendingTransferClaim, TaskPcs
  <2>2. status' \in [Attempts -> Statuses]
    BY <1>5 DEF ReleasePendingTransferClaim, Move, TypeOK, Statuses
  <2> QED
    BY <1>5, <2>1, <2>2 DEF TypeOK, ReleasePendingTransferClaim
<1>6. CASE MarkPendingTransferUncertain(t)
  <2>1. task' \in [Tasks -> TaskRecords]
    BY <1>6, StepType DEF MarkPendingTransferUncertain, TaskPcs
  <2>2. status' \in [Attempts -> Statuses]
    BY <1>6 DEF MarkPendingTransferUncertain, Move, TypeOK, Statuses
  <2>3. outbox' \subseteq Attempts \X NotifiedStatuses
    BY <1>6 DEF MarkPendingTransferUncertain, Broadcasting, TypeOK, NotifiedStatuses
  <2> QED
    BY <1>6, <2>1, <2>2, <2>3 DEF TypeOK, MarkPendingTransferUncertain
<1>7. CASE MarkTransferSubmitted(t)
  <2>1. task' \in [Tasks -> TaskRecords]
    BY <1>7, StepType DEF MarkTransferSubmitted, TaskPcs
  <2>2. /\ status' \in [Attempts -> Statuses]
        /\ hash' \in [Attempts -> Attempts \cup {None}]
    BY <1>0, <1>7 DEF MarkTransferSubmitted, Move, TypeOK, Statuses
  <2>3. outbox' \subseteq Attempts \X NotifiedStatuses
    BY <1>7 DEF MarkTransferSubmitted, Broadcasting, TypeOK, NotifiedStatuses
  <2> QED
    BY <1>7, <2>1, <2>2, <2>3 DEF TypeOK, MarkTransferSubmitted
<1>8. CASE FinalizeTransfer(t)
  <2>1. task' \in [Tasks -> TaskRecords]
    BY <1>8, StepType DEF FinalizeTransfer, TaskPcs
  <2>2. PICK s \in Outcomes : Move(Verified(t), s) /\ outbox' = outbox \cup (Verified(t) \X {s})
    BY <1>8 DEF FinalizeTransfer
  <2>3. s \in Statuses /\ s \in NotifiedStatuses /\ Verified(t) \subseteq Attempts
    BY InputAssumption DEF Statuses, NotifiedStatuses, FinalStatuses, Verified
  <2>4. status' \in [Attempts -> Statuses]
    BY <2>2, <2>3 DEF Move, TypeOK
  <2>5. outbox' \subseteq Attempts \X NotifiedStatuses
    BY <2>2, <2>3 DEF TypeOK
  <2> QED
    BY <1>8, <2>1, <2>4, <2>5 DEF TypeOK, FinalizeTransfer
<1>9. CASE EndTask(t) \/ TaskThrows(t)
  BY <1>9, EmptyRecords DEF TypeOK, EndTask, TaskThrows
<1> QED
  BY <1>1, <1>2, <1>3, <1>4, <1>5, <1>6, <1>7, <1>8, <1>9 DEF TaskStep

\* The initial state is well typed.
LEMMA TypeInit == Init => TypeOK
BY EmptyRecords DEF Init, TypeOK, Statuses

\* Every step preserves the types.
LEMMA TypeStep == TypeOK /\ Reserved /\ [Next]_vars => TypeOK'
<1> SUFFICES ASSUME TypeOK, Reserved, [Next]_vars PROVE TypeOK'
  OBVIOUS
<1>1. ASSUME NEW p \in Procs, StopAccepting(p) PROVE TypeOK'
  BY <1>1 DEF TypeOK, StopAccepting, rows, ghost
<1>2. ASSUME NEW p \in Procs, Restart(p) PROVE TypeOK'
  BY <1>2, EmptyRecords DEF TypeOK, Restart, rows, ghost
<1>3. CASE PreviewTransfer
  BY <1>3, CancelType DEF TypeOK, PreviewTransfer, InsertAttempt, ghost, Statuses
<1>4. CASE UNCHANGED vars
  BY <1>4 DEF TypeOK, vars, rows, ghost
<1> QED
  BY <1>1, <1>2, <1>3, <1>4, TurnTypes, DecisionTypes, TaskTypes DEF Next

-----------------------------------------------------------------------------
(* What does not disturb the invariant                                     *)

\* Steps that only change requests, and win no claim.
LEMMA RequestFrame ==
  ASSUME IInv, UNCHANGED <<rows, outbox, task, ghost>>,
         \A q \in Requests : req'[q].pc = "start" => req'[q] = req[q]
  PROVE  /\ OneActive' /\ ClaimOwned' /\ OneOwner' /\ AtMostOneBroadcast' /\ MoneyKnown'
         /\ OutboxTellsTheStory' /\ UnclaimedBefore'
<1> USE DEF IInv, rows, ghost
<1>1. OneActive' /\ AtMostOneBroadcast' /\ UnclaimedBefore'
  BY DEF OneActive, Active, AtMostOneBroadcast, UnclaimedBefore
<1>2. ClaimOwned'
  BY DEF ClaimOwned
<1>3. OneOwner'
  BY DEF OneOwner
<1>4. MoneyKnown'
  BY DEF MoneyKnown, StatusTellsTheMoney
<1>5. OutboxTellsTheStory'
  BY DEF OutboxTellsTheStory, Announced
<1> QED BY <1>1, <1>2, <1>3, <1>4, <1>5

\* Steps that only change tasks, which keep their claim or give it up.
LEMMA TaskFrame ==
  ASSUME IInv, UNCHANGED <<rows, outbox, ledger, req, ghost>>,
         \A u \in Tasks :
           task'[u].pc \in Owning =>
             /\ task'[u].claimId = task[u].claimId /\ task'[u].by = task[u].by
             /\ \/ task'[u].pc = task[u].pc
                \/ /\ task'[u].pc \in Unsent /\ task[u].pc \in Unsent
                   /\ task'[u].pc = "settle" => task[u].by \in Grants
  PROVE  /\ OneActive' /\ ClaimOwned' /\ OneOwner' /\ AtMostOneBroadcast' /\ MoneyKnown'
         /\ Reserved' /\ OutboxTellsTheStory' /\ UnclaimedBefore'
<1> USE DEF IInv, rows, ghost
<1>1. OneActive' /\ AtMostOneBroadcast' /\ UnclaimedBefore'
  BY DEF OneActive, Active, AtMostOneBroadcast, UnclaimedBefore
<1>2. ClaimOwned'
  BY DEF ClaimOwned, Owning, Working, Unsent
<1>3. OneOwner'
  BY DEF OneOwner, Owning, Working, Unsent
<1>4. MoneyKnown'
  BY DEF MoneyKnown, StatusTellsTheMoney, Owning, Working, Unsent
<1>6. Reserved'
  BY DEF Reserved, Owning, Working, Unsent
<1>5. OutboxTellsTheStory'
  BY DEF OutboxTellsTheStory, Announced
<1> QED BY <1>1, <1>2, <1>3, <1>4, <1>5, <1>6

\* What a task's step to its next transaction changes.
LEMMA StepFacts ==
  ASSUME TypeOK, NEW t \in Tasks, NEW l, Step(t, l)
  PROVE  \A u \in Tasks : /\ task'[u].claimId = task[u].claimId
                          /\ task'[u].by = task[u].by
                          /\ task'[u].pc = IF u = t THEN l ELSE task[u].pc
BY DEF Step, TypeOK, TaskRecords

\* What the end of a request changes.
LEMMA FinishFacts ==
  ASSUME TypeOK, NEW r \in Requests, Finish(r)
  PROVE  \A q \in Requests : req'[q] = IF q = r THEN IdleRequest ELSE req[q]
BY DEF Finish, TypeOK

\* A task that works on its claim faces the only active attempt.
LEMMA WorkingFacts ==
  ASSUME IInv, NEW t \in Tasks, task[t].pc \in Working
  PROVE  /\ Broadcasting = {t[2]} /\ Active = {t[2]} /\ status[t[2]] = "broadcasting"
         /\ claimId[t[2]] = task[t].claimId /\ claimId[t[2]] # 0 /\ t[2] \in Attempts
         /\ CancelPreviewed = status
         /\ \A u \in Tasks : task[u].pc \in Owning => u = t
         /\ \A q \in Requests : req[q].pc # "start"
<1>1. /\ status[t[2]] = "broadcasting" /\ claimId[t[2]] = task[t].claimId
      /\ claimId[t[2]] # 0 /\ t[2] \in Attempts
  BY DEF IInv, ClaimOwned, Owning, Tasks
<1>2. \A a \in Attempts : status[a] \in ActiveStatuses => a = t[2]
  BY <1>1 DEF IInv, OneActive, Active, ActiveStatuses
<1>3. Broadcasting = {t[2]} /\ Active = {t[2]}
  BY <1>1, <1>2 DEF Broadcasting, Active, ActiveStatuses
<1>4. CancelPreviewed = status
  BY <1>1, <1>2 DEF IInv, TypeOK, CancelPreviewed, ActiveStatuses
<1>5. \A u \in Tasks : task[u].pc \in Owning => u = t
  BY <1>1, <1>2 DEF IInv, ClaimOwned, OneOwner, Owning, Working, Tasks, ActiveStatuses
<1>6. \A q \in Requests : req[q].pc # "start"
  BY <1>1, <1>2 DEF IInv, ClaimOwned, OneOwner, Owning, ActiveStatuses
<1> QED BY <1>1, <1>3, <1>4, <1>5, <1>6

\* What an update of one request changes.
LEMMA ReqFacts ==
  ASSUME TypeOK, NEW r \in Requests, NEW x, req' = [req EXCEPT ![r] = x]
  PROVE  \A q \in Requests : req'[q] = IF q = r THEN x ELSE req[q]
BY DEF TypeOK

\* What a request keeps when it moves on.
LEMMA GotoFacts ==
  ASSUME TypeOK, NEW r \in Requests, NEW l, Goto(r, l)
  PROVE  \A q \in Requests : /\ q # r => req'[q] = req[q]
                             /\ req'[q].pc = IF q = r THEN l ELSE req[q].pc
                             /\ req'[q].target = req[q].target
                             /\ req'[q].by = req[q].by
                             /\ req'[q].claimId = req[q].claimId
BY DEF Goto, TypeOK, RequestRecords

\* What a request knows that goes on to a decision.
LEMMA AskFacts ==
  ASSUME TypeOK, NEW r \in Requests, NEW text, NEW a, NEW by, Ask(r, text, a, by)
  PROVE  \A q \in Requests : /\ q # r => req'[q] = req[q]
                             /\ req'[r].pc = "resolve" /\ req'[r].target = a
                             /\ req'[r].by = by
BY DEF Ask, TypeOK, IdleRequest

\* Cancelling the previews, when no claim is lost by it.
LEMMA CancelFrame ==
  ASSUME IInv, status' = CancelPreviewed,
         UNCHANGED <<origin, claimId, hash, outbox, ledger, ghost>>,
         \A q \in Requests : req'[q].pc = "start" => req'[q] = req[q],
         \A q \in Requests :
           req'[q].pc \in {"resolve", "cancel", "claim", "ledger"} => req'[q] = req[q],
         \A u \in Tasks : task'[u].pc \in Owning => task'[u] = task[u]
  PROVE  /\ OneActive' /\ ClaimOwned' /\ OneOwner' /\ AtMostOneBroadcast' /\ MoneyKnown'
         /\ Reserved' /\ OutboxTellsTheStory' /\ UnclaimedBefore'
<1> USE DEF IInv, ghost
<1>0. \A a \in Attempts : status'[a] = IF status[a] = "previewed" THEN "cancelled"
                                       ELSE status[a]
  BY DEF CancelPreviewed
<1>1. OneActive' /\ AtMostOneBroadcast' /\ UnclaimedBefore'
  BY <1>0 DEF OneActive, Active, ActiveStatuses, AtMostOneBroadcast, UnclaimedBefore
<1>2. ClaimOwned'
  BY <1>0 DEF ClaimOwned, Owning, Working, Unsent, Tasks
<1>3. OneOwner'
  BY DEF OneOwner
<1>4. MoneyKnown'
  BY <1>0 DEF MoneyKnown, StatusTellsTheMoney, Owning, Working, Unsent, FinalStatuses
<1>6. Reserved'
  BY <1>0 DEF Reserved, Owning, Working, Unsent
<1>5. OutboxTellsTheStory'
  BY <1>0 DEF OutboxTellsTheStory, Announced, FinalStatuses
<1> QED BY <1>1, <1>2, <1>3, <1>4, <1>5, <1>6

\* An insertion that the unique index lets through finds no claim at all.
LEMMA InsertFrame ==
  ASSUME IInv, ~IndexConflict, NEW n \in Attempts, NEW s \in {"previewed", "broadcasting", "uncertain"},
         NEW o, NEW x, InsertAttempt(n, s, o, x),
         UNCHANGED <<outbox, ledger, task, ghost>>,
         \A q \in Requests : req'[q].pc = "start" => req'[q] = req[q],
         \A q \in Requests :
           req'[q].pc \in {"resolve", "cancel", "claim", "ledger"} => req'[q] = req[q]
  PROVE  /\ OneActive' /\ ClaimOwned' /\ OneOwner' /\ AtMostOneBroadcast' /\ MoneyKnown'
         /\ Reserved' /\ OutboxTellsTheStory' /\ UnclaimedBefore'
<1> USE DEF IInv, ghost
<1>0. /\ status[n] = "absent" /\ claimId' = claimId
      /\ \A a \in Attempts : status'[a] = IF a = n THEN s
                                          ELSE IF status[a] = "previewed" THEN "cancelled"
                                          ELSE status[a]
      /\ \A a \in Attempts : a # n => hash'[a] = hash[a]
  BY DEF InsertAttempt, CancelPreviewed, TypeOK
<1>9. \A a \in Attempts : status[a] \notin {"broadcasting", "submitted", "uncertain"}
  BY DEF IndexConflict, Active, ActiveStatuses
<1>8. /\ \A q \in Requests : req[q].pc # "start"
      /\ \A u \in Tasks : task[u].pc \notin Owning
  BY <1>9 DEF ClaimOwned, Owning, Tasks
<1>1. OneActive' /\ AtMostOneBroadcast'
  BY <1>0, <1>9 DEF OneActive, Active, ActiveStatuses, AtMostOneBroadcast
<1>7. UnclaimedBefore'
  BY <1>0 DEF UnclaimedBefore
<1>2. ClaimOwned' /\ OneOwner'
  BY <1>8 DEF ClaimOwned, OneOwner, Owning, Working
<1>4. MoneyKnown'
  BY <1>0, <1>8 DEF MoneyKnown, StatusTellsTheMoney, Owning, Working, FinalStatuses
<1>6. Reserved'
  BY <1>0, <1>8 DEF Reserved, Owning, Working, Unsent
<1>5. OutboxTellsTheStory'
  BY <1>0, <1>7 DEF OutboxTellsTheStory, Announced, FinalStatuses, UnclaimedBefore
<1> QED BY <1>1, <1>2, <1>4, <1>5, <1>6, <1>7

-----------------------------------------------------------------------------
(* The steps                                                               *)

\* IInv without the types, which TypeStep preserves.
Safe ==
  /\ OneActive /\ ClaimOwned /\ OneOwner /\ AtMostOneBroadcast /\ MoneyKnown
  /\ Reserved /\ OutboxTellsTheStory /\ UnclaimedBefore

\* Turns: none of them wins a claim or touches the row of one, because the
\* unique index refuses what saveSnapshot would insert next to it.
LEMMA TurnSafe ==
  ASSUME IInv, NEW r \in Requests, TurnStep(r)
  PROVE  Safe'
<1> USE DEF Safe, IInv
<1>1. CASE BeginTurn(r)
  <2>1. PICK text \in Texts, a \in Shown :
          IF a # None /\ text \in {"yes", "no"}
          THEN Ask(r, text, a, "user")
          ELSE req' = [req EXCEPT ![r] =
                         [IdleRequest EXCEPT !.pc = "turn", !.text = text,
                                             !.session = Snapshot(a)]]
    BY <1>1 DEF BeginTurn
  <2>2. /\ \A q \in Requests : q # r => req'[q] = req[q]
        /\ \/ req'[r].pc = "turn"
           \/ req'[r].pc = "resolve" /\ req'[r].target \in Attempts /\ req'[r].by = "user"
    <3>1. CASE a # None /\ text \in {"yes", "no"}
      BY <2>1, <3>1, AskFacts, ShownType
    <3>2. CASE ~(a # None /\ text \in {"yes", "no"})
      <4>1. [IdleRequest EXCEPT !.pc = "turn", !.text = text, !.session = Snapshot(a)].pc
              = "turn"
        BY DEF IdleRequest
      <4> QED
        BY <2>1, <3>2, <4>1, ReqFacts
    <3> QED
      BY <3>1, <3>2
  <2>3. Reserved'
    <3>1. /\ UNCHANGED <<status, ledger, task, payer>>
          /\ \A q \in Requests :
               /\ req'[q].pc \in {"resolve", "cancel", "claim", "start"} =>
                    /\ req'[q].target \in Attempts
                    /\ req'[q].by \in Grants => ledger[<<req'[q].by, req'[q].target>>] # "none"
               /\ req'[q].pc = "ledger" => req'[q].target \in Attempts
      BY <1>1, <2>2, NoneAssumption DEF Reserved, BeginTurn, rows, ghost
    <3> QED
      BY <3>1 DEF Reserved
  <2> QED
    BY <1>1, <2>2, <2>3, RequestFrame DEF BeginTurn
<1>2. CASE TurnEndsEarly(r)
  <2>1. Reserved'
    BY <1>2, FinishFacts DEF Reserved, TurnEndsEarly, rows, ghost, IdleRequest
  <2> QED
    BY <1>2, <2>1, FinishFacts, RequestFrame DEF TurnEndsEarly, IdleRequest
<1>3. CASE AgentAnswers(r)
  <2>1. PICK l \in {"save", "agent_send"} : 
          \E x : req' = [req EXCEPT ![r] = [IdleRequest EXCEPT !.pc = l, !.session = x]]
    BY <1>3 DEF AgentAnswers
  <2>2. \A q \in Requests : req'[q].pc \in {"save", "agent_send"} \/ req'[q] = req[q]
    BY <2>1, ReqFacts DEF IdleRequest
  <2>3. Reserved'
    BY <1>3, <2>2 DEF Reserved, AgentAnswers, rows, ghost
  <2> QED
    BY <1>3, <2>2, <2>3, RequestFrame DEF AgentAnswers
<1>4. CASE AgentBroadcasts(r)
  <2>1. \A q \in Requests : req'[q].pc = "save" \/ req'[q] = req[q]
    BY <1>4 DEF AgentBroadcasts, TypeOK, RequestRecords
  <2>2. Reserved'
    BY <1>4, <2>1 DEF Reserved, AgentBroadcasts, rows, ghost
  <2> QED
    BY <1>4, <2>1, <2>2, RequestFrame DEF AgentBroadcasts
<1>5. CASE SaveSnapshot(r)
  <2>1. \A q \in Requests : req'[q].pc \in {"idle", "gate"} \/ req'[q] = req[q]
    BY <1>5, FinishFacts, ReqFacts DEF SaveSnapshot, IdleRequest
  <2>2. CASE status' = CancelPreviewed /\ UNCHANGED <<origin, claimId, hash>>
    BY <1>5, <2>1, <2>2, CancelFrame DEF SaveSnapshot
  <2>3. CASE UNCHANGED rows
    <3>1. Reserved'
      BY <1>5, <2>1, <2>3 DEF Reserved, SaveSnapshot, rows, ghost
    <3> QED
      BY <1>5, <2>1, <2>3, <3>1, RequestFrame DEF SaveSnapshot
  <2>4. CASE /\ ~IndexConflict
             /\ \E n \in Attempts : \E o, x : InsertAttempt(n, SavedStatus(req[r].session), o, x)
    <3>1. SavedStatus(req[r].session) \in {"previewed", "broadcasting", "uncertain"}
      BY RequestFields DEF SavedStatus, Sessions, TypeOK
    <3> QED
      BY <1>5, <2>1, <2>4, <3>1, InsertFrame DEF SaveSnapshot
  <2> QED
    BY <1>5, <2>2, <2>3, <2>4 DEF SaveSnapshot
<1>6. CASE GateEvaluates(r)
  <2>1. \A q \in Requests : \/ req'[q].pc = "idle" \/ req'[q] = req[q]
                            \/ req'[q].pc = "ledger" /\ req'[q].target \in Attempts
    <3>1. CASE Finish(r)
      BY <3>1, FinishFacts DEF IdleRequest
    <3>2. CASE ~Finish(r)
      <4>1. PICK a \in Shown \ {None}, c \in SUBSET Grants :
              req' = [req EXCEPT ![r].pc = "ledger", ![r].target = a, ![r].candidates = c]
        BY <1>6, <3>2 DEF GateEvaluates
      <4>2. req' = [req EXCEPT ![r] = [req[r] EXCEPT !.pc = "ledger", !.target = a,
                                                     !.candidates = c]]
        BY <4>1
      <4>3. req[r] \in RequestRecords /\ a \in Attempts
        BY ShownType DEF TypeOK
      <4> QED
        BY <4>2, <4>3, ReqFacts DEF RequestRecords
    <3> QED
      BY <3>1, <3>2
  <2>2. Reserved'
    BY <1>6, <2>1 DEF Reserved, GateEvaluates, rows, ghost
  <2> QED
    BY <1>6, <2>1, <2>2, RequestFrame DEF GateEvaluates
<1>7. CASE ClaimConsumption(r)
  <2>0. req[r].target \in Attempts /\ req[r].candidates \subseteq Grants
    BY <1>7, RequestFields DEF ClaimConsumption, Reserved, TypeOK
  <2>1. PICK g \in req[r].candidates :
          LET k == <<g, req[r].target>> IN
          \/ /\ ledger[k] \in {"none", "held"}
             /\ ledger' = [ledger EXCEPT ![k] = "held"]
             /\ Ask(r, "yes", req[r].target, g)
          \/ /\ UNCHANGED ledger
             /\ \/ req' = [req EXCEPT ![r] = IdleRequest]
                \/ req' = [req EXCEPT ![r] =
                             [req[r] EXCEPT !.candidates = req[r].candidates \ {g}]]
    BY <1>7 DEF ClaimConsumption
  <2>2. CASE /\ UNCHANGED ledger
             /\ \/ req' = [req EXCEPT ![r] = IdleRequest]
                \/ req' = [req EXCEPT ![r] =
                             [req[r] EXCEPT !.candidates = req[r].candidates \ {g}]]
    <3>1. \A q \in Requests : \/ req'[q].pc = "idle" \/ req'[q] = req[q]
                              \/ req'[q].pc = "ledger" /\ req'[q].target \in Attempts
      <4>1. CASE req' = [req EXCEPT ![r] = IdleRequest]
        BY <4>1, FinishFacts DEF Finish, IdleRequest
      <4>2. CASE req' = [req EXCEPT ![r] =
                           [req[r] EXCEPT !.candidates = req[r].candidates \ {g}]]
        <5> DEFINE x == [req[r] EXCEPT !.candidates = req[r].candidates \ {g}]
        <5>1. req[r] \in RequestRecords /\ req[r].pc = "ledger"
          BY <1>7 DEF TypeOK, ClaimConsumption
        <5>2. x.pc = "ledger" /\ x.target = req[r].target
          BY <5>1 DEF RequestRecords
        <5>3. req' = [req EXCEPT ![r] = x]
          BY <4>2
        <5> HIDE DEF x
        <5>4. \A q \in Requests : req'[q] = IF q = r THEN x ELSE req[q]
          BY <5>3, ReqFacts
        <5> QED
          BY <2>0, <5>2, <5>4
      <4> QED
        BY <2>2, <4>1, <4>2
    <3>2. Reserved'
      BY <1>7, <2>2, <3>1 DEF Reserved, ClaimConsumption, rows, ghost
    <3> QED
      BY <1>7, <3>1, <3>2, RequestFrame DEF ClaimConsumption
  <2>3. CASE /\ ledger[<<g, req[r].target>>] \in {"none", "held"}
             /\ ledger' = [ledger EXCEPT ![<<g, req[r].target>>] = "held"]
             /\ Ask(r, "yes", req[r].target, g)
    <3>1. /\ \A q \in Requests : q # r => req'[q] = req[q]
          /\ req'[r].pc = "resolve" /\ req'[r].target = req[r].target /\ req'[r].by = g
      BY <2>3, AskFacts
    <3>2. \A k \in Grants \X Attempts :
            ledger'[k] = IF k = <<g, req[r].target>> THEN "held" ELSE ledger[k]
      BY <2>3 DEF TypeOK
    <3>3. Reserved'
      BY <1>7, <2>0, <3>1, <3>2 DEF Reserved, ClaimConsumption, rows, ghost, Tasks
    <3> QED
      BY <1>7, <3>1, <3>3, RequestFrame DEF ClaimConsumption
  <2> QED
    BY <2>1, <2>2, <2>3
<1> QED
  BY <1>1, <1>2, <1>3, <1>4, <1>5, <1>6, <1>7 DEF TurnStep

\* Decisions: a claim is won by one request, and handed over to one task.
LEMMA DecisionSafe ==
  ASSUME IInv, NEW r \in Requests, DecisionStep(r) \/ RequestThrows(r)
  PROVE  Safe'
<1> USE DEF Safe, IInv
<1>1. CASE BeginDecision(r)
  <2>1. PICK text \in {"yes", "no"}, a \in Attempts : Ask(r, text, a, "user")
    BY <1>1, ShownType DEF BeginDecision
  <2>2. Reserved'
    BY <1>1, <2>1, AskFacts, NoneAssumption DEF Reserved, BeginDecision, rows, ghost
  <2> QED
    BY <1>1, <2>1, <2>2, AskFacts, RequestFrame DEF BeginDecision
<1>2. CASE ResolveDecision(r)
  <2>1. \/ Finish(r) \/ Goto(r, "cancel") \/ Goto(r, "claim")
    BY <1>2 DEF ResolveDecision
  <2>2. /\ \A q \in Requests : q # r => req'[q] = req[q]
        /\ \/ req'[r].pc = "idle"
           \/ /\ req'[r].pc \in {"cancel", "claim"}
              /\ req'[r].target = req[r].target /\ req'[r].by = req[r].by
    BY <2>1, FinishFacts, GotoFacts DEF IdleRequest
  <2>3. Reserved'
    BY <1>2, <2>2 DEF Reserved, ResolveDecision, rows, ghost
  <2> QED
    BY <1>2, <2>2, <2>3, RequestFrame DEF ResolveDecision
<1>3. CASE CancelPendingTransfer(r)
  <2>1. \A q \in Requests : req'[q].pc = "idle" \/ req'[q] = req[q]
    BY <1>3, FinishFacts DEF CancelPendingTransfer, IdleRequest
  <2>2. req[r].target \in Attempts
    BY <1>3 DEF CancelPendingTransfer, Reserved
  <2>3. CASE status[req[r].target] = "previewed"
    <3>1. status' = CancelPreviewed
      <4>1. \A b \in Attempts : status[b] = "previewed" => b = req[r].target
        BY <2>2, <2>3 DEF OneActive, Active, ActiveStatuses
      <4>2. status' = [status EXCEPT ![req[r].target] = "cancelled"]
        BY <1>3, <2>3 DEF CancelPendingTransfer
      <4> QED
        BY <2>2, <2>3, <4>1, <4>2 DEF CancelPreviewed, TypeOK
    <3> QED
      BY <1>3, <2>1, <3>1, CancelFrame DEF CancelPendingTransfer
  <2>4. CASE status[req[r].target] # "previewed"
    <3>1. Reserved'
      BY <1>3, <2>1, <2>4 DEF Reserved, CancelPendingTransfer, ghost
    <3> QED
      BY <1>3, <2>1, <2>4, <3>1, RequestFrame DEF CancelPendingTransfer, rows
  <2> QED
    BY <2>3, <2>4
<1>4. CASE ClaimPendingTransfer(r)
  <2> DEFINE a == req[r].target
  <2>1. a \in Attempts
    BY <1>4 DEF ClaimPendingTransfer, Reserved
  <2>2. CASE ~Claimable(a)
    <3>1. \A q \in Requests : req'[q].pc = "idle" \/ req'[q] = req[q]
      BY <1>4, <2>2, FinishFacts DEF ClaimPendingTransfer, IdleRequest
    <3>2. Reserved'
      BY <1>4, <2>2, <3>1 DEF Reserved, ClaimPendingTransfer, ghost
    <3> QED
      BY <1>4, <2>2, <3>1, <3>2, RequestFrame DEF ClaimPendingTransfer, rows
  <2>3. CASE Claimable(a)
    <3>1. /\ status[a] = "previewed" /\ claimId[a] + 1 # 0
          /\ \A b \in Attempts : /\ status'[b] = IF b = a THEN "broadcasting" ELSE status[b]
                                 /\ claimId'[b] = IF b = a THEN claimId[a] + 1 ELSE claimId[b]
      BY <1>4, <2>1, <2>3 DEF ClaimPendingTransfer, Claimable, TypeOK
    <3>2. /\ \A q \in Requests : q # r => req'[q] = req[q]
          /\ req'[r].pc = "start" /\ req'[r].target = a /\ req'[r].by = req[r].by
          /\ req'[r].claimId = claimId[a] + 1
      <4> DEFINE x == [req[r] EXCEPT !.pc = "start", !.claimId = claimId[a] + 1]
      <4>1. req' = [req EXCEPT ![r] = x]
        BY <1>4, <2>3 DEF ClaimPendingTransfer
      <4>2. req[r] \in RequestRecords
        BY DEF TypeOK
      <4>3. /\ x.pc = "start" /\ x.target = a /\ x.by = req[r].by
            /\ x.claimId = claimId[a] + 1
        BY <4>2 DEF RequestRecords
      <4> HIDE DEF x
      <4>4. \A q \in Requests : req'[q] = IF q = r THEN x ELSE req[q]
        BY <4>1, ReqFacts
      <4> QED
        BY <4>3, <4>4
    <3>3. \A b \in Attempts : status[b] \in ActiveStatuses => b = a
      BY <2>1, <3>1 DEF OneActive, Active, ActiveStatuses
    <3>4. /\ \A q \in Requests : req[q].pc # "start"
          /\ \A u \in Tasks : task[u].pc \notin Owning
      BY <3>1, <3>3 DEF ClaimOwned, Owning, Tasks, ActiveStatuses
    <3>5. OneActive' /\ AtMostOneBroadcast'
      BY <1>4, <3>1, <3>3
      DEF OneActive, Active, ActiveStatuses, AtMostOneBroadcast, ClaimPendingTransfer, ghost
    <3>6. UnclaimedBefore'
      BY <3>1 DEF UnclaimedBefore
    <3>7. ClaimOwned' /\ OneOwner'
      BY <1>4, <2>1, <3>1, <3>2, <3>4
      DEF ClaimOwned, OneOwner, Owning, Working, ClaimPendingTransfer
    <3>8. MoneyKnown'
      BY <1>4, <2>1, <3>1, <3>2, <3>4
      DEF MoneyKnown, StatusTellsTheMoney, Owning, Working, FinalStatuses,
          ClaimPendingTransfer, ghost
    <3>9. Reserved'
      BY <1>4, <2>1, <3>1, <3>2, <3>4
      DEF Reserved, Owning, Working, Unsent, ClaimPendingTransfer, ghost
    <3>10. OutboxTellsTheStory'
      BY <1>4, <3>1 DEF OutboxTellsTheStory, Announced, FinalStatuses, ClaimPendingTransfer
    <3> QED
      BY <3>5, <3>6, <3>7, <3>8, <3>9, <3>10
  <2> QED
    BY <2>2, <2>3
<1>5. CASE StartFinancialTask(r)
  <2> DEFINE t == <<r[1], req[r].target>>
  <2>1. \A q \in Requests : req'[q] = IF q = r THEN IdleRequest ELSE req[q]
    BY <1>5, FinishFacts DEF StartFinancialTask
  <2>2. CASE task' = task
    <3>1. Reserved'
      BY <1>5, <2>1, <2>2 DEF Reserved, StartFinancialTask, rows, ghost, IdleRequest
    <3> QED
      BY <1>5, <2>1, <2>2, <3>1, RequestFrame DEF StartFinancialTask, IdleRequest
  <2>3. CASE task' # task
    <3>1. /\ req[r].pc = "start" /\ t \in Tasks /\ t[2] = req[r].target
          /\ req[r].target \in Attempts
      BY <1>5 DEF StartFinancialTask, Reserved, Tasks, Requests
    <3>2. /\ \A u \in Tasks : u # t => task'[u] = task[u]
          /\ task'[t].pc = "validate" /\ task'[t].claimId = req[r].claimId
          /\ task'[t].by = req[r].by
      BY <1>5, <2>3, <3>1 DEF StartFinancialTask, TypeOK
    <3>3. OneActive' /\ AtMostOneBroadcast' /\ UnclaimedBefore' /\ OutboxTellsTheStory'
      BY <1>5 DEF OneActive, Active, AtMostOneBroadcast, UnclaimedBefore, OutboxTellsTheStory,
                  Announced, StartFinancialTask, rows, ghost
    <3>4. ClaimOwned'
      BY <1>5, <2>1, <3>1, <3>2
      DEF ClaimOwned, Owning, Working, Unsent, StartFinancialTask, rows, IdleRequest
    <3>5. OneOwner'
      BY <2>1, <3>1, <3>2 DEF OneOwner, Owning, Working, Unsent, IdleRequest
    <3>6. MoneyKnown'
      BY <1>5, <2>1, <3>1, <3>2
      DEF MoneyKnown, StatusTellsTheMoney, Owning, Working, Unsent, StartFinancialTask, rows,
          ghost, IdleRequest
    <3>7. Reserved'
      <4>1. UNCHANGED <<ledger, status, payer>>
        BY <1>5 DEF StartFinancialTask, rows, ghost
      <4>2. \A q \in Requests : req'[q] = req[q] \/ req'[q].pc = "idle"
        BY <2>1 DEF IdleRequest
      <4>3. req[r].by \in Grants => ledger[<<req[r].by, req[r].target>>] # "none"
        BY <3>1 DEF Reserved
      <4>4. /\ task'[t].by \in Grants => ledger[<<task'[t].by, t[2]>>] # "none"
            /\ task'[t].pc # "settle"
        BY <3>1, <3>2, <4>3
      <4>5. \A u \in Tasks :
              /\ task'[u].pc \in Working /\ task'[u].by \in Grants =>
                   ledger[<<task'[u].by, u[2]>>] # "none"
              /\ task'[u].pc = "settle" => task'[u].by \in Grants
        BY <3>2, <4>4 DEF Reserved
      <4> QED
        BY <4>1, <4>2, <4>5 DEF Reserved
    <3> QED
      BY <3>3, <3>4, <3>5, <3>6, <3>7
  <2> QED
    BY <2>2, <2>3
<1>6. CASE RequestThrows(r)
  <2>1. Reserved'
    BY <1>6, FinishFacts DEF Reserved, RequestThrows, rows, ghost, IdleRequest
  <2> QED
    BY <1>6, <2>1, FinishFacts, RequestFrame DEF RequestThrows, IdleRequest
<1> QED
  BY <1>1, <1>2, <1>3, <1>4, <1>5, <1>6 DEF DecisionStep

\* Financial tasks: what a task says of its row is what it knows of the money.
LEMMA TaskSafe ==
  ASSUME IInv, NEW t \in Tasks, TaskStep(t) \/ TaskThrows(t)
  PROVE  Safe'
<1> USE DEF Safe, IInv
<1>0. t[2] \in Attempts /\ task[t] \in TaskRecords
  BY DEF TypeOK, Tasks
<1>1. CASE ValidateRecipient(t)
  <2>1. PICK l \in {"send", AfterRefusal(t)} : Step(t, l)
    BY <1>1 DEF ValidateRecipient
  <2>2. l \in Unsent /\ (l = "settle" => task[t].by \in Grants)
    BY <1>0 DEF AfterRefusal, Unsent, TaskRecords, Payers
  <2>3. task[t].pc \in Unsent
    BY <1>1 DEF ValidateRecipient, Unsent
  <2> QED
    BY <1>1, <2>1, <2>2, <2>3, StepFacts, TaskFrame DEF ValidateRecipient
<1>2. CASE BroadcastTransfer(t)
  <2>1. task[t].pc = "send" /\ task[t].pc \in Working
    BY <1>2 DEF BroadcastTransfer, Working, Unsent
  <2>2. CASE Step(t, AfterRefusal(t)) /\ UNCHANGED <<sent, payer>>
    <3>1. AfterRefusal(t) \in Unsent /\ (AfterRefusal(t) = "settle" => task[t].by \in Grants)
      BY <1>0 DEF AfterRefusal, Unsent, TaskRecords, Payers
    <3> QED
      BY <1>2, <2>1, <2>2, <3>1, StepFacts, TaskFrame DEF BroadcastTransfer, Unsent, ghost
  <2>3. CASE \E l \in {"mark_submitted", "mark_uncertain"} :
               /\ Step(t, l)
               /\ \/ /\ sent' = [sent EXCEPT ![t[2]] = @ + 1]
                     /\ payer' = [payer EXCEPT ![t[2]] = task[t].by]
                  \/ l = "mark_uncertain" /\ UNCHANGED <<sent, payer>>
    <3>1. PICK l \in {"mark_submitted", "mark_uncertain"} :
               /\ Step(t, l)
               /\ \/ /\ sent' = [sent EXCEPT ![t[2]] = @ + 1]
                     /\ payer' = [payer EXCEPT ![t[2]] = task[t].by]
                  \/ l = "mark_uncertain" /\ UNCHANGED <<sent, payer>>
      BY <2>3
    <3>2. sent[t[2]] = 0
      BY <2>1 DEF MoneyKnown, Unsent
    <3>3. /\ \A a \in Attempts : a # t[2] => sent'[a] = sent[a] /\ payer'[a] = payer[a]
          /\ \/ sent'[t[2]] = 1 /\ payer'[t[2]] = task[t].by
             \/ l = "mark_uncertain" /\ sent'[t[2]] = 0 /\ payer'[t[2]] = payer[t[2]]
      BY <1>0, <3>1, <3>2 DEF TypeOK
    <3>4. /\ UNCHANGED <<rows, outbox, ledger, accepting, req>>
          /\ \A u \in Tasks : /\ task'[u].claimId = task[u].claimId
                              /\ task'[u].by = task[u].by
                              /\ task'[u].pc = IF u = t THEN l ELSE task[u].pc
      BY <1>2, <3>1, StepFacts DEF BroadcastTransfer
    <3>5. OneActive' /\ UnclaimedBefore' /\ OutboxTellsTheStory'
      BY <3>4 DEF OneActive, Active, UnclaimedBefore, OutboxTellsTheStory, Announced, rows
    <3>6. AtMostOneBroadcast'
      BY <3>3 DEF AtMostOneBroadcast
    <3>7. ClaimOwned' /\ OneOwner'
      BY <2>1, <3>4 DEF ClaimOwned, OneOwner, Owning, Working, Unsent, rows
    <3>8. MoneyKnown'
      <4>1. StatusTellsTheMoney'
        BY <2>1, <3>3, <3>4, WorkingFacts
        DEF MoneyKnown, StatusTellsTheMoney, FinalStatuses, rows
      <4>2. \A u \in Tasks : u[2] \in Attempts
        BY DEF Tasks
      <4>3. \A u \in Tasks : task[u].pc \in Owning => u = t
        BY <2>1, WorkingFacts
      <4>4. \A q \in Requests : req'[q].pc # "start"
        BY <2>1, <3>4, WorkingFacts
      <4>5. \A u \in Tasks : /\ task'[u].pc \in Unsent => sent'[u[2]] = 0
                             /\ task'[u].pc = "mark_submitted" => sent'[u[2]] = 1
        BY <3>3, <3>4, <4>3 DEF Owning, Working, Unsent
      <4>6. \A a \in Attempts : payer'[a] # None => sent'[a] = 1
        BY <3>2, <3>3 DEF MoneyKnown
      <4> QED
        BY <4>1, <4>4, <4>5, <4>6 DEF MoneyKnown
    <3>9. Reserved'
      BY <1>0, <2>1, <3>3, <3>4 DEF Reserved, Working, Unsent, rows, Tasks
    <3> QED
      BY <3>5, <3>6, <3>7, <3>8, <3>9
  <2> QED
    BY <1>2, <2>2, <2>3 DEF BroadcastTransfer, AfterUnknown
<1>3. CASE SettleGrantReservation(t)
  <2>1. /\ task[t].pc = "settle" /\ task[t].pc \in Working /\ task[t].by \in Grants
        /\ sent[t[2]] = 0
    BY <1>3 DEF SettleGrantReservation, Working, Unsent, Reserved, MoneyKnown
  <2>2. /\ \A u \in Tasks : /\ task'[u].claimId = task[u].claimId
                            /\ task'[u].by = task[u].by
                            /\ task'[u].pc = IF u = t THEN "clear" ELSE task[u].pc
        /\ UNCHANGED <<claimId, hash, outbox, req, sent, payer>>
        /\ \A a \in Attempts : status'[a] = IF a = t[2] THEN "cancelled" ELSE status[a]
        /\ \A k \in Grants \X Attempts :
             /\ ledger[k] = "none" <=> ledger'[k] = "none"
             /\ k[2] # t[2] => ledger'[k] = ledger[k]
    <3> DEFINE key == <<task[t].by, t[2]>>
    <3>1. /\ Step(t, "clear")
          /\ UNCHANGED <<claimId, hash, outbox, req, sent, payer>>
      BY <1>3 DEF SettleGrantReservation, ghost
    <3>2. /\ status' = [status EXCEPT ![t[2]] = "cancelled"]
          /\ ledger' = [ledger EXCEPT ![key] = IF @ = "held" THEN "released" ELSE @]
      BY <1>3, <2>1, WorkingFacts DEF SettleGrantReservation
    <3>3. \A a \in Attempts : status'[a] = IF a = t[2] THEN "cancelled" ELSE status[a]
      BY <3>2 DEF TypeOK
    <3>4. \A k \in Grants \X Attempts :
             ledger'[k] = IF k = key /\ ledger[k] = "held" THEN "released" ELSE ledger[k]
      BY <3>2 DEF TypeOK
    <3>5. key[2] = t[2]
      OBVIOUS
    <3> HIDE DEF key
    <3>6. \A k \in Grants \X Attempts : /\ ledger[k] = "none" <=> ledger'[k] = "none"
                                        /\ k[2] # t[2] => ledger'[k] = ledger[k]
      BY <3>4, <3>5
    <3> QED
      BY <3>1, <3>3, <3>6, StepFacts
  <2>3. /\ status[t[2]] = "broadcasting"
        /\ \A u \in Tasks : task'[u].pc \notin Owning
        /\ \A q \in Requests : req'[q].pc # "start"
    BY <2>1, <2>2, WorkingFacts DEF Owning, Working, Unsent
  <2>4. OneActive' /\ UnclaimedBefore' /\ AtMostOneBroadcast'
    BY <2>2 DEF OneActive, Active, ActiveStatuses, UnclaimedBefore, AtMostOneBroadcast
  <2>5. OutboxTellsTheStory'
    BY <2>2, <2>3 DEF OutboxTellsTheStory, Announced, FinalStatuses
  <2>6. ClaimOwned' /\ OneOwner'
    BY <2>3 DEF ClaimOwned, OneOwner, Owning, Working
  <2>7. MoneyKnown'
    BY <2>1, <2>2, <2>3 DEF MoneyKnown, StatusTellsTheMoney, Owning, Working, FinalStatuses
  <2>8. Reserved'
    BY <2>2, <2>3 DEF Reserved, Owning, Working, Unsent
  <2> QED
    BY <2>4, <2>5, <2>6, <2>7, <2>8
<1>4. CASE ClearPendingTransfer(t)
  <2>1. \A u \in Tasks : task'[u].pc \in Owning => task'[u] = task[u]
    <3>1. task'[t].pc = "ending"
      BY <1>4, StepFacts DEF ClearPendingTransfer
    <3>2. \A u \in Tasks : u # t => task'[u] = task[u]
      BY <1>4 DEF ClearPendingTransfer, Step, TypeOK
    <3> QED
      BY <3>1, <3>2 DEF Owning, Working, Unsent
  <2> QED
    BY <1>4, <2>1, CancelFrame DEF ClearPendingTransfer
<1>5. CASE ReleasePendingTransferClaim(t)
  <2>1. /\ task[t].pc = "release" /\ task[t].pc \in Working /\ sent[t[2]] = 0
    BY <1>5 DEF ReleasePendingTransferClaim, Working, Unsent, MoneyKnown
  <2>2. /\ \A u \in Tasks : /\ task'[u].claimId = task[u].claimId
                            /\ task'[u].by = task[u].by
                            /\ task'[u].pc = IF u = t THEN "ending" ELSE task[u].pc
        /\ UNCHANGED <<claimId, hash, outbox, ledger, req, sent, payer>>
        /\ \A a \in Attempts : status'[a] = IF a = t[2] THEN "previewed" ELSE status[a]
    BY <1>5, <2>1, StepFacts, WorkingFacts DEF ReleasePendingTransferClaim, Move, ghost
  <2>3. /\ status[t[2]] = "broadcasting"
        /\ \A u \in Tasks : task'[u].pc \notin Owning
        /\ \A q \in Requests : req'[q].pc # "start"
    BY <2>1, <2>2, WorkingFacts DEF Owning, Working, Unsent
  <2>4. OneActive' /\ UnclaimedBefore' /\ AtMostOneBroadcast'
    BY <2>2, <2>3 DEF OneActive, Active, ActiveStatuses, UnclaimedBefore, AtMostOneBroadcast
  <2>5. OutboxTellsTheStory'
    BY <2>2, <2>3 DEF OutboxTellsTheStory, Announced, FinalStatuses
  <2>6. ClaimOwned' /\ OneOwner'
    BY <2>3 DEF ClaimOwned, OneOwner, Owning, Working
  <2>7. MoneyKnown'
    BY <2>1, <2>2, <2>3 DEF MoneyKnown, StatusTellsTheMoney, Owning, Working, FinalStatuses
  <2>8. Reserved'
    BY <2>2, <2>3 DEF Reserved, Owning, Working, Unsent
  <2> QED
    BY <2>4, <2>5, <2>6, <2>7, <2>8
<1>6. CASE MarkPendingTransferUncertain(t)
  <2>1. /\ task[t].pc = "mark_uncertain" /\ task[t].pc \in Working
    BY <1>6 DEF MarkPendingTransferUncertain, Working, Unsent
  <2>2. /\ \A u \in Tasks : /\ task'[u].claimId = task[u].claimId
                            /\ task'[u].by = task[u].by
                            /\ task'[u].pc = IF u = t THEN "ending" ELSE task[u].pc
        /\ UNCHANGED <<claimId, hash, ledger, req, sent, payer>>
        /\ \A a \in Attempts : status'[a] = IF a = t[2] THEN "uncertain" ELSE status[a]
        /\ outbox' = outbox \cup {<<t[2], "uncertain">>}
    BY <1>6, <2>1, StepFacts, WorkingFacts DEF MarkPendingTransferUncertain, Move, ghost
  <2>3. /\ status[t[2]] = "broadcasting" /\ claimId[t[2]] # 0
        /\ \A u \in Tasks : task'[u].pc \notin Owning
        /\ \A q \in Requests : req'[q].pc # "start"
    BY <2>1, <2>2, WorkingFacts DEF Owning, Working, Unsent
  <2>4. OneActive' /\ UnclaimedBefore' /\ AtMostOneBroadcast'
    BY <2>2, <2>3 DEF OneActive, Active, ActiveStatuses, UnclaimedBefore, AtMostOneBroadcast
  <2>5. OutboxTellsTheStory'
    BY <1>0, <2>2, <2>3 DEF OutboxTellsTheStory, Announced, FinalStatuses, NotifiedStatuses
  <2>6. ClaimOwned' /\ OneOwner'
    BY <2>3 DEF ClaimOwned, OneOwner, Owning, Working
  <2>7. MoneyKnown'
    BY <2>1, <2>2, <2>3 DEF MoneyKnown, StatusTellsTheMoney, Owning, Working, FinalStatuses
  <2>8. Reserved'
    BY <2>2, <2>3 DEF Reserved, Owning, Working, Unsent
  <2> QED
    BY <2>4, <2>5, <2>6, <2>7, <2>8
<1>7. CASE MarkTransferSubmitted(t)
  <2>1. /\ task[t].pc = "mark_submitted" /\ task[t].pc \in Working /\ sent[t[2]] = 1
    BY <1>7 DEF MarkTransferSubmitted, Working, Unsent, MoneyKnown
  <2>2. /\ \A u \in Tasks : /\ task'[u].claimId = task[u].claimId
                            /\ task'[u].by = task[u].by
                            /\ task'[u].pc = IF u = t THEN "verify" ELSE task[u].pc
        /\ UNCHANGED <<claimId, ledger, req, sent, payer>>
        /\ \A a \in Attempts : status'[a] = IF a = t[2] THEN "submitted" ELSE status[a]
        /\ hash'[t[2]] = t[2]
        /\ outbox' = outbox \cup {<<t[2], "submitted">>}
    BY <1>0, <1>7, <2>1, StepFacts, WorkingFacts DEF MarkTransferSubmitted, Move, ghost
  <2>3. /\ status[t[2]] = "broadcasting" /\ claimId[t[2]] # 0
        /\ claimId[t[2]] = task[t].claimId
        /\ \A u \in Tasks : u # t => task'[u].pc \notin Owning
        /\ \A q \in Requests : req'[q].pc # "start"
    BY <2>1, <2>2, WorkingFacts
  <2>4. OneActive' /\ UnclaimedBefore' /\ AtMostOneBroadcast'
    BY <2>2, <2>3 DEF OneActive, Active, ActiveStatuses, UnclaimedBefore, AtMostOneBroadcast
  <2>5. OutboxTellsTheStory'
    BY <1>0, <2>2, <2>3 DEF OutboxTellsTheStory, Announced, FinalStatuses, NotifiedStatuses
  <2>6. ClaimOwned' /\ OneOwner'
    <3>1. \A u \in Tasks :
            /\ task'[u].pc \in Owning => /\ claimId'[u[2]] = task'[u].claimId
                                         /\ task'[u].claimId # 0
            /\ task'[u].pc \notin Working
            /\ task'[u].pc = "verify" => status'[u[2]] = "submitted" /\ hash'[u[2]] = u[2]
      BY <1>0, <2>2, <2>3 DEF Owning, Working, Unsent
    <3>2. OneOwner'
      BY <2>3 DEF OneOwner
    <3> QED
      BY <2>3, <3>1, <3>2 DEF ClaimOwned
  <2>7. MoneyKnown'
    BY <2>1, <2>2, <2>3
    DEF MoneyKnown, StatusTellsTheMoney, Owning, Working, Unsent, FinalStatuses
  <2>8. Reserved'
    BY <2>2, <2>3 DEF Reserved, Owning, Working, Unsent
  <2> QED
    BY <2>4, <2>5, <2>6, <2>7, <2>8
<1>8. CASE FinalizeTransfer(t)
  <2>1. PICK s \in FinalStatuses :
          Move(Verified(t), s) /\ outbox' = outbox \cup (Verified(t) \X {s})
    BY <1>8, InputAssumption DEF FinalizeTransfer
  <2>2. /\ task[t].pc = "verify" /\ status[t[2]] = "submitted" /\ hash[t[2]] = t[2]
        /\ claimId[t[2]] # 0 /\ sent[t[2]] = 1
    BY <1>0, <1>8 DEF FinalizeTransfer, ClaimOwned, Owning, MoneyKnown, StatusTellsTheMoney
  <2>3. \A b \in Attempts : status[b] \in ActiveStatuses => b = t[2]
    BY <1>0, <2>2 DEF OneActive, Active, ActiveStatuses
  <2>4. Verified(t) = {t[2]}
    BY <1>0, <2>2, <2>3 DEF Verified, ActiveStatuses
  <2>5. /\ \A u \in Tasks : /\ task'[u].claimId = task[u].claimId
                            /\ task'[u].by = task[u].by
                            /\ task'[u].pc = IF u = t THEN "ending" ELSE task[u].pc
        /\ UNCHANGED <<claimId, hash, ledger, req, sent, payer>>
        /\ \A a \in Attempts : status'[a] = IF a = t[2] THEN s ELSE status[a]
        /\ outbox' = outbox \cup {<<t[2], s>>}
    BY <1>8, <2>1, <2>4, StepFacts DEF FinalizeTransfer, Move, ghost
  <2>6. /\ \A u \in Tasks : task'[u].pc \notin Owning
        /\ \A q \in Requests : req'[q].pc # "start"
    <3>1. \A u \in Tasks : task[u].pc \in Owning => u = t
      BY <2>2, <2>3 DEF ClaimOwned, OneOwner, Owning, Working, Tasks, ActiveStatuses
    <3>2. \A q \in Requests : req[q].pc # "start"
      BY <2>2, <2>3 DEF ClaimOwned, ActiveStatuses
    <3> QED
      BY <2>5, <3>1, <3>2 DEF Owning, Working, Unsent
  <2>7. OneActive' /\ UnclaimedBefore' /\ AtMostOneBroadcast'
    BY <2>2, <2>5
    DEF OneActive, Active, ActiveStatuses, FinalStatuses, UnclaimedBefore, AtMostOneBroadcast
  <2>8. OutboxTellsTheStory'
    BY <1>0, <2>2, <2>5 DEF OutboxTellsTheStory, Announced, FinalStatuses, NotifiedStatuses
  <2>9. ClaimOwned' /\ OneOwner'
    BY <2>6 DEF ClaimOwned, OneOwner, Owning, Working
  <2>10. MoneyKnown'
    BY <2>2, <2>5, <2>6 DEF MoneyKnown, StatusTellsTheMoney, Owning, Working, FinalStatuses
  <2>11. Reserved'
    BY <2>2, <2>5, <2>6 DEF Reserved, Owning, Working, Unsent
  <2> QED
    BY <2>7, <2>8, <2>9, <2>10, <2>11
<1>9. CASE EndTask(t) \/ TaskThrows(t)
  <2>1. /\ \A u \in Tasks : task'[u] = IF u = t THEN NoTask ELSE task[u]
        /\ UNCHANGED <<rows, outbox, ledger, req, ghost>>
    BY <1>9 DEF EndTask, TaskThrows, TypeOK
  <2>2. \A u \in Tasks : task'[u].pc \in Owning => task'[u] = task[u]
    BY <2>1 DEF NoTask, Owning, Working, Unsent
  <2> QED
    BY <2>1, <2>2, TaskFrame
<1> QED
  BY <1>1, <1>2, <1>3, <1>4, <1>5, <1>6, <1>7, <1>8, <1>9 DEF TaskStep

\* A process that dies takes its requests and its tasks with it, and no claim is
\* taken over by anyone.
LEMMA RestartSafe ==
  ASSUME IInv, NEW p \in Procs, Restart(p)
  PROVE  Safe'
<1>1. /\ \A q \in Requests : req'[q] = IdleRequest \/ req'[q] = req[q]
      /\ \A u \in Tasks : task'[u] = NoTask \/ task'[u] = task[u]
      /\ UNCHANGED <<rows, outbox, ledger, ghost>>
  BY DEF Restart
<1>2. /\ \A q \in Requests : req'[q].pc = "idle" \/ req'[q] = req[q]
      /\ \A u \in Tasks : task'[u].pc = "none" \/ task'[u] = task[u]
  BY <1>1 DEF IdleRequest, NoTask
<1> USE DEF IInv, rows, ghost
<1>3. OneActive' /\ UnclaimedBefore' /\ AtMostOneBroadcast' /\ OutboxTellsTheStory'
  BY <1>1 DEF OneActive, Active, UnclaimedBefore, AtMostOneBroadcast, OutboxTellsTheStory,
              Announced
<1>4. ClaimOwned'
  BY <1>1, <1>2 DEF ClaimOwned, Owning, Working, Unsent
<1>5. OneOwner'
  BY <1>1, <1>2 DEF OneOwner, Owning, Working, Unsent
<1>6. MoneyKnown'
  BY <1>1, <1>2 DEF MoneyKnown, StatusTellsTheMoney, Owning, Working, Unsent
<1>7. Reserved'
  BY <1>1, <1>2 DEF Reserved, Owning, Working, Unsent
<1> QED
  BY <1>3, <1>4, <1>5, <1>6, <1>7 DEF Safe

\* Every step of the system preserves the invariant: one case per kind of step.
LEMMA IInvStep ==
  IInv /\ [Next]_vars => IInv'
<1> SUFFICES ASSUME IInv, [Next]_vars
             PROVE  IInv'
  OBVIOUS
<1>1. TypeOK'
  BY TypeStep DEF IInv
<1>2. Safe'
  <2>1. CASE \E r \in Requests : TurnStep(r) \/ DecisionStep(r) \/ RequestThrows(r)
    BY <2>1, TurnSafe, DecisionSafe
  <2>2. CASE \E t \in Tasks : TaskStep(t) \/ TaskThrows(t)
    BY <2>2, TaskSafe
  <2>3. CASE \E p \in Procs : Restart(p)
    BY <2>3, RestartSafe
  <2>4. CASE \E p \in Procs : StopAccepting(p)
    BY <2>4, TaskFrame DEF StopAccepting, Safe
  <2>5. CASE PreviewTransfer
    <3>1. PICK n \in Attempts : InsertAttempt(n, "previewed", n, None)
      BY <2>5 DEF PreviewTransfer
    <3> QED
      BY <2>5, <3>1, InsertFrame DEF PreviewTransfer, Safe
  <2>6. CASE UNCHANGED vars
    BY <2>6, TaskFrame DEF vars, Safe
  <2> QED
    BY <2>1, <2>2, <2>3, <2>4, <2>5, <2>6 DEF Next
<1> QED
  BY <1>1, <1>2 DEF IInv, Safe

\* The invariant holds before anything is previewed.
LEMMA IInvInit ==
  Init => IInv
<1> SUFFICES ASSUME Init
             PROVE  IInv
  OBVIOUS
<1> USE DEF Init
<1>1. TypeOK
  BY TypeInit
<1>2. /\ \A r \in Requests : req[r].pc = "idle"
      /\ \A t \in Tasks : task[t].pc = "none"
  BY DEF IdleRequest, NoTask
<1>3. OneActive /\ UnclaimedBefore /\ AtMostOneBroadcast
  BY DEF OneActive, Active, ActiveStatuses, UnclaimedBefore, AtMostOneBroadcast
<1>4. ClaimOwned /\ OneOwner
  BY <1>2 DEF ClaimOwned, OneOwner, Owning, Working, Unsent
<1>5. MoneyKnown
  BY <1>2 DEF MoneyKnown, StatusTellsTheMoney, Owning, Working, Unsent, FinalStatuses
<1>6. Reserved
  BY <1>2, NoneAssumption DEF Reserved, Owning, Working, Unsent
<1>7. OutboxTellsTheStory
  BY DEF OutboxTellsTheStory, Announced, FinalStatuses
<1> QED
  BY <1>1, <1>3, <1>4, <1>5, <1>6, <1>7 DEF IInv

\* Only the owner of the claim moves a row that is broadcasting or submitted.
LEMMA ResolveStep ==
  ASSUME IInv, [Next]_vars, NEW a \in Attempts,
         status[a] \in {"broadcasting", "submitted"}, status'[a] # status[a]
  PROVE  \E p \in Procs : /\ task[<<p, a>>].claimId = claimId[a]
                          /\ task'[<<p, a>>] # task[<<p, a>>]
<1>1. CancelPreviewed[a] = status[a]
  BY DEF CancelPreviewed
<1>2. ASSUME NEW n \in Attempts, NEW s, NEW o, NEW x
      PROVE  ~InsertAttempt(n, s, o, x)
  BY <1>1 DEF IInv, InsertAttempt, CancelPreviewed
<1>3. \A r \in Requests : ~TurnStep(r) /\ ~RequestThrows(r)
  BY <1>1, <1>2 DEF TurnStep, BeginTurn, TurnEndsEarly, AgentAnswers, AgentBroadcasts,
     SaveSnapshot, GateEvaluates, ClaimConsumption, RequestThrows, rows
<1>4. \A r \in Requests : ~DecisionStep(r)
  <2> SUFFICES ASSUME NEW r \in Requests, DecisionStep(r)
               PROVE  FALSE
    OBVIOUS
  <2>1. CASE CancelPendingTransfer(r)
    BY <2>1 DEF CancelPendingTransfer, IInv, TypeOK
  <2>2. CASE ClaimPendingTransfer(r)
    BY <2>2 DEF ClaimPendingTransfer, Claimable, IInv, TypeOK
  <2> QED
    BY <2>1, <2>2 DEF DecisionStep, BeginDecision, ResolveDecision, StartFinancialTask, rows
<1>5. PICK t \in Tasks : TaskStep(t)
  BY <1>2, <1>3, <1>4 DEF Next, vars, rows, TaskThrows, StopAccepting, Restart, PreviewTransfer
<1>6. /\ task[t].pc \in Owning /\ a = t[2]
      /\ task'[t].pc # task[t].pc
  <2>1. CASE SettleGrantReservation(t)
    <3>1. task[t].pc = "settle" /\ task'[t].pc = "clear" /\ t[2] = a
      BY <2>1, StepFacts DEF SettleGrantReservation, IInv, TypeOK, Tasks
    <3> QED
      BY <3>1 DEF Owning, Working, Unsent
  <2>2. CASE ReleasePendingTransferClaim(t)
    <3>1. task[t].pc = "release" /\ task'[t].pc = "ending" /\ a \in Broadcasting
      BY <2>2, StepFacts DEF ReleasePendingTransferClaim, Move, IInv
    <3> QED
      BY <3>1, WorkingFacts DEF Owning, Working, Unsent
  <2>3. CASE MarkPendingTransferUncertain(t)
    <3>1. task[t].pc = "mark_uncertain" /\ task'[t].pc = "ending" /\ a \in Broadcasting
      BY <2>3, StepFacts DEF MarkPendingTransferUncertain, Move, IInv
    <3> QED
      BY <3>1, WorkingFacts DEF Owning, Working, Unsent
  <2>4. CASE MarkTransferSubmitted(t)
    <3>1. task[t].pc = "mark_submitted" /\ task'[t].pc = "verify" /\ a \in Broadcasting
      BY <2>4, StepFacts DEF MarkTransferSubmitted, Move, IInv
    <3> QED
      BY <3>1, WorkingFacts DEF Owning, Working, Unsent
  <2>5. CASE FinalizeTransfer(t)
    <3>1. task[t].pc = "verify" /\ task'[t].pc = "ending" /\ a \in Active
      BY <2>5, StepFacts DEF FinalizeTransfer, IInv, Active, ActiveStatuses
    <3>2. t[2] \in Active
      BY <3>1 DEF IInv, ClaimOwned, Active, ActiveStatuses, Tasks
    <3> QED
      BY <3>1, <3>2 DEF IInv, OneActive, Owning, Working, Unsent
  <2>6. CASE ClearPendingTransfer(t)
    BY <1>1, <2>6 DEF ClearPendingTransfer
  <2> QED
    BY <1>5, <2>1, <2>2, <2>3, <2>4, <2>5, <2>6
    DEF TaskStep, ValidateRecipient, BroadcastTransfer, EndTask, rows
<1>7. t[1] \in Procs /\ t = <<t[1], a>>
  BY <1>6 DEF Tasks
<1>8. task[t].claimId = claimId[a]
  BY <1>6 DEF IInv, ClaimOwned
<1> QED
  BY <1>6, <1>7, <1>8

-----------------------------------------------------------------------------
(* The theorems                                                            *)

\* The invariant holds in every reachable state, whatever the number of
\* conversational requests, processes, grants and attempts.
THEOREM InvariantHolds == Spec => []IInv
  BY IInvInit, IInvStep, PTL DEF Spec

\* TypeOK: every variable keeps its type (the rows, the outbox, the ledger, and
\* the memory of the requests and tasks between two transactions).
THEOREM TypeCorrect == Spec => []TypeOK
<1>1. IInv => TypeOK
  BY DEF IInv
<1> QED
  BY <1>1, InvariantHolds, PTL

\* AtMostOneBroadcast: the transaction of a claimed attempt never leaves twice
\* (runFinancialTransfer behind claimPendingTransfer).
THEOREM PaysAtMostOnce == Spec => []AtMostOneBroadcast
<1>1. IInv => AtMostOneBroadcast
  BY DEF IInv
<1> QED
  BY <1>1, InvariantHolds, PTL

\* StatusTellsTheMoney: what a row says agrees with what left, although the
\* updates of the repository name the conversation and not the attempt.
THEOREM StatusIsTrue == Spec => []StatusTellsTheMoney
<1>1. IInv => StatusTellsTheMoney
  BY DEF IInv, MoneyKnown
<1> QED
  BY <1>1, InvariantHolds, PTL

\* GrantSpendReserved: settleGrantReservation never gives back what was spent.
THEOREM SpendStaysReserved == Spec => []GrantSpendReserved
<1>1. IInv => GrantSpendReserved
  <2> SUFFICES ASSUME IInv, NEW k \in Grants \X Attempts
               PROVE  /\ payer[k[2]] = k[1] => ledger[k] = "held"
                      /\ ledger[k] = "released" => status[k[2]] = "cancelled" /\ sent[k[2]] = 0
    BY DEF GrantSpendReserved
  <2>1. k[2] \in Attempts /\ k[1] # None
    BY NoneAssumption
  <2>2. ledger[k] \in {"none", "held", "released"}
    BY DEF IInv, TypeOK
  <2>3. ledger[k] = "released" => status[k[2]] = "cancelled" /\ sent[k[2]] = 0
    BY <2>1 DEF IInv, Reserved, MoneyKnown, StatusTellsTheMoney
  <2>4. payer[k[2]] = k[1] => ledger[k] # "none" /\ sent[k[2]] = 1
    BY <2>1 DEF IInv, Reserved, MoneyKnown
  <2> QED
    BY <2>2, <2>3, <2>4
<1> QED
  BY <1>1, InvariantHolds, PTL

\* OutboxTellsTheStory: the events of an attempt follow its status, one
\* transaction at a time.
THEOREM OutboxIsTrue == Spec => []OutboxTellsTheStory
<1>1. IInv => OutboxTellsTheStory
  BY DEF IInv
<1> QED
  BY <1>1, InvariantHolds, PTL

\* OnlyOwnTaskResolves: the task of another claim, a turn or a decision never
\* moves a row that is broadcasting or submitted.
THEOREM OwnTaskResolves == Spec => OnlyOwnTaskResolves
<1> DEFINE Resolves(a) ==
      status[a] \in {"broadcasting", "submitted"} /\ status'[a] # status[a] =>
        \E p \in Procs : /\ task[<<p, a>>].claimId = claimId[a]
                         /\ task'[<<p, a>>] # task[<<p, a>>]
<1>1. IInv /\ [Next]_vars => [\A a \in Attempts : Resolves(a)]_vars
  BY ResolveStep
<1> QED
  BY <1>1, InvariantHolds, PTL DEF Spec, OnlyOwnTaskResolves

-----------------------------------------------------------------------------
(* The refinement of PaymentPromise                                        *)

\* What a step may do to the row of an attempt and to its money.
RowMoves(a) ==
  \/ status'[a] = status[a] /\ sent'[a] = sent[a]
  \/ /\ sent[a] = 0 /\ sent'[a] = 0
     /\ \/ status[a] = "absent" /\ status'[a] \in {"previewed", "broadcasting", "uncertain"}
        \/ status[a] = "previewed" /\ status'[a] \in {"broadcasting", "cancelled"}
        \/ status[a] = "broadcasting" /\ status'[a] \in {"previewed", "cancelled"}
  \/ /\ sent'[a] = sent[a]
     /\ status[a] = "broadcasting" /\ status'[a] \in {"submitted", "uncertain"}
  \/ /\ sent[a] = 0 /\ sent'[a] = 1
     /\ status[a] = "broadcasting" /\ status'[a] = "broadcasting"
  \/ /\ sent[a] = 1 /\ sent'[a] = 1
     /\ status[a] = "submitted" /\ status'[a] \in FinalStatuses

\* Cancelling the previews withdraws offers nobody paid for.
LEMMA CancelMoves ==
  ASSUME IInv, status' = CancelPreviewed, UNCHANGED sent, NEW a \in Attempts
  PROVE  RowMoves(a)
BY DEF CancelPreviewed, RowMoves, IInv, MoneyKnown, StatusTellsTheMoney

\* An insertion opens an offer in place of those it cancels.
LEMMA InsertMoves ==
  ASSUME IInv, NEW n \in Attempts, NEW s \in {"previewed", "broadcasting", "uncertain"},
         NEW o, NEW x, InsertAttempt(n, s, o, x), UNCHANGED sent, NEW a \in Attempts
  PROVE  RowMoves(a)
BY DEF InsertAttempt, CancelPreviewed, RowMoves, IInv, TypeOK, MoneyKnown, StatusTellsTheMoney

LEMMA TurnMoves ==
  ASSUME IInv, NEW r \in Requests, TurnStep(r) \/ DecisionStep(r), NEW a \in Attempts
  PROVE  RowMoves(a)
<1>1. CASE SaveSnapshot(r)
  <2>1. UNCHANGED sent
    BY <1>1 DEF SaveSnapshot, ghost
  <2>2. CASE status' = CancelPreviewed
    BY <2>1, <2>2, CancelMoves
  <2>3. CASE status' = status
    BY <2>1, <2>3 DEF RowMoves
  <2>4. ASSUME NEW n \in Attempts, NEW o, NEW x,
               InsertAttempt(n, SavedStatus(req[r].session), o, x)
        PROVE  RowMoves(a)
    <3>1. req[r].session.state \in {"none", "broadcasting", "uncertain"}
      BY DEF IInv, TypeOK, RequestRecords, Sessions
    <3>2. SavedStatus(req[r].session) \in {"previewed", "broadcasting", "uncertain"}
      BY <3>1 DEF SavedStatus
    <3> QED
      BY <2>1, <2>4, <3>2, InsertMoves
  <2> QED
    BY <1>1, <2>2, <2>3, <2>4 DEF SaveSnapshot, rows
<1>2. CASE CancelPendingTransfer(r) \/ ClaimPendingTransfer(r)
  <2>1. UNCHANGED sent
    BY <1>2 DEF CancelPendingTransfer, ClaimPendingTransfer, ghost
  <2>2. CASE CancelPendingTransfer(r)
    BY <2>1, <2>2
    DEF CancelPendingTransfer, RowMoves, IInv, TypeOK, MoneyKnown, StatusTellsTheMoney
  <2>3. CASE ClaimPendingTransfer(r)
    BY <2>1, <2>3
    DEF ClaimPendingTransfer, Claimable, RowMoves, IInv, TypeOK, MoneyKnown, StatusTellsTheMoney
  <2> QED
    BY <1>2, <2>2, <2>3
<1>3. CASE UNCHANGED <<status, sent>>
  BY <1>3 DEF RowMoves
<1> QED
  BY <1>1, <1>2, <1>3
  DEF TurnStep, DecisionStep, BeginTurn, TurnEndsEarly, AgentAnswers, AgentBroadcasts,
      GateEvaluates, ClaimConsumption, BeginDecision, ResolveDecision, StartFinancialTask,
      rows, ghost

\* A task pays, withdraws or concludes the one attempt it has claimed.
LEMMA TaskMoves ==
  ASSUME IInv, NEW t \in Tasks, TaskStep(t), NEW a \in Attempts
  PROVE  RowMoves(a)
<1>1. CASE UNCHANGED <<status, sent>>
  BY <1>1 DEF RowMoves
<1>2. CASE BroadcastTransfer(t)
  <2>1. /\ status[t[2]] = "broadcasting" /\ sent[t[2]] = 0 /\ t[2] \in Attempts
        /\ sent \in [Attempts -> Nat]
    BY <1>2, WorkingFacts DEF BroadcastTransfer, IInv, TypeOK, MoneyKnown, Unsent, Working
  <2>2. status' = status /\ (sent' = sent \/ sent' = [sent EXCEPT ![t[2]] = @ + 1])
    BY <1>2 DEF BroadcastTransfer, rows
  <2>3. sent' = sent \/ sent' = [sent EXCEPT ![t[2]] = 1]
    BY <2>1, <2>2
  <2> QED
    BY <2>1, <2>2, <2>3 DEF RowMoves
<1>3. CASE SettleGrantReservation(t) \/ ReleasePendingTransferClaim(t)
  <2>1. /\ Broadcasting = {t[2]} /\ sent[t[2]] = 0 /\ status[t[2]] = "broadcasting"
        /\ t[2] \in Attempts /\ status \in [Attempts -> Statuses] /\ UNCHANGED sent
    BY <1>3, WorkingFacts
    DEF SettleGrantReservation, ReleasePendingTransferClaim, ghost, IInv, TypeOK, MoneyKnown,
        Unsent, Working
  <2> QED
    BY <1>3, <2>1 DEF SettleGrantReservation, ReleasePendingTransferClaim, Move, RowMoves
<1>4. CASE MarkPendingTransferUncertain(t) \/ MarkTransferSubmitted(t)
  <2>1. UNCHANGED sent
    BY <1>4 DEF MarkPendingTransferUncertain, MarkTransferSubmitted, ghost
  <2> QED
    BY <1>4, <2>1
    DEF MarkPendingTransferUncertain, MarkTransferSubmitted, Move, Broadcasting, RowMoves
<1>5. CASE ClearPendingTransfer(t)
  BY <1>5, CancelMoves DEF ClearPendingTransfer, ghost
<1>6. CASE FinalizeTransfer(t)
  <2>1. PICK s \in FinalStatuses : Move(Verified(t), s)
    BY <1>6, InputAssumption DEF FinalizeTransfer
  <2>2. UNCHANGED sent
    BY <1>6 DEF FinalizeTransfer, ghost
  <2>3. status[t[2]] = "submitted" /\ t[2] \in Attempts
    BY <1>6 DEF FinalizeTransfer, IInv, ClaimOwned, Tasks
  <2>4. sent[t[2]] = 1
    BY <2>3 DEF IInv, MoneyKnown, StatusTellsTheMoney
  <2>5. ASSUME NEW b \in Verified(t) PROVE b = t[2]
    BY <2>3 DEF Verified, IInv, OneActive, Active, ActiveStatuses
  <2> QED
    BY <2>1, <2>2, <2>3, <2>4, <2>5 DEF Move, RowMoves
<1> QED
  BY <1>1, <1>2, <1>3, <1>4, <1>5, <1>6
  DEF TaskStep, ValidateRecipient, EndTask, rows, ghost

LEMMA EveryRowMoves ==
  ASSUME IInv, [Next]_vars, NEW a \in Attempts
  PROVE  RowMoves(a)
<1>1. CASE \E r \in Requests : TurnStep(r) \/ DecisionStep(r)
  BY <1>1, TurnMoves
<1>2. CASE \E t \in Tasks : TaskStep(t)
  BY <1>2, TaskMoves
<1>3. CASE PreviewTransfer
  <2>1. PICK n \in Attempts : InsertAttempt(n, "previewed", n, None)
    BY <1>3 DEF PreviewTransfer
  <2> QED
    BY <1>3, <2>1, InsertMoves DEF PreviewTransfer, ghost
<1>4. CASE UNCHANGED <<status, sent>>
  BY <1>4 DEF RowMoves
<1> QED
  BY <1>1, <1>2, <1>3, <1>4
  DEF Next, vars, rows, ghost, RequestThrows, TaskThrows, StopAccepting, Restart

\* The rows that move as above keep the promise: the one that is on the table
\* afterwards is the one row the unique index lets be active.
LEMMA PromiseStep ==
  ASSUME TypeOK, TypeOK', OneActive', \A a \in Attempts : RowMoves(a)
  PROVE  Promise!Next
<1>1. /\ \A a \in Attempts : status[a] \in Statuses /\ status'[a] \in Statuses
      /\ \A a \in Attempts : Offered(a)' = CASE status'[a] = "absent" -> "none"
                               [] status'[a] = "previewed" -> "open"
                               [] status'[a] = "cancelled" -> "withdrawn"
                               [] status'[a] \in FinalStatuses -> "concluded"
                               [] OTHER -> "taken"
  BY DEF TypeOK, Offered
<1>2. ASSUME NEW a \in Attempts
      PROVE  \/ Offered(a)' = Offered(a) /\ sent'[a] = sent[a]
             \/ /\ sent[a] = 0 /\ sent'[a] = 0
                /\ <<Offered(a), Offered(a)'>> \in
                     {<<"none", "open">>, <<"none", "taken">>, <<"open", "taken">>,
                      <<"open", "withdrawn">>, <<"taken", "open">>, <<"taken", "withdrawn">>}
             \/ /\ sent[a] = 0 /\ sent'[a] = 1
                /\ Offered(a) = "taken" /\ Offered(a)' = "taken"
             \/ /\ sent[a] = 1 /\ sent'[a] = 1
                /\ Offered(a) = "taken" /\ Offered(a)' = "concluded"
  BY <1>1 DEF RowMoves, Offered, FinalStatuses
<1>3. ASSUME NEW a \in Attempts, Offered(a)' \in {"open", "taken"} PROVE a \in Active'
  BY <1>1, <1>3 DEF Active, ActiveStatuses, Statuses, FinalStatuses
<1>4. \A a, b \in Promise!OnTable([x \in Attempts |-> Offered(x)']) : a = b
  BY <1>3 DEF Promise!OnTable, OneActive
<1>5. \A a \in Attempts : \/ Promise!Unpaid(a) \/ Promise!Conclude(a)
                          \/ Offered(a)' = Offered(a) /\ sent'[a] = sent[a]
  BY <1>2 DEF Promise!Unpaid, Promise!Conclude
<1> QED
  BY <1>4, <1>5 DEF Promise!Next

\* KeepsPromise: the rows, claims and tasks refine what the user was promised,
\* for any number of requests, processes, grants, attempts and faults.
THEOREM PromiseIsKept == Spec => KeepsPromise
<1>1. ASSUME Init PROVE Promise!Init
  <2>1. \A a \in Attempts : status[a] = "absent"
    BY <1>1 DEF Init
  <2>2. \A a \in Attempts : Offered(a) = "none"
    BY <2>1 DEF Offered, FinalStatuses
  <2> QED
    BY <1>1, <2>2 DEF Init, Promise!Init
<1>2. IInv /\ [Next]_vars => [Promise!Next]_(Promise!vars)
  BY IInvStep, EveryRowMoves, PromiseStep DEF IInv
<1> QED
  BY <1>1, <1>2, InvariantHolds, PTL DEF Spec, KeepsPromise, Promise!Spec

=============================================================================
