----------------------------- MODULE VoiceActions -----------------------------
(***************************************************************************)
(* What a spoken "yes" may authorize in one voice session: the arbiter's   *)
(* single window, the transfer gate in front of it, and the versioned      *)
(* proposals of trusted-recipient actions, staged, shown, corrected,       *)
(* confirmed and applied while other tool calls and the screen act too.    *)
(*                                                                         *)
(* A tool call runs to its next await in one step: what it read before the *)
(* await is in its record, what it writes after may be about a world that  *)
(* moved.  The session (arbiter, gate, calls in flight) can end at any     *)
(* time; the rows stay.                                                    *)
(*                                                                         *)
(* Abstracted: one user and conversation; a proposal's address and action  *)
(* are its row; the timestamp of a transcript is whether a millisecond     *)
(* passed since the window opened; a claimed preview leaves the scope of   *)
(* this module (TransferAttempts).                                         *)
(***************************************************************************)
EXTENDS Integers, FiniteSets

CONSTANTS
  Calls,        \* concurrent tool calls and screen requests
  MaxRows,      \* proposal rows
  MaxPreviews,  \* persisted transfer previews
  MaxCalls      \* bound on the calls started

ASSUME VoiceAssumption ==
  /\ IsFiniteSet(Calls)
  /\ {MaxRows, MaxPreviews, MaxCalls} \subseteq Nat

Rows == 1..MaxRows
Previews == 1..MaxPreviews
Action(k, i) == [kind |-> k, id |-> i]
NoAction == Action("none", 0)
Contact(r) == Action("contact", r)
Transfer(p) == Action("transfer", p)
Actions == {Contact(r) : r \in Rows} \cup {Transfer(p) : p \in Previews}
Decisions == {"confirm", "cancel"}
Heard == Decisions \cup {"none"}

VARIABLES
  row,        \* contact_action_proposals
  saved,      \* how often the contact mutation of a row committed
  shown,      \* rows whose card was delivered
  attempt,    \* conversation_transfer_attempts.status of each preview
  arbiter,    \* the arbiter: its window, evidence, consumed id, stale flag
  gate,       \* the gate: active preview, evidence, consumed preview
  call,       \* the tool calls in flight
  said,       \* what the user last answered to each window, unused
  authorized, \* how often each action was authorized by voice
  started

vars == <<row, saved, shown, attempt, arbiter, gate, call, said, authorized, started>>

\* A row: its status, whether its expires_at is ahead, whether its card was published,
\* whether it names a .sns name, and the row it descends from.
NoRow == [status |-> "none", live |-> FALSE, published |-> FALSE, alias |-> FALSE, root |-> 0]
\* A call: its next step, what it was asked, the row or preview it is about, the window it
\* waits in, the answer it used, and whether it stages a .sns name.
IdleCall ==
  [pc |-> "idle", op |-> "stage", id |-> 0, win |-> NoAction, decision |-> "none", alias |-> FALSE]
NoArbiter ==
  [win |-> NoAction, fresh |-> FALSE, evidence |-> "none", consumed |-> NoAction, stale |-> FALSE]
NoGate == [id |-> 0, evidence |-> "none", consumed |-> 0]

Init ==
  /\ row = [r \in Rows |-> NoRow]
  /\ saved = [r \in Rows |-> 0]
  /\ shown = {}
  /\ attempt = [p \in Previews |-> "none"]
  /\ arbiter = NoArbiter
  /\ gate = NoGate
  /\ call = [c \in Calls |-> IdleCall]
  /\ said = [a \in Actions |-> "none"]
  /\ authorized = [a \in Actions |-> 0]
  /\ started = 0

-----------------------------------------------------------------------------
(* The arbiter                                                             *)

\* open() answers conflict while another action holds the window.
Opens(a, act) == a.win \in {NoAction, act}

Opened(a, act) ==
  [win |-> act, fresh |-> TRUE, evidence |-> "none", consumed |-> NoAction, stale |-> FALSE]

TryOpen(a, act) == IF Opens(a, act) THEN Opened(a, act) ELSE a

\* clear() and cancel(): the window closes, the consumed id is remembered.
Cleared(a, act) ==
  IF a.win = act
  THEN [a EXCEPT !.win = NoAction, !.fresh = FALSE, !.evidence = "none", !.stale = FALSE]
  ELSE a

\* same(): the window is the one asked about and was not consumed.
Same(a, act) == a.win = act /\ a.consumed # act
Consumes(a, act, d) == Same(a, act) /\ a.evidence = d
Consumed(a, act) == [a EXCEPT !.consumed = act, !.evidence = "none", !.stale = FALSE]

\* The only refusal waitAndConsume waits on.
NoEvidence(a, act, d) ==
  /\ Same(a, act)
  /\ a.evidence # d
  /\ ~(a.evidence = "none" /\ a.stale)

\* recordEvidence(), for a final transcript of the authenticated speaker.
Recorded(a, answer) ==
  IF a.fresh THEN [a EXCEPT !.stale = TRUE]
  ELSE IF a.consumed = NoAction /\ answer # "none" THEN [a EXCEPT !.evidence = answer]
  ELSE a

\* Every change of the arbiter or of the gate resolves the promises of the
\* calls that wait on it.
Woken(cs, pc, next) ==
  [c \in Calls |-> IF cs[c].pc = pc THEN [cs[c] EXCEPT !.pc = next] ELSE cs[c]]
WakeArbiter(cs, a) == IF a # arbiter THEN Woken(cs, "wait", "woken") ELSE cs
WakeGate(cs) == Woken(cs, "gateWait", "gateWoken")

\* A window that opens forgets what was said to an earlier one.
Forget(a) ==
  IF a.win # NoAction /\ a.fresh /\ a # arbiter
  THEN [said EXCEPT ![a.win] = "none"] ELSE said

\* The gate's copy of a cleared or replaced preview.
GateCleared(p) ==
  IF gate.id = p THEN [gate EXCEPT !.id = 0, !.evidence = "none"] ELSE gate

Done(cs, c) == [cs EXCEPT ![c] = IdleCall]
Goto(cs, c, pc) == [cs EXCEPT ![c].pc = pc]

-----------------------------------------------------------------------------
(* Speech and time                                                         *)

\* A millisecond passes: what is said from now on is after the window.
Millisecond ==
  /\ arbiter.fresh
  /\ arbiter' = [arbiter EXCEPT !.fresh = FALSE]
  /\ UNCHANGED <<row, saved, shown, attempt, gate, call, said, authorized, started>>

\* The preview the transcript is offered to when no contact window is open.
OfferedTo == IF arbiter.win = NoAction THEN gate.id ELSE arbiter.win.id

GateEligible ==
  /\ OfferedTo = gate.id
  /\ gate.consumed # gate.id
  /\ ~arbiter.fresh

HearForContact(answer) ==
  /\ arbiter.win.kind = "contact"
  /\ arbiter' = Recorded(arbiter, answer)
  /\ call' = WakeArbiter(call, Recorded(arbiter, answer))
  /\ UNCHANGED gate

HearForTransfer(answer) ==
  /\ arbiter.win.kind # "contact"
  /\ OfferedTo # 0 /\ GateEligible /\ answer # "none"
  /\ arbiter' = IF arbiter.win = NoAction THEN arbiter ELSE Recorded(arbiter, answer)
  /\ gate' = [gate EXCEPT !.evidence = answer]
  /\ call' = WakeGate(call)

\* A final transcript: an affirmative, a negative, or anything else.
Hear(answer) ==
  /\ HearForContact(answer) \/ HearForTransfer(answer)
  /\ said' = IF answer # "none" /\ arbiter.win # NoAction /\ ~arbiter.fresh
             THEN [said EXCEPT ![arbiter.win] = answer] ELSE said
  /\ UNCHANGED <<row, saved, shown, attempt, authorized, started>>

-----------------------------------------------------------------------------
(* The proposal rows                                                       *)

Open(r) == row[r].status = "open"
Live(r) == Open(r) /\ row[r].live

\* Mutant of Current: an open version counts before its card was delivered.
CurrentUnpublished(r) == Live(r)
\* readOpen(): the handle of the card the user can confirm.
Current(r) == Live(r) /\ row[r].published

NextRow == {r \in Rows : row[r].status = "none" /\ \A q \in Rows : q < r => row[q].status # "none"}

\* expires_at passes.
ProposalExpires(r) ==
  /\ Live(r)
  /\ row' = [row EXCEPT ![r].live = FALSE]
  /\ UNCHANGED <<saved, shown, attempt, arbiter, gate, call, said, authorized, started>>

Start(c, rec) ==
  /\ call[c].pc = "idle" /\ started < MaxCalls
  /\ started' = started + 1
  /\ call' = [call EXCEPT ![c] = rec]

\* stage_trusted_recipient and its siblings, once the name was resolved; the
\* refusals before this point touch nothing.
Stage(c) ==
  /\ \E alias \in BOOLEAN :
       Start(c, [IdleCall EXCEPT !.pc = "cleanup", !.op = "stage", !.alias = alias])
  /\ UNCHANGED <<row, saved, shown, attempt, arbiter, gate, said, authorized>>

\* supersedeUnpublished
Cleanup(c) ==
  /\ call[c].pc = "cleanup"
  /\ row' = [r \in Rows |-> IF Open(r) /\ ~row[r].published
                            THEN [row[r] EXCEPT !.status = "superseded"] ELSE row[r]]
  /\ call' = Goto(call, c, "insert")
  /\ UNCHANGED <<saved, shown, attempt, arbiter, gate, said, authorized, started>>

DeadExpired ==
  [r \in Rows |-> IF Open(r) /\ ~Live(r) THEN [row[r] EXCEPT !.status = "expired"] ELSE row[r]]

\* ContactActionService.stage: the dead window expires, the one-open index
\* refuses a second live one.
InsertProposal(c) ==
  /\ call[c].pc = "insert"
  /\ IF \E r \in Rows : Live(r)
     THEN row' = row /\ call' = Done(call, c)
     ELSE \E r \in NextRow :
            /\ row' = [DeadExpired
                         EXCEPT ![r] = [status |-> "open", live |-> TRUE, published |-> FALSE,
                                        alias |-> call[c].alias, root |-> r]]
            /\ call' = [call EXCEPT ![c].pc = "publish", ![c].id = r]
  /\ UNCHANGED <<saved, shown, attempt, arbiter, gate, said, authorized, started>>

\* The card is delivered, or the row stays unpublished.
Publish(c) ==
  /\ call[c].pc = "publish"
  /\ \/ shown' = shown \cup {call[c].id} /\ call' = Goto(call, c, "mark")
     \/ shown' = shown /\ call' = Done(call, c)
  /\ UNCHANGED <<row, saved, attempt, arbiter, gate, said, authorized, started>>

Stamped(r) == Live(r)

\* markPublished; the screen's route ends here, it has no arbiter.
MarkPublished(c) ==
  /\ call[c].pc = "mark"
  /\ IF Stamped(call[c].id)
     THEN /\ row' = [row EXCEPT ![call[c].id].published = TRUE]
          /\ call' = IF call[c].op = "paste" THEN Done(call, c) ELSE Goto(call, c, "open")
     ELSE row' = row /\ call' = Done(call, c)
  /\ UNCHANGED <<saved, shown, attempt, arbiter, gate, said, authorized, started>>

\* arbiter.open after the stamp; a conflict is only reported.
OpenWindow(c) ==
  /\ call[c].pc = "open"
  /\ arbiter' = TryOpen(arbiter, Contact(call[c].id))
  /\ said' = Forget(TryOpen(arbiter, Contact(call[c].id)))
  /\ call' = Done(WakeArbiter(call, TryOpen(arbiter, Contact(call[c].id))), c)
  /\ UNCHANGED <<row, saved, shown, attempt, gate, authorized, started>>

\* replaceAddress: the open version gives way to a new row of its lineage.
Replaced(r, q, alias) ==
  [row EXCEPT ![r].status = "superseded",
              ![q] = [row[r] EXCEPT !.published = FALSE, !.alias = alias]]

\* POST /v1/contact-actions/:id/address
Paste(c) ==
  /\ \E r \in Rows, q \in NextRow :
       /\ Live(r)
       /\ row' = Replaced(r, q, FALSE)
       /\ Start(c, [IdleCall EXCEPT !.pc = "publish", !.op = "paste", !.id = q])
  /\ UNCHANGED <<saved, shown, attempt, arbiter, gate, said, authorized>>

-----------------------------------------------------------------------------
(* confirm_trusted_recipient_action                                        *)

\* The window is read before the lookup is awaited.
ConfirmContact(c) ==
  /\ arbiter.win.kind # "transfer"
  /\ \E r \in Rows :
       /\ row[r].status # "none"
       /\ Start(c, [IdleCall EXCEPT !.pc = "lookup", !.op = "confirm", !.id = r,
                                    !.win = arbiter.win, !.decision = "confirm"])
  /\ UNCHANGED <<row, saved, shown, attempt, arbiter, gate, said, authorized>>

LookUp(c) ==
  /\ call[c].pc = "lookup"
  /\ call' = IF Current(call[c].id) THEN Goto(call, c, "align") ELSE Done(call, c)
  /\ UNCHANGED <<row, saved, shown, attempt, arbiter, gate, said, authorized, started>>

\* Mutant of Aligned: the window of another version is kept, evidence and all.
Unaligned(w, act) ==
  IF w = NoAction THEN TryOpen(arbiter, act)
  ELSE IF arbiter.win = w THEN [arbiter EXCEPT !.win = act] ELSE arbiter
\* The window is moved to the current version, and drops what it heard.
Aligned(w, act) ==
  IF w = act THEN arbiter
  ELSE TryOpen(IF w = NoAction THEN arbiter ELSE Cleared(arbiter, w), act)

\* One consume of the arbiter's waitAndConsume.
Consume(c, a, act, canWait) ==
  /\ arbiter' = IF Consumes(a, act, "confirm") THEN Consumed(a, act) ELSE a
  /\ authorized' =
       IF Consumes(a, act, "confirm") THEN [authorized EXCEPT ![act] = @ + 1] ELSE authorized
  /\ said' = IF Consumes(a, act, "confirm") THEN [said EXCEPT ![act] = "none"] ELSE Forget(a)
  /\ LET woken == WakeArbiter(call, arbiter')
     IN call' = IF Consumes(a, act, "confirm") THEN Goto(woken, c, "reverify")
                ELSE IF canWait /\ NoEvidence(a, act, "confirm") THEN Goto(woken, c, "wait")
                ELSE Done(woken, c)

Align(c) ==
  /\ call[c].pc = "align"
  /\ Consume(c, Aligned(call[c].win, Contact(call[c].id)), Contact(call[c].id), TRUE)
  /\ UNCHANGED <<row, saved, shown, attempt, gate, started>>

Awake(c) ==
  /\ call[c].pc = "woken"
  /\ Consume(c, arbiter, Contact(call[c].id), FALSE)
  /\ UNCHANGED <<row, saved, shown, attempt, gate, started>>

\* The bounded wait runs out, of either kind.
WaitEnds(c) ==
  /\ call[c].pc \in {"wait", "gateWait"}
  /\ call' = Done(call, c)
  /\ UNCHANGED <<row, saved, shown, attempt, arbiter, gate, said, authorized, started>>

\* createAliasReverifier: unchanged or unreachable goes on, a name that leads
\* nowhere refuses, another address supersedes the version.
Reverify(c) ==
  /\ call[c].pc = "reverify"
  /\ \/ call' = Goto(call, c, "apply")
     \/ row[call[c].id].alias /\ call' = Goto(call, c, "replace")
     \/ row[call[c].id].alias /\ call' = Done(call, c)
  /\ UNCHANGED <<row, saved, shown, attempt, arbiter, gate, said, authorized, started>>

ReplaceMoved(c) ==
  /\ call[c].pc = "replace"
  /\ IF Live(call[c].id)
     THEN \E q \in NextRow :
            /\ row' = Replaced(call[c].id, q, TRUE)
            /\ call' = [call EXCEPT ![c].pc = "clear", ![c].id = q, ![c].win = Contact(call[c].id)]
     ELSE row' = row /\ call' = Goto(call, c, "apply")
  /\ UNCHANGED <<saved, shown, attempt, arbiter, gate, said, authorized, started>>

\* The superseded version loses its window before the new card is sent.
ClearMoved(c) ==
  /\ call[c].pc = "clear"
  /\ arbiter' = Cleared(arbiter, call[c].win)
  /\ call' = Goto(WakeArbiter(call, Cleared(arbiter, call[c].win)), c, "publish")
  /\ UNCHANGED <<row, saved, shown, attempt, gate, said, authorized, started>>

\* Mutant of Consumable: the consume names the row but not its status.
ConsumableOnce(r) == row[r].status # "none" /\ row[r].live
Consumable(r) == Live(r)

\* consumeContactProposal: the mutation and the consume commit together; a
\* refused mutation leaves the card open and the window consumed.
Apply(c) ==
  /\ call[c].pc = "apply"
  /\ \/ /\ Consumable(call[c].id)
        /\ row' = [row EXCEPT ![call[c].id].status = "consumed"]
        /\ saved' = [saved EXCEPT ![call[c].id] = @ + 1]
        /\ call' = Goto(call, c, "applied")
     \/ /\ call' = Done(call, c)
        /\ UNCHANGED <<row, saved>>
  /\ UNCHANGED <<shown, attempt, arbiter, gate, said, authorized, started>>

Applied(c) ==
  /\ call[c].pc = "applied"
  /\ arbiter' = Cleared(arbiter, Contact(call[c].id))
  /\ call' = Done(WakeArbiter(call, Cleared(arbiter, Contact(call[c].id))), c)
  /\ UNCHANGED <<row, saved, shown, attempt, gate, said, authorized, started>>

-----------------------------------------------------------------------------
(* send_token, confirm_transfer and cancel_transfer                        *)

Pending == {p \in Previews : attempt[p] = "previewed"}

\* The service persists the preview; the one before it is cancelled.
Preview(c) ==
  /\ \E p \in Previews :
       /\ attempt[p] = "none" /\ \A q \in Previews : q < p => attempt[q] # "none"
       /\ attempt' = [q \in Previews |->
                        IF q = p THEN "previewed"
                        ELSE IF q \in Pending THEN "cancelled" ELSE attempt[q]]
       /\ Start(c, [IdleCall EXCEPT !.pc = "reread", !.op = "preview", !.id = p])
  /\ UNCHANGED <<row, saved, shown, arbiter, gate, said, authorized>>

\* gate.clear: the arbiter's window goes with the preview.
ClearPreview(c, p) ==
  /\ arbiter' = Cleared(arbiter, Transfer(p))
  /\ gate' = GateCleared(p)
  /\ LET woken == WakeArbiter(call, Cleared(arbiter, Transfer(p)))
     IN call' = Done(IF gate.id = p THEN WakeGate(woken) ELSE woken, c)

\* The preview read back may be another call's with the same amount.
RereadPreview(c) ==
  /\ call[c].pc = "reread"
  /\ \/ \E p \in Pending : call' = [call EXCEPT ![c].pc = "prepare", ![c].id = p]
                           /\ UNCHANGED <<arbiter, gate>>
     \/ \E p \in Pending \ {call[c].id} : ClearPreview(c, p)
     \/ Pending = {} /\ call' = Done(call, c) /\ UNCHANGED <<arbiter, gate>>
  /\ UNCHANGED <<row, saved, shown, attempt, said, authorized, started>>

\* prepare() first gives up the window of the preview it replaces.
Released(p) ==
  IF arbiter.win.kind = "transfer" /\ arbiter.win.id # p
  THEN Cleared(arbiter, arbiter.win) ELSE arbiter

\* Mutant of Prepared: the gate keeps the evidence of the preview before.
PreparedDirty(p) ==
  [id |-> p, evidence |-> gate.evidence, consumed |-> IF gate.consumed = p THEN p ELSE 0]
Prepared(p) ==
  [id |-> p, evidence |-> "none", consumed |-> IF gate.consumed = p THEN p ELSE 0]

\* After the recipient was read again: prepare(previewId), or clear.
PreparePreview(c) ==
  /\ call[c].pc = "prepare"
  /\ LET p == call[c].id
         a == TryOpen(Released(p), Transfer(p))
     IN \/ /\ ClearPreview(c, p)
           /\ UNCHANGED said
        \/ /\ arbiter' = a
           /\ said' = Forget(a)
           /\ IF Opens(Released(p), Transfer(p))
              THEN /\ gate' = Prepared(p)
                   /\ call' = Done(WakeGate(WakeArbiter(call, a)), c)
              ELSE gate' = gate /\ call' = Done(WakeArbiter(call, a), c)
  /\ UNCHANGED <<row, saved, shown, attempt, authorized, started>>

\* decideTransfer reads the persisted preview.
Decide(c) ==
  /\ \E p \in Pending, d \in Decisions :
       Start(c, [IdleCall EXCEPT !.pc = "gate", !.op = "decide", !.id = p, !.decision = d])
  /\ UNCHANGED <<row, saved, shown, attempt, arbiter, gate, said, authorized>>

Accepts(p, d) == gate.id = p /\ gate.consumed # p /\ gate.evidence = d

ArbiterAccepts(p, d) == Consumes(arbiter, Transfer(p), d)

CanWaitFor(p) == gate.id = p /\ gate.evidence = "none" /\ gate.consumed # p

\* gate.consume: the arbiter is asked even when the gate refuses.
GateConsume(c, canWait) ==
  LET p == call[c].id
      d == call[c].decision
      both == Accepts(p, d) /\ ArbiterAccepts(p, d)
      a == IF ~ArbiterAccepts(p, d) THEN arbiter
           ELSE IF both THEN Cleared(Consumed(arbiter, Transfer(p)), Transfer(p))
           ELSE Consumed(arbiter, Transfer(p))
      woken == WakeArbiter(call, a)
  IN /\ arbiter' = a
     /\ IF both
        THEN /\ gate' = [gate EXCEPT !.evidence = "none", !.consumed = p]
             /\ authorized' = [authorized EXCEPT ![Transfer(p)] = @ + 1]
             /\ said' = [said EXCEPT ![Transfer(p)] = "none"]
             /\ call' = Goto(WakeGate(woken), c, "resolve")
        ELSE /\ call' = IF canWait /\ CanWaitFor(p) THEN Goto(woken, c, "gateWait")
                        ELSE Done(woken, c)
             /\ UNCHANGED <<gate, authorized, said>>

AskGate(c) ==
  /\ call[c].pc = "gate"
  /\ GateConsume(c, TRUE)
  /\ UNCHANGED <<row, saved, shown, attempt, started>>

GateAwake(c) ==
  /\ call[c].pc = "gateWoken"
  /\ GateConsume(c, FALSE)
  /\ UNCHANGED <<row, saved, shown, attempt, started>>

\* resolveDecision: the claim of the attempt arbitrates with the screen.
ResolveDecision(c) ==
  /\ call[c].pc = "resolve"
  /\ attempt' = IF call[c].id \in Pending
                THEN [attempt EXCEPT ![call[c].id] =
                        IF call[c].decision = "confirm" THEN "voice" ELSE "cancelled"]
                ELSE attempt
  /\ call' = Done(call, c)
  /\ UNCHANGED <<row, saved, shown, arbiter, gate, said, authorized, started>>

\* The buttons of the screen decide the same preview in another process.
TouchDecision ==
  /\ \E p \in Pending, s \in {"touch", "cancelled"} : attempt' = [attempt EXCEPT ![p] = s]
  /\ UNCHANGED <<row, saved, shown, arbiter, gate, call, said, authorized, started>>

\* The job of the session ends; a new one starts with no window. Requests of
\* the screen run in another process and go on.
SessionEnds ==
  /\ arbiter' = NoArbiter
  /\ gate' = NoGate
  /\ call' = [c \in Calls |-> IF call[c].op = "paste" THEN call[c] ELSE IdleCall]
  /\ said' = [a \in Actions |-> "none"]
  /\ UNCHANGED <<row, saved, shown, attempt, authorized, started>>

-----------------------------------------------------------------------------

ContactStep(c) ==
  \/ Stage(c) \/ Cleanup(c) \/ InsertProposal(c) \/ Publish(c) \/ MarkPublished(c)
  \/ OpenWindow(c) \/ Paste(c)
  \/ ConfirmContact(c) \/ LookUp(c) \/ Align(c) \/ Awake(c) \/ WaitEnds(c)
  \/ Reverify(c) \/ ReplaceMoved(c) \/ ClearMoved(c) \/ Apply(c) \/ Applied(c)

TransferStep(c) ==
  \/ Preview(c) \/ RereadPreview(c) \/ PreparePreview(c)
  \/ Decide(c) \/ AskGate(c) \/ GateAwake(c) \/ ResolveDecision(c)

Next ==
  \/ \E c \in Calls : ContactStep(c) \/ TransferStep(c)
  \/ \E answer \in Heard : Hear(answer)
  \/ \E r \in Rows : ProposalExpires(r)
  \/ Millisecond \/ TouchDecision \/ SessionEnds

Spec == Init /\ [][Next]_vars

-----------------------------------------------------------------------------
(* Properties                                                              *)

\* The gate and the arbiter hold two copies of one decision. While a transfer
\* window is open they name the same preview and heard the same answer, so a
\* consume that one accepts and the other refuses cannot happen.
GateAgreesWithArbiter ==
  arbiter.win.kind = "transfer" =>
    /\ gate.id = arbiter.win.id
    /\ gate.evidence = arbiter.evidence

\* A contact window is only ever open for a version that was delivered to the
\* screen and stamped as published while it could still be confirmed.
WindowHasCard ==
  arbiter.win.kind = "contact" =>
    arbiter.win.id \in shown /\ row[arbiter.win.id].published

\* Whatever was pasted, re-resolved, retried or confirmed twice, at most one
\* version of a proposal is applied, once, and it is the one that was shown
\* and that a spoken affirmative authorized.
OneVersionApplied ==
  \A r \in Rows : saved[r] > 0 =>
    /\ saved[r] = 1
    /\ r \in shown
    /\ authorized[Contact(r)] > 0
    /\ \A q \in Rows : q # r /\ row[q].root = row[r].root => saved[q] = 0

\* An action is decided only as the last answer the user gave to its own
\* window since that window opened, and an answer decides once: an answer to
\* another window, to an earlier opening, or already used, decides nothing.
DecidedBySpeech ==
  [][\A a \in Actions : authorized'[a] # authorized[a] =>
       \E c \in Calls :
         /\ call'[c].pc \in {"reverify", "resolve"} /\ call'[c] # call[c]
         /\ said[a] = call[c].decision /\ said'[a] = "none"]_vars

-----------------------------------------------------------------------------
(* Said by the documents and refuted by the model: see the README          *)

\* "the card is still open and the user can act on the sentence": a live,
\* published proposal without a name to re-verify, whose window is open, can
\* still be confirmed, unless a call is using the answer right now.
OpenCardConfirmable ==
  \A r \in Rows :
    (/\ Current(r) /\ ~row[r].alias
     /\ arbiter.win = Contact(r) /\ arbiter.consumed = Contact(r))
    => \E c \in Calls : call[c].pc \in {"reverify", "replace", "apply"} /\ call[c].id = r
=============================================================================
