-------------------------- MODULE AssistantTurns ---------------------------
(***************************************************************************)
(* Text turns and voice previews of one conversation over the contacts of  *)
(* ContactBook: the snapshot a turn reads, the tools the model may call on *)
(* it (search, preview, reveal, stage a memory draft), the snapshot it     *)
(* writes back, and the confirmation that checks the previewed contact     *)
(* again before it pays.                                                   *)
(*                                                                         *)
(* The model and the retrieval behind it are nondeterministic: a search    *)
(* may resolve any active contact, ask, or find nothing, and a preview may *)
(* name any contact at any version.  Claims, crashes, the broadcast and    *)
(* its outcomes and grants are in TransferAttempts; here a claimed preview *)
(* is paid.                                                                *)
(* Language, progress and context renewal are left out: they change no     *)
(* field that these steps read.  So is the pending interpretation: a turn  *)
(* it takes for itself changes nothing here.                               *)
(***************************************************************************)
EXTENDS ContactBook

CONSTANTS
  Turns,     \* turns that may overlap
  MaxTools   \* bound: tool calls of a turn

ASSUME TurnsAssumption == MaxTools \in Nat

VARIABLES
  conv,   \* conversation_state and the active transfer attempt
  turn,   \* the turns being handled
  paid    \* the transfers paid

vars == <<bookVars, conv, turn, paid>>
turnVars == <<registry, moves, past, intents, page, request>>

NoMemory == [selected |-> None, required |-> FALSE, previewed |-> None,
             write |-> None, used |-> {}]
NoConv == [mem |-> NoMemory, pending |-> None]
NoTurn == [pc |-> "idle", id |-> 0, session |-> NoConv, tools |-> 0,
           out |-> None, fresh |-> TRUE]

Init ==
  /\ BookInit
  /\ conv = NoConv
  /\ turn = [t \in Turns |-> NoTurn]
  /\ paid = {}

-----------------------------------------------------------------------------
(* The session a turn works on                                             *)

Mem(t) == turn[t].session.mem
Pending(t) == turn[t].session.pending

At(t, pc) == turn[t].pc = pc
Goto(t, pc) == turn' = [turn EXCEPT ![t].pc = pc]
End(t) == turn' = [turn EXCEPT ![t] = NoTurn]

\* A preview names its contact, or no contact at all.
StillReviewed(p) ==
  (p # None /\ p.pin # None) =>
    (CurrentVersion(p.pin[1], p.pin[2]) /\ book[p.pin[1]].address = p.to)

\* Mutant of Cleared: a new search keeps what was previewed.
ClearedKeepsPreviewed(mem) == [mem EXCEPT !.selected = None, !.required = FALSE]

Cleared(mem) == [mem EXCEPT !.selected = None, !.required = FALSE, !.previewed = None]

\* handleMessage before any tool: a pending transfer is answered, a "yes" goes to
\* the memory draft if there is one, a name is searched.
Handled(text) ==
  CASE conv.pending # None -> "save"
    [] conv.pending = None /\ text = "yes" ->
         IF conv.mem.write # None THEN "write" ELSE "save"
    [] conv.pending = None /\ text = "name" -> "search"
    [] OTHER -> "tools"

\* Where handleTurnStream goes with the row it reads and a text: the decision
\* on a pending transfer, or the row read once more for a text that looks like a
\* transfer, or handleMessage.
Branch(text) ==
  CASE conv.pending # None /\ text = "yes" -> "claim"
    [] conv.pending # None /\ text = "no"  -> "cancel"
    [] text = "transfer" -> "progress"
    [] OTHER -> Handled(text)

\* fresh remembers, of a confirmation, whether the contact of the preview was
\* still the one reviewed when the user said yes.
BeginTurn(t, text) ==
  /\ At(t, "idle")
  /\ UserActs
  /\ turn' = [turn EXCEPT ![t] = [NoTurn EXCEPT !.session = conv, !.id = inputs',
       !.pc = Branch(text), !.fresh = (Branch(text) = "claim") => StillReviewed(conv.pending)]]
  /\ UNCHANGED <<turnVars, book, conv, paid>>

\* The transfer names its recipient, or gives an address, which is the whole
\* identity of the recipient: the selection there was is dropped.
SetProgress(t) ==
  /\ At(t, "progress")
  /\ \/ turn' = [turn EXCEPT ![t].session = conv, ![t].pc = Handled("name")]
     \/ turn' = [turn EXCEPT ![t].session = IF conv.pending = None
                                           THEN [conv EXCEPT !.mem = Cleared(@)] ELSE conv,
                            ![t].pc = Handled("address")]
  /\ UNCHANGED <<turnVars, book, inputs, conv, paid>>

\* confirmMemoryWrite and write_user_memory: the draft becomes a contact, and
\* its confirmation is used.  A draft that expired, or whose write fails, is used
\* up as well.
Consumed(mem) == [mem EXCEPT !.write = None, !.used = @ \cup {mem.write.id}]

WriteMemory(t) ==
  /\ At(t, "write")
  /\ \/ /\ Mem(t).write.id \in Mem(t).used
        /\ Goto(t, "save")
        /\ UNCHANGED <<book, past>>
     \/ /\ Mem(t).write.id \notin Mem(t).used
        /\ \/ InsertContact(Row(Mem(t).write.address, NoClaim))
           \/ UNCHANGED <<book, past>>
        /\ turn' = [turn EXCEPT ![t].pc = "save", ![t].session.mem = Consumed(@)]
  /\ UNCHANGED <<registry, moves, intents, page, request, inputs, conv, paid>>

-----------------------------------------------------------------------------
(* Tools                                                                   *)

SetMem(t, pc, mem, out) ==
  turn' = [turn EXCEPT ![t] =
    [pc |-> pc, id |-> @.id, session |-> [mem |-> mem, pending |-> @.session.pending],
     tools |-> @.tools + 1, out |-> out, fresh |-> @.fresh]]

Selected(mem, c) ==
  [mem EXCEPT !.selected = <<c, book[c].version>>, !.required = TRUE, !.previewed = None]

Invalidated(mem) == [mem EXCEPT !.selected = None, !.previewed = None, !.required = TRUE]

Clarified(mem) == [mem EXCEPT !.selected = None, !.previewed = None]

\* resolveTransferRecipient: a pronoun keeps the selection, a name is searched,
\* and a reference that is not resolved ends the turn.
ResolveReference(t) ==
  /\ At(t, "search")
  /\ \/ \E c \in Contacts :
          Active(c) /\ SetMem(t, "tools", Selected(Cleared(Mem(t)), c), None)
     \/ /\ Mem(t).selected # None
        /\ SetMem(t, "tools", [Mem(t) EXCEPT !.required = TRUE, !.previewed = None], None)
     \/ SetMem(t, "save", Clarified(Mem(t)), None)
     \/ SetMem(t, "save", Cleared(Mem(t)), None)
  /\ UNCHANGED <<turnVars, book, inputs, conv, paid>>

\* search_recipients: the old selection goes before the search, the result may
\* set a new one.
Search(t) ==
  /\ At(t, "tools") /\ turn[t].tools < MaxTools
  /\ \/ \E c \in Contacts :
          Active(c) /\ SetMem(t, "tools", Selected(Cleared(Mem(t)), c), turn[t].out)
     \/ SetMem(t, "tools", Cleared(Mem(t)), turn[t].out)
  /\ UNCHANGED <<turnVars, book, inputs, conv, paid>>

Usable(t, c, v) ==
  /\ ~(Mem(t).required /\ Mem(t).selected = None)
  /\ CurrentVersion(c, v)
  /\ Mem(t).selected \in {None, <<c, v>>}

\* resolvePreviewRecipient: a preview of a contact at a version.  It is pinned
\* to the contact only when one is selected.
Previewed(mem, c, v) ==
  IF mem.selected = None THEN mem ELSE [mem EXCEPT !.previewed = <<c, v>>]

Preview(t, c, v) ==
  /\ At(t, "tools") /\ turn[t].tools < MaxTools
  /\ IF Usable(t, c, v)
     THEN \/ SetMem(t, "tools", Previewed(Mem(t), c, v), [to |-> book[c].address])
          \/ SetMem(t, "tools", Previewed(Mem(t), c, v), None)  \* the wallet refuses
     ELSE SetMem(t, "tools",
            IF Mem(t).required /\ Mem(t).selected = None THEN Mem(t) ELSE Invalidated(Mem(t)),
            None)
  /\ UNCHANGED <<turnVars, book, inputs, conv, paid>>

\* The internal form of send_token, with an address in place of a contact.
PreviewAddress(t, a) ==
  /\ At(t, "tools") /\ turn[t].tools < MaxTools
  /\ LET s == Mem(t).selected IN
       \/ /\ s # None
          /\ IF CurrentVersion(s[1], s[2]) /\ book[s[1]].address = a
             THEN SetMem(t, "tools", [Mem(t) EXCEPT !.previewed = s], [to |-> a])
             ELSE SetMem(t, "tools", Invalidated(Mem(t)), None)
       \/ /\ s = None
          /\ IF Mem(t).required THEN SetMem(t, "tools", Mem(t), None)
             ELSE SetMem(t, "tools", [Mem(t) EXCEPT !.previewed = None], [to |-> a])
  /\ UNCHANGED <<turnVars, book, inputs, conv, paid>>

\* get_selected_recipient_address drops a selection that is stale.
Reveal(t) ==
  /\ At(t, "tools") /\ turn[t].tools < MaxTools
  /\ LET s == Mem(t).selected IN
       /\ s # None /\ ~CurrentVersion(s[1], s[2])
       /\ SetMem(t, "tools", Invalidated(Mem(t)), turn[t].out)
  /\ UNCHANGED <<turnVars, book, inputs, conv, paid>>

\* stage_user_memory: the draft of a contact, shown to the user.
Stage(t, a) ==
  /\ At(t, "tools") /\ turn[t].tools < MaxTools
  /\ SetMem(t, "tools", [Mem(t) EXCEPT !.write = [id |-> turn[t].id, address |-> a]], turn[t].out)
  /\ UNCHANGED <<turnVars, book, inputs, conv, paid>>

\* The answer of the last preview becomes the pending transfer.
Answered(t) ==
  /\ At(t, "tools")
  /\ turn' = [turn EXCEPT ![t].pc = "save", ![t].tools = 0, ![t].out = None,
       ![t].session.pending = IF turn[t].out = None THEN None
         ELSE [to |-> turn[t].out.to, pin |-> Mem(t).previewed, status |-> "previewed", id |-> 0]]
  /\ UNCHANGED <<turnVars, book, inputs, conv, paid>>

-----------------------------------------------------------------------------
(* Writing back, and deciding                                              *)

\* The unique index allows one active attempt; previewed ones are cancelled
\* before the insert, in the same transaction.
Blocked == conv.pending # None /\ conv.pending.status = "broadcasting"

\* saveSnapshot: the whole session is written, whatever the row is by now, and
\* a transfer in it becomes a new attempt.
SaveSnapshot(t) ==
  /\ At(t, "save")
  /\ conv' = CASE Pending(t) = None ->
                    [turn[t].session EXCEPT !.pending = IF Blocked THEN conv.pending ELSE None]
               [] Pending(t) # None /\ ~Blocked ->
                    [turn[t].session EXCEPT !.pending.id = turn[t].id]
               [] OTHER -> conv
  /\ End(t)
  /\ UNCHANGED <<turnVars, book, inputs, paid>>

\* The agent or the wallet throws: nothing of the session is written.
TurnFails(t) ==
  /\ turn[t].pc \in {"tools", "search", "save"}
  /\ End(t)
  /\ UNCHANGED <<turnVars, book, inputs, conv, paid>>

\* The voice's previewTransfer: the contact at its version, a quote of the
\* wallet, and then the attempt; the rest of the row is left alone.
VoicePreview(t, c, v) ==
  /\ At(t, "idle")
  /\ UserActs
  /\ CurrentVersion(c, v)
  /\ turn' = [turn EXCEPT ![t] = [NoTurn EXCEPT !.pc = "quote", !.session.pending =
       [to |-> book[c].address, pin |-> <<c, v>>, status |-> "previewed", id |-> inputs']]]
  /\ UNCHANGED <<turnVars, book, conv, paid>>

SetPendingTransfer(t) ==
  /\ At(t, "quote")
  /\ conv' = IF Blocked THEN conv ELSE [conv EXCEPT !.pending = Pending(t)]
  /\ End(t)
  /\ UNCHANGED <<turnVars, book, inputs, paid>>

Decidable(t) ==
  /\ conv.pending # None
  /\ conv.pending.id = Pending(t).id
  /\ conv.pending.status = "previewed"

CancelPendingTransfer(t) ==
  /\ At(t, "cancel")
  /\ conv' = IF Decidable(t) THEN [conv EXCEPT !.pending = None] ELSE conv
  /\ End(t)
  /\ UNCHANGED <<turnVars, book, inputs, paid>>

ClaimPendingTransfer(t) ==
  /\ At(t, "claim")
  /\ IF Decidable(t)
     THEN /\ conv' = [conv EXCEPT !.pending.status = "broadcasting"]
          /\ Goto(t, "check")
     ELSE End(t) /\ UNCHANGED conv
  /\ UNCHANGED <<turnVars, book, inputs, paid>>

\* Mutant of ClaimedRecipientValid: only that the contact still exists.
ClaimedRecipientExists(p) == p.pin # None => Active(p.pin[1])

\* isClaimedRecipientValid: a preview without a contact has nothing to check.
ClaimedRecipientValid(p) == StillReviewed(p)

CheckRecipient(t) ==
  /\ At(t, "check")
  /\ IF ClaimedRecipientValid(Pending(t))
     THEN Goto(t, "pay") /\ UNCHANGED conv
     ELSE End(t) /\ conv' = [conv EXCEPT !.pending = None]
  /\ UNCHANGED <<turnVars, book, inputs, paid>>

Pay(t) ==
  /\ At(t, "pay")
  /\ paid' = paid \cup {[to |-> Pending(t).to, pin |-> Pending(t).pin, fresh |-> turn[t].fresh]}
  /\ conv' = [conv EXCEPT !.pending = None]
  /\ End(t)
  /\ UNCHANGED <<turnVars, book, inputs>>

Texts == {"yes", "no", "transfer", "other"}

TurnNext ==
  \E t \in Turns :
    \/ \E x \in Texts : BeginTurn(t, x)
    \/ SetProgress(t) \/ WriteMemory(t)
    \/ ResolveReference(t) \/ Search(t) \/ Reveal(t) \/ Answered(t) \/ SaveSnapshot(t) \/ TurnFails(t)
    \/ \E a \in Addresses : PreviewAddress(t, a) \/ Stage(t, a)
    \/ \E c \in Contacts : \E v \in 1..book[c].version : Preview(t, c, v) \/ VoicePreview(t, c, v)
    \/ SetPendingTransfer(t) \/ CancelPendingTransfer(t) \/ ClaimPendingTransfer(t)
    \/ CheckRecipient(t) \/ Pay(t)

Next == TurnNext \/ (BookNext /\ UNCHANGED <<conv, turn, paid>>)

Spec == Init /\ [][Next]_vars

-----------------------------------------------------------------------------
(* What must hold                                                          *)

\* A preview that names a contact at a version sends to the address that contact
\* had at that version, whichever tools the model called, in whichever turns,
\* and whichever turn wrote its session last.
PinTellsTheAddress ==
  \A p \in {conv.pending} \cup {turn[t].session.pending : t \in Turns} :
    (p # None /\ p.pin # None) => AddressAt(p.pin[1], p.pin[2]) = p.to

\* A preview that names a contact is paid only if that contact was, when the
\* user said yes, still active at the version and the address of the preview.
ConfirmedPaysTheReviewedContact ==
  \A p \in paid : p.pin # None => p.fresh

\* No contact takes an address behind the back of who asked for it: it is the one
\* the request carried (typed, or answered to the search of that very name), or
\* that of a draft of an earlier turn; a name that moved in between is refused and
\* never saved with what it leads to now.
SavesWhatWasSent == [][
  \A c \in Contacts' :
    (c \notin Contacts \/ book'[c].address # book[c].address) =>
      \/ \E q \in Requests : /\ request[q].pc # "done" /\ request'[q].pc = "done"
                             /\ request[q].address = book'[c].address
                             /\ book'[c].alias.name \in {None, request[q].name}
      \/ \E t \in Turns : /\ At(t, "write")
                          /\ Mem(t).write.address = book'[c].address ]_vars

-----------------------------------------------------------------------------
(* Said by a comment and refuted by the model: see the README              *)

\* AddTrustedRecipient.tsx:405: "lo que se guarda tiene que ser lo que el usuario
\* esta viendo ahora" (what is saved has to be what the user is seeing now): every
\* address a contact takes was shown where the user asked for it, on the screen
\* whose button was pressed or in a draft of an earlier turn.
DestinationsWereShown == [][
  \A c \in Contacts' :
    (c \notin Contacts \/ book'[c].address # book[c].address) =>
      \/ \E q \in Requests : /\ request[q].pc # "done" /\ request'[q].pc = "done"
                             /\ request[q].shown = book'[c].address
      \/ \E t \in Turns : /\ At(t, "write")
                          /\ Mem(t).write.address = book'[c].address ]_vars
=============================================================================
