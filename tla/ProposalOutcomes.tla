-------------------------- MODULE ProposalOutcomes --------------------------
(***************************************************************************)
(* What a proposal of the conversation comes to when it is confirmed, and  *)
(* what the user is told of it.  VoiceActions has the windows and the one  *)
(* use of a proposal; here one confirmation goes through the mutation it   *)
(* stands for, under whatever the wallet, the contact and the composition  *)
(* are by then, and its answer is compared with what was written.          *)
(***************************************************************************)
EXTENDS Integers, FiniteSets

Actions == {"create", "edit", "remove"}

-----------------------------------------------------------------------------
(* Staging                                                                 *)

\* What the conversation's tools supply: an action, whether a contact was selected, and
\* whether a name was resolved for it.  An edit carries the contact and nothing to edit.
Requests == {q \in [action : Actions, contact : BOOLEAN, alias : BOOLEAN, named : BOOLEAN,
                    bound : BOOLEAN] :
               /\ q.alias => q.action = "create"
               /\ q.action = "create" => q.named /\ ~q.contact
               /\ q.action # "create" => q.contact}

\* stage of the port: the refusals before anything is written.
StageRefused(q) == (q.action = "create" /\ ~q.alias) \/ ~q.bound

\* The row: what the review channel may still supply is an address.  No tool and no route
\* gives stage the grants that a removal will revoke.
Row(q) == [action |-> q.action, contact |-> q.contact, address |-> q.alias, named |-> q.named,
           source |-> IF q.alias THEN "sns" ELSE "review_required", disclosed |-> {}]
Staged == {Row(q) : q \in {q \in Requests : ~StageRefused(q)}}
ReplaceAddress(row) == [row EXCEPT !.address = TRUE, !.source = "pasted"]
Rows == Staged \cup {ReplaceAddress(row) : row \in Staged}

\* contactActionRevocationDisclosure: what the card says of the grants.
CardDiscloses(row) == row.disclosed # {}

-----------------------------------------------------------------------------
(* The mutation                                                            *)

\* proposalMutationBody: a row that describes no mutation is refused by its shape.
ShapeCode(row) ==
  IF row.action # "create" THEN IF row.contact THEN "none" ELSE "PROPUESTA_SIN_CONTACTO"
  ELSE IF ~row.address THEN "PROPUESTA_SIN_DIRECCION"
  ELSE IF ~row.named THEN "PROPUESTA_SIN_NOMBRE" ELSE "none"

\* What the mutation meets: a ready wallet or none, its lease, the contact as it is now,
\* the grants that reach its address alone, what composing the new set comes to, the
\* proposal's own update, and what composing comes to again when the revision is applied:
\* a grant takes no lease and may have become active since.
World == [wallet : BOOLEAN, lease : BOOLEAN, own : BOOLEAN,
          contact : {"same", "moved", "gone"}, grants : SUBSET {"g"},
          composes : {"composed", "refused"}, open : BOOLEAN, again : {"composed", "refused"}]

Reaches(row) == row.action = "remove" \/ (row.action = "edit" /\ row.address)
Writes(row) == row.action # "remove" /\ row.address

\* What the mutation is refused for before it composes, in the order of the code; an edit
\* without a name, a description or an address is not a mutation.
RefusalBefore(row, w) ==
  IF row.action = "edit" /\ ~row.address THEN "DATOS_INVALIDOS"
  ELSE IF row.action = "remove" /\ w.contact = "gone" THEN "CONTACTO_NO_ENCONTRADO"
  ELSE IF w.wallet /\ Writes(row) /\ w.own THEN "DIRECCION_PROPIA"
  ELSE IF w.wallet /\ ~w.lease THEN "CONFLICTO_POLITICA"
  ELSE IF row.action = "edit" /\ w.wallet /\ w.contact = "gone"
    THEN "CONTACTO_NO_ENCONTRADO"
  ELSE IF w.wallet /\ Reaches(row) /\ w.grants # row.disclosed THEN "CONFLICTO_POLITICA"
  ELSE IF row.action # "create" /\ w.contact = "moved" THEN "VERSION_OBSOLETA"
  ELSE IF row.action # "create" /\ w.contact = "gone" THEN "CONTACTO_NO_ENCONTRADO"
  ELSE "none"

Answer(status, code, saved, consumed) ==
  [status |-> status, code |-> code, saved |-> saved, consumed |-> consumed]

\* consumeContactProposal: a refused composition commits what was written before it and never
\* reaches the proposal's own update; one at the apply comes after everything was committed;
\* every other refusal rolls everything back.
Apply(row, w) ==
  LET shape == ShapeCode(row)
      before == RefusalBefore(row, w)
  IN  IF ~w.open THEN Answer("not_consumable", "none", FALSE, FALSE)
      ELSE IF shape # "none" THEN Answer("refused", shape, FALSE, FALSE)
      ELSE IF before # "none" THEN Answer("refused", before, FALSE, FALSE)
      ELSE IF w.wallet /\ w.composes = "refused"
        THEN Answer("refused", "CONFLICTO_POLITICA", TRUE, FALSE)
      ELSE IF w.wallet /\ w.again = "refused"
        THEN Answer("refused", "CONFLICTO_POLITICA", TRUE, TRUE)
      ELSE Answer("applied", "none", TRUE, TRUE)

-----------------------------------------------------------------------------
(* The permission, and the sentences                                       *)

Statuses == {"saved_not_configured", "pending", "syncing", "applied", "retryable_failure",
             "blocked_conflict", "blocked_configuration"}
States == [status : Statuses, verified : BOOLEAN, desired : 1..2, applied : 0..2]
Moving == {"pending", "syncing"}

\* projectContactPermission.
Permission(s) ==
  IF s.status = "applied" /\ (~s.verified \/ s.applied # s.desired) THEN "pending" ELSE s.status

\* projectRevocationDisclosure of a removal.
Revocation(s) ==
  IF Permission(s) \in {"applied", "retryable_failure"} THEN Permission(s) ELSE "pending"

\* appliedProposalMessage, by what it says.
Says(action, permission) ==
  IF permission = "applied" THEN "in force"
  ELSE IF action = "remove" THEN "being applied"
  ELSE IF permission = "saved_not_configured" THEN "not ready"
  ELSE IF permission \in {"blocked_conflict", "blocked_configuration"} THEN "blocked"
  ELSE IF permission = "retryable_failure" THEN "retried"
  ELSE "being applied"

\* proposalRefusalMessage: the codes with a sentence of their own, and what each says.
Sentences == [code \in {"PROPUESTA_SIN_DIRECCION", "PROPUESTA_SIN_NOMBRE", "PROPUESTA_SIN_CONTACTO",
                        "VERSION_OBSOLETA", "CONTACTO_NO_ENCONTRADO", "DIRECCION_PROPIA"} |->
                IF code \in {"VERSION_OBSOLETA", "CONTACTO_NO_ENCONTRADO"} THEN "touched nothing"
                ELSE "enabled nothing"]
RefusalSays(code) == IF code \in DOMAIN Sentences THEN Sentences[code] ELSE "saved nothing"

-----------------------------------------------------------------------------
(* Claims, evaluated over every proposal and whatever it meets             *)

\* A proposal is consumed with its mutation or not at all: nothing is consumed that was not
\* saved, nothing is called applied that was not consumed, and what was saved under a
\* proposal that stays open is a refused composition's.
ConsumedIsSaved ==
  \A row \in Rows, w \in World :
    LET a == Apply(row, w)
    IN  /\ a.consumed => a.saved
        /\ a.status = "applied" => a.consumed
        /\ a.saved /\ ~a.consumed => w.wallet /\ w.composes = "refused"

\* That a recipient is enabled, or its removal in force, is only said of a revision that was
\* read back and is the one desired; a revocation is called applied under the same condition.
EnabledIsVerified ==
  \A s \in States, action \in Actions :
    (Says(action, Permission(s)) = "in force" \/ Revocation(s) = "applied") =>
      s.status = "applied" /\ s.verified /\ s.applied = s.desired

\* A row that stage wrote is never refused for its shape, with or without its address
\* replaced; yet an edit is refused all the same unless its address is, since the tool that
\* stages it takes no name and no description.
StagedIsShaped == \A row \in Rows : ShapeCode(row) = "none"
EditsNothing ==
  \A row \in Staged, w \in World : row.action = "edit" => Apply(row, w).status # "applied"

\* Not so: a refusal touched nothing.  A composition that is refused has committed the
\* contact, or its removal and the revocations, while the user is told nothing was saved;
\* refused at the apply, it has consumed the proposal as well.
RefusedSavedNothing ==
  \A row \in Rows, w \in World :
    LET a == Apply(row, w)
    IN  a.status = "refused" /\ RefusalSays(a.code) = "saved nothing" => ~a.saved

\* Not so: a proposal is saved once.  The card stays open, and a create that is confirmed
\* again saves the contact again: nothing keeps two rows of one address apart.
After(row, w) ==
  [w EXCEPT !.contact = IF row.action = "create" THEN "same"
                        ELSE IF row.action = "remove" THEN "gone" ELSE "moved"]
SavedOnce(actions) ==
  \A row \in {row \in Rows : row.action \in actions}, w \in World :
    Apply(row, w).saved /\ ~Apply(row, w).consumed => ~Apply(row, After(row, w)).saved

\* Not so: the review explains the automatic payments that a removal affects.  Nothing in
\* the conversation names them, so that a contact which grants reach cannot be removed, or
\* its address replaced, by voice at all.
RemovalExplains ==
  \A row \in Rows : row.action = "remove" => CardDiscloses(row)
RemovableByVoice(grants) ==
  \A row \in Rows, w \in World :
    Reaches(row) /\ w.wallet /\ w.grants = grants => Apply(row, w).status # "applied"

\* Not so: "being applied" is only said of a change in flight.  A removal that is blocked,
\* waits for a wallet or has failed once is told so too.
InFlightIsMoving ==
  \A s \in States, action \in Actions :
    Says(action, Permission(s)) = "being applied" => Permission(s) \in Moving

ProposalClaims ==
  /\ ConsumedIsSaved /\ EnabledIsVerified /\ StagedIsShaped /\ EditsNothing
  /\ ~RefusedSavedNothing /\ SavedOnce({"edit", "remove"}) /\ ~SavedOnce({"create"})
  /\ ~RemovalExplains
  /\ RemovableByVoice({"g"}) /\ ~RemovableByVoice({}) /\ ~InFlightIsMoving
=============================================================================
