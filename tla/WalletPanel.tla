---------------------------- MODULE WalletPanel ----------------------------
(***************************************************************************)
(* The wallet panel of the page and the routes behind it: the permission   *)
(* it read last, the preparation it keeps until the user has consented,    *)
(* and the buttons it offers.  WalletEnrollment has what the server does   *)
(* with an enrollment; here a grant is its state alone, and the question   *)
(* is what the user is shown of it, and which grant a button acts on.      *)
(*                                                                         *)
(* The panels are small records, explored by Reached.  Grants are listed   *)
(* as the routes order them, the one updated last in front.                *)
(***************************************************************************)
EXTENDS Integers, Sequences, FiniteSets, SequencesExt

Grants == {1, 2}
None == [id |-> 0, state |-> "unavailable"]
Fresh == [grants |-> <<>>, shown |-> None, prepared |-> FALSE, revoked |-> 0, told |-> ""]

-----------------------------------------------------------------------------
(* The routes                                                              *)

\* A grant that is updated goes to the front.
Touch(grants, id, state) ==
  <<[id |-> id, state |-> state]>> \o SelectSeq(grants, LAMBDA g : g.id # id)
InState(grants, state) == SelectSeq(grants, LAMBDA g : g.state = state)
Unused(grants) == Grants \ {grants[i].id : i \in DOMAIN grants}

\* getPermission: an active grant before every other, then the last updated.
Permission(grants) ==
  LET active == InState(grants, "active")
  IN  IF active # <<>> THEN active[1] ELSE IF grants # <<>> THEN grants[1] ELSE None

\* preparePermission keeps a pending grant that is there, and may be refused after it.
Prepare(grants) ==
  IF InState(grants, "pending") # <<>> THEN {grants}
  ELSE {Touch(grants, id, "pending") : id \in Unused(grants)}

\* revokePermission: the active grant updated last, whichever was shown; the state it
\* is left in.  With the trusted client the removal of a signer is not implemented, and
\* fails as a provider out of reach does.
RevokedNow(grants) == InState(grants, "active")[1].id
Revoke(live) == IF live THEN {"revoking"} ELSE {"revoking", "revoked"}

\* errorReply: the answers to what a service throws.
StatusOf(error) ==
  CASE error = "identity" -> 401
    [] error = "not found" -> 404
    [] error \in {"conflict", "composition refused"} -> 409
    [] error \in {"invalid input", "invalid chain", "invalid grant", "ownership", "rejected"} -> 422
    [] error = "unavailable" -> 503
    [] OTHER -> 500

-----------------------------------------------------------------------------
(* The panel                                                               *)

\* hasBoundedLimits: a grant is shown as active only with every limit in place.
Limits == [lamports : {0, 1, 10000000, 10000001}, window : {0, 3600}, recipients : 0..1]
Bounded(limits) ==
  limits.lamports \in 1..10000000 /\ limits.window > 0 /\ limits.recipients > 0

\* What the panel offers: to turn the permission on, to consent, to revoke.
CanActivate(p) == p.shown.state \in {"pending", "unavailable"} /\ ~p.prepared
CanConsent(p) == p.shown.state # "active" /\ p.prepared
CanRevoke(p) == p.shown.state = "active"

\* The permission query answers again; the wallet is ready, and a recipient is saved.
Fetch(p) == {[p EXCEPT !.shown = Permission(p.grants)]}

\* handleActivate: nothing is asked for without a recipient, and a refusal is told; the
\* permission is not read again.
Activate(p) ==
  IF ~CanActivate(p) THEN {}
  ELSE {[p EXCEPT !.told = "refused"]} \cup
       UNION {{[p EXCEPT !.grants = grants, !.prepared = TRUE],
               [p EXCEPT !.grants = grants, !.told = "refused"]} : grants \in Prepare(p.grants)}

\* handleConsent and handlePrivyComplete: the server reads back what was attached, and
\* only that activates; unverified, the preparation is kept for another attempt.
Complete(p) ==
  IF ~CanConsent(p) THEN {}
  ELSE {[p EXCEPT !.told = "unverified"]} \cup
       (IF InState(p.grants, "pending") = <<>> THEN {}
        ELSE LET grants == Touch(p.grants, InState(p.grants, "pending")[1].id, "active")
             IN  {[p EXCEPT !.grants = grants, !.prepared = FALSE, !.told = "",
                            !.shown = Permission(grants)]})

\* handleRevoke: told as done only when the provider is, and read again in any case.
RevokeShown(p, live) ==
  IF ~CanRevoke(p) THEN {}
  ELSE IF InState(p.grants, "active") = <<>>
  THEN {[p EXCEPT !.told = "not confirmed", !.shown = Permission(p.grants)]}
  ELSE LET id == RevokedNow(p.grants)
       IN  {[p EXCEPT !.grants = Touch(@, id, state), !.revoked = id,
                      !.shown = Permission(Touch(p.grants, id, state)),
                      !.told = IF state = "revoked" THEN "revoked" ELSE "not confirmed"]
              : state \in Revoke(live)}

\* A grant made in the conversation, an enrollment completed on another page, a grant
\* revoked with its recipient, a page closed and opened again.
Elsewhere(p) ==
  {[p EXCEPT !.grants = Touch(@, id, "active")] : id \in Unused(p.grants)} \cup
  {[p EXCEPT !.grants = Touch(@, p.grants[i].id, "active")] :
     i \in {i \in DOMAIN p.grants : p.grants[i].state = "pending"}} \cup
  {[p EXCEPT !.grants = Touch(@, p.grants[i].id, "revoked")] :
     i \in {i \in DOMAIN p.grants : p.grants[i].state = "active"}} \cup
  {[Fresh EXCEPT !.grants = p.grants, !.shown = Permission(p.grants)]}

Successors(p, live) ==
  Fetch(p) \cup Activate(p) \cup Complete(p) \cup RevokeShown(p, live) \cup Elsewhere(p)

Steps == 12
ReachedBy(live) ==
  LET reached[n \in 0..Steps] ==
        IF n = 0 THEN {Fresh}
        ELSE LET before == reached[n - 1]
             IN  before \cup UNION {Successors(p, live) : p \in before}
  IN  reached
Reached == [live \in BOOLEAN |-> ReachedBy(live)[Steps]]

-----------------------------------------------------------------------------
(* Claims, evaluated over every panel that is reached                      *)

AllReached ==
  \A live \in BOOLEAN :
    UNION {Successors(p, live) : p \in Reached[live]} \subseteq Reached[live]

StateOf(grants, id) == {grants[i].state : i \in {i \in DOMAIN grants : grants[i].id = id}}

\* The panel never shows a permission as active before the server has activated it, nor
\* tells a revocation the provider has not confirmed.
ShownWasActivated ==
  \A live \in BOOLEAN : \A p \in Reached[live] :
    /\ p.shown.state = "active" =>
         StateOf(p.grants, p.shown.id) \subseteq {"active", "revoking", "revoked"}
    /\ p.told = "revoked" => StateOf(p.grants, p.revoked) = {"revoked"}

\* Every grant the server makes has limits the panel shows, so that an active one can
\* be revoked; not so of one above the ceiling, which is shown as no permission at all.
ActiveCanBeRevoked(lamports) ==
  \A limits \in Limits :
    limits.lamports \in lamports /\ limits.window > 0 /\ limits.recipients > 0 => Bounded(limits)

\* Not so: the grant that a press revokes is the one that was shown.  The route takes no
\* id, and a grant made in the conversation meanwhile comes first.
RevokesWhatIsShown ==
  \A live \in BOOLEAN : \A p \in Reached[live] :
    CanRevoke(p) => \A q \in RevokeShown(p, live) :
                      q.grants # p.grants => q.revoked = p.shown.id

\* Not so: a revocation that the provider did not confirm is tried again.  The route
\* finds active grants only, and with the trusted client none is ever confirmed.
RevocationEnds ==
  \A live \in BOOLEAN : \A p \in Reached[live] : \A id \in Grants :
    StateOf(p.grants, id) = {"revoking"} =>
      \E q \in Successors(p, live) : StateOf(q.grants, id) = {"revoked"}
RevocationIsTold(live) == \E p \in Reached[live] : p.told = "revoked"

\* Not so: there is a way on.  Once a grant was revoked the panel offers nothing, to
\* whoever opens it, although the route would prepare another.
AlwaysAWayOn ==
  \A live \in BOOLEAN : \A p \in Reached[live] : CanActivate(p) \/ CanConsent(p) \/ CanRevoke(p)

\* Not so: a consent that is asked for is for a grant that waits for it.  A preparation
\* outlives the grant that another page completed.
ConsentIsAwaited ==
  \A live \in BOOLEAN : \A p \in Reached[live] :
    CanConsent(p) => InState(p.grants, "pending") # <<>>

PanelClaims ==
  /\ AllReached /\ ShownWasActivated
  /\ ActiveCanBeRevoked({1, 10000000}) /\ ~ActiveCanBeRevoked({10000001})
  /\ ~RevokesWhatIsShown /\ ~RevocationEnds /\ ~AlwaysAWayOn /\ ~ConsentIsAwaited
  /\ RevocationIsTold(FALSE) /\ ~RevocationIsTold(TRUE)
=============================================================================
