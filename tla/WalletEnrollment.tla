--------------------------- MODULE WalletEnrollment ---------------------------
(***************************************************************************)
(* A user's embedded wallets and signer grants in the live deployment:     *)
(* the sync with what the provider lists, and the enrollment protocol      *)
(* prepare / consent / complete / revoke, its requests interleaved with    *)
(* each other, with contact changes that move the policy's revision, and   *)
(* with the user's own changes at the provider.                            *)
(*                                                                         *)
(* A request is one record; each of its steps ends at an await.  Rules are *)
(* named by the revision they were composed from; which signer is meant by *)
(* "the" signer is the canonical one of a bound wallet, or the one the     *)
(* user consented to on a wallet that is not bound yet.                    *)
(*                                                                         *)
(* Not modelled: the lease, the retries and the stop classes of an apply   *)
(* (RecipientPolicy); several new signers at once, which complete refuses. *)
(***************************************************************************)
EXTENDS Integers, Sequences, FiniteSets

CONSTANTS
  Requests,    \* concurrent requests
  Wallets,     \* wallets at the provider
  Nobody,      \* no request
  NoWallet,    \* no wallet
  MaxRevision, \* bound on the revisions recorded for a wallet
  MaxGrants,   \* bound on the signer_grants rows
  MaxChanges,  \* bound on what the user changes at the provider
  MaxRequests  \* bound on the requests started

ASSUME EnrollmentAssumption ==
  /\ Nobody \notin Requests
  /\ IsFiniteSet(Wallets) /\ NoWallet \notin Wallets
  /\ {MaxRevision, MaxGrants, MaxChanges, MaxRequests} \subseteq Nat

Grants == 1..MaxGrants
NoGrant == 0

VARIABLES
  listed,   \* the wallets the provider attributes to the user
  epoch,    \* how often that changed
  foreign,  \* provider wallet ids bound to the row of another user
  row,      \* user_wallets.state of the user's rows
  bound,    \* wallets with a provider_signer_id
  synced,   \* the listing of the sync that committed last
  lock,     \* holder of the advisory lock of the user's syncs
  signer,   \* at the provider: is the signer there, does it carry the policy
  policy,   \* desired and applied revision, and the rules at the provider
  grant,    \* signer_grants
  recent,   \* the grants by updated_at
  request,
  started

walletVars == <<row, synced, lock, foreign>>
userVars == <<listed, epoch>>
grantVars == <<grant, recent>>
vars == <<walletVars, userVars, bound, signer, policy, grantVars, request, started>>

Pcs == {"idle", "commit",
        "snapshot", "pend", "insert", "record", "target", "apply", "cas", "blocked",
        "look", "applied", "rules", "activate",
        "revoke", "failed"}
Idle ==
  [pc |-> "idle", op |-> "sync", wallet |-> NoWallet, bound |-> FALSE, grant |-> NoGrant,
   seen |-> FALSE, rev |-> 0, saw |-> {}, epoch |-> 0]

\* A deployment starts with the bindings that the signer evidence of earlier
\* grants left behind, and with no policy state.
Init ==
  /\ listed \in {{}} \cup {{w} : w \in Wallets} /\ epoch = 0
  /\ foreign \in {{}} \cup {{w} : w \in Wallets}
  /\ row = [w \in Wallets |-> IF w \in listed \ foreign THEN "ready" ELSE "none"]
  /\ bound \in SUBSET {w \in Wallets : row[w] = "ready"}
  /\ synced = [set |-> listed \ foreign, epoch |-> 0]
  /\ lock = Nobody
  /\ signer = [w \in Wallets |-> [present |-> w \in bound, carries |-> FALSE]]
  /\ policy = [w \in Wallets |-> [desired |-> 0, applied |-> 0, hashed |-> FALSE, remote |-> 0]]
  /\ grant = [g \in Grants |-> [wallet |-> NoWallet, state |-> "none", seen |-> FALSE]]
  /\ recent = <<>>
  /\ request = [r \in Requests |-> Idle]
  /\ started = 0

-----------------------------------------------------------------------------
(* Reads                                                                   *)

Ready == {w \in Wallets : row[w] = "ready"}

\* SELECT ... ORDER BY updated_at DESC LIMIT 1
IsNewest(g, S) ==
  /\ g \in S
  /\ \E i \in DOMAIN recent :
       recent[i] = g /\ \A j \in DOMAIN recent : recent[j] \in S => j <= i

InState(w, states) == {g \in Grants : grant[g].wallet = w /\ grant[g].state \in states}

\* SET updated_at = now()
Touch(g) == recent' = Append(SelectSeq(recent, LAMBDA h : h # g), g)

At(r, pc) == request[r].pc = pc
Goto(r, pc) == request' = [request EXCEPT ![r].pc = pc]
Done(r) == request' = [request EXCEPT ![r] = Idle]
Begin(r, rec) ==
  /\ At(r, "idle") /\ started < MaxRequests
  /\ started' = started + 1
  /\ request' = [request EXCEPT ![r] = rec]

-----------------------------------------------------------------------------
(* Sync                                                                    *)

\* Mutant of SyncList: the provider is asked before the lock is taken.
SyncListUnlocked(r) ==
  /\ lock' = lock
  /\ Begin(r, [Idle EXCEPT !.pc = "commit", !.saw = listed, !.epoch = epoch])
  /\ UNCHANGED <<row, synced, foreign, userVars, bound, signer, policy, grantVars>>

\* The transaction takes the user's lock, then asks the provider.  An outage
\* commits nothing.
SyncList(r) ==
  /\ lock = Nobody
  /\ lock' = r
  /\ Begin(r, [Idle EXCEPT !.pc = "commit", !.saw = listed, !.epoch = epoch])
  /\ UNCHANGED <<row, synced, foreign, userVars, bound, signer, policy, grantVars>>

\* Mutant of Reconciled: the other rows keep their state.
ReconciledKept(saw) ==
  [w \in Wallets |->
     IF Cardinality(saw) > 1 THEN IF w \in saw THEN "conflict" ELSE row[w]
     ELSE IF w \in saw THEN "ready" ELSE row[w]]

\* demoteWalletsForChain, then the upsert of what was listed.
Reconciled(saw) ==
  [w \in Wallets |->
     IF Cardinality(saw) > 1 THEN IF w \in saw \/ row[w] # "none" THEN "conflict" ELSE "none"
     ELSE IF w \in saw THEN "ready"
     ELSE IF row[w] = "none" THEN "none" ELSE "unavailable"]

\* One transaction: a listed wallet that is bound to another user rolls back
\* all of it, the demotions too.
SyncCommit(r) ==
  /\ At(r, "commit")
  /\ LET saw == request[r].saw
     IN IF saw \cap foreign = {}
        THEN /\ row' = Reconciled(saw)
             /\ synced' = [set |-> saw, epoch |-> request[r].epoch]
        ELSE UNCHANGED <<row, synced>>
  /\ lock' = Nobody
  /\ Done(r)
  /\ UNCHANGED <<foreign, userVars, bound, signer, policy, grantVars, started>>

SyncOutage(r) ==
  /\ At(r, "commit")
  /\ lock' = Nobody
  /\ Done(r)
  /\ UNCHANGED <<row, synced, foreign, userVars, bound, signer, policy, grantVars, started>>

-----------------------------------------------------------------------------
(* Prepare, and the contact changes that share its apply path              *)

Prepare(r) ==
  \E w \in Ready :
    /\ Begin(r, [Idle EXCEPT !.pc = "snapshot", !.op = "prepare", !.wallet = w])
    /\ UNCHANGED <<walletVars, userVars, bound, signer, policy, grantVars>>

\* remoteSignerIdsOf: the wallet must be read back, or prepare throws.
Snapshot(r) ==
  /\ At(r, "snapshot")
  /\ \/ /\ request[r].wallet \in listed
        /\ request' = [request EXCEPT ![r].pc = "pend",
                                      ![r].seen = signer[request[r].wallet].present]
     \/ Done(r)
  /\ UNCHANGED <<walletVars, userVars, bound, signer, policy, grantVars, started>>

\* A pending grant is kept with its snapshot, otherwise one is inserted; two
\* transactions may both have found none.
KeepPending(r) ==
  /\ At(r, "pend")
  /\ Goto(r, IF InState(request[r].wallet, {"pending"}) = {} THEN "insert" ELSE "record")
  /\ UNCHANGED <<walletVars, userVars, bound, signer, policy, grantVars, started>>

InsertPending(r) ==
  LET free == {g \in Grants : grant[g].state = "none"} IN
  /\ At(r, "insert")
  /\ Goto(r, "record")
  /\ \E g \in free :
       /\ \A h \in free : g <= h
       /\ grant' = [grant EXCEPT ![g] = [wallet |-> request[r].wallet, state |-> "pending",
                                        seen |-> request[r].seen]]
       /\ Touch(g)
  /\ UNCHANGED <<walletVars, userVars, bound, signer, policy, started>>

\* A contact is added, changed or removed on the user's ready wallet.
ContactChange(r) ==
  \E w \in Ready :
    /\ Begin(r, [Idle EXCEPT !.pc = "record", !.op = "contact", !.wallet = w])
    /\ UNCHANGED <<walletVars, userVars, bound, signer, policy, grantVars>>

\* recordEnrollmentIntent and the mutations: one more desired revision.
RecordIntent(r) ==
  LET w == request[r].wallet IN
  /\ At(r, "record")
  /\ policy[w].desired < MaxRevision
  /\ policy' = [policy EXCEPT ![w].desired = @ + 1]
  /\ Goto(r, "target")
  /\ UNCHANGED <<walletVars, userVars, bound, signer, grantVars, started>>

\* applyRevision: without a verified binding of a ready wallet there is no
\* target, the revision stays pending and the request ends.
HasTarget(w) == row[w] = "ready" /\ w \in bound

ResolveTarget(r) ==
  LET w == request[r].wallet IN
  /\ At(r, "target")
  /\ IF HasTarget(w)
     THEN request' = [request EXCEPT ![r].pc = "apply", ![r].rev = policy[w].desired]
     ELSE Done(r)
  /\ UNCHANGED <<walletVars, userVars, bound, signer, policy, grantVars, started>>

\* The signed apply: first attach, or PATCH of the attached policy.  A wallet
\* or a signer that is not there is a proven divergence; an apply that failed
\* or whose answer is lost ends the request.
Apply(r) ==
  LET w == request[r].wallet IN
  /\ At(r, "apply")
  /\ \/ /\ w \in listed /\ signer[w].present
        /\ signer' = [signer EXCEPT ![w].carries = TRUE]
        /\ policy' = [policy EXCEPT ![w].remote = request[r].rev]
        /\ Goto(r, "cas") \/ Done(r)
     \/ /\ w \notin listed \/ ~ signer[w].present
        /\ Goto(r, "blocked")
        /\ UNCHANGED <<signer, policy>>
     \/ Done(r) /\ UNCHANGED <<signer, policy>>
  /\ UNCHANGED <<walletVars, userVars, bound, grantVars, started>>

\* invalidateWalletBindings: the hash of the applied revision is dropped.
Invalidate(r) ==
  /\ At(r, "blocked")
  /\ policy' = [policy EXCEPT ![request[r].wallet].hashed = FALSE]
  /\ Done(r)
  /\ UNCHANGED <<walletVars, userVars, bound, signer, grantVars, started>>

\* commitAppliedRevision compares the desired revision; the newest active
\* grant is refreshed in the same transaction.
CommitApplied(r) ==
  LET w == request[r].wallet
      active == InState(w, {"active"})
  IN
  /\ At(r, "cas")
  /\ \/ /\ policy[w].desired = request[r].rev
        /\ policy' = [policy EXCEPT ![w].applied = request[r].rev, ![w].hashed = TRUE]
        /\ \/ active = {} /\ UNCHANGED recent
           \/ \E g \in Grants : IsNewest(g, active) /\ Touch(g)
     \/ /\ policy[w].desired # request[r].rev
        /\ UNCHANGED <<policy, recent>>
  /\ Done(r)
  /\ UNCHANGED <<walletVars, userVars, bound, signer, grant, started>>

-----------------------------------------------------------------------------
(* Complete                                                                *)

\* The newest pending or active grant of the wallet, and its row.
Complete(r) ==
  \E w \in Wallets, g \in Grants :
    /\ IsNewest(g, InState(w, {"pending", "active"}))
    /\ Begin(r, [Idle EXCEPT !.pc = "look", !.op = "complete", !.wallet = w,
                             !.bound = w \in bound, !.grant = g])
    /\ UNCHANGED <<walletVars, userVars, bound, signer, policy, grantVars>>

\* The signer of the listing: the canonical one with the policy, or the one
\* that is new since the snapshot.
Recognized(r) ==
  LET q == request[r]
      v == signer[q.wallet]
  IN IF q.bound THEN v.present /\ v.carries ELSE v.present /\ ~ grant[q.grant].seen

\* The wallet's listing; what it shows of the signer is judged after the
\* applied revision was read.
Look(r) ==
  /\ At(r, "look")
  /\ \/ /\ request[r].wallet \in listed
        /\ request' = [request EXCEPT ![r].pc = "applied", ![r].seen = Recognized(r)]
     \/ Done(r)
  /\ UNCHANGED <<walletVars, userVars, bound, signer, policy, grantVars, started>>

\* Mutant of Completable: a wallet nothing was recorded for is up to date.
CompletableFresh(p) == p.applied = p.desired

\* Only an applied revision that is the desired one can be completed against.
Completable(p) == p.applied > 0 /\ p.hashed /\ p.applied = p.desired

\* On a wallet that is not bound, a new signer without the policy is attached
\* first; the readback after it lists Ethereum wallets, so it never verifies.
ReadApplied(r) ==
  LET w == request[r].wallet
      attach == ~ request[r].bound /\ ~ signer[w].carries
  IN
  /\ At(r, "applied")
  /\ IF Completable(policy[w]) /\ request[r].seen
     THEN /\ signer' = [signer EXCEPT ![w].carries = @ \/ attach]
          /\ IF attach THEN Done(r)
             ELSE request' = [request EXCEPT ![r].pc = "rules", ![r].rev = policy[w].applied]
     ELSE Done(r) /\ UNCHANGED signer
  /\ UNCHANGED <<walletVars, userVars, bound, policy, grantVars, started>>

\* The rules at the provider must hash to the applied revision.
RulesMatch(r) ==
  /\ At(r, "rules")
  /\ \/ policy[request[r].wallet].remote = request[r].rev /\ Goto(r, "activate")
     \/ Done(r)
  /\ UNCHANGED <<walletVars, userVars, bound, signer, policy, grantVars, started>>

\* Mutant of Activatable: the grant is activated by its id alone.
ActivatableById(g) == grant[g].state # "none"

\* UPDATE ... WHERE state IN ('pending', 'active')
Activatable(g) == grant[g].state \in {"pending", "active"}

Activate(r) ==
  LET g == request[r].grant IN
  /\ At(r, "activate")
  /\ IF Activatable(g)
     THEN grant' = [grant EXCEPT ![g].state = "active"] /\ Touch(g)
     ELSE UNCHANGED grantVars
  /\ bound' = bound \cup {request[r].wallet}
  /\ Done(r)
  /\ UNCHANGED <<walletVars, userVars, signer, policy, started>>

-----------------------------------------------------------------------------
(* Revoke, and what the user does at the provider                          *)

Revoke(r) ==
  \E g \in Grants :
    /\ IsNewest(g, {h \in Grants : grant[h].state = "active"})
    /\ Begin(r, [Idle EXCEPT !.pc = "revoke", !.op = "revoke", !.grant = g])
    /\ UNCHANGED <<walletVars, userVars, bound, signer, policy, grantVars>>

\* The signer's removal at the provider is not implemented: the second write
\* repeats the first, and the grant stays revoking.
MarkRevoking(r) ==
  LET g == request[r].grant IN
  /\ \/ At(r, "revoke") /\ Goto(r, "failed")
     \/ At(r, "failed") /\ Done(r)
  /\ grant' = [grant EXCEPT ![g].state = "revoking"]
  /\ Touch(g)
  /\ UNCHANGED <<walletVars, userVars, bound, signer, policy, started>>

\* The provider attributes other wallets to the user.
ProviderMoves ==
  /\ epoch < MaxChanges
  /\ epoch' = epoch + 1
  /\ listed' \in SUBSET Wallets \ {listed}
  /\ UNCHANGED <<walletVars, bound, signer, policy, grantVars, request, started>>

\* The user consents to the signer, or takes it away.
Delegates(w) ==
  /\ epoch < MaxChanges
  /\ epoch' = epoch + 1
  /\ signer' = [signer EXCEPT ![w] = [present |-> ~ @.present, carries |-> FALSE]]
  /\ UNCHANGED <<walletVars, listed, bound, policy, grantVars, request, started>>

Next ==
  \/ \E r \in Requests :
       \/ SyncList(r) \/ SyncCommit(r) \/ SyncOutage(r)
       \/ Prepare(r) \/ Snapshot(r) \/ KeepPending(r) \/ InsertPending(r)
       \/ ContactChange(r) \/ RecordIntent(r) \/ ResolveTarget(r) \/ Apply(r)
       \/ CommitApplied(r) \/ Invalidate(r)
       \/ Complete(r) \/ Look(r) \/ ReadApplied(r) \/ RulesMatch(r) \/ Activate(r)
       \/ Revoke(r) \/ MarkRevoking(r)
  \/ ProviderMoves
  \/ \E w \in Wallets : Delegates(w)

Spec == Init /\ [][Next]_vars

-----------------------------------------------------------------------------
(* Properties                                                              *)

\* The wallet that is ready is the one wallet of the listing that was
\* reconciled last: no earlier selection and no rolled-back sync leaves
\* another one, or a second one (embedded.ts:638, "a stale local selection").
ReadyWasListed ==
  \A w \in Ready : synced.set = {w}

\* "An older response cannot commit after a newer sync for the same user"
\* (embedded.ts:572): reconciled listings follow the provider's order.
SyncsCommitInOrder == [][synced'.epoch >= synced.epoch]_vars

\* A grant whose revocation was asked for is never active again, whatever
\* complete request was between its readback and its write.
RevokedStaysRevoked ==
  [][\A g \in Grants : grant[g].state = "revoking" => grant'[g].state = "revoking"]_vars

\* No revision is applied to a wallet whose signer was never verified: every
\* writer resolves its target through the binding (privy-policy-admin.ts:96).
AppliedNeedsBinding ==
  \A w \in Wallets : policy[w].applied > 0 => w \in bound

\* A permission is active only on a wallet whose signer is bound and whose
\* policy was applied once: never on the strength of a request of the client
\* (embedded.ts:1028, "a client success flag can NEVER activate").
ActiveWasProven ==
  \A g \in Grants :
    grant[g].state = "active" => grant[g].wallet \in bound /\ policy[grant[g].wallet].applied > 0

-----------------------------------------------------------------------------
(* Said by the documents and refuted by the model: see the README          *)

\* "First consent discovers and binds exactly one new signer": a complete that
\* sees one signer more than the snapshot of a wallet without a binding, with
\* no other request in flight, does not end without one.
FirstConsentBinds ==
  [][\A r \in Requests :
       (/\ At(r, "applied") /\ ~ request[r].bound /\ request[r].seen
        /\ request'[r].pc = "idle"
        /\ \A q \in Requests \ {r} : At(q, "idle"))
         => request[r].wallet \in bound']_vars
=============================================================================
