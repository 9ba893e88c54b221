----------------------------- MODULE GrantLedger -----------------------------
(***************************************************************************)
(* The delegated grants of one wallet and the ledger of what was claimed   *)
(* on them, as the concurrent database transactions that touch them: the   *)
(* turn that claims budget before it broadcasts, its settlement, the       *)
(* revocation of a grant, the two provider syncs, the removal of a contact *)
(* (which revokes the grants of its address), the other contact mutations, *)
(* the enrollment, and the reconciler's apply and invalidation.            *)
(*                                                                         *)
(* A transaction takes its locks one at a time in the lock order of the    *)
(* code (todo, held) and frees them when it ends; it also holds a          *)
(* connection of the pool, and some kinds need a second one before they    *)
(* end.  What a transaction reads it reads when the lock is granted, and   *)
(* uses when it ends.                                                      *)
(*                                                                         *)
(* Abstracted: one wallet, one address that every grant lists; revisions   *)
(* instead of rules (RecipientPolicy composes them); the amount of an      *)
(* execution is fixed with its key.                                        *)
(***************************************************************************)
EXTENDS Integers, FiniteSets

CONSTANTS
  Slots,        \* requests and background loops in service
  Grants,       \* delegated_grants.id, as numbers: locks are taken ascending
  Keys,         \* persisted previews: one idempotency key each
  Contacts,     \* recipients rows that name the address
  None,
  AmountOf,     \* the amount of each preview
  PerTransfer, Cumulative, Expiry,  \* of each grant
  Window,       \* window_seconds
  Pool,         \* connections of the pool (10 in pg)
  Attempts,     \* RECIPIENT_REMOVAL_MAX_ATTEMPTS
  Starts,       \* kinds of request explored
  MaxJobs,      \* bound on the requests started
  MaxTime,      \* bound on the clock
  MaxWait       \* bound on the age of a transaction when it ends

LeaseKinds == {"remove", "edit", "contact", "apply", "invalidate"}
OtherKinds == {"claim", "settle", "revoke", "sync", "unbind", "enroll"}
Kinds == LeaseKinds \cup OtherKinds
StartKinds == (Kinds \ {"settle", "unbind"}) \cup {"lost"}

\* A row of grant_claim_ledger.
Claims == [at : Nat, amount : Nat, released : BOOLEAN]

ASSUME LedgerAssumption ==
  /\ Grants \subseteq Nat \ {0} /\ IsFiniteSet(Slots) /\ IsFiniteSet(Keys)
  /\ None \notin Slots /\ None \notin Keys \cup Contacts \cup Claims
  /\ AmountOf \in [Keys -> Nat \ {0}]
  /\ PerTransfer \in [Grants -> Nat] /\ Cumulative \in [Grants -> Nat]
  /\ Expiry \in [Grants -> Nat]
  /\ {Window, Pool, Attempts, MaxJobs, MaxTime, MaxWait} \subseteq Nat
  /\ MaxWait <= Window
  /\ Starts \subseteq StartKinds

VARIABLES
  now,      \* the clock of the database and of the application
  policy,   \* recipient_policy_state, as far as the gate reads it
  grants,   \* delegated_grants
  ledger,   \* grant_claim_ledger, unique on (grant_id, idempotency_key)
  alias,    \* the active contacts at the address
  attempt,  \* conversation_transfer_attempts.status of each preview
  lease,    \* the holder of recipient_policy_leases
  job,      \* the request of each slot and its open transaction
  turns,    \* the turns that asked the gate about each preview
  started

vars == <<now, policy, grants, ledger, alias, attempt, lease, job, turns, started>>
rows == <<policy, grants, ledger, alias, attempt>>

\* The lock order: the state row, a grant's advisory key, a grant's row, the
\* contact rows, the wallet's advisory key.
State == <<0, 0>>
Key(g) == <<1, g>>
Row(g) == <<2, g>>
ContactRows == <<3, 0>>
WalletKey == <<4, 0>>
Locks == (0..4) \X (Grants \cup {0})
\* Mutant of Before: a claim takes its grant before the state row.
StateRowLast(l, m) ==
  m = <<0, 0>> \/ (l # <<0, 0>> /\ (l[1] < m[1] \/ (l[1] = m[1] /\ l[2] <= m[2])))
Before(l, m) == l[1] < m[1] \/ (l[1] = m[1] /\ l[2] <= m[2])

Pcs == {"idle", "gate", "list", "next", "plan", "open", "claimed", "execute", "lost"}
GrantRows == [state : {"none", "active", "revoked"}, bound : BOOLEAN, created : Int]
Jobs ==
  [pc : Pcs, kind : Kinds, grant : Grants \cup {0}, key : Keys \cup {None},
   contact : Contacts \cup {None}, cands : SUBSET Grants, asked : Nat, began : Nat,
   todo : SUBSET Locks, held : SUBSET Locks, nested : BOOLEAN,
   seen : BOOLEAN, row : GrantRows, rev : Nat,
   plan : SUBSET Grants, planned : SUBSET Contacts, aliases : SUBSET Contacts,
   affected : SUBSET Grants, disclosed : (SUBSET Grants) \cup {None}, tries : Nat]

NoRow == [state |-> "none", bound |-> FALSE, created |-> 0]
Idle ==
  [pc |-> "idle", kind |-> "claim", grant |-> 0, key |-> None, contact |-> None,
   cands |-> {}, asked |-> 0, began |-> 0, todo |-> {}, held |-> {}, nested |-> FALSE,
   seen |-> FALSE, row |-> NoRow, rev |-> 0,
   plan |-> {}, planned |-> {}, aliases |-> {}, affected |-> {}, disclosed |-> None,
   tries |-> 0]

TypeOK ==
  /\ now \in 0..MaxTime
  /\ policy \in [desired : Nat, applied : Nat, hashes : BOOLEAN]
  /\ grants \in [Grants -> GrantRows]
  /\ ledger \in [Grants -> [Keys -> Claims \cup {None}]]
  /\ alias \subseteq Contacts
  /\ attempt \in [Keys -> {"previewed", "broadcasting", "cancelled", "final", "user"}]
  /\ lease \in Slots \cup {None}
  /\ job \in [Slots -> Jobs]
  /\ turns \in [Keys -> Nat]
  /\ started \in 0..MaxJobs

\* A wallet whose first policy was verified, with some grants bound to it.
Init ==
  /\ now = 0
  /\ policy = [desired |-> 1, applied |-> 1, hashes |-> TRUE]
  /\ \E G \in SUBSET Grants :
       grants = [g \in Grants |->
         IF g \in G THEN [state |-> "active", bound |-> TRUE, created |-> 0] ELSE NoRow]
  /\ ledger = [g \in Grants |-> [k \in Keys |-> None]]
  /\ alias \in SUBSET Contacts
  /\ attempt = [k \in Keys |-> "previewed"]
  /\ lease = None
  /\ job = [x \in Slots |-> Idle]
  /\ turns = [k \in Keys |-> 0]
  /\ started = 0

-----------------------------------------------------------------------------
(* Transactions                                                            *)

Open == {x \in Slots : job[x].pc = "open"}
ConnectionFree == Cardinality(Open) < Pool

ActiveGrants == {g \in Grants : grants[g].state = "active"}

\* The predicate of isWalletPolicyVerified.
PolicyVerified ==
  /\ policy.hashes
  /\ policy.applied = policy.desired

\* A claim reads the state row FOR SHARE, every other kind locks it FOR UPDATE.
Shared(x, l) == l = State /\ job[x].kind = "claim"
\* Mutant of Conflicts: the claim reads the state row without locking it.
UnlockedRead(x, y, l) == l \in job[y].held /\ ~Shared(x, l) /\ ~Shared(y, l)
Conflicts(x, y, l) == l \in job[y].held /\ ~(Shared(x, l) /\ Shared(y, l))

\* The locks of a kind of transaction; those of apply and invalidate on the
\* grant rows are known when the state row is held.
LocksOf(kind, g, plan) ==
  CASE kind = "claim" -> {State, Key(g), Row(g)}
    [] kind = "settle" -> {Key(g)}
    [] kind = "revoke" -> {Key(g), Row(g)}
    [] kind \in {"sync", "unbind"} -> {Key(g), Row(g), WalletKey}
    [] kind \in {"remove", "edit"} ->
         {State, ContactRows} \cup {Key(h) : h \in plan} \cup {Row(h) : h \in plan}
    [] kind = "contact" -> {State, ContactRows}
    [] OTHER -> {State}

\* Composing a revision, and every provider sync, reads the grants in a
\* transaction of its own while the first one is open; a removal does not.
NestedKinds == {"sync", "unbind", "edit", "contact", "enroll"}

Opened(j, kind, g) ==
  [j EXCEPT !.pc = "open", !.kind = kind, !.grant = g, !.began = now,
            !.todo = LocksOf(kind, g, j.plan), !.held = {},
            !.nested = kind \in NestedKinds, !.seen = FALSE, !.row = NoRow]

\* The locks a transaction may be waiting for.  An UPDATE of many rows locks
\* them in no particular order.
AnyOrder(x, l) == job[x].kind \in {"apply", "invalidate"} /\ l[1] = 2
NextLocks(x) ==
  {l \in job[x].todo : \A m \in job[x].todo :
     Before(l, m) \/ (AnyOrder(x, l) /\ m[1] = 2)}

Blockers(x) == {y \in Open \ {x} : \E l \in NextLocks(x) : Conflicts(x, y, l)}

\* What the transaction reads when it is granted lock l.
ReadUnder(x, l) ==
  LET j == [job[x] EXCEPT !.todo = @ \ {l}, !.held = @ \cup {l}] IN
    CASE l = State /\ j.kind = "claim" -> [j EXCEPT !.seen = PolicyVerified]
      [] l = State /\ j.kind \in {"apply", "invalidate"} ->
           [j EXCEPT !.todo = {Row(g) : g \in ActiveGrants}, !.affected = ActiveGrants]
      [] l = Row(j.grant) /\ j.kind \in OtherKinds -> [j EXCEPT !.row = grants[j.grant]]
      [] l = ContactRows ->
           [j EXCEPT !.aliases = alias, !.affected = ActiveGrants]
      [] OTHER -> j

Acquire(x) ==
  /\ job[x].pc = "open"
  /\ \E l \in NextLocks(x) :
       /\ \A y \in Open \ {x} : ~Conflicts(x, y, l)
       /\ job' = [job EXCEPT ![x] = ReadUnder(x, l)]
  /\ UNCHANGED <<now, rows, lease, turns, started>>

\* listActiveGrants: a second connection, free again when it has read.
NestedRead(x) ==
  /\ job[x].pc = "open" /\ job[x].todo = {} /\ job[x].nested
  /\ ConnectionFree
  /\ job' = [job EXCEPT ![x].nested = FALSE]
  /\ UNCHANGED <<now, rows, lease, turns, started>>

\* Every lock is held and every read is done.
Ready(x, kind) ==
  job[x].pc = "open" /\ job[x].kind = kind /\ job[x].todo = {} /\ ~job[x].nested

\* The end of a transaction frees its locks and its connection.
Closed(j, pc, kind) ==
  [Idle EXCEPT !.pc = pc, !.kind = kind, !.grant = j.grant, !.key = j.key,
               !.contact = j.contact, !.cands = j.cands, !.asked = j.asked,
               !.disclosed = j.disclosed, !.tries = j.tries]
Became(x, j) == job' = [job EXCEPT ![x] = j] /\ UNCHANGED <<turns, started>>
Done(x) ==
  /\ Became(x, Idle)
  /\ lease' = IF lease = x THEN None ELSE lease

-----------------------------------------------------------------------------
(* Requests.  The writers of the policy take the lease before anything.    *)

Begin(x, kind, j) ==
  /\ kind \in Starts
  /\ job[x].pc = "idle" /\ started < MaxJobs
  /\ kind \in LeaseKinds => lease = None
  /\ lease' = IF kind \in LeaseKinds THEN x ELSE lease
  /\ started' = started + 1
  /\ turns' = IF kind = "claim" THEN [turns EXCEPT ![j.key] = @ + 1] ELSE turns
  /\ job' = [job EXCEPT ![x] = [j EXCEPT !.kind = kind]]

\* The order in which the gate tries the grants: tightest caps first.
Tighter(g, h) ==
  \/ PerTransfer[g] < PerTransfer[h]
  \/ /\ PerTransfer[g] = PerTransfer[h]
     /\ \/ Cumulative[g] < Cumulative[h]
        \/ /\ Cumulative[g] = Cumulative[h]
           /\ Expiry[g] < Expiry[h] \/ (Expiry[g] = Expiry[h] /\ g < h)

Covers(g, k, asked) ==
  /\ grants[g].state = "active" /\ grants[g].bound
  /\ grants[g].created <= asked /\ asked < Expiry[g]
  /\ AmountOf[k] <= PerTransfer[g]

BeginTurn(x) ==
  /\ \E k \in Keys : Begin(x, "claim", [Idle EXCEPT !.pc = "gate", !.key = k, !.asked = now])
  /\ UNCHANGED <<now, rows>>

\* The gate reads the policy, then the grants, in transactions of their own.
GateReadsPolicy(x) ==
  /\ job[x].pc = "gate" /\ ConnectionFree
  /\ IF PolicyVerified
       THEN job' = [job EXCEPT ![x].pc = "list"] /\ UNCHANGED <<lease, turns, started>>
       ELSE Done(x)
  /\ UNCHANGED <<now, rows>>

GateListsGrants(x) ==
  /\ job[x].pc = "list" /\ ConnectionFree
  /\ LET found == {g \in Grants : Covers(g, job[x].key, job[x].asked)} IN
       IF found = {}
         THEN Done(x)
         ELSE /\ job' = [job EXCEPT ![x].pc = "next", ![x].cands = found]
              /\ UNCHANGED <<lease, turns, started>>
  /\ UNCHANGED <<now, rows>>

\* The next transaction of a request: of a turn, the claim on its next candidate.
OpenTransaction(x) ==
  LET j == job[x]
      first == {g \in j.cands : \A h \in j.cands \ {g} : Tighter(g, h)} IN
    /\ j.pc = "next" /\ ConnectionFree
    /\ IF j.kind = "claim"
         THEN \E g \in first :
                job' = [job EXCEPT ![x] = Opened([j EXCEPT !.cands = @ \ {g}], "claim", g)]
         ELSE job' = [job EXCEPT ![x] = Opened(j, j.kind, j.grant)]
    /\ UNCHANGED <<now, rows, lease, turns, started>>

\* The claims of a grant that nobody released, of the time after from; and what
\* the claims on some keys add up to, counted unit by unit.
Unreleased(g, from) ==
  {k \in Keys : /\ ledger[g][k] # None /\ ~ledger[g][k].released
                /\ ledger[g][k].at > from}
Units(claims, K) == UNION {{k} \X (1..claims[k].amount) : k \in K}
Amount(g, K) == Cardinality(Units(ledger[g], K))

\* What is claimed in the window.  claimed_at is the start of the transaction
\* that claimed; the window is counted back from the clock.
\* Mutant of ConsumedInWindow: the window is a second short.
ShortWindow(g) == Amount(g, Unreleased(g, now - Window + 1))
ConsumedInWindow(g) == Amount(g, Unreleased(g, now - Window))

\* Why a claim on a new key is granted, under its three locks.
Claimable(x) ==
  LET j == job[x] g == job[x].grant IN
    /\ j.seen
    /\ j.row.state = "active" /\ now < Expiry[g] /\ j.row.bound
    /\ AmountOf[j.key] <= PerTransfer[g]
    /\ ConsumedInWindow(g) + AmountOf[j.key] <= Cumulative[g]

NewClaim(x) == [at |-> job[x].began, amount |-> AmountOf[job[x].key], released |-> FALSE]

\* Mutant of AfterClaim: a lost answer counts as a refusal.
RetryAfterLoss(x, consumed) ==
  LET refused == IF job[x].cands = {} THEN Idle ELSE Closed(job[x], "next", "claim") IN
    \/ Became(x, IF consumed THEN Closed(job[x], "claimed", "claim") ELSE refused)
    \/ Became(x, refused)
\* A refused claim goes on with the next candidate, a lost answer with none.
AfterClaim(x, consumed) ==
  LET refused == IF job[x].cands = {} THEN Idle
                 ELSE Closed(job[x], "next", "claim")
      won == [Closed(job[x], "claimed", "claim") EXCEPT !.cands = {}] IN
    \/ Became(x, IF consumed THEN won ELSE refused)
    \/ "lost" \in Starts /\ Became(x, Idle)

\* claimConsumption: an unreleased key replays its claim, a released one is
\* retired; a new key is claimed if the grant has room for it.
ClaimConsumption(x) ==
  /\ Ready(x, "claim")
  /\ LET g == job[x].grant
         k == job[x].key
         claim == ledger[g][k] IN
       \/ /\ claim # None
          /\ AfterClaim(x, ~claim.released)
          /\ UNCHANGED ledger
       \/ /\ claim = None /\ Claimable(x)
          /\ ledger' = [ledger EXCEPT ![g][k] = NewClaim(x)]
          /\ AfterClaim(x, TRUE)
       \/ /\ claim = None /\ ~Claimable(x)
          /\ AfterClaim(x, FALSE)
          /\ UNCHANGED ledger
  /\ UNCHANGED <<now, policy, grants, alias, attempt, lease>>

\* claimPendingTransfer: one turn wins the preview and executes it.
ClaimAttempt(x) ==
  /\ job[x].pc = "claimed" /\ ConnectionFree
  /\ IF attempt[job[x].key] = "previewed"
       THEN /\ attempt' = [attempt EXCEPT ![job[x].key] = "broadcasting"]
            /\ job' = [job EXCEPT ![x].pc = "execute"] /\ UNCHANGED <<lease, turns, started>>
       ELSE Done(x) /\ UNCHANGED attempt
  /\ UNCHANGED <<now, policy, grants, ledger, alias>>

\* The transfer was sent, or definitively not: then the claim is settled.
Broadcast(x) ==
  /\ job[x].pc = "execute"
  /\ \/ /\ attempt' = [attempt EXCEPT ![job[x].key] = "final"]
        /\ Done(x)
     \/ /\ job' = [job EXCEPT ![x] = [@ EXCEPT !.pc = "next", !.kind = "settle"]]
        /\ UNCHANGED <<attempt, lease, turns, started>>
  /\ UNCHANGED <<now, policy, grants, ledger, alias>>

\* settleGrantReservation: the exact attempt and its reservation, together.
SettleGrantReservation(x) ==
  /\ Ready(x, "settle")
  /\ LET g == job[x].grant
         k == job[x].key IN
       IF attempt[k] = "broadcasting"
         THEN /\ attempt' = [attempt EXCEPT ![k] = "cancelled"]
              /\ ledger' = [ledger EXCEPT ![g][k] =
                   IF @ = None THEN None ELSE [@ EXCEPT !.released = TRUE]]
         ELSE UNCHANGED <<attempt, ledger>>
  /\ Done(x)
  /\ UNCHANGED <<now, policy, grants, alias>>

\* The preview is confirmed or cancelled by the user in the meantime.
UserDecides(k) ==
  /\ attempt[k] = "previewed"
  /\ attempt' = [attempt EXCEPT ![k] = "user"]
  /\ UNCHANGED <<now, policy, grants, ledger, alias, lease, job, turns, started>>

-----------------------------------------------------------------------------
(* Grants                                                                  *)

\* A plain insert, outside the lock order; the provider sync comes after it.
CreateGrant(x) ==
  /\ ConnectionFree
  /\ \E g \in Grants :
       /\ grants[g].state = "none"
       /\ grants' = [grants EXCEPT ![g] = [state |-> "active", bound |-> FALSE, created |-> now]]
       /\ Begin(x, "sync", [Idle EXCEPT !.pc = "next", !.grant = g])
  /\ UNCHANGED <<now, policy, ledger, alias, attempt>>

\* syncGrant: an active grant without a binding would be provisioned, which the
\* provisioner of the runtime refuses: its binding is cleared.
SyncGrant(x) ==
  /\ Ready(x, "sync")
  /\ grants' = [grants EXCEPT ![job[x].grant].bound =
       @ /\ ~(job[x].row.state = "active" /\ ~job[x].row.bound)]
  /\ Done(x)
  /\ UNCHANGED <<now, policy, ledger, alias, attempt>>

\* syncRevocation: the provisioner refuses, and the grant keeps its binding.
SyncRevocation(x) ==
  /\ Ready(x, "unbind")
  /\ Done(x)
  /\ UNCHANGED <<now, rows>>

BeginRevoke(x) ==
  /\ \E g \in Grants :
       grants[g].state # "none" /\ Begin(x, "revoke", [Idle EXCEPT !.pc = "next", !.grant = g])
  /\ UNCHANGED <<now, rows>>

Revoke(G) ==
  /\ grants' = [g \in Grants |->
       IF g \in G THEN [grants[g] EXCEPT !.state = "revoked"] ELSE grants[g]]

Revocable(x) == grants[job[x].grant].state = "active"

\* revokeGrant: one UPDATE guarded by the state; then the sync.
RevokeGrant(x) ==
  /\ Ready(x, "revoke")
  /\ IF Revocable(x)
       THEN /\ Revoke({job[x].grant})
            /\ Became(x, Closed(job[x], "next", "unbind"))
            /\ UNCHANGED lease
       ELSE Done(x) /\ UNCHANGED grants
  /\ UNCHANGED <<now, policy, ledger, alias, attempt>>

-----------------------------------------------------------------------------
(* Contacts and the policy                                                 *)

Affected == IF Cardinality(alias) = 1 THEN ActiveGrants ELSE {}

\* A removal, or the replacement of the address of a contact.  The user
\* confirmed what previewRemoval said; a removal from the screen says nothing.
BeginRemoval(x, kind) ==
  /\ kind \in {"remove", "edit"}
  /\ \E c \in alias, said \in {Affected} \cup (IF kind = "remove" THEN {None} ELSE {}) :
       Begin(x, kind, [Idle EXCEPT !.pc = "plan", !.contact = c, !.disclosed = said])
  /\ UNCHANGED <<now, rows>>

\* Phase A, without locks: the aliases, then the grants of the address.
ReadRemovalPlan(x) ==
  /\ job[x].pc = "plan" /\ ConnectionFree
  /\ job' = [job EXCEPT ![x] =
       [@ EXCEPT !.pc = "next", !.planned = alias, !.plan = ActiveGrants]]
  /\ UNCHANGED <<now, rows, lease, turns, started>>

BumpDesiredRevision == policy' = [policy EXCEPT !.desired = @ + 1]

\* Phase B found aliases or grants that phase A did not plan for.
PlanMoved(j) == j.aliases # j.planned \/ ~(j.affected \subseteq j.plan)
FinalAffected(j) == IF Cardinality(j.aliases) = 1 THEN j.affected ELSE {}

\* applyRemoval and the address replacement of edit, under all their locks: a
\* moved plan is read again by a removal and refused by an edit.
ApplyRemoval(x) ==
  LET j == job[x]
      refused == PlanMoved(j) \/ j.disclosed \notin {None, FinalAffected(j)}
                   \/ j.contact \notin alias IN
    /\ Ready(x, "remove") \/ Ready(x, "edit")
    /\ \/ /\ PlanMoved(j) /\ j.kind = "remove" /\ j.tries + 1 < Attempts
          /\ Became(x, [Closed(j, "plan", "remove") EXCEPT !.tries = @ + 1])
          /\ UNCHANGED <<rows, lease>>
       \/ /\ refused /\ ~(PlanMoved(j) /\ j.kind = "remove" /\ j.tries + 1 < Attempts)
          /\ Done(x)
          /\ UNCHANGED rows
       \/ /\ ~refused
          /\ Revoke(FinalAffected(j) \cap ActiveGrants)
          /\ alias' = alias \ {j.contact}
          /\ BumpDesiredRevision
          /\ Done(x)
          /\ UNCHANGED <<ledger, attempt>>
    /\ UNCHANGED now

\* create, rename and enrollment: a new desired revision, and maybe an alias.
BeginMutation(x, kind) ==
  /\ kind \in {"contact", "enroll"}
  /\ Begin(x, kind, [Idle EXCEPT !.pc = "next"])
  /\ UNCHANGED <<now, rows>>

RunMutation(x) ==
  /\ \/ (Ready(x, "contact") /\ \E c \in Contacts : alias' = alias \cup {c})
     \/ (Ready(x, "enroll") /\ UNCHANGED alias)
  /\ BumpDesiredRevision
  /\ Done(x)
  /\ UNCHANGED <<now, grants, ledger, attempt>>

\* The reconciler commits what it composed for the revision it started with,
\* or invalidates the binding of the wallet.
BeginApply(x, kind) ==
  /\ kind \in {"apply", "invalidate"}
  /\ Begin(x, kind, [Idle EXCEPT !.pc = "next", !.rev = policy.desired])
  /\ UNCHANGED <<now, rows>>

Bind(G, b) ==
  grants' = [g \in Grants |->
    IF g \in G /\ grants[g].state = "active" THEN [grants[g] EXCEPT !.bound = b] ELSE grants[g]]

CommitApplyOutcome(x) ==
  /\ \/ /\ Ready(x, "apply") /\ policy.desired = job[x].rev
        /\ policy' = [policy EXCEPT !.applied = job[x].rev, !.hashes = TRUE]
        /\ Bind(job[x].affected, TRUE)
     \/ /\ Ready(x, "apply") /\ policy.desired # job[x].rev
        /\ UNCHANGED <<policy, grants>>
     \/ /\ Ready(x, "invalidate")
        /\ policy' = [policy EXCEPT !.hashes = FALSE]
        /\ Bind(job[x].affected, FALSE)
  /\ Done(x)
  /\ UNCHANGED <<now, ledger, alias, attempt>>

Tick ==
  /\ now < MaxTime
  /\ \A x \in Open : now < job[x].began + MaxWait
  /\ now' = now + 1
  /\ UNCHANGED <<rows, lease, job, turns, started>>

Step(x) ==
  \/ GateReadsPolicy(x) \/ GateListsGrants(x) \/ OpenTransaction(x)
  \/ Acquire(x) \/ NestedRead(x)
  \/ ClaimConsumption(x) \/ ClaimAttempt(x) \/ Broadcast(x) \/ SettleGrantReservation(x)
  \/ SyncGrant(x) \/ RevokeGrant(x) \/ SyncRevocation(x)
  \/ ReadRemovalPlan(x) \/ ApplyRemoval(x) \/ RunMutation(x) \/ CommitApplyOutcome(x)

Request(x) ==
  \/ BeginTurn(x) \/ CreateGrant(x) \/ BeginRevoke(x)
  \/ \E kind \in Kinds :
       BeginRemoval(x, kind) \/ BeginMutation(x, kind) \/ BeginApply(x, kind)

Next ==
  \/ \E x \in Slots : Request(x) \/ Step(x)
  \/ \E k \in Keys : UserDecides(k)
  \/ Tick

Spec == Init /\ [][Next]_vars

-----------------------------------------------------------------------------
(* Properties                                                              *)

\* A transaction of D waits for a lock that another of D holds, or for a second
\* connection while D has them all.
Stuck(D, x) ==
  \/ Blockers(x) \cap D # {}
  \/ (job[x].todo = {} /\ job[x].nested /\ Open \subseteq D /\ ~ConnectionFree)

\* The lock order leaves one way to wait for ever: transactions that all wait for
\* one another are all the open ones, have taken the whole pool, and wait in the
\* end for one of a kind that reads the grants on a second connection, which
\* itself waits for no lock.
OnlyThePoolDeadlocks ==
  \A D \in SUBSET Open :
    (D # {} /\ \A x \in D : Stuck(D, x)) =>
      /\ D = Open /\ ~ConnectionFree
      /\ \E x \in D : Blockers(x) \cap D = {} /\ job[x].kind \in NestedKinds

\* The cumulative cap of a grant: the claims of any period as long as the window
\* stay within it, but for the time a transaction may wait between the now() it
\* claims at and the clock it counts back from.
Spent(g, from, to) == Amount(g, {k \in Unreleased(g, from) : ledger[g][k].at <= to})
SpendsWithinCap ==
  \A g \in Grants, t \in -1..MaxTime : Spent(g, t, t + Window - MaxWait) <= Cumulative[g]

\* A turn reserves budget at most once, whatever candidates, retries and lost
\* answers it went through, and a transfer on its way keeps its reservation.
ReservationsAccountedFor ==
  \A k \in Keys :
    LET live == {g \in Grants : ledger[g][k] # None /\ ~ledger[g][k].released} IN
      /\ Cardinality(live) <= turns[k]
      /\ attempt[k] \in {"broadcasting", "final"} => live # {}

\* Budget is first claimed only while the policy is verified and the grant is
\* active, bound, unexpired and older than the request: revocations, removals,
\* applies and invalidations that committed before are never missed.
FreshSpendIsCovered ==
  [][\A g \in Grants, k \in Keys :
       ledger[g][k] = None /\ ledger'[g][k] # None =>
         /\ PolicyVerified
         /\ grants[g].state = "active" /\ grants[g].bound /\ now < Expiry[g]
         /\ \E x \in Slots : job[x].key = k /\ grants[g].created <= job[x].asked]_vars

-----------------------------------------------------------------------------
(* Said by the documents and refuted by the model: see the README          *)

\* docs/architecture.md:326: monotone acquisition "is deadlock-free by construction".
\* A transaction that waits for a second connection is no part of that order.
NoDeadlock == \A D \in SUBSET Open : D # {} => \E x \in D : ~Stuck(D, x)
=============================================================================
