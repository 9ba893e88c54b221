--------------------------- MODULE RecipientPolicy ---------------------------
(***************************************************************************)
(* The recipient policy of ONE wallet: contacts and grants say who may be  *)
(* paid, and every change records a desired revision and a durable intent. *)
(* A reconciler composes the rules, writes them at the provider, reads     *)
(* them back and commits the applied revision by compare-and-set: only the *)
(* reconcilers are wired to the provider, a request records that its       *)
(* change is pending.  Mutations and reconcilers hold a database lease;    *)
(* enrollment and the user's retry do not.                                 *)
(*                                                                         *)
(* Every database transaction and every provider request is one action;    *)
(* op holds what an operation keeps in memory between two of them.  Each   *)
(* actor is a process of its own.                                          *)
(*                                                                         *)
(* Abstracted: rules are the addresses of the ordinary rule and the grants *)
(* with a rule of their own (a hash stands for its rules); backoff is over *)
(* whenever the reconciler scans; signatures and listings succeed or fail  *)
(* with the request they belong to.                                        *)
(***************************************************************************)
EXTENDS Naturals

CONSTANTS
  Requests,     \* requests of the user being served, in any process
  Loops,        \* reconcilers, of the API and of the voice worker
  Contacts, Addresses, Grants,
  Baseline,     \* addresses consented to at enrollment
  AllowlistOf,  \* the recipients of each grant
  None,         \* SQL NULL; at the provider: no policy attached
  EmptyProven,  \* the probe proved that an empty policy denies
  UnionProven,  \* the probe proved that several rules are a union
  Ops,          \* operations explored
  Faults,       \* faults explored
  MaxRevision,  \* bound on the revisions recorded
  Cap,          \* RECONCILER_ATTEMPT_CAP
  MaxCrashes    \* bound on the crashes

OpKinds == {"mutate", "rename", "enroll", "retry", "grant", "refuse"}
FaultKinds == {"lost", "reject", "expire", "crash"}
Actors == Requests \cup Loops
Revisions == 1..MaxRevision
Rules == [to : SUBSET Addresses, grants : SUBSET Grants]

\* A lease row whose holder died without releasing it.
Leaked == "leaked"

ASSUME PolicyAssumption ==
  /\ Requests \cap Loops = {} /\ {None, Leaked} \cap Actors = {} /\ None \notin Rules
  /\ Addresses # {} /\ Baseline \subseteq Addresses /\ AllowlistOf \in [Grants -> SUBSET Addresses]
  /\ {EmptyProven, UnionProven} \subseteq BOOLEAN
  /\ Ops \subseteq OpKinds /\ Faults \subseteq FaultKinds
  /\ MaxRevision \in Nat /\ Cap \in Nat /\ MaxCrashes \in Nat

VARIABLES
  contact,  \* the contact rows
  grant,    \* delegated_grants.state
  bound,    \* the grants with a provider_policy_id
  row,      \* recipient_policy_state
  intents,  \* recipient_policy_sync_intent, by desired revision
  remote,   \* the rules of the attached policy at the provider, or None
  lease,    \* the holder of recipient_policy_leases
  op,       \* the operation of each actor
  crashes,
  overrun   \* history only: a write was made by an operation that had lost its
            \* lease, since the lease was last taken behind a closed gate

vars == <<contact, grant, bound, row, intents, remote, lease, op, crashes, overrun>>

Statuses == {"absent", "pending", "syncing", "applied", "retryable_failure",
             "blocked_conflict", "blocked_configuration"}
BlockedStatuses == {"blocked_conflict", "blocked_configuration"}
InFlightStates == {"pending", "applying"}
IntentStates == InFlightStates \cup {"none", "applied", "superseded", "failed"}

\* status_reason, as far as a later decision depends on it.
Reasons == {"none", "unverified", "unexplained", "other"}

Pcs == {"idle", "mutation", "stop", "unapplied", "release",
        "acquire", "claim", "reclaim", "decide", "get", "read", "grants", "contacts",
        "pristine", "patch", "create", "attach", "verify", "commit", "after", "settle"}

\* How an apply or an attempt of the reconciler ended.
Results == {"none", "verified", "unverified", "retryable", "blocked_conflict",
            "blocked_configuration", "applied", "failed", "syncing", "retry"}

Operations ==
  [pc : Pcs, intent : 0..MaxRevision, reclaim : BOOLEAN, attempts : Nat,
   rev : 0..MaxRevision, rules : Rules \cup {None},
   explained : SUBSET Addresses, result : Results, reason : Reasons]

NoRules == [to |-> {}, grants |-> {}]
NoOperation ==
  [pc |-> "idle", intent |-> 0, reclaim |-> FALSE, attempts |-> 0,
   rev |-> 0, rules |-> NoRules, explained |-> {}, result |-> "none", reason |-> "none"]

InFlight == {n \in Revisions : intents[n].state \in InFlightStates}

\* The CHECK constraints of recipient_policy_state and the unique index on the
\* intents in flight: a write that broke them would be lost with its transaction.
Constraints ==
  /\ row.applied <= row.desired
  /\ row.status = "applied" =>
       row.applied = row.desired /\ row.appliedRules # None /\ row.policy
  /\ \A m, n \in InFlight : m = n

\* Types, and the constraints of the schema never stop a write of the service.
TypeOK ==
  /\ contact \in [Contacts -> [state : {"none", "active", "inactive"}, at : Addresses]]
  /\ grant \in [Grants -> {"none", "active", "revoked"}]
  /\ bound \subseteq Grants
  /\ row \in [status : Statuses, reason : Reasons,
              desired : 0..MaxRevision, desiredRules : Rules \cup {None},
              applied : 0..MaxRevision, appliedRules : Rules \cup {None},
              policy : BOOLEAN]
  /\ intents \in [Revisions -> [state : IntentStates, rules : Rules, attempts : Nat]]
  /\ remote \in Rules \cup {None}
  /\ lease \in Actors \cup {None, Leaked}
  /\ op \in [Actors -> Operations]
  /\ crashes \in 0..MaxCrashes
  /\ overrun \in BOOLEAN
  /\ Constraints

Init ==
  /\ contact \in [Contacts -> [state : {"none"}, at : {CHOOSE a \in Addresses : TRUE}]]
  /\ grant = [g \in Grants |-> "none"]
  /\ bound = {}
  /\ row = [status |-> "absent", reason |-> "none", desired |-> 0, desiredRules |-> None,
            applied |-> 0, appliedRules |-> None, policy |-> FALSE]
  /\ intents = [n \in Revisions |-> [state |-> "none", rules |-> NoRules, attempts |-> 0]]
  /\ remote = None
  /\ lease = None
  /\ op = [x \in Actors |-> NoOperation]
  /\ crashes = 0
  /\ overrun = FALSE

-----------------------------------------------------------------------------
(* Composition and comparison                                              *)

ActiveGrants(grants) == {g \in Grants : grants[g] = "active"}
ActiveAddresses(contacts) ==
  {contacts[c].at : c \in {c \in Contacts : contacts[c].state = "active"}}

\* The addresses whose origin the composer can name: contact rows of any state
\* count, so that a removed contact does not block its own removal.
Provenance(contacts, grants) ==
  Baseline \cup {contacts[c].at : c \in {c \in Contacts : contacts[c].state # "none"}}
           \cup UNION {AllowlistOf[g] : g \in grants}

Compose(contacts, grants) ==
  [to |-> Baseline \cup ActiveAddresses(contacts), grants |-> grants]

\* The compositions the probes have not proved are refused.
Refused(rules) ==
  \/ rules = NoRules /\ ~EmptyProven
  \/ rules.to # {} /\ rules.grants # {} /\ ~UnionProven

\* A rule the composition does not have, or an address nobody can explain.
Unexplained(observed, rules, explained) ==
  \/ ~(observed.grants \subseteq rules.grants)
  \/ observed.to # {} /\ rules.to = {}
  \/ ~(observed.to \subseteq explained)

-----------------------------------------------------------------------------
(* Writing the rows                                                        *)

\* recordStop and the status transitions update a row that exists.
WithStatus(status, reason) ==
  IF row.status = "absent" THEN row
  ELSE [row EXCEPT !.status = status, !.reason = reason]

Superseded ==
  [n \in Revisions |-> IF n \in InFlight THEN [intents[n] EXCEPT !.state = "superseded"]
                       ELSE intents[n]]

\* Mutant of RecordRevision: the status of the revision before is kept.
RecordQuietly(rules) ==
  /\ row.desired < MaxRevision
  /\ row' = [row EXCEPT !.desired = @ + 1, !.desiredRules = rules]
  /\ intents' = [Superseded EXCEPT ![row.desired + 1] =
                   [state |-> "pending", rules |-> rules, attempts |-> 0]]

\* bumpDesiredRevision, supersedeInFlightIntent and insertIntent.
RecordRevision(rules) ==
  /\ row.desired < MaxRevision
  /\ row' = [row EXCEPT !.desired = @ + 1, !.desiredRules = rules,
                        !.status = "pending", !.reason = "none"]
  /\ intents' = [Superseded EXCEPT ![row.desired + 1] =
                   [state |-> "pending", rules |-> rules, attempts |-> 0]]

\* Mutant of InvalidateWalletBindings: the bindings of the grants survive.
InvalidateRow(status, reason) ==
  /\ row' = [row EXCEPT !.status = status, !.reason = reason,
                        !.desiredRules = None, !.appliedRules = None]
  /\ UNCHANGED bound

\* A proven divergence closes the gate for the whole wallet.
InvalidateWalletBindings(status, reason) ==
  /\ row' = [row EXCEPT !.status = status, !.reason = reason,
                        !.desiredRules = None, !.appliedRules = None]
  /\ bound' = bound \ ActiveGrants(grant)

Goto(x, pc) == op' = [op EXCEPT ![x].pc = pc]
Ends(x) == op' = [op EXCEPT ![x] = NoOperation]
Releases(x) == op' = [op EXCEPT ![x] = [NoOperation EXCEPT !.pc = "release"]]

\* An attempt of the reconciler, outside the apply it makes.
Attempting(l, pc) ==
  [NoOperation EXCEPT !.pc = pc, !.intent = op[l].intent, !.attempts = op[l].attempts]

stored == <<contact, grant, bound, row, intents>>

\* isWalletPolicyVerified: what a delegated spend asks of the wallet's row.
GateOpen ==
  /\ row.status = "applied" /\ row.applied = row.desired
  /\ row.appliedRules # None /\ row.appliedRules = row.desiredRules
  /\ row.policy

-----------------------------------------------------------------------------
(* What a mutation may change                                              *)

\* The grants that lose the last active contact of an address they pay.
Retired(before, c) ==
  {g \in ActiveGrants(grant) :
     /\ before[c].at \in AllowlistOf[g]
     /\ \A d \in Contacts \ {c} : ~(before[d].state = "active" /\ before[d].at = before[c].at)}

\* <<the contact rows after the mutation, the grants it revokes>>
Created(c) == {<<[contact EXCEPT ![c] = [state |-> "active", at |-> a]], {}>> : a \in Addresses}
Moved(c)   == {<<[contact EXCEPT ![c].at = a], Retired(contact, c)>> : a \in Addresses}
Removed(c) == {<<[contact EXCEPT ![c].state = "inactive"], Retired(contact, c)>>}

Changes ==
  (UNION {Created(c) : c \in {c \in Contacts : contact[c].state = "none"}}) \cup
  (UNION {Moved(c) \cup Removed(c) : c \in {c \in Contacts : contact[c].state = "active"}})

\* Identities of contacts and revisions are bounded.
Room == row.desired < MaxRevision /\ Changes # {}

-----------------------------------------------------------------------------
(* The lease                                                               *)

\* Mutant of LeaseFree: the lease is taken whoever holds it.
LeaseIgnored == TRUE

LeaseFree == lease = None

TakesLease(x) == lease' = x /\ overrun' = (overrun /\ GateOpen)

\* A write of x to the contacts, the provider or the applied rules.
Writes(x) == overrun' = (overrun \/ lease # x)

\* A mutation waits for the lease, with a bounded wait.
BeginMutation(r) ==
  /\ "mutate" \in Ops /\ Room
  /\ op[r].pc = "idle"
  /\ LeaseFree
  /\ TakesLease(r)
  /\ Goto(r, "mutation")
  /\ UNCHANGED <<stored, remote, crashes>>

\* The wait is over and the lease still taken: the stop is recorded without it.
BusyStop(r) ==
  /\ "mutate" \in Ops /\ Room
  /\ op[r].pc = "idle"
  /\ ~LeaseFree
  /\ row' = WithStatus("blocked_conflict", "other")
  /\ UNCHANGED <<contact, grant, bound, intents, remote, lease, op, crashes, overrun>>

\* Releasing is guarded by the token: a lease never taken, or taken over by
\* somebody else, is left alone.
ReleaseLease(x) ==
  /\ op[x].pc = "release"
  /\ lease' = IF lease = x THEN None ELSE lease
  /\ Ends(x)
  /\ UNCHANGED <<stored, remote, crashes, overrun>>

\* The lease of a dead holder runs out, and so may that of a slow one: it is
\* never renewed.
ExpireLease ==
  /\ lease # None
  /\ lease = Leaked \/ "expire" \in Faults
  /\ lease' = None
  /\ UNCHANGED <<stored, remote, op, crashes, overrun>>

-----------------------------------------------------------------------------
(* The mutations                                                           *)

\* create, edit of an address, remove: rows, revision and intent in one
\* transaction.  A refused composition commits the rows and stops.
Mutate(r) ==
  /\ op[r].pc = "mutation"
  /\ \E change \in Changes :
       LET grants == ActiveGrants(grant) \ change[2]
           rules  == Compose(change[1], grants)
       IN /\ contact' = change[1]
          /\ grant' = [g \in Grants |-> IF g \in change[2] THEN "revoked" ELSE grant[g]]
          /\ \/ /\ ~Refused(rules)
                /\ RecordRevision(rules)
                /\ Goto(r, "unapplied")
             \/ /\ Refused(rules)
                /\ row' = [row EXCEPT !.status = "blocked_configuration", !.reason = "other"]
                /\ Releases(r)
                /\ UNCHANGED intents
  /\ Writes(r)
  /\ UNCHANGED <<bound, remote, lease, crashes>>

\* The rules a metadata edit must leave as they are, or None.
RecordedRules ==
  IF row.applied > 0 /\ row.applied = row.desired /\ row.appliedRules # None
  THEN row.appliedRules
  ELSE IF row.desired > 0 THEN row.desiredRules ELSE None

\* An edit of the name records a revision too; its conflict rolls back.
Rename(r) ==
  LET rules == Compose(contact, ActiveGrants(grant))
  IN /\ "rename" \in Ops
     /\ op[r].pc = "mutation"
     /\ \E c \in Contacts : contact[c].state = "active"
     /\ \/ /\ ~Refused(rules)
           /\ RecordedRules \in {None, rules}
           /\ RecordRevision(rules)
           /\ Goto(r, "unapplied")
        \/ /\ Refused(rules)
           /\ row' = [row EXCEPT !.status = "blocked_configuration", !.reason = "other"]
           /\ Releases(r)
           /\ UNCHANGED intents
        \/ /\ ~Refused(rules)
           /\ RecordedRules \notin {None, rules}
           /\ Goto(r, "stop")
           /\ UNCHANGED <<row, intents>>
     /\ UNCHANGED <<contact, grant, bound, remote, lease, crashes, overrun>>

\* A stale version, a replayed key, a consumed proposal or a wrong disclosure.
RefuseMutation(r) ==
  /\ "refuse" \in Ops \/ ~Room
  /\ op[r].pc = "mutation"
  /\ Releases(r) \/ Goto(r, "stop")
  /\ UNCHANGED <<stored, remote, lease, crashes, overrun>>

\* The conflict survives the rollback, in a transaction of its own.
RecordConflict(r) ==
  /\ op[r].pc = "stop"
  /\ row' = WithStatus("blocked_conflict", "other")
  /\ Releases(r)
  /\ UNCHANGED <<contact, grant, bound, intents, remote, lease, crashes, overrun>>

\* Enrollment records an intent without the lease.
Enroll(r) ==
  LET rules == Compose(contact, ActiveGrants(grant))
  IN /\ "enroll" \in Ops
     /\ op[r].pc = "idle"
     /\ ~Refused(rules)
     /\ RecordRevision(rules)
     /\ Goto(r, "unapplied")
     /\ UNCHANGED <<contact, grant, bound, remote, lease, crashes, overrun>>

\* A request has no provider: it says the revision is pending.
RecordApplyPending(r) ==
  /\ op[r].pc = "unapplied"
  /\ row' = WithStatus("pending", "other")
  /\ Releases(r)
  /\ UNCHANGED <<contact, grant, bound, intents, remote, lease, crashes, overrun>>

\* The user's retry ends there too, whatever the status is and without the
\* lease.
Retry(r) ==
  /\ "retry" \in Ops
  /\ op[r].pc = "idle"
  /\ row' = WithStatus("pending", "other")
  /\ UNCHANGED <<contact, grant, bound, intents, remote, lease, op, crashes, overrun>>

\* Creating or revoking a grant changes the composition, not the revision.
CreateGrant(g) ==
  /\ "grant" \in Ops
  /\ grant[g] = "none"
  /\ grant' = [grant EXCEPT ![g] = "active"]
  /\ UNCHANGED <<contact, bound, row, intents, remote, lease, op, crashes, overrun>>

RevokeGrant(g) ==
  /\ "grant" \in Ops
  /\ grant[g] = "active"
  /\ grant' = [grant EXCEPT ![g] = "revoked"]
  /\ UNCHANGED <<contact, bound, row, intents, remote, lease, op, crashes, overrun>>

-----------------------------------------------------------------------------
(* The apply: read, compose, compare, write, read back, commit             *)

\* What may become of a provider request: done and answered, done or not done
\* and unanswered, rejected.
Answers ==
  {"ok"} \cup (IF "lost" \in Faults THEN {"landed", "lost"} ELSE {})
         \cup (IF "reject" \in Faults THEN {"rejected"} ELSE {})
Done(answer) == answer \in {"ok", "landed"}

\* Where the apply of l goes after an answer, if not on to the next request.
Concludes(l, result, reason) ==
  op' = [op EXCEPT ![l].pc = "commit", ![l].result = result, ![l].reason = reason,
                   ![l].rules = IF result = "verified" THEN @ ELSE NoRules,
                   ![l].explained = {}]

ReadDesired(l) ==
  /\ op[l].pc = "read"
  /\ op' = [op EXCEPT ![l].pc = "grants", ![l].rev = row.desired]
  /\ UNCHANGED <<stored, remote, lease, crashes, overrun>>

\* The active grants are read in a transaction before the contacts.
ReadGrants(l) ==
  /\ op[l].pc = "grants"
  /\ op' = [op EXCEPT ![l].pc = "contacts",
                      ![l].rules = [to |-> {}, grants |-> ActiveGrants(grant)]]
  /\ UNCHANGED <<stored, remote, lease, crashes, overrun>>

\* A refused composition throws: nothing is recorded.
ComposeRules(l) ==
  LET grants == op[l].rules.grants
      rules  == Compose(contact, grants)
  IN /\ op[l].pc = "contacts"
     /\ IF Refused(rules) THEN Releases(l)
        ELSE op' = [op EXCEPT ![l].pc = "pristine", ![l].rules = rules,
                              ![l].explained = Provenance(contact, grants)]
     /\ UNCHANGED <<stored, remote, lease, crashes, overrun>>

\* The owner's listing and the readback of the attached policy.
PristineReadback(l) ==
  /\ op[l].pc = "pristine"
  /\ \E answer \in Answers :
       \/ /\ answer = "rejected"
          /\ Concludes(l, "blocked_configuration", "other")
       \/ /\ answer \in {"landed", "lost"}
          /\ Concludes(l, "retryable", "other")
       \/ /\ answer = "ok"
          /\ \/ /\ remote = None
                /\ Goto(l, "create")
             \/ /\ remote # None
                /\ Unexplained(remote, op[l].rules, op[l].explained)
                /\ Concludes(l, "blocked_conflict", "unexplained")
             \/ /\ remote = op[l].rules
                /\ Concludes(l, "verified", "none")
             \/ /\ remote \notin {None, op[l].rules}
                /\ ~Unexplained(remote, op[l].rules, op[l].explained)
                /\ Goto(l, "patch")
  /\ UNCHANGED <<stored, remote, lease, crashes, overrun>>

\* Mutant of AfterWrite: a write without an answer is taken for done.
AfterWriteTrusts(l, answer, next) ==
  CASE answer = "ok"       -> Goto(l, next)
    [] answer = "rejected" -> Concludes(l, "retryable", "other")
    [] OTHER               -> Concludes(l, "verified", "none")

\* What a writing request leaves to do.
AfterWrite(l, answer, next) ==
  CASE answer = "ok"       -> Goto(l, next)
    [] answer = "rejected" -> Concludes(l, "retryable", "other")
    [] OTHER               -> Concludes(l, "unverified", "unverified")

\* The rules of a write reach the provider if it was done.
ProviderGets(l, answer) ==
  IF Done(answer) THEN remote' = op[l].rules /\ Writes(l) ELSE UNCHANGED <<remote, overrun>>

PatchPolicy(l) ==
  /\ op[l].pc = "patch"
  /\ \E answer \in Answers :
       /\ ProviderGets(l, answer)
       /\ AfterWrite(l, answer, "verify")
  /\ UNCHANGED <<stored, lease, crashes>>

\* A policy that is created is not yet attached to the signer.
CreatePolicy(l) ==
  /\ op[l].pc = "create"
  /\ \E answer \in Answers : AfterWrite(l, answer, "attach")
  /\ UNCHANGED <<stored, remote, lease, crashes, overrun>>

\* A signer that has another policy by now refuses this one; the client's read
\* of the signers and its write of them are one step here.
AttachPolicy(l) ==
  /\ op[l].pc = "attach"
  /\ \E answer \in Answers \cup {"rejected"} :
       /\ remote # None => answer \notin {"ok", "landed"}
       /\ remote = None /\ "reject" \notin Faults => answer # "rejected"
       /\ ProviderGets(l, answer)
       /\ AfterWrite(l, answer, "verify")
  /\ UNCHANGED <<stored, lease, crashes>>

VerifyReadback(l) ==
  /\ op[l].pc = "verify"
  /\ \E answer \in Answers :
       \/ /\ answer # "ok"
          /\ Concludes(l, "unverified", "unverified")
       \/ /\ answer = "ok" /\ remote = op[l].rules
          /\ Concludes(l, "verified", "none")
       \/ /\ answer = "ok" /\ remote # op[l].rules
          /\ Concludes(l, "blocked_conflict",
               IF Unexplained(remote, op[l].rules, op[l].explained)
               THEN "unexplained" ELSE "other")
  /\ UNCHANGED <<stored, remote, lease, crashes, overrun>>

\* Mutant of Current: the UPDATE has no revision in its WHERE clause.
Overwrites(l) == row.desired >= op[l].rev

\* The compare-and-set of the applied revision, with the binding of the grants.
Current(l) == row.desired = op[l].rev

CommitVerified(l) ==
  \/ /\ Current(l)
     /\ row' = [row EXCEPT !.applied = op[l].rev, !.appliedRules = op[l].rules,
                           !.policy = TRUE, !.status = "applied", !.reason = "none"]
     /\ bound' = bound \cup ActiveGrants(grant)
     /\ Writes(l)
     /\ UNCHANGED intents
  \/ /\ ~Current(l)
     /\ intents' = Superseded
     /\ UNCHANGED <<row, bound, overrun>>

CommitApplyOutcome(l) ==
  /\ op[l].pc = "commit"
  /\ \/ /\ op[l].result = "verified"
        /\ CommitVerified(l)
     \/ /\ op[l].result \in {"unverified", "retryable"}
        /\ row' = WithStatus("pending", op[l].reason)
        /\ UNCHANGED <<bound, intents, overrun>>
     \/ /\ op[l].result \in BlockedStatuses
        /\ InvalidateWalletBindings(op[l].result, op[l].reason)
        /\ UNCHANGED <<intents, overrun>>
  /\ op' = [op EXCEPT ![l] = Attempting(l, "after")]
  /\ UNCHANGED <<contact, grant, remote, lease, crashes>>

-----------------------------------------------------------------------------
(* The reconciler                                                          *)

\* Mutant of Due: a row in flight is left to the holder it names.
DuePending == {n \in InFlight : intents[n].state = "pending"}

\* The due scan; the index allows one intent in flight.
Due == InFlight

Scan(l) ==
  /\ op[l].pc = "idle"
  /\ \E n \in Due :
       op' = [op EXCEPT ![l] = [NoOperation EXCEPT
                !.pc = "acquire", !.intent = n, !.reclaim = intents[n].state = "applying"]]
  /\ UNCHANGED <<stored, remote, lease, crashes, overrun>>

\* A busy lease is left to its holder, and nothing recorded.
AcquireOrDefer(l) ==
  /\ op[l].pc = "acquire"
  /\ \/ /\ LeaseFree
        /\ TakesLease(l)
        /\ Goto(l, "claim")
     \/ /\ ~LeaseFree
        /\ Ends(l)
        /\ UNCHANGED <<lease, overrun>>
  /\ UNCHANGED <<stored, remote, crashes>>

ClaimIntent(l) ==
  LET n == op[l].intent
  IN /\ op[l].pc = "claim"
     /\ \/ /\ n \in InFlight
           /\ intents' = [intents EXCEPT ![n].state = "applying"]
           /\ op' = [op EXCEPT ![l] =
                       [Attempting(l, IF op[l].reclaim THEN "reclaim" ELSE "decide")
                          EXCEPT !.attempts = intents[n].attempts]]
        \/ /\ n \notin InFlight
           /\ Releases(l)
           /\ UNCHANGED intents
     /\ UNCHANGED <<contact, grant, bound, row, remote, lease, crashes, overrun>>

\* The marker of the holder that died is cleared, with an audit.
ReclaimIntent(l) ==
  LET n == op[l].intent
  IN /\ op[l].pc = "reclaim"
     /\ intents' = [intents EXCEPT ![n].state = IF @ = "applying" THEN "pending" ELSE @]
     /\ Goto(l, "decide")
     /\ UNCHANGED <<contact, grant, bound, row, remote, lease, crashes, overrun>>

Settles(l, result) ==
  op' = [op EXCEPT ![l] = [Attempting(l, "settle") EXCEPT !.result = result]]

\* A write that may have landed is decided by reading the policy back: the
\* applied rules are remembered for it.
DecideBeforeRetry(l) ==
  /\ op[l].pc = "decide"
  /\ \/ /\ row.reason # "unverified"
        /\ Goto(l, "read")
     \/ /\ row.reason = "unverified" /\ ~row.policy
        /\ Settles(l, "syncing")
     \/ /\ row.reason = "unverified" /\ row.policy
        /\ op' = [op EXCEPT ![l].pc = "get", ![l].rules = row.appliedRules]
  /\ UNCHANGED <<stored, remote, lease, crashes, overrun>>

DecidingReadback(l) ==
  /\ op[l].pc = "get"
  /\ \E answer \in Answers :
       \/ /\ answer # "ok"
          /\ Settles(l, "syncing")
       \/ /\ answer = "ok"
          /\ remote \in {intents[op[l].intent].rules, op[l].rules}
          /\ Goto(l, "read")
       \/ /\ answer = "ok"
          /\ remote \notin {intents[op[l].intent].rules, op[l].rules}
          /\ Settles(l, "blocked_conflict")
  /\ UNCHANGED <<stored, remote, lease, crashes, overrun>>

\* The state is read again to learn what the apply recorded.
ReadAfterwards(l) ==
  /\ op[l].pc = "after"
  /\ Settles(l, CASE row.status = "applied" /\ row.applied = op[l].intent -> "applied"
                  [] row.status \in BlockedStatuses -> "failed"
                  [] OTHER -> "retry")
  /\ UNCHANGED <<stored, remote, lease, crashes, overrun>>

Exhausted(l) == op[l].attempts + 1 >= Cap

\* settleIntent writes the intent whatever state it is in; the index refuses a
\* second one in flight, and then the whole transaction is lost.
SettledState(l) ==
  CASE op[l].result = "applied"                       -> "applied"
    [] op[l].result \in {"failed", "blocked_conflict"} -> "failed"
    [] OTHER -> IF Exhausted(l) THEN "failed" ELSE "pending"

\* Mutant of SettledRow: only an undecided outcome is worth a status.
SyncingRow(l) ==
  IF op[l].result = "syncing" /\ ~Exhausted(l) THEN WithStatus("syncing", "other") ELSE row

\* An exhausted budget says why automatic retries stopped.
SettledRow(l) ==
  CASE op[l].result \in {"syncing", "retry"} /\ Exhausted(l) ->
         WithStatus("retryable_failure", "other")
    [] op[l].result = "syncing" /\ ~Exhausted(l) -> WithStatus("syncing", "other")
    [] OTHER -> row

Settle(l) ==
  LET n == op[l].intent
      clash == SettledState(l) = "pending" /\ ~(InFlight \subseteq {n})
  IN /\ op[l].pc = "settle"
     /\ \/ /\ ~clash
           /\ intents' = [intents EXCEPT ![n].state = SettledState(l),
                ![n].attempts = IF op[l].result = "applied" THEN @ ELSE @ + 1]
           /\ \/ /\ op[l].result = "blocked_conflict"
                 /\ InvalidateWalletBindings("blocked_conflict", "unexplained")
              \/ /\ op[l].result # "blocked_conflict"
                 /\ row' = SettledRow(l)
                 /\ UNCHANGED bound
        \/ /\ clash
           /\ UNCHANGED <<row, bound, intents>>
     /\ Releases(l)
     /\ UNCHANGED <<contact, grant, remote, lease, crashes, overrun>>

-----------------------------------------------------------------------------
(* Crashes, and the specification                                          *)

\* A process dies; what it holds in memory is lost and its lease runs out.
Crash(x) ==
  /\ "crash" \in Faults /\ crashes < MaxCrashes
  /\ op[x].pc # "idle"
  /\ Ends(x)
  /\ lease' = IF lease = x THEN Leaked ELSE lease
  /\ crashes' = crashes + 1
  /\ UNCHANGED <<stored, remote, overrun>>

RequestArrives(r) == BeginMutation(r) \/ BusyStop(r) \/ Enroll(r) \/ Retry(r)

RequestStep(r) ==
  \/ Mutate(r) \/ Rename(r) \/ RefuseMutation(r) \/ RecordConflict(r)
  \/ RecordApplyPending(r) \/ ReleaseLease(r)

LoopStep(l) ==
  \/ Scan(l) \/ AcquireOrDefer(l) \/ ClaimIntent(l) \/ ReclaimIntent(l)
  \/ DecideBeforeRetry(l) \/ DecidingReadback(l)
  \/ ReadDesired(l) \/ ReadGrants(l) \/ ComposeRules(l)
  \/ PristineReadback(l) \/ PatchPolicy(l) \/ CreatePolicy(l) \/ AttachPolicy(l)
  \/ VerifyReadback(l) \/ CommitApplyOutcome(l)
  \/ ReadAfterwards(l) \/ Settle(l) \/ ReleaseLease(l)

Next ==
  \/ \E r \in Requests : RequestArrives(r) \/ RequestStep(r)
  \/ \E l \in Loops : LoopStep(l)
  \/ \E g \in Grants : CreateGrant(g) \/ RevokeGrant(g)
  \/ \E x \in Actors : Crash(x)
  \/ ExpireLease

Spec == Init /\ [][Next]_vars

\* A request being served runs to its end, a reconciler keeps ticking, and the
\* lease of a dead holder runs out.
Fairness ==
  /\ \A r \in Requests : WF_vars(RequestStep(r))
  /\ \A l \in Loops : WF_vars(LoopStep(l))
  /\ WF_vars(lease = Leaked /\ ExpireLease)

FairSpec == Spec /\ Fairness

-----------------------------------------------------------------------------
(* Properties                                                              *)

\* An active grant is bound only while some verified rules stand: a proven
\* divergence takes the binding of every active grant away, whoever proved it
\* and whatever else was under way (repository.ts:864-885).
BoundNeedsProof == bound \cap ActiveGrants(grant) # {} => row.appliedRules # None

\* The revisions behave as promised: a stale writer never moves the applied
\* revision, and only the verification of the latest revision opens the gate.
Promise == INSTANCE PolicyRevisions WITH
  desired <- row.desired, applied <- row.applied, open <- GateOpen
KeepsRevisionPromise == Promise!Spec

\* Nobody is paid through an open gate but the contacts of now: the provider
\* enforces the addresses that were applied, and they are the ones the contacts
\* ask for, whatever requests, retries, enrollments, grants, reconcilers and lost
\* answers came in between, unless an operation that had lost its lease wrote.
OpenGateIsEnforced ==
  GateOpen /\ ~overrun =>
    /\ remote # None /\ remote.to = row.appliedRules.to
    /\ row.appliedRules.to = Baseline \cup ActiveAddresses(contact)

\* While the gate is open, the provider enforces the rules the row says were
\* applied: no write of another operation slipped in since their readback.
GateMatchesRemote == GateOpen => remote = row.appliedRules

\* Every intent is settled or superseded in the end: crashes, lost answers and
\* competing operations leave none in flight for ever.
IntentSettles == \A n \in Revisions : n \in InFlight ~> n \notin InFlight

\* The user is not left with a change that is forever being enabled: pending
\* and syncing end as applied, blocked or a failure to act on.
StatusResolves ==
  row.status \in {"pending", "syncing"} ~> row.status \notin {"pending", "syncing"}

-----------------------------------------------------------------------------
(* Said by the documents and refuted by the model: see the README          *)

\* With no other writer at the provider, the wallet's own former rules are
\* never taken for somebody else's.
OwnRulesRecognized == row.reason # "unexplained"

=============================================================================
