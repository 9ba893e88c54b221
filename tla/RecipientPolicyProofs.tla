------------------------ MODULE RecipientPolicyProofs ------------------------
(***************************************************************************)
(* Proofs about RecipientPolicy, for every number of requests, reconcilers *)
(* contacts, grants and revisions: the schema's constraints never stop a   *)
(* write, bindings rest on verified rules, the revisions refine            *)
(* PolicyRevisions, and an open gate means that the provider enforces what *)
(* the contacts ask for until somebody writes without the lease he had.    *)
(*                                                                         *)
(* The inductive invariant is TypeOK with two facts: an apply that got as  *)
(* far as composing holds rules, so what it commits is never NULL; and     *)
(* only grants that were created are bound, so creating one binds nothing. *)
(*                                                                         *)
(* The last part is about the rules themselves, PolicyComposition: what    *)
(* the readback comparison guarantees of every rule set and every consent, *)
(* and not only of the small ones TLC evaluates.                           *)
(***************************************************************************)
EXTENDS RecipientPolicy, PolicyComposition, WellFoundedInduction, TLAPS

\* Where an operation may still hold the NULL it read as the applied rules.
Unruled == {"get", "read", "grants"}

OpOK ==
  /\ op \in [Actors -> Operations]
  /\ \A x \in Actors : op[x].pc \notin Unruled => op[x].rules \in Rules

ContactOK == contact \in [Contacts -> [state : {"none", "active", "inactive"}, at : Addresses]]
GrantOK == grant \in [Grants -> {"none", "active", "revoked"}]

RowRecords ==
  [status : Statuses, reason : Reasons,
   desired : 0..MaxRevision, desiredRules : Rules \cup {None},
   applied : 0..MaxRevision, appliedRules : Rules \cup {None},
   policy : BOOLEAN]

RowOK ==
  /\ row \in RowRecords
  /\ row.applied <= row.desired
  /\ row.status = "applied" =>
       row.applied = row.desired /\ row.appliedRules # None /\ row.policy

IntentRecords == [state : IntentStates, rules : Rules, attempts : Nat]

IntentsOK ==
  /\ intents \in [Revisions -> IntentRecords]
  /\ \A m, n \in InFlight : m = n

\* Only grants that were created are bound, and only over verified rules.
BindOK ==
  /\ bound \subseteq {g \in Grants : grant[g] # "none"}
  /\ BoundNeedsProof

RestOK ==
  /\ remote \in Rules \cup {None}
  /\ lease \in Actors \cup {None, Leaked}
  /\ crashes \in 0..MaxCrashes
  /\ overrun \in BOOLEAN

\* What a step may do to the revisions: nothing, record one, close the gate, or
\* verify the latest one.
RowMoves ==
  \/ row' = row
  \/ /\ row'.desired \in {row.desired, row.desired + 1} /\ row'.applied = row.applied
     /\ row'.status # "applied"
  \/ row'.desired = row.desired /\ row'.applied = row.desired

IInv ==
  OpOK /\ ContactOK /\ GrantOK /\ RowOK /\ IntentsOK /\ BindOK /\ RestOK

-----------------------------------------------------------------------------
(* Operations                                                              *)

\* An operation at rest, or releasing, holds the empty rules.
LEMMA RestingOperations ==
  /\ NoRules \in Rules
  /\ NoOperation \in Operations
  /\ NoOperation.rules = NoRules
  /\ \A pc \in Pcs : /\ [NoOperation EXCEPT !.pc = pc] \in Operations
                     /\ [NoOperation EXCEPT !.pc = pc].rules = NoRules
<1>1. NoRules \in Rules
  BY DEF NoRules, Rules
<1>2. NoOperation \in Operations /\ NoOperation.rules = NoRules
  BY <1>1, PolicyAssumption DEF NoOperation, Operations, Pcs, Results, Reasons
<1>3. \A y \in Operations, pc \in Pcs :
        [y EXCEPT !.pc = pc] \in Operations /\ [y EXCEPT !.pc = pc].rules = y.rules
  BY DEF Operations
<1> QED
  BY <1>1, <1>2, <1>3

\* Replacing the operation of one actor by one that holds its rules.
LEMMA OpReplaced ==
  ASSUME OpOK, NEW x \in Actors, NEW y \in Operations,
         y.pc \notin Unruled => y.rules \in Rules,
         op' = [op EXCEPT ![x] = y]
  PROVE  OpOK'
BY DEF OpOK

LEMMA GotoOK ==
  ASSUME OpOK, NEW x \in Actors, NEW pc \in Pcs,
         op[x].pc \notin Unruled \/ pc \in Unruled,
         Goto(x, pc)
  PROVE  OpOK'
<1> DEFINE y == [op[x] EXCEPT !.pc = pc]
<1>1. y \in Operations /\ y.pc = pc /\ y.rules = op[x].rules
  BY DEF OpOK, Operations
<1>2. op' = [op EXCEPT ![x] = y]
  BY DEF Goto
<1>3. y.pc \notin Unruled => y.rules \in Rules
  BY <1>1 DEF OpOK
<1> HIDE DEF y
<1> QED
  BY <1>1, <1>2, <1>3, OpReplaced

LEMMA EndsOK == ASSUME OpOK, NEW x \in Actors, Ends(x) PROVE OpOK'
BY RestingOperations, OpReplaced DEF Ends

LEMMA ReleasesOK == ASSUME OpOK, NEW x \in Actors, Releases(x) PROVE OpOK'
BY RestingOperations, OpReplaced DEF Releases, Pcs

\* An attempt between its steps.
LEMMA AttemptingOK ==
  ASSUME OpOK, NEW l \in Actors, NEW pc \in Pcs
  PROVE  Attempting(l, pc) \in Operations /\ Attempting(l, pc).rules \in Rules
<1>1. op[l].intent \in 0..MaxRevision /\ op[l].attempts \in Nat
  BY DEF OpOK, Operations
<1> QED
  BY <1>1, RestingOperations DEF Attempting, Operations, NoOperation

LEMMA SettlesOK ==
  ASSUME OpOK, NEW l \in Actors, NEW result \in Results, Settles(l, result)
  PROVE  OpOK'
<1> DEFINE y == [Attempting(l, "settle") EXCEPT !.result = result]
<1>1. Attempting(l, "settle") \in Operations /\ Attempting(l, "settle").rules \in Rules
  BY AttemptingOK DEF Pcs
<1>2. y \in Operations /\ y.rules \in Rules
  BY <1>1 DEF Operations
<1>3. op' = [op EXCEPT ![l] = y]
  BY DEF Settles
<1> HIDE DEF y
<1> QED
  BY <1>2, <1>3, OpReplaced

LEMMA ConcludesOK ==
  ASSUME OpOK, NEW l \in Actors, op[l].pc \notin Unruled,
         NEW result \in Results, NEW reason \in Reasons, Concludes(l, result, reason)
  PROVE  OpOK'
<1> DEFINE y == [op[l] EXCEPT !.pc = "commit", !.result = result, !.reason = reason,
                              !.rules = IF result = "verified" THEN @ ELSE NoRules,
                              !.explained = {}]
<1>1. op[l] \in Operations /\ op[l].rules \in Rules
  BY DEF OpOK
<1>2. PICK r \in Rules : r = IF result = "verified" THEN op[l].rules ELSE NoRules
  BY <1>1, RestingOperations
<1>3. y = [op[l] EXCEPT !.pc = "commit", !.result = result, !.reason = reason,
                        !.rules = r, !.explained = {}]
  BY <1>2
<1>4. y \in Operations /\ y.rules \in Rules
  BY <1>1, <1>3 DEF Operations, Pcs
<1>5. op' = [op EXCEPT ![l] = y]
  BY DEF Concludes
<1> HIDE DEF y
<1> QED
  BY <1>4, <1>5, OpReplaced

\* What a writing request leaves to do is an operation again.
LEMMA AfterWriteOK ==
  ASSUME OpOK, NEW l \in Actors, op[l].pc \notin Unruled,
         NEW answer, NEW next \in Pcs, AfterWrite(l, answer, next)
  PROVE  OpOK'
<1>1. CASE Goto(l, next)
  BY <1>1, GotoOK
<1>2. CASE Concludes(l, "retryable", "other")
  BY <1>2, ConcludesOK DEF Results, Reasons
<1>3. CASE Concludes(l, "unverified", "unverified")
  BY <1>3, ConcludesOK DEF Results, Reasons
<1> QED
  BY <1>1, <1>2, <1>3 DEF AfterWrite

-----------------------------------------------------------------------------
(* Rows                                                                    *)

\* A status other than applied never breaks a constraint.
LEMMA StatusOK ==
  ASSUME RowOK, NEW status \in Statuses \ {"applied"}, NEW reason \in Reasons,
         \/ row' = WithStatus(status, reason)
         \/ row' = [row EXCEPT !.status = status, !.reason = reason]
  PROVE  RowOK' /\ RowMoves /\ row'.appliedRules = row.appliedRules
BY DEF RowOK, RowRecords, WithStatus, RowMoves

\* Invalidation leaves no active grant bound.
LEMMA InvalidateOK ==
  ASSUME RowOK, GrantOK, BindOK, UNCHANGED grant,
         NEW status \in Statuses \ {"applied"}, NEW reason \in Reasons,
         InvalidateWalletBindings(status, reason)
  PROVE  RowOK' /\ BindOK' /\ RowMoves
<1>1. RowOK' /\ RowMoves
  BY DEF RowOK, RowRecords, InvalidateWalletBindings, RowMoves
<1>2. bound' = bound \ ActiveGrants(grant) /\ grant' = grant
  BY DEF InvalidateWalletBindings
<1> QED
  BY <1>1, <1>2 DEF BindOK, BoundNeedsProof, ActiveGrants

\* Bindings keep their proof while neither they nor the rules they rest on
\* change and no grant comes to life.
LEMMA BindFrame ==
  ASSUME BindOK, UNCHANGED bound, row'.appliedRules = row.appliedRules,
         \A g \in Grants : /\ grant'[g] = "active" => grant[g] = "active" \/ g \notin bound
                           /\ grant'[g] = "none" => grant[g] = "none"
  PROVE  BindOK'
BY DEF BindOK, BoundNeedsProof, ActiveGrants

\* A step that changes no row keeps what is known of the rows.
LEMMA StoredFrame ==
  ASSUME IInv, UNCHANGED stored
  PROVE  ContactOK' /\ GrantOK' /\ RowOK' /\ IntentsOK' /\ BindOK' /\ RowMoves
BY DEF IInv, stored, RowMoves, ContactOK, GrantOK, RowOK, IntentsOK, InFlight, BindOK,
       BoundNeedsProof, ActiveGrants

LEMMA RestFrame ==
  ASSUME RestOK, NEW x, UNCHANGED overrun \/ TakesLease(x) \/ Writes(x),
         remote' \in Rules \cup {None}, lease' \in Actors \cup {None, Leaked}, UNCHANGED crashes
  PROVE  RestOK'
<1>1. overrun' \in BOOLEAN
  BY DEF RestOK, TakesLease, Writes
<1> QED
  BY <1>1 DEF RestOK

\* The applied revision is recorded complete.
LEMMA AppliedOK ==
  ASSUME RowOK, NEW rules \in Rules,
         row' = [row EXCEPT !.applied = row.desired, !.appliedRules = rules,
                            !.policy = TRUE, !.status = "applied", !.reason = "none"]
  PROVE  /\ RowOK' /\ row'.appliedRules # None
         /\ row'.desired = row.desired /\ row'.applied = row.desired
<1>1. rules # None /\ rules \in Rules \cup {None}
  BY PolicyAssumption
<1>2. row.desired \in 0..MaxRevision /\ row.desired <= row.desired
  BY PolicyAssumption DEF RowOK, RowRecords
<1>3. "applied" \in Statuses /\ "none" \in Reasons
  BY DEF Statuses, Reasons
<1>4. row' \in RowRecords
  BY <1>1, <1>2, <1>3 DEF RowOK, RowRecords
<1>5. /\ row'.applied = row.desired /\ row'.desired = row.desired
      /\ row'.appliedRules = rules /\ row'.policy = TRUE
  BY DEF RowOK, RowRecords
<1> QED
  BY <1>1, <1>2, <1>4, <1>5 DEF RowOK

\* Superseding leaves nothing in flight.
LEMMA SupersededOK ==
  ASSUME IntentsOK
  PROVE  /\ Superseded \in [Revisions -> IntentRecords]
         /\ \A n \in Revisions : Superseded[n].state \notin InFlightStates
<1>1. \A n \in Revisions : intents[n] \in IntentRecords
  BY DEF IntentsOK
<1>2. \A n \in Revisions :
        [intents[n] EXCEPT !.state = "superseded"] \in IntentRecords
  BY <1>1 DEF IntentRecords, IntentStates
<1> QED
  BY <1>1, <1>2 DEF Superseded, InFlight, InFlightStates, IntentRecords

\* A recorded revision is the only one in flight.
LEMMA RecordOK ==
  ASSUME RowOK, IntentsOK, NEW rules \in Rules, RecordRevision(rules)
  PROVE  RowOK' /\ IntentsOK' /\ RowMoves /\ row'.appliedRules = row.appliedRules
<1> DEFINE fresh == [state |-> "pending", rules |-> rules, attempts |-> 0]
<1> DEFINE next == row.desired + 1
<1>0. next \in 0..MaxRevision /\ row.applied <= next
  BY PolicyAssumption DEF RowOK, RowRecords, RecordRevision
<1>1. /\ RowOK' /\ row'.desired = row.desired + 1 /\ row'.applied = row.applied
      /\ row'.status = "pending" /\ row'.appliedRules = row.appliedRules
  <2>1. row' = [row EXCEPT !.desired = next, !.desiredRules = rules,
                           !.status = "pending", !.reason = "none"]
    BY DEF RecordRevision
  <2> HIDE DEF next
  <2>2. /\ RowOK' /\ row'.desired = next /\ row'.applied = row.applied
        /\ row'.status = "pending" /\ row'.appliedRules = row.appliedRules
    BY <1>0, <2>1 DEF RowOK, RowRecords, Statuses, Reasons
  <2> QED
    BY <2>2 DEF next
<1>2. row.desired + 1 \in Revisions
  BY PolicyAssumption DEF RowOK, RowRecords, RecordRevision, Revisions
<1>3. fresh \in IntentRecords
  BY DEF IntentRecords, IntentStates, InFlightStates
<1>4. intents' = [Superseded EXCEPT ![row.desired + 1] = fresh]
  BY DEF RecordRevision
<1> HIDE DEF fresh
<1>5. intents' \in [Revisions -> IntentRecords]
  BY <1>3, <1>4, SupersededOK
<1>6. \A n \in Revisions : n # row.desired + 1 => intents'[n] = Superseded[n]
  BY <1>2, <1>4, SupersededOK
<1>7. \A n \in InFlight' : n = row.desired + 1
  BY <1>6, SupersededOK DEF InFlight
<1> QED
  BY <1>1, <1>5, <1>7 DEF IntentsOK, RowMoves

\* Composition yields rules, and explains addresses.
LEMMA ComposeOK ==
  ASSUME NEW c \in [Contacts -> [state : {"none", "active", "inactive"}, at : Addresses]],
         NEW g \in SUBSET Grants
  PROVE  Compose(c, g) \in Rules /\ Provenance(c, g) \in SUBSET Addresses
<1>1. \A d \in Contacts : c[d].at \in Addresses
  OBVIOUS
<1>2. \A h \in Grants : AllowlistOf[h] \subseteq Addresses
  BY PolicyAssumption
<1> QED
  BY <1>1, <1>2, PolicyAssumption DEF Compose, Provenance, ActiveAddresses, Rules

\* A change moves one contact, and revokes active grants only.
LEMMA ChangesOK ==
  ASSUME ContactOK, NEW change \in Changes
  PROVE  /\ change[1] \in [Contacts -> [state : {"none", "active", "inactive"},
                                       at : Addresses]]
         /\ change[2] \subseteq ActiveGrants(grant)
<1>1. \A c \in Contacts : Retired(contact, c) \subseteq ActiveGrants(grant)
  BY DEF Retired
<1>2. PICK c \in Contacts : change \in Created(c) \cup Moved(c) \cup Removed(c)
  <2>1. \/ \E d \in Contacts : change \in Created(d)
        \/ \E d \in Contacts : change \in Moved(d) \cup Removed(d)
    <3>1. CASE change \in UNION {Created(d) : d \in {d \in Contacts : contact[d].state = "none"}}
      <4>1. PICK S \in {Created(d) : d \in {d \in Contacts : contact[d].state = "none"}} :
              change \in S
        BY <3>1
      <4> QED
        BY <4>1
    <3>2. CASE change \in UNION {Moved(d) \cup Removed(d) :
                                 d \in {d \in Contacts : contact[d].state = "active"}}
      <4>1. PICK S \in {Moved(d) \cup Removed(d) :
                        d \in {d \in Contacts : contact[d].state = "active"}} : change \in S
        BY <3>2
      <4>2. PICK d \in Contacts : S = Moved(d) \cup Removed(d)
        BY <4>1
      <4> QED
        BY <4>1, <4>2
    <3> QED
      BY <3>1, <3>2 DEF Changes
  <2> QED
    BY <2>1
<1>3. CASE change \in Created(c)
  BY <1>3 DEF Created, ContactOK
<1>4. CASE change \in Moved(c)
  BY <1>1, <1>4 DEF Moved, ContactOK
<1>5. CASE change \in Removed(c)
  BY <1>1, <1>5 DEF Removed, ContactOK
<1> QED
  BY <1>2, <1>3, <1>4, <1>5

-----------------------------------------------------------------------------
(* Preservation                                                            *)

\* What a request does preserves the invariant.
LEMMA RequestSteps ==
  ASSUME IInv, NEW r \in Requests, RequestArrives(r) \/ RequestStep(r)
  PROVE  IInv' /\ RowMoves
<1> r \in Actors
  BY DEF Actors
<1> USE DEF IInv
<1>s. ActiveGrants(grant) \in SUBSET Grants
  BY DEF ActiveGrants
<1>c. Compose(contact, ActiveGrants(grant)) \in Rules
  BY <1>s, ComposeOK DEF ContactOK
<1>1. CASE BeginMutation(r)
  <2>1. OpOK'
    BY <1>1, GotoOK DEF BeginMutation, Pcs, Unruled
  <2> QED
    BY <1>1, <2>1, StoredFrame, RestFrame DEF BeginMutation, TakesLease, RestOK
<1>2. CASE BusyStop(r)
  <2>1. RowOK' /\ RowMoves /\ row'.appliedRules = row.appliedRules
    BY <1>2, StatusOK DEF BusyStop, Statuses, Reasons
  <2>2. BindOK'
    BY <1>2, <2>1, BindFrame DEF BusyStop
  <2> QED
    BY <1>2, <2>1, <2>2 DEF BusyStop, OpOK, ContactOK, GrantOK, IntentsOK, InFlight, RestOK
<1>3. CASE Enroll(r)
  <2>1. RecordRevision(Compose(contact, ActiveGrants(grant)))
    BY <1>3 DEF Enroll
  <2>2. RowOK' /\ IntentsOK' /\ RowMoves /\ row'.appliedRules = row.appliedRules
    BY <1>c, <2>1, RecordOK
  <2>3. OpOK'
    BY <1>3, GotoOK DEF Enroll, Pcs, Unruled
  <2>4. BindOK'
    BY <1>3, <2>2, BindFrame DEF Enroll
  <2> QED
    BY <1>3, <2>2, <2>3, <2>4 DEF Enroll, ContactOK, GrantOK, RestOK
<1>4. CASE Retry(r)
  <2>1. RowOK' /\ RowMoves /\ row'.appliedRules = row.appliedRules
    BY <1>4, StatusOK DEF Retry, Statuses, Reasons
  <2>2. BindOK'
    BY <1>4, <2>1, BindFrame DEF Retry
  <2> QED
    BY <1>4, <2>1, <2>2 DEF Retry, OpOK, ContactOK, GrantOK, IntentsOK, InFlight, RestOK
<1>5. CASE Mutate(r)
  <2>1. PICK change \in Changes :
          LET grants == ActiveGrants(grant) \ change[2]
              rules  == Compose(change[1], grants)
          IN /\ contact' = change[1]
             /\ grant' = [g \in Grants |-> IF g \in change[2] THEN "revoked" ELSE grant[g]]
             /\ \/ RecordRevision(rules) /\ Goto(r, "unapplied")
                \/ /\ row' = [row EXCEPT !.status = "blocked_configuration", !.reason = "other"]
                   /\ Releases(r)
                   /\ UNCHANGED intents
    BY <1>5 DEF Mutate
  <2> DEFINE rules == Compose(change[1], ActiveGrants(grant) \ change[2])
  <2>2. ContactOK' /\ rules \in Rules
    BY <1>s, <2>1, ChangesOK, ComposeOK DEF ContactOK
  <2>3. GrantOK' /\ \A g \in Grants : grant'[g] \in {grant[g], "revoked"}
    BY <2>1 DEF GrantOK
  <2>4. op[r].pc \notin Unruled
    BY <1>5 DEF Mutate, Unruled
  <2> HIDE DEF rules
  <2>5. /\ RowOK' /\ IntentsOK' /\ OpOK' /\ RowMoves
        /\ row'.appliedRules = row.appliedRules
    <3>1. CASE RecordRevision(rules) /\ Goto(r, "unapplied")
      BY <2>2, <2>4, <3>1, RecordOK, GotoOK DEF Pcs
    <3>2. CASE /\ row' = [row EXCEPT !.status = "blocked_configuration", !.reason = "other"]
               /\ Releases(r)
               /\ UNCHANGED intents
      BY <3>2, StatusOK, ReleasesOK DEF Statuses, Reasons, IntentsOK, InFlight
    <3> QED
      BY <2>1, <3>1, <3>2 DEF rules
  <2>6. BindOK'
    BY <1>5, <2>3, <2>5, BindFrame DEF Mutate
  <2> QED
    BY <1>5, <2>2, <2>3, <2>5, <2>6, RestFrame DEF Mutate, RestOK
<1>6. CASE Rename(r)
  <2>1. op[r].pc \notin Unruled
    BY <1>6 DEF Rename, Unruled
  <2>2. /\ RowOK' /\ IntentsOK' /\ OpOK' /\ RowMoves
        /\ row'.appliedRules = row.appliedRules
    <3>1. CASE RecordRevision(Compose(contact, ActiveGrants(grant))) /\ Goto(r, "unapplied")
      BY <1>c, <2>1, <3>1, RecordOK, GotoOK DEF Pcs
    <3>2. CASE /\ row' = [row EXCEPT !.status = "blocked_configuration", !.reason = "other"]
               /\ Releases(r)
               /\ UNCHANGED intents
      BY <3>2, StatusOK, ReleasesOK DEF Statuses, Reasons, IntentsOK, InFlight
    <3>3. CASE Goto(r, "stop") /\ UNCHANGED <<row, intents>>
      BY <2>1, <3>3, GotoOK DEF Pcs, RowOK, IntentsOK, InFlight, RowMoves
    <3> QED
      BY <1>6, <3>1, <3>2, <3>3 DEF Rename
  <2>3. BindOK'
    BY <1>6, <2>2, BindFrame DEF Rename
  <2> QED
    BY <1>6, <2>2, <2>3 DEF Rename, ContactOK, GrantOK, RestOK
<1>7. CASE RefuseMutation(r)
  <2>1. OpOK'
    BY <1>7, GotoOK, ReleasesOK DEF RefuseMutation, Pcs, Unruled
  <2> QED
    BY <1>7, <2>1, StoredFrame DEF RefuseMutation, RestOK
<1>8. CASE RecordConflict(r) \/ RecordApplyPending(r)
  <2>1. RowOK' /\ RowMoves /\ row'.appliedRules = row.appliedRules
    BY <1>8, StatusOK DEF RecordConflict, RecordApplyPending, Statuses, Reasons
  <2>2. OpOK'
    BY <1>8, ReleasesOK DEF RecordConflict, RecordApplyPending
  <2>3. BindOK'
    BY <1>8, <2>1, BindFrame DEF RecordConflict, RecordApplyPending
  <2> QED
    BY <1>8, <2>1, <2>2, <2>3
    DEF RecordConflict, RecordApplyPending, ContactOK, GrantOK, IntentsOK, InFlight, RestOK
<1>9. CASE ReleaseLease(r)
  <2>1. OpOK'
    BY <1>9, EndsOK DEF ReleaseLease
  <2> QED
    BY <1>9, <2>1, StoredFrame DEF ReleaseLease, RestOK
<1> QED
  BY <1>1, <1>2, <1>3, <1>4, <1>5, <1>6, <1>7, <1>8, <1>9 DEF RequestArrives, RequestStep

\* The steps of an apply up to its last readback touch no row.
LEMMA ApplySteps ==
  ASSUME IInv, NEW l \in Loops,
         \/ ReadDesired(l) \/ ReadGrants(l) \/ ComposeRules(l) \/ PristineReadback(l)
         \/ PatchPolicy(l) \/ CreatePolicy(l) \/ AttachPolicy(l) \/ VerifyReadback(l)
  PROVE  IInv' /\ RowMoves
<1> l \in Actors
  BY DEF Actors
<1> USE DEF IInv
<1>0. op[l] \in Operations /\ (op[l].pc \notin Unruled => op[l].rules \in Rules)
  BY DEF OpOK
<1>1. CASE ReadDesired(l)
  <2> DEFINE y == [op[l] EXCEPT !.pc = "grants", !.rev = row.desired]
  <2>1. row.desired \in 0..MaxRevision
    BY DEF RowOK, RowRecords
  <2>2. y \in Operations /\ y.pc \in Unruled
    BY <1>0, <2>1 DEF Operations, Pcs, Unruled
  <2>3. op' = [op EXCEPT ![l] = y]
    BY <1>1 DEF ReadDesired
  <2> HIDE DEF y
  <2>4. OpOK'
    BY <2>2, <2>3, OpReplaced
  <2> QED
    BY <1>1, <2>4, StoredFrame DEF ReadDesired, RestOK
<1>2. CASE ReadGrants(l)
  <2> DEFINE rules == [to |-> {}, grants |-> ActiveGrants(grant)]
             y == [op[l] EXCEPT !.pc = "contacts", !.rules = rules]
  <2>1. rules \in Rules
    BY DEF ActiveGrants, Rules
  <2> HIDE DEF rules
  <2>2. y \in Operations /\ y.rules \in Rules
    BY <1>0, <2>1 DEF Operations, Pcs
  <2>3. op' = [op EXCEPT ![l] = y]
    BY <1>2 DEF ReadGrants, rules
  <2> HIDE DEF y
  <2>4. OpOK'
    BY <2>2, <2>3, OpReplaced
  <2> QED
    BY <1>2, <2>4, StoredFrame DEF ReadGrants, RestOK
<1>3. CASE ComposeRules(l)
  <2> DEFINE rules == Compose(contact, op[l].rules.grants)
             explained == Provenance(contact, op[l].rules.grants)
             y == [op[l] EXCEPT !.pc = "pristine", !.rules = rules, !.explained = explained]
  <2>1. op[l].rules.grants \in SUBSET Grants
    BY <1>0, <1>3 DEF ComposeRules, Unruled, Rules
  <2>2. rules \in Rules /\ explained \in SUBSET Addresses
    BY <2>1, ComposeOK DEF ContactOK
  <2>3. Releases(l) \/ op' = [op EXCEPT ![l] = y]
    BY <1>3 DEF ComposeRules
  <2> HIDE DEF rules, explained
  <2>4. y \in Operations /\ y.rules \in Rules
    BY <1>0, <2>2 DEF Operations, Pcs
  <2> HIDE DEF y
  <2>5. OpOK'
    BY <2>3, <2>4, OpReplaced, ReleasesOK
  <2> QED
    BY <1>3, <2>5, StoredFrame DEF ComposeRules, RestOK
<1>4. CASE PristineReadback(l)
  <2>1. op[l].pc \notin Unruled
    BY <1>4 DEF PristineReadback, Unruled
  <2>2. \/ Concludes(l, "blocked_configuration", "other")
        \/ Concludes(l, "retryable", "other")
        \/ Concludes(l, "blocked_conflict", "unexplained")
        \/ Concludes(l, "verified", "none")
        \/ Goto(l, "create") \/ Goto(l, "patch")
    BY <1>4 DEF PristineReadback
  <2>3. OpOK'
    BY <2>1, <2>2, ConcludesOK, GotoOK DEF Results, Reasons, Pcs
  <2> QED
    BY <1>4, <2>3, StoredFrame DEF PristineReadback, RestOK
<1>5. CASE PatchPolicy(l) \/ AttachPolicy(l)
  <2>1. op[l].pc \notin Unruled
    BY <1>5 DEF PatchPolicy, AttachPolicy, Unruled
  <2>2. /\ \E answer : AfterWrite(l, answer, "verify")
        /\ remote' \in {remote, op[l].rules}
    BY <1>5 DEF PatchPolicy, AttachPolicy, ProviderGets
  <2>3. OpOK'
    BY <2>1, <2>2, AfterWriteOK DEF Pcs
  <2>4. remote' \in Rules \cup {None}
    BY <1>0, <2>1, <2>2 DEF RestOK
  <2>5. UNCHANGED <<stored, lease, crashes>> /\ (UNCHANGED overrun \/ Writes(l))
    BY <1>5 DEF PatchPolicy, AttachPolicy, ProviderGets
  <2>6. RestOK'
    BY <2>4, <2>5, RestFrame DEF RestOK
  <2> QED
    BY <2>3, <2>5, <2>6, StoredFrame
<1>6. CASE CreatePolicy(l)
  <2>1. op[l].pc \notin Unruled /\ \E answer : AfterWrite(l, answer, "attach")
    BY <1>6 DEF CreatePolicy, Unruled
  <2>2. OpOK'
    BY <2>1, AfterWriteOK DEF Pcs
  <2> QED
    BY <1>6, <2>2, StoredFrame DEF CreatePolicy, RestOK
<1>7. CASE VerifyReadback(l)
  <2>1. op[l].pc \notin Unruled
    BY <1>7 DEF VerifyReadback, Unruled
  <2>2. \/ Concludes(l, "unverified", "unverified")
        \/ Concludes(l, "verified", "none")
        \/ \E reason \in {"unexplained", "other"} : Concludes(l, "blocked_conflict", reason)
    BY <1>7 DEF VerifyReadback
  <2>3. OpOK'
    BY <2>1, <2>2, ConcludesOK DEF Results, Reasons
  <2> QED
    BY <1>7, <2>3, StoredFrame DEF VerifyReadback, RestOK
<1> QED
  BY <1>1, <1>2, <1>3, <1>4, <1>5, <1>6, <1>7

\* A verified apply binds over the rules it holds; the compare-and-set makes
\* its revision the applied one only while it is the desired one.
LEMMA CommitStep ==
  ASSUME IInv, NEW l \in Loops, CommitApplyOutcome(l)
  PROVE  IInv' /\ RowMoves
<1> l \in Actors
  BY DEF Actors
<1> USE DEF IInv
<1>1. OpOK'
  <2>1. /\ Attempting(l, "after") \in Operations /\ Attempting(l, "after").rules \in Rules
        /\ op' = [op EXCEPT ![l] = Attempting(l, "after")]
    BY AttemptingOK DEF CommitApplyOutcome, Pcs
  <2> QED
    BY <2>1, OpReplaced
<1>2. RowOK' /\ IntentsOK' /\ BindOK' /\ RowMoves
  <2>0. op[l] \in Operations /\ op[l].rules \in Rules
    BY DEF CommitApplyOutcome, OpOK, Unruled
  <2>1. CASE CommitVerified(l) /\ Current(l)
    <3>1. op[l].rev = row.desired
      BY <2>1 DEF Current
    <3>2. /\ row' = [row EXCEPT !.applied = row.desired, !.appliedRules = op[l].rules,
                               !.policy = TRUE, !.status = "applied", !.reason = "none"]
          /\ bound' = bound \cup ActiveGrants(grant)
          /\ UNCHANGED <<intents, grant>>
      BY <2>1, <3>1 DEF CommitVerified, CommitApplyOutcome
    <3>3. /\ RowOK' /\ row'.appliedRules # None
          /\ row'.desired = row.desired /\ row'.applied = row.desired
      BY <2>0, <3>2, AppliedOK
    <3>4. IntentsOK'
      BY <3>2 DEF IntentsOK, InFlight
    <3>5. BindOK'
      BY <3>2, <3>3 DEF BindOK, BoundNeedsProof, ActiveGrants
    <3> QED
      BY <3>3, <3>4, <3>5 DEF RowMoves
  <2>2. CASE CommitVerified(l) /\ ~Current(l)
    <3>1. intents' = Superseded /\ UNCHANGED <<row, bound, grant>>
      BY <2>2 DEF CommitVerified, CommitApplyOutcome
    <3>2. IntentsOK'
      BY <3>1, SupersededOK DEF IntentsOK, InFlight
    <3> QED
      BY <3>1, <3>2, BindFrame DEF RowOK, RowMoves
  <2>3. CASE /\ op[l].result \in {"unverified", "retryable"}
             /\ row' = WithStatus("pending", op[l].reason)
             /\ UNCHANGED <<bound, intents>>
    <3>1. op[l].reason \in Reasons
      BY <2>0 DEF Operations
    <3>2. RowOK' /\ RowMoves /\ row'.appliedRules = row.appliedRules
      BY <2>3, <3>1, StatusOK DEF Statuses
    <3>3. BindOK' /\ IntentsOK'
      BY <2>3, <3>2, BindFrame DEF CommitApplyOutcome, IntentsOK, InFlight
    <3> QED
      BY <3>2, <3>3
  <2>4. CASE /\ op[l].result \in BlockedStatuses
             /\ InvalidateWalletBindings(op[l].result, op[l].reason)
             /\ UNCHANGED intents
    <3>1. op[l].reason \in Reasons /\ op[l].result \in Statuses \ {"applied"}
      BY <2>0, <2>4 DEF Operations, BlockedStatuses, Statuses
    <3>2. RowOK' /\ BindOK' /\ RowMoves
      BY <2>4, <3>1, InvalidateOK DEF CommitApplyOutcome
    <3> QED
      BY <2>4, <3>2 DEF IntentsOK, InFlight
  <2> QED
    BY <2>1, <2>2, <2>3, <2>4 DEF CommitApplyOutcome
<1>3. RestOK'
  <2>1. UNCHANGED overrun \/ Writes(l)
    BY DEF CommitApplyOutcome, CommitVerified
  <2> QED
    BY <2>1, RestFrame DEF CommitApplyOutcome, RestOK
<1> QED
  BY <1>1, <1>2, <1>3 DEF CommitApplyOutcome, ContactOK, GrantOK

\* Changing the state of one intent keeps at most one in flight, if nothing
\* else was in flight or it does not become so.
LEMMA IntentChanged ==
  ASSUME IntentsOK, NEW n,
         intents' \in [Revisions -> IntentRecords],
         \A m \in Revisions \ {n} : intents'[m] = intents[m],
         \/ InFlight \subseteq {n}
         \/ n \in Revisions => intents'[n].state \notin InFlightStates
  PROVE  IntentsOK'
<1>1. InFlight' \ {n} \subseteq InFlight
  BY DEF InFlight
<1>2. CASE InFlight \subseteq {n}
  BY <1>1, <1>2 DEF IntentsOK
<1>3. CASE n \in Revisions => intents'[n].state \notin InFlightStates
  <2>1. InFlight' \subseteq InFlight
    BY <1>1, <1>3 DEF InFlight
  <2> QED
    BY <2>1 DEF IntentsOK
<1> QED
  BY <1>2, <1>3

\* The reconciler's own steps.
LEMMA ReconcilerSteps ==
  ASSUME IInv, NEW l \in Loops,
         \/ Scan(l) \/ AcquireOrDefer(l) \/ ClaimIntent(l) \/ ReclaimIntent(l)
         \/ DecideBeforeRetry(l) \/ DecidingReadback(l) \/ ReadAfterwards(l)
         \/ ReleaseLease(l)
  PROVE  IInv' /\ RowMoves
<1> l \in Actors
  BY DEF Actors
<1> USE DEF IInv
<1>0. op[l] \in Operations
  BY DEF OpOK
<1>i. \A n \in Revisions : intents[n] \in IntentRecords
  BY DEF IntentsOK
<1>1. CASE Scan(l)
  <2>1. PICK n \in Due :
          op' = [op EXCEPT ![l] = [NoOperation EXCEPT
                   !.pc = "acquire", !.intent = n,
                   !.reclaim = intents[n].state = "applying"]]
    BY <1>1 DEF Scan
  <2> DEFINE y == [NoOperation EXCEPT !.pc = "acquire", !.intent = n,
                                      !.reclaim = intents[n].state = "applying"]
  <2>2. n \in 0..MaxRevision
    BY PolicyAssumption DEF Due, InFlight, Revisions
  <2>3. \A z \in Operations, b \in BOOLEAN :
          /\ [z EXCEPT !.pc = "acquire", !.intent = n, !.reclaim = b] \in Operations
          /\ [z EXCEPT !.pc = "acquire", !.intent = n, !.reclaim = b].rules = z.rules
    <3>1. \A z \in Operations, b \in BOOLEAN :
            [z EXCEPT !.pc = "acquire", !.intent = n, !.reclaim = b] \in Operations
      BY <2>2 DEF Operations, Pcs
    <3>2. \A z \in Operations, b \in BOOLEAN :
            [z EXCEPT !.pc = "acquire", !.intent = n, !.reclaim = b].rules = z.rules
      BY DEF Operations
    <3> QED
      BY <3>1, <3>2
  <2>4. y \in Operations /\ y.rules \in Rules
    BY <2>3, RestingOperations
  <2> HIDE DEF y
  <2>5. op' = [op EXCEPT ![l] = y]
    BY <2>1 DEF y
  <2>6. OpOK'
    BY <2>4, <2>5, OpReplaced
  <2> QED
    BY <1>1, <2>6, StoredFrame DEF Scan, RestOK
<1>2. CASE AcquireOrDefer(l)
  <2>1. OpOK'
    BY <1>2, GotoOK, EndsOK DEF AcquireOrDefer, Pcs, Unruled
  <2> QED
    BY <1>2, <2>1, StoredFrame, RestFrame DEF AcquireOrDefer, TakesLease, RestOK
<1>3. CASE ClaimIntent(l)
  <2> DEFINE n == op[l].intent
             pc == IF op[l].reclaim THEN "reclaim" ELSE "decide"
             y == [Attempting(l, pc) EXCEPT !.attempts = intents[n].attempts]
  <2>3. OpOK' /\ IntentsOK'
    <3>1. CASE n \in InFlight /\ op' = [op EXCEPT ![l] = y]
               /\ intents' = [intents EXCEPT ![n].state = "applying"]
      <4>1. n \in Revisions /\ InFlight \subseteq {n}
        BY <3>1 DEF InFlight, IntentsOK
      <4>2. Attempting(l, pc) \in Operations /\ Attempting(l, pc).rules \in Rules
        BY AttemptingOK DEF Pcs
      <4>3. intents[n].attempts \in Nat
        BY <1>i, <4>1 DEF IntentRecords
      <4>4. y \in Operations /\ y.rules \in Rules
        BY <4>2, <4>3 DEF Operations
      <4> HIDE DEF y
      <4>5. OpOK'
        BY <3>1, <4>4, OpReplaced
      <4>6. intents' \in [Revisions -> IntentRecords]
        BY <1>i, <3>1 DEF IntentsOK, IntentRecords, IntentStates, InFlightStates
      <4>7. IntentsOK'
        BY <3>1, <4>1, <4>6, IntentChanged DEF IntentsOK
      <4> QED
        BY <4>5, <4>7
    <3>2. CASE Releases(l) /\ UNCHANGED intents
      BY <3>2, ReleasesOK DEF IntentsOK, InFlight
    <3> QED
      BY <1>3, <3>1, <3>2 DEF ClaimIntent
  <2>4. BindOK'
    BY <1>3, BindFrame DEF ClaimIntent
  <2> QED
    BY <1>3, <2>3, <2>4 DEF ClaimIntent, RowMoves, ContactOK, GrantOK, RowOK, RestOK
<1>4. CASE ReclaimIntent(l)
  <2> DEFINE n == op[l].intent
             s == IF intents[n].state = "applying" THEN "pending" ELSE intents[n].state
  <2>1. OpOK'
    BY <1>4, GotoOK DEF ReclaimIntent, Pcs, Unruled
  <2>2. intents' = [intents EXCEPT ![n].state = s]
    BY <1>4 DEF ReclaimIntent
  <2>3. n \in Revisions => s \in IntentStates /\ (s \in InFlightStates => n \in InFlight)
    BY <1>i DEF IntentRecords, IntentStates, InFlightStates, InFlight
  <2> HIDE DEF s, n
  <2>4. intents' \in [Revisions -> IntentRecords]
    BY <1>i, <2>2, <2>3 DEF IntentsOK, IntentRecords
  <2>5. \/ InFlight \subseteq {n}
        \/ n \in Revisions => intents'[n].state \notin InFlightStates
    BY <2>2, <2>3 DEF IntentsOK, IntentRecords
  <2>6. IntentsOK'
    BY <2>2, <2>4, <2>5, IntentChanged DEF IntentsOK
  <2>7. BindOK'
    BY <1>4, BindFrame DEF ReclaimIntent
  <2> QED
    BY <1>4, <2>1, <2>6, <2>7 DEF ReclaimIntent, RowMoves, ContactOK, GrantOK, RowOK, RestOK
<1>5. CASE DecideBeforeRetry(l)
  <2> DEFINE y == [op[l] EXCEPT !.pc = "get", !.rules = row.appliedRules]
  <2>1. row.appliedRules \in Rules \cup {None}
    BY DEF RowOK, RowRecords
  <2>2. y \in Operations /\ y.pc \in Unruled
    BY <1>0, <2>1 DEF Operations, Pcs, Unruled
  <2>3. Goto(l, "read") \/ Settles(l, "syncing") \/ op' = [op EXCEPT ![l] = y]
    BY <1>5 DEF DecideBeforeRetry
  <2> HIDE DEF y
  <2>4. OpOK'
    BY <2>2, <2>3, OpReplaced, GotoOK, SettlesOK DEF Pcs, Results, Unruled
  <2> QED
    BY <1>5, <2>4, StoredFrame DEF DecideBeforeRetry, RestOK
<1>6. CASE DecidingReadback(l)
  <2>1. Goto(l, "read") \/ \E result \in {"syncing", "blocked_conflict"} : Settles(l, result)
    BY <1>6 DEF DecidingReadback
  <2>2. OpOK'
    BY <2>1, GotoOK, SettlesOK DEF Pcs, Results, Unruled
  <2> QED
    BY <1>6, <2>2, StoredFrame DEF DecidingReadback, RestOK
<1>7. CASE ReadAfterwards(l)
  <2>1. \E result \in {"applied", "failed", "retry"} : Settles(l, result)
    BY <1>7 DEF ReadAfterwards
  <2>2. OpOK'
    BY <2>1, SettlesOK DEF Results
  <2> QED
    BY <1>7, <2>2, StoredFrame DEF ReadAfterwards, RestOK
<1>8. CASE ReleaseLease(l)
  <2>1. OpOK'
    BY <1>8, EndsOK DEF ReleaseLease
  <2> QED
    BY <1>8, <2>1, StoredFrame DEF ReleaseLease, RestOK
<1> QED
  BY <1>1, <1>2, <1>3, <1>4, <1>5, <1>6, <1>7, <1>8

\* settleIntent rewrites one intent; the clash it may run into loses the whole
\* transaction, so at most one intent stays in flight.
LEMMA SettleStep ==
  ASSUME IInv, NEW l \in Loops, Settle(l)
  PROVE  IInv' /\ RowMoves
<1> l \in Actors
  BY DEF Actors
<1> USE DEF IInv
<1> DEFINE n == op[l].intent
           clash == SettledState(l) = "pending" /\ ~(InFlight \subseteq {n})
<1>1. OpOK'
  BY ReleasesOK DEF Settle
<1>2. CASE clash
  BY <1>1, <1>2, StoredFrame DEF Settle, stored, RestOK
<1>3. CASE ~clash
  <2> DEFINE k == IF op[l].result = "applied" THEN intents[n].attempts
                  ELSE intents[n].attempts + 1
  <2>1. intents' = [intents EXCEPT ![n].state = SettledState(l), ![n].attempts = k]
    BY <1>3 DEF Settle
  <2>2. SettledState(l) \in {"applied", "failed", "pending"}
    BY DEF SettledState
  <2>3. \A m \in Revisions : intents[m] \in IntentRecords
    BY DEF IntentsOK
  <2>4. n \in Revisions => k \in Nat
    BY <2>3 DEF IntentRecords
  <2>5. \/ InFlight \subseteq {n}
        \/ SettledState(l) \notin InFlightStates
    BY <1>3, <2>2 DEF InFlightStates
  <2> HIDE DEF k, n
  <2>6. intents' \in [Revisions -> IntentRecords]
    BY <2>1, <2>2, <2>3, <2>4 DEF IntentsOK, IntentRecords, IntentStates, InFlightStates
  <2>7. /\ \A m \in Revisions \ {n} : intents'[m] = intents[m]
        /\ n \in Revisions => intents'[n].state = SettledState(l)
    BY <2>1, <2>3 DEF IntentsOK, IntentRecords
  <2>8. IntentsOK'
    BY <2>5, <2>6, <2>7, IntentChanged
  <2>9. RowOK' /\ BindOK' /\ RowMoves
    <3>1. CASE InvalidateWalletBindings("blocked_conflict", "unexplained")
      BY <3>1, InvalidateOK DEF Settle, Statuses, Reasons
    <3>2. CASE row' = SettledRow(l) /\ UNCHANGED bound
      <4>1. \/ row' = row
            \/ \E status \in {"retryable_failure", "syncing"} : row' = WithStatus(status, "other")
        BY <3>2 DEF SettledRow
      <4>2. RowOK' /\ RowMoves /\ row'.appliedRules = row.appliedRules
        BY <4>1, StatusOK DEF Statuses, Reasons, RowOK, RowMoves
      <4> QED
        BY <3>2, <4>2, BindFrame DEF Settle
    <3> QED
      BY <1>3, <3>1, <3>2 DEF Settle, n
  <2> QED
    BY <1>1, <2>8, <2>9 DEF Settle, ContactOK, GrantOK, RestOK
<1> QED
  BY <1>2, <1>3

\* Grants, crashes and the expiry of a lease.
LEMMA EnvironmentSteps ==
  ASSUME IInv,
         \/ \E g \in Grants : CreateGrant(g) \/ RevokeGrant(g)
         \/ \E x \in Actors : Crash(x)
         \/ ExpireLease
  PROVE  IInv' /\ RowMoves
<1> USE DEF IInv
<1>1. CASE \E g \in Grants : CreateGrant(g) \/ RevokeGrant(g)
  <2>1. PICK g \in Grants : CreateGrant(g) \/ RevokeGrant(g)
    BY <1>1
  <2>2. GrantOK'
    BY <2>1 DEF CreateGrant, RevokeGrant, GrantOK
  <2>3. UNCHANGED <<contact, bound, row, intents, remote, lease, op, crashes, overrun>>
    BY <2>1 DEF CreateGrant, RevokeGrant
  <2>4. \A h \in Grants : /\ grant'[h] = "active" => grant[h] = "active" \/ h \notin bound
                          /\ grant'[h] = "none" => grant[h] = "none"
    BY <2>1 DEF CreateGrant, RevokeGrant, GrantOK, BindOK
  <2>5. BindOK'
    BY <2>3, <2>4, BindFrame
  <2> QED
    BY <2>2, <2>3, <2>5
    DEF OpOK, ContactOK, RowOK, IntentsOK, InFlight, RestOK, RowMoves
<1>2. CASE \E x \in Actors : Crash(x)
  <2>1. PICK x \in Actors : Crash(x)
    BY <1>2
  <2>2. OpOK'
    BY <2>1, EndsOK DEF Crash
  <2>3. RestOK'
    <3>1. UNCHANGED overrun
      BY <2>1 DEF Crash
    <3> QED
      BY <2>1, <3>1, PolicyAssumption DEF Crash, RestOK
  <2> QED
    BY <2>1, <2>2, <2>3, StoredFrame DEF Crash
<1>3. CASE ExpireLease
  BY <1>3, StoredFrame DEF ExpireLease, OpOK, RestOK
<1> QED
  BY <1>1, <1>2, <1>3

-----------------------------------------------------------------------------
(* The theorems                                                            *)

LEMMA Initially == Init => IInv
<1> SUFFICES ASSUME Init PROVE IInv
  OBVIOUS
<1>1. OpOK
  BY RestingOperations DEF Init, OpOK
<1>2. ContactOK /\ GrantOK
  <2>1. (CHOOSE a \in Addresses : TRUE) \in Addresses
    BY PolicyAssumption
  <2>2. contact \in [Contacts -> [state : {"none"}, at : {CHOOSE a \in Addresses : TRUE}]]
    BY DEF Init
  <2>3. ContactOK
    BY <2>1, <2>2 DEF ContactOK
  <2> QED
    BY <2>3 DEF Init, GrantOK
<1>3. RowOK
  BY PolicyAssumption DEF Init, RowOK, RowRecords, Statuses, Reasons
<1>4. IntentsOK
  BY RestingOperations
  DEF Init, IntentsOK, IntentRecords, IntentStates, InFlightStates, InFlight
<1>5. overrun \in BOOLEAN
  BY DEF Init
<1>6. BindOK /\ RestOK
  BY <1>5, PolicyAssumption DEF Init, BindOK, BoundNeedsProof, RestOK
<1> QED
  BY <1>1, <1>2, <1>3, <1>4, <1>6 DEF IInv

LEMMA Preserved == IInv /\ [Next]_vars => IInv' /\ RowMoves
<1> SUFFICES ASSUME IInv, [Next]_vars PROVE IInv' /\ RowMoves
  OBVIOUS
<1>1. CASE \E r \in Requests : RequestArrives(r) \/ RequestStep(r)
  BY <1>1, RequestSteps
<1>2. CASE \E l \in Loops : LoopStep(l)
  <2>1. PICK l \in Loops : LoopStep(l)
    BY <1>2
  <2> QED
    BY <2>1, ApplySteps, CommitStep, ReconcilerSteps, SettleStep DEF LoopStep
<1>3. CASE \/ \E g \in Grants : CreateGrant(g) \/ RevokeGrant(g)
           \/ \E x \in Actors : Crash(x)
           \/ ExpireLease
  BY <1>3, EnvironmentSteps
<1>4. CASE UNCHANGED vars
  BY <1>4, StoredFrame DEF vars, stored, IInv, OpOK, RestOK
<1> QED
  BY <1>1, <1>2, <1>3, <1>4 DEF Next

\* The inductive invariant holds in every reachable state.
THEOREM PolicyInvariant == Spec => []IInv
BY Initially, Preserved, PTL DEF Spec

\* Types hold, and the CHECK constraints and the one-in-flight index of the
\* migration never stop a transaction of the service or the reconciler.
THEOREM ConstraintsHold == Spec => []TypeOK
<1>1. IInv => TypeOK
  BY DEF IInv, TypeOK, Constraints, OpOK, ContactOK, GrantOK, RowOK, RowRecords,
         IntentsOK, IntentRecords, BindOK, RestOK
<1> QED
  BY <1>1, PolicyInvariant, PTL

\* An active grant is bound only over rules that were verified: an apply that
\* commits holds rules, and whoever proves a divergence unbinds every grant.
THEOREM BindingsAreProven == Spec => []BoundNeedsProof
<1>1. IInv => BoundNeedsProof
  BY DEF IInv, BindOK
<1> QED
  BY <1>1, PolicyInvariant, PTL

\* The revisions implement PolicyRevisions, under any interleaving of requests
\* and reconcilers, with or without the lease: every change closes the gate,
\* and only a verification of the latest revision opens it.
THEOREM RevisionsRefine == Spec => KeepsRevisionPromise
<1>1. Init => Promise!Init
  BY DEF Init, Promise!Init, GateOpen
<1>2. IInv /\ RowMoves => [Promise!Next]_Promise!vars
  <2> SUFFICES ASSUME IInv, RowMoves PROVE [Promise!Next]_Promise!vars
    OBVIOUS
  <2>1. CASE row' = row
    BY <2>1 DEF Promise!vars, GateOpen
  <2>2. CASE /\ row'.desired \in {row.desired, row.desired + 1}
             /\ row'.applied = row.applied /\ row'.status # "applied"
    BY <2>2 DEF Promise!Next, Promise!Record, Promise!Close, GateOpen
  <2>3. CASE row'.desired = row.desired /\ row'.applied = row.desired
    BY <2>3 DEF Promise!Next, Promise!Verify, GateOpen
  <2> QED
    BY <2>1, <2>2, <2>3 DEF RowMoves
<1>3. IInv /\ [Next]_vars => [Promise!Next]_Promise!vars
  BY <1>2, Preserved
<1> QED
  BY <1>1, <1>3, PolicyInvariant, PTL DEF Spec, KeepsRevisionPromise, Promise!Spec

-----------------------------------------------------------------------------
(* The gate and the provider: as long as nobody writes without the lease,   *)
(* the holder's apply is the only writer of what it composed from and of    *)
(* what it read back.  Grants may come and go: they change which rules the  *)
(* composition has, never the addresses of the ordinary one.                *)

Writing == {"patch", "create", "attach", "verify"}
Verified(y) == y.pc = "commit" /\ y.result = "verified"
Composed(y) == y.pc = "pristine" \/ y.pc \in Writing \/ Verified(y)

\* The addresses the contacts ask for.
Target == Baseline \cup ActiveAddresses(contact)

\* What the holder of the lease knows at each step of its apply.
HolderOK(x, y) ==
  lease = x /\ ~overrun => /\ Composed(y) => y.rules.to = Target
                           /\ Verified(y) => remote = y.rules

GateTrue ==
  GateOpen /\ ~overrun => /\ remote # None /\ remote.to = Target
                          /\ row.appliedRules.to = Target

GateInv == GateTrue /\ \A x \in Actors : HolderOK(x, op[x])

\* What a step that is no commit may do to the row.
RowCloses == row' = row \/ row'.status # "applied"

\* A step of a holder that lost its lease may break anything: it is told.
LEMMA OverrunTells == ASSUME overrun' PROVE GateInv'
  BY DEF GateInv, GateTrue, HolderOK

LEMMA GateFrame ==
  ASSUME GateTrue, UNCHANGED <<contact, remote>>, RowCloses, overrun => overrun' \/ ~GateOpen
  PROVE  GateTrue'
  BY DEF GateTrue, GateOpen, RowCloses, Target, ActiveAddresses

\* The steps that hold nothing composed.
LEMMA PlainOK ==
  ASSUME NEW x, NEW y, ~Composed(y)
  PROVE  HolderOK(x, y)'
  BY DEF HolderOK, Composed, Verified

LEMMA HolderFrame ==
  ASSUME NEW x, NEW y, HolderOK(x, y), UNCHANGED <<contact, remote, overrun>>,
         lease' = x => lease = x
  PROVE  HolderOK(x, y)'
  BY DEF HolderOK, Composed, Verified, Target, ActiveAddresses

\* A step of the holder replaces its operation; the others hold nothing.
LEMMA HolderStep ==
  ASSUME IInv, NEW x \in Actors, NEW y, op' = [op EXCEPT ![x] = y], lease' = x,
         GateTrue', HolderOK(x, y)'
  PROVE  GateInv'
<1>1. \A z \in Actors : op'[z] = IF z = x THEN y ELSE op[z]
  BY DEF IInv, OpOK
<1>2. ASSUME NEW z \in Actors PROVE HolderOK(z, op[z])'
  <2>1. CASE z = x
    BY <1>1, <2>1 DEF HolderOK, Composed, Verified
  <2>2. CASE z # x
    BY <2>2 DEF HolderOK
  <2> QED
    BY <2>1, <2>2
<1> QED
  BY <1>2 DEF GateInv

\* A step of anybody that writes nothing the gate is about.
LEMMA QuietStep ==
  ASSUME GateInv, IInv, NEW x \in Actors, NEW y, op' = [op EXCEPT ![x] = y],
         UNCHANGED <<contact, remote, overrun>>, RowCloses,
         lease' = lease \/ lease' \notin Actors, HolderOK(x, y)'
  PROVE  GateInv'
<1>1. \A z \in Actors : op'[z] = IF z = x THEN y ELSE op[z]
  BY DEF IInv, OpOK
<1>2. ASSUME NEW z \in Actors PROVE HolderOK(z, op[z])'
  <2>1. PICK o : o = op[z]
    OBVIOUS
  <2>2. CASE z = x
    BY <1>1, <2>2 DEF HolderOK, Composed, Verified
  <2>3. CASE z # x
    <3>1. HolderOK(z, o)'
      BY <2>1, HolderFrame DEF GateInv
    <3> QED
      BY <1>1, <2>1, <2>3, <3>1 DEF HolderOK, Composed, Verified
  <2> QED
    BY <2>2, <2>3
<1>3. GateTrue'
  BY GateFrame DEF GateInv
<1> QED
  BY <1>2, <1>3 DEF GateInv

\* A step that changes no operation.
LEMMA NobodyMoves ==
  ASSUME GateInv, UNCHANGED <<op, contact, remote, overrun>>, RowCloses,
         lease' = lease \/ lease' \notin Actors
  PROVE  GateInv'
<1>1. ASSUME NEW z \in Actors PROVE HolderOK(z, op[z])'
  <2>1. PICK o : o = op[z]
    OBVIOUS
  <2>2. HolderOK(z, o)'
    BY <2>1, HolderFrame DEF GateInv
  <2> QED
    BY <2>1, <2>2 DEF HolderOK, Composed, Verified
<1>2. GateTrue'
  BY GateFrame DEF GateInv
<1> QED
  BY <1>1, <1>2 DEF GateInv

\* Who takes the lease begins anew, behind a gate that is closed or tells the truth.
LEMMA TakingOK ==
  ASSUME GateInv, IInv, NEW x \in Actors, NEW y, op' = [op EXCEPT ![x] = y],
         TakesLease(x), UNCHANGED <<contact, remote, row>>, ~Composed(y)
  PROVE  GateInv'
<1>1. GateTrue'
  BY GateFrame DEF GateInv, RowCloses, TakesLease
<1> QED
  BY <1>1, PlainOK, HolderStep DEF TakesLease

\* A step that writes is told, or is the holder's.
LEMMA WriterHolds ==
  ASSUME NEW x, Writes(x), ~overrun', UNCHANGED lease
  PROVE  lease = x /\ ~overrun /\ lease' = x
  BY DEF Writes

-----------------------------------------------------------------------------
(* How the record of an operation is replaced                              *)

Fields(y, pc, o) == y.pc = pc /\ y.rules = o.rules /\ y.result = o.result

LEMMA Goes ==
  ASSUME IInv, NEW x \in Actors, NEW pc, Goto(x, pc)
  PROVE  \E y : op' = [op EXCEPT ![x] = y] /\ Fields(y, pc, op[x])
<1>1. PICK o \in Operations : o = op[x]
  BY DEF IInv, OpOK
<1>2. PICK y : y = [o EXCEPT !.pc = pc]
  OBVIOUS
<1>3. op' = [op EXCEPT ![x] = y]
  BY <1>1, <1>2 DEF Goto
<1>4. Fields(y, pc, o)
  BY <1>2 DEF Fields, Operations
<1> QED
  BY <1>1, <1>3, <1>4

LEMMA Concluding ==
  ASSUME IInv, NEW x \in Actors, NEW result, NEW reason, Concludes(x, result, reason)
  PROVE  \E y : /\ op' = [op EXCEPT ![x] = y] /\ y.pc = "commit" /\ y.result = result
                /\ result = "verified" => y.rules = op[x].rules
<1>1. PICK o \in Operations : o = op[x]
  BY DEF IInv, OpOK
<1>2. PICK rules : rules = IF result = "verified" THEN o.rules ELSE NoRules
  OBVIOUS
<1>3. PICK y : y = [o EXCEPT !.pc = "commit", !.result = result, !.reason = reason,
                             !.rules = rules, !.explained = {}]
  OBVIOUS
<1>4. op' = [op EXCEPT ![x] = y]
  BY <1>1, <1>2, <1>3 DEF Concludes
<1>5. y.pc = "commit" /\ y.result = result /\ y.rules = rules
  BY <1>3 DEF Operations
<1> QED
  BY <1>1, <1>2, <1>4, <1>5

LEMMA RestingPcs ==
  /\ NoOperation.pc = "idle"
  /\ \A pc : [NoOperation EXCEPT !.pc = pc].pc = pc
  /\ \A l, pc, r : /\ Attempting(l, pc).pc = pc
                   /\ [Attempting(l, pc) EXCEPT !.result = r].pc = pc
                   /\ [Attempting(l, pc) EXCEPT !.attempts = r].pc = pc
  BY DEF NoOperation, Attempting

LEMMA Closes ==
  ASSUME RowOK, NEW status, status # "applied", NEW reason,
         \/ row' = WithStatus(status, reason)
         \/ row' = [row EXCEPT !.status = status, !.reason = reason]
         \/ InvalidateWalletBindings(status, reason)
  PROVE  RowCloses
  BY DEF RowOK, RowRecords, WithStatus, InvalidateWalletBindings, RowCloses

LEMMA RecordCloses ==
  ASSUME RowOK, NEW rules, RecordRevision(rules)
  PROVE  RowCloses
  BY DEF RowOK, RowRecords, RecordRevision, RowCloses

-----------------------------------------------------------------------------
(* The steps of requests, of the environment and of a reconciler           *)

\* A step to where nothing composed is held.
LEMMA PlainStep ==
  ASSUME GateInv, IInv, NEW x \in Actors, NEW y, op' = [op EXCEPT ![x] = y], ~Composed(y),
         UNCHANGED <<contact, remote, overrun>>, RowCloses,
         lease' = lease \/ lease' \notin Actors
  PROVE  GateInv'
  BY PlainOK, QuietStep

Plain == Pcs \ (Writing \cup {"pristine", "commit"})

LEMMA PlainPcs ==
  ASSUME NEW y, y.pc \in Plain \/ (y.pc = "commit" /\ y.result # "verified")
  PROVE  ~Composed(y)
  BY DEF Plain, Composed, Verified, Writing

LEMMA PlainGoto ==
  ASSUME GateInv, IInv, NEW x \in Actors, NEW pc \in Plain, Goto(x, pc),
         UNCHANGED <<contact, remote, overrun, lease>>, RowCloses
  PROVE  GateInv'
<1>1. PICK y : op' = [op EXCEPT ![x] = y] /\ y.pc = pc
  BY Goes DEF Fields
<1> QED
  BY <1>1, PlainPcs, PlainStep

\* An operation that ends or is about to let go of the lease.
LEMMA LetsGo ==
  ASSUME NEW x, Ends(x) \/ Releases(x)
  PROVE  \E y : op' = [op EXCEPT ![x] = y] /\ ~Composed(y)
<1>1. CASE Ends(x)
  <2>1. ~Composed(NoOperation)
    BY RestingPcs, PlainPcs DEF Plain, Pcs, Writing
  <2> QED
    BY <1>1, <2>1 DEF Ends
<1>2. CASE Releases(x)
  <2>1. PICK y : y = [NoOperation EXCEPT !.pc = "release"]
    OBVIOUS
  <2>2. y.pc = "release"
    BY <2>1, RestingPcs
  <2>3. ~Composed(y)
    BY <2>2, PlainPcs DEF Plain, Pcs, Writing
  <2>4. op' = [op EXCEPT ![x] = y]
    BY <1>2, <2>1 DEF Releases
  <2> QED
    BY <2>3, <2>4
<1> QED
  BY <1>1, <1>2

LEMMA LetsGoStep ==
  ASSUME GateInv, IInv, NEW x \in Actors, Ends(x) \/ Releases(x),
         UNCHANGED <<contact, remote, overrun>>, RowCloses,
         lease' = lease \/ lease' \notin Actors
  PROVE  GateInv'
  BY LetsGo, PlainStep

LEMMA ReleaseGate ==
  ASSUME GateInv, IInv, NEW x \in Actors, ReleaseLease(x)
  PROVE  GateInv'
<1>1. UNCHANGED <<contact, remote, row, overrun>> /\ Ends(x)
  BY DEF ReleaseLease, stored
<1>2. lease' = lease \/ lease' \notin Actors
  BY PolicyAssumption DEF ReleaseLease
<1> QED
  BY <1>1, <1>2, LetsGoStep DEF RowCloses

\* A mutation closes the gate; if it lost its lease, that is told.
LEMMA MutateGate ==
  ASSUME GateInv, IInv, NEW r \in Actors, Mutate(r)
  PROVE  GateInv'
<1>1. CASE overrun'
  BY <1>1, OverrunTells
<1>2. CASE ~overrun'
  <2>1. lease' = r
    BY <1>2, WriterHolds DEF Mutate
  <2>2. row'.status # "applied"
    <3>1. PICK change \in Changes :
            \/ RecordRevision(Compose(change[1], ActiveGrants(grant) \ change[2]))
            \/ row' = [row EXCEPT !.status = "blocked_configuration", !.reason = "other"]
      BY DEF Mutate
    <3> QED
      BY <3>1 DEF RecordRevision, IInv, RowOK, RowRecords
  <2>3. GateTrue'
    BY <2>2 DEF GateTrue, GateOpen
  <2>4. PICK y : op' = [op EXCEPT ![r] = y] /\ ~Composed(y)
    <3>1. CASE Goto(r, "unapplied")
      <4>1. PICK y : op' = [op EXCEPT ![r] = y] /\ y.pc = "unapplied"
        BY <3>1, Goes DEF Fields
      <4> QED
        BY <4>1, PlainPcs DEF Plain, Pcs, Writing
    <3>2. CASE Releases(r)
      BY <3>2, LetsGo
    <3> QED
      BY <3>1, <3>2 DEF Mutate
  <2> QED
    BY <2>1, <2>3, <2>4, PlainOK, HolderStep
<1> QED
  BY <1>1, <1>2

LEMMA RequestGate ==
  ASSUME GateInv, IInv, NEW r \in Requests, RequestArrives(r) \/ RequestStep(r)
  PROVE  GateInv'
<1> r \in Actors
  BY DEF Actors
<1>0. RowOK /\ {"mutation", "unapplied", "stop"} \subseteq Plain
  BY DEF IInv, Plain, Pcs, Writing
<1>1. CASE BeginMutation(r)
  <2>1. TakesLease(r) /\ Goto(r, "mutation") /\ UNCHANGED <<contact, remote, row>>
    BY <1>1 DEF BeginMutation, stored
  <2>2. PICK y : op' = [op EXCEPT ![r] = y] /\ y.pc = "mutation"
    BY <2>1, Goes DEF Fields
  <2>3. ~Composed(y)
    BY <1>0, <2>2, PlainPcs
  <2> QED
    BY <2>1, <2>2, <2>3, TakingOK
<1>2. CASE BusyStop(r) \/ Retry(r)
  <2>1. RowCloses
    BY <1>0, <1>2, Closes DEF BusyStop, Retry
  <2> QED
    BY <1>2, <2>1, NobodyMoves DEF BusyStop, Retry
<1>3. CASE Enroll(r)
  <2>1. RowCloses
    BY <1>0, <1>3, RecordCloses DEF Enroll
  <2> QED
    BY <1>0, <1>3, <2>1, PlainGoto DEF Enroll
<1>4. CASE Mutate(r)
  BY <1>4, MutateGate
<1>5. CASE Rename(r)
  <2>1. UNCHANGED <<contact, remote, lease, overrun>>
    BY <1>5 DEF Rename
  <2>2. RowCloses
    BY <1>0, <1>5, Closes, RecordCloses DEF Rename, RowCloses
  <2>3. \/ Goto(r, "unapplied") \/ Goto(r, "stop") \/ Releases(r)
    BY <1>5 DEF Rename
  <2> QED
    BY <1>0, <2>1, <2>2, <2>3, PlainGoto, LetsGoStep
<1>6. CASE RefuseMutation(r)
  <2>1. UNCHANGED <<contact, remote, lease, row, overrun>>
    BY <1>6 DEF RefuseMutation, stored
  <2> QED
    BY <1>0, <1>6, <2>1, PlainGoto, LetsGoStep DEF RefuseMutation, RowCloses
<1>7. CASE RecordConflict(r) \/ RecordApplyPending(r)
  <2>1. RowCloses
    BY <1>0, <1>7, Closes DEF RecordConflict, RecordApplyPending
  <2>2. UNCHANGED <<contact, remote, lease, overrun>> /\ Releases(r)
    BY <1>7 DEF RecordConflict, RecordApplyPending
  <2> QED
    BY <2>1, <2>2, LetsGoStep
<1> QED
  BY <1>1, <1>2, <1>3, <1>4, <1>5, <1>6, <1>7, ReleaseGate DEF RequestArrives, RequestStep

-----------------------------------------------------------------------------
(* The apply                                                               *)

\* The next step of an apply that keeps the rules it composed.
LEMMA KeepsRules ==
  ASSUME GateInv, IInv, NEW l \in Actors, Composed(op[l]), NEW pc \in Writing, Goto(l, pc),
         UNCHANGED <<contact, remote, overrun, lease>>, RowCloses
  PROVE  GateInv'
<1>1. PICK y : op' = [op EXCEPT ![l] = y] /\ y.pc = pc /\ y.rules = op[l].rules
  BY Goes DEF Fields
<1>2. HolderOK(l, op[l])
  BY DEF GateInv
<1>3. HolderOK(l, y)'
  BY <1>1, <1>2 DEF HolderOK, Verified, Writing, Target, ActiveAddresses
<1> QED
  BY <1>1, <1>3, QuietStep

\* An apply is verified over the rules it composed and read back.
LEMMA Verifies ==
  ASSUME GateInv, IInv, NEW l \in Actors, Composed(op[l]), remote = op[l].rules,
         Concludes(l, "verified", "none"),
         UNCHANGED <<contact, remote, overrun, lease>>, RowCloses
  PROVE  GateInv'
<1>1. PICK y : op' = [op EXCEPT ![l] = y] /\ y.rules = op[l].rules
  BY Concluding
<1>2. HolderOK(l, op[l])
  BY DEF GateInv
<1>3. HolderOK(l, y)'
  BY <1>1, <1>2 DEF HolderOK, Target, ActiveAddresses
<1> QED
  BY <1>1, <1>3, QuietStep

LEMMA Fails ==
  ASSUME GateInv, IInv, NEW l \in Actors, NEW result, NEW reason, result # "verified",
         Concludes(l, result, reason),
         UNCHANGED <<contact, remote, overrun, lease>>, RowCloses
  PROVE  GateInv'
<1>1. PICK y : op' = [op EXCEPT ![l] = y] /\ y.pc = "commit" /\ y.result = result
  BY Concluding
<1> QED
  BY <1>1, PlainPcs, PlainStep

\* Where a write leaves the rules that were composed, it leaves the gate as it
\* was: over the same addresses.
LEMMA WriteGate ==
  ASSUME GateInv, IInv, NEW l \in Actors, op[l].pc \in {"patch", "attach"},
         NEW answer, ProviderGets(l, answer), AfterWrite(l, answer, "verify"),
         UNCHANGED <<contact, row, lease>>
  PROVE  GateInv'
<1>1. op[l].rules \in Rules /\ None \notin Rules /\ HolderOK(l, op[l])
  BY PolicyAssumption DEF GateInv, IInv, OpOK, Unruled
<1>2. PICK y : /\ op' = [op EXCEPT ![l] = y] /\ ~Verified(y)
               /\ Composed(y) => y.rules = op[l].rules
  <2>1. CASE Goto(l, "verify")
    <3>1. PICK y : op' = [op EXCEPT ![l] = y] /\ y.pc = "verify" /\ y.rules = op[l].rules
      BY <2>1, Goes DEF Fields
    <3> QED
      BY <3>1 DEF Verified
  <2>2. CASE \E result \in {"retryable", "unverified"}, reason \in Reasons :
               Concludes(l, result, reason)
    <3>1. PICK result \in {"retryable", "unverified"}, reason \in Reasons :
            Concludes(l, result, reason)
      BY <2>2
    <3>2. PICK y : op' = [op EXCEPT ![l] = y] /\ y.pc = "commit" /\ y.result = result
      BY <3>1, Concluding
    <3> QED
      BY <3>2 DEF Composed, Verified, Writing
  <2> QED
    BY <2>1, <2>2 DEF AfterWrite, Reasons
<1>3. CASE Done(answer)
  <2>1. CASE overrun'
    BY <2>1, OverrunTells
  <2>2. CASE ~overrun'
    <3>1. lease = l /\ ~overrun /\ lease' = l
      BY <1>3, <2>2, WriterHolds DEF ProviderGets
    <3>2. op[l].rules.to = Target
      BY <1>1, <3>1 DEF HolderOK, Composed, Writing
    <3>3. remote' = op[l].rules /\ Target' = Target /\ GateOpen' = GateOpen
      BY <1>3 DEF ProviderGets, Target, ActiveAddresses, GateOpen
    <3>4. GateTrue'
      BY <1>1, <3>1, <3>2, <3>3 DEF GateInv, GateTrue
    <3>5. HolderOK(l, y)'
      BY <1>2, <3>2, <3>3 DEF HolderOK
    <3> QED
      BY <1>2, <3>1, <3>4, <3>5, HolderStep
  <2> QED
    BY <2>1, <2>2
<1>4. CASE ~Done(answer)
  <2>1. UNCHANGED <<remote, overrun>> /\ RowCloses
    BY <1>4 DEF ProviderGets, RowCloses
  <2>2. HolderOK(l, y)'
    BY <1>1, <1>2, <2>1 DEF HolderOK, Composed, Writing, Target, ActiveAddresses
  <2> QED
    BY <1>2, <2>1, <2>2, QuietStep
<1> QED
  BY <1>3, <1>4

\* The readings and the writes of an apply.
LEMMA ApplyGate ==
  ASSUME GateInv, IInv, NEW l \in Actors,
         \/ ReadDesired(l) \/ ReadGrants(l) \/ ComposeRules(l)
         \/ PristineReadback(l) \/ PatchPolicy(l) \/ CreatePolicy(l) \/ AttachPolicy(l)
         \/ VerifyReadback(l)
  PROVE  GateInv'
<1>0. PICK o \in Operations : o = op[l]
  BY DEF IInv, OpOK
<1>1. CASE ReadDesired(l)
  <2>1. PICK y : y = [o EXCEPT !.pc = "grants", !.rev = row.desired]
    OBVIOUS
  <2>2. y.pc = "grants"
    BY <2>1 DEF Operations
  <2>3. op' = [op EXCEPT ![l] = y]
    BY <1>0, <1>1, <2>1 DEF ReadDesired
  <2>4. UNCHANGED <<contact, remote, lease, overrun>> /\ RowCloses
    BY <1>1 DEF ReadDesired, stored, RowCloses
  <2>5. ~Composed(y)
    BY <2>2, PlainPcs DEF Plain, Pcs, Writing
  <2> QED
    BY <2>3, <2>4, <2>5, PlainStep
<1>2. CASE ReadGrants(l)
  <2>1. PICK rules : rules = [to |-> {}, grants |-> ActiveGrants(grant)]
    OBVIOUS
  <2>2. PICK y : y = [o EXCEPT !.pc = "contacts", !.rules = rules]
    OBVIOUS
  <2>3. y.pc = "contacts"
    BY <2>2 DEF Operations
  <2>4. op' = [op EXCEPT ![l] = y]
    BY <1>0, <1>2, <2>1, <2>2 DEF ReadGrants
  <2>5. UNCHANGED <<contact, remote, lease, overrun>> /\ RowCloses
    BY <1>2 DEF ReadGrants, stored, RowCloses
  <2>6. ~Composed(y)
    BY <2>3, PlainPcs DEF Plain, Pcs, Writing
  <2> QED
    BY <2>4, <2>5, <2>6, PlainStep
<1>3. CASE ComposeRules(l)
  <2>1. UNCHANGED <<contact, remote, lease, overrun>> /\ RowCloses
    BY <1>3 DEF ComposeRules, stored, RowCloses
  <2>2. CASE Releases(l)
    BY <2>1, <2>2, LetsGoStep
  <2>3. CASE ~Releases(l)
    <3>1. PICK rules, explained :
            /\ rules.to = Target
            /\ op' = [op EXCEPT ![l].pc = "pristine", ![l].rules = rules,
                                ![l].explained = explained]
      BY <1>3, <2>3 DEF ComposeRules, Compose, Target
    <3>2. PICK y : y = [o EXCEPT !.pc = "pristine", !.rules = rules, !.explained = explained]
      OBVIOUS
    <3>3. y.pc = "pristine" /\ y.rules = rules
      BY <3>2 DEF Operations
    <3>4. op' = [op EXCEPT ![l] = y]
      BY <1>0, <3>1, <3>2
    <3>5. HolderOK(l, y)'
      BY <2>1, <3>1, <3>3 DEF HolderOK, Verified, Target, ActiveAddresses
    <3> QED
      BY <2>1, <3>4, <3>5, QuietStep
  <2> QED
    BY <2>2, <2>3
<1>4. CASE PristineReadback(l)
  <2>1. UNCHANGED <<contact, remote, lease, overrun>> /\ RowCloses /\ Composed(op[l])
    BY <1>4 DEF PristineReadback, stored, RowCloses, Composed
  <2>2. \/ \E pc \in Writing : Goto(l, pc)
        \/ Concludes(l, "verified", "none") /\ remote = op[l].rules
        \/ \E result, reason : result # "verified" /\ Concludes(l, result, reason)
    BY <1>4 DEF PristineReadback, Writing
  <2> QED
    BY <2>1, <2>2, KeepsRules, Verifies, Fails
<1>5. CASE PatchPolicy(l) \/ AttachPolicy(l)
  <2>1. UNCHANGED <<contact, row, lease>> /\ op[l].pc \in {"patch", "attach"}
    BY <1>5 DEF PatchPolicy, AttachPolicy, stored
  <2>2. PICK answer : ProviderGets(l, answer) /\ AfterWrite(l, answer, "verify")
    BY <1>5 DEF PatchPolicy, AttachPolicy
  <2> QED
    BY <2>1, <2>2, WriteGate
<1>6. CASE CreatePolicy(l)
  <2>1. UNCHANGED <<contact, remote, lease, overrun>> /\ RowCloses /\ Composed(op[l])
    BY <1>6 DEF CreatePolicy, stored, RowCloses, Composed, Writing
  <2>2. \/ \E pc \in Writing : Goto(l, pc)
        \/ \E result, reason : result # "verified" /\ Concludes(l, result, reason)
    BY <1>6 DEF CreatePolicy, AfterWrite, Writing
  <2> QED
    BY <2>1, <2>2, KeepsRules, Fails
<1>7. CASE VerifyReadback(l)
  <2>1. UNCHANGED <<contact, remote, lease, overrun>> /\ RowCloses /\ Composed(op[l])
    BY <1>7 DEF VerifyReadback, stored, RowCloses, Composed, Writing
  <2>2. \/ Concludes(l, "verified", "none") /\ remote = op[l].rules
        \/ \E result, reason : result # "verified" /\ Concludes(l, result, reason)
    BY <1>7 DEF VerifyReadback
  <2> QED
    BY <2>1, <2>2, Verifies, Fails
<1> QED
  BY <1>1, <1>2, <1>3, <1>4, <1>5, <1>6, <1>7

\* The compare-and-set opens the gate over the rules just read back.
LEMMA CommitGate ==
  ASSUME GateInv, IInv, NEW l \in Actors, CommitApplyOutcome(l)
  PROVE  GateInv'
<1>1. op[l].pc = "commit" /\ UNCHANGED <<contact, remote, lease>>
  BY DEF CommitApplyOutcome
<1>2. PICK y : y = Attempting(l, "after")
  OBVIOUS
<1>3. op' = [op EXCEPT ![l] = y] /\ ~Composed(y)
  <2>1. y.pc = "after"
    BY <1>2, RestingPcs
  <2> QED
    BY <1>2, <2>1, PlainPcs DEF CommitApplyOutcome, Plain, Pcs, Writing
<1>4. CASE op[l].result = "verified" /\ Current(l)
  <2>1. CASE overrun'
    BY <2>1, OverrunTells
  <2>2. CASE ~overrun'
    <3>1. Writes(l)
      BY <1>4 DEF CommitApplyOutcome, CommitVerified, BlockedStatuses
    <3>2. lease = l /\ ~overrun /\ lease' = l
      BY <1>1, <2>2, <3>1, WriterHolds
    <3>3. PICK rules : rules = op[l].rules
      OBVIOUS
    <3>4. HolderOK(l, op[l])
      BY DEF GateInv
    <3>5. remote = rules /\ rules.to = Target
      BY <1>1, <1>4, <3>2, <3>3, <3>4 DEF HolderOK, Composed, Verified
    <3>6. rules \in Rules /\ None \notin Rules
      BY <1>1, <3>3, PolicyAssumption DEF IInv, OpOK, Unruled
    <3>7. row'.appliedRules = rules
      <4>1. row' = [row EXCEPT !.applied = op[l].rev, !.appliedRules = rules,
                               !.policy = TRUE, !.status = "applied", !.reason = "none"]
        BY <1>4, <3>3 DEF CommitApplyOutcome, CommitVerified, BlockedStatuses
      <4> QED
        BY <4>1 DEF IInv, RowOK, RowRecords
    <3>8. remote' = rules /\ Target' = Target
      BY <1>1, <3>5 DEF Target, ActiveAddresses
    <3>9. GateTrue'
      BY <3>5, <3>6, <3>7, <3>8 DEF GateTrue
    <3> QED
      BY <1>3, <3>2, <3>9, PlainOK, HolderStep
  <2> QED
    BY <2>1, <2>2
<1>5. CASE ~(op[l].result = "verified" /\ Current(l))
  <2>0. RowOK
    BY DEF IInv
  <2>1. UNCHANGED overrun
    BY <1>5 DEF CommitApplyOutcome, CommitVerified
  <2>2. RowCloses
    <3>1. CASE row' = row
      BY <3>1 DEF RowCloses
    <3>2. CASE row' = WithStatus("pending", op[l].reason)
      BY <2>0, <3>2, Closes
    <3>3. CASE op[l].result \in BlockedStatuses
               /\ InvalidateWalletBindings(op[l].result, op[l].reason)
      BY <2>0, <3>3, Closes DEF BlockedStatuses
    <3> QED
      BY <1>5, <3>1, <3>2, <3>3 DEF CommitApplyOutcome, CommitVerified
  <2> QED
    BY <1>1, <1>3, <2>1, <2>2, PlainStep
<1> QED
  BY <1>4, <1>5

-----------------------------------------------------------------------------
(* The rest of the reconciler, the environment, and the theorem            *)

LEMMA SettlesPlainly ==
  ASSUME GateInv, IInv, NEW l \in Actors, NEW result, Settles(l, result),
         UNCHANGED <<contact, remote, overrun, lease>>, RowCloses
  PROVE  GateInv'
<1>1. PICK y : y = [Attempting(l, "settle") EXCEPT !.result = result]
  OBVIOUS
<1>2. op' = [op EXCEPT ![l] = y]
  BY <1>1 DEF Settles
<1>3. y.pc = "settle"
  BY <1>1, RestingPcs
<1>4. ~Composed(y)
  BY <1>3, PlainPcs DEF Plain, Pcs, Writing
<1> QED
  BY <1>2, <1>4, PlainStep

LEMMA ReconcilerGate ==
  ASSUME GateInv, IInv, NEW l \in Actors,
         \/ Scan(l) \/ AcquireOrDefer(l) \/ ClaimIntent(l) \/ ReclaimIntent(l)
         \/ DecideBeforeRetry(l) \/ DecidingReadback(l) \/ ReadAfterwards(l) \/ Settle(l)
  PROVE  GateInv'
<1>0. RowOK /\ {"acquire", "claim", "reclaim", "decide", "get", "read"} \subseteq Plain
  BY DEF IInv, Plain, Pcs, Writing
<1>1. CASE Scan(l)
  <2>1. PICK n, reclaim : op' = [op EXCEPT ![l] = [NoOperation EXCEPT
                            !.pc = "acquire", !.intent = n, !.reclaim = reclaim]]
    BY <1>1 DEF Scan
  <2>2. PICK y : y = [NoOperation EXCEPT !.pc = "acquire", !.intent = n, !.reclaim = reclaim]
    OBVIOUS
  <2>3. op' = [op EXCEPT ![l] = y] /\ y.pc = "acquire"
    BY <2>1, <2>2 DEF NoOperation
  <2>4. UNCHANGED <<contact, remote, lease, overrun>> /\ RowCloses
    BY <1>1 DEF Scan, stored, RowCloses
  <2>5. ~Composed(y)
    BY <1>0, <2>3, PlainPcs
  <2> QED
    BY <2>3, <2>4, <2>5, PlainStep
<1>2. CASE AcquireOrDefer(l)
  <2>1. UNCHANGED <<contact, remote, row>>
    BY <1>2 DEF AcquireOrDefer, stored
  <2>2. CASE TakesLease(l) /\ Goto(l, "claim")
    <3>1. PICK y : op' = [op EXCEPT ![l] = y] /\ y.pc = "claim"
      BY <2>2, Goes DEF Fields
    <3>2. ~Composed(y)
      BY <1>0, <3>1, PlainPcs
    <3> QED
      BY <2>1, <2>2, <3>1, <3>2, TakingOK
  <2>3. CASE Ends(l) /\ UNCHANGED <<lease, overrun>>
    BY <2>1, <2>3, LetsGoStep DEF RowCloses
  <2> QED
    BY <1>2, <2>2, <2>3 DEF AcquireOrDefer
<1>3. CASE ClaimIntent(l)
  <2>1. UNCHANGED <<contact, remote, lease, overrun>> /\ RowCloses
    BY <1>3 DEF ClaimIntent, RowCloses
  <2>2. CASE Releases(l)
    BY <2>1, <2>2, LetsGoStep
  <2>3. CASE ~Releases(l)
    <3>1. PICK pc, n : /\ pc \in {"reclaim", "decide"}
                       /\ op' = [op EXCEPT ![l] = [Attempting(l, pc) EXCEPT !.attempts = n]]
      BY <1>3, <2>3 DEF ClaimIntent
    <3>2. PICK y : y = [Attempting(l, pc) EXCEPT !.attempts = n]
      OBVIOUS
    <3>3. op' = [op EXCEPT ![l] = y] /\ y.pc \in {"reclaim", "decide"}
      BY <3>1, <3>2, RestingPcs
    <3>4. ~Composed(y)
      BY <1>0, <3>3, PlainPcs
    <3> QED
      BY <2>1, <3>3, <3>4, PlainStep
  <2> QED
    BY <2>2, <2>3
<1>4. CASE ReclaimIntent(l)
  <2>1. UNCHANGED <<contact, remote, lease, overrun>> /\ RowCloses /\ Goto(l, "decide")
    BY <1>4 DEF ReclaimIntent, RowCloses
  <2> QED
    BY <1>0, <2>1, PlainGoto
<1>5. CASE DecideBeforeRetry(l)
  <2>1. UNCHANGED <<contact, remote, lease, overrun>> /\ RowCloses
    BY <1>5 DEF DecideBeforeRetry, RowCloses, stored
  <2>2. CASE op' = [op EXCEPT ![l].pc = "get", ![l].rules = row.appliedRules]
    <3>1. PICK o \in Operations : o = op[l]
      BY DEF IInv, OpOK
    <3>2. PICK y : y = [o EXCEPT !.pc = "get", !.rules = row.appliedRules]
      OBVIOUS
    <3>3. y.pc = "get"
      BY <3>2 DEF Operations
    <3>4. op' = [op EXCEPT ![l] = y]
      BY <2>2, <3>1, <3>2
    <3>5. ~Composed(y)
      BY <1>0, <3>3, PlainPcs
    <3> QED
      BY <2>1, <3>4, <3>5, PlainStep
  <2>3. CASE Goto(l, "read") \/ Settles(l, "syncing")
    BY <1>0, <2>1, <2>3, PlainGoto, SettlesPlainly
  <2> QED
    BY <1>5, <2>2, <2>3 DEF DecideBeforeRetry
<1>6. CASE DecidingReadback(l) \/ ReadAfterwards(l)
  <2>1. UNCHANGED <<contact, remote, lease, overrun>> /\ RowCloses
    BY <1>6 DEF DecidingReadback, ReadAfterwards, RowCloses, stored
  <2>2. Goto(l, "read") \/ \E result : Settles(l, result)
    BY <1>6 DEF DecidingReadback, ReadAfterwards
  <2> QED
    BY <1>0, <2>1, <2>2, PlainGoto, SettlesPlainly
<1>7. CASE Settle(l)
  <2>1. UNCHANGED <<contact, remote, lease, overrun>> /\ Releases(l)
    BY <1>7 DEF Settle
  <2>2. RowCloses
    <3>1. \/ InvalidateWalletBindings("blocked_conflict", "unexplained")
          \/ row' = SettledRow(l)
          \/ row' = row
      BY <1>7 DEF Settle
    <3>2. \/ SettledRow(l) = row
          \/ \E status \in {"retryable_failure", "syncing"} :
               SettledRow(l) = WithStatus(status, "other")
      BY DEF SettledRow
    <3>3. CASE row' = row
      BY <3>3 DEF RowCloses
    <3> QED
      BY <1>0, <3>1, <3>2, <3>3, Closes
  <2> QED
    BY <2>1, <2>2, LetsGoStep
<1> QED
  BY <1>1, <1>2, <1>3, <1>4, <1>5, <1>6, <1>7

\* Grants come and go, processes die and leases run out.
LEMMA EnvironmentGate ==
  ASSUME GateInv, IInv,
         \/ \E g \in Grants : CreateGrant(g) \/ RevokeGrant(g)
         \/ \E x \in Actors : Crash(x)
         \/ ExpireLease
  PROVE  GateInv'
<1>1. CASE \E x \in Actors : Crash(x)
  <2>1. PICK x \in Actors : Crash(x)
    BY <1>1
  <2>2. UNCHANGED <<contact, remote, row, overrun>> /\ Ends(x)
    BY <2>1 DEF Crash, stored
  <2>3. lease' = lease \/ lease' \notin Actors
    BY <2>1, PolicyAssumption DEF Crash
  <2> QED
    BY <2>2, <2>3, LetsGoStep DEF RowCloses
<1>2. CASE \/ ExpireLease
           \/ \E g \in Grants : CreateGrant(g) \/ RevokeGrant(g)
  <2>1. UNCHANGED <<op, contact, remote, row, overrun>>
    BY <1>2 DEF ExpireLease, CreateGrant, RevokeGrant, stored
  <2>2. lease' = lease \/ lease' \notin Actors
    BY <1>2, PolicyAssumption DEF ExpireLease, CreateGrant, RevokeGrant
  <2> QED
    BY <2>1, <2>2, NobodyMoves DEF RowCloses
<1> QED
  BY <1>1, <1>2

LEMMA GateInitially == Init => GateInv
<1> SUFFICES ASSUME Init PROVE GateInv
  OBVIOUS
<1>1. \A x \in Actors : op[x].pc = "idle"
  BY DEF Init, NoOperation
<1>2. \A x \in Actors : HolderOK(x, op[x])
  BY <1>1 DEF HolderOK, Composed, Verified, Writing
<1>3. ~GateOpen
  BY DEF Init, GateOpen
<1> QED
  BY <1>2, <1>3 DEF GateInv, GateTrue

LEMMA GatePreserved == IInv /\ GateInv /\ [Next]_vars => GateInv'
<1> SUFFICES ASSUME IInv, GateInv, [Next]_vars PROVE GateInv'
  OBVIOUS
<1>1. CASE \E r \in Requests : RequestArrives(r) \/ RequestStep(r)
  BY <1>1, RequestGate
<1>2. ASSUME NEW l \in Loops, LoopStep(l) PROVE GateInv'
  <2> l \in Actors
    BY DEF Actors
  <2> QED
    BY <1>2, ApplyGate, CommitGate, ReconcilerGate, ReleaseGate DEF LoopStep
<1>3. CASE \/ \E g \in Grants : CreateGrant(g) \/ RevokeGrant(g)
           \/ \E x \in Actors : Crash(x)
           \/ ExpireLease
  BY <1>3, EnvironmentGate
<1>4. CASE UNCHANGED vars
  <2>1. UNCHANGED <<op, contact, remote, row, lease, overrun>>
    BY <1>4 DEF vars
  <2> QED
    BY <2>1, NobodyMoves DEF RowCloses
<1> QED
  BY <1>1, <1>2, <1>3, <1>4 DEF Next

\* Through an open gate nobody is paid but the contacts of now: the provider
\* enforces the addresses that were applied, and they are the ones the contacts
\* ask for (applyRevision and commitApplyOutcome, service.ts:2756-2965), whatever
\* the order of requests, retries, enrollments, grants, reconcilers, crashes,
\* lapsed leases and lost answers, until an operation that had lost its lease
\* writes.
THEOREM GateIsEnforced == Spec => []OpenGateIsEnforced
<1>1. Init => GateInv
  BY GateInitially
<1>2. IInv /\ GateInv /\ [Next]_vars => GateInv'
  BY GatePreserved
<1>3. GateInv => OpenGateIsEnforced
  BY DEF GateInv, GateTrue, OpenGateIsEnforced, Target
<1> QED
  BY <1>1, <1>2, <1>3, PolicyInvariant, PTL DEF Spec

-----------------------------------------------------------------------------
(* What the readback comparison guarantees of every rule set and every     *)
(* consent.                                                                *)

\* A set of positions that is not empty has a first one.
LEMMA FirstPosition ==
  ASSUME NEW T, T \subseteq Nat, T # {}
  PROVE  \E i \in T : \A j \in T : i <= j
<1>1. PICK i \in T : \A j \in T : ~(<<j, i>> \in OpToRel(<, Nat))
  BY NatLessThanWellFounded, WFMin
<1>2. \A j \in T : ~(j < i)
  BY <1>1 DEF OpToRel
<1> QED  BY <1>2

\* The rules of the remote policy, as a readback gives them: a sequence of rules
\* of any kind.
LEMMA OffenceDecides ==
  ASSUME NEW phase, NEW sameId \in BOOLEAN, NEW rules, NEW observed \in Seq(rules),
         NEW composed, NEW provenance,
         CompareComposedRules(phase, sameId, observed, composed, provenance) \in {"equal", "converge"}
  PROVE  Offending(observed, NamesOf(composed), provenance) = {}
<1> DEFINE offending == Offending(observed, NamesOf(composed), provenance)
<1> SUFFICES ASSUME offending # {} PROVE FALSE
  OBVIOUS
<1>1. offending \subseteq Nat
  BY DEF Offending
<1>2. PICK i \in offending : \A j \in offending : i <= j
  BY <1>1, FirstPosition
<1> DEFINE first == CHOOSE k \in offending : \A j \in offending : k <= j
<1>3. first \in offending
  BY <1>2
<1>4. OffenceOf(observed[first], NamesOf(composed), provenance) # "none"
  BY <1>3 DEF Offending
<1>5. OffenceOf(observed[first], NamesOf(composed), provenance)
        \in {"unrecognized_rule", "rule_conditions_unreadable",
             "recipient_address_without_provenance", "rule_shape_unrecognized", "none"}
  BY DEF OffenceOf
<1>6. CASE sameId
  <2>1. CompareComposedRules(phase, sameId, observed, composed, provenance)
          = OffenceOf(observed[first], NamesOf(composed), provenance)
    BY <1>6 DEF CompareComposedRules
  <2> QED  BY <2>1, <1>4, <1>5
<1>7. CASE ~sameId
  BY <1>7 DEF CompareComposedRules
<1> QED  BY <1>6, <1>7

\* A policy is written over only when every rule found there is one of ours by
\* name and shape and every address in it has a consent on record: whatever the
\* remote holds, a write never deletes a rule or an address that nobody can
\* explain.
THEOREM WritesOverTheExplained ==
  ASSUME NEW sameId \in BOOLEAN, NEW rules, NEW observed \in Seq(rules),
         NEW composed, NEW provenance, NEW binding \in Bindings, NEW phase,
         ComparePolicyReadback(CompareComposedRules(phase, sameId, observed, composed, provenance),
                               binding) = "patch_required"
  PROVE  /\ sameId /\ binding = "proven"
         /\ \A i \in DOMAIN observed :
              /\ observed[i].name \in NamesOf(composed)
              /\ observed[i].readable /\ observed[i].shape = "ours"
              /\ RangeOf(observed[i].to) \subseteq provenance
<1> DEFINE comparison == CompareComposedRules(phase, sameId, observed, composed, provenance)
<1>1. comparison \in {"policy_id_mismatch", "equal", "converge", "rules_mismatch",
                      "unrecognized_rule", "rule_conditions_unreadable",
                      "recipient_address_without_provenance", "rule_shape_unrecognized", "none"}
  BY DEF CompareComposedRules, OffenceOf
<1> HIDE DEF comparison
<1>2. comparison = "converge" /\ binding = "proven"
  BY <1>1 DEF ComparePolicyReadback, comparison, Bindings
<1>3. sameId
  BY <1>2 DEF CompareComposedRules, comparison
<1>4. Offending(observed, NamesOf(composed), provenance) = {}
  BY <1>2, OffenceDecides DEF comparison
<1>5. ASSUME NEW i \in DOMAIN observed
      PROVE  OffenceOf(observed[i], NamesOf(composed), provenance) = "none"
  BY <1>4 DEF Offending
<1>6. ASSUME NEW i \in DOMAIN observed
      PROVE  /\ observed[i].name \in NamesOf(composed)
             /\ observed[i].readable /\ observed[i].shape = "ours"
             /\ RangeOf(observed[i].to) \subseteq provenance
  BY <1>5 DEF OffenceOf
<1> QED  BY <1>2, <1>3, <1>6

\* What is told as verified is what was composed: the readback is the composed
\* rule set itself, of the policy that was named, and the signer and the wallet
\* are the bound ones.
THEOREM VerifiedIsComposed ==
  ASSUME NEW sameId \in BOOLEAN, NEW rules, NEW observed \in Seq(rules),
         NEW composed, NEW provenance, NEW binding \in Bindings, NEW phase,
         ComparePolicyReadback(CompareComposedRules(phase, sameId, observed, composed, provenance),
                               binding) = "verified"
  PROVE  sameId /\ observed = composed /\ binding = "proven"
<1> DEFINE comparison == CompareComposedRules(phase, sameId, observed, composed, provenance)
<1>1. comparison \in {"policy_id_mismatch", "equal", "converge", "rules_mismatch",
                      "unrecognized_rule", "rule_conditions_unreadable",
                      "recipient_address_without_provenance", "rule_shape_unrecognized", "none"}
  BY DEF CompareComposedRules, OffenceOf
<1> HIDE DEF comparison
<1>2. comparison = "equal" /\ binding = "proven"
  BY <1>1 DEF ComparePolicyReadback, comparison, Bindings
<1>3. sameId
  BY <1>2 DEF CompareComposedRules, comparison
<1>4. Offending(observed, NamesOf(composed), provenance) = {}
  BY <1>2, OffenceDecides DEF comparison
<1>5. observed = composed
  BY <1>2, <1>3, <1>4 DEF CompareComposedRules, comparison
<1> QED  BY <1>2, <1>3, <1>5
=============================================================================
