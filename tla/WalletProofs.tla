------------------------------ MODULE WalletProofs ------------------------------
(***************************************************************************)
(* Proofs about a user's wallets, for every number of them: the enrollment *)
(* of a wallet and its delegation (WalletEnrollment), and the deposits it  *)
(* receives (DepositReconciliation).                                       *)
(*                                                                         *)
(* Enrollment, for every set of wallets and requests and every bound.  A   *)
(* policy is applied only where a signer was verified, a permission is     *)
(* active only there, and a revocation is final.  The three are facts      *)
(* about single transactions only as far as the record of a request is     *)
(* still true when it writes, so EnrollmentInv says of each request what   *)
(* it learned before its last await, and Advances says why no other        *)
(* request can take that back: revisions, bindings and grant rows only     *)
(* ever grow.  The sync with the provider has an invariant of its own,     *)
(* SyncOK: the user's advisory lock makes what a sync saw at the provider  *)
(* the newest thing seen until it commits.                                 *)
(*                                                                         *)
(* Deposits, for every number of workers, every history and every page     *)
(* size.  No deposit is skipped, and a lease excludes until it expires.    *)
(* NothingSkipped is not inductive: a run writes the triple it carries, so *)
(* DepositInv says of every running worker that its own triple is sound    *)
(* and that the page in its hands continues it without a hole.  A worker   *)
(* whose lease expired may then overwrite a newer triple with its own:     *)
(* that loses progress, never a deposit.                                   *)
(***************************************************************************)
EXTENDS WalletEnrollment, DepositReconciliation, FiniteSetTheorems, TLAPS

-----------------------------------------------------------------------------
(* Enrollment and delegation                                               *)

Policies == [desired : Nat, applied : Nat, hashed : BOOLEAN, remote : Nat]
GrantRows == [wallet : Wallets \cup {NoWallet},
              state : {"none", "pending", "active", "revoking"}, seen : BOOLEAN]
RequestRecords ==
  [pc : Pcs, op : {"sync", "prepare", "contact", "complete", "revoke"},
   wallet : Wallets \cup {NoWallet}, bound : BOOLEAN, grant : {NoGrant} \cup Grants,
   seen : BOOLEAN, rev : Nat, saw : SUBSET Wallets, epoch : Nat]

Typed ==
  /\ listed \subseteq Wallets /\ bound \subseteq Wallets /\ epoch \in Nat
  /\ signer \in [Wallets -> [present : BOOLEAN, carries : BOOLEAN]]
  /\ policy \in [Wallets -> Policies]
  /\ grant \in [Grants -> GrantRows]
  /\ request \in [Requests -> RequestRecords]

\* What a request knows at each of its steps.
RequestOK(q) ==
  /\ q.pc \notin {"idle", "commit", "revoke", "failed"} => q.wallet \in Wallets
  /\ q.pc = "target" => policy[q.wallet].desired > 0
  /\ q.pc \in {"apply", "cas"} => q.wallet \in bound /\ q.rev > 0
  /\ q.pc \in {"rules", "activate"} => policy[q.wallet].applied > 0
  /\ q.pc \in {"look", "applied", "rules", "activate"} =>
       /\ q.grant \in Grants
       /\ grant[q.grant].state # "none" /\ grant[q.grant].wallet = q.wallet
  /\ q.pc \in {"revoke", "failed"} => q.grant \in Grants /\ grant[q.grant].state # "none"

RequestsOK == \A r \in Requests : RequestOK(request[r])

EnrollmentInv == Typed /\ RequestsOK /\ AppliedNeedsBinding /\ ActiveWasProven

\* What a request may do to the facts the others rely on.
Advances ==
  /\ bound \subseteq bound'
  /\ \A w \in Wallets : /\ policy[w].desired > 0 => policy'[w].desired > 0
                        /\ policy[w].applied > 0 => policy'[w].applied > 0
  /\ \A g \in Grants : grant[g].state # "none" =>
       grant'[g].state # "none" /\ grant'[g].wallet = grant[g].wallet

-----------------------------------------------------------------------------
LEMMA RequestStays ==
  ASSUME Advances, NEW q \in RequestRecords, RequestOK(q)
  PROVE  RequestOK(q)'
  BY DEF Advances, RequestOK

\* A step changes the record of one request; it has to leave that one and
\* the shared state in order.
LEMMA OneRequest ==
  ASSUME EnrollmentInv, Advances, NEW r \in Requests, NEW q \in RequestRecords,
         request' = [request EXCEPT ![r] = q], RequestOK(q)'
  PROVE  /\ request' \in [Requests -> RequestRecords]
         /\ RequestsOK'
<1>1. request \in [Requests -> RequestRecords] BY DEF EnrollmentInv, Typed
<1>2. request' \in [Requests -> RequestRecords] BY <1>1
<1>3. ASSUME NEW s \in Requests PROVE RequestOK(request[s])'
  <2>1. CASE s = r
    <3>1. request'[s] = q BY <2>1, <1>1
    <3> QED BY <3>1 DEF RequestOK
  <2>2. CASE s # r
    <3>1. PICK p \in RequestRecords : p = request[s] BY <1>1
    <3>2. request'[s] = p BY <2>2, <1>1, <3>1
    <3>3. RequestOK(p) BY <3>1 DEF EnrollmentInv, RequestsOK
    <3>4. RequestOK(p)' BY <3>3, RequestStays
    <3> QED BY <3>2, <3>4 DEF RequestOK
  <2> QED BY <2>1, <2>2
<1> QED BY <1>2, <1>3 DEF RequestsOK

LEMMA IdleOK == Idle \in RequestRecords /\ Idle.pc = "idle"
  BY DEF Idle, RequestRecords, Pcs, NoGrant

\* A request that ends leaves no fact to keep.
LEMMA Ends ==
  ASSUME EnrollmentInv, Advances, NEW r \in Requests, Done(r)
  PROVE  request' \in [Requests -> RequestRecords] /\ RequestsOK'
<1>1. RequestOK(Idle)' BY IdleOK DEF RequestOK
<1> QED BY <1>1, IdleOK, OneRequest DEF Done

\* A request that goes on does so with its record at the next step.
LEMMA GoesOn ==
  ASSUME EnrollmentInv, Advances, NEW r \in Requests, NEW pc \in Pcs,
         request' = [request EXCEPT ![r].pc = pc],
         RequestOK([request[r] EXCEPT !.pc = pc])'
  PROVE  request' \in [Requests -> RequestRecords] /\ RequestsOK'
<1>1. request \in [Requests -> RequestRecords] BY DEF EnrollmentInv, Typed
<1>2. PICK q : q = [request[r] EXCEPT !.pc = pc] OBVIOUS
<1>3. q \in RequestRecords BY <1>1, <1>2 DEF RequestRecords
<1>4. request' = [request EXCEPT ![r] = q] BY <1>1, <1>2
<1>5. RequestOK(q)' BY <1>2
<1> QED BY <1>3, <1>4, <1>5, OneRequest

LEMMA InitInv == ASSUME Init PROVE EnrollmentInv
<1>1. Typed
  <2>0. bound \subseteq Wallets BY DEF Init
  <2>1. listed \subseteq Wallets /\ epoch \in Nat BY DEF Init
  <2>2. signer \in [Wallets -> [present : BOOLEAN, carries : BOOLEAN]] BY DEF Init
  <2>3. policy \in [Wallets -> Policies] BY DEF Init, Policies
  <2>4. grant \in [Grants -> GrantRows] BY DEF Init, GrantRows
  <2>5. request \in [Requests -> RequestRecords] BY IdleOK DEF Init
  <2> QED BY <2>0, <2>1, <2>2, <2>3, <2>4, <2>5 DEF Typed
<1>2. RequestsOK BY IdleOK DEF Init, RequestsOK, RequestOK
<1>3. AppliedNeedsBinding BY DEF Init, AppliedNeedsBinding
<1>4. ActiveWasProven BY DEF Init, ActiveWasProven
<1> QED BY <1>1, <1>2, <1>3, <1>4 DEF EnrollmentInv

-----------------------------------------------------------------------------
(* The steps                                                               *)

\* A step that leaves policies, bindings and grants alone.
Quiet == UNCHANGED <<policy, bound, grant>>

LEMMA QuietAdvances == ASSUME Quiet PROVE Advances
  BY DEF Quiet, Advances

LEMMA QuietKeeps ==
  ASSUME EnrollmentInv, Quiet, listed' \subseteq Wallets, epoch' \in Nat,
         signer' \in [Wallets -> [present : BOOLEAN, carries : BOOLEAN]],
         request' \in [Requests -> RequestRecords], RequestsOK'
  PROVE  EnrollmentInv'
  BY DEF EnrollmentInv, Quiet, Typed, AppliedNeedsBinding, ActiveWasProven

\* A request starts: its record is the first one of its protocol.
LEMMA Starts ==
  ASSUME EnrollmentInv, Quiet, NEW r \in Requests, NEW q \in RequestRecords, Begin(r, q),
         RequestOK(q), UNCHANGED <<userVars, signer>>
  PROVE  EnrollmentInv'
<1>1. Advances BY QuietAdvances
<1>2. RequestOK(q)' BY <1>1, RequestStays
<1>3. request' = [request EXCEPT ![r] = q] BY DEF Begin
<1>4. request' \in [Requests -> RequestRecords] /\ RequestsOK' BY <1>1, <1>2, <1>3, OneRequest
<1>5. listed' \subseteq Wallets /\ epoch' \in Nat
      /\ signer' \in [Wallets -> [present : BOOLEAN, carries : BOOLEAN]]
  BY DEF EnrollmentInv, Typed, userVars
<1> QED BY <1>4, <1>5, QuietKeeps

LEMMA StartSteps ==
  ASSUME EnrollmentInv, NEW r \in Requests,
         SyncList(r) \/ Prepare(r) \/ ContactChange(r) \/ Complete(r) \/ Revoke(r)
  PROVE  EnrollmentInv'
<1> USE DEF grantVars, walletVars, Quiet
<1>1. CASE SyncList(r)
  <2>1. PICK q : q = [Idle EXCEPT !.pc = "commit", !.saw = listed, !.epoch = epoch] OBVIOUS
  <2>2. q \in RequestRecords BY <2>1 DEF Idle, RequestRecords, Pcs, NoGrant, EnrollmentInv, Typed
  <2>3. RequestOK(q) BY <2>1 DEF Idle, RequestOK
  <2>4. Begin(r, q) /\ Quiet /\ UNCHANGED <<userVars, signer>> BY <1>1, <2>1 DEF SyncList
  <2> QED BY <2>2, <2>3, <2>4, Starts
<1>2. CASE Prepare(r)
  <2>0. PICK w \in Ready :
          /\ Begin(r, [Idle EXCEPT !.pc = "snapshot", !.op = "prepare", !.wallet = w])
          /\ UNCHANGED <<walletVars, userVars, bound, signer, policy, grantVars>>
    BY <1>2 DEF Prepare
  <2>1. PICK q : q = [Idle EXCEPT !.pc = "snapshot", !.op = "prepare", !.wallet = w] OBVIOUS
  <2>2. q \in RequestRecords BY <2>1 DEF Idle, RequestRecords, Pcs, NoGrant, Ready
  <2>3. RequestOK(q) BY <2>1 DEF Idle, RequestOK, Ready
  <2> QED BY <2>0, <2>1, <2>2, <2>3, Starts
<1>3. CASE ContactChange(r)
  <2>0. PICK w \in Ready :
          /\ Begin(r, [Idle EXCEPT !.pc = "record", !.op = "contact", !.wallet = w])
          /\ UNCHANGED <<walletVars, userVars, bound, signer, policy, grantVars>>
    BY <1>3 DEF ContactChange
  <2>1. PICK q : q = [Idle EXCEPT !.pc = "record", !.op = "contact", !.wallet = w] OBVIOUS
  <2>2. q \in RequestRecords BY <2>1 DEF Idle, RequestRecords, Pcs, NoGrant, Ready
  <2>3. RequestOK(q) BY <2>1 DEF Idle, RequestOK, Ready
  <2> QED BY <2>0, <2>1, <2>2, <2>3, Starts
<1>4. CASE Complete(r)
  <2>0. PICK w \in Wallets, g \in Grants :
          /\ IsNewest(g, InState(w, {"pending", "active"}))
          /\ Begin(r, [Idle EXCEPT !.pc = "look", !.op = "complete", !.wallet = w,
                                   !.bound = w \in bound, !.grant = g])
          /\ UNCHANGED <<walletVars, userVars, bound, signer, policy, grantVars>>
    BY <1>4 DEF Complete
  <2>b. PICK b \in BOOLEAN : b = (w \in bound)
    <3>1. (w \in bound) \in BOOLEAN OBVIOUS
    <3> QED BY <3>1, Zenon
  <2>1. PICK q : q = [Idle EXCEPT !.pc = "look", !.op = "complete", !.wallet = w,
                                  !.bound = b, !.grant = g]
    OBVIOUS
  <2>2. q \in RequestRecords BY <2>1 DEF Idle, RequestRecords, Pcs, NoGrant
  <2>3. grant[g].state # "none" /\ grant[g].wallet = w BY <2>0 DEF IsNewest, InState
  <2>4. RequestOK(q) BY <2>1, <2>3 DEF Idle, RequestOK
  <2> QED BY <2>0, <2>b, <2>1, <2>2, <2>4, Starts
<1>5. CASE Revoke(r)
  <2>0. PICK g \in Grants :
          /\ IsNewest(g, {h \in Grants : grant[h].state = "active"})
          /\ Begin(r, [Idle EXCEPT !.pc = "revoke", !.op = "revoke", !.grant = g])
          /\ UNCHANGED <<walletVars, userVars, bound, signer, policy, grantVars>>
    BY <1>5 DEF Revoke
  <2>1. PICK q : q = [Idle EXCEPT !.pc = "revoke", !.op = "revoke", !.grant = g] OBVIOUS
  <2>2. q \in RequestRecords BY <2>1 DEF Idle, RequestRecords, Pcs, NoGrant
  <2>3. grant[g].state # "none" BY <2>0 DEF IsNewest
  <2>4. RequestOK(q) BY <2>1, <2>3 DEF Idle, RequestOK
  <2> QED BY <2>0, <2>1, <2>2, <2>4, Starts
<1> QED BY <1>1, <1>2, <1>3, <1>4, <1>5

\* A request reads, or gives up.
LEMMA QuietStep ==
  ASSUME EnrollmentInv, Quiet, NEW r \in Requests,
         UNCHANGED userVars, signer' \in [Wallets -> [present : BOOLEAN, carries : BOOLEAN]],
         request' \in [Requests -> RequestRecords] /\ RequestsOK'
  PROVE  EnrollmentInv'
<1>1. listed' \subseteq Wallets /\ epoch' \in Nat BY DEF EnrollmentInv, Typed, userVars
<1> QED BY <1>1, QuietKeeps

LEMMA ReadSteps ==
  ASSUME EnrollmentInv, NEW r \in Requests,
         \/ SyncCommit(r) \/ SyncOutage(r) \/ Snapshot(r) \/ KeepPending(r)
         \/ ResolveTarget(r) \/ Look(r) \/ ReadApplied(r) \/ RulesMatch(r)
  PROVE  EnrollmentInv'
<1> USE DEF grantVars, walletVars
<1>1. Quiet /\ UNCHANGED userVars
  BY DEF SyncCommit, SyncOutage, Snapshot, KeepPending, ResolveTarget, Look, ReadApplied,
         RulesMatch, Quiet
<1>2. Advances BY <1>1, QuietAdvances
<1>3. PICK p \in RequestRecords : p = request[r] BY DEF EnrollmentInv, Typed
<1>4. RequestOK(p) BY <1>3 DEF EnrollmentInv, RequestsOK
<1>5. signer' \in [Wallets -> [present : BOOLEAN, carries : BOOLEAN]]
  <2>1. CASE ReadApplied(r)
    <3>1. p.pc = "applied" BY <2>1, <1>3 DEF ReadApplied, At
    <3>2. p.wallet \in Wallets BY <3>1, <1>4 DEF RequestOK
    <3> DEFINE b == signer[p.wallet].carries \/ (~ p.bound /\ ~ signer[p.wallet].carries)
    <3>3. signer' = signer \/ signer' = [signer EXCEPT ![p.wallet].carries = b]
      BY <2>1, <1>3 DEF ReadApplied
    <3> b \in BOOLEAN OBVIOUS
    <3> HIDE DEF b
    <3> QED BY <3>2, <3>3 DEF EnrollmentInv, Typed
  <2>2. CASE ~ ReadApplied(r)
    <3>1. signer' = signer
      BY <2>2 DEF SyncCommit, SyncOutage, Snapshot, KeepPending, ResolveTarget, Look, RulesMatch
    <3> QED BY <3>1 DEF EnrollmentInv, Typed
  <2> QED BY <2>1, <2>2
<1>6. CASE Done(r) BY <1>6, <1>1, <1>2, <1>5, Ends, QuietStep
<1>7. CASE ~ Done(r)
  <2>1. \E q \in RequestRecords : request' = [request EXCEPT ![r] = q] /\ RequestOK(q)
    <3>1. CASE Snapshot(r)
      <4>1. PICK b \in BOOLEAN : b = signer[p.wallet].present
        BY <3>1, <1>3, <1>4 DEF Snapshot, At, RequestOK, EnrollmentInv, Typed
      <4>2. PICK q : q = [p EXCEPT !.pc = "pend", !.seen = b] OBVIOUS
      <4>3. request' = [request EXCEPT ![r] = q]
        BY <1>7, <3>1, <4>1, <4>2, <1>3 DEF Snapshot, EnrollmentInv, Typed
      <4>4. q \in RequestRecords BY <4>2, <1>3 DEF RequestRecords, Pcs
      <4>5. RequestOK(q) BY <3>1, <4>2, <1>3, <1>4 DEF RequestOK, Snapshot, At
      <4> QED BY <4>3, <4>4, <4>5
    <3>2. CASE KeepPending(r)
      <4>1. PICK pc \in {"insert", "record"} : request' = [request EXCEPT ![r].pc = pc]
        BY <3>2 DEF KeepPending, Goto
      <4>2. PICK q : q = [p EXCEPT !.pc = pc] OBVIOUS
      <4>3. request' = [request EXCEPT ![r] = q] BY <4>1, <4>2, <1>3 DEF EnrollmentInv, Typed
      <4>4. q \in RequestRecords BY <4>2, <1>3 DEF RequestRecords, Pcs
      <4>5. RequestOK(q) BY <3>2, <4>2, <1>3, <1>4 DEF RequestOK, KeepPending, At
      <4> QED BY <4>3, <4>4, <4>5
    <3>3. CASE ResolveTarget(r)
      <4>1. HasTarget(p.wallet) /\ p.pc = "target"
        BY <1>7, <3>3, <1>3 DEF ResolveTarget, At
      <4>2. PICK n \in Nat : n = policy[p.wallet].desired /\ n > 0
        BY <4>1, <1>4 DEF RequestOK, EnrollmentInv, Typed, Policies
      <4>3. PICK q : q = [p EXCEPT !.pc = "apply", !.rev = n] OBVIOUS
      <4>4. request' = [request EXCEPT ![r] = q]
        BY <1>7, <3>3, <4>2, <4>3, <1>3 DEF ResolveTarget, EnrollmentInv, Typed
      <4>5. q \in RequestRecords BY <4>3, <1>3 DEF RequestRecords, Pcs
      <4>6. RequestOK(q) BY <4>1, <4>2, <4>3, <1>3, <1>4 DEF RequestOK, HasTarget, RequestRecords
      <4> QED BY <4>4, <4>5, <4>6
    <3>4. CASE Look(r)
      <4>1. p.pc = "look" BY <3>4, <1>3 DEF Look, At
      <4>2. PICK b \in BOOLEAN : b = Recognized(r)
        BY <4>1, <1>3, <1>4 DEF Recognized, RequestOK, EnrollmentInv, Typed, GrantRows
      <4>3. PICK q : q = [p EXCEPT !.pc = "applied", !.seen = b] OBVIOUS
      <4>4. request' = [request EXCEPT ![r] = q]
        BY <1>7, <3>4, <4>2, <4>3, <1>3 DEF Look, EnrollmentInv, Typed
      <4>5. q \in RequestRecords BY <4>3, <1>3 DEF RequestRecords, Pcs
      <4>6. RequestOK(q) BY <4>1, <4>3, <1>3, <1>4 DEF RequestOK, RequestRecords
      <4> QED BY <4>4, <4>5, <4>6
    <3>5. CASE ReadApplied(r)
      <4>1. p.pc = "applied" BY <3>5, <1>3 DEF ReadApplied, At
      <4>2. p.wallet \in Wallets BY <4>1, <1>4 DEF RequestOK
      <4>3. PICK n \in Nat : n = policy[p.wallet].applied BY <4>2 DEF EnrollmentInv, Typed, Policies
      <4>4. Completable(policy[p.wallet]) BY <1>7, <3>5, <1>3 DEF ReadApplied
      <4>5. PICK q : q = [p EXCEPT !.pc = "rules", !.rev = n] OBVIOUS
      <4>6. request' = [request EXCEPT ![r] = q]
        BY <1>7, <3>5, <4>3, <4>5, <1>3 DEF ReadApplied, EnrollmentInv, Typed
      <4>7. q \in RequestRecords BY <4>5, <1>3 DEF RequestRecords, Pcs
      <4>8. RequestOK(q)
        BY <4>1, <4>4, <4>5, <1>3, <1>4 DEF RequestOK, RequestRecords, Completable
      <4> QED BY <4>6, <4>7, <4>8
    <3>6. CASE RulesMatch(r)
      <4>1. p.pc = "rules" BY <3>6, <1>3 DEF RulesMatch, At
      <4>2. PICK q : q = [p EXCEPT !.pc = "activate"] OBVIOUS
      <4>3. request' = [request EXCEPT ![r] = q]
        BY <1>7, <3>6, <4>2, <1>3 DEF RulesMatch, Goto, EnrollmentInv, Typed
      <4>4. q \in RequestRecords BY <4>2, <1>3 DEF RequestRecords, Pcs
      <4>5. RequestOK(q) BY <4>1, <4>2, <1>3, <1>4 DEF RequestOK, RequestRecords
      <4> QED BY <4>3, <4>4, <4>5
    <3> QED BY <1>7, <3>1, <3>2, <3>3, <3>4, <3>5, <3>6 DEF SyncCommit, SyncOutage
  <2> QED BY <2>1, <1>1, <1>2, <1>5, RequestStays, OneRequest, QuietStep
<1> QED BY <1>6, <1>7

-----------------------------------------------------------------------------
(* The writes                                                              *)

LEMMA InsertPendingStep ==
  ASSUME EnrollmentInv, NEW r \in Requests, InsertPending(r)
  PROVE  EnrollmentInv' /\ \A g \in Grants : grant[g].state = "revoking" => grant'[g] = grant[g]
<1>1. PICK p \in RequestRecords : p = request[r] BY DEF EnrollmentInv, Typed
<1>2. RequestOK(p) /\ p.pc = "insert" BY <1>1 DEF EnrollmentInv, RequestsOK, InsertPending, At
<1>3. p.wallet \in Wallets /\ p.seen \in BOOLEAN BY <1>2 DEF RequestOK, RequestRecords
<1>4. PICK g \in Grants :
        /\ grant[g].state = "none"
        /\ grant' = [grant EXCEPT ![g] = [wallet |-> p.wallet, state |-> "pending",
                                         seen |-> p.seen]]
  BY <1>1 DEF InsertPending
<1>5. grant' \in [Grants -> GrantRows] BY <1>3, <1>4 DEF EnrollmentInv, Typed, GrantRows
<1>6. UNCHANGED <<listed, epoch, signer, policy, bound>> BY DEF InsertPending, userVars
<1>7. Advances BY <1>4, <1>6 DEF Advances, EnrollmentInv, Typed
<1>8. PICK q : q = [p EXCEPT !.pc = "record"] OBVIOUS
<1>9. q \in RequestRecords BY <1>1, <1>8 DEF RequestRecords, Pcs
<1>10. RequestOK(q) BY <1>2, <1>3, <1>8 DEF RequestOK, RequestRecords
<1>11. request' = [request EXCEPT ![r] = q]
  BY <1>1, <1>8 DEF InsertPending, Goto, EnrollmentInv, Typed
<1>12. request' \in [Requests -> RequestRecords] /\ RequestsOK'
  BY <1>7, <1>9, <1>10, <1>11, RequestStays, OneRequest
<1>13. Typed' BY <1>5, <1>6, <1>12 DEF EnrollmentInv, Typed
<1>14. AppliedNeedsBinding' BY <1>6 DEF EnrollmentInv, AppliedNeedsBinding
<1>15. ActiveWasProven' BY <1>4, <1>6 DEF EnrollmentInv, Typed, ActiveWasProven
<1>16. \A h \in Grants : grant[h].state = "revoking" => grant'[h] = grant[h]
  BY <1>4 DEF EnrollmentInv, Typed
<1> QED BY <1>12, <1>13, <1>14, <1>15, <1>16 DEF EnrollmentInv

\* A write to a policy row, with the binding untouched.
LEMMA PolicyWrite ==
  ASSUME EnrollmentInv, NEW r \in Requests, NEW w \in Wallets, NEW row1 \in Policies,
         policy' = [policy EXCEPT ![w] = row1],
         policy[w].desired > 0 => row1.desired > 0,
         policy[w].applied > 0 => row1.applied > 0,
         row1.applied > 0 => w \in bound,
         UNCHANGED <<userVars, bound, grant>>,
         signer' \in [Wallets -> [present : BOOLEAN, carries : BOOLEAN]],
         NEW q \in RequestRecords, request' = [request EXCEPT ![r] = q], RequestOK(q)'
  PROVE  EnrollmentInv'
<1>1. policy' \in [Wallets -> Policies] BY DEF EnrollmentInv, Typed
<1>2. Advances BY DEF Advances, EnrollmentInv, Typed, Policies
<1>3. request' \in [Requests -> RequestRecords] /\ RequestsOK' BY <1>2, OneRequest
<1>4. Typed' BY <1>1, <1>3 DEF EnrollmentInv, Typed, userVars
<1>5. AppliedNeedsBinding' BY DEF EnrollmentInv, Typed, AppliedNeedsBinding
<1>6. \A g \in Grants : grant[g].state = "active" =>
        /\ grant[g].wallet \in Wallets
        /\ grant[g].wallet \in bound /\ policy[grant[g].wallet].applied > 0
  <2> SUFFICES ASSUME NEW g \in Grants, grant[g].state = "active"
               PROVE  grant[g].wallet \in Wallets
    BY DEF EnrollmentInv, ActiveWasProven
  <2> QED BY DEF EnrollmentInv, Typed, ActiveWasProven
<1>7. ActiveWasProven' BY <1>2, <1>6 DEF ActiveWasProven, Advances
<1> QED BY <1>3, <1>4, <1>5, <1>7 DEF EnrollmentInv

LEMMA PolicySteps ==
  ASSUME EnrollmentInv, NEW r \in Requests,
         RecordIntent(r) \/ Apply(r) \/ Invalidate(r) \/ CommitApplied(r)
  PROVE  EnrollmentInv'
<1>1. PICK p \in RequestRecords : p = request[r] BY DEF EnrollmentInv, Typed
<1>2. RequestOK(p) BY <1>1 DEF EnrollmentInv, RequestsOK
<1>3. p.wallet \in Wallets
  BY <1>1, <1>2 DEF RequestOK, RecordIntent, Apply, Invalidate, CommitApplied, At
<1>4. PICK w \in Wallets : w = p.wallet BY <1>3
<1>5. PICK old \in Policies : old = policy[w] BY DEF EnrollmentInv, Typed
<1>6. old.applied > 0 => w \in bound BY <1>5 DEF EnrollmentInv, AppliedNeedsBinding
<1>7. Idle \in RequestRecords /\ RequestOK(Idle)' BY IdleOK DEF RequestOK
<1>8. CASE RecordIntent(r)
  <2>1. PICK n \in Nat : n = old.desired + 1 /\ n > 0 BY DEF Policies
  <2>2. PICK new : new = [old EXCEPT !.desired = n] OBVIOUS
  <2>3. new \in Policies BY <2>2 DEF Policies
  <2>4. policy' = [policy EXCEPT ![w] = new]
    BY <1>1, <1>4, <1>5, <1>8, <2>1, <2>2 DEF RecordIntent, EnrollmentInv, Typed
  <2>5. PICK q : q = [p EXCEPT !.pc = "target"] OBVIOUS
  <2>6. q \in RequestRecords BY <1>1, <2>5 DEF RequestRecords, Pcs
  <2>7. request' = [request EXCEPT ![r] = q]
    BY <1>1, <1>8, <2>5 DEF RecordIntent, Goto, EnrollmentInv, Typed
  <2>8. new.desired > 0 /\ new.applied = old.applied BY <2>1, <2>2 DEF Policies
  <2>9. policy'[w] = new BY <2>4 DEF EnrollmentInv, Typed
  <2>10. RequestOK(q)' BY <1>4, <2>5, <2>8, <2>9 DEF RequestOK, RequestRecords
  <2>11. UNCHANGED <<userVars, bound, grant, signer>> BY <1>8 DEF RecordIntent, grantVars
  <2>12. signer' \in [Wallets -> [present : BOOLEAN, carries : BOOLEAN]]
    BY <2>11 DEF EnrollmentInv, Typed
  <2> QED BY <1>5, <1>6, <2>3, <2>4, <2>6, <2>7, <2>8, <2>10, <2>11, <2>12, PolicyWrite
<1>9. CASE Apply(r)
  <2>1. p.pc = "apply" BY <1>1, <1>9 DEF Apply, At
  <2>2. UNCHANGED <<userVars, bound, grant>> BY <1>9 DEF Apply, grantVars
  <2>3. PICK s \in [present : BOOLEAN, carries : BOOLEAN] : s = signer[w] BY DEF EnrollmentInv, Typed
  <2>4. signer' = signer \/ signer' = [signer EXCEPT ![w].carries = TRUE]
    BY <1>1, <1>4, <1>9 DEF Apply
  <2>5. signer' \in [Wallets -> [present : BOOLEAN, carries : BOOLEAN]]
    BY <2>4 DEF EnrollmentInv, Typed
  <2>6. PICK n \in Nat : n = p.rev BY <1>1 DEF RequestRecords
  <2>7. \/ policy' = policy
        \/ policy' = [policy EXCEPT ![w].remote = n]
    BY <1>1, <1>4, <1>9, <2>6 DEF Apply
  <2>8. PICK new \in Policies :
          /\ policy' = [policy EXCEPT ![w] = new]
          /\ new.desired = old.desired /\ new.applied = old.applied
    <3>1. CASE policy' = policy BY <1>5, <3>1 DEF EnrollmentInv, Typed
    <3>2. CASE policy' = [policy EXCEPT ![w].remote = n]
      <4>1. PICK new : new = [old EXCEPT !.remote = n] OBVIOUS
      <4>2. new \in Policies /\ new.desired = old.desired /\ new.applied = old.applied
        BY <4>1 DEF Policies
      <4>3. policy' = [policy EXCEPT ![w] = new] BY <1>5, <3>2, <4>1 DEF EnrollmentInv, Typed
      <4> QED BY <4>2, <4>3
    <3> QED BY <2>7, <3>1, <3>2
  <2>9. \E q \in RequestRecords : request' = [request EXCEPT ![r] = q] /\ RequestOK(q)'
    <3>1. CASE Done(r) BY <1>7, <3>1 DEF Done
    <3>2. CASE ~ Done(r)
      <4>1. PICK pc \in {"cas", "blocked"} : request' = [request EXCEPT ![r].pc = pc]
        BY <1>9, <3>2 DEF Apply, Goto
      <4>2. PICK q : q = [p EXCEPT !.pc = pc] OBVIOUS
      <4>3. q \in RequestRecords BY <1>1, <4>2 DEF RequestRecords, Pcs
      <4>4. request' = [request EXCEPT ![r] = q] BY <1>1, <4>1, <4>2 DEF EnrollmentInv, Typed
      <4>5. RequestOK(q)' BY <1>2, <2>1, <2>2, <4>2 DEF RequestOK, RequestRecords
      <4> QED BY <4>3, <4>4, <4>5
    <3> QED BY <3>1, <3>2
  <2> QED BY <1>5, <1>6, <2>2, <2>5, <2>8, <2>9, PolicyWrite
<1>10. CASE Invalidate(r)
  <2>1. PICK new : new = [old EXCEPT !.hashed = FALSE] OBVIOUS
  <2>2. new \in Policies /\ new.desired = old.desired /\ new.applied = old.applied
    BY <2>1 DEF Policies
  <2>3. policy' = [policy EXCEPT ![w] = new]
    BY <1>1, <1>4, <1>5, <1>10, <2>1 DEF Invalidate, EnrollmentInv, Typed
  <2>4. UNCHANGED <<userVars, bound, grant, signer>> BY <1>10 DEF Invalidate, grantVars
  <2>5. signer' \in [Wallets -> [present : BOOLEAN, carries : BOOLEAN]]
    BY <2>4 DEF EnrollmentInv, Typed
  <2>6. request' = [request EXCEPT ![r] = Idle] BY <1>10 DEF Invalidate, Done
  <2> QED BY <1>5, <1>6, <1>7, <2>2, <2>3, <2>4, <2>5, <2>6, PolicyWrite
<1>11. CASE CommitApplied(r)
  <2>1. p.pc = "cas" BY <1>1, <1>11 DEF CommitApplied, At
  <2>2. w \in bound /\ p.rev > 0 BY <1>2, <1>4, <2>1 DEF RequestOK
  <2>3. PICK n \in Nat : n = p.rev BY <1>1 DEF RequestRecords
  <2>4. PICK new \in Policies :
          /\ policy' = [policy EXCEPT ![w] = new]
          /\ new.desired = old.desired
          /\ new.applied = old.applied \/ new.applied = n
    <3>1. CASE policy' = policy BY <1>5, <3>1 DEF EnrollmentInv, Typed
    <3>2. CASE policy' = [policy EXCEPT ![w].applied = n, ![w].hashed = TRUE]
      <4>1. PICK new : new = [old EXCEPT !.applied = n, !.hashed = TRUE] OBVIOUS
      <4>2. new \in Policies /\ new.desired = old.desired /\ new.applied = n
        BY <4>1 DEF Policies
      <4>3. policy' = [policy EXCEPT ![w] = new] BY <1>5, <3>2, <4>1 DEF EnrollmentInv, Typed
      <4> QED BY <4>2, <4>3
    <3> QED BY <1>1, <1>4, <1>11, <2>3, <3>1, <3>2 DEF CommitApplied
  <2>5. UNCHANGED <<userVars, bound, grant, signer>> BY <1>11 DEF CommitApplied
  <2>6. signer' \in [Wallets -> [present : BOOLEAN, carries : BOOLEAN]]
    BY <2>5 DEF EnrollmentInv, Typed
  <2>7. request' = [request EXCEPT ![r] = Idle] BY <1>11 DEF CommitApplied, Done
  <2> QED BY <1>5, <1>6, <1>7, <2>2, <2>3, <2>4, <2>5, <2>6, <2>7, PolicyWrite
<1> QED BY <1>8, <1>9, <1>10, <1>11

LEMMA ActivateStep ==
  ASSUME EnrollmentInv, NEW r \in Requests, Activate(r)
  PROVE  EnrollmentInv' /\ \A g \in Grants : grant[g].state = "revoking" => grant'[g] = grant[g]
<1>1. PICK p \in RequestRecords : p = request[r] BY DEF EnrollmentInv, Typed
<1>2. RequestOK(p) /\ p.pc = "activate" BY <1>1 DEF EnrollmentInv, RequestsOK, Activate, At
<1>3. /\ p.wallet \in Wallets /\ p.grant \in Grants
      /\ policy[p.wallet].applied > 0 /\ grant[p.grant].wallet = p.wallet
  BY <1>2 DEF RequestOK
<1>4. \/ grant' = grant
      \/ /\ grant[p.grant].state \in {"pending", "active"}
         /\ grant' = [grant EXCEPT ![p.grant].state = "active"]
  BY <1>1 DEF Activate, Activatable, grantVars
<1>5. UNCHANGED <<listed, epoch, signer, policy>> /\ bound' = bound \cup {p.wallet}
  BY <1>1 DEF Activate, userVars
<1>6. grant' \in [Grants -> GrantRows] BY <1>3, <1>4 DEF EnrollmentInv, Typed, GrantRows
<1>7. Advances BY <1>3, <1>4, <1>5 DEF Advances, EnrollmentInv, Typed, GrantRows
<1>8. request' \in [Requests -> RequestRecords] /\ RequestsOK' BY <1>7, Ends DEF Activate
<1>9. Typed' BY <1>3, <1>5, <1>6, <1>8 DEF EnrollmentInv, Typed
<1>10. AppliedNeedsBinding' BY <1>5 DEF EnrollmentInv, AppliedNeedsBinding
<1>11. ActiveWasProven'
  <2> SUFFICES ASSUME NEW g \in Grants, grant'[g].state = "active"
               PROVE  grant'[g].wallet \in bound' /\ policy'[grant'[g].wallet].applied > 0
    BY DEF ActiveWasProven
  <2>1. CASE g = p.grant /\ grant' # grant
    <3>1. grant'[g].wallet = p.wallet BY <1>3, <1>4, <2>1 DEF EnrollmentInv, Typed, GrantRows
    <3> QED BY <1>3, <1>5, <3>1
  <2>2. CASE ~ (g = p.grant /\ grant' # grant)
    <3>1. grant'[g] = grant[g] BY <1>3, <1>4, <2>2 DEF EnrollmentInv, Typed
    <3> QED BY <1>5, <3>1 DEF EnrollmentInv, ActiveWasProven
  <2> QED BY <2>1, <2>2
<1>12. \A g \in Grants : grant[g].state = "revoking" => grant'[g] = grant[g]
  BY <1>3, <1>4 DEF EnrollmentInv, Typed
<1> QED BY <1>8, <1>9, <1>10, <1>11, <1>12 DEF EnrollmentInv

LEMMA MarkRevokingStep ==
  ASSUME EnrollmentInv, NEW r \in Requests, MarkRevoking(r)
  PROVE  EnrollmentInv' /\ \A g \in Grants :
                    grant[g].state = "revoking" => grant'[g].state = "revoking"
<1>1. PICK p \in RequestRecords : p = request[r] BY DEF EnrollmentInv, Typed
<1>2. RequestOK(p) /\ p.pc \in {"revoke", "failed"}
  BY <1>1 DEF EnrollmentInv, RequestsOK, MarkRevoking, At
<1>3. p.grant \in Grants /\ grant[p.grant].state # "none" BY <1>2 DEF RequestOK
<1>4. grant' = [grant EXCEPT ![p.grant].state = "revoking"] BY <1>1 DEF MarkRevoking
<1>5. UNCHANGED <<listed, epoch, signer, policy, bound>> BY DEF MarkRevoking, userVars
<1>6. grant' \in [Grants -> GrantRows] BY <1>3, <1>4 DEF EnrollmentInv, Typed, GrantRows
<1>7. Advances BY <1>3, <1>4, <1>5 DEF Advances, EnrollmentInv, Typed, GrantRows
<1>8. request' \in [Requests -> RequestRecords] /\ RequestsOK'
  <2>1. CASE Done(r) BY <1>7, <2>1, Ends
  <2>2. CASE Goto(r, "failed")
    <3>1. PICK q : q = [p EXCEPT !.pc = "failed"] OBVIOUS
    <3>2. q \in RequestRecords BY <1>1, <3>1 DEF RequestRecords, Pcs
    <3>3. RequestOK(q) BY <1>3, <3>1, <1>1 DEF RequestOK, RequestRecords
    <3>4. request' = [request EXCEPT ![r] = q] BY <1>1, <2>2, <3>1 DEF Goto, EnrollmentInv, Typed
    <3> QED BY <1>7, <3>2, <3>3, <3>4, RequestStays, OneRequest
  <2> QED BY <2>1, <2>2 DEF MarkRevoking
<1>9. Typed' BY <1>5, <1>6, <1>8 DEF EnrollmentInv, Typed
<1>10. AppliedNeedsBinding' BY <1>5 DEF EnrollmentInv, AppliedNeedsBinding
<1>11. ActiveWasProven'
  <2> SUFFICES ASSUME NEW g \in Grants, grant'[g].state = "active"
               PROVE  grant'[g].wallet \in bound' /\ policy'[grant'[g].wallet].applied > 0
    BY DEF ActiveWasProven
  <2>1. g # p.grant BY <1>3, <1>4 DEF EnrollmentInv, Typed, GrantRows
  <2>2. grant'[g] = grant[g] BY <1>4, <2>1 DEF EnrollmentInv, Typed
  <2> QED BY <1>5, <2>2 DEF EnrollmentInv, ActiveWasProven
<1>12. \A g \in Grants : grant[g].state = "revoking" => grant'[g].state = "revoking"
  BY <1>3, <1>4 DEF EnrollmentInv, Typed, GrantRows
<1> QED BY <1>8, <1>9, <1>10, <1>11, <1>12 DEF EnrollmentInv

LEMMA UserSteps ==
  ASSUME EnrollmentInv, ProviderMoves \/ \E w \in Wallets : Delegates(w)
  PROVE  EnrollmentInv'
<1>1. Quiet /\ UNCHANGED request BY DEF Quiet, ProviderMoves, Delegates, grantVars
<1>2. Advances BY <1>1, QuietAdvances
<1>3. listed' \subseteq Wallets /\ epoch' \in Nat BY DEF ProviderMoves, Delegates, EnrollmentInv, Typed
<1>4. signer' \in [Wallets -> [present : BOOLEAN, carries : BOOLEAN]]
  <2>1. CASE ProviderMoves BY <2>1 DEF ProviderMoves, EnrollmentInv, Typed
  <2>2. ASSUME NEW w \in Wallets, Delegates(w)
        PROVE  signer' \in [Wallets -> [present : BOOLEAN, carries : BOOLEAN]]
    BY <2>2 DEF Delegates, EnrollmentInv, Typed
  <2> QED BY <2>1, <2>2
<1>5. RequestsOK'
  <2> SUFFICES ASSUME NEW s \in Requests PROVE RequestOK(request[s])'
    BY DEF RequestsOK
  <2>1. PICK p \in RequestRecords : p = request[s] BY DEF EnrollmentInv, Typed
  <2>2. RequestOK(p)' BY <1>2, <2>1, RequestStays DEF EnrollmentInv, RequestsOK
  <2> QED BY <1>1, <2>1, <2>2 DEF RequestOK
<1>6. request' \in [Requests -> RequestRecords] BY <1>1 DEF EnrollmentInv, Typed
<1> QED BY <1>1, <1>3, <1>4, <1>5, <1>6, QuietKeeps

\* A revocation is final because only Activate sets a grant's state to active,
\* and it compares the state it replaces.
RevokingKept == \A g \in Grants : grant[g].state = "revoking" => grant'[g].state = "revoking"

LEMMA NextStep == ASSUME EnrollmentInv, [Next]_vars PROVE EnrollmentInv' /\ RevokingKept
<1>1. CASE UNCHANGED vars
  <2>1. UNCHANGED <<listed, bound, epoch, signer, policy, grant, request>>
    BY <1>1 DEF vars, userVars, grantVars
  <2>2. EnrollmentInv'
    BY <2>1 DEF EnrollmentInv, Typed, RequestsOK, RequestOK, AppliedNeedsBinding, ActiveWasProven
  <2> QED BY <2>1, <2>2 DEF RevokingKept
<1>2. ASSUME NEW r \in Requests,
             \/ SyncList(r) \/ Prepare(r) \/ ContactChange(r) \/ Complete(r) \/ Revoke(r)
      PROVE  EnrollmentInv' /\ RevokingKept
  <2>1. grant' = grant
    BY <1>2 DEF SyncList, Prepare, ContactChange, Complete, Revoke, grantVars
  <2> QED BY <1>2, <2>1, StartSteps DEF RevokingKept
<1>3. ASSUME NEW r \in Requests,
             \/ SyncCommit(r) \/ SyncOutage(r) \/ Snapshot(r) \/ KeepPending(r)
             \/ ResolveTarget(r) \/ Look(r) \/ ReadApplied(r) \/ RulesMatch(r)
      PROVE  EnrollmentInv' /\ RevokingKept
  <2>1. grant' = grant
    BY <1>3 DEF SyncCommit, SyncOutage, Snapshot, KeepPending, ResolveTarget, Look,
                ReadApplied, RulesMatch, grantVars
  <2> QED BY <1>3, <2>1, ReadSteps DEF RevokingKept
<1>4. ASSUME NEW r \in Requests,
             RecordIntent(r) \/ Apply(r) \/ Invalidate(r) \/ CommitApplied(r)
      PROVE  EnrollmentInv' /\ RevokingKept
  <2>1. grant' = grant
    BY <1>4 DEF RecordIntent, Apply, Invalidate, CommitApplied, grantVars
  <2> QED BY <1>4, <2>1, PolicySteps DEF RevokingKept
<1>5. ASSUME NEW r \in Requests, InsertPending(r) PROVE EnrollmentInv' /\ RevokingKept
  BY <1>5, InsertPendingStep DEF RevokingKept
<1>6. ASSUME NEW r \in Requests, Activate(r) PROVE EnrollmentInv' /\ RevokingKept
  BY <1>6, ActivateStep DEF RevokingKept
<1>7. ASSUME NEW r \in Requests, MarkRevoking(r) PROVE EnrollmentInv' /\ RevokingKept
  BY <1>7, MarkRevokingStep DEF RevokingKept
<1>8. CASE ProviderMoves \/ \E w \in Wallets : Delegates(w)
  <2>1. grant' = grant BY <1>8 DEF ProviderMoves, Delegates, grantVars
  <2> QED BY <1>8, <2>1, UserSteps DEF RevokingKept
<1> QED BY <1>1, <1>2, <1>3, <1>4, <1>5, <1>6, <1>7, <1>8 DEF Next

-----------------------------------------------------------------------------
(* The theorems                                                            *)

\* The invariant: what each request in flight knows is still true.
THEOREM Invariance == Spec => []EnrollmentInv
<1>1. Init => EnrollmentInv BY InitInv
<1>2. EnrollmentInv /\ [Next]_vars => EnrollmentInv' BY NextStep
<1> QED BY <1>1, <1>2, PTL DEF Spec

\* No policy revision is applied to a wallet without a verified signer
\* binding, whatever the requests that race for it (privy-policy-admin.ts:96).
THEOREM AppliedOnlyBound == Spec => []AppliedNeedsBinding
<1>1. EnrollmentInv => AppliedNeedsBinding BY DEF EnrollmentInv
<1> QED BY <1>1, Invariance, PTL

\* A permission is active only on a wallet whose signer is bound and whose
\* policy was applied (embedded.ts:1028).
THEOREM ActiveIsProven == Spec => []ActiveWasProven
<1>1. EnrollmentInv => ActiveWasProven BY DEF EnrollmentInv
<1> QED BY <1>1, Invariance, PTL

\* A complete request that read its grant before a revocation does not bring
\* it back (embedded.ts:1588).
THEOREM RevocationIsFinal == Spec => RevokedStaysRevoked
<1>1. EnrollmentInv /\ [Next]_vars => [RevokingKept]_vars BY NextStep
<1>2. Spec => [][RevokingKept]_vars BY <1>1, Invariance, PTL DEF Spec
<1> QED BY <1>2 DEF RevokedStaysRevoked, RevokingKept

-----------------------------------------------------------------------------
(* The sync with what the provider lists                                   *)

\* A sync that will commit holds the user's lock, and has seen the provider no
\* earlier than the sync that committed last.
SyncOK ==
  /\ lock \in Requests \cup {Nobody}
  /\ synced \in [set : SUBSET Wallets, epoch : Nat] /\ synced.epoch <= epoch
  /\ \A r \in Requests : At(r, "commit") =>
       lock = r /\ synced.epoch <= request[r].epoch /\ request[r].epoch <= epoch
  /\ ReadyWasListed

LEMMA InitSyncOK == ASSUME Init PROVE SyncOK
<1>1. \A r \in Requests : ~ At(r, "commit") BY IdleOK DEF Init, At
<1>2. synced \in [set : SUBSET Wallets, epoch : Nat] /\ synced.epoch <= epoch BY DEF Init
<1>3. ReadyWasListed BY DEF Init, ReadyWasListed, Ready
<1> QED BY <1>1, <1>2, <1>3 DEF SyncOK, Init

\* The steps that are not of a sync start none and write nothing of it.
Apart ==
  /\ UNCHANGED <<row, synced, lock>> /\ (epoch' = epoch \/ epoch' = epoch + 1)
  /\ \A r \in Requests : request'[r].pc = "commit" => request'[r] = request[r]

LEMMA ApartKeeps == ASSUME EnrollmentInv, SyncOK, Apart PROVE SyncOK'
<1>1. epoch \in Nat /\ epoch' \in Nat /\ epoch <= epoch' BY DEF EnrollmentInv, Typed, Apart
<1>2. synced.epoch \in Nat BY DEF SyncOK
<1>3. \A r \in Requests : request[r].epoch \in Nat BY DEF EnrollmentInv, Typed, RequestRecords
<1>4. synced'.epoch <= epoch' BY <1>1, <1>2 DEF SyncOK, Apart
<1>5. ASSUME NEW r \in Requests, request'[r].pc = "commit"
      PROVE  /\ lock' = r /\ synced'.epoch <= request'[r].epoch
             /\ request'[r].epoch <= epoch'
  <2>1. request'[r] = request[r] /\ At(r, "commit") BY <1>5 DEF Apart, At
  <2> QED BY <1>1, <1>3, <2>1 DEF SyncOK, Apart
<1>6. ReadyWasListed' BY DEF SyncOK, Apart, ReadyWasListed, Ready
<1> QED BY <1>4, <1>5, <1>6 DEF SyncOK, Apart, At

\* A request whose next step is not a commit.
LEMMA OtherPc ==
  ASSUME EnrollmentInv, NEW r \in Requests, NEW q, q.pc # "commit", request' = [request EXCEPT ![r] = q]
  PROVE  \A s \in Requests : request'[s].pc = "commit" => request'[s] = request[s]
  BY DEF EnrollmentInv, Typed

LEMMA OtherGoto ==
  ASSUME EnrollmentInv, NEW r \in Requests, NEW pc, pc # "commit",
         \E b, n : \/ request' = [request EXCEPT ![r].pc = pc]
                   \/ request' = [request EXCEPT ![r].pc = pc, ![r].seen = b]
                   \/ request' = [request EXCEPT ![r].pc = pc, ![r].rev = n]
  PROVE  \A s \in Requests : request'[s].pc = "commit" => request'[s] = request[s]
<1>1. request \in [Requests -> RequestRecords] BY DEF EnrollmentInv, Typed
<1>2. PICK p \in RequestRecords : p = request[r] BY <1>1
<1>3. \E q : request' = [request EXCEPT ![r] = q] /\ q.pc = pc
  <2>1. CASE request' = [request EXCEPT ![r].pc = pc]
    <3>1. PICK q : q = [p EXCEPT !.pc = pc] OBVIOUS
    <3>2. q.pc = pc BY <3>1 DEF RequestRecords
    <3>3. request' = [request EXCEPT ![r] = q] BY <1>1, <1>2, <2>1, <3>1
    <3> QED BY <3>2, <3>3
  <2>2. ASSUME NEW b, request' = [request EXCEPT ![r].pc = pc, ![r].seen = b]
        PROVE  \E q : request' = [request EXCEPT ![r] = q] /\ q.pc = pc
    <3>1. PICK q : q = [p EXCEPT !.pc = pc, !.seen = b] OBVIOUS
    <3>2. q.pc = pc BY <3>1 DEF RequestRecords
    <3>3. request' = [request EXCEPT ![r] = q] BY <1>1, <1>2, <2>2, <3>1
    <3> QED BY <3>2, <3>3
  <2>3. ASSUME NEW n, request' = [request EXCEPT ![r].pc = pc, ![r].rev = n]
        PROVE  \E q : request' = [request EXCEPT ![r] = q] /\ q.pc = pc
    <3>1. PICK q : q = [p EXCEPT !.pc = pc, !.rev = n] OBVIOUS
    <3>2. q.pc = pc BY <3>1 DEF RequestRecords
    <3>3. request' = [request EXCEPT ![r] = q] BY <1>1, <1>2, <2>3, <3>1
    <3> QED BY <3>2, <3>3
  <2> QED BY <2>1, <2>2, <2>3
<1> QED BY <1>3, OtherPc

LEMMA OtherDone ==
  ASSUME EnrollmentInv, NEW r \in Requests, Done(r)
  PROVE  \A s \in Requests : request'[s].pc = "commit" => request'[s] = request[s]
  BY IdleOK, OtherPc DEF Done

OtherSteps(r) ==
  \/ Prepare(r) \/ Snapshot(r) \/ KeepPending(r) \/ InsertPending(r)
  \/ ContactChange(r) \/ RecordIntent(r) \/ ResolveTarget(r) \/ Apply(r)
  \/ CommitApplied(r) \/ Invalidate(r)
  \/ Complete(r) \/ Look(r) \/ ReadApplied(r) \/ RulesMatch(r) \/ Activate(r)
  \/ Revoke(r) \/ MarkRevoking(r)

LEMMA OtherApart == ASSUME EnrollmentInv, NEW r \in Requests, OtherSteps(r) PROVE Apart
<1>1. UNCHANGED <<row, synced, lock, epoch>>
  BY DEF OtherSteps, Prepare, Snapshot, KeepPending, InsertPending, ContactChange, RecordIntent,
         ResolveTarget, Apply, CommitApplied, Invalidate, Complete, Look, ReadApplied, RulesMatch,
         Activate, Revoke, MarkRevoking, walletVars, userVars
<1> DEFINE Kept == \A s \in Requests : request'[s].pc = "commit" => request'[s] = request[s]
<1>2. ASSUME NEW q, q.pc # "commit", Begin(r, q) PROVE Kept
  BY <1>2, OtherPc DEF Begin
<1>3. Kept
  <2>1. CASE Prepare(r)
    BY <1>2, <2>1 DEF Prepare, Idle
  <2>2. CASE ContactChange(r)
    BY <1>2, <2>2 DEF ContactChange, Idle
  <2>3. CASE Complete(r)
    BY <1>2, <2>3 DEF Complete, Idle
  <2>4. CASE Revoke(r)
    BY <1>2, <2>4 DEF Revoke, Idle
  <2>5. CASE Snapshot(r)
    BY <2>5, OtherGoto, OtherDone DEF Snapshot
  <2>6. CASE KeepPending(r)
    BY <2>6, OtherGoto DEF KeepPending, Goto
  <2>7. CASE InsertPending(r)
    BY <2>7, OtherGoto DEF InsertPending, Goto
  <2>8. CASE RecordIntent(r)
    BY <2>8, OtherGoto DEF RecordIntent, Goto
  <2>9. CASE ResolveTarget(r)
    BY <2>9, OtherGoto, OtherDone DEF ResolveTarget
  <2>10. CASE Apply(r)
    BY <2>10, OtherGoto, OtherDone DEF Apply, Goto
  <2>11. CASE CommitApplied(r) \/ Invalidate(r) \/ Activate(r)
    BY <2>11, OtherDone DEF CommitApplied, Invalidate, Activate
  <2>12. CASE Look(r)
    BY <2>12, OtherGoto, OtherDone DEF Look
  <2>13. CASE ReadApplied(r)
    <3>1. \/ Done(r)
          \/ \E n : request' = [request EXCEPT ![r].pc = "rules", ![r].rev = n]
      BY <2>13 DEF ReadApplied
    <3> QED
      BY <3>1, OtherGoto, OtherDone
  <2>14. CASE RulesMatch(r)
    BY <2>14, OtherGoto, OtherDone DEF RulesMatch, Goto
  <2>15. CASE MarkRevoking(r)
    BY <2>15, OtherGoto, OtherDone DEF MarkRevoking, Goto
  <2> QED
    BY <2>1, <2>2, <2>3, <2>4, <2>5, <2>6, <2>7, <2>8, <2>9, <2>10, <2>11, <2>12, <2>13, <2>14,
       <2>15 DEF OtherSteps
<1> QED BY <1>1, <1>3 DEF Apart

LEMMA SyncListKeeps == ASSUME EnrollmentInv, SyncOK, NEW r \in Requests, SyncList(r) PROVE SyncOK'
<1>1. PICK q : q = [Idle EXCEPT !.pc = "commit", !.saw = listed, !.epoch = epoch] OBVIOUS
<1>2. request' = [request EXCEPT ![r] = q] BY <1>1 DEF SyncList, Begin
<1>3. \A s \in Requests : request'[s] = IF s = r THEN q ELSE request[s] BY <1>2 DEF EnrollmentInv, Typed
<1>4. q.epoch = epoch BY <1>1 DEF Idle
<1>5. \A s \in Requests : s # r => ~ At(s, "commit")' BY <1>3, EnrollmentAssumption
  DEF SyncOK, SyncList, At
<1>6. UNCHANGED <<row, synced, epoch>> /\ lock' = r BY DEF SyncList, userVars
<1>7. ReadyWasListed' BY <1>6 DEF SyncOK, ReadyWasListed, Ready
<1>8. epoch \in Nat BY DEF EnrollmentInv, Typed
<1> QED BY <1>3, <1>4, <1>5, <1>6, <1>7, <1>8 DEF SyncOK, At

\* What a sync selects: the wallet it saw, if that was the only one.
LEMMA OneIsSelected ==
  ASSUME NEW saw \in SUBSET Wallets, NEW w \in Wallets, Reconciled(saw)[w] = "ready"
  PROVE  saw = {w}
<1>1. IsFiniteSet(saw) BY EnrollmentAssumption, FS_Subset
<1>2. w \in saw /\ ~ (Cardinality(saw) > 1) BY DEF Reconciled
<1>3. Cardinality(saw) \in Nat BY <1>1, FS_CardinalityType
<1>4. IsFiniteSet(saw \ {w}) /\ Cardinality(saw \ {w}) = Cardinality(saw) - 1
  BY <1>1, <1>2, FS_RemoveElement
<1>5. Cardinality(saw \ {w}) \in Nat BY <1>4, FS_CardinalityType
<1>6. Cardinality(saw \ {w}) = 0 BY <1>2, <1>3, <1>4, <1>5
<1>7. saw \ {w} = {} BY <1>4, <1>6, FS_EmptySet
<1> QED BY <1>2, <1>7

\* A sync that ends gives the lock back; the one that commits has seen the
\* provider no earlier than what it replaces.
LEMMA SyncEndKeeps ==
  ASSUME EnrollmentInv, SyncOK, NEW r \in Requests, SyncCommit(r) \/ SyncOutage(r)
  PROVE  SyncOK' /\ synced'.epoch >= synced.epoch
<1>1. PICK p \in RequestRecords : p = request[r] BY DEF EnrollmentInv, Typed
<1>2. /\ p.pc = "commit" /\ lock = r /\ synced.epoch <= p.epoch /\ p.epoch <= epoch
      /\ p.epoch \in Nat /\ p.saw \in SUBSET Wallets /\ epoch \in Nat /\ synced.epoch \in Nat
  BY <1>1 DEF SyncCommit, SyncOutage, At, SyncOK, RequestRecords, EnrollmentInv, Typed
<1>3. /\ lock' = Nobody /\ epoch' = epoch /\ Done(r)
  BY DEF SyncCommit, SyncOutage, userVars
<1>4. \A s \in Requests : ~ At(s, "commit")'
  <2>1. \A s \in Requests : request'[s] = IF s = r THEN Idle ELSE request[s]
    BY <1>3 DEF Done, EnrollmentInv, Typed
  <2> QED BY <1>2, <2>1, IdleOK DEF SyncOK, At
<1>5. CASE UNCHANGED <<row, synced>>
  <2>1. ReadyWasListed' BY <1>5 DEF SyncOK, ReadyWasListed, Ready
  <2> QED BY <1>2, <1>3, <1>4, <1>5, <2>1 DEF SyncOK
<1>6. CASE row' = Reconciled(p.saw) /\ synced' = [set |-> p.saw, epoch |-> p.epoch]
  <2>1. ReadyWasListed' BY <1>2, <1>6, OneIsSelected DEF ReadyWasListed, Ready
  <2>2. synced' \in [set : SUBSET Wallets, epoch : Nat] /\ synced'.epoch = p.epoch
    BY <1>2, <1>6
  <2> QED BY <1>2, <1>3, <1>4, <2>1, <2>2 DEF SyncOK
<1> QED BY <1>1, <1>5, <1>6 DEF SyncCommit, SyncOutage

CommitsInOrder == synced'.epoch >= synced.epoch

LEMMA SyncStep == ASSUME EnrollmentInv, SyncOK, [Next]_vars PROVE SyncOK' /\ CommitsInOrder
<1>0. synced.epoch \in Nat BY DEF SyncOK
<1>1. CASE Apart
  BY <1>0, <1>1, ApartKeeps DEF Apart, CommitsInOrder
<1>2. ASSUME NEW r \in Requests, OtherSteps(r) PROVE Apart
  BY <1>2, OtherApart
<1>3. CASE ProviderMoves \/ (\E w \in Wallets : Delegates(w)) \/ UNCHANGED vars
  <2>1. UNCHANGED <<row, synced, lock, request>> /\ (epoch' = epoch \/ epoch' = epoch + 1)
    BY <1>3 DEF ProviderMoves, Delegates, vars, walletVars, userVars
  <2> QED
    BY <2>1, <1>1 DEF Apart
<1>4. ASSUME NEW r \in Requests, SyncList(r) PROVE SyncOK' /\ CommitsInOrder
  BY <1>0, <1>4, SyncListKeeps DEF SyncList, CommitsInOrder
<1>5. ASSUME NEW r \in Requests, SyncCommit(r) \/ SyncOutage(r)
      PROVE  SyncOK' /\ CommitsInOrder
  BY <1>5, SyncEndKeeps DEF CommitsInOrder
<1> QED BY <1>1, <1>2, <1>3, <1>4, <1>5 DEF Next, OtherSteps

\* The user's advisory lock keeps what a sync saw the newest thing seen.
LEMMA SyncInvariance == Spec => []SyncOK
<1>1. Init => SyncOK BY InitSyncOK
<1>2. EnrollmentInv /\ SyncOK /\ [Next]_vars => SyncOK' BY SyncStep
<1> QED BY <1>1, <1>2, Invariance, PTL DEF Spec

\* The one wallet that is ready is the one wallet of the listing reconciled
\* last, whatever syncs raced or rolled back (embedded.ts:638).
THEOREM ReadyIsTheListed == Spec => []ReadyWasListed
<1>1. SyncOK => ReadyWasListed BY DEF SyncOK
<1> QED BY <1>1, SyncInvariance, PTL

\* An older response of the provider does not commit after a newer sync of the
\* same user (embedded.ts:572).
THEOREM SyncsAreInOrder == Spec => SyncsCommitInOrder
<1>1. EnrollmentInv /\ SyncOK /\ [Next]_vars => [CommitsInOrder]_vars BY SyncStep
<1>2. Spec => [][CommitsInOrder]_vars BY <1>1, Invariance, SyncInvariance, PTL DEF Spec
<1> QED BY <1>2 DEF SyncsCommitInOrder, CommitsInOrder

-----------------------------------------------------------------------------
(* Deposits                                                                *)

\* An open gap has both ends.
TripleOK(st) == /\ st.scan = 0 <=> st.high = 0
                /\ st.scan <= st.high

\* The page lies just below the scan cursor (or starts the gap), reaches the
\* watermark when it is short, and misses only what is still to be ingested.
PageOK(w, st, page) ==
  IF page.oldest = 0
  THEN page.left = {} /\ (st.scan # 0 => st.scan <= st.cursor + 1)
  ELSE /\ page.oldest <= page.newest
       /\ st.scan # 0 => page.newest = st.scan - 1
       /\ page.reached => page.oldest = st.cursor + 1
       /\ \A s \in Sigs : page.oldest <= s /\ s <= page.newest /\ s \notin page.left
                            => Ingested(w, s)

RunOK(r) ==
  /\ r.pc \in {"fetch", "ingest"} => Sound(r.wallet, r.st) /\ TripleOK(r.st)
  /\ r.pc = "ingest" => PageOK(r.wallet, r.st, r.page) /\ r.pages < MaxPages

CursorsOK == \A w \in PrivyWallets : Sound(w, cursors[w]) /\ TripleOK(cursors[w])

WorkersOK == \A p \in Workers : RunOK(worker[p])

\* A run that still trusts its lease holds the row, and the row has not expired.
LeasesOK ==
  \A p \in Workers :
    worker[p].valid => /\ leases[worker[p].wallet].holder = p
                       /\ ~leases[worker[p].wallet].expired

DepositInv == TypeOK /\ CursorsOK /\ WorkersOK /\ LeasesOK

FeedGrows == \A w \in PrivyWallets, s \in Sigs : feed[w][s] # "none" => feed'[w][s] # "none"

-----------------------------------------------------------------------------
\* Writing a row never takes one away.
LEMMA InsertGrows ==
  ASSUME TypeOK, NEW w \in PrivyWallets, NEW s \in Sigs, feed' = Inserted(w, s)
  PROVE  /\ FeedGrows
         /\ feed'[w][s] # "none"
         /\ feed' \in [PrivyWallets -> [Sigs -> {"none", "unread", "read"}]]
  BY DEF TypeOK, Inserted, FeedGrows

\* What was ingested stays ingested.
LEMMA SoundStays ==
  ASSUME FeedGrows, NEW w \in PrivyWallets, NEW st \in Triples, Sound(w, st)
  PROVE  Sound(w, st)'
  BY DEF FeedGrows, Sound, Ingested

LEMMA PageStays ==
  ASSUME FeedGrows, NEW w \in PrivyWallets, NEW st \in Triples, NEW page \in Pages,
         PageOK(w, st, page)
  PROVE  PageOK(w, st, page)'
  BY DEF FeedGrows, PageOK, Ingested

LEMMA RunStays ==
  ASSUME FeedGrows, NEW r \in Runs, RunOK(r)
  PROVE  RunOK(r)'
  BY SoundStays, PageStays DEF RunOK, Runs, TripleOK

LEMMA CursorsStay ==
  ASSUME FeedGrows, TypeOK, CursorsOK, UNCHANGED cursors
  PROVE  CursorsOK'
  BY SoundStays DEF CursorsOK, TypeOK, TripleOK

LEMMA IdleRunOK ==
  /\ IdleRun \in Runs /\ ~IdleRun.valid /\ IdleRun.pc = "idle"
  /\ IdleRun.threw = FALSE
<1>1. FreshTriple \in Triples /\ NoPage \in Pages
  BY ReconciliationAssumption DEF FreshTriple, Triples, NoPage, Pages
<1>2. (CHOOSE w \in PrivyWallets : TRUE) \in PrivyWallets
  BY ReconciliationAssumption
<1> QED
  BY <1>1, <1>2, ReconciliationAssumption DEF IdleRun, Runs

\* The page that is fetched continues the triple without a hole.
LEMMA FetchedPageOK ==
  ASSUME TypeOK, NEW w \in PrivyWallets, NEW st \in Triples, TripleOK(st),
         DetailsThere(w, st)
  PROVE  /\ PageOf(w, st) \in Pages
         /\ PageOK(w, st, PageOf(w, st))
<1> DEFINE F == From(w, st)
           O == Oldest(w, st)
<1>1. st.cursor \in 0..MaxSigs /\ st.scan \in 0..MaxSigs /\ st.high \in 0..MaxSigs
  BY DEF Triples
<1>2. F \in 0..MaxSigs /\ (st.scan # 0 => F = st.scan - 1)
  <2>1. len[w] \in 0..MaxSigs
    BY DEF TypeOK
  <2> QED
    BY <1>1, <2>1, ReconciliationAssumption DEF From
<1>3. CASE F <= st.cursor
  <2>1. O > F
    BY <1>1, <1>2, <1>3, ReconciliationAssumption DEF Oldest, Short
  <2>2. O \in Int
    BY <1>1, <1>2, ReconciliationAssumption DEF Oldest
  <2>3. Listed(w, st) = {}
    BY <2>1, <2>2, <1>2, ReconciliationAssumption DEF Listed, Sigs
  <2>4. PageOf(w, st) = [newest |-> 0, oldest |-> 0, reached |-> Short(w, st), left |-> {}]
    BY <2>3, <1>3 DEF PageOf
  <2>5. Short(w, st) \in BOOLEAN
    BY DEF Short
  <2> QED
    BY <2>4, <2>5, <1>1, <1>2, <1>3, ReconciliationAssumption DEF PageOK, Pages
<1>4. CASE ~(F <= st.cursor)
  <2>1. O \in 1..F
    BY <1>1, <1>2, <1>4, ReconciliationAssumption DEF Oldest, Short
  <2>2. Short(w, st) => O = st.cursor + 1
    BY DEF Oldest
  <2> DEFINE L == {s \in Listed(w, st) \cap detail[w] : Kind[w][s] = "deposit"}
  <2>3. PageOf(w, st) = [newest |-> F, oldest |-> O, reached |-> Short(w, st), left |-> L]
    BY <1>4 DEF PageOf
  <2>4. Short(w, st) \in BOOLEAN /\ L \in SUBSET Sigs
    BY DEF Short, Listed
  <2>5. \A s \in Sigs : O <= s /\ s <= F /\ s \notin L => Ingested(w, s)
    BY DEF DetailsThere, Listed, Ingested
  <2>6. PageOf(w, st) \in Pages
    BY <2>1, <2>3, <2>4, <1>2, ReconciliationAssumption DEF Pages
  <2> HIDE DEF L, F, O
  <2>7. O # 0 /\ O <= F
    BY <2>1, <1>2
  <2> QED
    BY <2>2, <2>3, <2>5, <2>6, <2>7, <1>2 DEF PageOK
<1> QED
  BY <1>3, <1>4

\* A page that was ingested completely yields a sound triple.
LEMMA NextTripleOK ==
  ASSUME NEW w \in PrivyWallets, NEW st \in Triples, NEW page \in Pages,
         Sound(w, st), TripleOK(st), PageOK(w, st, page), page.left = {}
  PROVE  /\ NextTriple(st, page) \in Triples
         /\ Sound(w, NextTriple(st, page))
         /\ TripleOK(NextTriple(st, page))
<1>1. /\ st = [cursor |-> st.cursor, high |-> st.high, scan |-> st.scan]
      /\ st.cursor \in 0..MaxSigs /\ st.high \in 0..MaxSigs /\ st.scan \in 0..MaxSigs
      /\ page.newest \in 0..MaxSigs /\ page.oldest \in 0..MaxSigs
  BY DEF Triples, Pages
<1> DEFINE h == HighOf(st, page)
<1>2. CASE page.oldest = 0
  BY <1>1, <1>2, ReconciliationAssumption
     DEF NextTriple, Sound, TripleOK, PageOK, Triples, Sigs
<1>3. CASE page.oldest # 0 /\ page.reached
  <2>1. h \in 0..MaxSigs
    BY <1>1 DEF HighOf
  <2>2. NextTriple(st, page) = [cursor |-> h, high |-> 0, scan |-> 0]
    BY <1>3 DEF NextTriple
  <2>3. \A s \in Sigs : s <= h => Ingested(w, s)
    BY <1>1, <1>3, ReconciliationAssumption DEF HighOf, PageOK, Sound, TripleOK, Sigs
  <2> QED
    BY <2>1, <2>2, <2>3, ReconciliationAssumption DEF Sound, TripleOK, Triples
<1>4. CASE page.oldest # 0 /\ ~page.reached
  <2>1. h \in 0..MaxSigs /\ h # 0 /\ page.oldest <= h
    BY <1>1, <1>4, ReconciliationAssumption DEF HighOf, PageOK, TripleOK
  <2>2. NextTriple(st, page) = [cursor |-> st.cursor, high |-> h, scan |-> page.oldest]
    BY <1>1, <1>4 DEF NextTriple
  <2>3. \A s \in Sigs : page.oldest <= s /\ s <= h => Ingested(w, s)
    BY <1>1, <1>4, ReconciliationAssumption DEF HighOf, PageOK, Sound, TripleOK, Sigs
  <2>4. \A s \in Sigs : s <= st.cursor => Ingested(w, s)
    BY DEF Sound
  <2> QED
    BY <2>1, <2>2, <2>3, <2>4, <1>1, <1>4 DEF Sound, TripleOK, Triples
<1> QED
  BY <1>2, <1>3, <1>4

-----------------------------------------------------------------------------
\* A step of worker p that leaves the others, their leases and the cursors of
\* other wallets alone keeps the invariant when p's own run does.
LEMMA OneWorker ==
  ASSUME DepositInv, NEW p \in Workers, NEW r \in Runs,
         worker' = [worker EXCEPT ![p] = r],
         UNCHANGED world,
         feed' \in [PrivyWallets -> [Sigs -> {"none", "unread", "read"}]], FeedGrows,
         leases' \in [PrivyWallets -> [holder : Workers \cup {NoOne, Orphan}, expired : BOOLEAN]],
         \A q \in Workers \ {p} :
            worker[q].valid => leases'[worker[q].wallet] = leases[worker[q].wallet],
         r.valid => leases'[r.wallet].holder = p /\ ~leases'[r.wallet].expired,
         RunOK(r)',
         cursors' \in [PrivyWallets -> Triples], CursorsOK'
  PROVE  DepositInv'
<1>1. TypeOK'
  BY DEF DepositInv, TypeOK, world
<1>2. WorkersOK'
  BY RunStays DEF DepositInv, WorkersOK, TypeOK
<1>3. LeasesOK'
  BY DEF DepositInv, LeasesOK, TypeOK
<1> QED
  BY <1>1, <1>2, <1>3 DEF DepositInv

\* The worker's steps that touch neither the leases, nor the feed, nor the
\* cursors, and keep the wallet and the lease of the run.
LEMMA LocalStep ==
  ASSUME DepositInv, NEW p \in Workers, NEW r \in Runs,
         worker' = [worker EXCEPT ![p] = r],
         UNCHANGED <<cursors, leases, feed>>, UNCHANGED world,
         r.valid => worker[p].valid /\ r.wallet = worker[p].wallet,
         RunOK(r)
  PROVE  DepositInv'
<1>1. FeedGrows
  BY DEF FeedGrows
<1>2. CursorsOK'
  BY <1>1, CursorsStay DEF DepositInv
<1>3. RunOK(r)'
  BY <1>1, RunStays
<1> QED
  BY <1>1, <1>2, <1>3, OneWorker DEF DepositInv, TypeOK, LeasesOK

THEOREM DepositInitially == DepositInit => DepositInv
<1> SUFFICES ASSUME DepositInit PROVE DepositInv
  OBVIOUS
<1>1. TypeOK
  BY IdleRunOK, ReconciliationAssumption DEF DepositInit, TypeOK, FreshTriple, Triples, Sigs
<1>2. CursorsOK
  <2>1. \A w \in PrivyWallets : Sound(w, FreshTriple) /\ TripleOK(FreshTriple)
    BY ReconciliationAssumption DEF FreshTriple, Sound, TripleOK, Sigs
  <2> QED
    BY <2>1 DEF DepositInit, CursorsOK
<1>3. WorkersOK /\ LeasesOK
  BY IdleRunOK DEF DepositInit, WorkersOK, LeasesOK, RunOK
<1> QED
  BY <1>1, <1>2, <1>3 DEF DepositInv

\* The surroundings keep the invariant.
LEMMA WorldOK ==
  ASSUME DepositInv, World
  PROVE  DepositInv'
<1>1. CASE UNCHANGED <<worker, cursors, leases>> /\ FeedGrows /\ TypeOK'
  BY <1>1, CursorsStay, RunStays DEF DepositInv, WorkersOK, LeasesOK, TypeOK
<1>2. ASSUME NEW w \in PrivyWallets, SignatureConfirmed(w) PROVE DepositInv'
  <2>1. TypeOK'
    BY <1>2, ReconciliationAssumption DEF DepositInv, TypeOK, SignatureConfirmed
  <2> QED
    BY <2>1, <1>1, <1>2 DEF SignatureConfirmed, FeedGrows
<1>3. ASSUME NEW w \in PrivyWallets, WalletDemoted(w) PROVE DepositInv'
  <2>1. TypeOK'
    BY <1>3, ReconciliationAssumption DEF DepositInv, TypeOK, WalletDemoted
  <2> QED
    BY <2>1, <1>1, <1>3 DEF WalletDemoted, FeedGrows
<1>4. ASSUME NEW w \in PrivyWallets, WalletRestored(w) PROVE DepositInv'
  <2>1. TypeOK'
    BY <1>4 DEF DepositInv, TypeOK, WalletRestored
  <2> QED
    BY <2>1, <1>1, <1>4 DEF WalletRestored, FeedGrows
<1>5. ASSUME NEW w \in PrivyWallets, NEW s \in Sigs, DetailAvailable(w, s) PROVE DepositInv'
  <2>1. TypeOK'
    BY <1>5 DEF DepositInv, TypeOK, DetailAvailable
  <2> QED
    BY <2>1, <1>1, <1>5 DEF DetailAvailable, FeedGrows
<1>6. ASSUME NEW w \in PrivyWallets, NEW s \in Sigs, MarkRead(w, s) PROVE DepositInv'
  <2>1. FeedGrows
    BY <1>6 DEF MarkRead, FeedGrows, DepositInv, TypeOK
  <2>2. TypeOK'
    BY <1>6 DEF DepositInv, TypeOK, MarkRead, world
  <2> QED
    BY <2>1, <2>2, <1>1, <1>6 DEF MarkRead, world
<1>7. ASSUME NEW w \in PrivyWallets, LeaseExpires(w) PROVE DepositInv'
  <2>1. FeedGrows /\ CursorsOK'
    BY <1>7, CursorsStay DEF LeaseExpires, FeedGrows, DepositInv
  <2>2. \A p \in Workers : worker'[p] \in {worker[p], [worker[p] EXCEPT !.valid = FALSE]}
    BY <1>7 DEF LeaseExpires
  <2>3. \A r \in Runs : /\ [r EXCEPT !.valid = FALSE] \in Runs
                        /\ RunOK(r) => RunOK([r EXCEPT !.valid = FALSE])
    BY DEF Runs, RunOK
  <2>4. worker' \in [Workers -> Runs]
    BY <1>7, <2>2, <2>3 DEF LeaseExpires, DepositInv, TypeOK
  <2>5. WorkersOK'
    BY <2>1, <2>2, <2>3, <2>4, RunStays DEF DepositInv, WorkersOK, TypeOK
  <2>6. leases' \in [PrivyWallets -> [holder : Workers \cup {NoOne, Orphan}, expired : BOOLEAN]]
    BY <1>7 DEF LeaseExpires, DepositInv, TypeOK
  <2>7. TypeOK'
    BY <1>7, <2>4, <2>6 DEF LeaseExpires, DepositInv, TypeOK, world
  <2>8. LeasesOK'
    <3> SUFFICES ASSUME NEW p \in Workers, worker'[p].valid
                 PROVE  /\ leases'[worker'[p].wallet].holder = p
                        /\ ~leases'[worker'[p].wallet].expired
      BY DEF LeasesOK
    <3>1. worker[p] \in Runs
      BY DEF DepositInv, TypeOK
    <3>2. leases[w].holder # p /\ worker'[p] = worker[p]
      BY <1>7, <3>1 DEF LeaseExpires, Runs
    <3>3. worker[p].wallet \in PrivyWallets /\ worker[p].wallet # w
      BY <3>1, <3>2 DEF DepositInv, LeasesOK, Runs
    <3> QED
      BY <1>7, <3>2, <3>3 DEF LeaseExpires, DepositInv, LeasesOK, TypeOK
  <2> QED
    BY <2>1, <2>5, <2>7, <2>8 DEF DepositInv
<1> QED
  BY <1>2, <1>3, <1>4, <1>5, <1>6, <1>7 DEF World

\* A worker's step keeps the invariant.
LEMMA WorkerOK ==
  ASSUME DepositInv, NEW p \in Workers, WorkerStep(p)
  PROVE  DepositInv'
<1> PICK r : r = worker[p]
  OBVIOUS
<1>0. /\ r = worker[p] /\ r \in Runs /\ RunOK(r) /\ r.wallet \in PrivyWallets /\ r.st \in Triples /\ r.page \in Pages
      /\ r.pages \in 0..MaxPages
  BY DEF DepositInv, TypeOK, WorkersOK, Runs
<1>1. CASE StartPass(p)
  <2> DEFINE n == [r EXCEPT !.pc = "pick", !.todo = {w \in PrivyWallets : ready[w]}]
  <2>1. n \in Runs /\ RunOK(n) /\ n.valid = r.valid /\ n.wallet = r.wallet
    BY <1>0 DEF Runs, RunOK
  <2>2. worker' = [worker EXCEPT ![p] = n]
    BY <1>0, <1>1 DEF StartPass, DepositInv, TypeOK
  <2> QED
    BY <1>1, <1>0, <2>1, <2>2, LocalStep DEF StartPass
<1>2. CASE EndPass(p)
  BY <1>2, IdleRunOK, LocalStep DEF EndPass, RunOK
<1>3. ASSUME NEW w \in PrivyWallets, AcquireLease(p, w) PROVE DepositInv'
  <2> DEFINE n == [r EXCEPT !.pc = "load", !.wallet = w, !.todo = @ \ {w},
                            !.pages = 0, !.threw = FALSE, !.valid = TRUE]
  <2>1. n \in Runs /\ RunOK(n) /\ n.wallet = w
    <3> DEFINE n1 == [r EXCEPT !.pc = "load", !.wallet = w]
               n2 == [n1 EXCEPT !.todo = @ \ {w}, !.pages = 0]
    <3>1. n1 \in Runs /\ n1.pc = "load" /\ n1.wallet = w
      BY <1>0 DEF Runs
    <3> HIDE DEF n1
    <3>2. n2 \in Runs /\ n2.pc = "load" /\ n2.wallet = w
      <4>1. 0 \in 0..MaxPages
        BY ReconciliationAssumption
      <4>2. n1.todo \ {w} \in SUBSET PrivyWallets
        BY <3>1 DEF Runs
      <4> DEFINE n0 == [n1 EXCEPT !.todo = n1.todo \ {w}]
      <4>3. n0 \in Runs /\ n0.pc = "load" /\ n0.wallet = w
        BY <3>1, <4>2 DEF Runs
      <4>4. n2 = [n0 EXCEPT !.pages = 0]
        BY <3>1 DEF Runs
      <4> HIDE DEF n0, n2
      <4> QED
        BY <4>1, <4>3, <4>4 DEF Runs
    <3>3. n = [n2 EXCEPT !.threw = FALSE, !.valid = TRUE]
      BY <1>0 DEF n1, Runs
    <3> HIDE DEF n2
    <3> QED
      BY <3>2, <3>3 DEF Runs, RunOK
  <2>2. worker' = [worker EXCEPT ![p] = n]
    BY <1>0, <1>3 DEF AcquireLease, DepositInv, TypeOK
  <2>3. leases' = [leases EXCEPT ![w] = [holder |-> p, expired |-> FALSE]]
    BY <1>3 DEF AcquireLease
  <2>4. \A q \in Workers \ {p} : worker[q].valid => worker[q].wallet # w
    BY <1>3, NamesAssumption DEF AcquireLease, LeaseFree, DepositInv, LeasesOK
  <2>5. FeedGrows
    BY <1>3 DEF AcquireLease, FeedGrows
  <2>6. CursorsOK'
    BY <2>5, <1>3, CursorsStay DEF DepositInv, AcquireLease
  <2>7. RunOK(n)'
    BY <2>1, <2>5, RunStays
  <2>8. leases' \in [PrivyWallets -> [holder : Workers \cup {NoOne, Orphan}, expired : BOOLEAN]]
    BY <2>3 DEF DepositInv, TypeOK
  <2>9. \A q \in Workers \ {p} :
          worker[q].valid => leases'[worker[q].wallet] = leases[worker[q].wallet]
    BY <2>3, <2>4 DEF DepositInv, TypeOK, Runs
  <2>10. leases'[n.wallet].holder = p /\ ~leases'[n.wallet].expired
    BY <2>1, <2>3 DEF DepositInv, TypeOK
  <2>11. UNCHANGED <<cursors, feed, world>>
    BY <1>3 DEF AcquireLease
  <2> HIDE DEF n
  <2> QED
    BY <2>1, <2>2, <2>5, <2>6, <2>7, <2>8, <2>9, <2>10, <2>11, OneWorker DEF DepositInv, TypeOK
<1>4. ASSUME NEW w \in PrivyWallets, SkipLeased(p, w) PROVE DepositInv'
  <2> DEFINE n == [r EXCEPT !.todo = @ \ {w}]
  <2>1. n \in Runs /\ RunOK(n) /\ n.valid = r.valid /\ n.wallet = r.wallet
    BY <1>0 DEF Runs, RunOK
  <2>2. worker' = [worker EXCEPT ![p] = n]
    BY <1>0, <1>4 DEF SkipLeased, DepositInv, TypeOK
  <2> QED
    BY <1>0, <1>4, <2>1, <2>2, LocalStep DEF SkipLeased
<1>5. CASE LoadCursor(p)
  <2> DEFINE n == [r EXCEPT !.pc = "fetch", !.st = cursors[r.wallet]]
  <2>1. n \in Runs /\ RunOK(n) /\ n.valid = r.valid /\ n.wallet = r.wallet
    BY <1>0 DEF Runs, RunOK, DepositInv, CursorsOK, TypeOK
  <2>2. worker' = [worker EXCEPT ![p] = n]
    BY <1>0, <1>5 DEF LoadCursor, DepositInv, TypeOK
  <2> QED
    BY <1>0, <1>5, <2>1, <2>2, LocalStep DEF LoadCursor
<1>6. CASE FetchPage(p)
  <2> DEFINE n == [r EXCEPT !.pc = "ingest", !.page = PageOf(r.wallet, r.st)]
  <2>0. PageOf(r.wallet, r.st) \in Pages /\ PageOK(r.wallet, r.st, PageOf(r.wallet, r.st))
    BY <1>0, <1>6, FetchedPageOK DEF FetchPage, RunOK, DepositInv
  <2>1. n \in Runs /\ RunOK(n) /\ n.valid = r.valid /\ n.wallet = r.wallet
    BY <1>0, <1>6, <2>0 DEF Runs, RunOK, FetchPage, PagesLeft
  <2>2. worker' = [worker EXCEPT ![p] = n]
    BY <1>0, <1>6 DEF FetchPage, DepositInv, TypeOK
  <2> QED
    BY <1>0, <1>6, <2>1, <2>2, LocalStep DEF FetchPage
<1>7. CASE FetchThrows(p) \/ IngestThrows(p)
  <2> DEFINE n == [r EXCEPT !.pc = "release", !.threw = TRUE]
  <2>1. n \in Runs /\ RunOK(n) /\ n.valid = r.valid /\ n.wallet = r.wallet
    BY <1>0 DEF Runs, RunOK
  <2>2. worker' = [worker EXCEPT ![p] = n]
    BY <1>0, <1>7 DEF FetchThrows, IngestThrows, DepositInv, TypeOK
  <2> QED
    BY <1>0, <1>7, <2>1, <2>2, LocalStep DEF FetchThrows, IngestThrows
<1>8. CASE PagesExhausted(p)
  <2> DEFINE n == [r EXCEPT !.pc = "release"]
  <2>1. n \in Runs /\ RunOK(n) /\ n.valid = r.valid /\ n.wallet = r.wallet
    BY <1>0 DEF Runs, RunOK
  <2>2. worker' = [worker EXCEPT ![p] = n]
    BY <1>0, <1>8 DEF PagesExhausted, DepositInv, TypeOK
  <2> QED
    BY <1>0, <1>8, <2>1, <2>2, LocalStep DEF PagesExhausted
<1>9. CASE IngestObservation(p)
  <2>1. PICK s \in r.page.left : /\ feed' = Inserted(r.wallet, s)
                                 /\ worker' = [worker EXCEPT ![p].page.left = @ \ {s}]
    BY <1>0, <1>9 DEF IngestObservation
  <2>2. s \in Sigs
    BY <1>0, <2>1 DEF Pages
  <2> DEFINE pg == [r.page EXCEPT !.left = @ \ {s}]
             n == [r EXCEPT !.page = pg]
  <2>3. FeedGrows /\ feed'[r.wallet][s] # "none"
        /\ feed' \in [PrivyWallets -> [Sigs -> {"none", "unread", "read"}]]
    BY <1>0, <2>1, <2>2, InsertGrows DEF DepositInv
  <2>4. pg \in Pages /\ n \in Runs /\ n.valid = r.valid /\ n.wallet = r.wallet
        /\ n.st = r.st /\ n.page = pg /\ n.pc = "ingest"
    BY <1>0, <1>9 DEF Pages, Runs, IngestObservation
  <2>5. worker' = [worker EXCEPT ![p] = n]
    BY <2>1, <1>0 DEF DepositInv, TypeOK, Runs, Pages
  <2>6. PageOK(r.wallet, r.st, pg)'
    <3>1. PageOK(r.wallet, r.st, r.page)'
      BY <1>0, <1>9, <2>3, PageStays DEF RunOK, IngestObservation
    <3>2. Ingested(r.wallet, s)'
      BY <2>3 DEF Ingested
    <3> QED
      BY <3>1, <3>2, <1>0, <2>1, <2>2 DEF PageOK, Pages
  <2>7. Sound(r.wallet, r.st)' /\ TripleOK(r.st)
    BY <1>0, <1>9, <2>3, SoundStays DEF RunOK, IngestObservation
  <2>8. RunOK(n)'
    <3>1. n.pages < MaxPages
      BY <1>0, <1>9 DEF RunOK, IngestObservation, Runs
    <3> HIDE DEF n, pg
    <3> QED
      BY <3>1, <2>4, <2>6, <2>7 DEF RunOK, TripleOK
  <2>9. UNCHANGED <<cursors, leases, world>>
    BY <1>9 DEF IngestObservation
  <2>10. CursorsOK'
    BY <2>3, <2>9, CursorsStay DEF DepositInv
  <2>11. UNCHANGED world /\ leases' = leases
         /\ leases' \in [PrivyWallets -> [holder : Workers \cup {NoOne, Orphan}, expired : BOOLEAN]]
         /\ cursors' \in [PrivyWallets -> Triples]
    BY <2>9 DEF DepositInv, TypeOK
  <2>12. n.valid => leases'[n.wallet].holder = p /\ ~leases'[n.wallet].expired
    BY <1>0, <2>4, <2>11 DEF DepositInv, LeasesOK
  <2>13. \A q \in Workers \ {p} :
            worker[q].valid => leases'[worker[q].wallet] = leases[worker[q].wallet]
    BY <2>11
  <2>14. n \in Runs
    BY <2>4
  <2> HIDE DEF n
  <2> QED
    BY <2>3, <2>5, <2>8, <2>10, <2>11, <2>12, <2>13, <2>14, OneWorker
<1>10. CASE PersistCursorState(p)
  <2> DEFINE st == NextTriple(r.st, r.page)
             n == [r EXCEPT !.pc = IF Drained(r.page) THEN "release" ELSE "fetch",
                            !.st = st, !.page = NoPage, !.pages = @ + 1]
  <2>1. st \in Triples /\ Sound(r.wallet, st) /\ TripleOK(st)
    BY <1>0, <1>10, NextTripleOK DEF PersistCursorState, RunOK
  <2>2. NoPage \in Pages
    BY ReconciliationAssumption DEF NoPage, Pages
  <2> HIDE DEF st
  <2>3. r.pages + 1 \in 0..MaxPages
    BY <1>10, <1>0, ReconciliationAssumption DEF PersistCursorState, RunOK
  <2>4. n \in Runs /\ n.valid = r.valid /\ n.wallet = r.wallet /\ n.st = st /\ n.pc # "ingest"
    BY <1>0, <2>1, <2>2, <2>3 DEF Runs
  <2>5. worker' = [worker EXCEPT ![p] = n]
    BY <1>0, <1>10 DEF PersistCursorState, DepositInv, TypeOK, st
  <2>6. UNCHANGED <<leases, feed, world>>
    BY <1>10 DEF PersistCursorState
  <2>7. FeedGrows
    BY <2>6 DEF FeedGrows
  <2>8. RunOK(n)
    BY <2>1, <2>4 DEF RunOK
  <2>9. RunOK(n)'
    BY <2>4, <2>7, <2>8, RunStays
  <2>10. cursors' = cursors \/ cursors' = [cursors EXCEPT ![r.wallet] = st]
    BY <1>0, <1>10 DEF PersistCursorState, st
  <2>11. Sound(r.wallet, st)'
    BY <1>0, <2>1, <2>7, SoundStays
  <2>12. CursorsOK' /\ cursors' \in [PrivyWallets -> Triples]
    <3>0. cursors \in [PrivyWallets -> Triples] /\ CursorsOK
      BY DEF DepositInv, TypeOK
    <3>1. \A w \in PrivyWallets : Sound(w, cursors[w]) /\ TripleOK(cursors[w])
      BY <3>0 DEF CursorsOK
    <3>2. \A w \in PrivyWallets : Sound(w, cursors[w])'
          \/ (w = r.wallet /\ cursors'[w] = st)
      <4> SUFFICES ASSUME NEW w \in PrivyWallets, ~(w = r.wallet /\ cursors'[w] = st)
                   PROVE  Sound(w, cursors[w])'
        OBVIOUS
      <4>1. cursors'[w] = cursors[w]
        BY <2>10, <3>0
      <4>2. Sound(w, cursors[w]) /\ cursors[w] \in Triples
        BY <3>0, <3>1
      <4> QED
        BY <4>1, <4>2, <2>7 DEF Sound, Ingested, FeedGrows, Triples
    <3>3. \A w \in PrivyWallets : Sound(w, cursors[w])'
      BY <3>2, <2>11 DEF Sound, Ingested
    <3>4. cursors' \in [PrivyWallets -> Triples]
      BY <2>1, <2>10, <3>0
    <3>5. \A w \in PrivyWallets : TripleOK(cursors'[w])
      BY <2>1, <2>10, <3>0, <3>1
    <3> QED
      BY <3>3, <3>4, <3>5 DEF CursorsOK, TripleOK
  <2>13. n.valid => leases'[n.wallet].holder = p /\ ~leases'[n.wallet].expired
    BY <1>0, <2>4, <2>6 DEF DepositInv, LeasesOK
  <2>14. /\ UNCHANGED world
         /\ feed' \in [PrivyWallets -> [Sigs -> {"none", "unread", "read"}]]
         /\ leases' \in [PrivyWallets -> [holder : Workers \cup {NoOne, Orphan}, expired : BOOLEAN]]
    BY <2>6 DEF DepositInv, TypeOK
  <2>15. \A q \in Workers \ {p} :
            worker[q].valid => leases'[worker[q].wallet] = leases[worker[q].wallet]
    BY <2>6
  <2>16. n \in Runs
    BY <2>4
  <2> HIDE DEF n
  <2> QED
    BY <2>5, <2>7, <2>9, <2>12, <2>13, <2>14, <2>15, <2>16, OneWorker
<1>11. CASE ReleaseLease(p)
  <2> DEFINE w == r.wallet
             n == IF r.threw THEN IdleRun
                  ELSE [IdleRun EXCEPT !.pc = "pick", !.todo = r.todo]
  <2>1. n \in Runs /\ ~n.valid /\ n.pc \notin {"fetch", "ingest"}
    BY <1>0, IdleRunOK DEF Runs
  <2>2. worker' = [worker EXCEPT ![p] = n]
    BY <1>0, <1>11 DEF ReleaseLease, AfterRelease
  <2>3. UNCHANGED <<cursors, feed, world>> /\ FeedGrows
    BY <1>11 DEF ReleaseLease, FeedGrows
  <2>4. RunOK(n)'
    BY <2>1 DEF RunOK
  <2>5. CursorsOK'
    BY <2>3, CursorsStay DEF DepositInv
  <2>6. leases' \in {leases, [leases EXCEPT ![w] = [holder |-> NoOne, expired |-> FALSE]]}
        /\ (leases' # leases => leases[w].holder = p)
    BY <1>0, <1>11 DEF ReleaseLease, TokenMatches
  <2>7. leases' \in [PrivyWallets -> [holder : Workers \cup {NoOne, Orphan}, expired : BOOLEAN]]
    <3>1. [leases EXCEPT ![w] = [holder |-> NoOne, expired |-> FALSE]]
            \in [PrivyWallets -> [holder : Workers \cup {NoOne, Orphan}, expired : BOOLEAN]]
      BY DEF DepositInv, TypeOK
    <3> QED
      BY <2>6, <3>1 DEF DepositInv, TypeOK
  <2>8. \A q \in Workers \ {p} :
          worker[q].valid => leases'[worker[q].wallet] = leases[worker[q].wallet]
    BY <2>6, <1>0 DEF DepositInv, LeasesOK, TypeOK, Runs
  <2> HIDE DEF n
  <2> QED
    BY <2>1, <2>2, <2>3, <2>4, <2>5, <2>7, <2>8, OneWorker DEF DepositInv, TypeOK
<1> QED
  BY <1>1, <1>2, <1>3, <1>4, <1>5, <1>6, <1>7, <1>8, <1>9, <1>10, <1>11 DEF WorkerStep

LEMMA CrashOK ==
  ASSUME DepositInv, NEW p \in Workers, Crash(p)
  PROVE  DepositInv'
<1>1. FeedGrows /\ CursorsOK'
  BY CursorsStay DEF Crash, FeedGrows, DepositInv
<1>2. worker' \in [Workers -> Runs]
  BY IdleRunOK DEF Crash, DepositInv, TypeOK
<1>3. leases' \in [PrivyWallets -> [holder : Workers \cup {NoOne, Orphan}, expired : BOOLEAN]]
  BY DEF Crash, DepositInv, TypeOK
<1>4. TypeOK'
  BY <1>2, <1>3, ReconciliationAssumption DEF Crash, DepositInv, TypeOK
<1>5. WorkersOK'
  BY <1>1, IdleRunOK, RunStays DEF Crash, DepositInv, WorkersOK, TypeOK, RunOK
<1>6. LeasesOK'
  BY IdleRunOK DEF Crash, DepositInv, LeasesOK, TypeOK, Runs
<1> QED
  BY <1>1, <1>4, <1>5, <1>6 DEF DepositInv

\* The invariant is inductive.
THEOREM DepositPreserved == DepositInv /\ [DepositNext]_depositVars => DepositInv'
<1>1. CASE UNCHANGED depositVars
  BY <1>1 DEF depositVars, DepositInv, TypeOK, CursorsOK, WorkersOK, LeasesOK, RunOK, PageOK,
              Sound, Ingested
<1>2. CASE DepositInv /\ DepositNext
  BY <1>2, WorldOK, WorkerOK, CrashOK DEF DepositNext
<1> QED
  BY <1>1, <1>2

THEOREM DepositInvariance == DepositSpec => []DepositInv
  BY DepositInitially, DepositPreserved, PTL DEF DepositSpec

\* Every variable keeps its shape, in every history.
THEOREM DepositTypes == DepositSpec => []TypeOK
  BY DepositInvariance, PTL DEF DepositInv

\* No deposit is skipped, for every number of wallets and workers, however many
\* restarts, expired leases and writers that overlap.
THEOREM NoDepositSkipped == DepositSpec => []NothingSkipped
<1>1. DepositInv => NothingSkipped
  BY DEF DepositInv, CursorsOK, NothingSkipped
<1> QED
  BY <1>1, DepositInvariance, PTL

\* Until it expires, a lease belongs to the run that took it.
THEOREM LeasesExclude == DepositSpec => []LeaseExcludes
<1>1. DepositInv => LeaseExcludes
  BY DEF DepositInv, LeasesOK, LeaseExcludes
<1> QED
  BY <1>1, DepositInvariance, PTL

\* A notification its owner read is never unread again.
THEOREM ReadRowsStayRead == DepositSpec => ReadStaysRead
<1>1. DepositInv /\ [DepositNext]_depositVars =>
        [\A w \in PrivyWallets, s \in Sigs : feed[w][s] = "read" => feed'[w][s] = "read"]_depositVars
  <2> SUFFICES ASSUME DepositInv, DepositNext, NEW w \in PrivyWallets, NEW s \in Sigs, feed[w][s] = "read"
               PROVE  feed'[w][s] = "read"
    OBVIOUS
  <2>1. ASSUME NEW v \in PrivyWallets, NEW t \in Sigs, feed' = Inserted(v, t)
        PROVE  feed'[w][s] = "read"
    BY <2>1 DEF DepositInv, TypeOK, Inserted
  <2>2. CASE World
    <3>1. ASSUME NEW v \in PrivyWallets, NEW t \in Sigs, MarkRead(v, t) PROVE feed'[w][s] = "read"
      BY <3>1 DEF MarkRead, DepositInv, TypeOK
    <3>2. UNCHANGED feed \/ \E v \in PrivyWallets, t \in Sigs : MarkRead(v, t)
      BY <2>2 DEF World, SignatureConfirmed, WalletDemoted, WalletRestored, LeaseExpires,
                  DetailAvailable
    <3> QED
      BY <3>1, <3>2
  <2>3. ASSUME NEW p \in Workers, WorkerStep(p) PROVE feed'[w][s] = "read"
    <3>1. CASE IngestObservation(p)
      <4>1. PICK t \in worker[p].page.left : feed' = Inserted(worker[p].wallet, t)
        BY <3>1 DEF IngestObservation
      <4>2. worker[p].wallet \in PrivyWallets /\ t \in Sigs
        BY <4>1 DEF DepositInv, TypeOK, Runs, Pages
      <4> QED
        BY <4>1, <4>2, <2>1
    <3>2. CASE ~IngestObservation(p)
      BY <2>3, <3>2 DEF WorkerStep, StartPass, EndPass, AcquireLease, SkipLeased, LoadCursor,
          FetchPage, FetchThrows, PagesExhausted, IngestThrows, PersistCursorState, ReleaseLease
    <3> QED
      BY <3>1, <3>2
  <2>4. ASSUME NEW p \in Workers, Crash(p) PROVE feed'[w][s] = "read"
    BY <2>4 DEF Crash
  <2> QED
    BY <2>2, <2>3, <2>4 DEF DepositNext
<1> QED
  BY <1>1, DepositInvariance, PTL DEF DepositSpec, ReadStaysRead
=============================================================================
