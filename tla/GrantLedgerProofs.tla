-------------------------- MODULE GrantLedgerProofs --------------------------
(***************************************************************************)
(* Proofs about GrantLedger, for every number of requests, grants, previews *)
(* and contacts, every cap and every window.                               *)
(*                                                                         *)
(* The argument.  A transaction's locks are the ones of its kind, taken in *)
(* order (JobsOK), and locks exclude (Exclusion).  A grant in use is       *)
(* written only under its row's lock, the policy only under the state      *)
(* row's, by a transaction that ends there (Locked): what a claim read     *)
(* under its locks is still true when it decides (Knows).  A claim is      *)
(* released only by the one executor of its preview (MoneyOK), and a turn  *)
(* counts once, as one that may still claim or as a claim (CountOK).  What a *)
(* period holds was counted by its last claim, which waited no longer than *)
(* MaxWait after the time it is dated at (Timely, CapsKept); a sum is the   *)
(* size of a set of units, so that no induction over the claims is needed. *)
(***************************************************************************)
EXTENDS GrantLedger, FiniteSetTheorems, TLAPS

JobFacts(j) ==
  /\ j.pc # "idle" /\ j.kind \in {"claim", "settle"} => j.key \in Keys
  /\ j.pc # "idle" /\ j.kind \in {"settle", "revoke", "sync", "unbind"} => j.grant \in Grants
  /\ j.pc \in {"open", "claimed", "execute"} /\ j.kind = "claim" => j.grant \in Grants
  /\ j.pc \in {"gate", "list", "claimed", "execute"} => j.kind = "claim"
  /\ j.pc = "plan" => j.kind \in {"remove", "edit"}

AnyOrderKinds == {"apply", "invalidate"}

\* The locks of an open transaction: the ones it has and the ones it waits for.
LocksOK(j) ==
  /\ j.held \cap j.todo = {}
  /\ j.kind \notin AnyOrderKinds => j.held \cup j.todo = LocksOf(j.kind, j.grant, j.plan)
  /\ j.kind \in AnyOrderKinds /\ State \in j.todo => j.held = {} /\ j.todo = {State}
  /\ j.kind \in AnyOrderKinds /\ State \notin j.todo =>
       j.held \cup j.todo = {State} \cup {Row(g) : g \in j.affected} /\ State \in j.held
  /\ \A h \in j.held, l \in j.todo :
       Before(h, l) \/ (j.kind \in AnyOrderKinds /\ h[1] = 2 /\ l[1] = 2)
  /\ j.seen => State \in j.held
  /\ j.nested => j.kind \in NestedKinds

JobOK(j) == JobFacts(j) /\ (j.pc = "open" => LocksOK(j))

\* The writers of the policy hold the lease.
LeaseOK == \A x \in Slots : job[x].pc # "idle" /\ job[x].kind \in LeaseKinds => lease = x

JobsOK ==
  /\ job \in [Slots -> Jobs] /\ lease \in Slots \cup {None}
  /\ \A x \in Slots : JobOK(job[x])
  /\ LeaseOK

RowsTyped ==
  /\ now \in 0..MaxTime
  /\ policy \in [desired : Nat, applied : Nat, hashes : BOOLEAN]
  /\ grants \in [Grants -> GrantRows]
  /\ ledger \in [Grants -> [Keys -> Claims \cup {None}]]
  /\ alias \subseteq Contacts
  /\ attempt \in [Keys -> {"previewed", "broadcasting", "cancelled", "final", "user"}]
  /\ turns \in [Keys -> Nat]
  /\ started \in 0..MaxJobs

\* What a step that grants no lock does to the locks.
HeldShrinks ==
  \A x \in Slots : job'[x].pc = "open" =>
    \/ job'[x].held = {}
    \/ job[x].pc = "open" /\ job'[x].held = job[x].held /\ job'[x].kind = job[x].kind

-----------------------------------------------------------------------------
LEMMA LockIds ==
  /\ State \in Locks /\ ContactRows \in Locks /\ WalletKey \in Locks
  /\ \A g \in Grants : Key(g) \in Locks /\ Row(g) \in Locks
  BY DEF Locks, State, ContactRows, WalletKey, Key, Row

LEMMA LocksOfType ==
  ASSUME NEW kind \in Kinds, NEW plan \in SUBSET Grants, NEW g,
         kind \in {"claim", "settle", "revoke", "sync", "unbind"} => g \in Grants
  PROVE  LocksOf(kind, g, plan) \in SUBSET Locks
  BY LockIds DEF LocksOf

LEMMA IdleFields ==
  /\ Idle \in Jobs
  /\ Idle.pc = "idle" /\ Idle.kind = "claim"
<1>1. NoRow \in GrantRows
  BY DEF NoRow, GrantRows
<1>2. "claim" \in Kinds
  BY DEF Kinds, OtherKinds
<1> HIDE DEF NoRow, GrantRows, Kinds
<1> QED
  BY <1>1, <1>2 DEF Idle, Jobs, Pcs

LEMMA OpenedFields ==
  ASSUME NEW j \in Jobs, NEW kind \in Kinds, NEW g \in Grants \cup {0}, now \in Nat,
         kind \in {"claim", "settle", "revoke", "sync", "unbind"} => g \in Grants
  PROVE  /\ Opened(j, kind, g) \in Jobs
         /\ Opened(j, kind, g).pc = "open" /\ Opened(j, kind, g).kind = kind
         /\ Opened(j, kind, g).grant = g /\ Opened(j, kind, g).key = j.key
         /\ Opened(j, kind, g).todo = LocksOf(kind, g, j.plan)
         /\ Opened(j, kind, g).held = {} /\ ~Opened(j, kind, g).seen
         /\ Opened(j, kind, g).cands = j.cands /\ Opened(j, kind, g).asked = j.asked
         /\ Opened(j, kind, g).plan = j.plan /\ Opened(j, kind, g).began = now
         /\ Opened(j, kind, g).nested => kind \in NestedKinds
<1>1. j.plan \in SUBSET Grants
  BY DEF Jobs
<1> DEFINE t == LocksOf(kind, g, j.plan)
           Tx(b) == [j EXCEPT !.pc = "open", !.kind = kind, !.grant = g, !.began = now,
                              !.todo = t, !.held = {}, !.nested = b, !.seen = FALSE,
                              !.row = NoRow]
           Fields(n) == /\ n \in Jobs
                        /\ n.pc = "open" /\ n.kind = kind /\ n.grant = g /\ n.key = j.key
                        /\ n.todo = t /\ n.held = {} /\ ~n.seen
                        /\ n.cands = j.cands /\ n.asked = j.asked /\ n.plan = j.plan
                        /\ n.began = now
<1>2. t \in SUBSET Locks
  BY <1>1, LocksOfType
<1>3. NoRow \in GrantRows
  BY DEF NoRow, GrantRows
<1> HIDE DEF t
<1>4. \A b \in BOOLEAN : Fields(Tx(b))
  <2> SUFFICES ASSUME NEW b \in BOOLEAN PROVE Fields(Tx(b))
    OBVIOUS
  <2>1. Tx(b) \in Jobs
    BY <1>2, <1>3 DEF Jobs, Pcs
  <2>2. /\ Tx(b).pc = "open" /\ Tx(b).kind = kind /\ Tx(b).grant = g /\ Tx(b).key = j.key
        /\ Tx(b).todo = t /\ Tx(b).held = {} /\ ~Tx(b).seen
    BY DEF Jobs
  <2>3. /\ Tx(b).cands = j.cands /\ Tx(b).asked = j.asked /\ Tx(b).plan = j.plan
        /\ Tx(b).began = now
    BY DEF Jobs
  <2> QED
    BY <2>1, <2>2, <2>3
<1>5. (kind \in NestedKinds) \in BOOLEAN
  OBVIOUS
<1>6. Opened(j, kind, g) = Tx(kind \in NestedKinds)
  BY DEF Opened, t
<1>8. \A b \in BOOLEAN : Tx(b).nested => b
  BY DEF Jobs
<1> HIDE DEF Tx
<1>7. Fields(Opened(j, kind, g)) /\ (Opened(j, kind, g).nested => kind \in NestedKinds)
  BY <1>4, <1>5, <1>6, <1>8
<1> QED
  BY <1>7 DEF t

LEMMA ClosedFields ==
  ASSUME NEW j \in Jobs, NEW kind \in Kinds, NEW pc \in Pcs
  PROVE  /\ Closed(j, pc, kind) \in Jobs
         /\ Closed(j, pc, kind).pc = pc /\ Closed(j, pc, kind).kind = kind
         /\ Closed(j, pc, kind).grant = j.grant /\ Closed(j, pc, kind).key = j.key
         /\ Closed(j, pc, kind).cands = j.cands /\ Closed(j, pc, kind).asked = j.asked
BY IdleFields DEF Closed, Jobs

-----------------------------------------------------------------------------
(* Requests and the locks of their transactions                            *)

\* A step changes the request of one slot.
LEMMA OneJob ==
  ASSUME JobsOK, NEW x \in Slots, NEW n \in Jobs, JobOK(n), job' = [job EXCEPT ![x] = n],
         lease' \in Slots \cup {None}, lease' # lease => lease \in {x, None},
         n.pc # "idle" /\ n.kind \in LeaseKinds => lease' = x,
         n.pc = "open" => \/ n.held = {}
                          \/ job[x].pc = "open" /\ n.held = job[x].held /\ n.kind = job[x].kind
  PROVE  JobsOK' /\ HeldShrinks
<1>1. job' \in [Slots -> Jobs] /\ job'[x] = n /\ \A y \in Slots \ {x} : job'[y] = job[y]
  BY DEF JobsOK
<1>2. \A y \in Slots : JobOK(job'[y])
  BY <1>1 DEF JobsOK
<1>3. LeaseOK'
  BY <1>1, LedgerAssumption DEF JobsOK, LeaseOK
<1>4. HeldShrinks
  BY <1>1 DEF HeldShrinks
<1> QED
  BY <1>1, <1>2, <1>3, <1>4 DEF JobsOK, JobOK, JobFacts, LocksOK

LEMMA IdleOK == JobOK(Idle)
  BY IdleFields DEF JobOK, JobFacts

LEMMA DoneOK ==
  ASSUME JobsOK, NEW x \in Slots, Done(x)
  PROVE  JobsOK' /\ HeldShrinks /\ job' = [job EXCEPT ![x] = Idle]
<1>1. job' = [job EXCEPT ![x] = Idle]
  BY DEF Done, Became
<1>2. lease' \in Slots \cup {None} /\ (lease' # lease => lease \in {x, None})
  BY DEF Done, JobsOK
<1> QED
  BY <1>1, <1>2, IdleFields, IdleOK, OneJob

\* A request goes on: with the lease if it had it.
LEMMA GoesOn ==
  ASSUME JobsOK, NEW x \in Slots, NEW n \in Jobs, JobOK(n), job' = [job EXCEPT ![x] = n],
         lease' = lease,
         n.kind \in LeaseKinds => job[x].pc # "idle" /\ job[x].kind = n.kind,
         n.pc = "open" => \/ n.held = {}
                          \/ job[x].pc = "open" /\ n.held = job[x].held /\ n.kind = job[x].kind
  PROVE  JobsOK' /\ HeldShrinks
<1>1. n.pc # "idle" /\ n.kind \in LeaseKinds => lease' = x
  BY DEF JobsOK, LeaseOK
<1> QED
  BY <1>1, OneJob DEF JobsOK

LEMMA BeginJob ==
  ASSUME JobsOK, NEW x \in Slots, NEW kind \in Kinds, NEW j \in Jobs, Begin(x, kind, j),
         j.pc # "open", JobFacts([j EXCEPT !.kind = kind])
  PROVE  JobsOK' /\ HeldShrinks
<1> DEFINE n == [j EXCEPT !.kind = kind]
<1>1. n \in Jobs /\ n.pc = j.pc /\ n.kind = kind
  BY DEF Jobs
<1>2. lease' \in Slots \cup {None} /\ (lease' # lease => lease \in {x, None})
      /\ (kind \in LeaseKinds => lease' = x) /\ job' = [job EXCEPT ![x] = n]
  BY DEF Begin, JobsOK
<1>3. JobOK(n)
  BY <1>1 DEF JobOK
<1> HIDE DEF n
<1> QED
  BY <1>1, <1>2, <1>3, OneJob

LEMMA BeginTurnJob == ASSUME JobsOK, RowsTyped, NEW x \in Slots, BeginTurn(x) PROVE JobsOK' /\ HeldShrinks
<1>1. PICK k \in Keys : Begin(x, "claim", [Idle EXCEPT !.pc = "gate", !.key = k, !.asked = now])
  BY DEF BeginTurn
<1> DEFINE j == [Idle EXCEPT !.pc = "gate", !.key = k, !.asked = now]
<1>2. now \in Nat
  BY LedgerAssumption DEF RowsTyped
<1>3. j \in Jobs /\ j.pc = "gate" /\ j.key = k
  BY <1>2, IdleFields DEF Jobs, Pcs
<1> HIDE DEF j
<1>4. "claim" \in Kinds /\ JobFacts([j EXCEPT !.kind = "claim"])
  BY <1>3 DEF JobFacts, Jobs, Kinds, OtherKinds
<1> QED
  BY <1>1, <1>3, <1>4, BeginJob DEF j

LEMMA GateJob ==
  ASSUME JobsOK, NEW x \in Slots, GateReadsPolicy(x) \/ GateListsGrants(x)
  PROVE  JobsOK' /\ HeldShrinks
<1>1. CASE Done(x)
  BY <1>1, DoneOK
<1> DEFINE found == {g \in Grants : Covers(g, job[x].key, job[x].asked)}
           listed == [job[x] EXCEPT !.pc = "list"]
           next == [job[x] EXCEPT !.pc = "next", !.cands = found]
<1>2. job[x] \in Jobs /\ JobFacts(job[x])
  BY DEF JobsOK, JobOK
<1> HIDE DEF found
<1>3. found \in SUBSET Grants
  BY DEF found
<1>4. ASSUME job[x].pc = "gate", job' = [job EXCEPT ![x] = listed], lease' = lease
      PROVE  JobsOK' /\ HeldShrinks
  <2>1. listed \in Jobs /\ listed.pc = "list" /\ listed.kind = job[x].kind /\ JobOK(listed)
    BY <1>2, <1>4 DEF Jobs, Pcs, JobOK, JobFacts
  <2> HIDE DEF listed
  <2> QED
    BY <1>4, <2>1, GoesOn
<1>5. ASSUME job[x].pc = "list", job' = [job EXCEPT ![x] = next], lease' = lease
      PROVE  JobsOK' /\ HeldShrinks
  <2>1. next \in Jobs /\ next.pc = "next" /\ next.kind = job[x].kind /\ JobOK(next)
    BY <1>2, <1>3, <1>5 DEF Jobs, Pcs, JobOK, JobFacts
  <2> HIDE DEF next
  <2> QED
    BY <1>5, <2>1, GoesOn
<1> QED
  BY <1>1, <1>2, <1>4, <1>5 DEF GateReadsPolicy, GateListsGrants, found, JobsOK

LEMMA OpenedLocks ==
  ASSUME NEW j \in Jobs, NEW kind \in Kinds, NEW g \in Grants \cup {0}, now \in Nat,
         JobFacts(j), j.pc = "next",
         kind \in {"claim", "settle", "revoke", "sync", "unbind"} => g \in Grants,
         kind = j.kind
  PROVE  JobOK(Opened(j, kind, g))
<1>1. JobFacts(Opened(j, kind, g))
  BY OpenedFields DEF JobFacts
<1>2. kind \in AnyOrderKinds => LocksOf(kind, g, j.plan) = {State}
  BY DEF LocksOf, AnyOrderKinds
<1>3. LocksOK(Opened(j, kind, g))
  BY <1>2, OpenedFields DEF LocksOK
<1> QED
  BY <1>1, <1>3 DEF JobOK

LEMMA OpenJob ==
  ASSUME JobsOK, RowsTyped, NEW x \in Slots, OpenTransaction(x)
  PROVE  JobsOK' /\ HeldShrinks
<1>1. job[x] \in Jobs /\ JobFacts(job[x]) /\ job[x].pc = "next" /\ lease' = lease
  BY DEF JobsOK, JobOK, OpenTransaction
<1>2. now \in Nat
  BY LedgerAssumption DEF RowsTyped
<1>3. CASE job[x].kind = "claim"
  <2>1. PICK g \in job[x].cands :
          job' = [job EXCEPT ![x] = Opened([job[x] EXCEPT !.cands = @ \ {g}], "claim", g)]
    BY <1>3 DEF OpenTransaction
  <2> DEFINE j == [job[x] EXCEPT !.cands = @ \ {g}]
  <2>2. j \in Jobs /\ JobFacts(j) /\ g \in Grants /\ j.pc = "next" /\ j.kind = "claim"
    BY <1>1, <1>3 DEF Jobs, JobFacts
  <2> HIDE DEF j
  <2>3. "claim" \in Kinds
    BY DEF Kinds, OtherKinds
  <2> DEFINE n == Opened(j, "claim", g)
  <2>4. JobOK(n) /\ n \in Jobs /\ n.kind = "claim" /\ n.held = {}
    BY <1>2, <2>2, <2>3, OpenedLocks, OpenedFields
  <2>5. job' = [job EXCEPT ![x] = n]
    BY <2>1 DEF j
  <2> HIDE DEF n
  <2> QED
    BY <1>1, <2>4, <2>5, GoesOn DEF LeaseKinds
<1>4. CASE job[x].kind # "claim"
  <2> DEFINE j == job[x]
             n == Opened(j, j.kind, j.grant)
  <2>1. j.kind \in Kinds /\ j.grant \in Grants \cup {0}
        /\ (j.kind \in {"claim", "settle", "revoke", "sync", "unbind"} => j.grant \in Grants)
    BY <1>1, <1>4 DEF Jobs, JobFacts
  <2>2. JobOK(n) /\ n \in Jobs /\ n.kind = j.kind /\ n.held = {}
    BY <1>1, <1>2, <2>1, OpenedLocks, OpenedFields
  <2>3. job' = [job EXCEPT ![x] = n]
    BY <1>4 DEF OpenTransaction
  <2> HIDE DEF n
  <2> QED
    BY <1>1, <2>2, <2>3, GoesOn
<1> QED
  BY <1>3, <1>4

\* The lock a transaction is granted, and what it reads under it.
LEMMA AcquireJob ==
  ASSUME JobsOK, RowsTyped, NEW x \in Slots, NEW l \in NextLocks(x), job[x].pc = "open",
         job' = [job EXCEPT ![x] = ReadUnder(x, l)], lease' = lease
  PROVE  /\ JobsOK'
         /\ job'[x].held = job[x].held \cup {l}
         /\ job'[x] \in Jobs
         /\ job'[x].pc = "open" /\ job'[x].kind = job[x].kind /\ job'[x].key = job[x].key
         /\ job'[x].grant = job[x].grant /\ job'[x].cands = job[x].cands
         /\ job'[x].asked = job[x].asked /\ job'[x].began = job[x].began
         /\ job'[x].seen # job[x].seen =>
              l = State /\ job[x].kind = "claim" /\ job'[x].seen = PolicyVerified
         /\ job'[x].row = IF l = Row(job[x].grant) /\ job[x].kind \in OtherKinds
                            THEN grants[job[x].grant] ELSE job[x].row
<1> DEFINE j == [job[x] EXCEPT !.todo = @ \ {l}, !.held = @ \cup {l}]
           n == ReadUnder(x, l)
<1>1. job[x] \in Jobs /\ JobFacts(job[x]) /\ LocksOK(job[x]) /\ l \in job[x].todo
      /\ \A m \in job[x].todo : Before(l, m) \/ (AnyOrder(x, l) /\ m[1] = 2)
  BY DEF JobsOK, JobOK, NextLocks
<1>2. l \in Locks
  BY <1>1 DEF Jobs
<1>3. /\ j \in Jobs /\ j.todo = job[x].todo \ {l} /\ j.held = job[x].held \cup {l}
      /\ j.pc = "open" /\ j.kind = job[x].kind /\ j.key = job[x].key /\ j.grant = job[x].grant
      /\ j.cands = job[x].cands /\ j.asked = job[x].asked /\ j.seen = job[x].seen
      /\ j.row = job[x].row /\ j.plan = job[x].plan /\ j.affected = job[x].affected
      /\ j.began = job[x].began /\ j.nested = job[x].nested
  BY <1>1, <1>2 DEF Jobs
<1> HIDE DEF j
<1> DEFINE Fields(r) ==
      /\ r \in Jobs /\ r.held = job[x].held \cup {l}
      /\ r.pc = "open" /\ r.kind = job[x].kind /\ r.key = job[x].key
      /\ r.grant = job[x].grant /\ r.cands = job[x].cands /\ r.asked = job[x].asked
      /\ r.plan = job[x].plan /\ r.began = job[x].began /\ r.nested = job[x].nested
<1>4. ASSUME NEW r, Fields(r), r.todo = job[x].todo \ {l},
             r.kind \in AnyOrderKinds => l # State /\ r.affected = job[x].affected,
             r.seen => job[x].seen \/ l = State
      PROVE  LocksOK(r)
  <2>1. \A h \in r.held, m \in r.todo :
          Before(h, m) \/ (r.kind \in AnyOrderKinds /\ h[1] = 2 /\ m[1] = 2)
    BY <1>1, <1>4 DEF LocksOK, AnyOrder, AnyOrderKinds
  <2>2. r.kind \notin AnyOrderKinds => r.held \cup r.todo = LocksOf(r.kind, r.grant, r.plan)
    BY <1>1, <1>4 DEF LocksOK
  <2>3. r.kind \in AnyOrderKinds =>
          /\ State \notin r.todo /\ State \in r.held
          /\ r.held \cup r.todo = {State} \cup {Row(g) : g \in r.affected}
    BY <1>1, <1>4 DEF LocksOK
  <2>4. /\ r.held \cap r.todo = {} /\ (r.seen => State \in r.held)
        /\ r.nested => r.kind \in NestedKinds
    BY <1>1, <1>4 DEF LocksOK
  <2> QED
    BY <2>1, <2>2, <2>3, <2>4 DEF LocksOK
<1>5. ASSUME Fields(n), LocksOK(n) PROVE JobsOK'
  <2>1. JobFacts(n)
    BY <1>1, <1>5 DEF JobFacts, JobsOK
  <2>2. \A y \in Slots : job'[y] = IF y = x THEN n ELSE job[y]
    BY DEF JobsOK
  <2>3. \A y \in Slots : job'[y] \in Jobs /\ JobOK(job'[y])
    BY <1>5, <2>1, <2>2 DEF JobOK, JobsOK
  <2>4. LeaseOK'
    BY <1>5, <2>2 DEF JobsOK, LeaseOK
  <2>5. job' \in [Slots -> Jobs]
    BY <1>5 DEF JobsOK
  <2> QED
    BY <2>3, <2>4, <2>5 DEF JobsOK, JobOK, JobFacts, LocksOK
<1>6. job'[x] = n
  BY DEF JobsOK
<1>7. /\ State[1] = 0 /\ ContactRows[1] = 3
      /\ \A g : Row(g)[1] = 2
  BY DEF State, ContactRows, Row
<1>8. "claim" \notin AnyOrderKinds /\ AnyOrderKinds \cap OtherKinds = {}
  BY DEF AnyOrderKinds, OtherKinds
<1>a. CASE l = State /\ job[x].kind = "claim"
  <2>1. n = [j EXCEPT !.seen = PolicyVerified]
    BY <1>3, <1>7, <1>a DEF ReadUnder, j
  <2>2. PolicyVerified \in BOOLEAN
    BY DEF PolicyVerified, RowsTyped
  <2>3. Fields(n) /\ n.todo = j.todo /\ n.seen = PolicyVerified /\ n.row = job[x].row
    BY <1>3, <2>1, <2>2 DEF Jobs
  <2> HIDE DEF n
  <2>4. LocksOK(n)
    BY <1>3, <1>4, <1>8, <1>a, <2>3
  <2> QED
    BY <1>5, <1>6, <1>7, <1>a, <2>3, <2>4
<1>b. CASE l = State /\ job[x].kind \in AnyOrderKinds
  <2>1. n = [j EXCEPT !.todo = {Row(g) : g \in ActiveGrants}, !.affected = ActiveGrants]
    BY <1>3, <1>7, <1>b DEF ReadUnder, j, AnyOrderKinds
  <2>2. ActiveGrants \in SUBSET Grants /\ {Row(g) : g \in ActiveGrants} \in SUBSET Locks
    BY LockIds DEF ActiveGrants
  <2>3. /\ Fields(n) /\ n.todo = {Row(g) : g \in ActiveGrants} /\ n.affected = ActiveGrants
        /\ n.seen = job[x].seen /\ n.row = job[x].row
    <3>1. n \in Jobs
      <4>1. j \in Jobs
        BY <1>3
      <4> DEFINE With(u, f) == [j EXCEPT !.todo = u, !.affected = f]
      <4>2. \A u \in SUBSET Locks, f \in SUBSET Grants : With(u, f) \in Jobs
        BY <4>1 DEF Jobs
      <4>3. n = With({Row(g) : g \in ActiveGrants}, ActiveGrants)
        BY <2>1
      <4> HIDE DEF n, With
      <4> QED
        BY <2>2, <4>2, <4>3
    <3>2. /\ n.todo = {Row(g) : g \in ActiveGrants} /\ n.affected = ActiveGrants
          /\ n.seen = job[x].seen /\ n.row = job[x].row
      BY <1>3, <2>1 DEF Jobs
    <3> QED
      BY <1>3, <2>1, <3>1, <3>2 DEF Jobs
  <2> HIDE DEF n
  <2>4. job[x].held = {}
    BY <1>1, <1>b DEF LocksOK
  <2>5. LocksOK(n)
    <3>1. n.held = {State} /\ State \notin n.todo
      BY <1>7, <1>b, <2>3, <2>4
    <3>2. \A m \in n.todo : Before(State, m)
      BY <1>7, <2>3 DEF Before
    <3>3. n.nested => n.kind \in NestedKinds
      BY <1>1, <2>3 DEF LocksOK
    <3> QED
      BY <1>b, <2>3, <3>1, <3>2, <3>3 DEF LocksOK
  <2> QED
    BY <1>5, <1>6, <1>7, <1>8, <1>b, <2>3, <2>5
<1>c. CASE l = Row(job[x].grant) /\ job[x].kind \in OtherKinds
  <2>1. n = [j EXCEPT !.row = grants[j.grant]]
    BY <1>3, <1>7, <1>c DEF ReadUnder, j
  <2>2. job[x].grant \in Grants
    BY <1>1, <1>7, <1>8, <1>c DEF LocksOK, LocksOf, OtherKinds, JobFacts
  <2>3. grants[j.grant] \in GrantRows
    BY <1>3, <2>2 DEF RowsTyped
  <2>4. /\ Fields(n) /\ n.todo = j.todo /\ n.seen = j.seen /\ n.row = grants[job[x].grant]
    BY <1>3, <2>1, <2>3 DEF Jobs
  <2> HIDE DEF n
  <2>5. LocksOK(n)
    BY <1>3, <1>4, <1>8, <1>c, <2>4
  <2> QED
    BY <1>3, <1>5, <1>6, <1>7, <1>c, <2>4, <2>5
<1>d. CASE l = ContactRows
  <2>1. n = [j EXCEPT !.aliases = alias, !.affected = ActiveGrants]
    BY <1>3, <1>7, <1>d DEF ReadUnder, j
  <2>2. ActiveGrants \in SUBSET Grants /\ alias \in SUBSET Contacts
    BY DEF ActiveGrants, RowsTyped
  <2>3. Fields(n) /\ n.todo = j.todo /\ n.seen = j.seen /\ n.row = j.row
    <3>1. n \in Jobs
      <4>1. j \in Jobs
        BY <1>3
      <4> DEFINE With(u, f) == [j EXCEPT !.aliases = u, !.affected = f]
      <4>2. \A u \in SUBSET Contacts, f \in SUBSET Grants : With(u, f) \in Jobs
        BY <4>1 DEF Jobs
      <4>3. n = With(alias, ActiveGrants)
        BY <2>1
      <4> HIDE DEF n, With
      <4> QED
        BY <2>2, <4>2, <4>3
    <3>2. n.todo = j.todo /\ n.seen = j.seen /\ n.row = j.row
      BY <1>3, <2>1 DEF Jobs
    <3> QED
      BY <1>3, <2>1, <3>1, <3>2 DEF Jobs
  <2> HIDE DEF n
  <2>4. job[x].kind \notin AnyOrderKinds
    BY <1>1, <1>7, <1>d DEF LocksOK
  <2>5. LocksOK(n)
    BY <1>3, <1>4, <2>3, <2>4
  <2> QED
    BY <1>3, <1>5, <1>6, <1>7, <1>d, <2>3, <2>5
<1>e. CASE /\ ~(l = State /\ job[x].kind = "claim")
           /\ ~(l = State /\ job[x].kind \in AnyOrderKinds)
           /\ ~(l = Row(job[x].grant) /\ job[x].kind \in OtherKinds)
           /\ l # ContactRows
  <2>1. n = j
    BY <1>3, <1>e DEF ReadUnder, j, AnyOrderKinds
  <2>2. Fields(n)
    BY <1>3, <2>1
  <2>3. LocksOK(n)
    BY <1>3, <1>4, <1>e, <2>1, <2>2
  <2> HIDE DEF n
  <2> QED
    BY <1>3, <1>5, <1>6, <1>e, <2>1, <2>2, <2>3
<1> QED
  BY <1>a, <1>b, <1>c, <1>d, <1>e

\* What a claim leaves of its request.
Refused(x) == IF job[x].cands = {} THEN Idle ELSE Closed(job[x], "next", "claim")
Won(x) == [Closed(job[x], "claimed", "claim") EXCEPT !.cands = {}]

LEMMA AfterClaimFields ==
  ASSUME JobsOK, NEW x \in Slots, job[x].pc = "open", job[x].kind = "claim"
  PROVE  /\ Refused(x) = Idle \/ (Refused(x).pc = "next" /\ Refused(x).key = job[x].key)
         /\ Refused(x) \in Jobs /\ JobOK(Refused(x)) /\ Refused(x).kind = "claim"
         /\ Refused(x).cands = job[x].cands
         /\ Refused(x).pc = "next" => Refused(x).asked = job[x].asked
         /\ Won(x) \in Jobs /\ JobOK(Won(x)) /\ Won(x).kind = "claim" /\ Won(x).pc = "claimed"
         /\ Won(x).cands = {} /\ Won(x).key = job[x].key /\ Won(x).grant = job[x].grant
<1>1. job[x] \in Jobs /\ JobFacts(job[x])
  BY DEF JobsOK, JobOK
<1>2. "claim" \in Kinds /\ "next" \in Pcs /\ "claimed" \in Pcs
  BY DEF Kinds, OtherKinds, Pcs
<1> DEFINE r == Closed(job[x], "next", "claim")
           c == Closed(job[x], "claimed", "claim")
<1>3. /\ r \in Jobs /\ r.pc = "next" /\ r.kind = "claim" /\ r.key = job[x].key
      /\ r.grant = job[x].grant /\ r.cands = job[x].cands /\ r.asked = job[x].asked
  BY <1>1, <1>2, ClosedFields
<1>4. /\ c \in Jobs /\ c.pc = "claimed" /\ c.kind = "claim" /\ c.key = job[x].key
      /\ c.grant = job[x].grant
  BY <1>1, <1>2, ClosedFields
<1>5. JobOK(r)
  BY <1>1, <1>3 DEF JobOK, JobFacts
<1>6. Idle.cands = {}
  BY DEF Idle
<1> HIDE DEF r, c
<1>7. /\ Refused(x) = Idle \/ (Refused(x).pc = "next" /\ Refused(x).key = job[x].key)
      /\ Refused(x) \in Jobs /\ JobOK(Refused(x)) /\ Refused(x).kind = "claim"
      /\ Refused(x).cands = job[x].cands
      /\ Refused(x).pc = "next" => Refused(x).asked = job[x].asked
  BY <1>3, <1>5, <1>6, IdleFields, IdleOK DEF Refused, r
<1>8. Won(x) = [c EXCEPT !.cands = {}]
  BY DEF Won, c
<1>9. /\ Won(x) \in Jobs /\ Won(x).kind = "claim" /\ Won(x).pc = "claimed"
      /\ Won(x).cands = {} /\ Won(x).key = job[x].key /\ Won(x).grant = job[x].grant
  BY <1>4, <1>8 DEF Jobs
<1>10. JobOK(Won(x))
  BY <1>1, <1>9 DEF JobOK, JobFacts
<1> QED
  BY <1>7, <1>9, <1>10

LEMMA AfterClaimJob ==
  ASSUME JobsOK, NEW x \in Slots, job[x].pc = "open", job[x].kind = "claim", lease' = lease,
         NEW consumed \in BOOLEAN, AfterClaim(x, consumed)
  PROVE  /\ JobsOK' /\ HeldShrinks /\ UNCHANGED <<turns, started>>
         /\ \/ job' = [job EXCEPT ![x] = Idle]
            \/ ~consumed /\ job' = [job EXCEPT ![x] = Refused(x)]
            \/ consumed /\ job' = [job EXCEPT ![x] = Won(x)]
<1>1. /\ UNCHANGED <<turns, started>>
      /\ \/ job' = [job EXCEPT ![x] = Idle]
         \/ ~consumed /\ job' = [job EXCEPT ![x] = Refused(x)]
         \/ consumed /\ job' = [job EXCEPT ![x] = Won(x)]
  BY DEF AfterClaim, Became, Refused, Won
<1>2. "claim" \notin LeaseKinds
  BY DEF LeaseKinds
<1>3. Refused(x).pc # "open"
  BY AfterClaimFields, IdleFields
<1>4. JobsOK' /\ HeldShrinks
  BY <1>1, <1>2, <1>3, AfterClaimFields, IdleFields, IdleOK, GoesOn
<1> QED
  BY <1>1, <1>4

LEMMA ClaimJob ==
  ASSUME JobsOK, NEW x \in Slots, ClaimConsumption(x)
  PROVE  JobsOK' /\ HeldShrinks
<1>1. PICK consumed \in BOOLEAN : AfterClaim(x, consumed) /\ lease' = lease
  BY DEF ClaimConsumption
<1>2. job[x].pc = "open" /\ job[x].kind = "claim"
  BY DEF ClaimConsumption, Ready
<1> QED
  BY <1>1, <1>2, AfterClaimJob

LEMMA NestedJob ==
  ASSUME JobsOK, NEW x \in Slots, NestedRead(x)
  PROVE  JobsOK' /\ HeldShrinks
<1> DEFINE n == [job[x] EXCEPT !.nested = FALSE]
<1>1. job[x] \in Jobs /\ JobOK(job[x]) /\ job[x].pc = "open" /\ lease' = lease
      /\ job' = [job EXCEPT ![x] = n]
  BY DEF JobsOK, NestedRead
<1>2. /\ n \in Jobs /\ n.pc = "open" /\ n.kind = job[x].kind /\ n.held = job[x].held
      /\ n.todo = job[x].todo /\ n.grant = job[x].grant /\ n.key = job[x].key
      /\ n.plan = job[x].plan /\ n.affected = job[x].affected /\ n.seen = job[x].seen
      /\ ~n.nested
  BY <1>1 DEF Jobs
<1> HIDE DEF n
<1>3. JobOK(n)
  BY <1>1, <1>2 DEF JobOK, JobFacts, LocksOK
<1> QED
  BY <1>1, <1>2, <1>3, GoesOn

LEMMA ExecuteJob ==
  ASSUME JobsOK, NEW x \in Slots, ClaimAttempt(x) \/ Broadcast(x)
  PROVE  JobsOK' /\ HeldShrinks
<1> DEFINE executing == [job[x] EXCEPT !.pc = "execute"]
           settling == [job[x] EXCEPT !.pc = "next", !.kind = "settle"]
<1>1. job[x] \in Jobs /\ JobOK(job[x])
  BY DEF JobsOK
<1>2. \/ Done(x)
      \/ job[x].pc = "claimed" /\ job' = [job EXCEPT ![x] = executing] /\ lease' = lease
      \/ job[x].pc = "execute" /\ job' = [job EXCEPT ![x] = settling] /\ lease' = lease
  BY <1>1 DEF ClaimAttempt, Broadcast, JobsOK
<1>3. /\ executing \in Jobs /\ executing.pc = "execute" /\ executing.kind = job[x].kind
      /\ executing.key = job[x].key /\ executing.grant = job[x].grant
  BY <1>1 DEF Jobs, Pcs
<1>4. /\ settling \in Jobs /\ settling.pc = "next" /\ settling.kind = "settle"
      /\ settling.key = job[x].key /\ settling.grant = job[x].grant
  BY <1>1 DEF Jobs, Pcs, Kinds, OtherKinds
<1> HIDE DEF executing, settling
<1>5. job[x].pc = "claimed" => JobOK(executing)
  BY <1>1, <1>3 DEF JobOK, JobFacts
<1>6. job[x].pc = "execute" => JobOK(settling)
  BY <1>1, <1>4 DEF JobOK, JobFacts
<1> QED
  BY <1>2, <1>3, <1>4, <1>5, <1>6, DoneOK, GoesOn DEF LeaseKinds

LEMMA OnGrantJob ==
  ASSUME JobsOK, NEW x \in Slots, CreateGrant(x) \/ BeginRevoke(x)
  PROVE  JobsOK' /\ HeldShrinks
<1>1. PICK g \in Grants, kind \in {"sync", "revoke"} :
        Begin(x, kind, [Idle EXCEPT !.pc = "next", !.grant = g])
  BY DEF CreateGrant, BeginRevoke
<1> DEFINE j == [Idle EXCEPT !.pc = "next", !.grant = g]
<1>2. j \in Jobs /\ j.pc = "next" /\ j.grant = g
  BY IdleFields DEF Jobs, Pcs
<1> HIDE DEF j
<1>3. kind \in Kinds /\ JobFacts([j EXCEPT !.kind = kind])
  BY <1>2 DEF JobFacts, Jobs, Kinds, OtherKinds
<1> QED
  BY <1>1, <1>2, <1>3, BeginJob DEF j

LEMMA RevokeJob ==
  ASSUME JobsOK, NEW x \in Slots, RevokeGrant(x)
  PROVE  JobsOK' /\ HeldShrinks
<1> DEFINE n == Closed(job[x], "next", "unbind")
<1>1. job[x] \in Jobs /\ JobFacts(job[x]) /\ job[x].pc = "open" /\ job[x].kind = "revoke"
  BY DEF JobsOK, JobOK, RevokeGrant, Ready
<1>2. n \in Jobs /\ n.pc = "next" /\ n.kind = "unbind" /\ n.grant = job[x].grant
  BY <1>1, ClosedFields DEF Kinds, OtherKinds, Pcs
<1>3. Done(x) \/ (job' = [job EXCEPT ![x] = n] /\ lease' = lease)
  BY DEF RevokeGrant, Became
<1> HIDE DEF n
<1>4. JobOK(n)
  BY <1>1, <1>2 DEF JobOK, JobFacts
<1> QED
  BY <1>2, <1>3, <1>4, DoneOK, GoesOn DEF LeaseKinds

LEMMA AffectedGrants == ActiveGrants \in SUBSET Grants /\ Affected \in SUBSET Grants
  BY DEF ActiveGrants, Affected

LEMMA RemovalJob ==
  ASSUME JobsOK, RowsTyped, NEW x \in Slots, NEW kind \in Kinds, BeginRemoval(x, kind)
  PROVE  JobsOK' /\ HeldShrinks
<1>1. PICK c \in alias, said \in (SUBSET Grants) \cup {None} :
        /\ kind \in {"remove", "edit"}
        /\ Begin(x, kind, [Idle EXCEPT !.pc = "plan", !.contact = c, !.disclosed = said])
  BY AffectedGrants DEF BeginRemoval
<1> DEFINE j == [Idle EXCEPT !.pc = "plan", !.contact = c, !.disclosed = said]
<1>2. j \in Jobs /\ j.pc = "plan"
  BY IdleFields DEF Jobs, Pcs, RowsTyped
<1> HIDE DEF j
<1>3. JobFacts([j EXCEPT !.kind = kind])
  BY <1>1, <1>2 DEF JobFacts, Jobs
<1> QED
  BY <1>1, <1>2, <1>3, BeginJob DEF j

LEMMA PlanJob ==
  ASSUME JobsOK, RowsTyped, NEW x \in Slots, ReadRemovalPlan(x)
  PROVE  JobsOK' /\ HeldShrinks
<1> DEFINE n == [job[x] EXCEPT !.pc = "next", !.planned = alias, !.plan = ActiveGrants]
<1>1. job[x] \in Jobs /\ JobFacts(job[x]) /\ job[x].pc = "plan" /\ lease' = lease
      /\ job' = [job EXCEPT ![x] = n]
  BY DEF JobsOK, JobOK, ReadRemovalPlan
<1>2. n \in Jobs /\ n.pc = "next" /\ n.kind = job[x].kind /\ n.grant = job[x].grant
  BY <1>1, AffectedGrants DEF Jobs, Pcs, RowsTyped
<1> HIDE DEF n
<1>3. JobOK(n)
  BY <1>1, <1>2 DEF JobOK, JobFacts
<1> QED
  BY <1>1, <1>2, <1>3, GoesOn

LEMMA ApplyRemovalJob ==
  ASSUME JobsOK, NEW x \in Slots, ApplyRemoval(x)
  PROVE  JobsOK' /\ HeldShrinks
<1> DEFINE c == Closed(job[x], "plan", "remove")
           n == [c EXCEPT !.tries = @ + 1]
<1>1. job[x] \in Jobs /\ JobFacts(job[x]) /\ job[x].pc = "open"
  BY DEF JobsOK, JobOK, ApplyRemoval, Ready
<1>2. \/ Done(x)
      \/ job[x].kind = "remove" /\ job' = [job EXCEPT ![x] = n] /\ lease' = lease
  BY DEF ApplyRemoval, Became
<1>3. c \in Jobs /\ c.pc = "plan" /\ c.kind = "remove"
  BY <1>1, ClosedFields DEF Kinds, LeaseKinds, Pcs
<1> HIDE DEF c
<1>4. c.tries \in Nat /\ c.tries + 1 \in Nat
  BY <1>3 DEF Jobs
<1>5. n \in Jobs /\ n.pc = "plan" /\ n.kind = "remove"
  BY <1>3, <1>4 DEF Jobs
<1> HIDE DEF n
<1>6. JobOK(n)
  BY <1>5 DEF JobOK, JobFacts
<1> QED
  BY <1>1, <1>2, <1>5, <1>6, DoneOK, GoesOn

LEMMA PolicyJob ==
  ASSUME JobsOK, RowsTyped, NEW x \in Slots, NEW kind \in Kinds,
         BeginMutation(x, kind) \/ BeginApply(x, kind)
  PROVE  JobsOK' /\ HeldShrinks
<1> DEFINE j == [Idle EXCEPT !.pc = "next"]
           k == [Idle EXCEPT !.pc = "next", !.rev = policy.desired]
<1>1. \/ kind \in {"contact", "enroll"} /\ Begin(x, kind, j)
      \/ kind \in {"apply", "invalidate"} /\ Begin(x, kind, k)
  BY DEF BeginMutation, BeginApply
<1>2. j \in Jobs /\ j.pc = "next"
  BY IdleFields DEF Jobs, Pcs
<1>3. policy.desired \in Nat
  BY DEF RowsTyped
<1>4. k \in Jobs /\ k.pc = "next"
  BY <1>3, IdleFields DEF Jobs, Pcs
<1> HIDE DEF j, k
<1>5. kind \in {"contact", "enroll", "apply", "invalidate"}
      => JobFacts([j EXCEPT !.kind = kind]) /\ JobFacts([k EXCEPT !.kind = kind])
  BY <1>2, <1>4 DEF JobFacts, Jobs
<1> QED
  BY <1>1, <1>2, <1>4, <1>5, BeginJob

LEMMA JobsStep ==
  ASSUME JobsOK, RowsTyped, NEW x \in Slots, Request(x) \/ (Step(x) /\ ~Acquire(x))
  PROVE  JobsOK' /\ HeldShrinks
<1>1. ASSUME SettleGrantReservation(x) \/ SyncGrant(x) \/ SyncRevocation(x) \/ RunMutation(x)
               \/ CommitApplyOutcome(x)
      PROVE  Done(x)
  BY <1>1 DEF SettleGrantReservation, SyncGrant, SyncRevocation, RunMutation, CommitApplyOutcome
<1> QED
  BY <1>1, DoneOK, BeginTurnJob, GateJob, OpenJob, NestedJob, ClaimJob, ExecuteJob, OnGrantJob,
     RevokeJob, RemovalJob, PlanJob, ApplyRemovalJob, PolicyJob DEF Request, Step

LEMMA JobsUntouched ==
  ASSUME JobsOK, UNCHANGED <<job, lease>>
  PROVE  JobsOK' /\ HeldShrinks
<1>1. JobsOK'
  BY DEF JobsOK, JobOK, JobFacts, LocksOK, LeaseOK
<1> QED
  BY <1>1 DEF HeldShrinks

-----------------------------------------------------------------------------
(* What a step writes, and the locks it writes under                       *)

LEMMA HeldWhenReady ==
  ASSUME JobsOK, NEW x \in Slots, NEW kind \in Kinds, Ready(x, kind)
  PROVE  /\ job[x].pc = "open" /\ job[x].kind = kind /\ job[x] \in Jobs
         /\ JobFacts(job[x])
         /\ kind \notin AnyOrderKinds => job[x].held = LocksOf(kind, job[x].grant, job[x].plan)
         /\ kind \in AnyOrderKinds =>
              job[x].held = {State} \cup {Row(g) : g \in job[x].affected}
<1>1. /\ job[x].pc = "open" /\ job[x].kind = kind /\ job[x] \in Jobs /\ job[x].todo = {}
      /\ JobFacts(job[x]) /\ LocksOK(job[x])
  BY DEF JobsOK, JobOK, Ready
<1>2. job[x].held \cup job[x].todo = job[x].held
  BY <1>1
<1> QED
  BY <1>1, <1>2 DEF LocksOK

\* Rows are never made to disappear, nor to look younger.
GrantsGrow ==
  \A g \in Grants : grants[g].state # "none" =>
    grants'[g].state # "none" /\ grants'[g].created = grants[g].created

\* A grant in use is written under its row's lock and the policy under the state
\* row's, by a transaction that ends there.
GrantsLocked ==
  \A g \in Grants : grants'[g] # grants[g] =>
    \/ grants[g].state = "none"
    \/ \E x \in Slots : job[x].pc = "open" /\ Row(g) \in job[x].held /\ job'[x].pc # "open"
PolicyLocked ==
  policy' # policy =>
    \E x \in Slots : /\ job[x].pc = "open" /\ State \in job[x].held /\ job[x].kind # "claim"
                     /\ job'[x].pc # "open"
Locked == GrantsGrow /\ GrantsLocked /\ PolicyLocked

LEMMA NothingWritten ==
  ASSUME UNCHANGED <<grants, policy>>
  PROVE  Locked
  BY DEF Locked, GrantsGrow, GrantsLocked, PolicyLocked

LEMMA RevokeRows ==
  ASSUME RowsTyped, NEW G, Revoke(G)
  PROVE  /\ grants' \in [Grants -> GrantRows] /\ GrantsGrow
         /\ \A g \in Grants : g \notin G => grants'[g] = grants[g]
<1>1. \A g \in Grants : grants[g] \in GrantRows
  BY DEF RowsTyped
<1> QED
  BY <1>1 DEF Revoke, GrantRows, GrantsGrow

LEMMA BindRows ==
  ASSUME RowsTyped, NEW G, NEW b \in BOOLEAN, Bind(G, b)
  PROVE  /\ grants' \in [Grants -> GrantRows] /\ GrantsGrow
         /\ \A g \in Grants : g \notin G => grants'[g] = grants[g]
<1>1. \A g \in Grants : grants[g] \in GrantRows
  BY DEF RowsTyped
<1> QED
  BY <1>1 DEF Bind, GrantRows, GrantsGrow

LEMMA LockFacts ==
  /\ State[1] = 0 /\ ContactRows[1] = 3 /\ WalletKey[1] = 4
  /\ \A g : Key(g)[1] = 1 /\ Row(g)[1] = 2
  /\ \A g, h : (Key(g) = Key(h) => g = h) /\ (Row(g) = Row(h) => g = h)
  BY DEF State, ContactRows, WalletKey, Key, Row

LEMMA RevokeGrantLocked ==
  ASSUME JobsOK, RowsTyped, NEW x \in Slots, RevokeGrant(x)
  PROVE  RowsTyped' /\ Locked
<1>1. CASE UNCHANGED grants
  BY <1>1, NothingWritten DEF RevokeGrant, RowsTyped, Done, Became
<1>2. CASE Revoke({job[x].grant}) /\ Became(x, Closed(job[x], "next", "unbind"))
  <2>1. Row(job[x].grant) \in job[x].held /\ job[x].pc = "open" /\ job[x] \in Jobs
    <3>1. "revoke" \in Kinds /\ "revoke" \notin AnyOrderKinds
      BY DEF Kinds, OtherKinds, AnyOrderKinds
    <3>2. Ready(x, "revoke")
      BY DEF RevokeGrant
    <3>3. job[x].pc = "open" /\ job[x] \in Jobs
      BY <3>1, <3>2, HeldWhenReady
    <3>4. job[x].held = LocksOf("revoke", job[x].grant, job[x].plan)
      BY <3>1, <3>2, HeldWhenReady
    <3> QED
      BY <3>3, <3>4 DEF LocksOf
  <2>2. job'[x] = Closed(job[x], "next", "unbind")
    BY <1>2 DEF Became, JobsOK
  <2>3. job'[x].pc = "next"
    BY <2>1, <2>2, ClosedFields DEF Kinds, OtherKinds, Pcs
  <2>4. GrantsLocked
    BY <1>2, <2>1, <2>3, RevokeRows DEF GrantsLocked
  <2> QED
    BY <1>2, <2>4, RevokeRows DEF RevokeGrant, RowsTyped, Became, Locked, PolicyLocked
<1> QED
  BY <1>1, <1>2 DEF RevokeGrant

LEMMA DoneJob ==
  ASSUME JobsOK, NEW x \in Slots, Done(x)
  PROVE  job'[x].pc = "idle"
  BY IdleFields DEF Done, Became, JobsOK

LEMMA BumpTyped ==
  ASSUME RowsTyped, BumpDesiredRevision
  PROVE  policy' \in [desired : Nat, applied : Nat, hashes : BOOLEAN]
<1>1. policy.desired + 1 \in Nat
  BY DEF RowsTyped
<1> QED
  BY <1>1 DEF BumpDesiredRevision, RowsTyped

LEMMA ApplyRemovalLocked ==
  ASSUME JobsOK, RowsTyped, NEW x \in Slots, ApplyRemoval(x)
  PROVE  RowsTyped' /\ Locked
<1>1. CASE UNCHANGED rows
  BY <1>1, NothingWritten DEF ApplyRemoval, RowsTyped, Done, Became, rows
<1>2. CASE /\ ~PlanMoved(job[x])
           /\ Revoke(FinalAffected(job[x]) \cap ActiveGrants)
           /\ alias' = alias \ {job[x].contact}
           /\ BumpDesiredRevision
           /\ Done(x)
           /\ UNCHANGED <<ledger, attempt>>
  <2>1. job[x].kind \in {"remove", "edit"} /\ job[x].pc = "open" /\ job[x].plan \in SUBSET Grants
        /\ job[x].held = LocksOf(job[x].kind, job[x].grant, job[x].plan)
    BY HeldWhenReady DEF ApplyRemoval, AnyOrderKinds, Kinds, LeaseKinds, Jobs
  <2>2. State \in job[x].held /\ \A g \in job[x].plan : Row(g) \in job[x].held
    BY <2>1 DEF LocksOf
  <2>3. FinalAffected(job[x]) \cap ActiveGrants \subseteq job[x].plan
    BY <1>2 DEF FinalAffected, PlanMoved
  <2>4. job'[x].pc = "idle"
    BY <1>2, DoneJob
  <2>5. GrantsLocked
    BY <1>2, <2>1, <2>2, <2>3, <2>4, RevokeRows DEF GrantsLocked
  <2>6. PolicyLocked
    BY <2>1, <2>2, <2>4 DEF PolicyLocked
  <2>7. /\ grants' \in [Grants -> GrantRows] /\ GrantsGrow
    BY <1>2, RevokeRows
  <2>8. now' = now /\ alias' \subseteq Contacts /\ UNCHANGED <<turns, started>>
    BY <1>2 DEF ApplyRemoval, RowsTyped, Done, Became
  <2> QED
    BY <1>2, <2>5, <2>6, <2>7, <2>8, BumpTyped DEF RowsTyped, Locked
<1> QED
  BY <1>1, <1>2 DEF ApplyRemoval

LEMMA SyncLocked ==
  ASSUME JobsOK, RowsTyped, NEW x \in Slots, SyncGrant(x)
  PROVE  RowsTyped' /\ Locked
<1> DEFINE g == job[x].grant
<1>1. job[x].pc = "open" /\ job[x] \in Jobs /\ g \in Grants /\ Row(g) \in job[x].held
  <2>1. Ready(x, "sync") /\ "sync" \in Kinds /\ "sync" \notin AnyOrderKinds
    BY DEF SyncGrant, AnyOrderKinds, Kinds, OtherKinds
  <2>2. Row(g) \in LocksOf("sync", g, job[x].plan)
    BY DEF LocksOf
  <2> QED
    BY <2>1, <2>2, HeldWhenReady DEF JobFacts
<1> DEFINE b == grants[g].bound /\ ~(job[x].row.state = "active" /\ ~job[x].row.bound)
<1>2. grants' = [grants EXCEPT ![g] = [@ EXCEPT !.bound = b]]
  BY DEF SyncGrant
<1>3. b \in BOOLEAN
  BY <1>1 DEF Jobs, RowsTyped, GrantRows
<1>4. grants[g] \in GrantRows
  BY <1>1 DEF RowsTyped
<1> HIDE DEF b
<1>5. [grants[g] EXCEPT !.bound = b] \in GrantRows
      /\ [grants[g] EXCEPT !.bound = b].state = grants[g].state
      /\ [grants[g] EXCEPT !.bound = b].created = grants[g].created
  BY <1>3, <1>4 DEF GrantRows
<1>6. grants' \in [Grants -> GrantRows] /\ GrantsGrow
      /\ \A h \in Grants : h # g => grants'[h] = grants[h]
  BY <1>1, <1>2, <1>5 DEF RowsTyped, GrantsGrow
<1>7. Done(x)
  BY DEF SyncGrant
<1>8. GrantsLocked
  BY <1>1, <1>6, <1>7, DoneJob DEF GrantsLocked
<1> QED
  BY <1>6, <1>7, <1>8 DEF SyncGrant, RowsTyped, Done, Became, Locked, PolicyLocked

LEMMA CommitLocked ==
  ASSUME JobsOK, RowsTyped, NEW x \in Slots, CommitApplyOutcome(x)
  PROVE  RowsTyped' /\ Locked
<1> DEFINE A == job[x].affected
<1>1. PICK kind \in {"apply", "invalidate"} : Ready(x, kind)
  BY DEF CommitApplyOutcome
<1>2. /\ job[x].pc = "open" /\ job[x] \in Jobs /\ job[x].kind = kind
      /\ State \in job[x].held /\ \A g \in A : Row(g) \in job[x].held
  BY <1>1, HeldWhenReady DEF AnyOrderKinds, Kinds, LeaseKinds
<1>3. job'[x].pc = "idle"
  BY DoneJob DEF CommitApplyOutcome
<1>4. /\ UNCHANGED grants \/ \E b \in BOOLEAN : Bind(A, b)
      /\ policy' \in [desired : Nat, applied : Nat, hashes : BOOLEAN]
  <2>1. job[x].rev \in Nat
    BY <1>2 DEF Jobs
  <2>2. [policy EXCEPT !.applied = job[x].rev, !.hashes = TRUE]
          \in [desired : Nat, applied : Nat, hashes : BOOLEAN]
    BY <2>1 DEF RowsTyped
  <2>3. [policy EXCEPT !.hashes = FALSE] \in [desired : Nat, applied : Nat, hashes : BOOLEAN]
    BY DEF RowsTyped
  <2> QED
    BY <2>2, <2>3 DEF CommitApplyOutcome, RowsTyped
<1>5. /\ grants' \in [Grants -> GrantRows] /\ GrantsGrow
      /\ \A g \in Grants : g \notin A => grants'[g] = grants[g]
  BY <1>4, BindRows DEF RowsTyped, GrantsGrow
<1>6. GrantsLocked
  BY <1>2, <1>3, <1>5 DEF GrantsLocked
<1>7. PolicyLocked
  BY <1>1, <1>2, <1>3 DEF PolicyLocked
<1> QED
  BY <1>4, <1>5, <1>6, <1>7 DEF CommitApplyOutcome, Done, Became, RowsTyped, Locked

LEMMA MutationLocked ==
  ASSUME JobsOK, RowsTyped, NEW x \in Slots, RunMutation(x)
  PROVE  RowsTyped' /\ Locked
<1>1. PICK kind \in {"contact", "enroll"} : Ready(x, kind)
  BY DEF RunMutation
<1>2. State \in LocksOf(kind, job[x].grant, job[x].plan)
  BY DEF LocksOf
<1>3. job[x].pc = "open" /\ job[x].kind # "claim" /\ State \in job[x].held
  BY <1>1, <1>2, HeldWhenReady DEF AnyOrderKinds, Kinds, LeaseKinds, OtherKinds
<1>4. job'[x].pc = "idle" /\ UNCHANGED <<now, grants, ledger, attempt, turns, started>>
  BY DoneJob DEF RunMutation, Done, Became
<1>5. Locked
  BY <1>3, <1>4 DEF Locked, GrantsGrow, GrantsLocked, PolicyLocked
<1>6. alias' \subseteq Contacts
  BY DEF RunMutation, RowsTyped
<1> QED
  BY <1>4, <1>5, <1>6, BumpTyped DEF RunMutation, RowsTyped

LEMMA BeginTyped ==
  ASSUME RowsTyped, NEW x \in Slots, NEW kind, NEW j, Begin(x, kind, j), kind = "claim" => j.key \in Keys
  PROVE  started' \in 0..MaxJobs /\ turns' \in [Keys -> Nat]
<1>1. started' \in 0..MaxJobs
  BY LedgerAssumption DEF Begin, RowsTyped
<1>2. CASE kind # "claim"
  BY <1>1, <1>2 DEF Begin, RowsTyped
<1>3. CASE kind = "claim"
  <2>1. turns[j.key] + 1 \in Nat
    BY <1>3 DEF RowsTyped
  <2>2. turns' = [turns EXCEPT ![j.key] = turns[j.key] + 1]
    BY <1>3 DEF Begin
  <2> QED
    BY <1>1, <2>1, <2>2 DEF RowsTyped
<1> QED
  BY <1>2, <1>3

LEMMA CreateLocked ==
  ASSUME JobsOK, RowsTyped, NEW x \in Slots, CreateGrant(x)
  PROVE  RowsTyped' /\ Locked
<1>1. PICK g \in Grants :
        /\ grants[g].state = "none"
        /\ grants' = [grants EXCEPT ![g] = [state |-> "active", bound |-> FALSE, created |-> now]]
        /\ Begin(x, "sync", [Idle EXCEPT !.pc = "next", !.grant = g])
  BY DEF CreateGrant
<1>2. [state |-> "active", bound |-> FALSE, created |-> now] \in GrantRows
  BY LedgerAssumption DEF GrantRows, RowsTyped
<1>3. /\ grants' \in [Grants -> GrantRows]
      /\ \A h \in Grants : h # g => grants'[h] = grants[h]
  BY <1>1, <1>2 DEF RowsTyped
<1>4. Locked
  BY <1>1, <1>3 DEF CreateGrant, Locked, GrantsGrow, GrantsLocked, PolicyLocked
<1>5. started' \in 0..MaxJobs /\ turns' \in [Keys -> Nat]
  BY <1>1, BeginTyped
<1> QED
  BY <1>3, <1>4, <1>5 DEF CreateGrant, RowsTyped

LEMMA RequestLocked ==
  ASSUME JobsOK, RowsTyped, NEW x \in Slots, Request(x)
  PROVE  RowsTyped' /\ Locked
<1>1. ASSUME NEW kind, NEW j, Begin(x, kind, j), kind = "claim" => j.key \in Keys,
             UNCHANGED <<now, rows>>
      PROVE  RowsTyped' /\ Locked
  BY <1>1, BeginTyped, NothingWritten DEF RowsTyped, rows
<1>2. CASE BeginTurn(x)
  <2>1. PICK k \in Keys : Begin(x, "claim", [Idle EXCEPT !.pc = "gate", !.key = k, !.asked = now])
    BY <1>2 DEF BeginTurn
  <2>2. [Idle EXCEPT !.pc = "gate", !.key = k, !.asked = now].key = k
    BY IdleFields DEF Jobs
  <2>3. UNCHANGED <<now, rows>>
    BY <1>2 DEF BeginTurn
  <2> QED
    BY <1>1, <2>1, <2>2, <2>3
<1>3. CASE BeginRevoke(x)
  <2>1. PICK g \in Grants : Begin(x, "revoke", [Idle EXCEPT !.pc = "next", !.grant = g])
    BY <1>3 DEF BeginRevoke
  <2> QED
    BY <1>1, <1>3, <2>1 DEF BeginRevoke
<1>4. ASSUME NEW kind \in Kinds,
             BeginRemoval(x, kind) \/ BeginMutation(x, kind) \/ BeginApply(x, kind)
      PROVE  RowsTyped' /\ Locked
  <2>1. kind # "claim" /\ UNCHANGED <<now, rows>> /\ \E j : Begin(x, kind, j)
    BY <1>4 DEF BeginRemoval, BeginMutation, BeginApply
  <2> QED
    BY <1>1, <2>1
<1> QED
  BY <1>2, <1>3, <1>4, CreateLocked DEF Request

LEMMA LedgerTyped ==
  ASSUME JobsOK, RowsTyped, NEW x \in Slots, ClaimConsumption(x) \/ SettleGrantReservation(x)
  PROVE  ledger' \in [Grants -> [Keys -> Claims \cup {None}]]
<1> DEFINE g == job[x].grant
           k == job[x].key
<1>1. g \in Grants /\ k \in Keys /\ job[x] \in Jobs
  BY DEF JobsOK, JobOK, JobFacts, ClaimConsumption, SettleGrantReservation, Ready
<1>2. NewClaim(x) \in Claims
  BY <1>1, LedgerAssumption DEF NewClaim, Claims, Jobs
<1>3. ASSUME ledger[g][k] # None
      PROVE  [ledger[g][k] EXCEPT !.released = TRUE] \in Claims
  <2>1. PICK was \in Claims : was = ledger[g][k]
    BY <1>1, <1>3 DEF RowsTyped
  <2>2. [was EXCEPT !.released = TRUE] \in Claims
    BY DEF Claims
  <2> QED
    BY <2>1, <2>2
<1> DEFINE c == IF ledger[g][k] = None THEN None ELSE [ledger[g][k] EXCEPT !.released = TRUE]
<1>4. \/ ledger' = ledger
      \/ ledger' = [ledger EXCEPT ![g][k] = NewClaim(x)]
      \/ ledger' = [ledger EXCEPT ![g][k] = c]
  BY DEF ClaimConsumption, SettleGrantReservation
<1>5. c \in Claims \cup {None}
  BY <1>3
<1> HIDE DEF c, g, k
<1> QED
  BY <1>1, <1>2, <1>4, <1>5 DEF RowsTyped

LEMMA StepLocked ==
  ASSUME JobsOK, RowsTyped, NEW x \in Slots, Step(x)
  PROVE  RowsTyped' /\ Locked
<1>1. CASE GateReadsPolicy(x) \/ GateListsGrants(x) \/ OpenTransaction(x) \/ Acquire(x)
             \/ NestedRead(x) \/ ReadRemovalPlan(x) \/ SyncRevocation(x)
  <2>1. UNCHANGED <<now, rows, turns, started>>
    BY <1>1 DEF GateReadsPolicy, GateListsGrants, OpenTransaction, Acquire, NestedRead,
       ReadRemovalPlan, SyncRevocation, Done, Became
  <2> QED
    BY <2>1, NothingWritten DEF rows, RowsTyped
<1>2. CASE ClaimConsumption(x)
  <2>1. UNCHANGED <<now, policy, grants, alias, attempt, turns, started>>
    BY <1>2 DEF ClaimConsumption, AfterClaim, Became
  <2> QED
    BY <1>2, <2>1, LedgerTyped, NothingWritten DEF RowsTyped
<1>3. CASE ClaimAttempt(x) \/ Broadcast(x)
  <2>1. UNCHANGED <<now, policy, grants, ledger, alias, turns, started>>
    BY <1>3 DEF ClaimAttempt, Broadcast, Done, Became
  <2>2. attempt' \in [Keys -> {"previewed", "broadcasting", "cancelled", "final", "user"}]
    BY <1>3 DEF ClaimAttempt, Broadcast, RowsTyped
  <2> QED
    BY <2>1, <2>2, NothingWritten DEF RowsTyped
<1>4. CASE SettleGrantReservation(x)
  <2>1. UNCHANGED <<now, policy, grants, alias, turns, started>>
    BY <1>4 DEF SettleGrantReservation, Done, Became
  <2>2. attempt' \in [Keys -> {"previewed", "broadcasting", "cancelled", "final", "user"}]
    BY <1>4 DEF SettleGrantReservation, RowsTyped
  <2> QED
    BY <1>4, <2>1, <2>2, LedgerTyped, NothingWritten DEF RowsTyped
<1> QED
  BY <1>1, <1>2, <1>3, <1>4, RevokeGrantLocked, ApplyRemovalLocked, SyncLocked, CommitLocked,
     MutationLocked DEF Step

LEMMA TimeLocked ==
  ASSUME RowsTyped, Tick \/ \E k \in Keys : UserDecides(k)
  PROVE  RowsTyped' /\ Locked
<1>1. UNCHANGED <<grants, policy>>
  BY DEF Tick, UserDecides, rows
<1>2. ASSUME Tick PROVE RowsTyped'
  <2>1. now' = now + 1 /\ now < MaxTime /\ UNCHANGED <<rows, turns, started>>
    BY <1>2 DEF Tick
  <2>2. now' \in 0..MaxTime
    BY <2>1, LedgerAssumption DEF RowsTyped
  <2>3. UNCHANGED <<policy, grants, ledger, alias, attempt, turns, started>>
    BY <2>1 DEF rows
  <2> QED
    BY <2>2, <2>3 DEF RowsTyped
<1>3. ASSUME NEW k \in Keys, UserDecides(k) PROVE RowsTyped'
  BY <1>3 DEF UserDecides, RowsTyped
<1> QED
  BY <1>1, <1>2, <1>3, NothingWritten

-----------------------------------------------------------------------------
(* The locks exclude                                                       *)

Exclusion ==
  \A x, y \in Slots : \A l \in Locks :
    /\ x # y /\ job[x].pc = "open" /\ job[y].pc = "open"
    /\ l \in job[x].held /\ l \in job[y].held
    => Shared(x, l) /\ Shared(y, l)

LEMMA ShrinkingExcludes ==
  ASSUME Exclusion, HeldShrinks
  PROVE  Exclusion'
  BY DEF Exclusion, HeldShrinks, Shared

LEMMA AcquireExcludes ==
  ASSUME JobsOK, RowsTyped, Exclusion, NEW x \in Slots, Acquire(x)
  PROVE  Exclusion'
<1>1. PICK l \in NextLocks(x) :
        /\ \A y \in Open \ {x} : ~Conflicts(x, y, l)
        /\ job' = [job EXCEPT ![x] = ReadUnder(x, l)]
        /\ job[x].pc = "open" /\ lease' = lease
  BY DEF Acquire
<1>2. /\ job'[x].held = job[x].held \cup {l} /\ job'[x].pc = "open"
      /\ job'[x].kind = job[x].kind
  BY <1>1, AcquireJob
<1>3. \A y \in Slots \ {x} : job'[y] = job[y]
  BY <1>1 DEF JobsOK
<1>4. \A y \in Slots \ {x} : job[y].pc = "open" /\ l \in job[y].held => Shared(x, l) /\ Shared(y, l)
  BY <1>1 DEF Open, Conflicts
<1> QED
  BY <1>1, <1>2, <1>3, <1>4 DEF Exclusion, Shared

-----------------------------------------------------------------------------
(* What a turn knows when it claims                                        *)

Elder(g, t) == grants[g].state # "none" /\ grants[g].created <= t

KnowsOf(j) ==
  j.kind = "claim" =>
    /\ j.pc \in {"next", "open"} => \A g \in j.cands : Elder(g, j.asked)
    /\ j.pc = "open" => Elder(j.grant, j.asked)
    /\ j.pc = "open" /\ Row(j.grant) \in j.held => j.row = grants[j.grant]
    /\ j.pc = "open" /\ j.seen => PolicyVerified

Knows == \A x \in Slots : KnowsOf(job[x])

\* How a turn comes to its candidates, to one of them, and back.
ListsItsGrants(j, n) ==
  /\ n.pc = "next" /\ n.asked = j.asked
  /\ \A g \in n.cands : Covers(g, j.key, j.asked)
TakesACandidate(j, n) ==
  /\ j.kind = "claim" /\ j.pc = "next" /\ n.pc = "open" /\ n.asked = j.asked
  /\ n.cands \subseteq j.cands /\ n.grant \in j.cands /\ n.held = {} /\ ~n.seen
  /\ n.began = now
StaysInClaim(j, n) ==
  /\ j.kind = "claim" /\ j.pc = "open" /\ n.asked = j.asked /\ n.cands \subseteq j.cands
  /\ n.pc = "open" => /\ n.grant = j.grant /\ n.held = j.held /\ n.row = j.row
                       /\ n.seen = j.seen /\ n.began = j.began
TurnGoes ==
  \A x \in Slots :
    \/ job'[x] = job[x]
    \/ job'[x].kind = "claim" /\ job'[x].pc \in {"next", "open"} =>
         \/ ListsItsGrants(job[x], job'[x])
         \/ TakesACandidate(job[x], job'[x])
         \/ StaysInClaim(job[x], job'[x])

LEMMA OnlyOne ==
  ASSUME JobsOK, NEW x \in Slots, NEW n, job' = [job EXCEPT ![x] = n],
         n.kind = "claim" /\ n.pc \in {"next", "open"} =>
           \/ ListsItsGrants(job[x], n) \/ TakesACandidate(job[x], n) \/ StaysInClaim(job[x], n)
  PROVE  TurnGoes
<1>1. job'[x] = n /\ \A y \in Slots \ {x} : job'[y] = job[y]
  BY DEF JobsOK
<1> QED
  BY <1>1 DEF TurnGoes

LEMMA BeginGoes ==
  ASSUME JobsOK, NEW x \in Slots, NEW kind \in Kinds, NEW j \in Jobs, Begin(x, kind, j),
         kind = "claim" => j.pc = "gate"
  PROVE  TurnGoes
<1> DEFINE n == [j EXCEPT !.kind = kind]
<1>1. n.kind = kind /\ n.pc = j.pc
  BY DEF Jobs
<1>2. job' = [job EXCEPT ![x] = n]
  BY DEF Begin
<1> HIDE DEF n
<1> QED
  BY <1>1, <1>2, OnlyOne

LEMMA TurnGoesOn ==
  ASSUME JobsOK, RowsTyped, Knows, NEW x \in Slots, Step(x), ~Acquire(x)
  PROVE  TurnGoes
<1>1. job[x] \in Jobs /\ JobFacts(job[x])
  BY DEF JobsOK, JobOK
<1>2. CASE job' = [job EXCEPT ![x] = Idle]
  BY <1>2, IdleFields, OnlyOne
<1>3. CASE GateReadsPolicy(x)
  <2>1. [job[x] EXCEPT !.pc = "list"].pc = "list"
    BY <1>1 DEF Jobs
  <2> QED
    BY <1>2, <1>3, <2>1, OnlyOne DEF GateReadsPolicy, Done, Became
<1>4. CASE GateListsGrants(x)
  <2> DEFINE found == {g \in Grants : Covers(g, job[x].key, job[x].asked)}
             n == [job[x] EXCEPT !.pc = "next", !.cands = found]
  <2>1. Done(x) \/ job' = [job EXCEPT ![x] = n]
    BY <1>4, <1>1 DEF GateListsGrants, JobsOK
  <2>2. \A g \in found : Covers(g, job[x].key, job[x].asked)
    OBVIOUS
  <2> HIDE DEF found
  <2>3. n.pc = "next" /\ n.cands = found /\ n.asked = job[x].asked
    BY <1>1 DEF Jobs
  <2> HIDE DEF n
  <2>4. ListsItsGrants(job[x], n)
    BY <2>2, <2>3 DEF ListsItsGrants
  <2> QED
    BY <1>2, <2>1, <2>4, OnlyOne DEF Done, Became
<1>5. CASE OpenTransaction(x)
  <2>1. now \in Nat /\ job[x].pc = "next"
    BY <1>5, LedgerAssumption DEF RowsTyped, OpenTransaction
  <2>2. CASE job[x].kind = "claim"
    <3>1. PICK g \in job[x].cands :
            job' = [job EXCEPT ![x] = Opened([job[x] EXCEPT !.cands = @ \ {g}], "claim", g)]
      BY <1>5, <2>2 DEF OpenTransaction
    <3> DEFINE j == [job[x] EXCEPT !.cands = @ \ {g}]
               n == Opened(j, "claim", g)
    <3>2. j \in Jobs /\ g \in Grants /\ j.cands \subseteq job[x].cands /\ j.asked = job[x].asked
      BY <1>1 DEF Jobs
    <3> HIDE DEF j
    <3>3. n.pc = "open" /\ n.asked = j.asked /\ n.cands = j.cands /\ n.grant = g /\ n.held = {}
          /\ ~n.seen /\ n.began = now
      <4>1. "claim" \in Kinds /\ g \in Grants \cup {0}
        BY <3>2 DEF Kinds, OtherKinds
      <4> QED
        BY <2>1, <3>2, <4>1, OpenedFields
    <3>4. job' = [job EXCEPT ![x] = n]
      BY <3>1 DEF j
    <3> HIDE DEF n
    <3>5. TakesACandidate(job[x], n)
      BY <2>1, <2>2, <3>2, <3>3 DEF TakesACandidate
    <3> QED
      BY <3>4, <3>5, OnlyOne
  <2>3. CASE job[x].kind # "claim"
    <3>1. job[x].kind \in Kinds /\ job[x].grant \in Grants \cup {0}
          /\ (job[x].kind \in {"claim", "settle", "revoke", "sync", "unbind"}
                => job[x].grant \in Grants)
      BY <1>1, <2>1, <2>3 DEF Jobs, JobFacts
    <3>2. Opened(job[x], job[x].kind, job[x].grant).kind = job[x].kind
      BY <1>1, <2>1, <3>1, OpenedFields
    <3> QED
      BY <1>5, <2>3, <3>2, OnlyOne DEF OpenTransaction
  <2> QED
    BY <2>2, <2>3
<1>6. CASE NestedRead(x)
  <2> DEFINE n == [job[x] EXCEPT !.nested = FALSE]
  <2>1. /\ n.pc = "open" /\ n.kind = job[x].kind /\ n.held = job[x].held
        /\ n.grant = job[x].grant /\ n.cands = job[x].cands /\ n.asked = job[x].asked
        /\ n.row = job[x].row /\ n.seen = job[x].seen /\ n.began = job[x].began
        /\ job[x].pc = "open"
    BY <1>1, <1>6 DEF Jobs, NestedRead
  <2>2. job' = [job EXCEPT ![x] = n]
    BY <1>6 DEF NestedRead
  <2> HIDE DEF n
  <2> QED
    BY <2>1, <2>2, OnlyOne DEF StaysInClaim
<1>7. CASE ClaimConsumption(x)
  <2>1. job[x].pc = "open" /\ job[x].kind = "claim"
    BY <1>7 DEF ClaimConsumption, Ready
  <2>2. PICK consumed \in BOOLEAN : AfterClaim(x, consumed) /\ lease' = lease
    BY <1>7 DEF ClaimConsumption
  <2>3. \/ job' = [job EXCEPT ![x] = Idle]
        \/ job' = [job EXCEPT ![x] = Refused(x)]
        \/ job' = [job EXCEPT ![x] = Won(x)]
    BY <2>1, <2>2, AfterClaimJob
  <2>4. Refused(x) = Idle \/ StaysInClaim(job[x], Refused(x))
    BY <2>1, AfterClaimFields DEF StaysInClaim
  <2> QED
    BY <1>2, <2>1, <2>3, <2>4, AfterClaimFields, OnlyOne
<1>8. CASE ClaimAttempt(x) \/ Broadcast(x)
  <2>1. [job[x] EXCEPT !.pc = "execute"].pc = "execute"
        /\ [job[x] EXCEPT !.pc = "next", !.kind = "settle"].kind = "settle"
    BY <1>1 DEF Jobs
  <2> QED
    BY <1>1, <1>2, <1>8, <2>1, OnlyOne DEF ClaimAttempt, Broadcast, Done, Became, JobsOK
<1>9. CASE RevokeGrant(x)
  <2>1. Closed(job[x], "next", "unbind").kind = "unbind"
    BY <1>1, ClosedFields DEF Kinds, OtherKinds, Pcs
  <2> QED
    BY <1>2, <1>9, <2>1, OnlyOne DEF RevokeGrant, Done, Became
<1>10. CASE ReadRemovalPlan(x)
  <2>1. [job[x] EXCEPT !.pc = "next", !.planned = alias, !.plan = ActiveGrants].kind = job[x].kind
        /\ job[x].kind # "claim"
    BY <1>1, <1>10 DEF Jobs, JobFacts, ReadRemovalPlan
  <2> QED
    BY <1>10, <2>1, OnlyOne DEF ReadRemovalPlan
<1>11. CASE ApplyRemoval(x)
  <2>1. Closed(job[x], "plan", "remove") \in Jobs /\ Closed(job[x], "plan", "remove").kind = "remove"
    BY <1>1, ClosedFields DEF Kinds, LeaseKinds, Pcs
  <2>2. [Closed(job[x], "plan", "remove") EXCEPT !.tries = @ + 1].kind = "remove"
    BY <2>1 DEF Jobs
  <2> QED
    BY <1>2, <1>11, <2>2, OnlyOne DEF ApplyRemoval, Done, Became
<1>12. CASE \/ SettleGrantReservation(x) \/ SyncGrant(x) \/ SyncRevocation(x) \/ RunMutation(x)
            \/ CommitApplyOutcome(x)
  BY <1>2, <1>12 DEF SettleGrantReservation, SyncGrant, SyncRevocation, RunMutation,
     CommitApplyOutcome, Done, Became
<1> QED
  BY <1>3, <1>4, <1>5, <1>6, <1>7, <1>8, <1>9, <1>10, <1>11, <1>12 DEF Step

LEMMA RequestGoes ==
  ASSUME JobsOK, RowsTyped, NEW x \in Slots, Request(x)
  PROVE  TurnGoes
<1>1. "claim" \in Kinds /\ "sync" \in Kinds /\ "revoke" \in Kinds
  BY DEF Kinds, OtherKinds
<1>2. CASE BeginTurn(x)
  <2>1. PICK k \in Keys : Begin(x, "claim", [Idle EXCEPT !.pc = "gate", !.key = k, !.asked = now])
    BY <1>2 DEF BeginTurn
  <2>2. [Idle EXCEPT !.pc = "gate", !.key = k, !.asked = now] \in Jobs
        /\ [Idle EXCEPT !.pc = "gate", !.key = k, !.asked = now].pc = "gate"
    <3>1. now \in Nat
      BY LedgerAssumption DEF RowsTyped
    <3> QED
      BY <3>1, IdleFields DEF Jobs, Pcs
  <2> QED
    BY <1>1, <2>1, <2>2, BeginGoes
<1>3. ASSUME NEW kind \in Kinds, kind # "claim", NEW j, Begin(x, kind, j), j \in Jobs
      PROVE  TurnGoes
  BY <1>3, BeginGoes
<1>4. CASE CreateGrant(x) \/ BeginRevoke(x)
  <2>1. PICK g \in Grants, kind \in {"sync", "revoke"} :
          Begin(x, kind, [Idle EXCEPT !.pc = "next", !.grant = g])
    BY <1>4 DEF CreateGrant, BeginRevoke
  <2>2. [Idle EXCEPT !.pc = "next", !.grant = g] \in Jobs
    BY IdleFields DEF Jobs, Pcs
  <2> QED
    BY <1>1, <1>3, <2>1, <2>2
<1>5. ASSUME NEW kind \in Kinds, BeginRemoval(x, kind) PROVE TurnGoes
  <2>1. PICK c \in alias, said \in (SUBSET Grants) \cup {None} :
          /\ kind \in {"remove", "edit"}
          /\ Begin(x, kind, [Idle EXCEPT !.pc = "plan", !.contact = c, !.disclosed = said])
    BY <1>5, AffectedGrants DEF BeginRemoval
  <2>2. [Idle EXCEPT !.pc = "plan", !.contact = c, !.disclosed = said] \in Jobs
    BY IdleFields DEF Jobs, Pcs, RowsTyped
  <2> QED
    BY <1>3, <2>1, <2>2
<1>6. ASSUME NEW kind \in Kinds, BeginMutation(x, kind) \/ BeginApply(x, kind) PROVE TurnGoes
  <2>1. [Idle EXCEPT !.pc = "next"] \in Jobs
    BY IdleFields DEF Jobs, Pcs
  <2>2. policy.desired \in Nat
    BY DEF RowsTyped
  <2>3. [Idle EXCEPT !.pc = "next", !.rev = policy.desired] \in Jobs
    BY <2>2, IdleFields DEF Jobs, Pcs
  <2> QED
    BY <1>3, <1>6, <2>1, <2>3 DEF BeginMutation, BeginApply
<1> QED
  BY <1>2, <1>4, <1>5, <1>6 DEF Request

\* Who holds a lock can count on what it read under it.
LEMMA StillTrue ==
  ASSUME JobsOK, RowsTyped, Exclusion, Knows, Locked,
         NEW y \in Slots, job[y].pc = "open", job[y].kind = "claim", job'[y].pc = "open"
  PROVE  /\ Row(job[y].grant) \in job[y].held => grants'[job[y].grant] = grants[job[y].grant]
         /\ job[y].seen => PolicyVerified'
<1>1. job[y] \in Jobs /\ job[y].grant \in Grants /\ Elder(job[y].grant, job[y].asked)
      /\ (job[y].seen => State \in job[y].held /\ PolicyVerified)
  BY DEF JobsOK, JobOK, JobFacts, LocksOK, Knows, KnowsOf
<1>2. ASSUME Row(job[y].grant) \in job[y].held, grants'[job[y].grant] # grants[job[y].grant]
      PROVE  FALSE
  <2>1. PICK x \in Slots : /\ job[x].pc = "open" /\ Row(job[y].grant) \in job[x].held
                           /\ job'[x].pc # "open"
    BY <1>1, <1>2 DEF Locked, GrantsLocked, Elder
  <2>2. Shared(x, Row(job[y].grant))
    BY <1>1, <1>2, <2>1, LockIds DEF Exclusion
  <2> QED
    BY <2>2, LockFacts DEF Shared
<1>3. ASSUME job[y].seen, policy' # policy PROVE FALSE
  <2>1. PICK x \in Slots : /\ job[x].pc = "open" /\ State \in job[x].held
                           /\ job[x].kind # "claim" /\ job'[x].pc # "open"
    BY <1>3 DEF Locked, PolicyLocked
  <2>2. Shared(x, State)
    BY <1>1, <1>3, <2>1, LockIds DEF Exclusion
  <2> QED
    BY <2>1, <2>2 DEF Shared
<1> QED
  BY <1>1, <1>2, <1>3 DEF PolicyVerified

LEMMA KnowsOn ==
  ASSUME JobsOK, RowsTyped, Exclusion, Knows, Locked, TurnGoes, JobsOK'
  PROVE  Knows'
<1> SUFFICES ASSUME NEW x \in Slots, job'[x].kind = "claim" PROVE KnowsOf(job[x])'
  BY DEF Knows, KnowsOf
<1> DEFINE j == job[x]
           n == job'[x]
           Older(g, t) == grants'[g].state # "none" /\ grants'[g].created <= t
           Told == /\ n.pc \in {"next", "open"} => \A g \in n.cands : Older(g, n.asked)
                   /\ n.pc = "open" => Older(n.grant, n.asked)
                   /\ n.pc = "open" /\ Row(n.grant) \in n.held => n.row = grants'[n.grant]
                   /\ n.pc = "open" /\ n.seen => PolicyVerified'
<1>0. Told => KnowsOf(job[x])'
  BY DEF KnowsOf, Elder
<1>1. j \in Jobs /\ n \in Jobs /\ KnowsOf(j)
  BY DEF JobsOK, Knows
<1>2. \A t : \A g \in Grants : Elder(g, t) => Older(g, t)
  BY DEF Locked, GrantsGrow, Elder
<1> HIDE DEF Older
<1>3. CASE n.pc \notin {"next", "open"}
  BY <1>0, <1>3
<1>4. CASE n = j /\ n.pc \in {"next", "open"}
  <2>1. \A g \in n.cands : Older(g, n.asked)
    BY <1>1, <1>2, <1>4 DEF KnowsOf, Jobs
  <2>2. n.pc = "open" => j.grant \in Grants /\ Older(n.grant, n.asked)
    BY <1>1, <1>2, <1>4 DEF KnowsOf, JobsOK, JobOK, JobFacts
  <2>3. n.pc = "open" /\ Row(n.grant) \in n.held => n.row = grants'[n.grant]
    BY <1>1, <1>4, StillTrue DEF KnowsOf
  <2>4. n.pc = "open" /\ n.seen => PolicyVerified'
    BY <1>4, StillTrue
  <2> QED
    BY <1>0, <2>1, <2>2, <2>3, <2>4
<1>5. CASE ListsItsGrants(j, n)
  <2>1. \A g \in n.cands : Older(g, n.asked)
    BY <1>1, <1>2, <1>5 DEF ListsItsGrants, Covers, Elder, Jobs
  <2> QED
    BY <1>0, <1>5, <2>1 DEF ListsItsGrants
<1>6. CASE TakesACandidate(j, n)
  <2>1. \A g \in j.cands : Older(g, n.asked)
    BY <1>1, <1>2, <1>6 DEF TakesACandidate, KnowsOf, Jobs
  <2> QED
    BY <1>0, <1>1, <1>6, <2>1 DEF TakesACandidate
<1>7. CASE StaysInClaim(j, n)
  <2>1. \A g \in n.cands : Older(g, n.asked)
    BY <1>1, <1>2, <1>7 DEF StaysInClaim, KnowsOf, Jobs
  <2>2. n.pc = "open" => j.grant \in Grants /\ Older(n.grant, n.asked)
    BY <1>1, <1>2, <1>7 DEF StaysInClaim, KnowsOf, JobsOK, JobOK, JobFacts
  <2>3. n.pc = "open" /\ Row(n.grant) \in n.held => n.row = grants'[n.grant]
    BY <1>1, <1>7, StillTrue DEF StaysInClaim, KnowsOf
  <2>4. n.pc = "open" /\ n.seen => PolicyVerified'
    BY <1>7, StillTrue DEF StaysInClaim
  <2> QED
    BY <1>0, <2>1, <2>2, <2>3, <2>4
<1> QED
  BY <1>3, <1>4, <1>5, <1>6, <1>7 DEF TurnGoes

-----------------------------------------------------------------------------
(* The reservations                                                        *)

Executing(j) == j.pc = "execute" \/ (j.pc # "idle" /\ j.kind = "settle")
Deciding(j) == j.kind = "claim" /\ j.pc \in {"gate", "list", "next", "open"}

Asking(k) == {x \in Slots : Deciding(job[x]) /\ job[x].key = k}
IsLive(g, k) == ledger[g][k] # None /\ ~ledger[g][k].released
Live(k) == {g \in Grants : IsLive(g, k)}

\* Only the one executor of a preview releases a claim on it, and it ends there.
MoneyOK ==
  /\ \A g \in Grants, k \in Keys :
       ledger[g][k] # None /\ ledger[g][k].released => attempt[k] = "cancelled"
  /\ \A x \in Slots : Executing(job[x]) => attempt[job[x].key] = "broadcasting"
  /\ \A x, y \in Slots :
       Executing(job[x]) /\ Executing(job[y]) /\ job[x].key = job[y].key => x = y
  /\ \A x \in Slots : job[x].pc = "claimed" => ledger[job[x].grant][job[x].key] # None
  /\ \A k \in Keys : attempt[k] \in {"broadcasting", "final"} => \E g \in Grants : IsLive(g, k)

\* A turn that has not claimed may still claim once.
CountOK ==
  \A k \in Keys : /\ IsFiniteSet(Live(k))
                   /\ Cardinality(Live(k)) + Cardinality(Asking(k)) <= turns[k]

\* A request of a step that neither begins a turn nor claims goes on as it was.
Follows(j, n) ==
  /\ Executing(n) => Executing(j) /\ n.key = j.key
  /\ n.pc = "claimed" => j.pc = "claimed" /\ n.key = j.key /\ n.grant = j.grant
  /\ Deciding(n) => Deciding(j) /\ n.key = j.key
Calm == \A x \in Slots : Follows(job[x], job'[x])

LEMMA OneCalm ==
  ASSUME JobsOK, NEW x \in Slots, NEW n, job' = [job EXCEPT ![x] = n], Follows(job[x], n)
  PROVE  Calm
<1>1. job'[x] = n /\ \A y \in Slots \ {x} : job'[y] = job[y]
  BY DEF JobsOK
<1> QED
  BY <1>1 DEF Calm, Follows

LEMMA DoneCalm == ASSUME JobsOK, NEW x \in Slots, job' = [job EXCEPT ![x] = Idle] PROVE Calm
<1>1. Follows(job[x], Idle)
  BY IdleFields DEF Follows, Executing, Deciding
<1> QED
  BY <1>1, OneCalm

LEMMA BeginCalm ==
  ASSUME JobsOK, NEW x \in Slots, NEW kind \in Kinds, kind \notin {"claim", "settle"},
         NEW j \in Jobs, Begin(x, kind, j), j.pc \in {"next", "plan"}
  PROVE  Calm /\ turns' = turns
<1> DEFINE n == [j EXCEPT !.kind = kind]
<1>1. n.kind = kind /\ n.pc = j.pc
  BY DEF Jobs
<1>2. job' = [job EXCEPT ![x] = n] /\ turns' = turns
  BY DEF Begin
<1> HIDE DEF n
<1>3. Follows(job[x], n)
  BY <1>1 DEF Follows, Executing, Deciding
<1> QED
  BY <1>2, <1>3, OneCalm

LEMMA RequestCalm ==
  ASSUME JobsOK, RowsTyped, NEW x \in Slots, Request(x), ~BeginTurn(x)
  PROVE  Calm /\ UNCHANGED <<ledger, attempt, turns>>
<1>1. UNCHANGED <<ledger, attempt>>
  BY DEF Request, CreateGrant, BeginRevoke, BeginRemoval, BeginMutation, BeginApply, rows
<1>2. CASE CreateGrant(x) \/ BeginRevoke(x)
  <2>1. PICK g \in Grants, kind \in {"sync", "revoke"} :
          Begin(x, kind, [Idle EXCEPT !.pc = "next", !.grant = g])
    BY <1>2 DEF CreateGrant, BeginRevoke
  <2>2. [Idle EXCEPT !.pc = "next", !.grant = g] \in Jobs
        /\ [Idle EXCEPT !.pc = "next", !.grant = g].pc = "next"
    BY IdleFields DEF Jobs, Pcs
  <2>3. kind \in Kinds
    BY DEF Kinds, OtherKinds
  <2> QED
    BY <1>1, <2>1, <2>2, <2>3, BeginCalm
<1>3. ASSUME NEW kind \in Kinds, BeginRemoval(x, kind)
      PROVE  Calm /\ UNCHANGED <<ledger, attempt, turns>>
  <2>1. PICK c \in alias, said \in (SUBSET Grants) \cup {None} :
          /\ kind \in {"remove", "edit"}
          /\ Begin(x, kind, [Idle EXCEPT !.pc = "plan", !.contact = c, !.disclosed = said])
    BY <1>3, AffectedGrants DEF BeginRemoval
  <2>2. [Idle EXCEPT !.pc = "plan", !.contact = c, !.disclosed = said] \in Jobs
        /\ [Idle EXCEPT !.pc = "plan", !.contact = c, !.disclosed = said].pc = "plan"
    BY IdleFields DEF Jobs, Pcs, RowsTyped
  <2> QED
    BY <1>1, <2>1, <2>2, BeginCalm
<1>4. ASSUME NEW kind \in Kinds, BeginMutation(x, kind) \/ BeginApply(x, kind)
      PROVE  Calm /\ UNCHANGED <<ledger, attempt, turns>>
  <2>1. [Idle EXCEPT !.pc = "next"] \in Jobs /\ [Idle EXCEPT !.pc = "next"].pc = "next"
    BY IdleFields DEF Jobs, Pcs
  <2>2. policy.desired \in Nat
    BY DEF RowsTyped
  <2>3. [Idle EXCEPT !.pc = "next", !.rev = policy.desired] \in Jobs
        /\ [Idle EXCEPT !.pc = "next", !.rev = policy.desired].pc = "next"
    BY <2>2, IdleFields DEF Jobs, Pcs
  <2> QED
    BY <1>1, <1>4, <2>1, <2>3, BeginCalm DEF BeginMutation, BeginApply
<1> QED
  BY <1>2, <1>3, <1>4 DEF Request

LEMMA StepCalm ==
  ASSUME JobsOK, RowsTyped, NEW x \in Slots, Step(x),
         ~ClaimConsumption(x), ~ClaimAttempt(x), ~Broadcast(x), ~SettleGrantReservation(x)
  PROVE  Calm /\ UNCHANGED <<ledger, attempt, turns>>
<1>1. job[x] \in Jobs /\ JobFacts(job[x])
  BY DEF JobsOK, JobOK
<1>2. UNCHANGED <<ledger, attempt, turns>>
  BY DEF Step, GateReadsPolicy, GateListsGrants, OpenTransaction, Acquire, NestedRead, SyncGrant,
     RevokeGrant, SyncRevocation, ReadRemovalPlan, ApplyRemoval, RunMutation, CommitApplyOutcome,
     Done, Became, rows
<1>3. ASSUME NEW n, job' = [job EXCEPT ![x] = n], n.kind = job[x].kind, n.key = job[x].key,
             n.pc \in {"list", "next", "open"}, job[x].pc \in {"gate", "list", "next", "open", "plan"},
             job[x].pc = "plan" => job[x].kind # "claim"
      PROVE  Calm
  <2>1. Follows(job[x], n)
    BY <1>1, <1>3 DEF Follows, Executing, Deciding, JobFacts
  <2> QED
    BY <1>3, <2>1, OneCalm
<1>4. CASE Done(x)
  BY <1>2, <1>4, DoneCalm DEF Done, Became
<1>5. CASE GateReadsPolicy(x)
  <2> DEFINE n == [job[x] EXCEPT !.pc = "list"]
  <2>1. n.kind = job[x].kind /\ n.key = job[x].key /\ n.pc = "list"
    BY <1>1 DEF Jobs
  <2>2. Done(x) \/ job' = [job EXCEPT ![x] = n]
    BY <1>1, <1>5 DEF GateReadsPolicy, JobsOK
  <2>3. job[x].pc = "gate"
    BY <1>5 DEF GateReadsPolicy
  <2> HIDE DEF n
  <2> QED
    BY <1>2, <1>3, <1>4, <2>1, <2>2, <2>3
<1>6. CASE GateListsGrants(x)
  <2> DEFINE found == {g \in Grants : Covers(g, job[x].key, job[x].asked)}
             n == [job[x] EXCEPT !.pc = "next", !.cands = found]
  <2>1. Done(x) \/ job' = [job EXCEPT ![x] = n]
    BY <1>1, <1>6 DEF GateListsGrants, JobsOK
  <2> HIDE DEF found
  <2>2. n.kind = job[x].kind /\ n.key = job[x].key /\ n.pc = "next"
    BY <1>1 DEF Jobs
  <2>3. job[x].pc = "list"
    BY <1>6 DEF GateListsGrants
  <2> HIDE DEF n
  <2> QED
    BY <1>2, <1>3, <1>4, <2>1, <2>2, <2>3
<1>7. CASE OpenTransaction(x)
  <2>1. now \in Nat /\ job[x].pc = "next"
    BY <1>7, LedgerAssumption DEF RowsTyped, OpenTransaction
  <2>2. CASE job[x].kind = "claim"
    <3>1. PICK g \in job[x].cands :
            job' = [job EXCEPT ![x] = Opened([job[x] EXCEPT !.cands = @ \ {g}], "claim", g)]
      BY <1>7, <2>2 DEF OpenTransaction
    <3> DEFINE j == [job[x] EXCEPT !.cands = @ \ {g}]
               n == Opened(j, "claim", g)
    <3>2. j \in Jobs /\ g \in Grants \cup {0} /\ g \in Grants /\ j.key = job[x].key
      BY <1>1 DEF Jobs
    <3> HIDE DEF j
    <3>3. "claim" \in Kinds
      BY DEF Kinds, OtherKinds
    <3>4. n.pc = "open" /\ n.key = j.key /\ n.kind = "claim"
      BY <2>1, <3>2, <3>3, OpenedFields
    <3>5. job' = [job EXCEPT ![x] = n]
      BY <3>1 DEF j
    <3> HIDE DEF n
    <3> QED
      BY <1>2, <1>3, <2>1, <2>2, <3>2, <3>4, <3>5
  <2>3. CASE job[x].kind # "claim"
    <3> DEFINE n == Opened(job[x], job[x].kind, job[x].grant)
    <3>1. job[x].kind \in Kinds /\ job[x].grant \in Grants \cup {0}
          /\ (job[x].kind \in {"claim", "settle", "revoke", "sync", "unbind"}
                => job[x].grant \in Grants)
      BY <1>1, <2>1, <2>3 DEF Jobs, JobFacts
    <3>2. n.kind = job[x].kind /\ n.key = job[x].key /\ n.pc = "open"
      BY <1>1, <2>1, <3>1, OpenedFields
    <3>3. job' = [job EXCEPT ![x] = n]
      BY <1>7, <2>3 DEF OpenTransaction
    <3> HIDE DEF n
    <3> QED
      BY <1>2, <1>3, <2>1, <3>2, <3>3
  <2> QED
    BY <2>2, <2>3
<1>8. CASE Acquire(x)
  <2>1. PICK l \in NextLocks(x) :
          job' = [job EXCEPT ![x] = ReadUnder(x, l)] /\ job[x].pc = "open" /\ lease' = lease
    BY <1>8 DEF Acquire
  <2> DEFINE n == ReadUnder(x, l)
  <2>2. job'[x] = n
    BY <2>1 DEF JobsOK
  <2>3. n.kind = job[x].kind /\ n.key = job[x].key /\ n.pc = "open"
    BY <2>1, <2>2, AcquireJob
  <2> HIDE DEF n
  <2> QED
    BY <1>2, <1>3, <2>1, <2>3 DEF n
<1>9. CASE NestedRead(x)
  <2> DEFINE n == [job[x] EXCEPT !.nested = FALSE]
  <2>1. n.kind = job[x].kind /\ n.key = job[x].key /\ n.pc = "open" /\ job[x].pc = "open"
    BY <1>1, <1>9 DEF Jobs, NestedRead
  <2>2. job' = [job EXCEPT ![x] = n]
    BY <1>9 DEF NestedRead
  <2> HIDE DEF n
  <2> QED
    BY <1>2, <1>3, <2>1, <2>2
<1>10. CASE RevokeGrant(x)
  <2> DEFINE n == Closed(job[x], "next", "unbind")
  <2>1. n.kind = "unbind" /\ n.pc = "next"
    BY <1>1, ClosedFields DEF Kinds, OtherKinds, Pcs
  <2>2. Done(x) \/ job' = [job EXCEPT ![x] = n]
    BY <1>10 DEF RevokeGrant, Became
  <2> HIDE DEF n
  <2>3. Follows(job[x], n)
    BY <2>1 DEF Follows, Executing, Deciding
  <2> QED
    BY <1>2, <1>4, <2>2, <2>3, OneCalm
<1>11. CASE ReadRemovalPlan(x)
  <2> DEFINE n == [job[x] EXCEPT !.pc = "next", !.planned = alias, !.plan = ActiveGrants]
  <2>1. n.kind = job[x].kind /\ n.key = job[x].key /\ n.pc = "next" /\ job[x].kind # "claim"
        /\ job[x].pc = "plan"
    BY <1>1, <1>11 DEF Jobs, JobFacts, ReadRemovalPlan
  <2>2. job' = [job EXCEPT ![x] = n]
    BY <1>11 DEF ReadRemovalPlan
  <2> HIDE DEF n
  <2> QED
    BY <1>2, <1>3, <2>1, <2>2
<1>12. CASE ApplyRemoval(x)
  <2> DEFINE c == Closed(job[x], "plan", "remove")
             n == [c EXCEPT !.tries = @ + 1]
  <2>1. c \in Jobs /\ c.kind = "remove" /\ c.pc = "plan"
    BY <1>1, ClosedFields DEF Kinds, LeaseKinds, Pcs
  <2>2. Done(x) \/ job' = [job EXCEPT ![x] = n]
    BY <1>12 DEF ApplyRemoval, Became
  <2> HIDE DEF c
  <2>3. n.kind = "remove" /\ n.pc = "plan"
    BY <2>1 DEF Jobs
  <2> HIDE DEF n
  <2>4. Follows(job[x], n)
    BY <2>3 DEF Follows, Executing, Deciding
  <2> QED
    BY <1>2, <1>4, <2>2, <2>4, OneCalm
<1>13. CASE SyncGrant(x) \/ SyncRevocation(x) \/ RunMutation(x) \/ CommitApplyOutcome(x)
  BY <1>4, <1>13 DEF SyncGrant, SyncRevocation, RunMutation, CommitApplyOutcome
<1> QED
  BY <1>5, <1>6, <1>7, <1>8, <1>9, <1>10, <1>11, <1>12, <1>13 DEF Step

LEMMA MoneyCalm ==
  ASSUME JobsOK, MoneyOK, Calm, UNCHANGED <<ledger, attempt>>
  PROVE  MoneyOK'
<1>1. \A g, k : IsLive(g, k)' = IsLive(g, k)
  BY DEF IsLive
<1>2. \A x \in Slots : Executing(job'[x]) => Executing(job[x]) /\ job'[x].key = job[x].key
  BY DEF Calm, Follows
<1>3. \A x \in Slots : job'[x].pc = "claimed" =>
        job[x].pc = "claimed" /\ job'[x].key = job[x].key /\ job'[x].grant = job[x].grant
  BY DEF Calm, Follows
<1>4. \A x \in Slots : Executing(job'[x]) => attempt'[job'[x].key] = "broadcasting"
  BY <1>2 DEF MoneyOK
<1>5. \A x, y \in Slots :
        Executing(job'[x]) /\ Executing(job'[y]) /\ job'[x].key = job'[y].key => x = y
  BY <1>2 DEF MoneyOK
<1>6. \A x \in Slots : job'[x].pc = "claimed" => ledger'[job'[x].grant][job'[x].key] # None
  BY <1>3 DEF MoneyOK
<1>7. \A g \in Grants, k \in Keys :
        ledger'[g][k] # None /\ ledger'[g][k].released => attempt'[k] = "cancelled"
  BY DEF MoneyOK
<1>8. \A k \in Keys : attempt'[k] \in {"broadcasting", "final"} => \E g \in Grants : IsLive(g, k)'
  BY <1>1 DEF MoneyOK
<1> QED
  BY <1>4, <1>5, <1>6, <1>7, <1>8 DEF MoneyOK, Executing

LEMMA AskingFinite ==
  ASSUME NEW k
  PROVE  IsFiniteSet(Asking(k)) /\ Cardinality(Asking(k)) \in Nat
<1>1. Asking(k) \subseteq Slots /\ IsFiniteSet(Slots)
  BY LedgerAssumption DEF Asking
<1> QED
  BY <1>1, FS_Subset, FS_CardinalityType

LEMMA CountShrinks ==
  ASSUME RowsTyped, CountOK, turns' = turns,
         \A k \in Keys : /\ \A g \in Grants : IsLive(g, k)' => IsLive(g, k)
                         /\ Asking(k)' \subseteq Asking(k)
  PROVE  CountOK'
<1> SUFFICES ASSUME NEW k \in Keys
             PROVE  /\ IsFiniteSet(Live(k)')
                    /\ Cardinality(Live(k)') + Cardinality(Asking(k)') <= turns[k]
  BY DEF CountOK
<1>1. Live(k)' \subseteq Live(k) /\ Asking(k)' \subseteq Asking(k)
  BY DEF Live
<1>2. IsFiniteSet(Live(k)) /\ Cardinality(Live(k)) + Cardinality(Asking(k)) <= turns[k]
  BY DEF CountOK
<1>3. IsFiniteSet(Asking(k)) /\ Cardinality(Asking(k)) \in Nat
  BY AskingFinite
<1>4. IsFiniteSet(Live(k)') /\ Cardinality(Live(k)') <= Cardinality(Live(k))
  BY <1>1, <1>2, FS_Subset
<1>5. IsFiniteSet(Asking(k)') /\ Cardinality(Asking(k)') <= Cardinality(Asking(k))
  BY <1>1, <1>3, FS_Subset
<1>6. /\ Cardinality(Live(k)) \in Nat /\ Cardinality(Live(k)') \in Nat
      /\ Cardinality(Asking(k)') \in Nat /\ turns[k] \in Nat
  BY <1>2, <1>4, <1>5, FS_CardinalityType DEF RowsTyped
<1> QED
  BY <1>2, <1>3, <1>4, <1>5, <1>6

LEMMA CountCalm ==
  ASSUME RowsTyped, CountOK, Calm, UNCHANGED <<ledger, turns>>
  PROVE  CountOK'
<1>1. \A k \in Keys : Asking(k)' \subseteq Asking(k)
  BY DEF Calm, Follows, Asking, Deciding
<1>2. \A g, k : IsLive(g, k)' = IsLive(g, k)
  BY DEF IsLive
<1> QED
  BY <1>1, <1>2, CountShrinks

\* A new claim: one more live, one fewer that may still claim.
LEMMA ClaimMoney ==
  ASSUME JobsOK, RowsTyped, MoneyOK, CountOK, NEW x \in Slots, ClaimConsumption(x)
  PROVE  MoneyOK' /\ CountOK'
<1> DEFINE g == job[x].grant
           k == job[x].key
<1>1. job[x].pc = "open" /\ job[x].kind = "claim" /\ g \in Grants /\ k \in Keys
      /\ job[x] \in Jobs
  BY DEF JobsOK, JobOK, JobFacts, ClaimConsumption, Ready
<1>2. UNCHANGED <<attempt, turns>> /\ lease' = lease
  BY DEF ClaimConsumption, AfterClaim, Became
<1>3. Deciding(job[x]) /\ ~Executing(job[x])
  BY <1>1 DEF Deciding, Executing
<1>4. ASSUME NEW n, job' = [job EXCEPT ![x] = n]
      PROVE  job'[x] = n /\ \A y \in Slots \ {x} : job'[y] = job[y]
  BY <1>4 DEF JobsOK
<1>5. Follows(job[x], Idle) /\ Follows(job[x], Refused(x))
  BY <1>1, <1>3, IdleFields, AfterClaimFields DEF Follows, Executing, Deciding
<1>6. ASSUME job' = [job EXCEPT ![x] = Idle] \/ job' = [job EXCEPT ![x] = Refused(x)],
             ledger' = ledger
      PROVE  MoneyOK' /\ CountOK'
  BY <1>2, <1>5, <1>6, OneCalm, MoneyCalm, CountCalm
<1>7. /\ ~Executing(Won(x)) /\ ~Deciding(Won(x)) /\ Won(x).pc = "claimed"
      /\ Won(x).grant = g /\ Won(x).key = k
  BY <1>1, AfterClaimFields DEF Executing, Deciding
<1>8. ~Executing(Idle) /\ ~Deciding(Idle) /\ Idle.pc # "claimed"
  BY IdleFields DEF Executing, Deciding
<1>9. ASSUME ledger[g][k] # None, ledger' = ledger, job' = [job EXCEPT ![x] = Won(x)]
      PROVE  MoneyOK' /\ CountOK'
  <2>1. job'[x] = Won(x) /\ \A y \in Slots \ {x} : job'[y] = job[y]
    BY <1>4, <1>9
  <2>2. MoneyOK'
    BY <1>2, <1>7, <1>9, <2>1 DEF MoneyOK, IsLive, Executing
  <2>3. \A i \in Keys : Asking(i)' \subseteq Asking(i)
    BY <1>7, <2>1 DEF Asking, Deciding
  <2>4. CountOK'
    BY <1>2, <1>9, <2>3, CountShrinks DEF IsLive
  <2> QED
    BY <2>2, <2>4
<1>10. ASSUME ledger[g][k] = None, ledger' = [ledger EXCEPT ![g][k] = NewClaim(x)],
              job' = [job EXCEPT ![x] = Won(x)] \/ job' = [job EXCEPT ![x] = Idle]
       PROVE  MoneyOK' /\ CountOK'
  <2>1. /\ job'[x] \in {Won(x), Idle} /\ \A y \in Slots \ {x} : job'[y] = job[y]
    BY <1>4, <1>10
  <2>2. /\ ledger'[g][k] = NewClaim(x)
        /\ \A h \in Grants, i \in Keys : h # g \/ i # k => ledger'[h][i] = ledger[h][i]
    BY <1>1, <1>10 DEF RowsTyped
  <2>3. NewClaim(x) # None /\ ~NewClaim(x).released
    <3>1. NewClaim(x) \in Claims
      BY <1>1, LedgerAssumption DEF NewClaim, Claims, Jobs
    <3>2. ~NewClaim(x).released
      BY DEF NewClaim
    <3> QED
      BY <3>1, <3>2, LedgerAssumption
  <2>4. \A h \in Grants, i \in Keys : IsLive(h, i)' <=> IsLive(h, i) \/ (h = g /\ i = k)
    BY <1>10, <2>2, <2>3 DEF IsLive
  <2>5. MoneyOK'
    <3>1. \A h \in Grants, i \in Keys :
            ledger'[h][i] # None /\ ledger'[h][i].released => attempt'[i] = "cancelled"
      BY <1>2, <2>2, <2>3 DEF MoneyOK
    <3>2. \A y \in Slots : Executing(job'[y]) => y # x /\ job'[y] = job[y]
      BY <1>7, <1>8, <2>1
    <3>3. \A y \in Slots : Executing(job'[y]) => attempt'[job'[y].key] = "broadcasting"
      BY <1>2, <3>2 DEF MoneyOK
    <3>4. \A y, z \in Slots :
            Executing(job'[y]) /\ Executing(job'[z]) /\ job'[y].key = job'[z].key => y = z
      BY <3>2 DEF MoneyOK
    <3>5. \A y \in Slots : job'[y].pc = "claimed" => ledger'[job'[y].grant][job'[y].key] # None
      <4> SUFFICES ASSUME NEW y \in Slots, job'[y].pc = "claimed"
                   PROVE  ledger'[job'[y].grant][job'[y].key] # None
        OBVIOUS
      <4>1. CASE y = x
        BY <1>7, <1>8, <2>1, <2>2, <2>3, <4>1
      <4>2. CASE y # x
        <5>1. job'[y] = job[y] /\ job[y].grant \in Grants /\ job[y].key \in Keys
              /\ ledger[job[y].grant][job[y].key] # None
          BY <2>1, <4>2 DEF JobsOK, JobOK, JobFacts, MoneyOK
        <5> QED
          BY <2>2, <2>3, <5>1
      <4> QED
        BY <4>1, <4>2
    <3>6. \A i \in Keys : attempt'[i] \in {"broadcasting", "final"} => \E h \in Grants : IsLive(h, i)'
      BY <1>2, <2>4 DEF MoneyOK
    <3> QED
      BY <3>1, <3>3, <3>4, <3>5, <3>6 DEF MoneyOK, Executing
  <2>6. CountOK'
    <3> SUFFICES ASSUME NEW i \in Keys
                 PROVE  /\ IsFiniteSet(Live(i)')
                        /\ Cardinality(Live(i)') + Cardinality(Asking(i)') <= turns'[i]
      BY DEF CountOK
    <3>1. /\ IsFiniteSet(Live(i)) /\ Cardinality(Live(i)) \in Nat /\ turns[i] \in Nat
          /\ Cardinality(Live(i)) + Cardinality(Asking(i)) <= turns[i] /\ turns' = turns
      BY <1>2, FS_CardinalityType DEF CountOK, RowsTyped
    <3>2. IsFiniteSet(Asking(i)) /\ Cardinality(Asking(i)) \in Nat
      BY AskingFinite
    <3>3. Asking(i)' \subseteq Asking(i) \ {x}
      BY <1>7, <1>8, <2>1 DEF Asking, Deciding
    <3>4. CASE i = k
      <4>1. Live(i)' \subseteq Live(i) \cup {g}
        BY <2>4, <3>4 DEF Live
      <4>2. IsFiniteSet(Live(i) \cup {g}) /\ Cardinality(Live(i) \cup {g}) <= Cardinality(Live(i)) + 1
            /\ Cardinality(Live(i) \cup {g}) \in Nat
        <5>1. IsFiniteSet(Live(i) \cup {g})
              /\ Cardinality(Live(i) \cup {g}) =
                   IF g \in Live(i) THEN Cardinality(Live(i)) ELSE Cardinality(Live(i)) + 1
          BY <3>1, FS_AddElement
        <5> QED
          BY <3>1, <5>1
      <4>3. IsFiniteSet(Live(i)') /\ Cardinality(Live(i)') <= Cardinality(Live(i) \cup {g})
        BY <4>1, <4>2, FS_Subset
      <4>4. x \in Asking(i)
        BY <1>3, <3>4 DEF Asking
      <4>5. IsFiniteSet(Asking(i) \ {x}) /\ Cardinality(Asking(i) \ {x}) = Cardinality(Asking(i)) - 1
        BY <3>2, <4>4, FS_RemoveElement
      <4>6. IsFiniteSet(Asking(i)') /\ Cardinality(Asking(i)') <= Cardinality(Asking(i)) - 1
        BY <3>3, <4>5, FS_Subset
      <4>7. Cardinality(Live(i)') \in Nat /\ Cardinality(Asking(i)') \in Nat
        BY <4>3, <4>6, FS_CardinalityType
      <4> QED
        BY <3>1, <3>2, <4>2, <4>3, <4>6, <4>7
    <3>5. CASE i # k
      <4>1. Live(i)' \subseteq Live(i) /\ Asking(i)' \subseteq Asking(i)
        BY <2>4, <3>3, <3>5 DEF Live
      <4>2. IsFiniteSet(Live(i)') /\ Cardinality(Live(i)') <= Cardinality(Live(i))
        BY <3>1, <4>1, FS_Subset
      <4>3. IsFiniteSet(Asking(i)') /\ Cardinality(Asking(i)') <= Cardinality(Asking(i))
        BY <3>2, <4>1, FS_Subset
      <4>4. Cardinality(Live(i)') \in Nat /\ Cardinality(Asking(i)') \in Nat
        BY <4>2, <4>3, FS_CardinalityType
      <4> QED
        BY <3>1, <3>2, <4>2, <4>3, <4>4
    <3> QED
      BY <3>4, <3>5
  <2> QED
    BY <2>5, <2>6
<1>11. \/ ledger[g][k] # None /\ ledger' = ledger /\ \E c \in BOOLEAN : AfterClaim(x, c)
       \/ ledger[g][k] = None /\ ledger' = [ledger EXCEPT ![g][k] = NewClaim(x)] /\ AfterClaim(x, TRUE)
       \/ ledger' = ledger /\ AfterClaim(x, FALSE)
  BY DEF ClaimConsumption
<1>12. CASE ledger[g][k] # None /\ ledger' = ledger /\ \E c \in BOOLEAN : AfterClaim(x, c)
  <2>1. PICK c \in BOOLEAN : AfterClaim(x, c)
    BY <1>12
  <2>2. \/ job' = [job EXCEPT ![x] = Idle]
        \/ job' = [job EXCEPT ![x] = Refused(x)]
        \/ job' = [job EXCEPT ![x] = Won(x)]
    BY <1>1, <1>2, <2>1, AfterClaimJob
  <2> QED
    BY <1>6, <1>9, <1>12, <2>2
<1>13. CASE ledger[g][k] = None /\ ledger' = [ledger EXCEPT ![g][k] = NewClaim(x)] /\ AfterClaim(x, TRUE)
  BY <1>1, <1>2, <1>10, <1>13, AfterClaimJob
<1>14. CASE ledger' = ledger /\ AfterClaim(x, FALSE)
  BY <1>1, <1>2, <1>6, <1>14, AfterClaimJob
<1> QED
  BY <1>11, <1>12, <1>13, <1>14

\* A turn begins: it may claim once.
LEMMA BeginTurnMoney ==
  ASSUME JobsOK, RowsTyped, MoneyOK, CountOK, NEW x \in Slots, BeginTurn(x)
  PROVE  MoneyOK' /\ CountOK'
<1>1. PICK k \in Keys : Begin(x, "claim", [Idle EXCEPT !.pc = "gate", !.key = k, !.asked = now])
  BY DEF BeginTurn
<1> DEFINE j == [Idle EXCEPT !.pc = "gate", !.key = k, !.asked = now]
           n == [j EXCEPT !.kind = "claim"]
<1>2. j.key = k /\ n.pc = "gate" /\ n.kind = "claim" /\ n.key = k
  BY IdleFields DEF Jobs
<1>3. job[x].pc = "idle" /\ job' = [job EXCEPT ![x] = n]
      /\ turns' = [turns EXCEPT ![k] = turns[k] + 1]
  BY <1>1, <1>2 DEF Begin
<1>4. UNCHANGED <<ledger, attempt>>
  BY DEF BeginTurn, rows
<1> HIDE DEF n
<1>5. job'[x] = n /\ \A y \in Slots \ {x} : job'[y] = job[y]
  BY <1>3 DEF JobsOK
<1>6. ~Executing(n) /\ n.pc # "claimed"
  BY <1>2 DEF Executing
<1>7. MoneyOK'
  BY <1>4, <1>5, <1>6 DEF MoneyOK, IsLive, Executing
<1>8. CountOK'
  <2> SUFFICES ASSUME NEW i \in Keys
               PROVE  /\ IsFiniteSet(Live(i)')
                      /\ Cardinality(Live(i)') + Cardinality(Asking(i)') <= turns'[i]
    BY DEF CountOK
  <2>1. Live(i)' = Live(i)
    BY <1>4 DEF Live, IsLive
  <2>2. /\ IsFiniteSet(Live(i)) /\ Cardinality(Live(i)) \in Nat /\ turns[i] \in Nat
        /\ Cardinality(Live(i)) + Cardinality(Asking(i)) <= turns[i]
    BY FS_CardinalityType DEF CountOK, RowsTyped
  <2>3. IsFiniteSet(Asking(i)) /\ Cardinality(Asking(i)) \in Nat
    BY AskingFinite
  <2>4. CASE i = k
    <3>1. Asking(i)' \subseteq Asking(i) \cup {x}
      BY <1>5 DEF Asking, Deciding
    <3>2. IsFiniteSet(Asking(i) \cup {x})
          /\ Cardinality(Asking(i) \cup {x}) =
               IF x \in Asking(i) THEN Cardinality(Asking(i)) ELSE Cardinality(Asking(i)) + 1
      BY <2>3, FS_AddElement
    <3>3. IsFiniteSet(Asking(i)') /\ Cardinality(Asking(i)') <= Cardinality(Asking(i) \cup {x})
      BY <3>1, <3>2, FS_Subset
    <3>4. Cardinality(Asking(i)') \in Nat /\ turns'[i] = turns[i] + 1
      BY <1>3, <2>4, <3>3, FS_CardinalityType DEF RowsTyped
    <3> QED
      BY <2>1, <2>2, <2>3, <3>2, <3>3, <3>4
  <2>5. CASE i # k
    <3>1. Asking(i)' \subseteq Asking(i)
      BY <1>2, <1>5, <2>5 DEF Asking, Deciding
    <3>2. IsFiniteSet(Asking(i)') /\ Cardinality(Asking(i)') <= Cardinality(Asking(i))
      BY <2>3, <3>1, FS_Subset
    <3>3. Cardinality(Asking(i)') \in Nat /\ turns'[i] = turns[i]
      BY <1>3, <2>5, <3>2, FS_CardinalityType DEF RowsTyped
    <3> QED
      BY <2>1, <2>2, <2>3, <3>2, <3>3
  <2> QED
    BY <2>4, <2>5
<1> QED
  BY <1>7, <1>8

\* The winner of a preview holds a live claim, because nobody has executed it.
LEMMA AttemptMoney ==
  ASSUME JobsOK, RowsTyped, MoneyOK, CountOK, NEW x \in Slots, ClaimAttempt(x)
  PROVE  MoneyOK' /\ CountOK'
<1> DEFINE g == job[x].grant
           k == job[x].key
           n == [job[x] EXCEPT !.pc = "execute"]
<1>1. job[x] \in Jobs /\ job[x].pc = "claimed" /\ g \in Grants /\ k \in Keys /\ job[x].kind = "claim"
  BY DEF JobsOK, JobOK, JobFacts, ClaimAttempt
<1>2. UNCHANGED <<ledger, turns>>
  BY DEF ClaimAttempt, Done, Became
<1>3. CASE job' = [job EXCEPT ![x] = Idle] /\ attempt' = attempt
  BY <1>2, <1>3, DoneCalm, MoneyCalm, CountCalm
<1>4. CASE /\ attempt[k] = "previewed" /\ attempt' = [attempt EXCEPT ![k] = "broadcasting"]
           /\ job' = [job EXCEPT ![x] = n]
  <2>1. n.pc = "execute" /\ n.key = k /\ n.kind = "claim"
    BY <1>1 DEF Jobs
  <2> HIDE DEF n
  <2>2. job'[x] = n /\ \A y \in Slots \ {x} : job'[y] = job[y]
    BY <1>4 DEF JobsOK
  <2>3. IsLive(g, k)
    BY <1>1, <1>4 DEF MoneyOK, IsLive
  <2>4. attempt'[k] = "broadcasting" /\ \A i \in Keys : i # k => attempt'[i] = attempt[i]
    BY <1>1, <1>4 DEF RowsTyped
  <2>5. \A y \in Slots : y # x /\ Executing(job[y]) => job[y].key # k
    BY <1>4 DEF MoneyOK
  <2>6. \A y \in Slots : Executing(job[y]) => job[y].key \in Keys
    BY DEF JobsOK, JobOK, JobFacts, Executing
  <2>7. \A y \in Slots : Executing(job'[y]) => attempt'[job'[y].key] = "broadcasting"
    BY <2>1, <2>2, <2>4, <2>5, <2>6 DEF MoneyOK
  <2>8. \A y, z \in Slots :
          Executing(job'[y]) /\ Executing(job'[z]) /\ job'[y].key = job'[z].key => y = z
    BY <2>1, <2>2, <2>5 DEF MoneyOK
  <2>9. \A y \in Slots : job'[y].pc = "claimed" => ledger'[job'[y].grant][job'[y].key] # None
    BY <1>2, <2>1, <2>2 DEF MoneyOK
  <2>10. \A i \in Keys : attempt'[i] \in {"broadcasting", "final"} => \E h \in Grants : IsLive(h, i)'
    BY <1>1, <1>2, <2>3, <2>4 DEF MoneyOK, IsLive
  <2>11. \A h \in Grants, i \in Keys :
           ledger'[h][i] # None /\ ledger'[h][i].released => attempt'[i] = "cancelled"
    BY <1>2, <1>4, <2>4 DEF MoneyOK
  <2>12. MoneyOK'
    BY <2>7, <2>8, <2>9, <2>10, <2>11 DEF MoneyOK, Executing
  <2>13. \A i \in Keys : Asking(i)' \subseteq Asking(i)
    BY <2>1, <2>2 DEF Asking, Deciding
  <2>14. CountOK'
    BY <1>2, <2>13, CountShrinks DEF IsLive
  <2> QED
    BY <2>12, <2>14
<1> QED
  BY <1>1, <1>3, <1>4 DEF ClaimAttempt, Done, Became, JobsOK

\* It ends final, or is settled: only then is its claim released.
LEMMA BroadcastMoney ==
  ASSUME JobsOK, RowsTyped, MoneyOK, CountOK, NEW x \in Slots, Broadcast(x)
  PROVE  MoneyOK' /\ CountOK'
<1> DEFINE k == job[x].key
           n == [job[x] EXCEPT !.pc = "next", !.kind = "settle"]
<1>1. job[x] \in Jobs /\ job[x].pc = "execute" /\ k \in Keys /\ Executing(job[x])
  BY DEF JobsOK, JobOK, JobFacts, Broadcast, Executing
<1>2. UNCHANGED <<ledger, turns>>
  BY DEF Broadcast, Done, Became
<1>3. CASE attempt' = attempt /\ job' = [job EXCEPT ![x] = n]
  <2>1. n.pc = "next" /\ n.key = k /\ n.kind = "settle"
    BY <1>1 DEF Jobs
  <2> HIDE DEF n
  <2>2. Follows(job[x], n)
    BY <1>1, <2>1 DEF Follows, Executing, Deciding
  <2> QED
    BY <1>2, <1>3, <2>2, OneCalm, MoneyCalm, CountCalm
<1>4. CASE attempt' = [attempt EXCEPT ![k] = "final"] /\ job' = [job EXCEPT ![x] = Idle]
  <2>1. job'[x] = Idle /\ \A y \in Slots \ {x} : job'[y] = job[y]
    BY <1>4 DEF JobsOK
  <2>2. attempt'[k] = "final" /\ \A i \in Keys : i # k => attempt'[i] = attempt[i]
    BY <1>1, <1>4 DEF RowsTyped
  <2>3. attempt[k] = "broadcasting"
    BY <1>1 DEF MoneyOK
  <2>4. ~Executing(Idle) /\ Idle.pc # "claimed"
    BY IdleFields DEF Executing
  <2>5. \A y \in Slots : Executing(job'[y]) => y # x /\ job'[y] = job[y] /\ job[y].key # k
                                              /\ job[y].key \in Keys
    BY <1>1, <2>1, <2>4 DEF MoneyOK, JobsOK, JobOK, JobFacts, Executing
  <2>6. \A y \in Slots : Executing(job'[y]) => attempt'[job'[y].key] = "broadcasting"
    BY <2>2, <2>5 DEF MoneyOK
  <2>7. \A y, z \in Slots :
          Executing(job'[y]) /\ Executing(job'[z]) /\ job'[y].key = job'[z].key => y = z
    BY <2>5 DEF MoneyOK
  <2>8. \A y \in Slots : job'[y].pc = "claimed" => ledger'[job'[y].grant][job'[y].key] # None
    BY <1>2, <2>1, <2>4 DEF MoneyOK
  <2>9. \A i \in Keys : attempt'[i] \in {"broadcasting", "final"} => \E h \in Grants : IsLive(h, i)'
    BY <1>2, <2>2, <2>3 DEF MoneyOK, IsLive
  <2>10. \A h \in Grants, i \in Keys :
           ledger'[h][i] # None /\ ledger'[h][i].released => attempt'[i] = "cancelled"
    BY <1>2, <2>2, <2>3 DEF MoneyOK
  <2>11. MoneyOK'
    BY <2>6, <2>7, <2>8, <2>9, <2>10 DEF MoneyOK, Executing
  <2> QED
    BY <1>2, <1>4, <2>11, DoneCalm, CountCalm
<1> QED
  BY <1>1, <1>3, <1>4 DEF Broadcast, Done, Became, JobsOK

\* The executor of a preview is the only one: no turn that still waits for it
\* is told that its claim was released under a running transfer.
LEMMA SettleMoney ==
  ASSUME JobsOK, RowsTyped, MoneyOK, CountOK, NEW x \in Slots, SettleGrantReservation(x)
  PROVE  MoneyOK' /\ CountOK'
<1> DEFINE g == job[x].grant
           k == job[x].key
           c == IF ledger[g][k] = None THEN None ELSE [ledger[g][k] EXCEPT !.released = TRUE]
<1>1. /\ job[x] \in Jobs /\ g \in Grants /\ k \in Keys /\ Executing(job[x])
      /\ job' = [job EXCEPT ![x] = Idle]
  BY DEF JobsOK, JobOK, JobFacts, SettleGrantReservation, Ready, Executing, Done, Became
<1>2. UNCHANGED turns
  BY DEF SettleGrantReservation, Done, Became
<1>3. attempt[k] = "broadcasting"
  BY <1>1 DEF MoneyOK
<1>4. /\ attempt' = [attempt EXCEPT ![k] = "cancelled"]
      /\ ledger' = [ledger EXCEPT ![g][k] = c]
  BY <1>3 DEF SettleGrantReservation
<1>5. job'[x] = Idle /\ \A y \in Slots \ {x} : job'[y] = job[y]
  BY <1>1 DEF JobsOK
<1>6. attempt'[k] = "cancelled" /\ \A i \in Keys : i # k => attempt'[i] = attempt[i]
  BY <1>1, <1>4 DEF RowsTyped
<1>7. /\ ledger'[g][k] = c
      /\ \A h \in Grants, i \in Keys : h # g \/ i # k => ledger'[h][i] = ledger[h][i]
  BY <1>1, <1>4 DEF RowsTyped
<1>8. (c = None <=> ledger[g][k] = None) /\ (c # None => c.released)
  <2>1. CASE ledger[g][k] = None
    BY <2>1
  <2>2. CASE ledger[g][k] # None
    <3>1. PICK was \in Claims : was = ledger[g][k]
      BY <1>1, <2>2 DEF RowsTyped
    <3>2. [was EXCEPT !.released = TRUE] \in Claims /\ [was EXCEPT !.released = TRUE].released
      BY DEF Claims
    <3> QED
      BY <2>2, <3>1, <3>2, LedgerAssumption
  <2> QED
    BY <2>1, <2>2
<1> HIDE DEF c
<1>9. \A h \in Grants, i \in Keys : IsLive(h, i)' => IsLive(h, i)
  BY <1>7, <1>8 DEF IsLive
<1>10. \A h \in Grants, i \in Keys : i # k => (IsLive(h, i)' <=> IsLive(h, i))
  BY <1>7 DEF IsLive
<1>11. ~Executing(Idle) /\ ~Deciding(Idle) /\ Idle.pc # "claimed"
  BY IdleFields DEF Executing, Deciding
<1>12. \A y \in Slots : Executing(job'[y]) =>
         y # x /\ job'[y] = job[y] /\ job[y].key # k /\ job[y].key \in Keys
  BY <1>1, <1>5, <1>11 DEF MoneyOK, JobsOK, JobOK, JobFacts, Executing
<1>13. \A y \in Slots : Executing(job'[y]) => attempt'[job'[y].key] = "broadcasting"
  BY <1>6, <1>12 DEF MoneyOK
<1>14. \A y, z \in Slots :
         Executing(job'[y]) /\ Executing(job'[z]) /\ job'[y].key = job'[z].key => y = z
  BY <1>12 DEF MoneyOK
<1>15. \A y \in Slots : job'[y].pc = "claimed" => ledger'[job'[y].grant][job'[y].key] # None
  <2> SUFFICES ASSUME NEW y \in Slots, job'[y].pc = "claimed"
               PROVE  ledger'[job'[y].grant][job'[y].key] # None
    OBVIOUS
  <2>1. job'[y] = job[y] /\ job[y].grant \in Grants /\ job[y].key \in Keys
        /\ ledger[job[y].grant][job[y].key] # None
    BY <1>5, <1>11 DEF JobsOK, JobOK, JobFacts, MoneyOK
  <2> QED
    BY <1>7, <1>8, <2>1
<1>16. \A i \in Keys : attempt'[i] \in {"broadcasting", "final"} => \E h \in Grants : IsLive(h, i)'
  BY <1>6, <1>10 DEF MoneyOK
<1>17. \A h \in Grants, i \in Keys :
         ledger'[h][i] # None /\ ledger'[h][i].released => attempt'[i] = "cancelled"
  BY <1>6, <1>7 DEF MoneyOK
<1>18. MoneyOK'
  BY <1>13, <1>14, <1>15, <1>16, <1>17 DEF MoneyOK, Executing
<1>19. \A i \in Keys : Asking(i)' \subseteq Asking(i)
  BY <1>5, <1>11 DEF Asking, Deciding
<1>20. CountOK'
  BY <1>2, <1>9, <1>19, CountShrinks
<1> QED
  BY <1>18, <1>20

\* The user and the clock touch no reservation.
LEMMA DecideMoney ==
  ASSUME JobsOK, RowsTyped, MoneyOK, CountOK, Tick \/ \E k \in Keys : UserDecides(k)
  PROVE  MoneyOK' /\ CountOK'
<1>1. UNCHANGED <<job, ledger, turns>>
  BY DEF Tick, UserDecides, rows
<1>2. Calm
  BY <1>1 DEF Calm, Follows
<1>3. CASE UNCHANGED attempt
  BY <1>1, <1>2, <1>3, MoneyCalm, CountCalm
<1>4. ASSUME NEW k \in Keys, attempt[k] = "previewed", attempt' = [attempt EXCEPT ![k] = "user"]
      PROVE  MoneyOK'
  <2>1. attempt'[k] = "user" /\ \A i \in Keys : i # k => attempt'[i] = attempt[i]
    BY <1>4 DEF RowsTyped
  <2>2. \A x \in Slots : Executing(job[x]) => job[x].key \in Keys
    BY DEF JobsOK, JobOK, JobFacts, Executing
  <2>3. \A x \in Slots : Executing(job[x]) => attempt'[job[x].key] = "broadcasting"
    BY <1>4, <2>1, <2>2 DEF MoneyOK
  <2>4. \A h \in Grants, i \in Keys :
          ledger[h][i] # None /\ ledger[h][i].released => attempt'[i] = "cancelled"
    BY <1>4, <2>1 DEF MoneyOK
  <2>5. \A i \in Keys : attempt'[i] \in {"broadcasting", "final"} => \E h \in Grants : IsLive(h, i)
    BY <2>1 DEF MoneyOK
  <2> QED
    BY <1>1, <2>3, <2>4, <2>5 DEF MoneyOK, IsLive, Executing
<1>5. ASSUME NEW k \in Keys, UserDecides(k) PROVE MoneyOK' /\ CountOK'
  BY <1>1, <1>2, <1>4, <1>5, CountCalm DEF UserDecides
<1> QED
  BY <1>3, <1>5 DEF Tick, rows

-----------------------------------------------------------------------------
(* The inductive invariant                                                 *)

\* A turn that is granted a lock knows what it reads under it.
LEMMA AcquireKnows ==
  ASSUME JobsOK, RowsTyped, Exclusion, Knows, NEW x \in Slots, Acquire(x)
  PROVE  Knows'
<1>1. PICK l \in NextLocks(x) :
        job' = [job EXCEPT ![x] = ReadUnder(x, l)] /\ job[x].pc = "open" /\ lease' = lease
  BY DEF Acquire
<1>2. UNCHANGED <<grants, policy>>
  BY DEF Acquire, rows
<1>3. \A y \in Slots \ {x} : job'[y] = job[y]
  BY <1>1 DEF JobsOK
<1>4. \A y \in Slots : y # x => KnowsOf(job[y])'
  BY <1>2, <1>3 DEF Knows, KnowsOf, Elder, PolicyVerified
<1> DEFINE n == job'[x]
<1>5. /\ n.held = job[x].held \cup {l} /\ n.pc = "open" /\ n.kind = job[x].kind
      /\ n.grant = job[x].grant /\ n.cands = job[x].cands /\ n.asked = job[x].asked
      /\ n.seen # job[x].seen => n.seen = PolicyVerified
      /\ n.row = IF l = Row(job[x].grant) /\ job[x].kind \in OtherKinds
                   THEN grants[job[x].grant] ELSE job[x].row
  BY <1>1, AcquireJob
<1>6. KnowsOf(job[x])
  BY DEF Knows
<1>7. "claim" \in OtherKinds
  BY DEF OtherKinds
<1>8. n.kind = "claim" /\ Row(n.grant) \in n.held => n.row = grants[n.grant]
  BY <1>1, <1>5, <1>6, <1>7 DEF KnowsOf
<1>9. n.kind = "claim" /\ n.seen => PolicyVerified
  <2>1. n.seen \in BOOLEAN /\ job[x].seen \in BOOLEAN
    BY <1>1, AcquireJob DEF JobsOK, Jobs
  <2>2. PolicyVerified \in BOOLEAN
    BY DEF PolicyVerified
  <2>3. job[x].kind = "claim" /\ job[x].seen => PolicyVerified
    BY <1>1, <1>6 DEF KnowsOf
  <2> QED
    BY <1>5, <2>1, <2>2, <2>3
<1>10. KnowsOf(job[x])'
  BY <1>1, <1>2, <1>5, <1>6, <1>8, <1>9 DEF KnowsOf, Elder, PolicyVerified
<1> QED
  BY <1>4, <1>10 DEF Knows

IInv == JobsOK /\ RowsTyped /\ Exclusion /\ Knows /\ MoneyOK /\ CountOK

LEMMA InitOK == ASSUME Init PROVE IInv
<1>1. \A x \in Slots : job[x] = Idle
  BY DEF Init
<1>2. JobsOK
  BY <1>1, IdleFields, IdleOK DEF Init, JobsOK, LeaseOK
<1>3. RowsTyped
  <2>1. NoRow \in GrantRows
    BY DEF NoRow, GrantRows
  <2>2. [state |-> "active", bound |-> TRUE, created |-> 0] \in GrantRows
    BY DEF GrantRows
  <2>3. grants \in [Grants -> GrantRows]
    BY <2>1, <2>2 DEF Init
  <2>4. ledger \in [Grants -> [Keys -> Claims \cup {None}]]
    BY DEF Init
  <2>5. policy \in [desired : Nat, applied : Nat, hashes : BOOLEAN]
    BY DEF Init
  <2>6. now \in 0..MaxTime /\ started \in 0..MaxJobs
    BY LedgerAssumption DEF Init
  <2> QED
    BY <2>3, <2>4, <2>5, <2>6 DEF Init, RowsTyped
<1>4. Exclusion /\ Knows
  BY <1>1, IdleFields DEF Exclusion, Knows, KnowsOf
<1>5. \A g \in Grants, k \in Keys : ledger[g][k] = None
  BY DEF Init
<1>6. ~Executing(Idle) /\ ~Deciding(Idle) /\ Idle.pc # "claimed"
  BY IdleFields DEF Executing, Deciding
<1>7. MoneyOK
  BY <1>1, <1>5, <1>6 DEF Init, MoneyOK
<1>8. CountOK
  <2> SUFFICES ASSUME NEW k \in Keys
               PROVE  /\ IsFiniteSet(Live(k))
                      /\ Cardinality(Live(k)) + Cardinality(Asking(k)) <= turns[k]
    BY DEF CountOK
  <2>1. Live(k) = {} /\ Asking(k) = {}
    BY <1>1, <1>5, <1>6 DEF Live, IsLive, Asking
  <2>2. IsFiniteSet({}) /\ Cardinality({}) = 0
    BY FS_EmptySet
  <2>3. turns[k] = 0
    BY DEF Init
  <2> QED
    BY <2>1, <2>2, <2>3
<1> QED
  BY <1>2, <1>3, <1>4, <1>7, <1>8 DEF IInv

LEMMA RequestKeeps ==
  ASSUME IInv, NEW x \in Slots, Request(x)
  PROVE  IInv'
<1>1. JobsOK /\ RowsTyped /\ Exclusion /\ Knows /\ MoneyOK /\ CountOK
  BY DEF IInv
<1>2. JobsOK' /\ HeldShrinks /\ RowsTyped' /\ Locked /\ TurnGoes
  BY <1>1, JobsStep, RequestLocked, RequestGoes
<1>3. Exclusion' /\ Knows'
  BY <1>1, <1>2, ShrinkingExcludes, KnowsOn
<1>4. MoneyOK' /\ CountOK'
  <2>1. CASE BeginTurn(x)
    BY <1>1, <2>1, BeginTurnMoney
  <2>2. CASE ~BeginTurn(x)
    BY <1>1, <2>2, RequestCalm, MoneyCalm, CountCalm
  <2> QED
    BY <2>1, <2>2
<1> QED
  BY <1>2, <1>3, <1>4 DEF IInv

LEMMA StepKeeps ==
  ASSUME IInv, NEW x \in Slots, Step(x)
  PROVE  IInv'
<1>1. JobsOK /\ RowsTyped /\ Exclusion /\ Knows /\ MoneyOK /\ CountOK
  BY DEF IInv
<1>2. RowsTyped' /\ Locked
  BY <1>1, StepLocked
<1>3. JobsOK' /\ Exclusion' /\ Knows'
  <2>1. CASE Acquire(x)
    <3>1. JobsOK'
      BY <1>1, <2>1, AcquireJob DEF Acquire
    <3> QED
      BY <1>1, <2>1, <3>1, AcquireExcludes, AcquireKnows
  <2>2. CASE ~Acquire(x)
    <3>1. JobsOK' /\ HeldShrinks /\ TurnGoes
      BY <1>1, <2>2, JobsStep, TurnGoesOn
    <3> QED
      BY <1>1, <1>2, <3>1, ShrinkingExcludes, KnowsOn
  <2> QED
    BY <2>1, <2>2
<1>4. MoneyOK' /\ CountOK'
  <2>1. CASE ClaimConsumption(x)
    BY <1>1, <2>1, ClaimMoney
  <2>2. CASE ClaimAttempt(x)
    BY <1>1, <2>2, AttemptMoney
  <2>3. CASE Broadcast(x)
    BY <1>1, <2>3, BroadcastMoney
  <2>4. CASE SettleGrantReservation(x)
    BY <1>1, <2>4, SettleMoney
  <2>5. CASE ~(ClaimConsumption(x) \/ ClaimAttempt(x) \/ Broadcast(x) \/ SettleGrantReservation(x))
    BY <1>1, <2>5, StepCalm, MoneyCalm, CountCalm
  <2> QED
    BY <2>1, <2>2, <2>3, <2>4, <2>5
<1> QED
  BY <1>2, <1>3, <1>4 DEF IInv

LEMMA TimeKeeps ==
  ASSUME IInv, Tick \/ \E k \in Keys : UserDecides(k)
  PROVE  IInv'
<1>1. JobsOK /\ RowsTyped /\ Exclusion /\ Knows /\ MoneyOK /\ CountOK
  BY DEF IInv
<1>2. UNCHANGED <<job, lease, grants, policy>>
  BY DEF Tick, UserDecides, rows
<1>3. JobsOK' /\ HeldShrinks /\ RowsTyped'
  BY <1>1, <1>2, JobsUntouched, TimeLocked
<1>4. Exclusion' /\ Knows'
  BY <1>1, <1>2, <1>3, ShrinkingExcludes DEF Knows, KnowsOf, Elder, PolicyVerified
<1> QED
  BY <1>1, <1>3, <1>4, DecideMoney DEF IInv

LEMMA StutterKeeps == ASSUME IInv, UNCHANGED vars PROVE IInv'
<1>1. JobsOK /\ RowsTyped /\ Exclusion /\ Knows /\ MoneyOK /\ CountOK
  BY DEF IInv
<1>2. UNCHANGED <<now, policy, grants, ledger, alias, attempt, lease, job, turns, started>>
  BY DEF vars
<1>3. JobsOK' /\ HeldShrinks /\ RowsTyped'
  BY <1>1, <1>2, JobsUntouched DEF RowsTyped
<1>4. Exclusion' /\ Knows'
  BY <1>1, <1>2, <1>3, ShrinkingExcludes DEF Knows, KnowsOf, Elder, PolicyVerified
<1>5. Calm
  BY <1>2 DEF Calm, Follows
<1> QED
  BY <1>1, <1>2, <1>3, <1>4, <1>5, MoneyCalm, CountCalm DEF IInv

LEMMA Inductive == ASSUME IInv, [Next]_vars PROVE IInv'
  BY RequestKeeps, StepKeeps, TimeKeeps, StutterKeeps DEF Next

-----------------------------------------------------------------------------
(* The theorems                                                            *)

\* In every reachable state the requests, their locks, what they read under
\* them and the claims they made are as IInv says: no two transactions hold
\* the same lock, but two claims the state row.
THEOREM InvariantOK == Spec => []IInv
<1>1. Init => IInv
  BY InitOK
<1>2. IInv /\ [Next]_vars => IInv'
  BY Inductive
<1> QED
  BY <1>1, <1>2, PTL DEF Spec

\* The state is always well formed.
THEOREM TypeCorrect == Spec => []TypeOK
<1>1. IInv => TypeOK
  BY DEF IInv, JobsOK, RowsTyped, TypeOK
<1> QED
  BY <1>1, InvariantOK, PTL

\* However many candidates, retries and lost answers a turn goes through, it
\* reserves budget at most once (claimGrantExecution), and a transfer that is
\* on its way or done keeps a reservation that nobody released.
THEOREM ReservationsHold == Spec => []ReservationsAccountedFor
<1>1. IInv => ReservationsAccountedFor
  <2> SUFFICES ASSUME IInv, NEW k \in Keys
               PROVE  /\ Cardinality(Live(k)) <= turns[k]
                      /\ attempt[k] \in {"broadcasting", "final"} => Live(k) # {}
    BY DEF ReservationsAccountedFor, Live, IsLive
  <2>1. /\ IsFiniteSet(Live(k)) /\ turns[k] \in Nat
        /\ Cardinality(Live(k)) + Cardinality(Asking(k)) <= turns[k]
    BY DEF IInv, CountOK, RowsTyped
  <2>2. Cardinality(Live(k)) \in Nat /\ Cardinality(Asking(k)) \in Nat
    BY <2>1, AskingFinite, FS_CardinalityType
  <2>3. attempt[k] \in {"broadcasting", "final"} => \E g \in Grants : IsLive(g, k)
    BY DEF IInv, MoneyOK
  <2> QED
    BY <2>1, <2>2, <2>3 DEF Live
<1> QED
  BY <1>1, InvariantOK, PTL

Covered ==
  \A g \in Grants, k \in Keys :
    ledger[g][k] = None /\ ledger'[g][k] # None =>
      /\ PolicyVerified
      /\ grants[g].state = "active" /\ grants[g].bound /\ now < Expiry[g]
      /\ \E x \in Slots : job[x].key = k /\ grants[g].created <= job[x].asked

\* A claim is decided on what was read under its locks, which is what is true.
LEMMA ClaimIsCovered ==
  ASSUME IInv, NEW x \in Slots, ClaimConsumption(x)
  PROVE  Covered
<1> DEFINE g == job[x].grant
           k == job[x].key
<1>1. JobsOK /\ RowsTyped /\ Knows /\ Ready(x, "claim")
  BY DEF IInv, ClaimConsumption
<1>2. "claim" \in Kinds /\ "claim" \notin AnyOrderKinds
  BY DEF Kinds, OtherKinds, AnyOrderKinds
<1>3. /\ job[x].pc = "open" /\ job[x].kind = "claim" /\ g \in Grants /\ k \in Keys
      /\ job[x].held = LocksOf("claim", g, job[x].plan)
  BY <1>1, <1>2, HeldWhenReady DEF JobFacts
<1>4. Row(g) \in job[x].held
  BY <1>3 DEF LocksOf
<1>5. job[x].row = grants[g] /\ Elder(g, job[x].asked) /\ (job[x].seen => PolicyVerified)
  BY <1>1, <1>3, <1>4 DEF Knows, KnowsOf
<1>6. \/ ledger' = ledger
      \/ Claimable(x) /\ ledger' = [ledger EXCEPT ![g][k] = NewClaim(x)]
  BY DEF ClaimConsumption
<1>7. ASSUME Claimable(x)
      PROVE  /\ PolicyVerified /\ grants[g].state = "active" /\ grants[g].bound
             /\ now < Expiry[g] /\ grants[g].created <= job[x].asked
  BY <1>5, <1>7 DEF Claimable, Elder
<1>8. ASSUME NEW h \in Grants, NEW i \in Keys, ledger[h][i] # ledger'[h][i]
      PROVE  h = g /\ i = k /\ Claimable(x)
  BY <1>1, <1>3, <1>6, <1>8 DEF RowsTyped
<1> QED
  BY <1>7, <1>8 DEF Covered

LEMMA SettleIsCovered ==
  ASSUME IInv, NEW x \in Slots, SettleGrantReservation(x)
  PROVE  Covered
<1>1. /\ RowsTyped /\ job[x].grant \in Grants /\ job[x].key \in Keys
  BY DEF IInv, JobsOK, JobOK, JobFacts, SettleGrantReservation, Ready
<1> DEFINE g == job[x].grant
           k == job[x].key
           c == IF ledger[g][k] = None THEN None ELSE [ledger[g][k] EXCEPT !.released = TRUE]
<1>2. ledger' = ledger \/ ledger' = [ledger EXCEPT ![g][k] = c]
  BY DEF SettleGrantReservation
<1>3. ledger[g][k] = None => c = None
  OBVIOUS
<1> HIDE DEF c
<1>4. \A h \in Grants, i \in Keys : ledger[h][i] = None => ledger'[h][i] = None
  BY <1>1, <1>2, <1>3 DEF RowsTyped
<1> QED
  BY <1>4 DEF Covered

LEMMA OthersClaimNothing ==
  ASSUME IInv, [Next]_vars,
         \A x \in Slots : ~ClaimConsumption(x) /\ ~SettleGrantReservation(x)
  PROVE  Covered
<1>1. ASSUME ledger' = ledger PROVE Covered
  BY <1>1 DEF Covered
<1>2. ASSUME NEW x \in Slots, Request(x) PROVE Covered
  BY <1>1, <1>2 DEF Request, BeginTurn, CreateGrant, BeginRevoke, BeginRemoval, BeginMutation,
     BeginApply, rows
<1>3. ASSUME NEW x \in Slots, Step(x) PROVE Covered
  BY <1>1, <1>3 DEF Step, GateReadsPolicy, GateListsGrants, OpenTransaction, Acquire, NestedRead,
     ClaimAttempt, Broadcast, SyncGrant, RevokeGrant, SyncRevocation, ReadRemovalPlan,
     ApplyRemoval, RunMutation, CommitApplyOutcome, rows
<1>4. ASSUME Tick \/ (\E k \in Keys : UserDecides(k)) \/ UNCHANGED vars PROVE Covered
  BY <1>1, <1>4 DEF Tick, UserDecides, vars, rows
<1> QED
  BY <1>2, <1>3, <1>4 DEF Next

\* Budget is first claimed on a key (claimConsumption) only while the policy is
\* verified and the grant is active, bound, unexpired and older than the request:
\* no revocation, removal, apply or invalidation that committed is missed.
THEOREM SpendIsCovered == Spec => FreshSpendIsCovered
<1>1. IInv /\ [Next]_vars => [Covered]_vars
  BY ClaimIsCovered, SettleIsCovered, OthersClaimNothing
<1>2. Spec => [][Covered]_vars
  BY <1>1, InvariantOK, PTL DEF Spec
<1> QED
  BY <1>2 DEF FreshSpendIsCovered, Covered

-----------------------------------------------------------------------------
(* Spending stays within the caps                                          *)

\* The units of some claims: what they are, and how many.
LEMMA UnitsIn ==
  ASSUME NEW f, NEW K, NEW e
  PROVE  e \in Units(f, K) <=> \E k \in K : e \in {k} \X (1..f[k].amount)
BY DEF Units

LEMMA UnitsFinite ==
  ASSUME NEW f, NEW K, IsFiniteSet(K), \A k \in K : f[k].amount \in Nat
  PROVE  IsFiniteSet(Units(f, K))
<1> DEFINE Parts == {{k} \X (1..f[k].amount) : k \in K}
           part == [k \in K |-> {k} \X (1..f[k].amount)]
<1>1. part \in Surjection(K, Parts)
  <2>1. part \in [K -> Parts]
    OBVIOUS
  <2>2. \A p \in Parts : \E k \in K : part[k] = p
    OBVIOUS
  <2> HIDE DEF part, Parts
  <2> QED
    BY <2>1, <2>2 DEF Surjection
<1>2. \A p \in Parts : IsFiniteSet(p)
  <2> SUFFICES ASSUME NEW k \in K PROVE IsFiniteSet({k} \X (1..f[k].amount))
    OBVIOUS
  <2>1. IsFiniteSet({k})
    BY FS_Singleton
  <2>2. 1 \in Int /\ f[k].amount \in Int
    OBVIOUS
  <2>3. IsFiniteSet(1..f[k].amount)
    BY <2>2, FS_Interval
  <2> QED
    BY <2>1, <2>3, FS_Product
<1> HIDE DEF part, Parts
<1>3. IsFiniteSet(Parts)
  BY <1>1, FS_Surjection
<1>4. IsFiniteSet(UNION Parts)
  BY <1>2, <1>3, FS_UNION
<1> QED
  BY <1>4 DEF Units, Parts

LEMMA FewerUnits ==
  ASSUME NEW f, NEW h, NEW K, NEW L \in SUBSET K, IsFiniteSet(K),
         \A k \in K : f[k].amount \in Nat, \A k \in L : h[k].amount = f[k].amount
  PROVE  /\ Cardinality(Units(h, L)) \in Nat /\ Cardinality(Units(f, K)) \in Nat
         /\ Cardinality(Units(h, L)) <= Cardinality(Units(f, K))
<1>1. Units(h, L) \subseteq Units(f, K)
  BY UnitsIn
<1>2. IsFiniteSet(Units(f, K))
  BY UnitsFinite
<1>3. IsFiniteSet(Units(h, L)) /\ Cardinality(Units(h, L)) <= Cardinality(Units(f, K))
  BY <1>1, <1>2, FS_Subset
<1> QED
  BY <1>2, <1>3, FS_CardinalityType

LEMMA MoreUnits ==
  ASSUME NEW f, NEW K, IsFiniteSet(K), \A k \in K : f[k].amount \in Nat,
         NEW h, NEW k, NEW L, \A i \in L : i = k \/ i \in K,
         \A i \in L : i # k => h[i].amount = f[i].amount, NEW n \in Nat, h[k].amount = n
  PROVE  /\ Cardinality(Units(h, L)) \in Nat /\ Cardinality(Units(f, K)) \in Nat
         /\ Cardinality(Units(h, L)) <= Cardinality(Units(f, K)) + n
<1> DEFINE U == Units(f, K)
           new == {k} \X (1..n)
<1>1. Units(h, L) \subseteq U \cup new
  <2> SUFFICES ASSUME NEW e \in Units(h, L) PROVE e \in U \cup new
    OBVIOUS
  <2>1. PICK i \in L : e \in {i} \X (1..h[i].amount)
    BY UnitsIn
  <2>2. CASE i = k
    BY <2>1, <2>2
  <2>3. CASE i # k
    BY <2>1, <2>3, UnitsIn
  <2> QED
    BY <2>2, <2>3
<1>2. IsFiniteSet(U) /\ Cardinality(U) \in Nat
  BY UnitsFinite, FS_CardinalityType
<1>3. IsFiniteSet(new) /\ Cardinality(new) = n
  <2>1. IsFiniteSet({k}) /\ Cardinality({k}) = 1
    BY FS_Singleton
  <2>2. 1 \in Int /\ n \in Int
    OBVIOUS
  <2>3. IsFiniteSet(1..n) /\ Cardinality(1..n) = IF 1 > n THEN 0 ELSE n - 1 + 1
    BY <2>2, FS_Interval
  <2>4. Cardinality(1..n) = n
    BY <2>3
  <2>5. IsFiniteSet(new) /\ Cardinality(new) = Cardinality({k}) * Cardinality(1..n)
    BY <2>1, <2>3, FS_Product
  <2> HIDE DEF new
  <2> QED
    BY <2>1, <2>4, <2>5
<1> HIDE DEF U, new
<1>4. IsFiniteSet(U \cap new) /\ Cardinality(U \cap new) \in Nat
  BY <1>2, FS_Subset, FS_CardinalityType
<1>5. IsFiniteSet(U \cup new) /\ Cardinality(U \cup new) <= Cardinality(U) + n
  <2>1. /\ IsFiniteSet(U \cup new)
        /\ Cardinality(U \cup new) = Cardinality(U) + Cardinality(new) - Cardinality(U \cap new)
    BY <1>2, <1>3, FS_Union
  <2> QED
    BY <1>2, <1>3, <1>4, <2>1
<1>6. /\ IsFiniteSet(Units(h, L)) /\ Cardinality(Units(h, L)) <= Cardinality(U \cup new)
  BY <1>1, <1>5, FS_Subset
<1>7. Cardinality(Units(h, L)) \in Nat /\ Cardinality(U \cup new) \in Nat
  BY <1>5, <1>6, FS_CardinalityType
<1> QED
  BY <1>2, <1>5, <1>6, <1>7 DEF U

\* A turn's transaction is no older than MaxWait.
Timely ==
  \A x \in Slots :
    job[x].kind = "claim" /\ job[x].pc = "open" =>
      job[x].began <= now /\ now <= job[x].began + MaxWait

SpentKeys(g, t) == {k \in Unreleased(g, t) : ledger[g][k].at <= t + Window - MaxWait}
CapsKept == \A g \in Grants, t \in Int : Amount(g, SpentKeys(g, t)) <= Cumulative[g]
SInv == Timely /\ CapsKept

LEMMA SpentFinite ==
  ASSUME RowsTyped, NEW g \in Grants, NEW t
  PROVE  /\ IsFiniteSet(SpentKeys(g, t)) /\ IsFiniteSet(Unreleased(g, t))
         /\ SpentKeys(g, t) \subseteq Keys
         /\ \A k \in Unreleased(g, t) : ledger[g][k].amount \in Nat /\ ledger[g][k].at \in Nat
<1>1. Unreleased(g, t) \in SUBSET Keys /\ SpentKeys(g, t) \in SUBSET Keys
  BY DEF Unreleased, SpentKeys
<1>2. \A k \in Unreleased(g, t) : ledger[g][k] \in Claims
  BY DEF RowsTyped, Unreleased
<1> QED
  BY <1>1, <1>2, FS_Subset, LedgerAssumption DEF Claims

\* Claims that are released, or not touched, leave the caps kept.
LEMMA NothingClaimed ==
  ASSUME RowsTyped, CapsKept,
         \A g \in Grants, k \in Keys :
           \/ ledger'[g][k] = ledger[g][k]
           \/ ledger'[g][k] # None => ledger'[g][k].released
  PROVE  CapsKept'
<1> SUFFICES ASSUME NEW g \in Grants, NEW t \in Int
             PROVE  Cardinality(Units(ledger'[g], SpentKeys(g, t)')) <= Cumulative[g]
  BY DEF CapsKept, Amount
<1>1. \A k \in SpentKeys(g, t)' : k \in SpentKeys(g, t) /\ ledger'[g][k] = ledger[g][k]
  BY DEF SpentKeys, Unreleased
<1>2. /\ IsFiniteSet(SpentKeys(g, t))
      /\ \A k \in SpentKeys(g, t) : ledger[g][k].amount \in Nat
  BY SpentFinite DEF SpentKeys
<1>3. /\ Cardinality(Units(ledger'[g], SpentKeys(g, t)')) \in Nat
      /\ Cardinality(Units(ledger[g], SpentKeys(g, t))) \in Nat
      /\ Cardinality(Units(ledger'[g], SpentKeys(g, t)'))
           <= Cardinality(Units(ledger[g], SpentKeys(g, t)))
  BY <1>1, <1>2, FewerUnits
<1>4. Cumulative[g] \in Nat
  BY LedgerAssumption
<1> QED
  BY <1>3, <1>4 DEF CapsKept, Amount

\* A claim counts every claim that a period it falls in can hold: it waited no
\* longer than MaxWait after the time it is dated at.
LEMMA ClaimKeepsCaps ==
  ASSUME IInv, SInv, NEW x \in Slots, ClaimConsumption(x)
  PROVE  CapsKept'
<1> DEFINE g == job[x].grant
           k == job[x].key
           began == job[x].began
<1>1. /\ RowsTyped /\ Timely /\ CapsKept /\ g \in Grants /\ k \in Keys /\ job[x] \in Jobs
      /\ job[x].pc = "open" /\ job[x].kind = "claim"
  BY DEF IInv, SInv, JobsOK, JobOK, JobFacts, ClaimConsumption, Ready
<1>2. CASE ledger' = ledger
  BY <1>1, <1>2, NothingClaimed
<1>3. CASE ledger[g][k] = None /\ Claimable(x) /\ ledger' = [ledger EXCEPT ![g][k] = NewClaim(x)]
  <2> SUFFICES ASSUME NEW h \in Grants, NEW t \in Int
               PROVE  Cardinality(Units(ledger'[h], SpentKeys(h, t)')) <= Cumulative[h]
    BY DEF CapsKept, Amount
  <2> DEFINE n == AmountOf[k]
             K == SpentKeys(h, t)
             L == SpentKeys(h, t)'
  <2>1. /\ n \in Nat /\ Cumulative[h] \in Nat /\ now \in Nat /\ began \in Nat
        /\ Window \in Nat /\ MaxWait \in Nat
    BY <1>1, LedgerAssumption DEF RowsTyped, Jobs
  <2>2. /\ ledger'[g][k] = NewClaim(x)
        /\ \A e \in Grants, i \in Keys : e # g \/ i # k => ledger'[e][i] = ledger[e][i]
    BY <1>1, <1>3 DEF RowsTyped
  <2>3. NewClaim(x).at = began /\ NewClaim(x).amount = n
    BY DEF NewClaim
  <2>4. began <= now /\ now <= began + MaxWait
    BY <1>1 DEF Timely
  <2>5. IsFiniteSet(K) /\ K \subseteq Keys /\ \A i \in K : ledger[h][i].amount \in Nat
    BY <1>1, SpentFinite DEF SpentKeys
  <2>6. \A i \in L : i \in Keys /\ (h # g \/ i # k => i \in K /\ ledger'[h][i] = ledger[h][i])
    BY <2>2 DEF SpentKeys, Unreleased
  <2>7. Cardinality(Units(ledger[h], K)) <= Cumulative[h]
    BY <1>1 DEF CapsKept, Amount
  <2>8. CASE h # g \/ k \notin L
    <3>1. \A i \in L : i \in K /\ ledger'[h][i].amount = ledger[h][i].amount
      BY <2>6, <2>8
    <3> HIDE DEF K, L
    <3>2. /\ Cardinality(Units(ledger'[h], L)) \in Nat /\ Cardinality(Units(ledger[h], K)) \in Nat
          /\ Cardinality(Units(ledger'[h], L)) <= Cardinality(Units(ledger[h], K))
      BY <2>5, <3>1, FewerUnits
    <3> QED
      BY <2>1, <2>7, <3>2 DEF L
  <2>9. CASE h = g /\ k \in L
    <3>1. t < began /\ began <= t + Window - MaxWait
      BY <2>2, <2>3, <2>9 DEF SpentKeys, Unreleased
    <3>2. now - Window <= t
      BY <2>1, <2>4, <3>1
    <3> DEFINE C == Unreleased(g, now - Window)
    <3>3. IsFiniteSet(C) /\ \A i \in C : ledger[g][i].amount \in Nat /\ ledger[g][i].at \in Nat
      BY <1>1, SpentFinite
    <3>4. K \subseteq C
      <4> SUFFICES ASSUME NEW i \in K PROVE i \in C
        OBVIOUS
      <4>1. /\ i \in Keys /\ ledger[g][i] # None /\ ~ledger[g][i].released
            /\ ledger[g][i].at > t
        BY <2>9 DEF SpentKeys, Unreleased
      <4>2. ledger[g][i].at \in Nat
        BY <1>1, <4>1 DEF RowsTyped, Claims
      <4>3. ledger[g][i].at > now - Window
        BY <2>1, <3>2, <4>1, <4>2
      <4> QED
        BY <4>1, <4>3 DEF Unreleased
    <3>5. L \subseteq C \cup {k}
      BY <2>6, <3>4
    <3>6. \A i \in L : i # k => ledger'[g][i].amount = ledger[g][i].amount
      BY <2>6, <2>9
    <3>7. ledger'[g][k].amount = n
      BY <2>2, <2>3
    <3> HIDE DEF K, L, C, n
    <3>8. /\ Cardinality(Units(ledger'[g], L)) \in Nat /\ Cardinality(Units(ledger[g], C)) \in Nat
          /\ Cardinality(Units(ledger'[g], L)) <= Cardinality(Units(ledger[g], C)) + n
      <4> DEFINE before == ledger[g]
                 after == ledger'[g]
      <4>1. n \in Nat /\ IsFiniteSet(C) /\ \A i \in C : before[i].amount \in Nat
        BY <2>1, <3>3
      <4>2. \A i \in L : i = k \/ i \in C
        BY <3>5
      <4>3. \A i \in L : i # k => after[i].amount = before[i].amount
        BY <3>6
      <4>4. after[k].amount = n
        BY <3>7
      <4> HIDE DEF g, k, before, after
      <4>5. /\ Cardinality(Units(after, L)) \in Nat /\ Cardinality(Units(before, C)) \in Nat
            /\ Cardinality(Units(after, L)) <= Cardinality(Units(before, C)) + n
        BY <4>1, <4>2, <4>3, <4>4, MoreUnits
      <4> QED
        BY <4>5 DEF before, after
    <3>9. Cardinality(Units(ledger[g], C)) + n <= Cumulative[g]
      BY <1>3 DEF Claimable, ConsumedInWindow, Amount, C, n
    <3> QED
      BY <2>1, <2>9, <3>8, <3>9 DEF L
  <2> QED
    BY <2>8, <2>9
<1> QED
  BY <1>2, <1>3 DEF ClaimConsumption

LEMMA SettleKeepsCaps ==
  ASSUME IInv, SInv, NEW x \in Slots, SettleGrantReservation(x)
  PROVE  CapsKept'
<1>1. /\ RowsTyped /\ CapsKept /\ job[x].grant \in Grants /\ job[x].key \in Keys
  BY DEF IInv, SInv, JobsOK, JobOK, JobFacts, SettleGrantReservation, Ready
<1> DEFINE g == job[x].grant
           k == job[x].key
           c == IF ledger[g][k] = None THEN None ELSE [ledger[g][k] EXCEPT !.released = TRUE]
<1>2. ledger' = ledger \/ ledger' = [ledger EXCEPT ![g][k] = c]
  BY DEF SettleGrantReservation
<1>3. c # None => c.released
  <2>1. ASSUME ledger[g][k] # None PROVE [ledger[g][k] EXCEPT !.released = TRUE].released
    BY <1>1, <2>1 DEF RowsTyped, Claims
  <2> QED
    BY <2>1
<1> HIDE DEF c
<1>4. \A h \in Grants, i \in Keys :
        ledger'[h][i] = ledger[h][i] \/ (ledger'[h][i] # None => ledger'[h][i].released)
  BY <1>1, <1>2, <1>3 DEF RowsTyped
<1> QED
  BY <1>1, <1>4, NothingClaimed

LEMMA StepKeepsCaps ==
  ASSUME IInv, SInv, [Next]_vars
  PROVE  CapsKept'
<1>1. RowsTyped /\ CapsKept
  BY DEF IInv, SInv
<1>2. ASSUME ledger' = ledger PROVE CapsKept'
  BY <1>1, <1>2, NothingClaimed
<1>3. ASSUME NEW x \in Slots, Request(x) PROVE CapsKept'
  BY <1>2, <1>3 DEF Request, BeginTurn, CreateGrant, BeginRevoke, BeginRemoval, BeginMutation,
     BeginApply, rows
<1>4. ASSUME NEW x \in Slots, Step(x) PROVE CapsKept'
  BY <1>2, <1>4, ClaimKeepsCaps, SettleKeepsCaps DEF Step, GateReadsPolicy, GateListsGrants,
     OpenTransaction, Acquire, NestedRead, ClaimAttempt, Broadcast, SyncGrant, RevokeGrant,
     SyncRevocation, ReadRemovalPlan, ApplyRemoval, RunMutation, CommitApplyOutcome, rows
<1>5. ASSUME Tick \/ (\E k \in Keys : UserDecides(k)) \/ UNCHANGED vars PROVE CapsKept'
  BY <1>2, <1>5 DEF Tick, UserDecides, vars, rows
<1> QED
  BY <1>3, <1>4, <1>5 DEF Next

LEMMA StepIsTimely ==
  ASSUME IInv, SInv, [Next]_vars
  PROVE  Timely'
<1>1. JobsOK /\ RowsTyped /\ Knows /\ Timely
  BY DEF IInv, SInv
<1>2. now \in Nat /\ MaxWait \in Nat
  BY <1>1, LedgerAssumption DEF RowsTyped
<1>3. ASSUME TurnGoes, now' = now PROVE Timely'
  BY <1>1, <1>2, <1>3 DEF Timely, TurnGoes, ListsItsGrants, TakesACandidate, StaysInClaim
<1>4. ASSUME NEW x \in Slots, Request(x) PROVE Timely'
  <2>1. now' = now
    BY <1>4 DEF Request, BeginTurn, CreateGrant, BeginRevoke, BeginRemoval, BeginMutation,
       BeginApply
  <2> QED
    BY <1>1, <1>3, <1>4, <2>1, RequestGoes
<1>5. ASSUME NEW x \in Slots, Step(x) PROVE Timely'
  <2>1. now' = now
    BY <1>5 DEF Step, GateReadsPolicy, GateListsGrants, OpenTransaction, Acquire, NestedRead,
       ClaimConsumption, ClaimAttempt, Broadcast, SettleGrantReservation, SyncGrant, RevokeGrant,
       SyncRevocation, ReadRemovalPlan, ApplyRemoval, RunMutation, CommitApplyOutcome
  <2>2. CASE ~Acquire(x)
    BY <1>1, <1>3, <1>5, <2>1, <2>2, TurnGoesOn
  <2>3. CASE Acquire(x)
    <3>1. PICK l \in NextLocks(x) :
            job' = [job EXCEPT ![x] = ReadUnder(x, l)] /\ job[x].pc = "open" /\ lease' = lease
      BY <2>3 DEF Acquire
    <3>2. job'[x].kind = job[x].kind /\ job'[x].began = job[x].began
      BY <1>1, <3>1, AcquireJob
    <3>3. \A y \in Slots \ {x} : job'[y] = job[y]
      BY <1>1, <3>1 DEF JobsOK
    <3> QED
      BY <1>1, <2>1, <3>1, <3>2, <3>3 DEF Timely
  <2> QED
    BY <2>2, <2>3
<1>6. ASSUME Tick PROVE Timely'
  <2>1. job' = job /\ now' = now + 1 /\ \A x \in Open : now < job[x].began + MaxWait
    BY <1>6 DEF Tick
  <2>2. ASSUME NEW x \in Slots, job[x].kind = "claim", job[x].pc = "open"
        PROVE  job[x].began <= now' /\ now' <= job[x].began + MaxWait
    <3>1. job[x].began \in Nat
      BY <1>1 DEF JobsOK, Jobs
    <3>2. now < job[x].began + MaxWait /\ job[x].began <= now
      BY <1>1, <2>1, <2>2 DEF Timely, Open
    <3> QED
      BY <1>2, <2>1, <3>1, <3>2
  <2> QED
    BY <2>1, <2>2 DEF Timely
<1>7. ASSUME (\E k \in Keys : UserDecides(k)) \/ UNCHANGED vars PROVE Timely'
  BY <1>1, <1>7 DEF UserDecides, vars, Timely
<1> QED
  BY <1>4, <1>5, <1>6, <1>7 DEF Next

LEMMA InitWithinCaps == ASSUME Init PROVE SInv
<1>1. Timely
  BY IdleFields DEF Init, Timely
<1>2. \A g \in Grants, t \in Int : SpentKeys(g, t) = {}
  BY DEF Init, SpentKeys, Unreleased
<1>3. \A f : Units(f, {}) = {}
  BY DEF Units
<1>4. CapsKept
  BY <1>2, <1>3, FS_EmptySet, LedgerAssumption DEF CapsKept, Amount
<1> QED
  BY <1>1, <1>4 DEF SInv

\* The cumulative cap of a grant: the unreleased claims of any period as long as
\* the window, but for the longest time a transaction waits between the start it
\* dates its claim at and the clock it counts back from, stay within it.
THEOREM CapHolds == Spec => []SpendsWithinCap
<1>1. Init => SInv
  BY InitWithinCaps
<1>2. IInv /\ SInv /\ [Next]_vars => SInv'
  BY StepIsTimely, StepKeepsCaps DEF SInv
<1>3. SInv => SpendsWithinCap
  <2>1. \A t \in -1..MaxTime : t \in Int
    OBVIOUS
  <2> QED
    BY <2>1 DEF SInv, CapsKept, SpendsWithinCap, Spent, SpentKeys
<1> QED
  BY <1>1, <1>2, <1>3, InvariantOK, PTL DEF Spec

-----------------------------------------------------------------------------
(* Nobody waits for ever                                                   *)

\* Whose transactions use a lock of each level.
LEMMA LocksByKind ==
  ASSUME NEW j \in Jobs, JobFacts(j), LocksOK(j), j.pc = "open", NEW l \in j.held \cup j.todo
  PROVE  \/ l = State
         \/ \E g \in Grants :
              /\ l = Key(g)
              /\ j.kind \in {"claim", "settle", "revoke", "sync", "unbind"} => g = j.grant
              /\ j.kind \in {"claim", "settle", "revoke", "sync", "unbind", "remove", "edit"}
         \/ \E g \in Grants :
              /\ l = Row(g)
              /\ j.kind \in {"claim", "revoke", "sync", "unbind"} => g = j.grant
              /\ \/ j.kind \in {"claim", "revoke", "sync", "unbind"}
                 \/ j.kind \in {"remove", "edit", "apply", "invalidate"}
         \/ l = ContactRows /\ j.kind \in {"remove", "edit", "contact"}
         \/ l = WalletKey /\ j.kind \in {"sync", "unbind"}
<1>1. j.kind \in Kinds /\ j.plan \in SUBSET Grants /\ j.affected \in SUBSET Grants
      /\ l \in Locks
  BY DEF Jobs
<1>2. CASE j.kind \in AnyOrderKinds
  BY <1>1, <1>2 DEF LocksOK, AnyOrderKinds
<1>3. ASSUME j.kind \notin AnyOrderKinds PROVE l \in LocksOf(j.kind, j.grant, j.plan)
  BY <1>3 DEF LocksOK
<1>4. CASE j.kind \in {"remove", "edit"}
  <2>1. LocksOf(j.kind, j.grant, j.plan) =
          {State, ContactRows} \cup {Key(h) : h \in j.plan} \cup {Row(h) : h \in j.plan}
    BY <1>4 DEF LocksOf
  <2> QED
    BY <1>1, <1>3, <1>4, <2>1 DEF AnyOrderKinds
<1>5. CASE j.kind \in {"claim", "settle", "revoke", "sync", "unbind"}
  <2>1. LocksOf(j.kind, j.grant, j.plan) \subseteq {State, Key(j.grant), Row(j.grant), WalletKey}
        /\ (WalletKey \in LocksOf(j.kind, j.grant, j.plan) => j.kind \in {"sync", "unbind"})
        /\ (Row(j.grant) \in LocksOf(j.kind, j.grant, j.plan) => j.kind # "settle")
    BY <1>5, LockFacts DEF LocksOf
  <2>2. j.grant \in Grants
    BY <1>5 DEF JobFacts
  <2> QED
    BY <1>3, <1>5, <2>1, <2>2 DEF AnyOrderKinds
<1>6. CASE j.kind \in {"contact", "enroll"}
  BY <1>3, <1>6 DEF LocksOf, AnyOrderKinds
<1> QED
  BY <1>1, <1>2, <1>4, <1>5, <1>6 DEF Kinds, LeaseKinds, OtherKinds, AnyOrderKinds

LEMMA RowsByKind ==
  ASSUME NEW j \in Jobs, JobFacts(j), LocksOK(j), j.pc = "open",
         NEW g \in Grants, Row(g) \in j.held \cup j.todo
  PROVE  /\ j.kind \in {"claim", "revoke", "sync", "unbind"} => g = j.grant
         /\ j.kind \in {"claim", "revoke", "sync", "unbind"} \cup LeaseKinds
<1>1. \E h \in Grants : /\ Row(g) = Row(h)
                        /\ j.kind \in {"claim", "revoke", "sync", "unbind"} => h = j.grant
                        /\ \/ j.kind \in {"claim", "revoke", "sync", "unbind"}
                           \/ j.kind \in {"remove", "edit", "apply", "invalidate"}
  BY LocksByKind, LockFacts
<1> QED
  BY <1>1, LockFacts DEF LeaseKinds

LEMMA KeysByKind ==
  ASSUME NEW j \in Jobs, JobFacts(j), LocksOK(j), j.pc = "open",
         NEW g \in Grants, Key(g) \in j.held \cup j.todo
  PROVE  /\ j.kind \in {"claim", "settle", "revoke", "sync", "unbind"} => g = j.grant
         /\ j.kind \in {"claim", "settle", "revoke", "sync", "unbind"} \cup LeaseKinds
<1>1. \E h \in Grants :
        /\ Key(g) = Key(h)
        /\ j.kind \in {"claim", "settle", "revoke", "sync", "unbind"} => h = j.grant
        /\ j.kind \in {"claim", "settle", "revoke", "sync", "unbind", "remove", "edit"}
  BY LocksByKind, LockFacts
<1> QED
  BY <1>1, LockFacts DEF LeaseKinds

\* A transaction waits for no lock that comes before one it holds.
LEMMA LocksAscend ==
  ASSUME NEW j \in Jobs, LocksOK(j), NEW h \in j.held, NEW l \in j.todo
  PROVE  h[1] <= l[1] /\ l # h /\ l \notin j.held
<1>1. h \in Locks /\ l \in Locks
  BY DEF Jobs
<1>2. h[1] \in 0..4 /\ l[1] \in 0..4
  BY <1>1 DEF Locks
<1>3. Before(h, l) \/ (h[1] = 2 /\ l[1] = 2)
  BY DEF LocksOK
<1>4. h[1] <= l[1]
  BY <1>2, <1>3 DEF Before
<1> QED
  BY <1>4 DEF LocksOK

SomebodyIsUnblocked ==
  \A D \in SUBSET Open : D # {} => \E x \in D : Blockers(x) \cap D = {}

\* In a group of transactions that all wait for each other none holds a lock of
\* the last level, hence none of the level before, and so on: they cannot wait.
LEMMA LocksDoNotCycle ==
  ASSUME IInv
  PROVE  SomebodyIsUnblocked
<1> SUFFICES ASSUME NEW D \in SUBSET Open, D # {}, \A x \in D : Blockers(x) \cap D # {}
             PROVE  FALSE
  BY DEF SomebodyIsUnblocked
<1>1. \A x \in D : \E y \in D \ {x} : \E l \in job[x].todo : l \in job[y].held
  BY DEF Blockers, Conflicts, NextLocks
<1>2. \A x \in D : /\ x \in Slots /\ job[x].pc = "open" /\ job[x] \in Jobs
                    /\ JobFacts(job[x]) /\ LocksOK(job[x])
  BY DEF IInv, JobsOK, JobOK, Open
<1>3. \A x, y \in D : job[x].kind \in LeaseKinds /\ job[y].kind \in LeaseKinds => x = y
  BY <1>2 DEF IInv, JobsOK, LeaseOK
<1>4. ASSUME NEW x \in D, NEW h \in job[x].held
      PROVE  \E y \in D \ {x} : \E l \in job[x].todo :
               /\ l \in job[y].held
               /\ h[1] <= l[1] /\ l # h /\ l \notin job[x].held
  <2>1. PICK y \in D \ {x}, l \in job[x].todo : l \in job[y].held
    BY <1>1
  <2> QED
    BY <1>2, <2>1, LocksAscend
<1>5. \A x \in D : WalletKey \notin job[x].held
  <2> SUFFICES ASSUME NEW x \in D, WalletKey \in job[x].held PROVE FALSE
    OBVIOUS
  <2>1. PICK l \in job[x].todo : WalletKey[1] <= l[1] /\ l # WalletKey
    BY <1>4
  <2>2. l[1] # 4
    BY <1>2, <2>1, LocksByKind, LockFacts
  <2>3. l[1] \in 0..4
    BY <1>2 DEF Jobs, Locks
  <2> QED
    BY <2>1, <2>2, <2>3, LockFacts
<1>6. \A x \in D : ContactRows \notin job[x].held
  <2> SUFFICES ASSUME NEW x \in D, ContactRows \in job[x].held PROVE FALSE
    OBVIOUS
  <2>1. PICK y \in D, l \in job[x].todo :
          l \in job[y].held /\ ContactRows[1] <= l[1] /\ l # ContactRows
    BY <1>4
  <2>2. l = WalletKey
    BY <1>2, <2>1, LocksByKind, LockFacts
  <2> QED
    BY <1>5, <2>1, <2>2
<1>7. \A x \in D : \A g \in Grants : Row(g) \notin job[x].held
  <2>1. ASSUME NEW x \in D, NEW g \in Grants, Row(g) \in job[x].held
        PROVE  /\ job[x].kind \in LeaseKinds
               /\ \E y \in D \ {x} : \E h \in Grants : Row(h) \in job[y].held
    <3>1. PICK y \in D \ {x}, l \in job[x].todo :
            l \in job[y].held /\ Row(g)[1] <= l[1] /\ l # Row(g)
      BY <1>4, <2>1
    <3>2. PICK h \in Grants : l = Row(h)
      BY <1>2, <1>5, <1>6, <3>1, LocksByKind, LockFacts
    <3>3. /\ job[x].kind \in {"claim", "revoke", "sync", "unbind"} => g = job[x].grant /\ h = g
          /\ job[x].kind \in {"claim", "revoke", "sync", "unbind"} \cup LeaseKinds
      BY <1>2, <2>1, <3>2, RowsByKind
    <3> QED
      BY <3>1, <3>2, <3>3
  <2> QED
    BY <1>3, <2>1
<1>8. \A x \in D : \A g \in Grants : Key(g) \notin job[x].held
  <2>1. ASSUME NEW x \in D, NEW g \in Grants, Key(g) \in job[x].held
        PROVE  /\ job[x].kind \in LeaseKinds
               /\ \E y \in D \ {x} : \E h \in Grants : Key(h) \in job[y].held
    <3>1. PICK y \in D \ {x}, l \in job[x].todo :
            l \in job[y].held /\ Key(g)[1] <= l[1] /\ l # Key(g)
      BY <1>4, <2>1
    <3>2. PICK h \in Grants : l = Key(h)
      BY <1>2, <1>5, <1>6, <1>7, <3>1, LocksByKind, LockFacts
    <3>3. /\ job[x].kind \in {"claim", "settle", "revoke", "sync", "unbind"} => g = job[x].grant /\ h = g
          /\ job[x].kind \in {"claim", "settle", "revoke", "sync", "unbind"} \cup LeaseKinds
      BY <1>2, <2>1, <3>2, KeysByKind
    <3> QED
      BY <3>1, <3>2, <3>3
  <2> QED
    BY <1>3, <2>1
<1>9. PICK x \in D : TRUE
  OBVIOUS
<1>10. PICK y \in D \ {x} : \E l \in job[x].todo : l \in job[y].held
  BY <1>1
<1>11. PICK l \in job[x].todo : l \in job[y].held
  BY <1>10
<1>12. l = State
  BY <1>2, <1>5, <1>6, <1>7, <1>8, <1>11, LocksByKind
<1>13. PICK z \in D, m \in job[y].todo : m \in job[z].held /\ m # State
  BY <1>4, <1>11, <1>12
<1> QED
  BY <1>2, <1>5, <1>6, <1>7, <1>8, <1>13, LocksByKind

\* The lock order of docs/architecture.md, whatever the size of the pool: of any
\* group of open transactions one waits for no lock that another of them holds.
THEOREM LockOrder == Spec => []SomebodyIsUnblocked
<1>1. IInv => SomebodyIsUnblocked
  BY LocksDoNotCycle
<1> QED
  BY <1>1, InvariantOK, PTL

\* Whatever the size of the pool and the number of requests, transactions that
\* wait for one another for ever are all the open ones, hold every connection, and
\* wait in the end for one that needs a second connection and no lock.
THEOREM WaitingNeedsThePool == Spec => []OnlyThePoolDeadlocks
<1>1. ASSUME IInv, NEW D \in SUBSET Open, D # {}, \A x \in D : Stuck(D, x)
      PROVE  /\ D = Open /\ ~ConnectionFree
             /\ \E x \in D : Blockers(x) \cap D = {} /\ job[x].kind \in NestedKinds
  <2>1. PICK x \in D : Blockers(x) \cap D = {}
    BY <1>1, LocksDoNotCycle DEF SomebodyIsUnblocked
  <2>2. job[x].nested /\ Open \subseteq D /\ ~ConnectionFree
    BY <1>1, <2>1 DEF Stuck
  <2>3. x \in Slots /\ job[x].pc = "open" /\ LocksOK(job[x])
    BY <1>1 DEF IInv, JobsOK, JobOK, Open
  <2>4. job[x].kind \in NestedKinds
    BY <2>2, <2>3 DEF LocksOK
  <2> QED
    BY <2>1, <2>2, <2>4
<1>2. IInv => OnlyThePoolDeadlocks
  BY <1>1 DEF OnlyThePoolDeadlocks
<1> QED
  BY <1>2, InvariantOK, PTL
=============================================================================
