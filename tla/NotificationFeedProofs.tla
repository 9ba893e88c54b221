----------------------- MODULE NotificationFeedProofs -----------------------
(***************************************************************************)
(* Proofs about NotificationFeed, for every number of attempts, server     *)
(* processes, faults and every size of a batch: no event is completed      *)
(* without its notification, and the inbox tells each attempt's states     *)
(* once and in the order they happened.                                    *)
(*                                                                         *)
(* What makes the order hold although a batch is read without a lock: when *)
(* a process is at an event, every older one is in its batch before it or  *)
(* already completed (BatchOK).  A pass that goes on after a failure would *)
(* break exactly that.                                                     *)
(***************************************************************************)
EXTENDS NotificationFeed, FiniteSetTheorems, TLAPS

Events == [attempt : Attempts, status : NotificationStates, processed : BOOLEAN]
Rows == [attempt : Attempts, status : NotificationStates, read : BOOLEAN]
Workers == [pc : {"timer", "commit"}, batch : SUBSET Nat]

TypeOK ==
  /\ outbox \in Seq(Events)
  /\ feed \in Seq(Rows)
  /\ worker \in [Servers -> Workers]

\* An attempt tells a state once.
KeysAreUnique ==
  \A e, f \in DOMAIN outbox : KeyOf(outbox[e]) = KeyOf(outbox[f]) => e = f

\* A worker's batch is made of events of the outbox, and every event older than
\* one of them is in it too or has been completed.
BatchOK ==
  \A s \in Servers : \A f \in worker[s].batch :
    /\ f \in DOMAIN outbox
    /\ \A e \in DOMAIN outbox : e < f => e \in worker[s].batch \/ outbox[e].processed

IInv == TypeOK /\ KeysAreUnique /\ BatchOK /\ CompletedIsNotified /\ StoryInOrder

-----------------------------------------------------------------------------
LEMMA InitOK == Init => IInv
  BY DEF Init, IInv, TypeOK, KeysAreUnique, BatchOK, CompletedIsNotified, StoryInOrder, Resting,
         Workers

\* Nothing changes for a page's step, nor when rows of the feed are marked read.
LEMMA FeedFrame ==
  ASSUME IInv, feed' \in Seq(Rows), UNCHANGED <<outbox, worker>>,
         DOMAIN feed' = DOMAIN feed,
         \A j \in DOMAIN feed : KeyOf(feed'[j]) = KeyOf(feed[j])
  PROVE  IInv'
<1> USE DEF IInv
<1>1. Notified' = Notified
  BY DEF Notified
<1>2. CompletedIsNotified'
  BY <1>1 DEF CompletedIsNotified
<1>3. StoryInOrder'
  <2>1. \A j \in DOMAIN feed : \E f \in DOMAIN outbox : ToldInOrder(f, j)'
    <3> SUFFICES ASSUME NEW j \in DOMAIN feed PROVE \E f \in DOMAIN outbox : ToldInOrder(f, j)'
      OBVIOUS
    <3>1. j \in Nat /\ \A i \in 1..j - 1 : i \in DOMAIN feed
      BY DEF TypeOK
    <3> QED
      BY <3>1 DEF StoryInOrder, ToldInOrder
  <2> QED
    BY <2>1 DEF StoryInOrder
<1> QED
  BY <1>2, <1>3 DEF TypeOK, KeysAreUnique, BatchOK

LEMMA TellStateOK ==
  ASSUME IInv, NEW a \in Attempts, TellState(a)
  PROVE  IInv'
<1> USE DEF IInv
<1>1. PICK status \in NextStates(a) :
        outbox' = Append(outbox, [attempt |-> a, status |-> status, processed |-> FALSE])
  BY DEF TellState
<1> DEFINE event == [attempt |-> a, status |-> status, processed |-> FALSE]
           new == Len(outbox) + 1
<1>2. status \in NotificationStates /\ status \notin ToldOf(a)
  BY DEF NextStates, NotificationStates
<1>3. event \in Events
  BY <1>2 DEF Events
<1>4. /\ outbox \in Seq(Events) /\ Len(outbox) \in Nat /\ DOMAIN outbox = 1..Len(outbox)
      /\ outbox' \in Seq(Events) /\ DOMAIN outbox' = 1..new
      /\ outbox'[new] = event /\ \A e \in DOMAIN outbox : outbox'[e] = outbox[e]
  BY <1>1, <1>3 DEF TypeOK
<1>5. \A e \in DOMAIN outbox : KeyOf(outbox[e]) # KeyOf(event)
  BY <1>2 DEF KeyOf, ToldOf
<1>6. UNCHANGED <<feed, worker>>
  BY DEF TellState, client
<1> HIDE DEF event
<1>7. TypeOK'
  BY <1>4, <1>6 DEF TypeOK
<1>8. KeysAreUnique'
  BY <1>4, <1>5 DEF KeysAreUnique
<1>9. BatchOK'
  BY <1>4, <1>6 DEF BatchOK
<1>10. KeyOf(event) \notin Notified
  BY <1>5 DEF Notified, StoryInOrder, ToldInOrder
<1>11. CompletedIsNotified'
  <2>1. Notified' = Notified
    BY <1>6 DEF Notified
  <2>2. ~event.processed
    BY DEF event
  <2> QED
    BY <1>4, <1>10, <2>1, <2>2 DEF CompletedIsNotified
<1>12. StoryInOrder'
  <2>1. ASSUME NEW f \in DOMAIN outbox, NEW j \in DOMAIN feed, ToldInOrder(f, j)
        PROVE  ToldInOrder(f, j)'
    <3>1. \A e \in 1..f - 1 : e \in DOMAIN outbox
      BY <1>4
    <3> QED
      BY <1>4, <1>6, <2>1, <3>1 DEF ToldInOrder
  <2>2. DOMAIN outbox \subseteq DOMAIN outbox'
    BY <1>4
  <2> QED
    BY <1>6, <2>1, <2>2 DEF StoryInOrder
<1> QED
  BY <1>7, <1>8, <1>9, <1>11, <1>12

\* Reading a batch: with an event, the pending ones older than it.
LEMMA LoadOK ==
  ASSUME IInv, NEW s \in Servers, LoadPendingEvents(s)
  PROVE  IInv'
<1> USE DEF IInv
<1>1. /\ UNCHANGED <<outbox, feed>>
      /\ worker' = [worker EXCEPT ![s] = [pc |-> "commit", batch |-> Oldest(Pending)]]
  BY DEF LoadPendingEvents, database
<1>2. Oldest(Pending) \subseteq Pending /\ Pending \subseteq DOMAIN outbox
      /\ DOMAIN outbox \subseteq Nat
  BY DEF Oldest, Pending, TypeOK
<1>3. ASSUME NEW f \in Oldest(Pending), NEW e \in Pending, e < f
      PROVE  e \in Oldest(Pending)
  <2> DEFINE Older(x) == {k \in Pending : k < x}
  <2>1. e \in Nat /\ f \in Nat /\ \A k \in Pending : k \in Nat
    BY <1>2
  <2>2. Older(e) \subseteq Older(f)
    <3> SUFFICES ASSUME NEW k \in Pending, k < e PROVE k < f
      OBVIOUS
    <3> QED
      BY <1>3, <2>1
  <2>3. IsFiniteSet(Older(f))
    <3>1. Older(f) \subseteq 0..f
      <4> SUFFICES ASSUME NEW k \in Pending, k < f PROVE k \in 0..f
        OBVIOUS
      <4> QED
        BY <2>1
    <3>2. IsFiniteSet(0..f)
      BY <2>1, FS_Interval
    <3> QED
      BY <3>1, <3>2, FS_Subset
  <2>4. /\ Cardinality(Older(e)) <= Cardinality(Older(f))
        /\ Cardinality(Older(e)) \in Nat /\ Cardinality(Older(f)) \in Nat
    BY <2>2, <2>3, FS_Subset, FS_CardinalityType
  <2>5. Cardinality(Older(f)) < Batch
    BY DEF Oldest
  <2> QED
    BY <2>4, <2>5, FeedAssumption DEF Oldest
<1>4. TypeOK'
  BY <1>1, <1>2 DEF TypeOK, Workers
<1>5. BatchOK'
  <2>1. \A q \in Servers : worker'[q].batch = IF q = s THEN Oldest(Pending) ELSE worker[q].batch
    BY <1>1 DEF TypeOK
  <2>2. \A f \in Oldest(Pending), e \in DOMAIN outbox :
          e < f => e \in Oldest(Pending) \/ outbox[e].processed
    BY <1>3 DEF Pending
  <2> QED
    BY <1>1, <1>2, <2>1, <2>2 DEF BatchOK
<1>6. CompletedIsNotified' /\ StoryInOrder' /\ KeysAreUnique'
  BY <1>1 DEF CompletedIsNotified, Notified, StoryInOrder, ToldInOrder, KeysAreUnique
<1> QED
  BY <1>4, <1>5, <1>6

\* The transaction of an event all whose elders are completed.
LEMMA CommitRowsOK ==
  ASSUME IInv, NEW e \in DOMAIN outbox, CommitRows(outbox[e]),
         \A d \in DOMAIN outbox : d < e => outbox[d].processed
  PROVE  /\ outbox' \in Seq(Events) /\ feed' \in Seq(Rows)
         /\ DOMAIN outbox' = DOMAIN outbox /\ outbox'[e].processed
         /\ \A d \in DOMAIN outbox : outbox[d].processed => outbox'[d].processed
         /\ KeysAreUnique' /\ CompletedIsNotified' /\ StoryInOrder'
<1> USE DEF IInv
<1>1. /\ outbox \in Seq(Events) /\ DOMAIN outbox = 1..Len(outbox) /\ Len(outbox) \in Nat
      /\ feed \in Seq(Rows) /\ DOMAIN feed = 1..Len(feed) /\ Len(feed) \in Nat
  BY DEF TypeOK
<1>2. \A d \in DOMAIN outbox :
        outbox'[d] = IF d = e THEN [outbox[d] EXCEPT !.processed = TRUE] ELSE outbox[d]
  BY DEF CommitRows, Completed, KeysAreUnique
<1>3. DOMAIN outbox' = DOMAIN outbox
  BY DEF CommitRows, Completed
<1>4. \A d \in DOMAIN outbox : outbox[d] \in Events
  BY <1>1
<1>5. \A d \in DOMAIN outbox :
        /\ outbox'[d] \in Events
        /\ KeyOf(outbox'[d]) = KeyOf(outbox[d]) /\ outbox'[d].attempt = outbox[d].attempt
        /\ outbox'[d].processed <=> outbox[d].processed \/ d = e
  <2> SUFFICES ASSUME NEW d \in DOMAIN outbox
               PROVE  /\ outbox'[d] \in Events
                      /\ KeyOf(outbox'[d]) = KeyOf(outbox[d])
                      /\ outbox'[d].attempt = outbox[d].attempt
                      /\ outbox'[d].processed <=> outbox[d].processed \/ d = e
    OBVIOUS
  <2>1. CASE d = e
    BY <1>2, <1>4, <2>1 DEF Events, KeyOf
  <2>2. CASE d # e
    BY <1>2, <1>4, <2>2
  <2> QED
    BY <2>1, <2>2
<1>6. outbox' \in Seq(Events)
  <2>1. outbox' = [d \in 1..Len(outbox) |-> outbox'[d]]
    BY <1>1, <1>3 DEF CommitRows, Completed
  <2> QED
    BY <1>1, <1>5, <2>1
<1> DEFINE row == [attempt |-> outbox[e].attempt, status |-> outbox[e].status, read |-> FALSE]
<1>7. row \in Rows /\ KeyOf(row) = KeyOf(outbox[e])
  BY <1>4 DEF Rows, Events, KeyOf
<1>8. feed' = IF KeyOf(outbox[e]) \notin Notified THEN Append(feed, row) ELSE feed
  BY DEF CommitRows, Inserted
<1> HIDE DEF row
<1>9. KeysAreUnique'
  BY <1>3, <1>5 DEF KeysAreUnique
<1>10. ASSUME NEW f \in DOMAIN outbox, NEW j \in DOMAIN feed, ToldInOrder(f, j),
              NEW g, DOMAIN feed \subseteq DOMAIN g,
              \A i \in DOMAIN feed : g[i] = feed[i], feed' = g
       PROVE  ToldInOrder(f, j)'
  <2>1. f \in Nat /\ (\A d \in 1..f - 1 : d \in DOMAIN outbox) /\ j \in Nat
        /\ (\A i \in 1..j - 1 : i \in DOMAIN feed)
    BY <1>1
  <2> QED
    BY <1>5, <1>10, <2>1 DEF ToldInOrder
<1>11. CASE KeyOf(outbox[e]) \in Notified
  <2>1. feed' = feed
    BY <1>8, <1>11
  <2>2. Notified' = Notified
    BY <2>1 DEF Notified
  <2>3. CompletedIsNotified'
    BY <1>3, <1>5, <1>11, <2>2 DEF CompletedIsNotified
  <2>4. StoryInOrder'
    BY <1>3, <1>10, <2>1 DEF StoryInOrder
  <2> QED
    BY <1>1, <1>3, <1>5, <1>6, <1>9, <2>1, <2>3, <2>4
<1>12. CASE KeyOf(outbox[e]) \notin Notified
  <2>0. PICK new \in Nat : new = Len(feed) + 1
    BY <1>1
  <2>1. /\ feed' = Append(feed, row) /\ feed' \in Seq(Rows) /\ DOMAIN feed' = 1..new
        /\ feed'[new] = row /\ \A i \in DOMAIN feed : feed'[i] = feed[i]
    BY <1>1, <1>7, <1>8, <1>12, <2>0
  <2>2. Notified' = Notified \cup {KeyOf(outbox[e])}
    <3>1. \A i \in DOMAIN feed' : i = new \/ i \in DOMAIN feed
      BY <1>1, <2>0, <2>1
    <3>2. DOMAIN feed \subseteq DOMAIN feed' /\ new \in DOMAIN feed'
      BY <1>1, <2>0, <2>1
    <3> QED
      BY <1>7, <2>1, <3>1, <3>2 DEF Notified
  <2>3. CompletedIsNotified'
    BY <1>3, <1>5, <2>2 DEF CompletedIsNotified, KeysAreUnique
  <2>4. \A i, j \in DOMAIN feed' : KeyOf(feed'[i]) = KeyOf(feed'[j]) => i = j
    BY <1>1, <1>7, <1>12, <2>0, <2>1 DEF Notified, StoryInOrder
  <2>5. ToldInOrder(e, new)'
    <3>1. KeyOf(outbox'[e]) = KeyOf(feed'[new])
      BY <1>5, <1>7, <2>1
    <3>2. \A d \in 1..e - 1 : d \in DOMAIN outbox /\ KeyOf(outbox[d]) \in Notified
      BY <1>1 DEF CompletedIsNotified
    <3>3. \A d \in 1..e - 1 : \E i \in 1..new - 1 : KeyOf(feed'[i]) = KeyOf(outbox'[d])
      BY <1>1, <1>5, <2>0, <2>1, <3>2 DEF Notified
    <3> QED
      BY <3>1, <3>3 DEF ToldInOrder
  <2>6. \A j \in DOMAIN feed' : \E f \in DOMAIN outbox' : ToldInOrder(f, j)'
    <3>1. ASSUME NEW j \in DOMAIN feed PROVE \E f \in DOMAIN outbox' : ToldInOrder(f, j)'
      <4>1. PICK f \in DOMAIN outbox : ToldInOrder(f, j)
        BY DEF StoryInOrder
      <4>2. DOMAIN feed \subseteq DOMAIN feed'
        BY <1>1, <2>0, <2>1
      <4>3. ToldInOrder(f, j)'
        BY <1>10, <2>1, <4>1, <4>2
      <4> QED
        BY <1>3, <4>3
    <3> QED
      BY <1>1, <1>3, <2>0, <2>1, <2>5, <3>1
  <2> QED
    BY <1>1, <1>3, <1>5, <1>6, <1>9, <2>1, <2>3, <2>4, <2>6 DEF StoryInOrder
<1> QED
  BY <1>11, <1>12

\* The event a process is at has no elder waiting.
LEMMA EldersAreDone ==
  ASSUME IInv, NEW s \in Servers, NEW e \in DOMAIN outbox, IsNext(s, e)
  PROVE  \A d \in DOMAIN outbox : d < e => outbox[d].processed
<1>1. e \in Nat /\ \A d \in DOMAIN outbox : d \in Nat
  BY DEF IInv, TypeOK
<1> QED
  BY <1>1 DEF IInv, BatchOK, IsNext

\* A process that has committed goes on with less of its batch, or rests.
LEMMA WorkerGoesOn ==
  ASSUME IInv, NEW s \in Servers, NEW w \in Workers, worker' = [worker EXCEPT ![s] = w],
         DOMAIN outbox' = DOMAIN outbox,
         \A d \in DOMAIN outbox : outbox[d].processed => outbox'[d].processed,
         \A d \in worker[s].batch \ w.batch : w.batch # {} => outbox'[d].processed,
         w.batch \subseteq worker[s].batch
  PROVE  worker' \in [Servers -> Workers] /\ BatchOK'
<1>1. \A q \in Servers : worker'[q] = IF q = s THEN w ELSE worker[q]
  BY DEF IInv, TypeOK
<1> QED
  BY <1>1 DEF IInv, TypeOK, BatchOK

LEMMA RestingOK == Resting \in Workers /\ Resting.batch = {}
  BY DEF Resting, Workers

LEMMA CommitOK ==
  ASSUME IInv, NEW s \in Servers, Commit(s)
  PROVE  IInv'
<1>1. PICK e \in DOMAIN outbox :
        /\ IsNext(s, e) /\ CommitRows(outbox[e])
        /\ worker' = [worker EXCEPT ![s] = Continued(s, e)]
  BY DEF Commit
<1>2. /\ outbox' \in Seq(Events) /\ feed' \in Seq(Rows)
      /\ DOMAIN outbox' = DOMAIN outbox /\ outbox'[e].processed
      /\ \A d \in DOMAIN outbox : outbox[d].processed => outbox'[d].processed
      /\ KeysAreUnique' /\ CompletedIsNotified' /\ StoryInOrder'
  BY <1>1, CommitRowsOK, EldersAreDone
<1> DEFINE w == Continued(s, e)
<1>3. worker[s].batch \in SUBSET Nat
  BY DEF IInv, TypeOK, Workers
<1>4. w \in Workers /\ (w.batch = {} \/ w.batch = worker[s].batch \ {e})
  BY <1>3, RestingOK DEF Continued, Workers
<1> HIDE DEF w
<1>5. \A d \in worker[s].batch \ w.batch : w.batch # {} => outbox'[d].processed
  BY <1>2, <1>4
<1>6. worker' \in [Servers -> Workers] /\ BatchOK'
  <2>1. worker' = [worker EXCEPT ![s] = w] /\ w.batch \subseteq worker[s].batch
    BY <1>1, <1>4 DEF w
  <2> QED
    BY <1>2, <1>4, <1>5, <2>1, WorkerGoesOn
<1> QED
  BY <1>2, <1>6 DEF IInv, TypeOK

\* A process that fails or stops forgets its batch.
LEMMA WorkerRests ==
  ASSUME IInv, NEW s \in Servers, worker' = [worker EXCEPT ![s] = Resting],
         DOMAIN outbox' = DOMAIN outbox,
         \A d \in DOMAIN outbox : outbox[d].processed => outbox'[d].processed
  PROVE  worker' \in [Servers -> Workers] /\ BatchOK'
  BY WorkerGoesOn, RestingOK

LEMMA CommitFailsOK ==
  ASSUME IInv, NEW s \in Servers, CommitFails(s)
  PROVE  IInv'
<1>1. PICK e \in DOMAIN outbox :
        /\ IsNext(s, e) /\ (UNCHANGED database \/ CommitRows(outbox[e]))
        /\ worker' = [worker EXCEPT ![s] = Resting]
  BY DEF CommitFails, AfterFailure
<1>2. CASE UNCHANGED database
  <2>1. worker' \in [Servers -> Workers] /\ BatchOK'
    BY <1>1, <1>2, WorkerRests DEF database
  <2> QED
    BY <1>2, <2>1 DEF database, IInv, TypeOK, KeysAreUnique, CompletedIsNotified, Notified,
                      StoryInOrder, ToldInOrder
<1>3. CASE CommitRows(outbox[e])
  <2>1. /\ outbox' \in Seq(Events) /\ feed' \in Seq(Rows)
        /\ DOMAIN outbox' = DOMAIN outbox
        /\ \A d \in DOMAIN outbox : outbox[d].processed => outbox'[d].processed
        /\ KeysAreUnique' /\ CompletedIsNotified' /\ StoryInOrder'
    BY <1>1, <1>3, CommitRowsOK, EldersAreDone
  <2>2. worker' \in [Servers -> Workers] /\ BatchOK'
    BY <1>1, <2>1, WorkerRests
  <2> QED
    BY <2>1, <2>2 DEF IInv, TypeOK
<1> QED
  BY <1>1, <1>2, <1>3

LEMMA RestartOK ==
  ASSUME IInv, NEW s \in Servers, Restart(s)
  PROVE  IInv'
<1>1. UNCHANGED <<outbox, feed>> /\ worker' = [worker EXCEPT ![s] = Resting]
  BY DEF Restart, database
<1>2. worker' \in [Servers -> Workers] /\ BatchOK'
  BY <1>1, WorkerRests
<1> QED
  BY <1>1, <1>2 DEF IInv, TypeOK, KeysAreUnique, CompletedIsNotified, Notified, StoryInOrder,
                    ToldInOrder

\* The page writes nothing but the marks of its rows.
LEMMA StoreReadOK ==
  ASSUME IInv, StoreRead
  PROVE  IInv'
<1>1. /\ UNCHANGED <<outbox, worker>>
      /\ feed' = [i \in DOMAIN feed |->
                    IF KeyOf(feed[i]) = marking.key THEN WithRead(feed[i]) ELSE feed[i]]
  BY DEF StoreRead
<1>2. feed \in Seq(Rows) /\ DOMAIN feed = 1..Len(feed) /\ Len(feed) \in Nat
  BY DEF IInv, TypeOK
<1>3. \A r \in Rows : WithRead(r) \in Rows /\ KeyOf(WithRead(r)) = KeyOf(r)
  BY DEF WithRead, KeyOf, Rows
<1>4. \A i \in DOMAIN feed : feed'[i] \in Rows /\ KeyOf(feed'[i]) = KeyOf(feed[i])
  BY <1>1, <1>2, <1>3
<1>5. feed' \in Seq(Rows) /\ DOMAIN feed' = DOMAIN feed
  <2>1. feed' = [i \in 1..Len(feed) |-> feed'[i]]
    BY <1>1, <1>2
  <2> QED
    BY <1>2, <1>4, <2>1
<1> QED
  BY <1>1, <1>4, <1>5, FeedFrame

LEMMA PageOK ==
  ASSUME IInv,
         \/ Poll \/ Hide \/ Focus \/ HearRevision \/ ReadFeed \/ ShowFeed \/ RequestFails
         \/ MarkRead \/ ShowRead \/ MarkFails \/ UNCHANGED vars
  PROVE  IInv'
<1>1. UNCHANGED <<outbox, feed, worker>>
  BY DEF Poll, Hide, Focus, HearRevision, ReadFeed, ShowFeed, RequestFails, MarkRead, ShowRead,
         MarkFails, vars, database
<1> QED
  BY <1>1, FeedFrame DEF IInv, TypeOK

LEMMA Inductive == IInv /\ [Next]_vars => IInv'
<1> SUFFICES ASSUME IInv, [Next]_vars PROVE IInv'
  OBVIOUS
<1>1. ASSUME NEW s \in Servers, Dispatch(s) \/ CommitFails(s) \/ Restart(s) PROVE IInv'
  BY <1>1, LoadOK, CommitOK, CommitFailsOK, RestartOK DEF Dispatch
<1> QED
  BY <1>1, TellStateOK, StoreReadOK, PageOK DEF Next

\* An attempt tells a state once, a batch leaves out no elder of its events that
\* is still pending, and outbox and feed agree.
THEOREM InvariantOK == Spec => []IInv
  BY InitOK, Inductive, PTL DEF Spec

\* commitNotificationAndCompleteEvent: the notification and the completion are
\* one transaction, so neither is seen without the other.
THEOREM CompletedHasItsRow == Spec => []CompletedIsNotified
<1>1. IInv => CompletedIsNotified
  BY DEF IInv
<1> QED
  BY <1>1, InvariantOK, PTL

\* dispatchPendingAssistantEvents: whichever processes dispatch the events and
\* however often a pass is cut short, the inbox tells each attempt's states in
\* the order they happened and each of them once.
THEOREM TheStoryIsTold == Spec => []StoryInOrder
<1>1. IInv => StoryInOrder
  BY DEF IInv
<1> QED
  BY <1>1, InvariantOK, PTL
=============================================================================
