----------------------- MODULE LiveConversationProofs -----------------------
(***************************************************************************)
(* Proofs about LiveConversation, for any number of voice jobs and any      *)
(* number of revisions.                                                     *)
(*                                                                         *)
(* The argument.  Everything anybody remembers of the conversation (the     *)
(* page's state, an answer under way, the revision an end-live request       *)
(* names) is stamped with a revision that is not above the row's, and what  *)
(* is stamped with the row's revision is what the server still has: every   *)
(* write but a released claim moves the revision above all the stamps.      *)
(***************************************************************************)
EXTENDS LiveConversation, TLAPS

Modes == {"typed", "live"}
JobRecords == [pc : {"waiting", "starting", "serving", "gone"}, served : BOOLEAN]
VoiceRecords ==
  [phase : {"idle", "binding", "live"}, job : Jobs \cup {NoJob}, revision : Int]
PageRecords ==
  [applied : Int, requested : Int, queued : BOOLEAN, mode : Modes, transfer : Transfers]
FetchRecords ==
  [pc : {"none", "sent", "half", "answered"}, etag : Int, revision : Int, mode : Modes,
   transfer : Transfers]
EndRecords == [pc : {"idle", "sent", "checked"}, expected : Int, ack : BOOLEAN]

Types ==
  /\ row \in [revision : Nat, mode : Modes]
  /\ transfer \in Transfers
  /\ lease \in [holder : Jobs \cup {NoJob}, fresh : BOOLEAN]
  /\ jobs \in [Jobs -> JobRecords]
  /\ voice \in VoiceRecords
  /\ page \in PageRecords
  /\ fetch \in FetchRecords
  /\ end \in EndRecords
  /\ unbumped \in BOOLEAN
  /\ acquiredAt \in Nat

\* What the page shows, what an answer under way carries, what an end-live
\* request counts on.
PageOK ==
  /\ page.applied <= row.revision
  /\ page.applied = row.revision =>
       page.mode = row.mode /\ (unbumped \/ page.transfer = transfer)
FetchOK ==
  fetch.pc \in {"half", "answered"} =>
    /\ fetch.revision <= row.revision
    /\ fetch.revision = row.revision =>
         fetch.mode = row.mode /\ (fetch.pc = "half" \/ unbumped \/ fetch.transfer = transfer)
EndOK ==
  /\ end.pc # "idle" => end.expected <= row.revision
  /\ end.pc = "checked" /\ end.expected = row.revision /\ ~end.ack => transfer = "none"
BoundOK == acquiredAt <= row.revision /\ (lease.fresh => lease.holder \in Jobs)

IInv == Types /\ PageOK /\ FetchOK /\ EndOK /\ BoundOK

-----------------------------------------------------------------------------
(* The page's requests                                                     *)

LEMMA NoFetchType == NoFetch \in FetchRecords /\ NoFetch.pc = "none"
  BY DEF NoFetch, FetchRecords, Modes, Transfers, Never

LEMMA AskingFields ==
  ASSUME NEW p \in PageRecords
  PROVE  Asking(p) \in FetchRecords /\ Asking(p).pc = "sent"
<1> DEFINE e == IF p.requested > p.applied THEN Never ELSE p.applied
           Ask(x) == [NoFetch EXCEPT !.pc = "sent", !.etag = x]
<1>1. e \in Int
  BY DEF PageRecords, Never
<1> HIDE DEF e
<1>2. \A x \in Int : Ask(x) \in FetchRecords /\ Ask(x).pc = "sent"
  BY NoFetchType DEF FetchRecords
<1> QED
  BY <1>1, <1>2 DEF Asking, e

\* A step of the page that shows nothing new and takes no answer.
PageStays ==
  /\ page' \in PageRecords /\ fetch' \in FetchRecords
  /\ page'.applied = page.applied /\ page'.mode = page.mode /\ page'.transfer = page.transfer
  /\ fetch' = fetch \/ fetch'.pc \in {"none", "sent"}

LEMMA Requesting ==
  ASSUME NEW p \in PageRecords, NEW r \in Int
  PROVE  LET q == [p EXCEPT !.requested = Later(@, r)] IN
           /\ q \in PageRecords
           /\ q.applied = p.applied /\ q.mode = p.mode /\ q.transfer = p.transfer
<1> DEFINE With(x) == [p EXCEPT !.requested = x]
<1>1. \A x \in Int : /\ With(x) \in PageRecords
                     /\ With(x).applied = p.applied /\ With(x).mode = p.mode
                     /\ With(x).transfer = p.transfer
  BY DEF PageRecords
<1>2. Later(p.requested, r) \in Int
  BY DEF PageRecords, Later
<1> QED
  BY <1>1, <1>2

LEMMA Queueing ==
  ASSUME NEW p \in PageRecords, NEW b \in BOOLEAN
  PROVE  LET q == [p EXCEPT !.queued = b] IN
           /\ q \in PageRecords
           /\ q.applied = p.applied /\ q.mode = p.mode /\ q.transfer = p.transfer
  BY DEF PageRecords

LEMMA RefreshStays ==
  ASSUME Types, NEW r \in Int, Refresh(page, r)
  PROVE  PageStays
<1> DEFINE q == [page EXCEPT !.requested = Later(@, r)]
           b == [q EXCEPT !.queued = TRUE]
<1>1. /\ q \in PageRecords
      /\ q.applied = page.applied /\ q.mode = page.mode /\ q.transfer = page.transfer
  BY Requesting DEF Types
<1>2. /\ b \in PageRecords
      /\ b.applied = q.applied /\ b.mode = q.mode /\ b.transfer = q.transfer
  <2> HIDE DEF q
  <2> QED
    BY <1>1, Queueing
<1>3. Asking(q) \in FetchRecords /\ Asking(q).pc = "sent"
  <2> HIDE DEF q
  <2> QED
    BY <1>1, AskingFields
<1>4. \/ page' = q /\ fetch' = Asking(q)
      \/ page' = b /\ fetch' = fetch
  BY DEF Refresh
<1> HIDE DEF q, b
<1>5. CASE page' = q /\ fetch' = Asking(q)
  BY <1>1, <1>3, <1>5 DEF PageStays
<1>6. CASE page' = b /\ fetch' = fetch
  BY <1>1, <1>2, <1>6 DEF PageStays, Types
<1> QED
  BY <1>4, <1>5, <1>6

LEMMA UntouchedStays == ASSUME Types, UNCHANGED <<page, fetch>> PROVE PageStays
  BY DEF Types, PageStays

LEMMA RevisionStays ==
  ASSUME Types, NEW r \in Int, RefreshRevision(r)
  PROVE  PageStays
  BY RefreshStays, UntouchedStays DEF RefreshRevision

LEMMA FinallyFields ==
  ASSUME NEW p \in PageRecords, Finally(p)
  PROVE  /\ page' \in PageRecords /\ fetch' \in FetchRecords
         /\ page'.applied = p.applied /\ page'.mode = p.mode /\ page'.transfer = p.transfer
         /\ fetch'.pc \in {"none", "sent"}
<1> DEFINE q == [p EXCEPT !.queued = FALSE]
<1>1. /\ q \in PageRecords
      /\ q.applied = p.applied /\ q.mode = p.mode /\ q.transfer = p.transfer
  BY Queueing
<1>2. \/ page' = q /\ fetch' = Asking(q)
      \/ page' = p /\ fetch' = NoFetch
  BY DEF Finally
<1> HIDE DEF q
<1> QED
  BY <1>1, <1>2, AskingFields, NoFetchType

\* An older state is dropped, a newer one replaces what is shown.
LEMMA ApplyingFields ==
  ASSUME NEW p \in PageRecords, NEW s, s.revision \in Int, s.mode \in Modes,
         s.transfer \in Transfers
  PROVE  /\ Applying(p, s) \in PageRecords
         /\ s.revision <= p.applied => Applying(p, s) = p
         /\ s.revision > p.applied =>
              /\ Applying(p, s).applied = s.revision /\ Applying(p, s).mode = s.mode
              /\ Applying(p, s).transfer = s.transfer
<1> DEFINE New(x) == [p EXCEPT !.applied = s.revision, !.mode = s.mode, !.transfer = s.transfer,
                               !.requested = x]
           x0 == IF p.requested <= s.revision THEN Never ELSE p.requested
<1>1. x0 \in Int
  BY DEF PageRecords, Never
<1>2. \A x \in Int : /\ New(x) \in PageRecords
                     /\ New(x).applied = s.revision /\ New(x).mode = s.mode
                     /\ New(x).transfer = s.transfer
  BY DEF PageRecords
<1>3. s.revision <= p.applied => Applying(p, s) = p
  BY DEF Applying
<1>4. ~(s.revision <= p.applied) => Applying(p, s) = New(x0)
  BY DEF Applying
<1>5. p.applied \in Int
  BY DEF PageRecords
<1> HIDE DEF New, x0
<1> QED
  BY <1>1, <1>2, <1>3, <1>4, <1>5

-----------------------------------------------------------------------------
(* The stamps                                                              *)

\* A new revision is above every stamp.
LEMMA BumpHolds ==
  ASSUME IInv, NEW mode \in Modes, Bump(mode), PageStays, end' \in {end, NoEnd},
         transfer' \in Transfers
  PROVE  /\ PageOK' /\ FetchOK' /\ EndOK' /\ row' \in [revision : Nat, mode : Modes]
         /\ row'.revision = row.revision + 1 /\ unbumped' = FALSE
<1>1. row.revision \in Nat /\ row' = [revision |-> row.revision + 1, mode |-> mode]
  BY DEF IInv, Types, Bump
<1>2. row'.revision = row.revision + 1 /\ row' \in [revision : Nat, mode : Modes]
  BY <1>1
<1>3. page.applied \in Int /\ fetch.revision \in Int /\ end.expected \in Int
  BY DEF IInv, Types, PageRecords, FetchRecords, EndRecords
<1>4. PageOK'
  BY <1>1, <1>2, <1>3 DEF IInv, PageOK, PageStays
<1>5. FetchOK'
  BY <1>1, <1>2, <1>3 DEF IInv, FetchOK, PageStays
<1>6. EndOK'
  BY <1>1, <1>2, <1>3 DEF IInv, EndOK, NoEnd
<1> QED
  BY <1>2, <1>4, <1>5, <1>6 DEF Bump

\* Nothing on the server moved.
LEMMA ServerStays ==
  ASSUME IInv, PageStays, UNCHANGED <<row, transfer, unbumped>>, end' \in {end, NoEnd}
  PROVE  PageOK' /\ FetchOK' /\ EndOK'
<1>1. PageOK' /\ FetchOK'
  BY DEF IInv, PageOK, FetchOK, PageStays
<1>2. EndOK'
  BY DEF IInv, EndOK, NoEnd
<1> QED
  BY <1>1, <1>2

LEMMA Untouched ==
  ASSUME IInv, UNCHANGED <<row, transfer, unbumped, page, fetch, end>>
  PROVE  PageOK' /\ FetchOK' /\ EndOK' /\ PageStays
<1>1. PageStays
  BY UntouchedStays DEF IInv
<1> QED
  BY <1>1, ServerStays

LEMMA WorkKeeps == ASSUME IInv, Work PROVE IInv'
<1>1. /\ transfer' \in Transfers /\ Bump(row.mode) /\ row.mode \in Modes
      /\ UNCHANGED <<lease, jobs, voice, page, fetch, end, acquiredAt>>
  BY DEF Work, IInv, Types
<1>2. PageStays
  BY <1>1, UntouchedStays DEF IInv
<1>3. /\ PageOK' /\ FetchOK' /\ EndOK' /\ row' \in [revision : Nat, mode : Modes]
      /\ row'.revision = row.revision + 1 /\ unbumped' = FALSE
  BY <1>1, <1>2, BumpHolds
<1>4. Types'
  BY <1>1, <1>3 DEF IInv, Types, Bump
<1>5. acquiredAt \in Nat /\ row.revision \in Nat
  BY DEF IInv, Types
<1>6. BoundOK'
  BY <1>1, <1>3, <1>5 DEF IInv, BoundOK
<1> QED
  BY <1>3, <1>4, <1>6 DEF IInv

LEMMA ReleaseKeeps == ASSUME IInv, ReleaseClaim PROVE IInv'
<1>1. /\ transfer = "broadcasting" /\ transfer' = "previewed" /\ unbumped' = TRUE
      /\ UNCHANGED <<row, lease, jobs, voice, page, fetch, end, acquiredAt>>
  BY DEF ReleaseClaim
<1>2. Types'
  BY <1>1 DEF IInv, Types, Transfers
<1>3. PageOK' /\ FetchOK' /\ EndOK' /\ BoundOK'
  BY <1>1 DEF IInv, PageOK, FetchOK, EndOK, BoundOK
<1> QED
  BY <1>2, <1>3 DEF IInv

\* The row is read before the attempt: what is read after it is newer.
LEMMA ReadKeeps == ASSUME IInv, ReadFirst \/ ReadLast PROVE IInv'
<1>1. UNCHANGED <<row, transfer, lease, jobs, voice, page, end, unbumped, acquiredAt>>
  BY DEF ReadFirst, ReadLast
<1>2. PageOK' /\ EndOK' /\ BoundOK'
  BY <1>1 DEF IInv, PageOK, EndOK, BoundOK
<1>3. fetch' \in FetchRecords /\ FetchOK'
  <2>1. fetch \in FetchRecords /\ row.revision \in Int /\ row.mode \in Modes /\ transfer \in Transfers
    BY DEF IInv, Types
  <2>2. CASE ReadFirst
    <3> DEFINE n == [fetch EXCEPT !.revision = row.revision, !.mode = row.mode, !.pc = "half"]
    <3>1. n \in FetchRecords /\ n.pc = "half" /\ n.revision = row.revision /\ n.mode = row.mode
      BY <2>1 DEF FetchRecords
    <3>2. fetch' = n
      BY <2>2 DEF ReadFirst, Reading, InspectOrder
    <3> HIDE DEF n
    <3> QED
      BY <1>1, <2>1, <3>1, <3>2 DEF FetchOK
  <2>3. CASE ReadLast
    <3> DEFINE n == [fetch EXCEPT !.transfer = transfer, !.pc = "answered"]
    <3>1. n \in FetchRecords /\ n.pc = "answered" /\ n.revision = fetch.revision
          /\ n.mode = fetch.mode /\ n.transfer = transfer
      BY <2>1 DEF FetchRecords
    <3>2. fetch' = n /\ fetch.pc = "half"
      BY <2>3 DEF ReadLast, Reading, InspectOrder
    <3> HIDE DEF n
    <3> QED
      BY <1>1, <2>1, <3>1, <3>2 DEF FetchOK, IInv
  <2> QED
    BY <2>2, <2>3
<1> QED
  BY <1>1, <1>2, <1>3 DEF IInv, Types

LEMMA AnswerKeeps == ASSUME IInv, FetchDone \/ FetchFails PROVE IInv'
<1>1. /\ UNCHANGED <<row, transfer, lease, jobs, voice, end, unbumped, acquiredAt>>
      /\ fetch.pc = "answered" /\ fetch \in FetchRecords /\ page \in PageRecords
  BY DEF FetchDone, FetchFails, IInv, Types
<1>2. fetch.revision \in Int /\ fetch.mode \in Modes /\ fetch.transfer \in Transfers
      /\ row.revision \in Nat /\ page.applied \in Int
  BY <1>1 DEF FetchRecords, IInv, Types, PageRecords
<1>3. PICK p : p \in {page, Applying(page, fetch)} /\ Finally(p)
  BY DEF FetchDone, FetchFails
<1>4. p \in PageRecords
  BY <1>1, <1>2, <1>3, ApplyingFields
<1>5. /\ page' \in PageRecords /\ fetch' \in FetchRecords
      /\ page'.applied = p.applied /\ page'.mode = p.mode /\ page'.transfer = p.transfer
      /\ fetch'.pc \in {"none", "sent"}
  BY <1>3, <1>4, FinallyFields
<1>6. FetchOK'
  BY <1>5 DEF FetchOK
<1>7. PageOK'
  <2>1. CASE p = page
    BY <1>1, <1>5, <2>1 DEF IInv, PageOK
  <2>2. CASE p = Applying(page, fetch) /\ p # page
    <3>1. p.applied = fetch.revision /\ p.mode = fetch.mode /\ p.transfer = fetch.transfer
      BY <1>1, <1>2, <2>2, ApplyingFields
    <3>2. /\ fetch.revision <= row.revision
          /\ fetch.revision = row.revision =>
               fetch.mode = row.mode /\ (unbumped \/ fetch.transfer = transfer)
      BY <1>1 DEF IInv, FetchOK
    <3> QED
      BY <1>1, <1>5, <3>1, <3>2 DEF PageOK
  <2> QED
    BY <1>3, <2>1, <2>2
<1>8. EndOK' /\ BoundOK'
  BY <1>1 DEF IInv, EndOK, BoundOK
<1> QED
  BY <1>1, <1>5, <1>6, <1>7, <1>8 DEF IInv, Types

LEMMA AskKeeps == ASSUME IInv, Poll \/ Reconnected \/ Hear PROVE IInv'
<1>1. UNCHANGED <<row, transfer, lease, jobs, voice, end, unbumped, acquiredAt>>
  BY DEF Poll, Reconnected, Hear
<1>2. Never \in Int /\ row.revision \in Nat
  BY DEF Never, IInv, Types
<1>3. PageStays
  BY <1>2, RefreshStays, RevisionStays DEF Poll, Reconnected, Hear, IInv
<1>4. PageOK' /\ FetchOK' /\ EndOK'
  BY <1>1, <1>3, ServerStays
<1> QED
  BY <1>1, <1>3, <1>4 DEF IInv, Types, BoundOK, PageStays

-----------------------------------------------------------------------------
(* The jobs and the lease                                                  *)

LEMMA JobRecordsOK ==
  ASSUME NEW job \in JobRecords
  PROVE  /\ Unbound(job) \in JobRecords /\ Over \in JobRecords
         /\ [job EXCEPT !.pc = "starting"] \in JobRecords
         /\ [pc |-> "serving", served |-> TRUE] \in JobRecords
         /\ Over.pc = "gone" /\ Unbound(job).pc \in {"serving", "gone"}
  BY DEF JobRecords, Unbound, Over

LEMMA SilentType == Silent \in VoiceRecords
  BY DEF Silent, VoiceRecords

LEMMA LeaseTypes ==
  /\ NoLease \in [holder : Jobs \cup {NoJob}, fresh : BOOLEAN] /\ ~NoLease.fresh
  /\ NoLease.holder = NoJob
  /\ \A j \in Jobs : /\ [holder |-> j, fresh |-> TRUE] \in [holder : Jobs \cup {NoJob}, fresh : BOOLEAN]
                     /\ [holder |-> j, fresh |-> TRUE].holder = j
  BY DEF NoLease

LEMMA BindKeeps == ASSUME IInv, NEW j \in Jobs, Bind(j) PROVE IInv'
<1>1. UNCHANGED <<transfer, page, fetch, end>>
  BY DEF Bind
<1>2. /\ jobs \in [Jobs -> JobRecords] /\ voice \in VoiceRecords /\ row.revision \in Nat
      /\ transfer \in Transfers
  BY DEF IInv, Types
<1>3. PageStays
  BY <1>1, UntouchedStays DEF IInv
<1>4. CASE BindAccepted(j)
  <2>1. /\ Bump("live") /\ lease' = [holder |-> j, fresh |-> TRUE]
        /\ acquiredAt' = row.revision + 1
        /\ jobs' = [jobs EXCEPT ![j] = [jobs[j] EXCEPT !.pc = "starting"]]
        /\ voice' = [voice EXCEPT !.job = j, !.revision = row.revision + 1]
    BY <1>4 DEF BindAccepted
  <2>2. /\ PageOK' /\ FetchOK' /\ EndOK' /\ row' \in [revision : Nat, mode : Modes]
        /\ row'.revision = row.revision + 1 /\ unbumped' = FALSE
    BY <1>1, <1>2, <1>3, <2>1, BumpHolds DEF Modes
  <2>3. jobs' \in [Jobs -> JobRecords]
    BY <1>2, <2>1, JobRecordsOK
  <2>4. voice' \in VoiceRecords
    <3>1. row.revision + 1 \in Int
      BY <1>2
    <3> QED
      BY <1>2, <2>1, <3>1 DEF VoiceRecords
  <2>5. acquiredAt' \in Nat /\ acquiredAt' <= row'.revision
    BY <1>2, <2>1, <2>2
  <2>6. BoundOK'
    BY <2>1, <2>5, LeaseTypes DEF BoundOK
  <2>7. lease' \in [holder : Jobs \cup {NoJob}, fresh : BOOLEAN]
    BY <2>1, LeaseTypes
  <2>8. Types'
    BY <1>1, <2>2, <2>3, <2>4, <2>5, <2>7 DEF IInv, Types
  <2> QED
    BY <2>2, <2>6, <2>8 DEF IInv
<1>5. CASE BindRefused(j)
  <2>1. /\ jobs' = [jobs EXCEPT ![j] = Unbound(jobs[j])] /\ voice' = Silent
        /\ UNCHANGED <<row, lease, unbumped, acquiredAt>>
    BY <1>5 DEF BindRefused
  <2>2. jobs' \in [Jobs -> JobRecords]
    BY <1>2, <2>1, JobRecordsOK
  <2>3. PageOK' /\ FetchOK' /\ EndOK'
    BY <1>1, <1>3, <2>1, ServerStays
  <2>4. Types' /\ BoundOK'
    BY <1>1, <2>1, <2>2, SilentType DEF IInv, Types, BoundOK
  <2> QED
    BY <2>3, <2>4 DEF IInv
<1> QED
  BY <1>4, <1>5 DEF Bind

LEMMA StartKeeps == ASSUME IInv, NEW j \in Jobs, Start(j) PROVE IInv'
<1>1. /\ UNCHANGED <<row, transfer, lease, end, unbumped, acquiredAt>>
      /\ jobs' = [jobs EXCEPT ![j] = [pc |-> "serving", served |-> TRUE]]
  BY DEF Start
<1>2. jobs' \in [Jobs -> JobRecords]
  BY <1>1, JobRecordsOK DEF IInv, Types
<1>3. voice \in VoiceRecords /\ voice.revision \in Int
  BY DEF IInv, Types, VoiceRecords
<1>4. PageStays
  BY <1>3, RevisionStays, UntouchedStays DEF Start, IInv
<1>5. voice' \in VoiceRecords
  <2> DEFINE Live(r) == [voice EXCEPT !.phase = "live", !.revision = r]
  <2>1. \A r \in Int : Live(r) \in VoiceRecords
    <3>1. "live" \in {"idle", "binding", "live"}
      OBVIOUS
    <3> QED
      BY <1>3, <3>1 DEF VoiceRecords
  <2>2. voice' \in {voice, Live(0)}
    BY DEF Start
  <2> HIDE DEF Live
  <2> QED
    BY <1>3, <2>1, <2>2
<1>6. PageOK' /\ FetchOK' /\ EndOK'
  BY <1>1, <1>4, ServerStays
<1>7. Types' /\ BoundOK'
  BY <1>1, <1>2, <1>4, <1>5 DEF IInv, Types, BoundOK, PageStays
<1> QED
  BY <1>6, <1>7 DEF IInv

\* A job gives up its own lease and no other.
LEMMA ReleaseHolds ==
  ASSUME IInv, NEW j \in Jobs, Release(j), UNCHANGED <<transfer, page, fetch, end, acquiredAt>>
  PROVE  /\ PageOK' /\ FetchOK' /\ EndOK' /\ BoundOK'
         /\ row' \in [revision : Nat, mode : Modes] /\ unbumped' \in BOOLEAN
         /\ lease' \in [holder : Jobs \cup {NoJob}, fresh : BOOLEAN]
<1>1. CASE Owns(j)
  <2>1. lease' = NoLease /\ Bump("typed")
    BY <1>1 DEF Release
  <2>2. PageStays /\ "typed" \in Modes /\ transfer \in Transfers
    BY UntouchedStays DEF IInv, Modes, Types
  <2>3. /\ PageOK' /\ FetchOK' /\ EndOK' /\ row' \in [revision : Nat, mode : Modes]
        /\ row'.revision = row.revision + 1 /\ unbumped' = FALSE
    BY <2>1, <2>2, BumpHolds
  <2>4. acquiredAt \in Nat /\ row.revision \in Nat
    BY DEF IInv, Types
  <2>5. BoundOK'
    BY <2>1, <2>3, <2>4, LeaseTypes DEF IInv, BoundOK
  <2> QED
    BY <2>1, <2>3, <2>5, LeaseTypes
<1>2. CASE ~Owns(j)
  <2>1. UNCHANGED <<lease, row, unbumped>>
    BY <1>2 DEF Release
  <2>2. PageOK' /\ FetchOK' /\ EndOK'
    BY <2>1, Untouched
  <2> QED
    BY <2>1, <2>2 DEF IInv, Types, BoundOK
<1> QED
  BY <1>1, <1>2

LEMMA StopKeeps ==
  ASSUME IInv, NEW j \in Jobs, StartFails(j) \/ Stop(j)
  PROVE  IInv'
<1>1. /\ Release(j) /\ UNCHANGED <<transfer, page, fetch, end, acquiredAt>>
      /\ jobs' = [jobs EXCEPT ![j] = Unbound(jobs[j])] \/ jobs' = [jobs EXCEPT ![j] = Over]
      /\ voice' \in {voice, Silent}
  BY DEF StartFails, Stop
<1>2. /\ PageOK' /\ FetchOK' /\ EndOK' /\ BoundOK'
      /\ row' \in [revision : Nat, mode : Modes] /\ unbumped' \in BOOLEAN
      /\ lease' \in [holder : Jobs \cup {NoJob}, fresh : BOOLEAN]
  BY <1>1, ReleaseHolds
<1>3. jobs' \in [Jobs -> JobRecords]
  <2>1. jobs \in [Jobs -> JobRecords] /\ jobs[j] \in JobRecords
    BY DEF IInv, Types
  <2>2. Unbound(jobs[j]) \in JobRecords /\ Over \in JobRecords
    BY <2>1, JobRecordsOK
  <2> QED
    BY <1>1, <2>1, <2>2
<1>4. voice' \in VoiceRecords
  BY <1>1, SilentType DEF IInv, Types
<1> QED
  BY <1>1, <1>2, <1>3, <1>4 DEF IInv, Types

LEMMA AwayKeeps ==
  ASSUME IInv, (\E j \in Jobs : Crash(j)) \/ Lapse \/ Connect \/ Disconnect
  PROVE  IInv'
<1>1. UNCHANGED <<row, transfer, page, fetch, end, unbumped, acquiredAt>>
  BY DEF Crash, Lapse, Connect, Disconnect
<1>2. jobs' \in [Jobs -> JobRecords]
  BY JobRecordsOK DEF Crash, Lapse, Connect, Disconnect, IInv, Types
<1>3. voice' \in VoiceRecords
  BY SilentType DEF Crash, Lapse, Connect, Disconnect, IInv, Types, VoiceRecords
<1>4. /\ lease' \in [holder : Jobs \cup {NoJob}, fresh : BOOLEAN]
      /\ lease'.fresh => lease.fresh /\ lease' = lease
  BY DEF Crash, Lapse, Connect, Disconnect, IInv, Types
<1>5. PageOK' /\ FetchOK' /\ EndOK'
  BY <1>1, Untouched
<1> QED
  BY <1>1, <1>2, <1>3, <1>4, <1>5 DEF IInv, Types, BoundOK

-----------------------------------------------------------------------------
(* Ending the voice                                                        *)

LEMMA EndTypes == NoEnd \in EndRecords /\ NoEnd.pc = "idle"
  BY DEF NoEnd, EndRecords, Never

\* The request names the revision shown, which is not above the row's.
LEMMA EndLiveKeeps == ASSUME IInv, EndLive PROVE IInv'
<1>1. PICK ack \in BOOLEAN : end' = [pc |-> "sent", expected |-> page.applied, ack |-> ack]
  BY DEF EndLive
<1>2. UNCHANGED <<row, transfer, lease, jobs, voice, page, fetch, unbumped, acquiredAt>>
  BY DEF EndLive
<1>3. page.applied \in Int /\ page.applied <= row.revision
  BY DEF IInv, Types, PageRecords, PageOK
<1>4. end' \in EndRecords /\ EndOK'
  BY <1>1, <1>2, <1>3 DEF EndRecords, EndOK
<1>5. PageOK' /\ FetchOK'
  BY <1>2 DEF IInv, PageOK, FetchOK
<1> QED
  BY <1>2, <1>4, <1>5 DEF IInv, Types, BoundOK

LEMMA EndCheckKeeps == ASSUME IInv, EndCheck PROVE IInv'
<1>1. UNCHANGED <<row, transfer, lease, jobs, voice, unbumped, acquiredAt>>
  BY DEF EndCheck
<1>2. Never \in Int
  BY DEF Never
<1>3. CASE transfer # "none" /\ ~end.ack
  <2>1. end' = NoEnd /\ PageStays
    BY <1>2, <1>3, RefreshStays DEF EndCheck, IInv
  <2>2. PageOK' /\ FetchOK' /\ EndOK'
    BY <1>1, <2>1, ServerStays
  <2> QED
    BY <1>1, <2>1, <2>2, EndTypes DEF IInv, Types, BoundOK, PageStays
<1>4. CASE ~(transfer # "none" /\ ~end.ack)
  <2>1. end' = [end EXCEPT !.pc = "checked"] /\ end.pc = "sent" /\ UNCHANGED <<page, fetch>>
    BY <1>4 DEF EndCheck
  <2>2. end \in EndRecords
    BY DEF IInv, Types
  <2>3. /\ end' \in EndRecords /\ end'.pc = "checked" /\ end'.expected = end.expected
        /\ end'.ack = end.ack
    BY <2>1, <2>2 DEF EndRecords
  <2>4. EndOK'
    BY <1>1, <1>4, <2>1, <2>3 DEF IInv, EndOK
  <2>5. PageOK' /\ FetchOK'
    BY <1>1, <2>1 DEF IInv, PageOK, FetchOK
  <2> QED
    BY <1>1, <2>1, <2>3, <2>4, <2>5 DEF IInv, Types, BoundOK
<1> QED
  BY <1>3, <1>4

LEMMA EndSetKeeps == ASSUME IInv, EndSet PROVE IInv'
<1>1. /\ end' = NoEnd /\ UNCHANGED <<transfer, lease, jobs, acquiredAt>>
  BY DEF EndSet
<1>2. /\ page \in PageRecords /\ fetch \in FetchRecords /\ row.revision \in Nat
      /\ transfer \in Transfers /\ acquiredAt \in Nat /\ page.applied \in Int
      /\ fetch.revision \in Int /\ page.applied <= row.revision
  BY DEF IInv, Types, PageRecords, FetchRecords, PageOK
<1>3. CASE SameRevision
  <2> DEFINE s == [revision |-> row.revision + 1, mode |-> "typed", transfer |-> transfer]
  <2>1. Bump("typed") /\ page' = Applying(page, s) /\ voice' = Silent /\ fetch' = fetch
    BY <1>3 DEF EndSet
  <2>2. row' = [revision |-> row.revision + 1, mode |-> "typed"] /\ unbumped' = FALSE
    BY <2>1 DEF Bump
  <2>3. s.revision = row.revision + 1 /\ s.mode = "typed" /\ s.transfer = transfer
    OBVIOUS
  <2>4. s.revision \in Int /\ s.mode \in Modes /\ s.transfer \in Transfers /\ s.revision > page.applied
    BY <1>2, <2>3 DEF Modes
  <2> HIDE DEF s
  <2>5. /\ page' \in PageRecords /\ page'.applied = row.revision + 1 /\ page'.mode = "typed"
        /\ page'.transfer = transfer
    BY <1>2, <2>1, <2>3, <2>4, ApplyingFields
  <2>6. PageOK'
    BY <1>1, <1>2, <2>2, <2>5 DEF PageOK
  <2>7. FetchOK'
    BY <1>2, <2>1, <2>2 DEF IInv, FetchOK
  <2>8. EndOK'
    BY <1>1, EndTypes DEF EndOK
  <2>9. BoundOK'
    BY <1>1, <1>2, <2>2 DEF IInv, BoundOK
  <2>10. row' \in [revision : Nat, mode : Modes]
    BY <1>2, <2>2 DEF Modes
  <2>11. Types'
    BY <1>1, <1>2, <2>1, <2>2, <2>5, <2>10, SilentType, EndTypes DEF IInv, Types
  <2> QED
    BY <2>6, <2>7, <2>8, <2>9, <2>11 DEF IInv
<1>4. CASE ~SameRevision
  <2>1. Refresh(page, Never) /\ UNCHANGED <<row, unbumped, voice>> /\ Never \in Int
    BY <1>4 DEF EndSet, Never
  <2>2. PageStays
    BY <2>1, RefreshStays DEF IInv
  <2>3. PageOK' /\ FetchOK' /\ EndOK'
    BY <1>1, <2>1, <2>2, ServerStays
  <2> QED
    BY <1>1, <2>1, <2>2, <2>3, EndTypes DEF IInv, Types, BoundOK, PageStays
<1> QED
  BY <1>3, <1>4

-----------------------------------------------------------------------------
(* The theorems                                                            *)

LEMMA InitOK == ASSUME Init PROVE IInv
<1>1. /\ NoFetch \in FetchRecords /\ fetch = [NoFetch EXCEPT !.pc = "sent"]
  BY NoFetchType DEF Init
<1>2. fetch \in FetchRecords /\ fetch.pc = "sent"
  BY <1>1 DEF FetchRecords
<1>3. page \in PageRecords /\ page.applied = -1
  BY DEF Init, PageRecords, Never, Modes, Transfers
<1>4. jobs \in [Jobs -> JobRecords]
  BY DEF Init, JobRecords
<1>5. row \in [revision : Nat, mode : Modes] /\ row.revision = 0
  BY DEF Init, Modes
<1>6. transfer \in Transfers
  BY DEF Init, Transfers
<1>7. Types
  BY <1>2, <1>3, <1>4, <1>5, <1>6, SilentType, EndTypes, LeaseTypes DEF Init, Types
<1>8. PageOK /\ FetchOK /\ EndOK
  BY <1>2, <1>3, <1>5, EndTypes DEF Init, PageOK, FetchOK, EndOK
<1>9. BoundOK
  BY <1>5, LeaseTypes DEF Init, BoundOK
<1> QED
  BY <1>7, <1>8, <1>9 DEF IInv

LEMMA Inductive == ASSUME IInv, [Next]_vars PROVE IInv'
<1>1. CASE UNCHANGED vars
  <2>1. UNCHANGED <<row, transfer, lease, jobs, voice, page, fetch, end, unbumped, acquiredAt>>
    BY <1>1 DEF vars
  <2> QED
    BY <2>1 DEF IInv, Types, PageOK, FetchOK, EndOK, BoundOK
<1> QED
  BY <1>1, WorkKeeps, ReleaseKeeps, ReadKeeps, AnswerKeeps, AskKeeps, BindKeeps, StartKeeps,
     StopKeeps, AwayKeeps, EndLiveKeeps, EndCheckKeeps, EndSetKeeps DEF Next

\* Every stamp anybody remembers is at most the row's revision, and what bears
\* the row's revision is what the server has.
THEOREM InvariantOK == Spec => []IInv
  BY InitOK, Inductive, PTL DEF Spec

\* What the page shows under the current revision is the server's state, for
\* every interleaving of the two statements of inspect with the writes, and
\* although the page trusts a 304 (useConversationState.ts).
THEOREM PageIsCurrent == Spec => []ShownIsCurrent
<1>1. IInv => ShownIsCurrent
  BY DEF IInv, PageOK, ShownIsCurrent
<1> QED
  BY <1>1, InvariantOK, PTL

\* A lease that has not lapsed changes hands only by its holder's release.
HolderReleases ==
  lease.fresh /\ lease'.holder # lease.holder
    => lease.holder # NoJob /\ lease' = NoLease /\ jobs[lease.holder] # jobs'[lease.holder]

LEMMA OnlyTheHolderReleases == ASSUME IInv, [Next]_vars PROVE HolderReleases
<1> SUFFICES ASSUME lease.fresh, lease'.holder # lease.holder
             PROVE  /\ lease.holder # NoJob /\ lease' = NoLease
                    /\ jobs[lease.holder] # jobs'[lease.holder]
  BY DEF HolderReleases
<1>1. lease.holder \in Jobs /\ lease.holder # NoJob
  BY LiveAssumption DEF IInv, BoundOK
<1>2. PICK j \in Jobs : StartFails(j) \/ Stop(j)
  <2>1. lease' # lease
    OBVIOUS
  <2>2. ~Lapse
    BY DEF Lapse, IInv, Types
  <2>3. \A j \in Jobs : ~Bind(j)
    BY <2>1 DEF Bind, BindAccepted, BindRefused, CanTake
  <2> QED
    BY <2>1, <2>2, <2>3 DEF Next, vars, Work, ReleaseClaim, ReadFirst, ReadLast, FetchDone,
       FetchFails, Poll, Start, Crash, Connect, Disconnect, Reconnected, Hear, EndLive, EndCheck, EndSet
<1>3. lease.holder = j /\ lease' = NoLease
  BY <1>2 DEF StartFails, Stop, Release, Owns
<1>4. jobs[j] \in JobRecords /\ jobs \in [Jobs -> JobRecords]
  BY DEF IInv, Types
<1>5. CASE StartFails(j)
  <2>1. jobs'[j] = Unbound(jobs[j]) /\ jobs[j].pc = "starting"
    BY <1>4, <1>5 DEF StartFails
  <2>2. Unbound(jobs[j]).pc \in {"serving", "gone"}
    BY <1>4, JobRecordsOK
  <2> QED
    BY <1>1, <1>3, <2>1, <2>2
<1>6. CASE Stop(j)
  BY <1>1, <1>3, <1>4, <1>6, JobRecordsOK DEF Stop
<1> QED
  BY <1>2, <1>5, <1>6

\* releaseLiveLease and acquireLiveLease: a session being served is not taken
\* over, and a job that lost its lease cannot give up its successor's.
THEOREM LeaseIsKept == Spec => LeaseIsItsHolders
<1>1. IInv /\ [Next]_vars => [HolderReleases]_vars
  BY OnlyTheHolderReleases
<1>2. Spec => [][HolderReleases]_vars
  BY <1>1, InvariantOK, PTL DEF Spec
<1> QED
  BY <1>2 DEF LeaseIsItsHolders, HolderReleases

\* Live becomes typed with the lease left alone only by an end-live request.
LEMMA EndedByThePage ==
  ASSUME IInv, [Next]_vars, Ended
  PROVE  end.pc = "checked" /\ SameRevision
<1>1. row'.mode # row.mode
  BY DEF Ended
<1>2. \A j \in Jobs : ~(StartFails(j) \/ Stop(j))
  <2> SUFFICES ASSUME NEW j \in Jobs, Release(j) PROVE FALSE
    BY DEF StartFails, Stop
  <2>1. Owns(j)
    BY <1>1 DEF Release
  <2>2. lease.holder = j /\ lease' = NoLease
    BY <2>1 DEF Release, Owns
  <2> QED
    BY <2>2, LiveAssumption, LeaseTypes DEF Ended
<1>3. ASSUME NEW j \in Jobs, Bind(j) PROVE FALSE
  <2>1. CASE BindAccepted(j)
    <3>1. row' = [revision |-> row.revision + 1, mode |-> "live"]
      BY <2>1 DEF BindAccepted, Bump
    <3> QED
      BY <3>1 DEF Ended
  <2>2. CASE BindRefused(j)
    BY <1>1, <2>2 DEF BindRefused
  <2> QED
    BY <1>3, <2>1, <2>2 DEF Bind
<1>4. ~Work
  <2>1. Work => row'.mode = row.mode
    BY DEF Work, Bump
  <2> QED
    BY <1>1, <2>1
<1>5. EndSet
  BY <1>1, <1>2, <1>3, <1>4 DEF Next, vars, ReleaseClaim, ReadFirst, ReadLast, FetchDone, FetchFails,
     Poll, Start, Crash, Lapse, Connect, Disconnect, Reconnected, Hear, EndLive, EndCheck
<1> QED
  BY <1>1, <1>5 DEF EndSet

SeenEnded == Ended => end.expected >= acquiredAt
AcknowledgedEnded == Ended => end.ack \/ transfer = "none"

\* An end-live request ends the session the user was looking at: a binding after
\* the state shown has moved the revision past the one it names (setMode).
THEOREM TheSeenSessionEnds == Spec => EndsTheSessionSeen
<1>1. ASSUME IInv, [Next]_vars PROVE SeenEnded
  <2>1. end.expected \in Int /\ acquiredAt \in Nat /\ row.revision \in Nat
    BY <1>1 DEF IInv, Types, EndRecords
  <2> QED
    BY <1>1, <2>1, EndedByThePage DEF SeenEnded, SameRevision, IInv, BoundOK
<1>2. IInv /\ [Next]_vars => [SeenEnded]_vars
  BY <1>1
<1>3. Spec => [][SeenEnded]_vars
  BY <1>2, InvariantOK, PTL DEF Spec
<1> QED
  BY <1>3 DEF EndsTheSessionSeen, SeenEnded

\* Voice is not ended over a transfer the user did not acknowledge, although the
\* route looks at the transfer before the update that compares the revision.
THEOREM EndingIsAcknowledged == Spec => EndIsAcknowledged
<1>1. ASSUME IInv, [Next]_vars PROVE AcknowledgedEnded
  BY <1>1, EndedByThePage DEF AcknowledgedEnded, SameRevision, IInv, EndOK
<1>2. IInv /\ [Next]_vars => [AcknowledgedEnded]_vars
  BY <1>1
<1>3. Spec => [][AcknowledgedEnded]_vars
  BY <1>2, InvariantOK, PTL DEF Spec
<1> QED
  BY <1>3 DEF EndIsAcknowledged, AcknowledgedEnded
=============================================================================
