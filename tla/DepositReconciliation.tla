----------------------- MODULE DepositReconciliation -----------------------
(***************************************************************************)
(* The deposit reconciler: every API process runs one worker               *)
(* (startReconciliationWorker) that passes over the ready wallets, takes   *)
(* the database lease of each, walks the signatures of its address page by *)
(* page from the newest down to the cursor, and writes one feed row per    *)
(* confirmed inbound transaction.  The cursor of a wallet is a triple: the *)
(* watermark up to which everything was ingested, and, while a gap larger  *)
(* than a page is being drained, the newest signature of that gap and the  *)
(* oldest one reached so far.  The feed is read and marked read by its     *)
(* owner (api/notifications, useNotificationsFeed).                        *)
(*                                                                         *)
(* Signatures of a wallet are numbered by age, 1 the oldest; 0 is SQL's    *)
(* NULL.  A lease is not renewed: a run that outlives it goes on, next to  *)
(* the run of another worker, and still writes its triple at the end.      *)
(***************************************************************************)
EXTENDS Integers

CONSTANTS
    PrivyWallets, \* user_wallets rows of provider privy
    Workers,      \* API processes, one reconciliation worker each
    MaxSigs,      \* bound: signatures a wallet ever gets
    Kind,         \* Kind[w][s]: "deposit", "other" (outgoing, self), "failed"
    PageSize,     \* signatures per page (100 in server.ts)
    MaxPages,     \* pages per run (maxPagesPerRun, 5)
    MaxFaults     \* bound: process restarts and demotions of a wallet, together

Sigs == 1..MaxSigs

ASSUME ReconciliationAssumption ==
    /\ PrivyWallets # {}
    /\ MaxSigs \in Nat
    /\ Kind \in [PrivyWallets -> [Sigs -> {"deposit", "other", "failed"}]]
    /\ PageSize \in Nat \ {0}
    /\ MaxPages \in Nat \ {0}
    /\ MaxFaults \in Nat

NoOne == "nobody"      \* no lease row
Orphan == "orphan"     \* a lease row whose run is over: nothing knows its token

ASSUME NamesAssumption == NoOne \notin Workers /\ Orphan \notin Workers

VARIABLES
    len,        \* len[w]: signatures of the wallet's address confirmed so far
    detail,     \* detail[w]: signatures whose transaction the RPC can return
    ready,      \* ready[w]: user_wallets.state = 'ready'
    cursors,    \* reconciliation_cursors, one triple per wallet
    leases,     \* reconciliation_leases: the run that holds it, and its expiry
    feed,       \* wallet_notifications of each wallet: none, unread or read
    worker,     \* the worker of each process and the run it is in
    faults      \* restarts and demotions so far

depositVars == <<len, detail, ready, cursors, leases, feed, worker, faults>>
world == <<len, detail, ready, faults>>

Triples == [cursor : 0..MaxSigs, high : 0..MaxSigs, scan : 0..MaxSigs]
FreshTriple == [cursor |-> 0, high |-> 0, scan |-> 0]

\* A fetched page: its bounds (0: empty), whether it was shorter than the
\* limit, and the deposits of it not ingested yet.
Pages == [newest : 0..MaxSigs, oldest : 0..MaxSigs,
          reached : BOOLEAN, left : SUBSET Sigs]
NoPage == [newest |-> 0, oldest |-> 0, reached |-> FALSE, left |-> {}]

Runs == [pc : {"idle", "pick", "load", "fetch", "ingest", "persist", "release"},
         todo : SUBSET PrivyWallets, wallet : PrivyWallets, st : Triples, page : Pages,
         pages : 0..MaxPages, threw : BOOLEAN, valid : BOOLEAN]

IdleRun == [pc |-> "idle", todo |-> {}, wallet |-> CHOOSE w \in PrivyWallets : TRUE,
            st |-> FreshTriple, page |-> NoPage, pages |-> 0,
            threw |-> FALSE, valid |-> FALSE]

DepositInit ==
    /\ len = [w \in PrivyWallets |-> 0]
    /\ detail = [w \in PrivyWallets |-> {}]
    /\ ready = [w \in PrivyWallets |-> TRUE]
    /\ cursors = [w \in PrivyWallets |-> FreshTriple]
    /\ leases = [w \in PrivyWallets |-> [holder |-> NoOne, expired |-> FALSE]]
    /\ feed = [w \in PrivyWallets |-> [s \in Sigs |-> "none"]]
    /\ worker = [p \in Workers |-> IdleRun]
    /\ faults = 0

-----------------------------------------------------------------------------
(* The surroundings.                                                       *)

\* The address gets a confirmed transaction.
SignatureConfirmed(w) ==
    /\ len[w] < MaxSigs
    /\ len' = [len EXCEPT ![w] = @ + 1]
    /\ UNCHANGED <<detail, ready, cursors, leases, feed, worker, faults>>

\* getTransaction starts to return the transaction of a listed signature.
DetailAvailable(w, s) ==
    /\ s <= len[w] /\ s \notin detail[w]
    /\ detail' = [detail EXCEPT ![w] = @ \cup {s}]
    /\ UNCHANGED <<len, ready, cursors, leases, feed, worker, faults>>

\* A wallet sync finds the wallet in conflict or unavailable ...
WalletDemoted(w) ==
    /\ ready[w] /\ faults < MaxFaults
    /\ ready' = [ready EXCEPT ![w] = FALSE]
    /\ faults' = faults + 1
    /\ UNCHANGED <<len, detail, cursors, leases, feed, worker>>

\* ... and a later one finds it ready again.
WalletRestored(w) ==
    /\ ~ready[w]
    /\ ready' = [ready EXCEPT ![w] = TRUE]
    /\ UNCHANGED <<len, detail, cursors, leases, feed, worker, faults>>

\* expires_at passes.  The run that holds the lease does not notice.
LeaseExpires(w) ==
    /\ leases[w].holder # NoOne /\ ~leases[w].expired
    /\ leases' = [leases EXCEPT ![w].expired = TRUE]
    /\ worker' = [p \in Workers |->
                    IF leases[w].holder = p
                    THEN [worker[p] EXCEPT !.valid = FALSE] ELSE worker[p]]
    /\ UNCHANGED <<cursors, feed, world>>

-----------------------------------------------------------------------------
(* The worker.                                                             *)

\* The timer fires: a pass over the ready wallets, in no particular order.
StartPass(p) ==
    /\ worker[p].pc = "idle"
    /\ worker' = [worker EXCEPT ![p].pc = "pick",
                                ![p].todo = {w \in PrivyWallets : ready[w]}]
    /\ UNCHANGED <<cursors, leases, feed, world>>

\* The pass is over; the next one is scheduled.
EndPass(p) ==
    /\ worker[p].pc = "pick" /\ worker[p].todo = {}
    /\ worker' = [worker EXCEPT ![p] = IdleRun]
    /\ UNCHANGED <<cursors, leases, feed, world>>

\* Mutant of LeaseFree: the row of a worker that died is never reclaimed.
ExpiryIgnored(w) == leases[w].holder = NoOne

LeaseFree(w) == leases[w].holder = NoOne \/ leases[w].expired

\* acquire_reconciliation_lease: a missing or an expired row only.
AcquireLease(p, w) ==
    /\ worker[p].pc = "pick" /\ w \in worker[p].todo
    /\ LeaseFree(w)
    /\ leases' = [leases EXCEPT ![w] = [holder |-> p, expired |-> FALSE]]
    /\ worker' = [q \in Workers |->
                    IF q = p
                    THEN [worker[p] EXCEPT !.pc = "load", !.wallet = w,
                                           !.todo = @ \ {w}, !.pages = 0,
                                           !.threw = FALSE, !.valid = TRUE]
                    ELSE worker[q]]
    /\ UNCHANGED <<cursors, feed, world>>

\* Another worker holds a live lease: the wallet is skipped in this pass.
SkipLeased(p, w) ==
    /\ worker[p].pc = "pick" /\ w \in worker[p].todo
    /\ ~LeaseFree(w)
    /\ worker' = [worker EXCEPT ![p].todo = @ \ {w}]
    /\ UNCHANGED <<cursors, leases, feed, world>>

LoadCursor(p) ==
    /\ worker[p].pc = "load"
    /\ worker' = [worker EXCEPT ![p].pc = "fetch",
                                ![p].st = cursors[worker[p].wallet]]
    /\ UNCHANGED <<cursors, leases, feed, world>>

\* getSignaturesForAddress(before = scan_cursor, until = cursor_value, limit):
\* newest first, both bounds exclusive.
From(w, st) == IF st.scan = 0 THEN len[w] ELSE st.scan - 1

\* A page shorter than the limit.
Short(w, st) == From(w, st) < st.cursor + PageSize
Oldest(w, st) == IF Short(w, st) THEN st.cursor + 1
                 ELSE From(w, st) - PageSize + 1
Listed(w, st) == {s \in Sigs : Oldest(w, st) <= s /\ s <= From(w, st)}

\* fetchConfirmedPage: failed transactions are dropped, the others need their
\* details to be told from outgoing ones.
PageOf(w, st) ==
    LET empty == From(w, st) <= st.cursor
    IN [newest |-> IF empty THEN 0 ELSE From(w, st),
        oldest |-> IF empty THEN 0 ELSE Oldest(w, st),
        reached |-> Short(w, st),
        left |-> {s \in Listed(w, st) \cap detail[w] : Kind[w][s] = "deposit"}]

\* Every successful signature of the page must have its details.
DetailsThere(w, st) ==
    \A s \in Listed(w, st) : Kind[w][s] = "failed" \/ s \in detail[w]

\* Mutant of PagesLeft: the loop runs once more.
OneMorePage(r) == r.pages <= MaxPages

PagesLeft(r) == r.pages < MaxPages

FetchPage(p) ==
    LET r == worker[p]
    IN /\ r.pc = "fetch" /\ PagesLeft(r)
       /\ DetailsThere(r.wallet, r.st)
       /\ worker' = [worker EXCEPT ![p].pc = "ingest",
                                   ![p].page = PageOf(r.wallet, r.st)]
       /\ UNCHANGED <<cursors, leases, feed, world>>

\* The RPC fails, or a detail is missing: the run throws, the cursor stays.
FetchThrows(p) ==
    LET r == worker[p]
    IN /\ r.pc = "fetch" /\ PagesLeft(r)
       /\ ~DetailsThere(r.wallet, r.st)
       /\ worker' = [worker EXCEPT ![p].pc = "release", ![p].threw = TRUE]
       /\ UNCHANGED <<cursors, leases, feed, world>>

\* maxPagesPerRun is used up: the next run goes on from the scan cursor.
PagesExhausted(p) ==
    /\ worker[p].pc = "fetch" /\ ~PagesLeft(worker[p])
    /\ worker' = [worker EXCEPT ![p].pc = "release"]
    /\ UNCHANGED <<cursors, leases, feed, world>>

\* insertNotificationRow: ON CONFLICT (user_id, dedupe_key) DO NOTHING.
Inserted(w, s) ==
    [feed EXCEPT ![w][s] = IF @ = "none" THEN "unread" ELSE @]

\* One observation, oldest first, in a transaction of its own.
IngestObservation(p) ==
    LET r == worker[p]
    IN /\ r.pc = "ingest"
       /\ \E s \in r.page.left :
            /\ \A x \in r.page.left : s <= x
            /\ ready[r.wallet]
            /\ feed' = Inserted(r.wallet, s)
            /\ worker' = [worker EXCEPT ![p].page.left = @ \ {s}]
       /\ UNCHANGED <<cursors, leases, world>>

\* The wallet is no longer ready: "no resolvable owner", the run throws.
IngestThrows(p) ==
    /\ worker[p].pc = "ingest" /\ worker[p].page.left # {}
    /\ ~ready[worker[p].wallet]
    /\ worker' = [worker EXCEPT ![p].pc = "release", ![p].threw = TRUE]
    /\ UNCHANGED <<cursors, leases, feed, world>>

\* Mutant of NextTriple: the watermark moves before the gap is drained.
EagerWatermark(st, page) ==
    IF page.oldest = 0 THEN [st EXCEPT !.scan = 0]
    ELSE [cursor |-> IF st.high # 0 THEN st.high ELSE page.newest, high |-> 0, scan |-> 0]

\* The triple after a page, and whether the run goes on with an older page.
Drained(page) == page.oldest = 0 \/ page.reached
HighOf(st, page) == IF st.high # 0 THEN st.high ELSE page.newest
NextTriple(st, page) ==
    IF page.oldest = 0
    THEN IF st.high = 0 THEN st
         ELSE [cursor |-> st.high, high |-> 0, scan |-> 0]
    ELSE IF page.reached
         THEN [cursor |-> HighOf(st, page), high |-> 0, scan |-> 0]
         ELSE [st EXCEPT !.high = HighOf(st, page), !.scan = page.oldest]

\* persistCursorState: an unconditional upsert of the triple.
PersistCursorState(p) ==
    LET r == worker[p]
        next == NextTriple(r.st, r.page)
    IN /\ r.pc = "ingest" /\ r.page.left = {}
       /\ cursors' = IF next = r.st THEN cursors
                     ELSE [cursors EXCEPT ![r.wallet] = next]
       /\ worker' = [worker EXCEPT
             ![p].pc = IF Drained(r.page) THEN "release" ELSE "fetch",
             ![p].st = next, ![p].page = NoPage, ![p].pages = @ + 1]
       /\ UNCHANGED <<leases, feed, world>>

\* Mutant of TokenMatches: the lease is deleted by wallet and network.
AnyToken(p, w) == worker[p].wallet = w

\* The lease row is deleted by token: a reclaimed row has another one.
TokenMatches(p, w) == leases[w].holder = p

AfterRelease(p) ==
    [worker EXCEPT ![p] =
        IF worker[p].threw THEN IdleRun
        ELSE [IdleRun EXCEPT !.pc = "pick", !.todo = worker[p].todo]]

\* finally: the lease is released.  An error that was thrown ends the pass,
\* and the wallets that were left wait for the next one.
ReleaseLease(p) ==
    LET w == worker[p].wallet
    IN /\ worker[p].pc = "release"
       /\ leases' = IF TokenMatches(p, w)
                    THEN [leases EXCEPT ![w] = [holder |-> NoOne, expired |-> FALSE]]
                    ELSE leases
       /\ worker' = AfterRelease(p)
       /\ UNCHANGED <<cursors, feed, world>>

\* The process stops at any point; its lease row stays until it expires.
Crash(p) ==
    /\ worker[p].pc # "idle" /\ faults < MaxFaults
    /\ faults' = faults + 1
    /\ worker' = [worker EXCEPT ![p] = IdleRun]
    /\ leases' = [w \in PrivyWallets |-> IF leases[w].holder = p
                                     THEN [leases[w] EXCEPT !.holder = Orphan]
                                     ELSE leases[w]]
    /\ UNCHANGED <<len, detail, ready, cursors, feed>>

-----------------------------------------------------------------------------
(* The owner.                                                              *)

\* POST /v1/notifications/:id/read, only a row with read_at IS NULL.
MarkRead(w, s) ==
    /\ feed[w][s] = "unread"
    /\ feed' = [feed EXCEPT ![w][s] = "read"]
    /\ UNCHANGED <<cursors, leases, worker, world>>

WorkerStep(p) ==
    \/ StartPass(p) \/ EndPass(p)
    \/ \E w \in PrivyWallets : AcquireLease(p, w) \/ SkipLeased(p, w)
    \/ LoadCursor(p) \/ FetchPage(p) \/ FetchThrows(p) \/ PagesExhausted(p)
    \/ IngestObservation(p) \/ IngestThrows(p)
    \/ PersistCursorState(p) \/ ReleaseLease(p)

World ==
    \E w \in PrivyWallets :
        \/ SignatureConfirmed(w) \/ WalletDemoted(w) \/ WalletRestored(w)
        \/ LeaseExpires(w)
        \/ \E s \in Sigs : DetailAvailable(w, s) \/ MarkRead(w, s)

DepositNext == World \/ \E p \in Workers : WorkerStep(p) \/ Crash(p)

DepositSpec == DepositInit /\ [][DepositNext]_depositVars

\* Timers fire, the RPC ends up returning a listed transaction, a lease row
\* that nobody renews expires, and a demoted wallet is synced again.
Fairness ==
    /\ \A p \in Workers : WF_depositVars(WorkerStep(p))
    /\ \A w \in PrivyWallets : /\ WF_depositVars(LeaseExpires(w))
                          /\ WF_depositVars(WalletRestored(w))
                          /\ WF_depositVars(\E s \in Sigs : DetailAvailable(w, s))

FairSpec == DepositSpec /\ Fairness

-----------------------------------------------------------------------------
\* Every variable keeps its shape.
TypeOK ==
    /\ len \in [PrivyWallets -> 0..MaxSigs]
    /\ detail \in [PrivyWallets -> SUBSET Sigs]
    /\ ready \in [PrivyWallets -> BOOLEAN]
    /\ cursors \in [PrivyWallets -> Triples]
    /\ leases \in [PrivyWallets -> [holder : Workers \cup {NoOne, Orphan},
                               expired : BOOLEAN]]
    /\ feed \in [PrivyWallets -> [Sigs -> {"none", "unread", "read"}]]
    /\ worker \in [Workers -> Runs]
    /\ faults \in 0..MaxFaults

Ingested(w, s) == Kind[w][s] = "deposit" => feed[w][s] # "none"

\* What a triple says was ingested: everything up to the watermark and, in an
\* open gap, everything from the scan cursor up to its high watermark.
Sound(w, st) ==
    \A s \in Sigs : s <= st.cursor \/ (st.scan # 0 /\ st.scan <= s /\ s <= st.high)
                       => Ingested(w, s)

\* No deposit is skipped (reconciliation-worker.ts, "provably lossless"):
\* whatever the crashes, the expired leases and the writers that overlap, a
\* signature that the persisted triple covers is in the feed if it is a
\* deposit.
NothingSkipped == \A w \in PrivyWallets : Sound(w, cursors[w])

\* The lease excludes: while the lease a run took has not expired, the row is
\* still that run's, so no other run works on the wallet and no late release of
\* an older run can have freed it (acquire_reconciliation_lease, the token of
\* the DELETE).
LeaseExcludes ==
    \A p \in Workers : worker[p].valid => leases[worker[p].wallet].holder = p

\* A feed row is never written again: a notification its owner read stays read
\* when a later run, or a second worker, ingests the same signature.
ReadStaysRead ==
    [][\A w \in PrivyWallets, s \in Sigs :
          feed[w][s] = "read" => feed'[w][s] = "read"]_depositVars

\* Every deposit reaches the feed, with any number of wallets that throw
\* before it and any page that must be read again.
DepositNotified ==
    \A w \in PrivyWallets :
        (\E s \in 1..len[w] : ~Ingested(w, s))
            ~> (\A s \in 1..len[w] : Ingested(w, s))
=============================================================================
