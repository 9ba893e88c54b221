# A verification of nana-wallet

TLA+ models of the nana-wallet backend and of the parts of its web page that decide
what a user sees, the TLC runs that check them on small instances, and TLAPS proofs of
the results that matter most for every instance.

The backend is one code base run as two processes, a Fastify **API** (`src/server.ts`)
and a LiveKit **voice worker** (`src/livekit/worker.ts`), over one PostgreSQL. Each user
has a Solana devnet wallet hosted by Privy; a stateless sidecar signs the requests to it.
A user asks for a transfer by text, touch or voice, sees a preview, confirms it, and a
*financial task* broadcasts it and waits for finality. A *delegated grant* may confirm in
the user's place, within a recipient policy that is kept both in the database and at the
provider. Trusted recipients are added by a form, by a conversation or by voice, with an
address or a `.sns` name.

Paths below are under `src/src/` unless they say otherwise. `PROJECT.json` maps every
definition to the lines it translates, and lists every component and hazard.

## 1. The system

| Component (main sources) | State it keeps | What makes it hard | What makes it correct |
|---|---|---|---|
| Transfer attempts (`conversations/postgres-repository.ts`, `service.ts`, `financial-task-registry.ts`) | rows of `conversation_transfer_attempts`; the tasks of each process | two processes and many requests read a row and write it later; updates name the conversation, not the attempt; a crash between send and record | one broadcast per attempt; the status never lies about the money |
| Chat agent (`agent/definition.ts`, `wallet-agent.ts`) | the session of a turn, in memory | a turn works on the snapshot of its start; the model calls tools in any order | a preview names the address of the contact it shows; what is paid was reviewed |
| Grant gate and ledger (`conversations/grant-gate.ts`, `wallet/grants/consumption.ts`, `engine.ts`) | `grant_claim_ledger`, `delegated_grants` | idempotency keys, rolling windows, settlement against retries, revocation against claims | caps hold; a spend stays reserved and covered |
| Lock order (`docs/architecture.md`, `wallet/policy/repository.ts`) | row and advisory locks, pool connections | nine kinds of transaction, nested reads | nobody waits for ever for a lock |
| Lifecycle outbox and feed (`assistant-outbox.ts`, `notifications/outbox-dispatcher.ts`, the page's feed) | outbox, notifications, the feed's revision | a crash between two commits, a failing event, a lost announcement | told once, in order, and shown in the end |
| Deposit reconciliation (`notifications/reconciliation-worker.ts`) | cursor triple, lease | a gap longer than a page, lapsed leases, restarts | no deposit skipped |
| Recipient policy and reconciler (`wallet/policy/`) | state row, intents, lease; the rules at the provider | provider I/O between transactions; lost answers; two writers | the gate opens only over verified rules of the latest revision |
| Embedded wallets and signer grants (`wallet/embedded.ts`, `api/wallets.ts`, the wallet panel) | `user_wallets`, bindings, `signer_grants` | listings that arrive late, a two-phase consent between page, API and provider | only what the provider proved is ready, bound or active |
| Contact proposals and voice evidence (`confirmation-arbiter.ts`, `livekit/voice-decision-gate.ts`, `contact-proposal-publication.ts`, `wallet/policy/contact-actions.ts`) | proposal rows; the arbiter's window, in memory | utterances before, during and after the window they belong to; a correction on the screen meanwhile | nothing is authorized but by the user's last answer to that window; applied once |
| Voice room and live lease (`livekit/room-conversation.ts`, `worker.ts`, the page's voice session) | `conversation_live_leases`, mode, revision; the room, the microphone | takeovers, late releases, packets and reads out of order | the page shows the latest state; an end hits the session seen |
| Conversation state (`session-state.ts`, `state-projection.ts`, `context-renewal.ts`) | `conversation_state` | whole-row writes of an old snapshot | what is shown is what the row says |
| Contacts, memory and names (`memory/`, `wallet/sns/`, `api/contacts.ts`, the contact form) | `recipients` with versions and provenance | a name moves between resolution and write; a guess among near matches | no address is saved but the one asked for; nobody is picked by a tie |
| Wallet provider, sidecar, reads (`wallet/solana-devnet-provider.ts`, `signer/server.ts`, `balances.ts`) | none | partial and malformed answers of a network | nothing is told that was not answered |
| Composition root, HTTP plumbing, rendering | none | | |

The components call each other through the database (rows and compare-and-set), through
the registry in each process's memory (tasks) and through the provider. The two processes
send each other nothing; the page hears revisions over LiveKit data packets and reads the
state over HTTP.

## 2. The modules

Every state machine follows one rule: **a database transaction is one action, a request to
another system is one action, and what the code keeps in memory between two of them is a
record with a program counter** that dies with its process. Guards are the `WHERE` clauses
and early returns. `GrantLedger` goes one step finer: a transaction takes its locks one by
one.

| State machine | Its state, and how its actions correspond to the code |
|---|---|
| `TransferAttempts` | rows, requests and financial tasks of one conversation. `req` is a request between two transactions, `task` an entry of the registry; `Restart` loses both and keeps the rows. `Pending`/`Shown` are `readSnapshot`, whose order by `updated_at` may hide an active row behind a final one. `sent`, `payer` and `origin` are history. |
| `RecipientPolicy` | `row` is `recipient_policy_state`, `intents` the sync intents by revision, `remote` the provider's rules, `op[x]` a request or reconciler between two steps. Requests never write at the provider (`server.ts:452` wires an unavailable port); only reconcilers go from `ReadDesired` to `CommitApplyOutcome`. `overrun` is history: somebody wrote who had lost his lease. |
| `GrantLedger` | the transactions of claim, settlement, revocation, syncs, removal, edit, contact change, enrollment, apply and invalidation: `todo` and `held` are locks in the code's order, a connection of the pool is held throughout, and what is read is read when the lock is granted. |
| `DepositReconciliation` | the worker's pass (lease, cursor, pages, ingestion, cursor, release) over a history of signatures that grows; a page is newest first, as the RPC answers. |
| `VoiceActions` | the arbiter, the gate, proposal rows, previews and calls in flight; a call runs to its next `await` in one step. |
| `WalletEnrollment` | sync, prepare, complete and revoke between their awaits, with the provider's wallets, signers and policies, which the user's browser changes. |
| `LiveConversation` | the room jobs with their lease, the conversation's revision and mode, the page's state request, and `end-live`. |
| `ContactBook`, `AssistantTurns` | contacts with versions and provenance, names that move, the form's requests and the drift check; over them the turns of the chat agent with the snapshot each reads and writes back, its tools, and the confirmation. |
| `NotificationFeed` | the dispatcher's pass event by event, and a page with its reads, its announced revisions and its mark-read. |

`PaymentPromise` and `PolicyRevisions` are the abstract specifications which
`TransferAttempts` and `RecipientPolicy` refine, through the mapping `Promise` at the end of
each: a previewed attempt is *open*, a claimed one *taken*; a revision is itself, and the
gate is open when `isWalletPolicyVerified` says so.

What has no state worth interleaving is written as operators over records, with *claims*
quantified over every input of a small domain; a named `ASSUME` in the MC module of the
machine it belongs to makes TLC evaluate them.

| Operators | Evaluated by | What is claimed |
|---|---|---|
| `PolicyComposition`, `PolicyProbes` | `MCRecipientPolicy` | what is composed permits exactly what contacts and grants allow; a readback that is not ours is refused; a probe records only what it saw |
| `SigningSidecar`, `SolanaProvider` | `MCTransferAttempts` | only an admitted request is signed; an error is called definite only when nothing left; finality is never guessed |
| `NameResolution`, `ProposalOutcomes` | `MCVoiceActions` | an address is an owner that was read under the right root; an outage is never told as a missing name; "in force" is only said of a revision read back |
| `WalletReads`, `Amounts` | `MCWalletEnrollment` | an amount was reported by somebody; decimal text, base units and spoken amounts agree |
| `AgentTools`, `ConversationState`, `RecipientSearch` | `MCAssistantTurns` | no tool broadcasts without a preview; the projection never shows money that moved as cancelled; a recipient is selected by one rule only |
| `VoicePresence`, `VoiceRoom` | `MCLiveConversation` | microphone and capture follow the session, over every reachable state of the reducer; one turn at a time in a room |
| `WalletPanel` | `MCNotificationFeed` | the panel calls a permission active only when the API did; a consent is not asked for twice at once |

A claim that the code refutes stands in the same place as `~Claim`, with a comment that
begins "Not so". Section 6 lists what was learned from them.

## 3. The runs

| Run | Instance | Checks | Distinct states |
|---|---|---|---|
| `TransferSafety` | API and worker, one grant, two attempts, rejected calls, crashes | `GrantSpendReserved`, `OutboxTellsTheStory`, `StatusTellsTheMoney`, `OnlyOwnTaskResolves`, refinement `KeepsPromise` | 1.1 M |
| `TransferRetries` | one process, two attempts, two claims each, every text and outcome, drain, fair | `AtMostOneBroadcast`, `SubmittedResolves` | 0.49 M |
| `PolicySafety` | every operation, a grant, lost and rejected requests, expiring lease | `BoundNeedsProof`, `OpenGateIsEnforced`, refinement `KeepsRevisionPromise` | 1.2 M |
| `PolicyProgress` | two reconcilers, lost requests, one crash, fair | `GateMatchesRemote`, `IntentSettles`, `StatusResolves` | 0.2 M |
| `GrantLedger` | two requests of any kind, a pool of two, two grants, two keys, two aliases | `OnlyThePoolDeadlocks`, `SpendsWithinCap`, `ReservationsAccountedFor`, `FreshSpendIsCovered` | 0.75 M |
| `DepositReconciliation` | two workers, a gap longer than a page, one fault, fair | `NothingSkipped`, `LeaseExcludes`, `DepositNotified` | 0.38 M |
| `VoiceActions` | two concurrent calls, four in all, two rows, two previews | `GateAgreesWithArbiter`, `WindowHasCard`, `OneVersionApplied`, `DecidedBySpeech` | 1.3 M |
| `WalletEnrollment` | two concurrent requests, five in all, two wallets | `ReadyWasListed`, `ActiveWasProven`, `SyncsCommitInOrder`, `RevokedStaysRevoked` | 1.5 M |
| `LiveConversation` | two jobs, four revisions, fair page | `ShownIsCurrent`, `LeaseIsItsHolders`, `EndsTheSessionSeen`, `EndIsAcknowledged`, `HeardIsShown` | 0.64 M |
| `AssistantTurns` | two turns and two requests of the form, two contacts, two versions, two tools a turn | `ProvenanceDescribesItsRow`, `PinTellsTheAddress`, `ConfirmedPaysTheReviewedContact`, `SavesWhatWasSent` | 1.4 M |
| `NotificationFeed` | two dispatchers, one fault of each kind, a page | `StoryInOrder`, `CompletedIsNotified`, `ToldIsShown` | 0.03 M |
| `FormSaves` | the instance of `AssistantTurns` with one turn and one request | `DestinationsWereShown`, expected to be **violated** | eight states to the counterexample |

Every property of a passing run has a mutant, a plausible bug in a definition that models code (a dropped
guard, a forgotten index, a missing reset), written beside the definition it changes, under
which TLC finds the property violated.

**Bounds.** Every bound is a constant used in a guard, never a state constraint, so that
liveness is checked on complete behaviours. Two attempts are enough for every race of an
attempt with its successor, as at most one row of a conversation is active, and two claims
let a retry meet the task that gave its claim back. Two processes with one slot cover every
pair of requests of different processes; claims are retried in `TransferRetries` only, which
has one process (the theorems cover both at once). A pool of two is the smallest that two
requests can exhaust. Two requests of the form let an edit or a removal come between the two
transactions of a drift check. Two revisions are what a stale writer
and a superseded intent need; two addresses and one contact what a move needs. Two
transactions make every cycle of two lock classes, two keys on a cap of one make the cap
bite, a window of two with a wait of one reaches its boundary from both sides. Three
signatures over pages of two make a gap that spans pages. Two rows are a proposal and its
correction. Two wallets and five requests let a whole enrollment meet a revocation and a
sync. Two jobs are a takeover; three further revisions let one be read, one heard and one
lost. Two versions of a contact are what a stale review needs. Symmetry is used only where
no liveness is checked.

**Deadlock** checking is off in the runs that are quiet once everybody was served or a
bound is reached; `OnlyThePoolDeadlocks` of `GrantLedger` says what is left of it for the
transactions: nobody waits for ever but for a second connection of an exhausted pool.

**Fairness.** A running process goes on with what it began: weak fairness on the steps of
tasks, on requests past their first read, on the restart of a draining process, on the
steps of reconcilers, dispatchers and deposit workers (interval timers that never give up,
each pass of which ends), on the expiry of a dead holder's lease, on the page's requests
under way and on its poll while it is visible. In the feed a fault stays bounded by
`MaxFaults`. Arrivals, faults, crashes, packets and users are never fair.

## 4. What is proved

Every safety property that a run checks, state invariant or action property, is also a
theorem (but `GateMatchesRemote`, see below): it holds for every value of the constants, from the named assumptions of the
modules (that `None` is none of the other values, that bounds are naturals, that what is in
service is finite). Each argument is an inductive invariant; what it adds to the property is
the part worth reading, and is told here and at the head of the proof module.

**Transfers** (`TransferSafetyProofs`). None of the properties is inductive: `UPDATE ...
WHERE status = 'broadcasting'` hits the right row only because a task that still works on its
claim faces a row that is still broadcasting, and no second owner exists. `IInv` says so: one
active row (`OneActive`), every claim held by the request that won it or the task it started
(`ClaimOwned`), by one of them only (`OneOwner`), what each owner knows about the money
(`MoneyKnown`), and a reservation behind every decision of a grant (`Reserved`). From it:
`PaysAtMostOnce`, `StatusIsTrue`, `SpendStaysReserved`, `OutboxIsTrue`, the action property
`OwnTaskResolves`, and `PromiseIsKept`, the refinement of `PaymentPromise`: every step of
requests, tasks, crashes and the agent moves each offer as the promise allows, or not at all.

**Policy** (`RecipientPolicyProofs`). The invariant adds to the types that an apply which got
as far as composing holds rules (never the NULL it may have read as the applied ones), that
at most one intent is in flight, and that only grants that were created are bound. Every
step does one of four things to the revisions (`RowMoves`). From these: `ConstraintsHold`
(no CHECK constraint or unique index ever refuses a write), `BindingsAreProven`, and
`RevisionsRefine`, the refinement of `PolicyRevisions`. The lease plays no part in them: the
compare-and-set alone protects the *database*. It does not protect the *provider*, and
`GateIsEnforced` says what does: an open gate means that the provider enforces the addresses
that were applied, and that they are those of the active contacts of now
(`OpenGateIsEnforced`), with every operation, grant, fault and lapsed lease there is, *until
an operation that had lost its lease writes*. The history variable `overrun` tells that
moment: it is set by a mutation, a write at the provider or a commit of an actor that is not
the holder, and forgotten when the lease is taken again over a closed gate. `GateInv` adds
what the holder knows at each step (`HolderOK`): what it composed has the addresses of the
contacts of now, and what it verified is what the provider has. The lease is 60 seconds and
never renewed, so the moment does come: `GateMatchesRemote`, the same of whole rules and
without the exception, is checked in `PolicyProgress` without expiry and without grants, and
fails with either (section 5 has one counterexample, section 6 the other).

**Composition** (last part of `RecipientPolicyProofs`). `WritesOverTheExplained`: an apply
writes over a remote policy only when every rule it read there is explained by our records.
`VerifiedIsComposed`: what is told as verified is the composed rule set.

**Grants, ledger and locks** (`GrantLedgerProofs`). A transaction's locks are those of its
kind, taken in order (`JobsOK`), and locks exclude (`Exclusion`); a grant or the policy is
written only under its lock by a transaction that ends there (`Locked`), so what a claim
reads under its locks is still true when it decides (`Knows`). Hence `SpendIsCovered`. A
claim is released only by the one executor of its preview (`MoneyOK`) and a turn counts
once, as one that may still claim or as a claim (`CountOK`): `ReservationsHold`. `CapHolds`:
the last claim of a period counted all the others, because it waited no longer than
`MaxWait` after the time it is dated at (`Timely`). `LockOrder`: locks
alone never close a cycle. `WaitingNeedsThePool` adds the connections, for a pool of any
size: transactions that all wait for one another are all the open ones, hold the whole pool,
and one of them waits for no lock but for a second connection. That this does happen is
`NoDeadlock` in section 5.

**Deposits and wallets** (`WalletProofs`). `NoDepositSkipped`: the triple in the database
never covers a deposit that is not in the feed, whatever workers overlap, because whatever a
run holds in memory was *sound* when it was read and soundness only grows with the feed
(`FeedGrows`, `TripleOK`). `LeasesExclude` and `ReadRowsStayRead` beside it. In the
enrollment a request writes from what it learned before its last await; `RequestOK` says
what that is at each step, and `Advances` why no other request takes it back (revisions,
bindings and grant rows only grow): `AppliedOnlyBound`, `ActiveIsProven`,
`RevocationIsFinal`. `ReadyIsTheListed` and `SyncsAreInOrder` rest on `SyncOK`: as the user's
advisory lock is taken before the provider is asked, what a sync saw is the newest thing
anybody saw until it commits.

**Voice** (`VoiceActionsProofs`). A call relies, over an await, only on facts that no other
call takes back: that its row was published, that it was authorized (`Grows`, `CallOK`). The
versions of a proposal exclude one another through the lineage they share (`RowsOK`), and the
evidence in the window is what was said to it since it opened (`WindowOK`). From these
`GateNeverDisagrees`, `WindowsHaveCards`, `AppliedOnce`, and the action property
`OnlySpeechDecides`.

**The assistant's turns** (`AssistantTurnsProofs`). A turn writes back a snapshot that other
turns have outdated; what saves it is that the book only grows (`BookGrows`): a contact keeps
the address of every version it had and a version never comes back, so what a session says
of *a contact at a version* stays true. From it `ProvenanceIsTrue`, `PinIsTrue`,
`PaysTheReviewed`. `SavesOnlyWhatWasSent`: an address enters the book only as the one its
request carried (the server resolves a name again and refuses it if it moved) or as the draft
of an earlier turn. That the request carried what the screen *showed* is not so: `FormSaves`,
section 5.

**Live conversation** (`LiveConversationProofs`). Every revision anybody remembers is at most
the row's, and what bears the row's revision is what the server has, since every write but
the release of a claim moves the revision past all of them: `PageIsCurrent`,
`TheSeenSessionEnds`, `EndingIsAcknowledged`, `LeaseIsKept`.

**Notifications** (`NotificationFeedProofs`). A batch is read without a lock, and the order is
kept because, whenever a dispatcher is at an event, each older one is in its batch before it
or completed (`BatchOK`); going on after a failed event would break just that. From it
`CompletedHasItsRow` and `TheStoryIsTold`.

**Only model-checked:** every liveness property (`SubmittedResolves`, `IntentSettles`,
`StatusResolves`, `DepositNotified`, `HeardIsShown`, `ToldIsShown`), as fairness is out of
the prover's reach, and the claims of the operator modules, which TLC evaluates over bounded
inputs; what a recursive function computes for every input would be an induction over data.
The ledger's sum is no exception: it is counted as the size of a set of units (`Units`).

## 5. What the documents say and the models refute

`FormSaves` is a run of the project; the others are definitions at the end of their modules,
each violated by what the code does under the constants of the run named with the changes
given (an invariant or a property in place of the run's own).

| Definition (module) | What is said | Instance | What the code does |
|---|---|---|---|
| `ClaimedIsReconciled` (`TransferAttempts`) | `docs/architecture.md`: a task that outlives the drain "is reconciled rather than broadcast again" | `TransferRetries` with `Grants = {}` | nothing ever reads a broadcasting row without a hash again |
| `PreviewPaidOnce` (`TransferAttempts`) | `docs/api.md`: "A stale preview, repeated decision, or uncertain broadcast [...] never starts another broadcast" | `TransferRetries`, `Slots = {s1, s2}`, no faults | `saveSnapshot` inserts a transfer read earlier again; both rows are paid |
| `BroadcastWinsTheClaim` (`TransferAttempts`) | slice 3: "Any broadcast must also win the single-winner claimPendingTransfer transition" | `TransferRetries`, no faults | the agent's confirm path broadcasts on the snapshot in memory |
| `NoDeadlock` (`GrantLedger`) | `docs/architecture.md:326`: the order "is deadlock-free *by construction*" | `GrantLedger` | two transactions that each hold a connection wait for a second one to read the grants; the locks are not to blame (`LockOrder`, `OnlyThePoolDeadlocks`) |
| `ClaimHasAnOwner` (`TransferAttempts`) | `assistant-outbox.ts`: a refused dispatch returns the attempt to previewed | `TransferRetries`, no faults | the retried claim is stored without a task |
| `DestinationsWereShown` (`AssistantTurns`) | `AddTrustedRecipient.tsx:405`: "lo que se guarda tiene que ser lo que el usuario está viendo ahora" (what is saved has to be what the user is seeing now) | the run `FormSaves` | the answer to a search is kept whatever the text is by then, and saved in its place |
| `GateMatchesRemote` (`RecipientPolicy`) | `docs/architecture.md`: the lease makes writers of one wallet exclusive | `PolicyProgress`, `Faults = {"expire"}`, `MaxCrashes = 0` | a writer whose lease ran out still writes at the provider, after the gate opened |
| `OwnRulesRecognized` (`RecipientPolicy`) | the readback distinguishes our rules from foreign ones | `PolicyProgress`, one loop, `Baseline = {}`, `Ops = {"mutate", "retry"}`, no faults | after an address was edited, our former rules are unexplained and the wallet is blocked |
| `StatusResolves` (`RecipientPolicy`) | a retry makes the reconciler try again | `PolicyProgress`, one loop, `Ops = {"mutate", "retry"}`, `Cap = 3`, no faults | a retry of a settled intent leaves the row pending for ever |
| `OpenCardConfirmable` (`VoiceActions`) | `contact-proposal-publication.ts`: "the card is still open and the user can act on the sentence" | `VoiceActions`, one row, one preview, two calls | a refused application leaves the arbiter's window consumed: no answer confirms it any more |
| `FirstConsentBinds` (`WalletEnrollment`) | `embedded.ts`: first consent "discovers and binds exactly one new signer" | `WalletEnrollment`, `MaxChanges = 1`, `MaxRequests = 4` | the snapshot is taken of a wallet that already has the signer |

## 6. Observations

Facts about the code met while modelling, each at the module that shows it. They are
notes for whoever works on that code next.

**Transfers, `TransferAttempts`.**
- Without a ready wallet a transfer has no idempotency key, and each press of a button makes
  a fresh one.
- A task that waits for finality after a wallet rotation pages through the history of the
  other wallet, and an error of that paging ends the wait.

**Sending and finality, `SolanaProvider`, `SigningSidecar`, `AgentTools`.**
- The wallet bound for a user and the worker's expose no `reconcileBroadcast`.
- An error at commitment "processed" is told as reverted at once. A send without client
  credentials is told as uncertain although nothing left. `receipt_invalid` is not the proof
  of absence that `solana-devnet-provider.ts:639` takes it for. A signer whose body comes
  late is a protocol error, not a timeout.
- An MCP message or an outer status "failed" above a nested result with a hash is not looked
  at by `normalizeBroadcastResult`. A preview may hold a transaction below the fee layer.
  The schema of `create_grant` admits 0, `solToLamports` refuses it.

**Turns of the assistant, `AssistantTurns`, `ConversationState`.**
- A preview by id and version after an ambiguous search has no selection: the pending
  transfer has no recipient, and its confirmation skips the revalidation of `docs/api.md:256`.
- A memory write can be confirmed twice by overlapping turns, as a stale `saveSnapshot`
  restores `pendingWrite` (`docs/demo-runbook.md:140`). It also rolls back the generation.
- "Yes" to a pending interpretation asks again, and swallows a confirmation of a transfer.
- Progress "working" stays after a clarification; `setProgress` returns no messages, so the
  agent sees no history in a transfer-like turn; `stale_revision` of `renewContext` is thrown
  out of a turn that was saved; writes to memory from a chat bypass the policy service; the
  text path does not persist `contactAction`.
- A confirmation by a grant is in `TransferAttempts`, not in `AssistantTurns`.
- Why a transfer failed is prose read back with `includes("reverted")`: a Spanish reverted
  transfer, and any that never left, is shown as an invalid receipt (`state-projection.ts`,
  `service.ts:1588`). `activityFor` of the service lacks the "uncertain" branch of the
  projection. After settlement the network of a finished transaction defaults to "sepolia".

**Contacts and names, `ContactBook`, `RecipientSearch`, `NameResolution`.**
- Typing an address while a name is searched for saves the searched name's address
  (`AddTrustedRecipient.tsx:194`; the run `FormSaves`): the input of lines 401-411 stays
  enabled, and a resolution that arrives late wins over the text.
- Renaming on the page always sends the address and so clears the alias claim; the API's
  `projectContact` drops `duplicateOf`; a replay whose contact was archived meets the unique
  index.
- That a short form is unique is decided among the five rows retrieved, not the book. A
  margin of 0 is an accepted configuration, and then the order of names picks the payee. A
  name with a qualifier that fits nothing falls through to another contact's description.
  Two relationship facts conflict only when both say "<name> is my ...". A failed model load
  is cached until restart.
- A misconfigured resolver is told as an outage for good; the reverification at a
  confirmation fails closed with its code where the drift check calls it unavailable. A
  malformed name has one code on the screen and another by voice.

**Contact proposals, `VoiceActions`, `ProposalOutcomes`.**
- A composition that is refused has committed the contact write (`service.ts:2490-2565`) and,
  refused after a grant was activated meanwhile, everything with the consumption; yet the
  answer is `refused` (`service.ts:822-824`: "Nothing was consumed and nothing was mutated")
  and the voice says that nothing was saved. The card stays open, and confirming a create
  again saves the contact again.
- A review staged by a conversation never names the grants a removal affects, so such a
  contact cannot be removed by voice at all. A staged edit carries no data and is always
  refused unless its address is replaced through the route. A blocked removal is told as
  "being applied right now". `PROPUESTA_SIN_DIRECCION` asks to paste on a form that is gone.
- The arbiter's window never expires (`design.md` 7.4, order A). "Seguro?" and "listo?"
  count as confirmations; "bien" and "listo" are not the filler that
  `resolution-phrases.ts` says.

**Recipient policy, `RecipientPolicy`, `PolicyComposition`, `PolicyProbes`.**
- A grant created between the commit of an applied revision and its settling, with a crash
  in between, lets the retry write the grant's rule at the provider while the row still says
  the old rules are applied (`GateMatchesRemote` with `"grant"` in `Ops`).
- The removal of the last ordinary recipient, or the revocation of a grant, leaves a remote
  rule for which the next composition has no name; it is never repaired.
- The union probe's transfer is covered by the first rule, so a provider that reads only the
  first passes for one that takes the union. The fourth probe records `rulesAfterPatch` and
  does not check it. A blind new probe takes back a recorded proof (fails closed).
  `ownership_drift` is reported whenever the listing lacks the wallet. The attachment probe
  is laxer than the readback.

**Grants and enrollment, `GrantLedger`, `WalletEnrollment`, `WalletPanel`.**
- A replayed claim on a revoked grant is granted (`docs/architecture.md`, around line 413).
- The readback after attaching (`embedded.ts:1404`) lists Ethereum wallets only; a
  `WalletConflictError` rolls back demotions; two concurrent prepares can insert two pending
  grants; a pending grant beside a revoked one can be completed later, and keeps the first
  attempt's allowlist. The enrollment takes no lease.
- The panel's revoke names no grant and takes the latest active one. With the trusted client
  a revocation always throws and stays "revoking", which no route looks for again although
  the page says "we keep checking"; after it the panel offers no button. A preparation
  outlives the grant that another page completed. `wallets.ts:55` says the default is `arc`,
  the service's is "solana".

**Reads, `WalletReads`, `Amounts`.**
- `/v1/wallet/address` returns the provider's promise without awaiting it, past its own
  catch: a runtime error is a 500 where the other routes answer 409, 501 or 503.
- Fixture and history fold the case of base58 addresses; an array passes for a fixture
  object; one bad transfer refuses the history; a balance's own address is not compared; a
  history that mixes seconds and milliseconds loses its order; an empty variable is not
  "unset".
- Rounding half up can read aloud more than one owns. Spanish amounts from 10^9 on say "mil
  millones ... millones".

**Deposits and notifications, `DepositReconciliation`, `NotificationFeed`.**
- A run whose lease expired may write over a newer triple: that loses progress, never a
  deposit. The webhook keeps receipts only.
- The dispatcher announces a revision that the page has normally heard, so the new row shows
  at the next poll or focus (the slice-5 specification of the inbox, line 39). A refresh in
  flight drops an announced revision. A read answered before a mark-read commits shows the
  row unread until the next poll. A failing event ends the whole pass, which keeps the order.

**Live conversation, `LiveConversation`, `VoicePresence`, `VoiceRoom`.**
- The release of a pending claim moves no revision: `ShownIsCurrent` exempts it. After a
  reconnection `refresh()` returns at once when a read is in flight; the first failed read
  has no retry without an ETag; the RPC of the binding stays registered; the result of a
  renewal is ignored (`worker.ts:621`); a crash leaves mode "live" with a lapsed lease;
  `bumpAndReadState` always answers mode "typed"; applied and requested revisions are not
  reset when the conversation changes.
- A muted phase is overwritten by the agent's state, so the page says "listening" with a
  closed microphone. A failed agent state shows the failure and stays in the room. A page
  hidden while it reconnects takes the microphone back. `disconnect()` does not reset
  `reconnecting`, so the first loss of the next session is told to nobody
  (`livekit-web-client.ts:169`). `canPlaybackAudio` is bound to `isAudioBlocked`.
- The room is named after the conversation: a page that returns meets the same job, whose own
  lease refuses the new token, and the binding is cleared while the lease is kept. After a
  lapsed lease a second session starts and nobody closes the first. A third utterance while a
  turn is worked on is dropped; after a failed second start two turns can run.
- `worker.ts:644` presumes that money was drained before the exit, which holds if LiveKit
  calls shutdown callbacks one after another. `greeting-context.ts:65` says it establishes
  the language, and does not. `handleFinalTranscript` is used by tests only.

## 7. Limits

- Abstractions that could hide something are named in the header of each module. The
  larger ones: `TransferAttempts` and `AssistantTurns` each take what the other does as one
  step; tools of one agent step are taken one at a time, where the AI SDK runs them in
  parallel; `RecipientPolicy` is one wallet, and attaching a policy (a read and a write at
  the provider) is one step; `VoiceActions` keeps of a timestamp whether a millisecond
  passed; a second device is a page that left and came back.
- `TransferRetries` has one process, so claims that are retried while two processes race are
  covered by the theorems and not by TLC. `PolicyProgress` has neither expiry nor grants nor
  retries; `PolicySafety` has them, with one reconciler.
- In the liveness of the feed faults are bounded: an event that fails for ever holds up every
  later one for ever, and nothing here says otherwise.
- `PolicyProgress` has no grants: a composition that the reconciler refuses (a grant created
  after the revision was recorded, while the union of rules is unproven) throws before
  `settle`, the intent stays due and no attempt is counted (`wallet/policy/service.ts:2791`).
- Not modelled: rendering, layout and routing of the page; authentication, CORS, schema
  validation and wiring; the language model, speech and embeddings, which are choices of
  outcome; encoding and decoding of transactions and the cryptography, which are libraries;
  scripts, evaluations and fixtures, which are not part of the running system.
