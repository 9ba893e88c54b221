--------------------------- MODULE SolanaProvider ---------------------------
(***************************************************************************)
(* The wallet provider: Solana devnet through Privy (wallet/               *)
(* solana-devnet-provider.ts), bound to one user's wallet by               *)
(* solana-user-wallet.ts.                                                  *)
(*                                                                         *)
(* The provider keeps no state: an answer is a function of the request and *)
(* of what its calls meet.  A broadcast is a record of what each stage     *)
(* meets, in order; a wait for finality is a sequence of polls.  The       *)
(* transfer attempts that live on these answers are TransferAttempts.      *)
(***************************************************************************)
EXTENDS SigningSidecar, Sequences

-----------------------------------------------------------------------------
(* The user's wallet                                                       *)

\* isEligibleSolanaWallet, over what Privy lists for the user.
Eligible(listing) == {w \in listing : w.chain = "solana" /\ ~w.archived}

\* The ready bindings give a provider wallet id and an address; Privy answers
\* with a set of wallets, or not at all.  createSolanaWalletForUser never guesses.
NoAddress == "none"
ResolveWallet(bindings, privy) ==
  CASE bindings = {}                -> "wallet_not_ready"
    [] Cardinality(bindings) > 1    -> "wallet_config_error"
    [] OTHER ->
         LET b == CHOOSE x \in bindings : TRUE IN
         CASE b.address = NoAddress -> "wallet_config_error"
           [] b.address # NoAddress /\ ~privy.answers -> "wallet_unavailable"
           [] OTHER ->
                IF \E w \in Eligible(privy.wallets) :
                     Eligible(privy.wallets) = {w} /\ w.id = b.id /\ w.address = b.address
                THEN "wallet" ELSE "wallet_config_error"

-----------------------------------------------------------------------------
(* Preview                                                                 *)

\* The fee the network quotes for the message, against the ceiling of 50 000.
Quotes == {"error", "none", "low", "ceiling", "high"}

\* previewTransfer: an error, or the fee it shows; without a quote the ceiling.
PreviewOutcome(request, quote) ==
  CASE request.network # "solana-devnet" \/ request.recipient # "payable" \/ ~request.amount -> "error"
    [] request.network = "solana-devnet" /\ request.recipient = "payable" /\ request.amount ->
         CASE quote \in {"error", "high"} -> "error"
           [] quote = "none" -> "ceiling"
           [] OTHER -> quote

-----------------------------------------------------------------------------
(* Broadcast                                                               *)

\* assertRecipient and amountToLamports tell these requests apart.
Recipients == {"payable", "not base58", "own", "system"}

\* What Privy answers to signAndSendTransaction: its policy denies a request
\* in two shapes; the rest of the refusals, and silence, say nothing.
PrivyAnswers == {"hash", "no hash", "403", "policy_violation", "4xx", "5xx", "lost"}

\* left: whether the transaction is on its way when Privy's answer says
\* nothing of it.
Broadcasts ==
  [resolved  : BOOLEAN,                      \* the user's wallet is found
   network   : {"solana-devnet", "other"},
   preview   : BOOLEAN,                      \* the request names its preview
   bound     : BOOLEAN,                      \* the provider has a wallet
   recipient : Recipients,
   amount    : BOOLEAN,                      \* a positive amount of SOL
   blockhash : BOOLEAN,                      \* the network gives one
   app       : BOOLEAN,                      \* PRIVY_APP_ID and _SECRET
   config    : {"none", "signer", "signer_not_configured"},
   signer    : SignerErrors \cup {"signature"},
   privy     : PrivyAnswers,
   left      : BOOLEAN]

\* The stages before signAndSend, in their order.
Prepared(b) ==
  /\ b.network = "solana-devnet" /\ b.preview /\ b.bound
  /\ b.recipient = "payable" /\ b.amount
  /\ b.blockhash

\* createPrivySignAndSendClientFromEnvironment, on first use.
Configured(b) == b.app /\ b.config = "signer"

\* The SDK signs while it builds the request and sends it once.
Requested(b) == b.resolved /\ Prepared(b) /\ Configured(b) /\ b.signer = "signature"

\* isPolicyDenial.
PolicyDenial(answer) == answer \in {"403", "policy_violation"}

\* Privy signs and broadcasts what its policy lets through.
Moved(b) ==
  /\ Requested(b)
  /\ ~PolicyDenial(b.privy)
  /\ b.privy = "hash" \/ b.left

\* asDispatchFailure and the catch of broadcastTransfer: only what is
\* "definitive" is told as not dispatched.
Dispatched(b) ==
  CASE b.config = "signer_not_configured" -> [kind |-> "not_dispatched", cause |-> "provider_unavailable"]
    [] b.config # "signer_not_configured" /\ ~Configured(b) -> [kind |-> "uncertain", cause |-> "none"]
    [] Configured(b) /\ b.signer = "signer_rejected" ->
         [kind |-> "not_dispatched", cause |-> "invalid_request"]
    [] Configured(b) /\ b.signer \in SignerErrors \ {"signer_rejected"} ->
         [kind |-> "not_dispatched", cause |-> "provider_unavailable"]
    [] OTHER ->
         CASE PolicyDenial(b.privy) -> [kind |-> "not_dispatched", cause |-> "policy_rejected"]
           [] b.privy = "hash"      -> [kind |-> "submitted", cause |-> "none"]
           [] OTHER                 -> [kind |-> "uncertain", cause |-> "none"]

\* broadcastTransfer, its checks in their order.
BroadcastOutcome(b) ==
  CASE b.network # "solana-devnet" \/ ~b.preview -> [kind |-> "not_dispatched", cause |-> "invalid_request"]
    [] b.network = "solana-devnet" /\ b.preview /\ ~b.bound ->
         [kind |-> "not_dispatched", cause |-> "provider_unavailable"]
    [] b.network = "solana-devnet" /\ b.preview /\ b.bound /\ (b.recipient # "payable" \/ ~b.amount) ->
         [kind |-> "not_dispatched", cause |-> "invalid_request"]
    [] OTHER ->
         IF Prepared(b) THEN Dispatched(b)
         ELSE [kind |-> "not_dispatched", cause |-> "provider_unavailable"]

\* bindWalletForUser looks the wallet up again for every call; what it throws
\* the conversation tells as not dispatched (runFinancialTransfer).
TransferOutcome(b) ==
  IF b.resolved THEN BroadcastOutcome(b)
  ELSE [kind |-> "not_dispatched", cause |-> "provider_unavailable"]

\* reconcileBroadcast: the client has no lookup by reference (`findable`), so
\* the answer stays open.
ReconcileBroadcast(reference, findable, hash) ==
  IF reference /\ findable /\ hash THEN "submitted" ELSE "uncertain"

-----------------------------------------------------------------------------
(* Finality                                                                *)

\* One poll: the signature's status, or an error of that request; after an
\* error the wallet's history is paged.  `pages` are the full pages before the
\* one that is empty, `at` the page that lists the signature (0: none does).
SignatureStatuses == {"error", "unknown", "processed", "processed err", "confirmed", "confirmed err"}
Details == {"ok", "err", "missing"}

\* resolveByHistoryPaging reads at most MaxPages (100) pages; what the request
\* for a page throws ends the wait.
ResolveByHistoryPaging(poll, MaxPages) ==
  CASE poll.fails -> "throws"
    [] ~poll.fails /\ poll.at \in 1 .. MaxPages ->
         CASE poll.detail = "missing" -> "open"
           [] poll.detail = "err"     -> "reverted"
           [] OTHER                   -> "confirmed"
    [] OTHER -> IF poll.pages < MaxPages THEN "receipt_invalid" ELSE "open"

\* One turn of waitForFinality's loop.
PollFinality(poll, MaxPages) ==
  CASE poll.status \in {"processed err", "confirmed err"} -> "reverted"
    [] poll.status = "confirmed"                          -> "confirmed"
    [] poll.status = "error" -> ResolveByHistoryPaging(poll, MaxPages)
    [] OTHER                 -> "open"

\* The first poll that answers decides; the deadline throws.
WaitForFinality(polls, MaxPages) ==
  LET decisive == {i \in DOMAIN polls : PollFinality(polls[i], MaxPages) # "open"} IN
    IF decisive = {} THEN "throws"
    ELSE PollFinality(polls[CHOOSE i \in decisive : \A j \in decisive : i <= j], MaxPages)

-----------------------------------------------------------------------------
(* Claims, evaluated over every broadcast and every short wait             *)

\* What the transfer attempts rest on: a broadcast told as not dispatched has
\* moved nothing, and one told as submitted has; only "uncertain" is both.
AnswersTellTheMoney ==
  \A b \in Broadcasts :
    /\ TransferOutcome(b).kind = "not_dispatched" => ~Moved(b)
    /\ TransferOutcome(b).kind = "submitted" => Moved(b)

\* A transfer that never reached Privy is told so, and may be tried again,
\* unless it is the client that could not be made: without credentials or
\* without a signer nothing left either, but the attempt counts as unknown.
UnsentIsTold ==
  \A b \in Broadcasts :
    ~Requested(b) =>
      \/ TransferOutcome(b).kind = "not_dispatched"
      \/ Prepared(b) /\ (~b.app \/ b.config = "none")

\* "policy_rejected", which tells the user to allow the recipient, is said of
\* nothing but Privy's own refusal.
PolicyIsBlamedForItsOwn ==
  \A b \in Broadcasts :
    TransferOutcome(b).cause = "policy_rejected" => Requested(b) /\ PolicyDenial(b.privy)

\* What the preview showed, the broadcast does not refuse as invalid: only the
\* signer's rejection of a request is called that.
PreviewedIsValid ==
  \A b \in Broadcasts, quote \in Quotes :
    /\ PreviewOutcome(b, quote) # "error" /\ b.preview /\ b.resolved
    /\ TransferOutcome(b).cause = "invalid_request"
    => b.signer = "signer_rejected"

\* A wallet is bound only when it is the one wallet Privy lists, and the one the
\* binding names: neither an archived, nor a second, nor a replaced wallet.
BoundIsTheOnlyOne ==
  LET wallets  == [id : {1, 2}, address : {"a", "b"}, chain : {"solana", "ethereum"}, archived : BOOLEAN]
      listings == {{}} \cup {{v, w} : v, w \in wallets}
      bindings == [id : {1, 2}, address : {"a", "b", NoAddress}] IN
    \A bs \in {{}} \cup {{b, c} : b, c \in bindings}, listing \in listings, answers \in BOOLEAN :
      ResolveWallet(bs, [answers |-> answers, wallets |-> listing]) = "wallet" =>
        \E b \in bs, w \in listing :
          /\ bs = {b} /\ answers
          /\ w.id = b.id /\ w.address = b.address
          /\ \A other \in listing \ {w} : other.chain # "solana" \/ other.archived

\* What one poll can meet while a chain holds the signature or not: `landed` is
\* what the chain does with it in the end.  (A processed status counts as the
\* end, as it does in the code: a fork that drops it is left out.)
PollsOf(landed, MaxPages) ==
  {p \in [status : SignatureStatuses, fails : BOOLEAN, pages : 0 .. MaxPages,
          at : 0 .. MaxPages, detail : Details] :
     /\ p.at <= p.pages + 1
     /\ p.status \in {"confirmed", "processed"} \/ (p.at > 0 /\ p.detail = "ok") => landed = "ok"
     /\ p.status \in {"confirmed err", "processed err"} \/ (p.at > 0 /\ p.detail = "err")
          => landed = "err"
     /\ p.at > 0 => landed # "never"}

WaitsOf(landed, MaxPages) ==
  UNION {[1 .. n -> PollsOf(landed, MaxPages)] : n \in 1 .. 2}

\* "confirmed" and "reverted" are said of what the chain did, however often the
\* requests of the wait failed.
FinalityIsTheChains ==
  \A landed \in {"ok", "err", "never"} : \A polls \in WaitsOf(landed, 1) :
    /\ WaitForFinality(polls, 1) = "confirmed" => landed = "ok"
    /\ WaitForFinality(polls, 1) = "reverted"  => landed = "err"

\* "receipt_invalid ONLY on proven exhaustion" (solana-devnet-provider.ts:639):
\* an empty page proves that no full page is left, not that the signature will
\* never be listed.  The code does tell receipt_invalid of a transaction that
\* lands after the history was read, so TLC refutes this one; nothing uses it
\* but the negation below.
ExhaustionIsProof ==
  \A landed \in {"ok", "err"} : \A polls \in WaitsOf(landed, 1) :
    WaitForFinality(polls, 1) # "receipt_invalid"

ProviderClaims ==
  /\ AnswersTellTheMoney /\ UnsentIsTold /\ PolicyIsBlamedForItsOwn /\ PreviewedIsValid
  /\ BoundIsTheOnlyOne /\ FinalityIsTheChains /\ ~ExhaustionIsProof
=============================================================================
