---------------------------- MODULE AgentTools ----------------------------
(***************************************************************************)
(* What the model may say to a tool and what a tool lets back: the inputs  *)
(* each tool accepts, the tools of the text and of the voice surface, the  *)
(* answers a tool falls back to when a port is missing, the reading of a   *)
(* wallet's answer as a preview or as a transaction, and the creation of a *)
(* grant by conversation.                                                  *)
(*                                                                         *)
(* An answer of the wallet is a chain of layers, the outermost first: a    *)
(* text or an MCP message that holds another layer, or an object, which    *)
(* may hold one under output, result or data.  Wording is left out, and so *)
(* are the values a key carries beyond what a reader tells apart.          *)
(***************************************************************************)
EXTENDS Integers, Sequences, FiniteSets, SequencesExt

-----------------------------------------------------------------------------
(* Inputs                                                                  *)

\* sendTokenInputSchema: strict, the only form the model is told of.
PreviewKeys == {"amount", "recipientId", "recipientVersion"}
AcceptsPreview(keys) == PreviewKeys \subseteq keys /\ keys \subseteq PreviewKeys \cup {"memo"}

\* internalSendTokenInputSchema: what the confirmation sends; further keys are dropped.
InternalKeys == {"network", "token", "to", "amount", "wallet", "dryRun"}
AcceptsInternal(keys) == InternalKeys \subseteq keys

Keys == PreviewKeys \cup InternalKeys \cup {"memo", "previewId"}

\* createGrantInputSchema, contactCreateInputSchema, contactChangeInputSchema and
\* contactConfirmInputSchema: the required keys and the optional ones, strict.
Strict ==
  [create_grant |-> <<{"recipientId", "recipientVersion", "maxPerTransferSol",
                       "maxCumulativeSol"}, {}>>,
   stage_trusted_recipient |-> <<{"name"}, {"description", "snsName"}>>,
   stage_trusted_recipient_edit |-> <<{"contactId", "expectedVersion"}, {}>>,
   stage_trusted_recipient_removal |-> <<{"contactId", "expectedVersion"}, {}>>,
   confirm_trusted_recipient_action |-> <<{"proposalId", "proposalVersion"}, {}>>,
   list_contacts |-> <<{}, {"limit"}>>]

AcceptsStrict(tool, keys) ==
  Strict[tool][1] \subseteq keys /\ keys \subseteq Strict[tool][1] \cup Strict[tool][2]

\* memoryDraftSchema: a recipient needs a name, a description and an address, a
\* fact its text.
AcceptsDraft(kind, keys) ==
  IF kind = "recipient" THEN {"name", "description", "address"} \subseteq keys
  ELSE "fact" \in keys

\* executeSendToken, behind the guard of buildGuardedTools in a text turn: a preview
\* first, the internal form second.
SendTokenReads(keys) ==
  IF AcceptsPreview(keys) THEN "preview"
  ELSE IF AcceptsInternal(keys) THEN "internal"
  ELSE "confirmation_required"

-----------------------------------------------------------------------------
(* Tools of a surface                                                      *)

\* WalletAgentContext: the ports a turn has.
Ports == {"memory", "contacts", "contactActions", "confirm", "grantService",
          "voiceService", "voiceConversations", "gate"}
Context == {c \in SUBSET Ports : "confirm" \in c => "contactActions" \in c}

IsVoice(c) == {"voiceService", "voiceConversations"} \subseteq c

WalletTools == {"get_networks", "list_tokens", "get_address", "get_balance",
                "get_history", "send_token", "create_grant"}
MemoryTools == {"search_user_memory", "get_selected_recipient_address",
                "stage_user_memory", "write_user_memory"}
ContactTools == DOMAIN Strict \ {"create_grant", "list_contacts"}
VOICE_ONLY_TOOLS == {"confirm_transfer", "cancel_transfer"}

\* createWalletAgentDefinition: a search is always there, the rest of the memory
\* with its runtime, the decisions with a voice.
Tools(c) ==
  WalletTools \cup ContactTools \cup {"search_recipients", "list_contacts"}
    \cup (IF "memory" \in c THEN MemoryTools ELSE {})
    \cup (IF IsVoice(c) THEN VOICE_ONLY_TOOLS ELSE {})

\* CANCELLABLE: what the room may abort when the user speaks over it.
Cancellable == (WalletTools \ {"create_grant"}) \cup
  {"search_recipients", "search_user_memory", "get_selected_recipient_address"}

\* The answer of a tool whose port is missing, "works" otherwise.
Fallback(tool, c) ==
  CASE tool = "list_contacts" /\ "contacts" \notin c -> "unavailable"
    [] tool = "search_recipients" /\ "memory" \notin c -> "unavailable"
    [] tool = "create_grant" /\ c \cap {"voiceService", "grantService"} = {} ->
         "grant_creation_unavailable"
    [] tool \in ContactTools /\ "contactActions" \notin c -> "address_review_required"
    [] tool = "confirm_trusted_recipient_action" /\ "confirm" \notin c ->
         "address_review_required"
    [] tool = "send_token" /\ "memory" \notin c /\ ~IsVoice(c) ->
         "recipient_revalidation_required"
    [] tool \in VOICE_ONLY_TOOLS /\ "gate" \notin c -> "confirmation_required"
    [] OTHER -> "works"

\* What a tool's answer may tell of a contact.
Tells(tool) ==
  CASE tool = "search_recipients" -> {"id", "name", "description", "version"}
    [] tool = "list_contacts"     -> {"name", "description", "network", "hasAlias"}
    [] tool = "send_token"        -> {"amount", "token", "name", "fee", "network"}
    [] tool \in VOICE_ONLY_TOOLS  -> {"amount", "token", "hash"}
    [] tool = "get_selected_recipient_address" -> {"address"}
    [] OTHER -> {}

-----------------------------------------------------------------------------
(* Contacts and balances                                                   *)

\* createContactReadOperations: of the contacts 1, 2, ... of the book the first
\* limit, and how many there are.
ListContacts(saved, limit, readable) ==
  IF readable
  THEN [status |-> "listed", contacts |-> SelectSeq(saved, LAMBDA n : n <= limit),
        total |-> Len(saved), truncated |-> Len(saved) > limit]
  ELSE [status |-> "unavailable", contacts |-> <<>>, total |-> 0, truncated |-> FALSE]

\* toVoiceSearchResult: every row the search found, whether or not it chose one.
VoiceSearch(status, found) ==
  [status |-> status,
   contacts |-> IF status = "unavailable" THEN 0 ELSE found,
   ambiguous |-> status = "clarification_required" \/ (status = "no_match" /\ found > 0)]

\* get_balance without a network: one entry for each, a failed one among them.
Balances(networks, fails) ==
  [n \in networks |-> IF n \in fails THEN "error" ELSE "balance"]

-----------------------------------------------------------------------------
(* Reading an answer of the wallet                                         *)

\* The keys a layer has: hash is transactionHash, other is txHash or hash, and
\* malformed one of them with a value that is no hash.
Bare == [preview |-> "absent", success |-> "absent", fee |-> "absent",
         hash |-> "absent", failed |-> FALSE, sent |-> FALSE]
Marks == [preview : {"absent", "true", "false"}, success : {"absent", "true", "false"},
          fee : {"absent", "blank", "set"}, hash : {"absent", "hash", "other", "malformed"},
          failed : BOOLEAN, sent : BOOLEAN]

Object(marks) == [form |-> "object", marks |-> marks]
Scalar == [form |-> "scalar", marks |-> Bare]
Unreadable == [form |-> "unreadable text", marks |-> Bare]
Text == [form |-> "text", marks |-> Bare]
Mcp(marks) == [form |-> "mcp", marks |-> marks]

MaxDepth == 4

\* isBroadcastResult.
SaysBroadcast(marks) ==
  marks.preview = "false" \/ marks.success # "absent" \/ marks.sent \/ marks.hash # "absent"

\* The keys decodeBroadcastCandidate stops at: success, failure, error, or a hash;
\* a status is none of them.
SpeaksOfBroadcast(marks, keyed) ==
  marks.success # "absent" \/ marks.hash # "absent" \/ (marks.failed /\ keyed)

\* decodePreviewCandidate: the layers are read from the outside; a layer that says
\* broadcast ends the reading, an object with a fee is the candidate.
PreviewLayer(out) ==
  LET Stops(i) == \/ out[i].form \in {"scalar", "unreadable text"}
                  \/ out[i].form \in {"mcp", "object"} /\ SaysBroadcast(out[i].marks)
      Found(i) == out[i].form = "object" /\ out[i].marks.fee # "absent" /\ ~Stops(i)
      at == {i \in 1..Len(out) : Found(i) /\ \A j \in 1..(i - 1) : ~Stops(j) /\ ~Found(j)}
  IN at \cap 1..(MaxDepth + 1)

\* canonicalizeTransferPreview, with the address and amount of the request, never
\* of the answer.
IsPreview(out) ==
  \E i \in PreviewLayer(out) : out[i].marks.preview = "true" /\ out[i].marks.fee = "set"

\* decodeBroadcastCandidate: an MCP message is opened whatever else it says.
BroadcastLayer(out, keyed) ==
  LET Stops(i) == out[i].form \in {"scalar", "unreadable text"}
      Found(i) == out[i].form = "object" /\ SpeaksOfBroadcast(out[i].marks, keyed)
      at == {i \in 1..Len(out) : Found(i) /\ \A j \in 1..(i - 1) : ~Stops(j) /\ ~Found(j)}
  IN at \cap 1..(MaxDepth + 1)

\* normalizeBroadcastResult: a hash that no key of the same object denies; under
\* another name than transactionHash it needs success.
IsTransaction(out, keyed) ==
  \E i \in BroadcastLayer(out, keyed) :
    /\ out[i].marks.success # "false" /\ ~out[i].marks.failed
    /\ \/ out[i].marks.hash = "hash"
       \/ out[i].marks.hash = "other" /\ out[i].marks.success = "true"

\* sendToken: a transfer that left is its transaction; of one that did not, the
\* cause decides what is told.
BroadcastAnswer(kind, cause) ==
  CASE kind = "submitted" -> "transaction"
    [] kind = "uncertain" -> "broadcast_uncertain"
    [] kind = "not_dispatched" ->
         CASE cause = "policy_rejected"      -> "policy_rejected"
           [] cause = "invalid_request"      -> "internal_error"
           [] cause = "provider_unavailable" -> "wallet_unavailable"

-----------------------------------------------------------------------------
(* A grant by conversation                                                 *)

\* GRANT_MAX_PER_TRANSFER_LAMPORTS, in a unit small enough to count with.
Ceiling == 2

\* createDelegatedGrant: the checks in their order; a limit is in lamports, or 0
\* where solToLamports reads no positive amount.
GrantOutcome(g) ==
  IF ~g.creator THEN "grant_creation_unavailable"
  ELSE IF g.recipient = "gone" THEN "recipient_revalidation_required"
  ELSE IF g.recipient = "elsewhere" THEN "recipient_not_solana"
  ELSE IF g.per = 0 \/ g.total = 0 THEN "invalid_amount"
  ELSE IF g.per > Ceiling THEN "amount_over_ceiling"
  ELSE IF g.total < g.per THEN "invalid_amount"
  ELSE IF g.created = "no wallet" THEN "wallet_unavailable"
  ELSE IF g.created = "refused" THEN "invalid_amount"
  ELSE IF g.created = "fails" THEN "internal_error"
  ELSE "created"

GrantRequests ==
  [creator : BOOLEAN, recipient : {"gone", "elsewhere", "solana"}, per : 0..(Ceiling + 1),
   total : 0..(Ceiling + 2), created : {"yes", "no wallet", "refused", "fails"}]

-----------------------------------------------------------------------------
(* Claims, evaluated over every context, input and small answer            *)

\* What the model says is read as a preview by contact and version or not as a
\* preview at all: no input is both, and none with an address is a preview.
PreviewNamesNoAddress ==
  \A keys \in SUBSET Keys :
    /\ ~(AcceptsPreview(keys) /\ AcceptsInternal(keys))
    /\ AcceptsPreview(keys) => keys \cap {"to", "network", "token", "wallet", "dryRun"} = {}

\* The two surfaces have the same tools, but for the spoken decision.
SurfacesAgree ==
  \A c \in Context : IsVoice(c) =>
    Tools(c) \ Tools(c \ {"voiceService", "voiceConversations"}) = VOICE_ONLY_TOOLS

\* An address reaches the model by the one tool that reveals a selected contact.
AddressHasOneWay ==
  \A c \in Context : \A tool \in Tools(c) :
    "address" \in Tells(tool) => tool = "get_selected_recipient_address" /\ "memory" \in c

\* A tool that changes something is never aborted half way by a user who speaks.
ChangesAreNotAborted ==
  Cancellable \cap ({"create_grant", "stage_user_memory", "write_user_memory"}
                      \cup ContactTools \cup VOICE_ONLY_TOOLS) = {}

\* Without its ports a context can change nothing: what is left reads the wallet.
EmptyContextReads ==
  \A tool \in Tools({}) : Fallback(tool, {}) = "works" =>
    tool \in {"get_networks", "list_tokens", "get_address", "get_balance", "get_history"}

\* "You have no contacts" is said of an address book that was read and is empty; a
\* cut list says so.
EmptyListIsEmpty ==
  \A n \in 0..4, limit \in 1..3, readable \in BOOLEAN :
    LET list == ListContacts([i \in 1..n |-> i], limit, readable)
    IN /\ list.status = "listed" /\ list.contacts = <<>> => n = 0
       /\ list.truncated <=> (list.status = "listed" /\ Len(list.contacts) < n)

\* Rows that came without a question are rows of a contact the search resolved.
RowsAskOrResolve ==
  \A status \in {"resolved", "clarification_required", "no_match", "unavailable"},
     found \in 0..3 :
    LET s == VoiceSearch(status, found)
    IN s.contacts > 0 /\ ~s.ambiguous => status = "resolved"

\* A network that fails takes no other balance with it.
FailureStaysLocal ==
  \A fails \in SUBSET {1, 2, 3} :
    {n \in {1, 2, 3} : Balances({1, 2, 3}, fails)[n] = "balance"} = {1, 2, 3} \ fails

Wrappers == {Text, Mcp(Bare), Object(Bare), Mcp([Bare EXCEPT !.failed = TRUE]),
             Object([Bare EXCEPT !.failed = TRUE]), Object([Bare EXCEPT !.success = "true"]),
             Object([Bare EXCEPT !.preview = "true", !.fee = "set"])}
Answers ==
  LET leaves == {Object(m) : m \in Marks} \cup {Scalar, Unreadable}
  IN {<<l>> : l \in leaves} \cup {<<w, l>> : w \in Wrappers, l \in leaves}

\* An answer is not taken for a preview when the layers read on the way, down to
\* the one with the fee, speak of a broadcast.
PreviewIsNoBroadcast ==
  \A out \in Answers : IsPreview(out) =>
    \A i \in PreviewLayer(out), j \in 1..Len(out) : j <= i => ~SaysBroadcast(out[j].marks)

\* One answer is read both ways, as a preview to confirm and as a transaction, only
\* when the preview holds the transaction under it.
ReadOneWay ==
  \A out \in Answers, keyed \in BOOLEAN : IsPreview(out) /\ IsTransaction(out, keyed) =>
    \A i \in PreviewLayer(out), j \in BroadcastLayer(out, keyed) : i < j

\* A transaction is never read out of the object that denies it, and depth ends
\* the reading.
DeniedIsNoTransaction ==
  \A out \in Answers, keyed \in BOOLEAN : IsTransaction(out, keyed) =>
    \E i \in 1..Len(out) : /\ out[i].marks.hash \in {"hash", "other"}
                           /\ out[i].marks.success # "false" /\ ~out[i].marks.failed

DeepIsUnread ==
  \A m \in Marks :
    LET out == [i \in 1..(MaxDepth + 1) |-> Text] \o <<Object(m)>>
    IN ~IsPreview(out) /\ ~IsTransaction(out, TRUE)

\* Not so: a failure told by a layer outside the one with the hash.  An MCP message
\* with isError, or a status "failed" above a nested result, is not looked at.
FailureAboveIsHeard ==
  \A out \in Answers, keyed \in BOOLEAN :
    IsTransaction(out, keyed) => \A i \in 1..Len(out) : ~out[i].marks.failed

\* What is told of a transfer that did not leave invites another try exactly when
\* the wallet was out of reach, and never tells of one that may have left.
RetryIsForOutages ==
  \A cause \in {"policy_rejected", "invalid_request", "provider_unavailable"} :
    /\ BroadcastAnswer("not_dispatched", cause) = "wallet_unavailable"
         <=> cause = "provider_unavailable"
    /\ BroadcastAnswer("not_dispatched", cause) # BroadcastAnswer("uncertain", cause)

\* A grant made by talking is for a contact read again, positive, under the
\* ceiling, and covers at least one transfer.
GrantIsBounded ==
  \A g \in GrantRequests : GrantOutcome(g) = "created" =>
    /\ g.recipient = "solana" /\ 0 < g.per /\ g.per <= g.total /\ g.per <= Ceiling

ToolClaims ==
  /\ PreviewNamesNoAddress /\ SurfacesAgree /\ AddressHasOneWay /\ ChangesAreNotAborted
  /\ EmptyContextReads /\ EmptyListIsEmpty /\ RowsAskOrResolve /\ FailureStaysLocal
  /\ PreviewIsNoBroadcast /\ ReadOneWay /\ DeniedIsNoTransaction /\ DeepIsUnread
  /\ ~FailureAboveIsHeard /\ RetryIsForOutages /\ GrantIsBounded
=============================================================================
