------------------------- MODULE PolicyComposition -------------------------
(***************************************************************************)
(* What one apply of the recipient policy computes: the rule set composed  *)
(* from the wallet's records (wallet/policy/composer.ts), the comparison   *)
(* of a readback with it (readback.ts), the class of a provider failure    *)
(* (apply.ts), and the permission the contract shows (service.ts).         *)
(*                                                                         *)
(* All of it is pure: the module has operators and no variables.  The      *)
(* processes that call them, in which order and over which rows, are       *)
(* RecipientPolicy.                                                        *)
(***************************************************************************)
EXTENDS Naturals, FiniteSets, Sequences

-----------------------------------------------------------------------------
(* Rules                                                                   *)

\* Addresses and grant ids are ordered as the code orders their characters.
\* A rule allows transfers to the listed addresses, up to a cap, until a time;
\* `readable` and `shape` say what the code tells of a rule it did not write.
MaxLamports == 2
NoExpiry == 0
AllowlistName == 0     \* "Solana transfer allowlist"; a grant's rule has the grant's id

Rule(name, to, cap, until) ==
  [name |-> name, to |-> to, cap |-> cap, until |-> until, readable |-> TRUE, shape |-> "ours"]

RangeOf(s) == {s[i] : i \in DOMAIN s}

\* sortedUnique.
Sorted(S) ==
  CHOOSE s \in [1 .. Cardinality(S) -> S] :
    \A i, j \in 1 .. Cardinality(S) : i < j => s[i] < s[j]

-----------------------------------------------------------------------------
(* The composer                                                            *)

\* grants ascending by id, each with its own allowlist sorted.
OrderedGrants(grants) ==
  LET ids == {g.id : g \in grants} IN
    [i \in 1 .. Cardinality(grants) |-> CHOOSE g \in grants : g.id = Sorted(ids)[i]]

\* composeGrantRules: one rule for each grant, named for it.
ComposeGrantRules(grants) ==
  LET ordered == OrderedGrants(grants) IN
    [i \in DOMAIN ordered |->
       Rule(ordered[i].id, Sorted(RangeOf(ordered[i].recipients)), ordered[i].cap, ordered[i].until)]

\* buildSolanaEnrollmentRules.
SolanaEnrollmentRules(recipients) ==
  <<Rule(AllowlistName, Sorted(recipients), MaxLamports, NoExpiry)>>

\* What the wallet's records consent to, and what they can name an origin for:
\* the contacts' rows count for the second whatever their status.
OrdinaryRecipients(in) == in.baseline \cup in.contacts
GrantAddresses(in) == UNION {RangeOf(g.recipients) : g \in in.grants}
ComposedProvenance(in) == OrdinaryRecipients(in) \cup in.owned \cup GrantAddresses(in)

\* composePolicy: why it refuses, in the code's order.
RefusalOf(in) ==
  LET ordinary == OrdinaryRecipients(in) # {}
      granted  == in.grants # {} IN
    CASE in.cap # MaxLamports -> "ordinary_cap_unsupported"
      [] in.cap = MaxLamports /\ ~ordinary /\ ~granted /\ in.emptyComposition # "proven_deny" ->
           "empty_composition_unproven"
      [] in.cap = MaxLamports /\ ordinary /\ granted /\ in.ruleComposition # "union" ->
           "rule_composition_semantics_unproven"
      [] OTHER -> "none"

\* Its rules: the ordinary rule first, then the grants'.
ComposePolicy(in) ==
  (IF OrdinaryRecipients(in) = {} THEN <<>> ELSE SolanaEnrollmentRules(OrdinaryRecipients(in)))
    \o ComposeGrantRules(in.grants)

\* A refusal is told as this status of the wallet, and as this answer.
RefusalStatus(reason) == "blocked_configuration"
RefusalCode(reason) ==
  IF reason = "empty_composition_unproven" THEN "COMPOSICION_VACIA_NO_SOPORTADA" ELSE "CONFLICTO_POLITICA"

-----------------------------------------------------------------------------
(* Hashes                                                                  *)

\* An object is the sequence of its entries, <<key, value>>, in the order the
\* program happened to write them; keys are ordered as their characters are.
KeysOf(object) == {object[i][1] : i \in DOMAIN object}
EntryAt(object, key) == object[CHOOSE i \in DOMAIN object : object[i][1] = key]

\* canonicalEntries, of rules and of mutation bodies: declared keys first, the
\* others sorted; the hash of a rule set or of a request is that of this form.
CanonicalEntries(object, declared) ==
  LET present == SelectSeq(declared, LAMBDA key : key \in KeysOf(object))
      order   == present \o Sorted(KeysOf(object) \ RangeOf(present)) IN
    [i \in DOMAIN order |-> EntryAt(object, order[i])]

-----------------------------------------------------------------------------
(* The readback                                                            *)

\* The provider adds an id to every stored rule; normalizeProviderReadbackRules
\* takes it off again and leaves every other key.
Stored(rules, idOf) == [i \in DOMAIN rules |-> [rule |-> rules[i], id |-> idOf[i]]]
Normalized(stored) == [i \in DOMAIN stored |-> stored[i].rule]

NamesOf(rules) == {rules[i].name : i \in DOMAIN rules}

\* Checks (c) and (d) of one observed rule, in the code's order.
OffenceOf(rule, names, provenance) ==
  IF rule.name \notin names THEN "unrecognized_rule"
  ELSE IF ~rule.readable THEN "rule_conditions_unreadable"
  ELSE IF ~(RangeOf(rule.to) \subseteq provenance) THEN "recipient_address_without_provenance"
  ELSE IF rule.shape # "ours" THEN "rule_shape_unrecognized"
  ELSE "none"

Offending(observed, names, provenance) ==
  {i \in DOMAIN observed : OffenceOf(observed[i], names, provenance) # "none"}

\* What the comparison of an apply says of the bound signer and wallet.
Bindings == {"signer_attachment_unproven", "sibling_signer_lost", "ownership_drift", "proven"}

\* compareComposedRules: the first rule that offends decides, and only a
\* readback of nothing but our own rules may be repaired.
CompareComposedRules(phase, sameId, observed, composed, provenance) ==
  LET offending == Offending(observed, NamesOf(composed), provenance) IN
    IF ~sameId THEN "policy_id_mismatch"
    ELSE IF offending # {} THEN
      OffenceOf(observed[CHOOSE i \in offending : \A j \in offending : i <= j],
                NamesOf(composed), provenance)
    ELSE IF observed = composed THEN "equal"
    ELSE IF phase = "pristine" THEN "converge"
    ELSE "rules_mismatch"

\* assertOwnerVerifiedBinding: `listing` is the owner's wallet as Privy lists
\* it; a listing that was not read proves nothing.
OwnerVerifiedBinding(listing, canonical, policy, appliedSigners) ==
  LET occurrences == {i \in DOMAIN listing.signers : listing.signers[i].id = canonical} IN
    CASE ~listing.acquired -> "signer_attachment_unproven"
      [] listing.acquired
           /\ ~(\E i \in DOMAIN listing.signers :
                  occurrences = {i} /\ listing.signers[i].policies = <<policy>>) ->
           "signer_attachment_unproven"
      [] OTHER ->
           IF ~(appliedSigners \subseteq {listing.signers[i].id : i \in DOMAIN listing.signers})
           THEN "sibling_signer_lost"
           ELSE IF ~listing.owned THEN "ownership_drift"
           ELSE "proven"

\* comparePolicyReadback: rules first, then the binding.
ComparePolicyReadback(comparison, binding) ==
  IF comparison \notin {"equal", "converge"} THEN comparison
  ELSE IF binding # "proven" THEN binding
  ELSE IF comparison = "equal" THEN "verified"
  ELSE "patch_required"

-----------------------------------------------------------------------------
(* Failures of the provider                                                *)

\* What a request to the provider ends with, `landed` saying whether it took
\* effect; classify knows the kind and never the effect.
ProviderErrors == {"5xx", "4xx", "abort", "other", "signer", "protocol"}
FailureKind(error) ==
  CASE error = "5xx"   -> "server_error"
    [] error = "4xx"   -> "rejected"
    [] error = "abort" -> "timeout"
    [] error = "other" -> "network"
    [] error \in {"signer", "protocol"} -> error

Unverified(error) == FailureKind(error) \in {"timeout", "server_error", "network", "protocol"}

\* A write whose signature or refusal is known is tried again as it is; any
\* other write is told as unverified and read back before anything else.
WriteFailure(error) == IF Unverified(error) THEN "unverified" ELSE "retryable_failure"

MayHaveLanded(error) == error \notin {"4xx", "signer"}

-----------------------------------------------------------------------------
(* The permission the contract shows                                       *)

PolicyStatuses == {"saved_not_configured", "pending", "syncing", "applied", "retryable_failure",
                   "blocked_conflict", "blocked_configuration"}
StateRows == [status : PolicyStatuses, verified : BOOLEAN, desired : 0 .. 2, applied : 0 .. 2]

\* projectContactPermission.
ContactPermission(row) ==
  IF row.status = "applied" /\ (~row.verified \/ row.applied # row.desired)
  THEN [state |-> "pending", retryable |-> TRUE]
  ELSE [state |-> row.status, retryable |-> row.status \in {"pending", "syncing", "retryable_failure"}]

\* projectRevocationDisclosure.
RevocationDisclosure(permission) ==
  IF permission.state \in {"applied", "retryable_failure"} THEN permission.state ELSE "pending"

-----------------------------------------------------------------------------
(* Claims, evaluated over small records                                    *)

\* The provider's reading of several ALLOW rules, when it is a union.
Covers(rule, transfer) ==
  /\ transfer.to \in RangeOf(rule.to)
  /\ transfer.lamports <= rule.cap
  /\ rule.until = NoExpiry \/ transfer.at < rule.until
Permits(rules, transfer) == \E i \in DOMAIN rules : Covers(rules[i], transfer)

Recipients == {1, 2}
Transfers == [to : Recipients, lamports : 1 .. 3, at : 1 .. 2]
GrantRecords == [id : {1, 2}, recipients : {<<1>>, <<2, 1>>, <<2, 2>>}, cap : {1, 3}, until : {2}]
GrantSets == {gs \in {{}} \cup {{g, h} : g, h \in GrantRecords} :
                \A g, h \in gs : g.id = h.id => g = h}
Inputs == [baseline : SUBSET Recipients, contacts : SUBSET Recipients, owned : SUBSET Recipients,
           grants : GrantSets, cap : {MaxLamports},
           emptyComposition : {"unproven", "proven_deny"}, ruleComposition : {"unproven", "union"}]
Accepted == {in \in Inputs : RefusalOf(in) = "none"}

\* The composed policy allows exactly what was consented: a baseline or contact
\* address up to the one ceiling, a grant's own addresses under its own cap and
\* expiry, and nothing else; no grant widens another or the ordinary rule.
AllowsTheConsented ==
  \A in \in Accepted : \A t \in Transfers :
    Permits(ComposePolicy(in), t)
      <=> \/ t.to \in in.baseline \cup in.contacts /\ t.lamports <= MaxLamports
          \/ \E g \in in.grants :
               t.to \in RangeOf(g.recipients) /\ t.lamports <= g.cap /\ t.at < g.until

\* Two rule families are never sent together before the provider was seen to
\* read them as a union, nor an empty rule set before it was seen to deny.
UnprovenIsRefused ==
  \A in \in Accepted :
    LET rules == ComposePolicy(in) IN
      /\ rules = <<>> => in.emptyComposition = "proven_deny"
      /\ AllowlistName \in NamesOf(rules) /\ Len(rules) > 1 => in.ruleComposition = "union"

\* What was written reads back as verified, whatever ids the provider gave.
WrittenIsVerified ==
  \A in \in Accepted : \A phase \in {"pristine", "verification"} :
    LET rules == ComposePolicy(in)
        stored == Stored(rules, [i \in DOMAIN rules |-> i]) IN
      CompareComposedRules(phase, TRUE, Normalized(stored), rules, ComposedProvenance(in)) = "equal"

\* A contact that is removed stays an owned row: the policy that still allows it
\* is repaired, not refused.  The exception is the last ordinary recipient: the
\* allowlist rule itself is then a rule the composition has no name for.
RemovalConverges ==
  \A in \in Accepted : \A c \in in.contacts :
    LET before == [in EXCEPT !.owned = @ \cup in.contacts]
        after  == [before EXCEPT !.contacts = @ \ {c}] IN
      RefusalOf(after) = "none" =>
        (CompareComposedRules("pristine", TRUE, ComposePolicy(before), ComposePolicy(after),
                              ComposedProvenance(after)) \in {"equal", "converge"}
           <=> OrdinaryRecipients(after) # {})

\* A grant that is revoked leaves a rule of its own name, which the next
\* composition does not know: such a readback is refused and not repaired
\* (RecipientPolicy.OwnRulesRecognized says more).
RevokedGrantIsUnrecognized ==
  \A in \in Accepted : \A g \in in.grants :
    LET after == [in EXCEPT !.grants = @ \ {g}] IN
      RefusalOf(after) = "none" =>
        CompareComposedRules("pristine", TRUE, ComposePolicy(in), ComposePolicy(after),
                             ComposedProvenance(after) \cup GrantAddresses(in)) = "unrecognized_rule"

\* Two objects have one canonical form exactly when they have the same entries:
\* the order of keys changes no hash, and no key is ever left out of it.
OrderIsNoContent ==
  LET entries == {1, 2, 3} \X {0, 1}
      objects == {o \in UNION {[1 .. n -> entries] : n \in 0 .. 3} :
                    \A i, j \in DOMAIN o : o[i][1] = o[j][1] => i = j} IN
    \A o, p \in objects :
      CanonicalEntries(o, <<3, 1>>) = CanonicalEntries(p, <<3, 1>>) <=> RangeOf(o) = RangeOf(p)

\* No write is told as safe to repeat that may have landed.
RetryIsSafe == \A e \in ProviderErrors : WriteFailure(e) = "retryable_failure" => ~MayHaveLanded(e)

\* "applied" is shown of a verified row of the current revision only, and a
\* removal says no more of its revocations than that.
AppliedIsVerified ==
  \A row \in StateRows :
    LET shown == ContactPermission(row) IN
      /\ shown.state = "applied" <=> row.status = "applied" /\ row.verified /\ row.applied = row.desired
      /\ RevocationDisclosure(shown) = "applied" <=> shown.state = "applied"
      /\ shown.state = "applied" => ~shown.retryable

CompositionClaims ==
  /\ AllowsTheConsented /\ UnprovenIsRefused /\ WrittenIsVerified /\ RemovalConverges
  /\ RevokedGrantIsUnrecognized /\ OrderIsNoContent /\ RetryIsSafe /\ AppliedIsVerified
=============================================================================
