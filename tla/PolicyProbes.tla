---------------------------- MODULE PolicyProbes ----------------------------
(***************************************************************************)
(* The four probes of provider behaviour nobody had observed               *)
(* (wallet/policy/probe.ts, U1 to U4) and what they leave in the wallet's  *)
(* row, where the composer looks for it.                                   *)
(*                                                                         *)
(* A probe is a function of what its calls meet.  To say what an           *)
(* observation proves, the provider's reading of a rule set is given too:  *)
(* the claims at the end ask which readings a recorded proof leaves open.  *)
(***************************************************************************)
EXTENDS PolicyComposition, SigningSidecar

-----------------------------------------------------------------------------
(* The provider                                                            *)

\* What a provider could do with several ALLOW rules, and with none.
ManyRules == {"union", "intersection", "first rule", "last rule", "refuses all", "allows all"}
NoRules == {"denies", "allows", "keeps the old rules"}

\* Of a transfer that rule A covers and rule B does not.
PermitsUnderOneRule(reading) == reading \in {"union", "first rule", "allows all"}

\* What a probe's calls meet.  There may be no way to send a signed transfer.
Meetings == [signs   : BOOLEAN,                           \* canSignAuthorizations
             reaches : BOOLEAN,                           \* the policy's writes and reads
             sends   : {"no port", "answers", "fails"},   \* signAndSendTransfer
             many    : ManyRules,
             none    : NoRules]

-----------------------------------------------------------------------------
(* U1: several ALLOW rules in one policy                                   *)

\* probeRuleComposition: only a permitted transfer is a union.
RuleCompositionReason(meet) ==
  IF ~meet.signs THEN "signer_unavailable"
  ELSE IF ~meet.reaches THEN "provider_unreachable"
  ELSE IF meet.sends = "no port" THEN "signed_transfer_unavailable"
  ELSE IF meet.sends = "fails" THEN "provider_unreachable"
  ELSE IF ~PermitsUnderOneRule(meet.many) THEN "transfer_not_permitted"
  ELSE "none"

RuleComposition(meet) == IF RuleCompositionReason(meet) = "none" THEN "union" ELSE "unproven"

\* The two synthetic rules it sends, disjoint and under the one ceiling.
ProbeRules == <<Rule("probe A", <<1>>, MaxLamports, NoExpiry), Rule("probe B", <<2>>, MaxLamports, NoExpiry)>>
ProbeTransfer == [to |-> 1, lamports |-> 1, at |-> 1]

-----------------------------------------------------------------------------
(* U4: an empty rule set                                                   *)

\* probeEmptyComposition: only a refused transfer is a deny.
EmptyCompositionReason(meet) ==
  IF ~meet.signs THEN "signer_unavailable"
  ELSE IF ~meet.reaches THEN "provider_unreachable"
  ELSE IF meet.sends = "no port" THEN "signed_denial_unobserved"
  ELSE IF meet.sends = "fails" THEN "provider_unreachable"
  ELSE IF meet.none = "allows" THEN "signed_transfer_permitted"
  ELSE "none"

EmptyComposition(meet) == IF EmptyCompositionReason(meet) = "none" THEN "proven_deny" ELSE "unproven"

-----------------------------------------------------------------------------
(* U2 and U3: the signer and the owner                                     *)

\* A wallet as the owner's listing gives it; the binding is the recorded one.
SignerLists == {<<>>} \cup [1 .. 1 -> [id : {"ours", "sibling"}, policies : {<<>>, <<"p">>, <<"q">>, <<"q", "p">>}]]
                 \cup [1 .. 2 -> [id : {"ours", "sibling"}, policies : {<<>>, <<"p">>, <<"q", "p">>}]]
Listings == [acquired : BOOLEAN, owned : BOOLEAN, signers : SignerLists]

PoliciesOf(listing, signer) ==
  UNION {RangeOf(listing.signers[i].policies) : i \in {j \in DOMAIN listing.signers : listing.signers[j].id = signer}}

\* assertPolicyTargetCapability.
SignerAttachment(bound, listing, policy) ==
  LET matches == {i \in DOMAIN listing.signers : listing.signers[i].id = "ours"} IN
    IF ~bound THEN "binding_unresolved"
    ELSE IF ~listing.acquired THEN "owner_listing_failed"
    ELSE IF ~listing.owned THEN "wallet_absent_from_owner_listing"
    ELSE IF matches = {} THEN "signer_absent"
    ELSE IF Cardinality(matches) > 1 THEN "signer_duplicated"
    ELSE IF policy \notin PoliciesOf(listing, "ours") THEN "policy_not_attached_to_signer"
    ELSE "proven"

\* assertPolicyOwnership: the unfiltered read tells a drift from an absence, and
\* is never taken for ownership.
Ownership(bound, listing, unfiltered) ==
  IF ~bound \/ ~listing.acquired THEN "ownership_unproven"
  ELSE IF listing.owned THEN "proven"
  ELSE IF unfiltered THEN "ownership_drift"
  ELSE "ownership_unproven"

-----------------------------------------------------------------------------
(* The wallet's row                                                        *)

\* createRepositoryProbeEvidenceWriter: each observation is merged into the row
\* and replaces the last one of its kind; status and reason stay.
WithProbes(row, meet) ==
  [row EXCEPT !.rulesUnion = RuleComposition(meet), !.emptyComposition = EmptyComposition(meet)]

\* setPolicyStatus: a status write merges its detail and keeps the evidence.
WithStatus(row, status) == [row EXCEPT !.status = status]

\* recordedRuleComposition and the composer's reading of the row.
ProvenBy(in, row) ==
  [in EXCEPT !.ruleComposition = IF row.rulesUnion = "union" THEN "union" ELSE "unproven",
             !.emptyComposition = row.emptyComposition]

FreshRow == [status |-> "pending", rulesUnion |-> "none", emptyComposition |-> "unproven"]

\* verifyPolicySignerCapability: the sidecar's own probe by another name.
PolicySignerCapability(config, publicKey, answer) == Capability(config, publicKey, answer)

-----------------------------------------------------------------------------
(* Claims, evaluated over everything the probes can meet                   *)

\* What the probe sends can tell the readings apart as PermitsUnderOneRule says.
ProbeTellsTheReadings ==
  /\ Permits(ProbeRules, ProbeTransfer)
  /\ {i \in DOMAIN ProbeRules : Covers(ProbeRules[i], ProbeTransfer)} = {1}

\* A probe that could not look relaxes nothing: the next composition that needs
\* the proof is refused, also when an earlier probe had found it.
UnobservedRefuses ==
  LET blind == {meet \in Meetings : ~meet.signs \/ ~meet.reaches \/ meet.sends # "answers"}
      proven == [FreshRow EXCEPT !.rulesUnion = "union", !.emptyComposition = "proven_deny"]
      rows == {WithStatus(WithProbes(proven, meet), "syncing") : meet \in blind} IN
    \A row \in rows, in \in Inputs :
      (in.grants # {} <=> OrdinaryRecipients(in) # {}) => RefusalOf(ProvenBy(in, row)) # "none"

\* A provider that intersects or refuses is never recorded as a union, and one
\* that allows everything under no rule is never recorded as a deny.
NeverProvenWrongly ==
  \A meet \in Meetings :
    /\ RuleComposition(meet) = "union" => meet.many \notin {"intersection", "last rule", "refuses all"}
    /\ EmptyComposition(meet) = "proven_deny" => meet.none # "allows"

\* The other direction would make the proofs conclusive.  TLC refutes both: the
\* transfer that is sent is covered by the FIRST of the two rules, so a provider
\* that reads no further passes for a union; and the rules read back after the
\* empty write are recorded but not looked at, so a provider that kept another
\* rule set passes for a deny.
UnionIsConclusive == \A meet \in Meetings : RuleComposition(meet) = "union" => meet.many = "union"
DenyIsConclusive == \A meet \in Meetings : EmptyComposition(meet) = "proven_deny" => meet.none = "denies"

\* What the comparison of an apply proves of the signer and the owner, the two
\* probes prove as well; the probe of the signer asks for less (other policies
\* may be attached beside ours).
ReadbackIsStricter ==
  \A listing \in Listings :
    OwnerVerifiedBinding(listing, "ours", "p", {}) = "proven" =>
      /\ SignerAttachment(TRUE, listing, "p") = "proven"
      /\ Ownership(TRUE, listing, FALSE) = "proven"

\* A wallet is never taken for ours on the strength of the unfiltered read.
UnfilteredProvesNothing ==
  \A listing \in Listings, unfiltered, bound \in BOOLEAN :
    Ownership(bound, listing, unfiltered) = "proven" => Ownership(bound, listing, FALSE) = "proven"

ProbeClaims ==
  /\ ProbeTellsTheReadings /\ UnobservedRefuses /\ NeverProvenWrongly
  /\ ReadbackIsStricter /\ UnfilteredProvesNothing
  /\ ~UnionIsConclusive /\ ~DenyIsConclusive
=============================================================================
