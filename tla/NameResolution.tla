--------------------------- MODULE NameResolution ---------------------------
(***************************************************************************)
(* How a .sns name becomes an address, and what the user is told when it   *)
(* does not.  ContactBook and VoiceActions take a resolution for one step  *)
(* that answers an address, nothing or an outage; this module is that      *)
(* step: the spelling of the name, the registry's account and its header,  *)
(* the reverse lookup, and the three mappings of a failure onto a code.    *)
(*                                                                         *)
(* What the network answers is a record of World; a raw name is its label  *)
(* and its suffix, each one of the kinds the code tells apart.             *)
(***************************************************************************)
EXTENDS Integers, Sequences, FiniteSets, SequencesExt, Folds

-----------------------------------------------------------------------------
(* base58                                                                  *)

Bytes == 0..255

\* One digit of the inner loop: the carry is divided over the digits there are.
Divided(digits, byte) ==
  FoldLeft(LAMBDA acc, digit :
             LET carry == acc.carry + (digit * 256)
             IN  [digits |-> Append(acc.digits, carry % 58), carry |-> carry \div 58],
           [digits |-> <<>>, carry |-> byte], digits)

\* What is left of the carry becomes new digits; it is never more than two.
Carried(carry) ==
  IF carry = 0 THEN <<>> ELSE IF carry < 58 THEN <<carry>> ELSE <<carry % 58, carry \div 58>>
Leading(bytes) == Cardinality({n \in DOMAIN bytes : \A k \in 1..n : bytes[k] = 0})

\* base58Encode: leading zero bytes are ones, the rest is written in base 58.
Base58(bytes) ==
  LET zeros == Leading(bytes)
      digits == FoldLeft(LAMBDA acc, byte :
                           LET divided == Divided(acc, byte)
                           IN  divided.digits \o Carried(divided.carry),
                         <<>>, SubSeq(bytes, zeros + 1, Len(bytes)))
  IN  [n \in 1..zeros |-> 0] \o Reverse(digits)

\* The owner nobody has: 32 bytes of zero.
ALL_ZERO_OWNER == [n \in 1..32 |-> 0]

-----------------------------------------------------------------------------
(* The resolver                                                            *)

Failure(kind) == [ok |-> FALSE, kind |-> kind]

Labels == {"empty", "ascii", "upper", "symbols", "dotted", "long"}
Endings == {"absent", ".sns", ".SNS", ".sol"}
Canonical == [label |-> "ascii", suffix |-> ".sns"]

\* normalizeSnsName: case is folded and nothing else; no suffix is supplied.
Normalize(raw) ==
  IF raw.suffix = ".sol" THEN Failure("unsupported_tld")
  ELSE IF raw.suffix = "absent" \/ raw.label \notin {"ascii", "upper"}
  THEN Failure("malformed_name")
  ELSE [ok |-> TRUE, name |-> Canonical]

\* What a call of resolve meets: the deployment's network, the derivation of the name's
\* account, its read, the header that was read and the reverse lookup of its owner.
Errors == {"timeout", "throttled", "refused"}
Owners == {"holder", "zero", "not an address"}
Reverses == {"present", "empty name", "none", "malformed", "throws"}
World == [network : {"known", "unknown"}, derived : {"account", "empty", "throws"},
          read : {"data", "null"} \cup Errors, header : {"short", "whole"},
          parent : {"root", "other"}, owner : Owners, reverse : Reverses]

\* classifySnsReadFailure: every rejected read is an outage, whatever its text.
ReadFailure(error) == Failure("unreachable")

\* classifyReverse: three answers, and no failure.
ReverseState(reverse) ==
  IF reverse \in {"present", "none"} THEN reverse ELSE "unknown"

\* resolve.
Resolve(raw, w) ==
  LET normalized == Normalize(raw)
  IN  IF w.network = "unknown" THEN Failure("resolver_misconfigured")
      ELSE IF ~normalized.ok THEN normalized
      ELSE IF w.derived # "account" THEN Failure("resolver_misconfigured")
      ELSE IF w.read \in Errors THEN ReadFailure(w.read)
      ELSE IF w.read = "null" THEN Failure("not_found")
      ELSE IF w.header = "short" \/ w.parent # "root" \/ w.owner # "holder"
        THEN Failure("ambiguous")
      ELSE [ok |-> TRUE, name |-> normalized.name, address |-> w.owner,
            reverse |-> ReverseState(w.reverse)]

\* reverseLookup of an address; a name, no name, or that it is not known.
ReverseLookup(valid, w) ==
  IF w.network = "unknown" THEN Failure("resolver_misconfigured")
  ELSE IF ~valid THEN Failure("malformed_name")
  ELSE [ok |-> TRUE, named |-> ReverseState(w.reverse) = "present",
        unknown |-> ReverseState(w.reverse) = "unknown"]

-----------------------------------------------------------------------------
(* What a failure is called                                                *)

Kinds == {"malformed_name", "unsupported_tld", "not_found", "ambiguous", "unreachable",
          "resolver_misconfigured"}

\* SNS_FAILURE_CODE of the policy service and SNS_FAILURE_HTTP of the contact routes.
FailureCode(kind) ==
  CASE kind = "malformed_name" -> "DATOS_INVALIDOS"
    [] kind = "unsupported_tld" -> "NOMBRE_NO_SOPORTADO"
    [] kind = "not_found" -> "NOMBRE_NO_ENCONTRADO"
    [] kind = "ambiguous" -> "NOMBRE_AMBIGUO"
    [] OTHER -> "RESOLVEDOR_NO_DISPONIBLE"
FailureStatus(kind) ==
  CASE kind \in {"malformed_name", "unsupported_tld"} -> 422
    [] kind = "not_found" -> 404
    [] kind = "ambiguous" -> 409
    [] OTHER -> 503

\* ALIAS_REFUSAL_CODE of the voice.
SpokenCode(kind) ==
  IF kind = "malformed_name" THEN "NOMBRE_NO_SOPORTADO" ELSE FailureCode(kind)

\* aliasRefusalMessage: whether another spelling is asked for.
AsksToSpell(code) == code \in {"NOMBRE_NO_ENCONTRADO", "NOMBRE_AMBIGUO"}

\* createAliasResolver, and what the screen is answered.
Spoken(raw, w) ==
  LET outcome == Resolve(raw, w)
  IN  IF outcome.ok THEN [resolved |-> TRUE, address |-> outcome.address]
      ELSE [resolved |-> FALSE, code |-> SpokenCode(outcome.kind)]
Shown(raw, w) ==
  LET outcome == Resolve(raw, w) IN IF outcome.ok THEN 200 ELSE FailureStatus(outcome.kind)

\* createAliasReverifier: what a confirmation is told of the name its card carries.
Reverified(raw, w, address) ==
  LET outcome == Resolve(raw, w)
  IN  IF outcome.ok THEN IF outcome.address = address THEN "unchanged" ELSE "changed"
      ELSE IF outcome.kind = "unreachable" THEN "unavailable" ELSE "unresolvable"

\* checkAliasDrift of the service asks the same registry about a saved contact.
Drift(raw, w, address) ==
  LET outcome == Resolve(raw, w)
  IN  IF outcome.ok THEN IF outcome.address = address THEN "unchanged" ELSE "changed"
      ELSE IF outcome.kind = "not_found" THEN "changed" ELSE "unavailable"

-----------------------------------------------------------------------------
(* Claims, evaluated over every spelling and every answer                  *)

Raw == [label : Labels, suffix : Endings]
Answered(w) == w.network = "known" /\ w.derived = "account" /\ w.read \in {"data", "null"}

\* Base 58 loses nothing: the leading zeros and the value of what follows are kept, so two
\* owners are never written alike; and only 32 zero bytes are written as the owner nobody has.
Samples == {0, 1, 57, 58, 255}
Value(digits, base) == FoldLeft(LAMBDA acc, d : (acc * base) + d, 0, digits)
Base58Keeps ==
  /\ \A len \in 0..3 : \A bytes \in [1..len -> Samples] :
       LET digits == Base58(bytes)
       IN  /\ Value(digits, 58) = Value(bytes, 256)
           /\ Leading(digits) = Leading(bytes)
           /\ \A n \in DOMAIN digits : digits[n] \in 0..57
  /\ \A n \in 31..33 : (Base58([k \in 1..n |-> 0]) = ALL_ZERO_OWNER) <=> (n = 32)

\* An address is only ever the owner that was read in an account under this network's
\* root, and what the reverse lookup says or fails to say changes nothing of it.
ResolvedIsOwned ==
  \A raw \in Raw, w \in World :
    LET outcome == Resolve(raw, w)
    IN  /\ outcome.ok => /\ w.read = "data" /\ w.header = "whole" /\ w.parent = "root"
                         /\ outcome.address = w.owner /\ w.owner = "holder"
        /\ \A r \in Reverses :
             LET other == Resolve(raw, [w EXCEPT !.reverse = r])
             IN  other.ok = outcome.ok /\ (other.ok => other.address = outcome.address)

\* A name is called missing only when the registry answered so, on every surface: an outage
\* is never told as a name that does not exist, nor is another spelling asked for after one.
MissingIsAnAnswer ==
  \A raw \in Raw, w \in World :
    LET spoken == Spoken(raw, w)
    IN  /\ ~spoken.resolved /\ spoken.code = "NOMBRE_NO_ENCONTRADO" =>
             Answered(w) /\ w.read = "null"
        /\ Shown(raw, w) = 404 => Answered(w) /\ w.read = "null"
        /\ ~spoken.resolved /\ AsksToSpell(spoken.code) => Answered(w)
        /\ (Shown(raw, w) = 503) <=> (~spoken.resolved /\ spoken.code = "RESOLVEDOR_NO_DISPONIBLE")

\* A contact is said to have moved only when the registry answered.
MovedIsAnAnswer ==
  \A raw \in Raw, w \in World, a \in {"holder", "before"} :
    Drift(raw, w, a) = "changed" => Answered(w)

\* Not so: a confirmation fails closed only on an answer of the registry, as the comment of
\* the reverifier has it.  A deployment without a root, which has asked nobody, fails it too,
\* where the drift check calls the same thing unavailable.
RefusesOnAnAnswer ==
  \A raw \in Raw, w \in World :
    Reverified(raw, w, "holder") = "unresolvable" => Answered(w)
SameJudgement ==
  \A raw \in Raw, w \in World :
    (Reverified(raw, w, "holder") = "unavailable") <=> (Drift(raw, w, "holder") = "unavailable")

\* Not so: a failure has one code.  A malformed name is invalid data on the screen and an
\* unsupported name to the voice.
OneCode == \A kind \in Kinds : SpokenCode(kind) = FailureCode(kind)

\* Not so: what cannot be reached may be reached later.  A misconfigured resolver has the
\* code of an outage and will have it for good.
UnavailablePasses ==
  \A raw \in Raw, w \in World :
    Shown(raw, w) = 503 => Resolve(raw, w).kind = "unreachable"

NameClaims ==
  /\ Base58Keeps /\ ResolvedIsOwned /\ MissingIsAnAnswer /\ MovedIsAnAnswer
  /\ ~RefusesOnAnAnswer /\ ~SameJudgement /\ ~OneCode /\ ~UnavailablePasses
=============================================================================
