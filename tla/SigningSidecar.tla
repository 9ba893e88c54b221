--------------------------- MODULE SigningSidecar ---------------------------
(***************************************************************************)
(* The authorization signing sidecar (wallet/signer/): the process that    *)
(* alone holds the key, the worker's client of it, and the probe that says *)
(* whether dispatch can be signed.                                         *)
(*                                                                         *)
(* Every answer is a function of one request and the two processes'        *)
(* configurations, so the module has operators and no variables: a request *)
(* is a record of what the code tells apart.                               *)
(***************************************************************************)
EXTENDS Naturals, FiniteSets

-----------------------------------------------------------------------------
(* The sidecar process                                                     *)

MinTokenLength == 16

\* The one key it holds: in the environment or in a file, never both.
Sources == SUBSET {"inline", "file"}
KeyContents == {"p256", "other curve", "not base64", "unreadable", "empty"}

LoadAuthorizationPrivateKey(source, contents) ==
  Cardinality(source) = 1 /\ contents = "p256"

\* isLoopbackHost.
Hosts == {"localhost", "::1", "127.0.0.1", "0.0.0.0", "lan"}
LoopbackHosts == {"localhost", "::1", "127.0.0.1"}

\* readPositiveInteger: nothing configured means the default.
PositiveInteger(value) == value \in {"unset", "positive"}

Sidecars == [source : Sources, contents : KeyContents, token : {0, MinTokenLength - 1, MinTokenLength},
             host : Hosts, bound : Hosts, cap : {"unset", "positive", "zero", "word"}]

\* startSigningSidecarFromEnvironment: the process answers nobody before every
\* check has passed, the address it was given by the system included.
Serves(s) ==
  /\ s.token >= MinTokenLength
  /\ PositiveInteger(s.cap)
  /\ LoadAuthorizationPrivateKey(s.source, s.contents)
  /\ s.host \in LoopbackHosts
  /\ s.bound \in LoopbackHosts

\* readPayload: the cap holds for the declared length and while reading.
Payloads == {"empty", "fits", "declared too large", "grows too large", "cut off"}
ReadPayload(payload) ==
  CASE payload \in {"declared too large", "grows too large"} -> "too_large"
    [] payload = "cut off" -> "aborted"
    [] OTHER -> payload

Calls == [path : {"/sign", "other"}, method : {"POST", "other"},
          token : BOOLEAN, payload : Payloads, signs : BOOLEAN]

\* handleRequest: its checks in their order.  Only the last line signs.
HandleRequest(q) ==
  CASE q.path # "/sign"                       -> "404"
    [] q.path = "/sign" /\ q.method # "POST"  -> "405"
    [] q.path = "/sign" /\ q.method = "POST" /\ ~q.token -> "401"
    [] OTHER ->
         CASE ReadPayload(q.payload) = "aborted"   -> "hangs up"
           [] ReadPayload(q.payload) = "too_large" -> "413"
           [] ReadPayload(q.payload) = "empty"     -> "400"
           [] OTHER -> IF q.signs THEN "signature" ELSE "500"

Signed(q) == HandleRequest(q) = "signature"

-----------------------------------------------------------------------------
(* The worker's client                                                     *)

\* readPayloadSignerConfig: a half or malformed configuration is an error, and
\* no configuration is no signer.
ClientConfigs == [url : {"unset", "http", "other scheme", "not a url"}, token : BOOLEAN,
                  timeout : {"unset", "positive", "zero", "word"}]

SignerConfigured(c) ==
  CASE c.url = "unset" /\ ~c.token -> "none"
    [] c.url = "http" /\ c.token /\ PositiveInteger(c.timeout) -> "signer"
    [] OTHER -> "signer_not_configured"

\* What reaches the worker: the sidecar's answer, or none; a body may also
\* break off, or hold no signature, when something else answers at the url.
Answers == {"404", "405", "401", "413", "400", "500", "hangs up", "signature",
            "unreachable", "redirect", "timeout", "late body", "not json", "no signature"}

Rejections == {"404", "405", "401", "413", "400"}

\* createHttpPayloadSigner: the class of a failure, or the signature.  The
\* timeout covers the body as well, but a late body is a protocol error.
SignerOutcome(answer) ==
  CASE answer = "timeout"      -> "signer_timeout"
    [] answer \in Rejections   -> "signer_rejected"
    [] answer \in {"500", "unreachable", "redirect", "hangs up"} -> "signer_unavailable"
    [] answer \in {"late body", "not json", "no signature"} -> "signer_protocol_error"
    [] OTHER                   -> "signature"

\* PayloadSignerError.
SignerErrors == {"signer_not_configured", "signer_unavailable", "signer_timeout",
                 "signer_rejected", "signer_protocol_error"}

-----------------------------------------------------------------------------
(* The probe                                                               *)

PublicKeys == {"unset", "unusable", "the sidecar's", "another"}

\* failureCode.
FailureCode(error) ==
  IF error \in {"signer_timeout", "signer_rejected"} THEN error ELSE "signer_unavailable"

\* probePayloadSigner: capable when a signature of the fixed payload verifies.
Capability(config, publicKey, answer) ==
  CASE SignerConfigured(config) # "signer" \/ publicKey \in {"unset", "unusable"} ->
         "signer_unavailable"
    [] SignerConfigured(config) = "signer" /\ publicKey \in {"the sidecar's", "another"} ->
         IF SignerOutcome(answer) # "signature" THEN FailureCode(SignerOutcome(answer))
         ELSE IF publicKey = "another" THEN "signature_mismatch"
         ELSE "verified"

-----------------------------------------------------------------------------
(* Claims, evaluated over every request and configuration                  *)

\* A sidecar that serves can be reached from its own host only, and holds the
\* key of exactly one source; the check after the bind catches a name that
\* resolves outside the loopback.
ServesTheHostOnly ==
  \A s \in Sidecars : Serves(s) =>
    /\ {s.host, s.bound} \subseteq LoopbackHosts
    /\ s.source \in {{"inline"}, {"file"}} /\ s.contents = "p256"

\* Nothing is signed for a caller without the token, or beyond the cap.
SignsForTheTokenOnly ==
  \A q \in Calls : Signed(q) => q.token /\ q.payload = "fits"

\* Of the refusals the sidecar gives, the worker takes for a rejection (the
\* message "our request is wrong") those that would be repeated for the same
\* request, and for an outage those that may not.
RejectionsAreLasting ==
  \A q \in Calls :
    SignerOutcome(HandleRequest(q)) = "signer_rejected"
      <=> ~Signed(q) /\ \A signs \in BOOLEAN :
            HandleRequest([q EXCEPT !.signs = signs]) \notin {"500", "signature", "hangs up"}

\* The probe says "verified" of no sidecar whose signatures Privy would refuse.
VerifiedCanSign ==
  \A c \in ClientConfigs, k \in PublicKeys, a \in Answers :
    Capability(c, k, a) = "verified" =>
      SignerConfigured(c) = "signer" /\ a = "signature" /\ k = "the sidecar's"

SidecarClaims ==
  /\ ServesTheHostOnly /\ SignsForTheTokenOnly
  /\ RejectionsAreLasting /\ VerifiedCanSign
=============================================================================
