---------------------------- MODULE WalletReads ----------------------------
(***************************************************************************)
(* What a user reads of a wallet: the balance of the own binding through a *)
(* node or a fixture, and the address, balance and history that a provider *)
(* answers the wallet routes with, brought to one form or refused.         *)
(*                                                                         *)
(* A reading has no effect on the wallet.  What could be wrong of it is an *)
(* amount nobody reported, an amount of somebody else, or a failure that   *)
(* is told as something other than it is.                                  *)
(***************************************************************************)
EXTENDS Integers, Sequences, FiniteSets

-----------------------------------------------------------------------------
(* The balance of the own wallet (WalletBalancesService)                   *)

NotReadyStates == {"unprovisioned", "provisioning", "recovery_required", "conflict", "unavailable"}
WalletKinds == [state : NotReadyStates \cup {"ready"}, family : {"solana", "ethereum"}, valid : BOOLEAN]

\* readBalanceReadConfig and createBalanceReader: an unset variable is the devnet node,
\* an empty one is not unset.
Settings == {"absent", "", "rpc", "fixture", "other"}
Urls == {"absent", "", "set"}
FixtureTexts == {"absent", "object", "array", "null", "unreadable"}
Reader(source, url, fixture) ==
  IF source \in {"", "other"} THEN "refused"
  ELSE IF source \in {"absent", "rpc"} THEN IF url = "" THEN "refused" ELSE "rpc"
  ELSE IF fixture \in {"unreadable", "null"} THEN "refused" ELSE "fixture"

\* RpcBalanceReader: one call, cut off at the deadline, and never retried.  How it came
\* back, whether it is an answer to this call, and what it holds.
Calls == [sent : {"answered", "failed", "cut off"}, envelope : BOOLEAN, error : BOOLEAN,
          value : {"zero", "some", "unsafe", "negative", "text", "absent"}]
Unread == "BALANCE_NO_DISPONIBLE"
ReadRpc(call) ==
  IF /\ call.sent = "answered" /\ call.envelope /\ ~call.error
     /\ call.value \in {"zero", "some"}
  THEN call.value ELSE Unread

\* FixtureBalanceReader: an address without an entry is an error, never nothing.  The
\* entries are found without regard to case.
ReadFixture(entries, fold, address) ==
  IF \E e \in entries : fold[e] = fold[address] THEN "some" ELSE Unread

\* getBalances: what is answered, and whether the reader was asked.
GetBalances(wallet, read) ==
  IF wallet.state # "ready"
  THEN [status |-> 200, state |-> wallet.state, amount |-> {}, observed |-> FALSE, asked |-> FALSE]
  ELSE IF wallet.family # "solana" \/ ~wallet.valid
  THEN [status |-> 409, state |-> "", amount |-> {}, observed |-> FALSE, asked |-> FALSE]
  ELSE IF read = Unread
  THEN [status |-> 503, state |-> "", amount |-> {}, observed |-> FALSE, asked |-> TRUE]
  ELSE [status |-> 200, state |-> "ready", amount |-> {read}, observed |-> TRUE, asked |-> TRUE]

-----------------------------------------------------------------------------
(* The wallet routes                                                       *)

\* sendWalletRuntimeError: what the provider's own errors are answered with; any other
\* error is thrown on, and answered by nobody here.
Codes == {"wallet_not_ready", "wallet_config_error", "wallet_unavailable",
          "wallet_feature_unavailable"}
StatusOf(code) ==
  CASE code = "wallet_not_ready" -> 409
    [] code = "wallet_feature_unavailable" -> 501
    [] code \in Codes \ {"wallet_not_ready", "wallet_feature_unavailable"} -> 503
    [] OTHER -> 500

\* walletChainFamilyForNetwork, and a resolver without a client (createUnavailable...).
Resolves(network, perUser, code) ==
  IF ~perUser THEN "" ELSE IF network # "solana-devnet" THEN "wallet_config_error" ELSE code

\* The three routes: resolving the wallet, then reading from it.  The address route
\* returns the provider's promise without waiting for it, past its own catch.
Routes == {"address", "balance", "history"}
Answer(route, network, perUser, resolving, reading) ==
  IF route # "address" /\ network = "" THEN 400
  ELSE LET code == Resolves(network, perUser, resolving)
       IN  IF code # "" THEN StatusOf(code)
           ELSE IF reading = "" THEN 200
           ELSE IF route = "address" THEN 500
           ELSE StatusOf(reading)

\* normalizeWalletBalance: an answer in the contract's form is handed on, another is
\* brought to it; two networks that differ are refused.
Refused == "refused"
Balance(address, balance) ==
  IF address.network # "" /\ balance.network \notin {"", address.network} THEN Refused
  ELSE IF address.network = "" /\ balance.network = "" THEN Refused
  ELSE IF balance.network # "" /\ balance.contract THEN "as it came"
  ELSE IF balance.decimals \in 0..255 /\ balance.units THEN "normalized" ELSE Refused

\* normalizeHistoryTransfer: a transfer the wallet has no part in is an error; one that
\* it sends to itself was sent.
Direction(fold, wallet, transfer) ==
  IF fold[transfer.from] = fold[wallet] THEN "out"
  ELSE IF fold[transfer.to] = fold[wallet] THEN "in"
  ELSE Refused

\* normalizeTimestamp: whatever is small enough is seconds.
SecondsBelow == 1000
Milliseconds(value) == IF value < SecondsBelow THEN value * 1000 ELSE value

\* normalizeWalletHistory: one transfer that cannot be told refuses them all.
History(fold, wallet, transfers) ==
  IF \E i \in DOMAIN transfers : Direction(fold, wallet, transfers[i]) = Refused THEN {}
  ELSE {[i \in DOMAIN transfers |-> Direction(fold, wallet, transfers[i])]}

-----------------------------------------------------------------------------
(* Claims, evaluated over every wallet, call, setting and short history    *)

\* An amount is told of a ready and coherent wallet alone, and is what the node said of
\* it; a failure is never an empty wallet, nor a wallet that is not ready a failure.
AmountWasReported ==
  \A wallet \in WalletKinds, call \in Calls :
    LET answer == GetBalances(wallet, ReadRpc(call))
    IN  /\ answer.amount # {} <=> answer.observed
        /\ answer.amount # {} => /\ wallet.state = "ready" /\ wallet.family = "solana"
                                 /\ wallet.valid /\ call.sent = "answered" /\ ~call.error
                                 /\ answer.amount = {call.value}
        /\ answer.asked /\ answer.amount = {} => answer.status = 503
        /\ wallet.state # "ready" => answer.state = wallet.state /\ ~answer.asked

\* Nothing is read from a fixture that was not asked for, and a reader that could not
\* work is refused at the start.  An array is taken for an object, with no address in it.
FixtureIsAskedFor ==
  \A source \in Settings, url \in Urls, fixture \in FixtureTexts :
    LET reader == Reader(source, url, fixture)
    IN  /\ reader = "fixture" => source = "fixture"
        /\ source = "absent" /\ url # "" => reader = "rpc"
FixtureIsAnObject ==
  \A fixture \in FixtureTexts :
    Reader("fixture", "absent", fixture) = "fixture" => fixture \in {"absent", "object"}

\* Two addresses that differ in case alone are two accounts of this chain.
Addresses == {"own", "OWN", "other"}
Exactly == [address \in Addresses |-> address]
Folded == [address \in Addresses |-> IF address = "OWN" THEN "own" ELSE address]
Transfers == [from : Addresses, to : Addresses]
Histories == UNION {[1..n -> Transfers] : n \in 0..2}

\* Not so: what is read of an address is of that address.  The code folds the case, in the
\* fixture and in the history, so that the other account's balance and transfers pass.
FixtureIsOwn(fold) ==
  \A entries \in SUBSET Addresses :
    ReadFixture(entries, fold, "own") = "some" => "own" \in entries
HistoryIsOwn(fold) ==
  \A transfers \in Histories : \A told \in History(fold, "own", transfers) :
    \A i \in DOMAIN told : "own" \in {transfers[i].from, transfers[i].to}

\* The history told is the whole history, in its order: a transfer is never left out.
NothingLeftOut ==
  \A transfers \in Histories : \A told \in History(Folded, "own", transfers) :
    /\ DOMAIN told = DOMAIN transfers
    /\ \A i \in DOMAIN told : told[i] = "in" => Folded[transfers[i].from] # "own"

\* Not so: every route tells why a wallet cannot be read.
ReasonIsTold(routes) ==
  \A route \in routes, network \in {"solana-devnet", "sepolia"}, perUser \in BOOLEAN :
    \A resolving \in Codes \cup {""}, reading \in Codes \cup {""} :
      Answer(route, network, perUser, resolving, reading) # 500

\* The networks of an address and of its balance never differ in an answer.
NetworksAgree ==
  \A one \in {"", "solana-devnet", "sepolia"}, two \in {"", "solana-devnet", "sepolia"} :
    \A contract \in BOOLEAN, units \in BOOLEAN, decimals \in {-1, 0, 9, 256} :
      Balance([network |-> one],
              [network |-> two, contract |-> contract, units |-> units, decimals |-> decimals])
        # Refused => one = two \/ "" \in {one, two}

\* Times keep their order, as long as all come in one unit.  Not so of a history that
\* mixes them: a later time in seconds may be told before an earlier one in milliseconds,
\* and milliseconds of the first days are taken for seconds.
TimesInOrder(times) == \A s, t \in times : s < t => Milliseconds(s) < Milliseconds(t)

ReadClaims ==
  /\ AmountWasReported /\ FixtureIsAskedFor /\ ~FixtureIsAnObject
  /\ FixtureIsOwn(Exactly) /\ ~FixtureIsOwn(Folded)
  /\ HistoryIsOwn(Exactly) /\ ~HistoryIsOwn(Folded) /\ NothingLeftOut
  /\ ReasonIsTold({"balance", "history"}) /\ ~ReasonIsTold({"address"})
  /\ NetworksAgree
  /\ TimesInOrder(0..(SecondsBelow - 1)) /\ TimesInOrder(SecondsBelow..(2 * SecondsBelow))
  /\ ~TimesInOrder(0..(2 * SecondsBelow))
=============================================================================
