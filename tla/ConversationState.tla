------------------------- MODULE ConversationState -------------------------
(***************************************************************************)
(* What a conversation is taken for: where a text goes before any tool     *)
(* runs, the activity and the error that the row of a conversation is      *)
(* shown as, the result a turn answers from it, when its context may be    *)
(* renewed, and which sentences are spoken twice.                          *)
(*                                                                         *)
(* A text is one of a few kinds that the phrase lists tell apart; wording  *)
(* matters only where the code reads it back, in the label of a failure.   *)
(***************************************************************************)
EXTENDS Integers, Sequences, FiniteSets

-----------------------------------------------------------------------------
(* Texts                                                                   *)

\* "confirm" stands for the phrases on the page's list and on the list for an
\* interpretation alike ("confirmo"), "resolve" for the two sentences the page
\* itself sends, "go ahead" for what only the classifier of decisions knows.
Texts == {"resolve: confirm", "resolve: cancel", "confirm", "cancel", "yes", "no",
          "go ahead", "transfer", "partial transfer", "talk"}

\* The words of a text: those that confirm, some of which are filler too ("dale"),
\* those that cancel, those that decide nothing; and two idioms, each a word.
Confirming == {"confirm", "confirm or filler"}
Cancelling == {"cancel"}
Filler == {"filler", "confirm or filler"}
Words == Confirming \cup Cancelling \cup Filler \cup {"other", "de una", "dejame pensar"}

WordsOf ==
  [text \in Texts |->
     CASE text = "resolve: confirm" -> <<"confirm", "filler", "filler">>
       [] text = "resolve: cancel"  -> <<"cancel", "filler", "filler">>
       [] text = "confirm"          -> <<"confirm">>
       [] text = "yes"              -> <<"confirm or filler">>
       [] text \in {"cancel", "no"} -> <<"cancel">>
       [] text = "go ahead"         -> <<"confirm", "filler">>
       [] OTHER                     -> <<"other", "other">>]

\* isDecision: short, and made of deciding words of one kind and filler.
MAX_DECISION_TOKENS == 6
IsDecision(words, polarity, idiom) ==
  \/ words = <<idiom>>
  \/ /\ Len(words) <= MAX_DECISION_TOKENS
     /\ \A i \in 1..Len(words) : words[i] \in polarity \cup Filler
     /\ \E i \in 1..Len(words) : words[i] \in polarity

\* isConfirmation and isCancellation.
Confirms(words) == IsDecision(words, Confirming, "de una")
Cancels(words) == IsDecision(words, Cancelling, "dejame pensar")
IsConfirmation(text) == Confirms(WordsOf[text])
IsCancellation(text) == Cancels(WordsOf[text])

\* isInterpretationAcceptance and isInterpretationRejection.
IsAcceptance(text) == text \in {"yes", "confirm"}
IsRejection(text) == text = "no"

\* classifySessionSubmission: while a transfer waits, only a decision leaves the page.
PageSends(text, waiting) ==
  IF ~waiting THEN text
  ELSE IF text \in {"resolve: confirm", "confirm"} THEN "resolve: confirm"
  ELSE IF text \in {"resolve: cancel", "cancel"} THEN "resolve: cancel"
  ELSE "blocked"

\* sendTurn: nothing is sent while another action runs, after an unknown outcome,
\* or anything new while the page knows of a waiting transfer.
PageMaySend(text, page) ==
  ~page.busy /\ ~page.locked /\ PageSends(text, page.waiting) # "blocked"

-----------------------------------------------------------------------------
(* Interpretations                                                         *)

\* A field of a parsed intent: nothing, blank, one value, a list of one or of more.
Values == {"none", "blank", "one", "list of one", "list"}
OneValue(v) == v \in {"one", "list of one"}

Intents == [send : BOOLEAN, amount : Values, token : Values, recipient : Values]

\* assessFinancialIntent: the reasons a transfer cannot be prepared from it.
Reasons(i) ==
  (IF ~i.send THEN {"ambiguous_action"} ELSE {})
    \cup (IF ~OneValue(i.amount) THEN {"missing_amount"} ELSE {})
    \cup (IF ~OneValue(i.token) THEN {"ambiguous_token"} ELSE {})
    \cup (IF ~OneValue(i.recipient) THEN {"ambiguous_recipient"} ELSE {})

\* clarificationForInterpretation: the fields it asks for.
Asks(i) == Reasons(i) \ {"ambiguous_action"}

\* handleTurnStream up to the agent; what is stored as an interpretation is what
\* could not be accepted.
Decide(text, pending) ==
  IF pending /\ IsConfirmation(text) THEN "confirm"
  ELSE IF pending /\ IsCancellation(text) THEN "cancel"
  ELSE IF text = "partial transfer" THEN "clarify"
  ELSE "agent"

Route(text, pending, stored) ==
  IF stored # {} /\ \E i \in stored : IsRejection(text) THEN "discard"
  ELSE IF \E i \in stored : IsAcceptance(text)
  THEN IF \E i \in stored : Reasons(i) # {} THEN "clarify again" ELSE "replay"
  ELSE Decide(text, pending)

\* detectConversationLanguage: clear evidence switches, a tie keeps.
Language(spanish, english, previous) ==
  IF spanish > english THEN "es" ELSE IF english > spanish THEN "en" ELSE previous

-----------------------------------------------------------------------------
(* The row as it is shown                                                  *)

Phases == {"none", "working", "awaiting_confirmation", "broadcasting", "verifying",
           "completed", "failed", "uncertain"}

\* The outcome a failed label was written for, in the language of the turn.
Failures == {"reverted", "receipt_invalid", "policy_rejected", "wallet_unavailable",
             "internal_error"}

Rows ==
  [interpretation : BOOLEAN, resolution : {"none", "broadcasting", "uncertain"},
   phase : Phases, pending : BOOLEAN, hash : BOOLEAN, failure : Failures,
   language : {"es", "en"}]

\* activityFor, the activity of the event of a turn.
ActivityFor(r) ==
  IF r.interpretation THEN "request_waiting"
  ELSE IF r.resolution = "uncertain" THEN "uncertain"
  ELSE IF r.resolution = "broadcasting" THEN "verifying"
  ELSE IF r.phase \in {"working", "broadcasting"} THEN "working"
  ELSE IF r.phase = "verifying" THEN "verifying"
  ELSE IF r.pending THEN "awaiting_confirmation"
  ELSE "idle"

\* conversationActivity, the activity of a read of the row.
ConversationActivity(r) ==
  IF r.interpretation THEN "request_waiting"
  ELSE IF r.resolution = "uncertain" THEN "uncertain"
  ELSE IF r.resolution = "broadcasting" THEN "verifying"
  ELSE IF r.phase = "uncertain" THEN "uncertain"
  ELSE IF r.phase \in {"working", "broadcasting"} THEN "working"
  ELSE IF r.phase = "verifying" THEN "verifying"
  ELSE IF r.pending THEN "awaiting_confirmation"
  ELSE "idle"

\* The word "reverted" is in the English sentence for a reverted transfer, and in
\* no other sentence a failure leaves as its label.
LabelSaysReverted(r) == r.failure = "reverted" /\ r.language = "en"

\* projectConversationState: the error a read shows.
ProjectedError(r) ==
  IF r.phase = "uncertain" THEN "broadcast_uncertain"
  ELSE IF r.phase = "failed"
  THEN IF LabelSaysReverted(r) THEN "transfer_reverted" ELSE "transaction_receipt_invalid"
  ELSE "none"

\* resultFromFinancialState: what a turn answers that waited for a task another
\* turn had started.
ResultFromState(r) ==
  IF r.phase = "completed" /\ r.hash THEN "sent"
  ELSE IF r.phase = "uncertain" THEN "broadcast_uncertain"
  ELSE IF r.phase = "failed"
  THEN IF LabelSaysReverted(r) THEN "transfer_reverted" ELSE "transaction_receipt_invalid"
  ELSE "processing"

\* runFinancialTransfer: what the turn that ran the task answered of a failure.
ToldAs(failure) ==
  CASE failure = "reverted"        -> "transfer_reverted"
    [] failure = "receipt_invalid" -> "transaction_receipt_invalid"
    [] OTHER                       -> failure

\* sanitizeResult: of an error that does not belong to a conversation only that
\* there was one.
ErrorCodes ==
  {"conversation_not_found", "conversation_forbidden", "stale_revision",
   "pending_confirmation", "no_pending_preview", "stale_preview",
   "recipient_revalidation_required", "policy_rejected", "broadcast_in_progress",
   "broadcast_uncertain", "transaction_receipt_invalid", "transfer_reverted",
   "invalid_tool_result", "wallet_unavailable", "internal_error"}

Sanitized(code) == IF code \in ErrorCodes THEN code ELSE "internal_error"

\* shouldLockAfterConversationResolution: after a decision with an unknown outcome
\* the page sends nothing more.
LocksPage(answer) == answer \in {"broadcast_uncertain", "no answer"}

-----------------------------------------------------------------------------
(* Renewing the context                                                    *)

\* isFinancialStateSafe.
MoneyIsStill(r) ==
  /\ ~r.pending /\ r.resolution = "none" /\ ~r.interpretation
  /\ r.phase \in {"none", "completed", "failed"}

\* shouldRenewContext: used tokens over a budget in percent of it; 0 is a budget
\* that was not set up.
OverBudget(used, budget, ratio) ==
  budget > 0 /\ 0 < ratio /\ ratio <= 100 /\ used * 100 >= ratio * budget

ShouldRenew(r, used, budget, ratio) == OverBudget(used, budget, ratio) /\ MoneyIsStill(r)

\* evaluateContextRenewal, once the summary is there.
Renewal(r, used, budget, ratio, valid) ==
  IF ~OverBudget(used, budget, ratio) THEN "below_threshold"
  ELSE IF r.interpretation \/ ~MoneyIsStill(r) THEN "deferred"
  ELSE IF ~valid THEN "throws"
  ELSE "ready"

-----------------------------------------------------------------------------
(* Speaking                                                                *)

SpokenReasons == {"started", "delayed", "result", "uncertain"}
Inputs == [reason : SpokenReasons, text : {"", "a", "b"}, after : {0, 2}]
Delay == 3

\* createNarrationPolicy: time, when work started, and what was said last.
Silence == [now |-> 0, since |-> -1, said |-> <<>>]

Speaks(n, input) ==
  /\ input.text # ""
  /\ input.reason = "delayed" => n.since >= 0 /\ n.now + input.after - n.since >= Delay
  /\ n.said = <<>> \/ n.said[Len(n.said)] # <<input.reason, input.text>>

Remember(n, input) ==
  LET now == n.now + input.after
  IN IF ~Speaks(n, input) THEN [n EXCEPT !.now = now]
     ELSE [now |-> now, said |-> Append(n.said, <<input.reason, input.text>>),
           since |-> IF input.reason = "started" THEN now
                     ELSE IF input.reason \in {"result", "uncertain"} THEN -1 ELSE n.since]

-----------------------------------------------------------------------------
(* Claims, evaluated over every row, text and intent                       *)

\* No sentence both confirms and cancels, none that asks for anything else does
\* either, and one that refuses at all never confirms.
DecisionsAreClear ==
  \A n \in 1..3 : \A words \in [1..n -> Words] :
    /\ ~(Confirms(words) /\ Cancels(words))
    /\ (\E i \in 1..n : words[i] = "other") => ~Confirms(words) /\ ~Cancels(words)
    /\ (\E i \in 1..n : words[i] = "cancel") => ~Confirms(words)

\* A decision that the page sends is a decision where it arrives, whatever waits
\* to be interpreted.
DecisionArrives ==
  \A text \in Texts, stored \in {{}} \cup {{i} : i \in Intents} :
    LET sent == PageSends(text, TRUE)
    IN sent # "blocked" => Route(sent, TRUE, stored) \in {"confirm", "cancel"}

\* Not so for what a user says in other ways: a "yes" to the transfer is taken for
\* the interpretation.
EveryYesArrives ==
  \A text \in Texts, i \in Intents :
    IsConfirmation(text) => Route(text, TRUE, {i}) = "confirm"

\* While a transfer waits the page sends nothing that could start another one.
WaitingPageStartsNothing ==
  \A text \in Texts, busy \in BOOLEAN, locked \in BOOLEAN :
    PageMaySend(text, [busy |-> busy, locked |-> locked, waiting |-> TRUE]) =>
      Route(PageSends(text, TRUE), TRUE, {}) \notin {"agent", "clarify"}

\* Accepting an interpretation that was stored never starts the transfer: it was
\* stored because it was incomplete, and it is as incomplete when accepted.
AcceptanceOnlyAsksAgain ==
  \A text \in Texts, pending \in BOOLEAN, i \in Intents :
    Reasons(i) # {} => Route(text, pending, {i}) # "replay"

\* Every question names a field, unless it was the verb that was not understood.
QuestionsAskSomething ==
  \A i \in Intents : Reasons(i) # {} => Asks(i) # {} \/ ~i.send

\* Where both parts of a row agree that an outcome is unknown, an event and a read
\* show the same activity; where only the progress says so, they do not.
ActivitiesAgree ==
  \A r \in Rows : (r.phase = "uncertain" => r.resolution = "uncertain") =>
    ActivityFor(r) = ConversationActivity(r)
ActivitiesAlwaysAgree == \A r \in Rows : ActivityFor(r) = ConversationActivity(r)

\* A read never shows an open preview as safe to decide on while money moves.
MovingMoneyIsNotAsked ==
  \A r \in Rows : r.resolution # "none" =>
    "awaiting_confirmation" \notin {ActivityFor(r), ConversationActivity(r)}

\* What a read, or a turn that waited, tells of a failure is never milder than
\* "sent" would be: it is one of the failures.
FailureStaysFailure ==
  \A r \in Rows : r.phase = "failed" =>
    /\ ProjectedError(r) \in {"transfer_reverted", "transaction_receipt_invalid"}
    /\ ResultFromState(r) = ProjectedError(r)

\* Not so: that it is the failure that was told.  A transfer that never left, or
\* that was reverted in a Spanish conversation, is shown as sent without a receipt.
FailureIsTheOneTold ==
  \A r \in Rows : r.phase = "failed" => ProjectedError(r) = ToldAs(r.failure)

\* No answer of a turn unlocks more than its outcome allows: after an unknown
\* outcome the page is locked, after a failure that is known it is not.
UnknownLocks ==
  \A r \in Rows : LocksPage(ResultFromState(r)) <=> r.phase = "uncertain"

\* A context is renewed only while nothing is decided, moving or unknown, and the
\* check before the summary agrees with the check after it.
RenewalDisturbsNothing ==
  \A r \in Rows, used \in {0, 79, 80, 100}, budget \in {0, 100}, ratio \in {0, 80, 101} :
    /\ Renewal(r, used, budget, ratio, TRUE) = "ready" <=> ShouldRenew(r, used, budget, ratio)
    /\ ShouldRenew(r, used, budget, ratio) =>
         ConversationActivity(r) = "idle" /\ r.resolution = "none"

\* Nothing is spoken twice in a row, and "still working" is spoken only of work
\* that is still going on.
NothingTwice ==
  \A a \in Inputs, b \in Inputs, c \in Inputs :
    LET said == Remember(Remember(Remember(Silence, a), b), c).said
    IN /\ \A i \in 1..(Len(said) - 1) : said[i] # said[i + 1]
       /\ \A i \in 1..Len(said) : said[i][1] = "delayed" =>
            \E j \in 1..(i - 1) : /\ said[j][1] = "started"
                                  /\ \A k \in j..i : said[k][1] \notin {"result", "uncertain"}

StateClaims ==
  /\ DecisionsAreClear /\ DecisionArrives /\ ~EveryYesArrives /\ WaitingPageStartsNothing
  /\ AcceptanceOnlyAsksAgain /\ QuestionsAskSomething
  /\ ActivitiesAgree /\ ~ActivitiesAlwaysAgree /\ MovingMoneyIsNotAsked
  /\ FailureStaysFailure /\ ~FailureIsTheOneTold /\ UnknownLocks
  /\ RenewalDisturbsNothing /\ NothingTwice
=============================================================================
