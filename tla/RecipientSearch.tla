-------------------------- MODULE RecipientSearch --------------------------
(***************************************************************************)
(* Whom a spoken or typed name is taken for: the rows retrieved for a      *)
(* query, the rules tried on them in turn (the name, the name with a       *)
(* qualifier, a short form, the description, the score), the promotion of  *)
(* a remembered fact, and the embedding model behind both.                 *)
(*                                                                         *)
(* Everything is told relative to one query: a contact's name and          *)
(* description are how they compare with it after folding, its score how   *)
(* near the embedding puts it, in tenths.                                  *)
(***************************************************************************)
EXTENDS Integers, Sequences, FiniteSets, SequencesExt

-----------------------------------------------------------------------------
(* Queries and contacts                                                    *)

\* "short" has fewer than four characters, "function word" is one as a whole,
\* "function words" is several of them; a "name" carries a meaningful term.
Queries == {"empty", "short", "function word", "function words", "name"}

\* comparisonTextKey: the name is the query, goes on after it, or is followed by
\* something in it; the description is the query or shares a term with what follows.
NameKinds == {"same", "goes on", "followed", "other"}
Descriptions == {"same", "shares", "other"}

\* The configuration's floor, threshold and margin, in tenths.
Default == [floor |-> 5, threshold |-> 8, margin |-> 1]

\* ORDER BY score DESC, name, id: the id stands for both.
Before(a, b) == a.score > b.score \/ (a.score = b.score /\ a.id < b.id)
Ranked(rows) == SetToSortSeq(rows, Before)

\* searchRecipients reads the active rows that come first, LIMIT of them.
Retrieved(book, limit) ==
  LET ranked == Ranked({c \in book : c.active})
  IN  ToSet(SubSeq(ranked, 1, IF Len(ranked) < limit THEN Len(ranked) ELSE limit))

-----------------------------------------------------------------------------
(* classifyRecipientCandidates                                             *)

Resolved(row, told) == [status |-> "resolved", recipient |-> {row}, told |-> told]
Unresolved(status, told) == [status |-> status, recipient |-> {}, told |-> told]

Exact(rows) == {c \in rows : c.name = "same"}

\* resolveUniqueLexicallyQualifiedRecipient: two names that fit ask, whatever follows.
Named(rows) == {c \in rows : c.name = "followed"}

\* resolveUniquePrefixedRecipient: a name that goes on after the query, or is it.
Prefixed(query, rows) ==
  IF query \in {"short", "function word"} THEN {}
  ELSE {c \in rows : c.name \in {"same", "goes on"}}

\* resolveUniqueDescriptionMatch.
Described(query, rows) ==
  IF query # "name" THEN {} ELSE {c \in rows : c.description = "same"}

\* The four lexical rules in the order they are tried: the rows each is about.
Rules(query, rows) == <<Exact(rows), Named(rows), Prefixed(query, rows),
                        Described(query, rows)>>

\* A rule speaks when one row fits and may be selected, or when several fit.
Selects(query, rule, row) ==
  rule # 2 \/ (query \in {"short", "name"} /\ row.description = "shares")
Speaks(query, rule, fitting) ==
  Cardinality(fitting) > 1 \/ \E row \in fitting : Selects(query, rule, row)

ByScore(rows, ranking) ==
  LET ranked    == Ranked(rows)
      first     == ranked[1]
      plausible == {c \in rows : c.score >= ranking.floor}
  IN  IF first.score < ranking.floor THEN Unresolved("no_match", rows)
      ELSE IF \/ first.score < ranking.threshold
              \/ Len(ranked) > 1 /\ first.score - ranked[2].score < ranking.margin
           THEN Unresolved("clarification_required", plausible)
      ELSE Resolved(first, rows)

Classify(query, rows, ranking) ==
  LET rules    == Rules(query, rows)
      speaking == {i \in 1..Len(rules) : Speaks(query, i, rules[i])}
      fitting  == rules[CHOOSE i \in speaking : \A j \in speaking : i <= j]
  IN  IF rows = {} THEN Unresolved("no_match", {})
      ELSE IF speaking = {} THEN ByScore(rows, ranking)
      ELSE IF Cardinality(fitting) > 1 THEN Unresolved("clarification_required", rows)
      ELSE LET row == CHOOSE row \in fitting : TRUE IN Resolved(row, {row})

\* RecipientMemoryService.searchRecipients: every failure looks like every other.
SearchRecipients(query, book, limit, ranking, fails) ==
  IF query = "empty" THEN Unresolved("no_match", {})
  ELSE IF fails THEN Unresolved("unavailable", {})
  ELSE Classify(query, Retrieved(book, limit), ranking)

-----------------------------------------------------------------------------
(* classifyUserMemoryFacts                                                 *)

\* factSupportsRelationshipReference; the identity is read only from the shape
\* "<somebody> is my ...", and is empty for every other wording.
ClassifyFacts(reference, facts, ranking) ==
  LET relevant   == {f \in facts : reference => f.supports}
      identities == {f.identity : f \in relevant} \ {""}
      ranked     == Ranked(relevant)
  IN  IF relevant = {} THEN Unresolved("ok", {})
      ELSE IF reference /\ Cardinality(identities) > 1
           THEN Unresolved("clarification_required", {})
      ELSE IF ranked[1].score < ranking.threshold THEN Unresolved("ok", {})
      ELSE IF Len(ranked) > 1 /\ ranked[1].score - ranked[2].score < ranking.margin
           THEN Unresolved("clarification_required", {})
      ELSE Unresolved("ok", {ranked[1]})

-----------------------------------------------------------------------------
(* EmbeddingService                                                        *)

\* The promise of the model is kept, whether it loads or not: pipeline is "none",
\* "model" or "error" before a call that would find loads; and what the call leaves.
Pipeline(pipeline, loads) ==
  IF pipeline # "none" THEN pipeline ELSE IF loads THEN "model" ELSE "error"

\* A vector of another length, or with a component that is no number, is refused.
Embeds(pipeline, dimensions, finite) ==
  pipeline = "model" /\ dimensions = 384 /\ finite

-----------------------------------------------------------------------------
(* Claims, evaluated over every book of up to three contacts               *)

Limit == 2
Scores == {3, 6, 8, 9}
Book(n) == UNION {[1..k -> [name : NameKinds, description : Descriptions, score : Scores]] : k \in 0..n}
Rows(book) == {[id |-> i, active |-> TRUE, name |-> book[i].name,
                description |-> book[i].description, score |-> book[i].score] :
                 i \in DOMAIN book}
Books(n) == {Rows(book) : book \in Book(n)}
Asked == Queries \ {"empty"}

\* The same two contacts, saved in the other order.
Swapped(rows) == {[row EXCEPT !.id = 3 - @] : row \in rows}
Content(rows) == {[name |-> row.name, description |-> row.description, score |-> row.score] :
                    row \in rows}

\* Which of two contacts is paid never hangs on the order of their names or ids, as
\* long as a margin is asked for; the configuration accepts none.
OrderPicksNobody(margin) ==
  \A query \in Asked, rows \in Books(2) :
    LET ranking == [Default EXCEPT !.margin = margin]
    IN  Cardinality(rows) = 2 =>
          LET one   == Classify(query, rows, ranking)
              other == Classify(query, Swapped(rows), ranking)
          IN  one.status = other.status /\ Swapped(other.recipient) = one.recipient

\* A contact with the very name is never passed over for one whose name only starts
\* with it or whose description it is.
NameComesFirst ==
  \A query \in Asked, rows \in Books(2) :
    LET answer == Classify(query, rows, Default)
        exact  == Exact(rows)
    IN  exact # {} => \/ answer.recipient = exact
                      \/ answer.recipient = {} /\ answer.status = "clarification_required"

\* Nothing selected is below the threshold unless its own words were said.
SelectedIsMeant ==
  \A query \in Asked, rows \in Books(2) :
    \A row \in Classify(query, rows, Default).recipient :
      \/ row.score >= Default.threshold
      \/ row.name \in {"same", "goes on"}
      \/ row.name = "followed" /\ row.description = "shares"
      \/ row.description = "same"

\* A selection is among what the caller is told, and an ambiguity leaves at least
\* one row to ask about.
AnswerCanBeAsked ==
  \A query \in Asked, rows \in Books(2) :
    LET answer == Classify(query, rows, Default)
    IN  /\ answer.recipient \subseteq answer.told /\ answer.told \subseteq rows
        /\ answer.status = "clarification_required" => answer.told # {}
        /\ answer.status = "resolved" <=> answer.recipient # {}

\* Not so: a short form resolves only a name that identifies exactly one contact.  The
\* rule sees the rows retrieved, and a second name that goes on after the query may
\* come after them.
IdentifiesOne(n) ==
  \A book \in Books(n) :
    LET answer == SearchRecipients("name", book, Limit, Default, FALSE)
    IN  \A row \in answer.recipient :
          row.name = "goes on" => Cardinality(Prefixed("name", book)) = 1

\* Not so: a name followed by a qualifier that fits nothing finds its contact only by
\* the score.  The description of another contact is tried before.
QualifierKeepsTheName ==
  \A rows \in Books(2) :
    LET answer == Classify("name", rows, Default)
    IN  Named(rows) # {} => \A row \in answer.recipient : row.name # "other" \/ row.score >= Default.threshold

FactSets == {{[id |-> i, score |-> facts[i].score, supports |-> facts[i].supports,
               identity |-> facts[i].identity] : i \in 1..2} :
               facts \in [1..2 -> [score : Scores, supports : BOOLEAN,
                                   identity : {"Ana", "Eva", ""}]]}

\* Two facts that name different people for one relation never promote either; a fact
\* in another wording names nobody, and conflicts with none.
Conflict(facts, names) ==
  \E f, g \in facts : f.supports /\ g.supports /\ f.identity # g.identity /\
                      {f.identity, g.identity} \subseteq names
ConflictsAsk(names) ==
  \A facts \in FactSets :
    Conflict(facts, names) => ClassifyFacts(TRUE, facts, Default).told = {}

\* A fact that is not about the relation asked for is never promoted.
PromotedSupports ==
  \A facts \in FactSets : \A f \in ClassifyFacts(TRUE, facts, Default).told : f.supports

\* Not so: a model that could not be loaded is loaded again at the next search.
LoadIsRetried ==
  \A first, second \in BOOLEAN :
    LET before == Pipeline("none", first)
    IN  Embeds(Pipeline(before, second), 384, TRUE) <=> (first \/ second)

SearchClaims ==
  /\ OrderPicksNobody(1) /\ ~OrderPicksNobody(0)
  /\ NameComesFirst /\ SelectedIsMeant /\ AnswerCanBeAsked
  /\ IdentifiesOne(2) /\ ~IdentifiesOne(3) /\ ~QualifierKeepsTheName
  /\ ConflictsAsk({"Ana", "Eva"}) /\ ~ConflictsAsk({"Ana", "Eva", ""}) /\ PromotedSupports
  /\ ~LoadIsRetried
=============================================================================
