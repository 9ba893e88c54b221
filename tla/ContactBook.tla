---------------------------- MODULE ContactBook ----------------------------
(***************************************************************************)
(* The trusted recipients of one user who has a ready Solana wallet: the   *)
(* rows of recipients and recipient_versions, the idempotency keys of      *)
(* recipient_policy_sync_intent, the wallet screen that searches a name    *)
(* and saves a recipient, and the HTTP requests in flight.                 *)
(*                                                                         *)
(* A request resolves names over the network before it takes the policy    *)
(* lease; what it does under the lease (look for a replay, write, record   *)
(* the intent) is one step, for no other writer of the wallet comes in     *)
(* between (the lease itself, and its expiry, are in RecipientPolicy, with *)
(* the revision every mutation records).  Contacts are numbered in the     *)
(* order they were saved; names, descriptions and embeddings are left out. *)
(***************************************************************************)
EXTENDS Naturals, Sequences

CONSTANTS
  Addresses,   \* Solana addresses
  Names,       \* .sns names
  Requests,    \* the HTTP requests the screen may have in flight
  None,        \* no value
  Saved,       \* the contacts the user begins with, a sequence of rows
  MaxContacts, \* bound: contacts ever saved
  MaxVersion,  \* bound: version a contact reaches
  MaxMoves,    \* bound: times a name changes hands
  MaxInputs    \* bound: things the user does

VARIABLES
  registry,  \* the name service: the address a name leads to
  moves,     \* times a name changed hands
  book,      \* recipients, by number
  past,      \* recipient_versions: the addresses of each contact's older versions
  intents,   \* recipient_policy_sync_intent: <<idempotency key, contact>>
  page,      \* the form: its text, the resolution it holds, the name it searches, its save
  request,   \* the requests
  inputs     \* things the user did so far

bookVars == <<registry, moves, book, past, intents, page, request, inputs>>

\* The provenance of a row: the name it was saved under, the address the name led
\* to, and the drift found since; an empty object when no name is claimed.
Claim(name, address) == [name |-> name, address |-> address, drift |-> None]
NoClaim == Claim(None, None)
Row(address, alias) ==
  [status |-> "active", address |-> address, version |-> 1, alias |-> alias]

\* A text is a name or an address; the contacts the user begins with are new rows,
\* under the address alone or under a name that leads to it.
ASSUME BookAssumption ==
  /\ None \notin Addresses \cup Names
  /\ Names \cap Addresses = {}
  /\ {MaxContacts, MaxVersion, MaxMoves, MaxInputs} \subseteq Nat
  /\ Saved \in Seq(UNION {{Row(a, NoClaim)} \cup {Row(a, Claim(n, a)) : n \in Names} : a \in Addresses})

EmptyPage == [text |-> None, resolution |-> None, searching |-> None, saving |-> None]

\* A request is free ("idle"), on its way to the server ("posted"), past its
\* call of the resolver ("resolved") or answered ("done"; it may be sent again).
NoRequest ==
  [pc |-> "idle", kind |-> "none", key |-> 0, contact |-> 0, version |-> 0,
   name |-> None, address |-> None, shown |-> None, found |-> None]

BookInit ==
  /\ registry \in [Names -> Addresses]
  /\ \A i \in DOMAIN Saved :
       Saved[i].alias.name # None => registry[Saved[i].alias.name] = Saved[i].address
  /\ moves = 0
  /\ book = Saved
  /\ past = [i \in DOMAIN Saved |-> << >>]
  /\ intents = {}
  /\ page = EmptyPage
  /\ request = [q \in Requests |-> NoRequest]
  /\ inputs = 0

-----------------------------------------------------------------------------
(* What the tables answer                                                  *)

Contacts == DOMAIN book
Active(c) == c \in Contacts /\ book[c].status = "active"

\* The address of a contact at a version, from its history.
AddressAt(c, v) == Append(past[c], book[c].address)[v]

\* getRecipientForVersion: the row, if it is active and still at that version.
CurrentVersion(c, v) == Active(c) /\ book[c].version = v

UserActs == inputs < MaxInputs /\ inputs' = inputs + 1

-----------------------------------------------------------------------------
(* The name service                                                        *)

\* The owner of a name points it elsewhere, or lets it lapse.
MoveName(n) ==
  /\ moves < MaxMoves
  /\ moves' = moves + 1
  /\ \E a \in (Addresses \cup {None}) \ {registry[n]} : registry' = [registry EXCEPT ![n] = a]
  /\ UNCHANGED <<book, past, intents, page, request, inputs>>

-----------------------------------------------------------------------------
(* The wallet screen                                                       *)

\* Changing the text forgets the resolution, but not the search under way.
Type(x) ==
  /\ page.text # x
  /\ UserActs
  /\ page' = [page EXCEPT !.text = x, !.resolution = None]
  /\ UNCHANGED <<registry, moves, book, past, intents, request>>

SearchAlias ==
  /\ page.searching = None
  /\ page.text \in Names
  /\ page' = [page EXCEPT !.searching = page.text]
  /\ UNCHANGED <<registry, moves, book, past, intents, request, inputs>>

\* The answer arrives, whatever the text is by then; a failed search keeps the
\* resolution there was.
SearchAnswers ==
  /\ page.searching # None
  /\ \/ LET a == registry[page.searching] IN
        /\ a # None
        /\ page' = [page EXCEPT !.searching = None,
                      !.resolution = [name |-> page.searching, address |-> a]]
     \/ page' = [page EXCEPT !.searching = None]
  /\ UNCHANGED <<registry, moves, book, past, intents, request, inputs>>

\* The address the form shows: the one typed or, under a name, the resolution's.
Shown ==
  CASE page.text \in Addresses -> page.text
    [] page.text \in Names /\ page.resolution # None -> page.resolution.address
    [] OTHER -> None

\* The idempotency key of a call is made afresh for the call.
Post(q, body) ==
  request' = [request EXCEPT ![q] = [body EXCEPT !.pc = "posted", !.key = inputs']]

\* saveRecipient: a resolution in hand makes it the alias variant; one save at
\* a time.
SaveRecipient(q) ==
  /\ page.saving = None
  /\ request[q].pc \in {"idle", "done"}
  /\ UserActs
  /\ \/ /\ page.resolution # None
        /\ Post(q, [NoRequest EXCEPT !.kind = "create", !.name = page.resolution.name,
                                     !.address = page.resolution.address, !.shown = Shown])
     \/ /\ page.resolution = None
        /\ page.text \in Addresses
        /\ Post(q, [NoRequest EXCEPT !.kind = "create", !.address = page.text, !.shown = Shown])
  /\ page' = [page EXCEPT !.saving = q]
  /\ UNCHANGED <<registry, moves, book, past, intents>>

\* The answer to a save is lost; the form stays as it is.
AnswerLost ==
  /\ page.saving # None
  /\ page' = [page EXCEPT !.saving = None]
  /\ UNCHANGED <<registry, moves, book, past, intents, request, inputs>>

\* Edit, remove and check alias act on the row the list shows.  The form always
\* sends the address; a rename by proposal sends none.
ChangeContact(q, c) ==
  /\ request[q].pc \in {"idle", "done"}
  /\ Active(c)
  /\ UserActs
  /\ \/ \E a \in Addresses \cup {None} :
          Post(q, [NoRequest EXCEPT !.kind = "edit", !.contact = c, !.version = book[c].version,
                                    !.address = a, !.shown = a])
     \/ Post(q, [NoRequest EXCEPT !.kind = "remove", !.contact = c, !.version = book[c].version])
     \/ Post(q, [NoRequest EXCEPT !.kind = "check", !.contact = c])
  /\ UNCHANGED <<registry, moves, book, past, intents, page>>

\* A request whose answer was lost is sent again with its body and its key.
Resend(q, r) ==
  /\ request[q].pc \in {"idle", "done"}
  /\ request[r].kind \in {"create", "edit", "remove"}
  /\ UserActs
  /\ request' = [request EXCEPT ![q] =
       [request[r] EXCEPT !.pc = "posted", !.found = None]]
  /\ UNCHANGED <<registry, moves, book, past, intents, page>>

-----------------------------------------------------------------------------
(* The service                                                             *)

\* The answer of a request; a save that went well empties the form.
Answer(q, ok) ==
  /\ request' = [request EXCEPT ![q].pc = "done"]
  /\ page' = IF page.saving # q THEN page
             ELSE IF ok THEN EmptyPage ELSE [page EXCEPT !.saving = None]

Proceed(q, a) ==
  /\ request' = [request EXCEPT ![q].pc = "resolved", ![q].found = a]
  /\ UNCHANGED page

\* Mutant of ResolveAlias: the server's resolution is used without the veto.
ResolveAliasNoVeto(q) ==
  /\ request[q].pc = "posted"
  /\ request[q].kind = "create" /\ request[q].name # None
  /\ LET a == registry[request[q].name] IN
       IF a # None THEN Proceed(q, a) ELSE Answer(q, FALSE)
  /\ UNCHANGED <<registry, moves, book, past, intents, inputs>>

\* resolveAliasForCreate: the name is resolved before the
\* lease and the transaction.  The address of the request may veto a creation.
ResolveAlias(q) ==
  /\ request[q].pc = "posted"
  /\ request[q].kind = "create" /\ request[q].name # None
  /\ LET a == registry[request[q].name] IN
       IF a # None /\ a = request[q].address
       THEN Proceed(q, a) ELSE Answer(q, FALSE)
  /\ UNCHANGED <<registry, moves, book, past, intents, inputs>>

ReadyToWrite(q, kind) ==
  /\ request[q].kind = kind
  /\ request[q].pc = IF kind = "create" /\ request[q].name # None THEN "resolved" ELSE "posted"

\* replayIdempotentMutation: the contact of the key, while it is active.
Replayed(q) == \E c \in Contacts : <<request[q].key, c>> \in intents /\ Active(c)

\* The unique index (wallet_id, idempotency_key).
KeyTaken(q) == \E c \in Contacts : <<request[q].key, c>> \in intents

InsertContact(row) ==
  /\ Len(book) < MaxContacts
  /\ book' = Append(book, row)
  /\ past' = Append(past, << >>)

Create(q) ==
  /\ ReadyToWrite(q, "create")
  /\ \/ /\ Replayed(q) \/ KeyTaken(q)
        /\ Answer(q, Replayed(q))
        /\ UNCHANGED <<book, past, intents>>
     \/ /\ ~Replayed(q) /\ ~KeyTaken(q)
        /\ InsertContact(
             IF request[q].name = None THEN Row(request[q].address, NoClaim)
             ELSE Row(request[q].found, Claim(request[q].name, request[q].found)))
        /\ intents' = intents \cup {<<request[q].key, Len(book) + 1>>}
        /\ Answer(q, TRUE)
  /\ UNCHANGED <<registry, moves, inputs>>

\* The provenance after an edit: an edit that carries an address clears it.
NextProvenance(c, address) == IF address = None THEN book[c].alias ELSE NoClaim

NextRow(c, address) ==
  [status |-> book[c].status, version |-> book[c].version + 1,
   address |-> IF address = None THEN book[c].address ELSE address,
   alias |-> NextProvenance(c, address)]

\* ContactsRepository.update: the version is checked on the locked row, and the
\* row as it was goes to recipient_versions.
Edit(q) ==
  /\ ReadyToWrite(q, "edit")
  /\ LET c == request[q].contact IN
       \/ /\ Replayed(q) \/ KeyTaken(q) \/ ~CurrentVersion(c, request[q].version)
          /\ UNCHANGED <<book, past, intents>>
       \/ /\ ~Replayed(q) /\ ~KeyTaken(q) /\ CurrentVersion(c, request[q].version)
          /\ book[c].version < MaxVersion
          /\ past' = [past EXCEPT ![c] = Append(@, book[c].address)]
          /\ book' = [book EXCEPT ![c] = NextRow(c, request[q].address)]
          /\ intents' = intents \cup {<<request[q].key, c>>}
  /\ Answer(q, TRUE)
  /\ UNCHANGED <<registry, moves, inputs>>

\* remove has no replay lookup: the index alone refuses a repeated key.
Remove(q) ==
  /\ ReadyToWrite(q, "remove")
  /\ LET c == request[q].contact IN
       \/ /\ KeyTaken(q) \/ ~CurrentVersion(c, request[q].version)
          /\ UNCHANGED <<book, intents>>
       \/ /\ ~KeyTaken(q) /\ CurrentVersion(c, request[q].version)
          /\ book' = [book EXCEPT ![c].status = "inactive"]
          /\ intents' = intents \cup {<<request[q].key, c>>}
  /\ Answer(q, TRUE)
  /\ UNCHANGED <<registry, moves, past, inputs>>

\* checkAliasDrift reads the contact ...
ReadForDrift(q) ==
  /\ ReadyToWrite(q, "check")
  /\ LET c == request[q].contact IN
       IF Active(c) /\ book[c].alias.name # None
       THEN /\ request' = [request EXCEPT ![q].pc = "resolved",
                 ![q].name = book[c].alias.name, ![q].address = book[c].address]
            /\ UNCHANGED page
       ELSE Answer(q, TRUE)
  /\ UNCHANGED <<registry, moves, book, past, intents, inputs>>

\* ... and resolves its name; an address that did not move is not recorded.
ResolveForDrift(q) ==
  /\ request[q].kind = "check" /\ request[q].pc = "resolved" /\ request[q].found = None
  /\ LET a == registry[request[q].name] IN
       IF a = request[q].address THEN Answer(q, TRUE) ELSE Proceed(q, <<a>>)
  /\ UNCHANGED <<registry, moves, book, past, intents, inputs>>

\* Mutant of DriftGuard: the UPDATE finds its row by the id alone.
DriftById(q) == Active(request[q].contact)

\* writeAliasDrift: only onto the row the check read.
DriftGuard(q) ==
  LET c == request[q].contact IN
  /\ Active(c)
  /\ book[c].address = request[q].address
  /\ book[c].alias.name = request[q].name

RecordDrift(q) ==
  /\ request[q].kind = "check" /\ request[q].pc = "resolved" /\ request[q].found # None
  /\ book' = IF DriftGuard(q)
             THEN [book EXCEPT ![request[q].contact].alias.drift =
                     [compared |-> request[q].address, seen |-> request[q].found[1]]]
             ELSE book
  /\ Answer(q, TRUE)
  /\ UNCHANGED <<registry, moves, past, intents, inputs>>

BookNext ==
  \/ \E n \in Names : MoveName(n)
  \/ \E x \in Addresses \cup Names : Type(x)
  \/ SearchAlias \/ SearchAnswers \/ AnswerLost
  \/ \E q \in Requests :
       \/ SaveRecipient(q) \/ ResolveAlias(q) \/ Create(q) \/ Edit(q) \/ Remove(q)
       \/ ReadForDrift(q) \/ ResolveForDrift(q) \/ RecordDrift(q)
       \/ \E c \in Contacts : ChangeContact(q, c)
       \/ \E r \in Requests : Resend(q, r)

-----------------------------------------------------------------------------
(* What must hold                                                          *)

\* What a row says of its name is about the address it has: the name led there
\* when it was saved, and a drift was found by comparing with that address, however
\* the contact was edited between the reading and the recording of a check.
ProvenanceDescribesItsRow ==
  \A c \in Contacts :
    LET claim == book[c].alias IN
      /\ claim.name # None => claim.address = book[c].address
      /\ claim.drift # None =>
           /\ claim.name # None
           /\ claim.drift.compared = book[c].address
           /\ claim.drift.seen # book[c].address
=============================================================================
