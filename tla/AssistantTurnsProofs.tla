----------------------- MODULE AssistantTurnsProofs ------------------------
(***************************************************************************)
(* Proofs about AssistantTurns and the ContactBook it extends, for every    *)
(* number of contacts, requests and overlapping turns.                      *)
(*                                                                          *)
(* The argument: the book only grows (BookGrows).  A contact keeps the      *)
(* address of every version it ever had and never becomes active again, so  *)
(* what a session says of a contact at a version stays true whatever is     *)
(* written meanwhile, and a preview that stopped being the one reviewed     *)
(* never is again.                                                          *)
(***************************************************************************)
EXTENDS AssistantTurns, TLAPS

Drifts == [compared : Addresses, seen : Addresses \cup {None}]
Aliases == [name : Names \cup {None}, address : Addresses \cup {None}, drift : {None} \cup Drifts]
Rows == [status : {"active", "inactive"}, address : Addresses, version : Nat,
         alias : Aliases]
Pages == [text : Names \cup Addresses \cup {None},
          resolution : {None} \cup [name : Names, address : Addresses],
          searching : Names \cup {None}, saving : Requests \cup {None}]
Found == {<<a>> : a \in Addresses \cup {None}}
Bodies == [pc : {"idle", "posted", "resolved", "done"},
           kind : {"none", "create", "edit", "remove", "check"},
           key : Nat, contact : Nat, version : Nat,
           name : Names \cup {None}, address : Addresses \cup {None},
           shown : Addresses \cup {None}, found : Addresses \cup {None} \cup Found]

\* What a row says of its name is about the address it has.
RowOK(row) ==
  /\ row.alias.name # None => row.alias.address = row.address
  /\ row.alias.drift # None => /\ row.alias.name # None
                               /\ row.alias.drift.compared = row.address
                               /\ row.alias.drift.seen # row.address

RowsOK ==
  /\ book \in Seq(Rows) /\ past \in Seq(Seq(Addresses))
  /\ Len(book) = Len(past)
  /\ \A c \in 1..Len(book) : book[c].version = Len(past[c]) + 1
  /\ \A c \in 1..Len(book) : RowOK(book[c])

\* The resolver agreed with the address of a creation, and disagreed with that of
\* a drift.
BodyOK(r) ==
  /\ r.pc = "posted" => r.found = None
  /\ r.kind = "create" => /\ r.address \in Addresses
                          /\ r.pc = "resolved" => r.found = r.address
  /\ r.kind = "check" => /\ r.pc = "resolved" => r.address \in Addresses /\ r.name \in Names
                         /\ r.found # None => \E a \in Addresses \cup {None} :
                                                r.found = <<a>> /\ a # r.address

BookInv ==
  /\ RowsOK
  /\ registry \in [Names -> Addresses \cup {None}]
  /\ inputs \in Nat
  /\ page \in Pages
  /\ request \in [Requests -> Bodies]
  /\ \A q \in Requests : BodyOK(request[q])

\* What a step may do to the book.
BookGrows ==
  \A c \in DOMAIN book :
    /\ c \in DOMAIN book' /\ book'[c].version >= book[c].version
    /\ book'[c].status = "active" => book[c].status = "active"
    /\ \A v \in 1..book[c].version : AddressAt(c, v)' = AddressAt(c, v)

\* An address a contact takes is the one of the request that is answered, and the
\* name it claims for it is that request's name or none.
SentByTheScreen ==
  \A c \in Contacts' :
    (c \notin Contacts \/ book'[c].address # book[c].address) =>
      \E q \in Requests : /\ request[q].pc # "done" /\ request'[q].pc = "done"
                          /\ request[q].address = book'[c].address
                          /\ book'[c].alias.name \in {None, request[q].name}

-----------------------------------------------------------------------------
(* The book                                                                *)

LEMMA RowFields ==
  ASSUME NEW row \in Rows
  PROVE  row.version \in Nat /\ row.address \in Addresses /\ row.alias \in Aliases
  BY DEF Rows

\* A contact saved under no name.
LEMMA PlainRow ==
  ASSUME NEW a \in Addresses
  PROVE  /\ Row(a, NoClaim) \in Rows /\ RowOK(Row(a, NoClaim))
         /\ Row(a, NoClaim).version = 1 /\ Row(a, NoClaim).address = a
<1>1. NoClaim \in Aliases /\ NoClaim.name = None /\ NoClaim.drift = None
  BY DEF NoClaim, Claim, Aliases
<1>2. /\ Row(a, NoClaim).status = "active" /\ Row(a, NoClaim).address = a
      /\ Row(a, NoClaim).version = 1 /\ Row(a, NoClaim).alias = NoClaim
      /\ Row(a, NoClaim) \in Rows
  BY <1>1 DEF Row, Rows
<1> QED
  BY <1>1, <1>2 DEF RowOK

LEMMA RowIsRow ==
  ASSUME RowsOK, NEW c \in DOMAIN book
  PROVE  /\ c \in 1..Len(book) /\ book[c] \in Rows /\ past[c] \in Seq(Addresses)
         /\ book[c].version = Len(past[c]) + 1
  BY DEF RowsOK

LEMMA BookStaysPut ==
  ASSUME RowsOK, UNCHANGED <<book, past>>
  PROVE  RowsOK' /\ BookGrows
<1>1. RowsOK'
  BY DEF RowsOK
<1>2. BookGrows
  <2> SUFFICES ASSUME NEW c \in DOMAIN book
               PROVE  book[c].version >= book[c].version
    BY DEF BookGrows, AddressAt
  <2>1. book[c].version \in Nat
    BY RowIsRow, RowFields
  <2> QED
    BY <2>1
<1> QED
  BY <1>1, <1>2

LEMMA NothingSaved == ASSUME UNCHANGED book PROVE SentByTheScreen
  BY DEF SentByTheScreen, Contacts

\* A new contact comes after the others, at version 1.
LEMMA InsertOK ==
  ASSUME RowsOK, NEW row \in Rows, row.version = 1, RowOK(row), InsertContact(row)
  PROVE  /\ RowsOK' /\ BookGrows
         /\ DOMAIN book' = DOMAIN book \cup {Len(book) + 1}
         /\ \A c \in DOMAIN book : book'[c] = book[c]
         /\ book'[Len(book) + 1] = row
<1>1. /\ book' = Append(book, row) /\ past' = Append(past, << >>)
      /\ book \in Seq(Rows) /\ past \in Seq(Seq(Addresses)) /\ << >> \in Seq(Addresses)
  BY DEF InsertContact, RowsOK
<1>2. /\ book' \in Seq(Rows) /\ Len(book') = Len(book) + 1
      /\ \A c \in 1..Len(book) : book'[c] = book[c]
      /\ book'[Len(book) + 1] = row
  BY <1>1
<1>3. /\ past' \in Seq(Seq(Addresses)) /\ Len(past') = Len(past) + 1
      /\ \A c \in 1..Len(past) : past'[c] = past[c]
      /\ past'[Len(past) + 1] = << >>
  BY <1>1
<1>4. Len(book) = Len(past) /\ Len(book) \in Nat /\ DOMAIN book = 1..Len(book)
      /\ DOMAIN book' = 1..(Len(book) + 1)
  BY <1>1, <1>2 DEF RowsOK
<1>5. \A c \in 1..Len(book') : c \in 1..Len(book) \/ c = Len(book) + 1
  BY <1>2, <1>4
<1>6. \A c \in 1..Len(book') : book'[c].version = Len(past'[c]) + 1
  <2>1. ASSUME NEW c \in 1..Len(book) PROVE book'[c].version = Len(past'[c]) + 1
    BY <1>2, <1>3, <1>4, RowIsRow
  <2>2. book'[Len(book) + 1].version = Len(past'[Len(book) + 1]) + 1
    BY <1>2, <1>3, <1>4
  <2> QED
    BY <2>1, <2>2, <1>5
<1>7. \A c \in 1..Len(book') : RowOK(book'[c])
  BY <1>2, <1>4, <1>5 DEF RowsOK
<1>8. RowsOK'
  BY <1>2, <1>3, <1>4, <1>6, <1>7 DEF RowsOK, RowOK
<1>9. BookGrows
  <2> SUFFICES ASSUME NEW c \in DOMAIN book
               PROVE  /\ c \in DOMAIN book' /\ book[c].version >= book[c].version
                      /\ book'[c] = book[c] /\ past'[c] = past[c]
    BY DEF BookGrows, AddressAt
  <2>1. book[c].version \in Nat
    BY RowIsRow, RowFields
  <2> QED
    BY <2>1, <1>2, <1>3, <1>4
<1> QED
  BY <1>2, <1>4, <1>8, <1>9

\* A contact is rewritten: either its address stays, or the old one goes to its
\* history and its version counts it.
LEMMA RewriteOK ==
  ASSUME RowsOK, NEW c \in DOMAIN book, NEW row \in Rows, RowOK(row),
         book' = [book EXCEPT ![c] = row],
         row.status = "active" => book[c].status = "active",
         \/ past' = past /\ row.version = book[c].version /\ row.address = book[c].address
         \/ past' = [past EXCEPT ![c] = Append(past[c], book[c].address)]
              /\ row.version = book[c].version + 1
  PROVE  RowsOK' /\ BookGrows /\ DOMAIN book' = DOMAIN book
<1>1. /\ book \in Seq(Rows) /\ past \in Seq(Seq(Addresses)) /\ Len(book) = Len(past)
      /\ DOMAIN book = 1..Len(book) /\ Len(book) \in Nat /\ DOMAIN past = DOMAIN book
  BY DEF RowsOK
<1>2. /\ book[c] \in Rows /\ past[c] \in Seq(Addresses)
      /\ book[c].version = Len(past[c]) + 1 /\ book[c].address \in Addresses
  BY RowIsRow, RowFields
<1>3. Append(past[c], book[c].address) \in Seq(Addresses)
  BY <1>2
<1>4. book' \in Seq(Rows) /\ Len(book') = Len(book) /\ DOMAIN book' = DOMAIN book
  BY <1>1
<1>5. /\ past' \in Seq(Seq(Addresses)) /\ Len(past') = Len(past) /\ DOMAIN past' = DOMAIN past
      /\ row.version = Len(past'[c]) + 1
  <2> DEFINE longer == Append(past[c], book[c].address)
  <2>1. CASE past' = past /\ row.version = book[c].version
    BY <2>1, <1>1, <1>2
  <2>2. CASE past' = [past EXCEPT ![c] = longer] /\ row.version = book[c].version + 1
    <3>1. Len(longer) = Len(past[c]) + 1 /\ longer \in Seq(Addresses)
      BY <1>2, <1>3
    <3> HIDE DEF longer
    <3>2. past'[c] = longer
      BY <2>2, <1>1
    <3>3. past' \in Seq(Seq(Addresses)) /\ Len(past') = Len(past) /\ DOMAIN past' = DOMAIN past
      BY <2>2, <3>1, <1>1
    <3> QED
      BY <2>2, <3>1, <3>2, <3>3, <1>2
  <2> QED
    BY <2>1, <2>2
<1>7. ASSUME NEW d \in DOMAIN book, d # c PROVE book'[d] = book[d] /\ past'[d] = past[d]
  BY <1>1, <1>7
<1>8. book'[c] = row
  BY <1>1
<1>9. \A d \in 1..Len(book') : book'[d].version = Len(past'[d]) + 1
  BY <1>1, <1>4, <1>5, <1>7, <1>8 DEF RowsOK
<1>10. \A d \in 1..Len(book') : RowOK(book'[d])
  BY <1>1, <1>4, <1>7, <1>8 DEF RowsOK
<1>11. RowsOK'
  BY <1>1, <1>4, <1>5, <1>9, <1>10 DEF RowsOK, RowOK
<1>12. ASSUME NEW v \in 1..book[c].version PROVE AddressAt(c, v)' = AddressAt(c, v)
  <2>1. CASE past' = past /\ row.version = book[c].version /\ row.address = book[c].address
    BY <2>1, <1>8 DEF AddressAt
  <2>2. CASE past' = [past EXCEPT ![c] = Append(past[c], book[c].address)]
    <3>1. past'[c] = Append(past[c], book[c].address)
      BY <2>2, <1>1
    <3>2. row.address \in Addresses
      BY RowFields
    <3>3. v \in 1..Len(past'[c])
      BY <1>2, <3>1
    <3>4. Append(past'[c], row.address)[v] = past'[c][v]
      BY <1>3, <3>1, <3>2, <3>3
    <3> QED
      BY <3>1, <3>4, <1>8 DEF AddressAt
  <2> QED
    BY <2>1, <2>2
<1>13. BookGrows
  <2> SUFFICES ASSUME NEW d \in DOMAIN book
               PROVE  /\ d \in DOMAIN book' /\ book'[d].version >= book[d].version
                      /\ book'[d].status = "active" => book[d].status = "active"
                      /\ \A v \in 1..book[d].version : AddressAt(d, v)' = AddressAt(d, v)
    BY DEF BookGrows
  <2>1. book[d].version \in Nat
    BY RowIsRow, RowFields
  <2>2. CASE d = c
    <3>1. row.version >= book[c].version
      BY <2>1, <2>2
    <3> QED
      BY <2>2, <3>1, <1>4, <1>8, <1>12
  <2>3. CASE d # c
    <3>1. book'[d] = book[d] /\ past'[d] = past[d]
      BY <2>3, <1>7
    <3>2. \A v \in 1..book[d].version : AddressAt(d, v)' = AddressAt(d, v)
      BY <3>1 DEF AddressAt
    <3> QED
      BY <2>1, <3>1, <3>2, <1>4
  <2> QED
    BY <2>2, <2>3
<1> QED
  BY <1>4, <1>11, <1>13

-----------------------------------------------------------------------------
(* The screen and its requests                                             *)

\* Only one request changes.
LEMMA OneRequest ==
  ASSUME request \in [Requests -> Bodies], \A q \in Requests : BodyOK(request[q]),
         NEW q \in Requests, NEW r \in Bodies, BodyOK(r),
         request' = [request EXCEPT ![q] = r]
  PROVE  /\ request' \in [Requests -> Bodies]
         /\ \A x \in Requests : BodyOK(request'[x])
  OBVIOUS

\* A request is answered: it keeps its body, and a save that went well empties
\* the form.
LEMMA AnswerOK ==
  ASSUME BookInv, NEW q \in Requests, NEW ok \in BOOLEAN, Answer(q, ok)
  PROVE  /\ request' \in [Requests -> Bodies]
         /\ \A x \in Requests : BodyOK(request'[x])
         /\ page' \in Pages
         /\ request'[q].pc = "done"
<1> DEFINE r == [request[q] EXCEPT !.pc = "done"]
<1>1. request[q] \in Bodies /\ BodyOK(request[q])
  BY DEF BookInv
<1>2. r \in Bodies /\ r.pc = "done"
  BY <1>1 DEF Bodies
<1>3. BodyOK(r)
  BY <1>1 DEF BodyOK, Bodies
<1>4. request' = [request EXCEPT ![q] = r]
  BY DEF Answer, BookInv
<1>5. page' \in Pages
  <2>1. EmptyPage \in Pages
    BY DEF EmptyPage, Pages
  <2>2. [page EXCEPT !.saving = None] \in Pages
    BY DEF BookInv, Pages
  <2> QED
    BY <2>1, <2>2 DEF Answer, BookInv
<1> HIDE DEF r
<1>6. request'[q] = r
  BY <1>4 DEF BookInv
<1> QED
  BY <1>2, <1>3, <1>4, <1>5, <1>6, OneRequest DEF BookInv

\* A call of the screen: a body that is sent as it was built.
LEMMA PostOK ==
  ASSUME BookInv, NEW q \in Requests, NEW r \in Bodies, BodyOK(r), r.found = None,
         inputs' \in Nat, Post(q, r)
  PROVE  /\ request' \in [Requests -> Bodies]
         /\ \A x \in Requests : BodyOK(request'[x])
<1> DEFINE n == [r EXCEPT !.pc = "posted", !.key = inputs']
<1>1. n \in Bodies
  BY DEF Bodies
<1>2. BodyOK(n)
  BY DEF BodyOK, Bodies
<1>3. request' = [request EXCEPT ![q] = n]
  BY DEF Post
<1> HIDE DEF n
<1> QED
  BY <1>1, <1>2, <1>3, OneRequest DEF BookInv

\* What every step of the screen, the name service and the server does.
BookStepOK == BookInv' /\ BookGrows /\ SentByTheScreen

LEMMA ScreenStep ==
  ASSUME BookInv, UNCHANGED <<book, past>>,
         registry' \in [Names -> Addresses \cup {None}], inputs' \in Nat,
         page' \in Pages,
         request' \in [Requests -> Bodies], \A x \in Requests : BodyOK(request'[x])
  PROVE  BookStepOK
BY BookStaysPut, NothingSaved DEF BookInv, BookStepOK

LEMMA UserCounts == ASSUME BookInv, UserActs PROVE inputs' \in Nat
  BY DEF BookInv, UserActs

LEMMA TextOK ==
  ASSUME BookInv, (\E n \in Names : MoveName(n)) \/ (\E x \in Addresses \cup Names : Type(x))
                    \/ SearchAlias \/ SearchAnswers \/ AnswerLost
  PROVE  BookStepOK
<1>1. CASE \E n \in Names : MoveName(n)
  <2>1. registry' \in [Names -> Addresses \cup {None}]
    BY <1>1 DEF MoveName, BookInv
  <2> QED
    BY <1>1, <2>1, ScreenStep DEF MoveName, BookInv
<1>2. ASSUME NEW x \in Addresses \cup Names, Type(x) PROVE BookStepOK
  <2>1. page' \in Pages
    BY <1>2 DEF Type, BookInv, Pages
  <2> QED
    BY <1>2, <2>1, UserCounts, ScreenStep DEF Type, BookInv
<1>3. CASE SearchAlias
  <2>1. page' \in Pages
    BY <1>3 DEF SearchAlias, BookInv, Pages
  <2> QED
    BY <1>3, <2>1, ScreenStep DEF SearchAlias, BookInv
<1>4. CASE SearchAnswers
  <2>1. ASSUME page' = [page EXCEPT !.searching = None] PROVE page' \in Pages
    BY <2>1 DEF BookInv, Pages
  <2>2. ASSUME registry[page.searching] # None, page.searching # None,
               page' = [page EXCEPT !.searching = None,
                  !.resolution = [name |-> page.searching, address |-> registry[page.searching]]]
        PROVE  page' \in Pages
    <3>1. page.searching \in Names /\ registry[page.searching] \in Addresses
      BY <2>2 DEF BookInv, Pages
    <3>2. page' \in Pages
      BY <2>2, <3>1 DEF BookInv, Pages
    <3> QED
      BY <2>2, <3>1, <3>2 DEF BookInv, Pages
  <2>3. page' \in Pages
    BY <1>4, <2>1, <2>2 DEF SearchAnswers, BookInv, Pages
  <2> QED
    BY <1>4, <2>3, ScreenStep DEF SearchAnswers, BookInv
<1>5. CASE AnswerLost
  <2>1. page' \in Pages
    BY <1>5 DEF AnswerLost, BookInv, Pages
  <2> QED
    BY <1>5, <2>1, ScreenStep DEF AnswerLost, BookInv
<1> QED
  BY <1>1, <1>2, <1>3, <1>4, <1>5

LEMMA ShownIsAnAddress == ASSUME BookInv PROVE Shown \in Addresses \cup {None}
  BY DEF BookInv, Pages, Shown

LEMMA SaveOK ==
  ASSUME BookInv, NEW q \in Requests, SaveRecipient(q)
  PROVE  BookStepOK
<1> DEFINE alias == [NoRequest EXCEPT !.kind = "create", !.name = page.resolution.name,
                                      !.address = page.resolution.address, !.shown = Shown]
           plain == [NoRequest EXCEPT !.kind = "create", !.address = page.text, !.shown = Shown]
<1>1. inputs' \in Nat
  BY UserCounts DEF SaveRecipient
<1>2. page' \in Pages
  BY DEF SaveRecipient, BookInv, Pages
<1>3. CASE page.resolution # None /\ Post(q, alias)
  <2>1. page.resolution.name \in Names /\ page.resolution.address \in Addresses
    BY <1>3 DEF BookInv, Pages
  <2>2. alias \in Bodies /\ alias.found = None
    BY <2>1, ShownIsAnAddress DEF Bodies, NoRequest
  <2>3. BodyOK(alias)
    BY <1>3, <2>1, ShownIsAnAddress DEF BodyOK, NoRequest
  <2> HIDE DEF alias
  <2> QED
    BY <1>1, <1>2, <1>3, <2>2, <2>3, PostOK, ScreenStep DEF SaveRecipient, BookInv
<1>4. CASE page.resolution = None /\ page.text \in Addresses /\ Post(q, plain)
  <2>1. plain \in Bodies /\ plain.found = None
    BY <1>4, ShownIsAnAddress DEF Bodies, NoRequest
  <2>2. BodyOK(plain)
    BY <1>4, ShownIsAnAddress DEF BodyOK, NoRequest
  <2> HIDE DEF plain
  <2> QED
    BY <1>1, <1>2, <1>4, <2>1, <2>2, PostOK, ScreenStep DEF SaveRecipient, BookInv
<1> QED
  BY <1>3, <1>4 DEF SaveRecipient

LEMMA ChangeOK ==
  ASSUME BookInv, NEW q \in Requests, NEW c \in Contacts, ChangeContact(q, c)
  PROVE  BookStepOK
<1> DEFINE edit(a) == [NoRequest EXCEPT !.kind = "edit", !.contact = c,
                          !.version = book[c].version, !.address = a, !.shown = a]
           remove == [NoRequest EXCEPT !.kind = "remove", !.contact = c, !.version = book[c].version]
           check == [NoRequest EXCEPT !.kind = "check", !.contact = c]
<1>1. inputs' \in Nat
  BY UserCounts DEF ChangeContact
<1>2. c \in Nat /\ book[c].version \in Nat
  BY RowIsRow, RowFields DEF BookInv, Contacts
<1>3. PICK r \in Bodies : BodyOK(r) /\ r.found = None /\ Post(q, r)
  <2>1. ASSUME NEW a \in Addresses \cup {None}
        PROVE  edit(a) \in Bodies /\ BodyOK(edit(a)) /\ edit(a).found = None
    BY <1>2 DEF Bodies, BodyOK, NoRequest
  <2>2. remove \in Bodies /\ BodyOK(remove) /\ remove.found = None
    BY <1>2 DEF Bodies, BodyOK, NoRequest
  <2>3. check \in Bodies /\ BodyOK(check) /\ check.found = None
    BY <1>2 DEF Bodies, BodyOK, NoRequest
  <2>4. (\E a \in Addresses \cup {None} : Post(q, edit(a))) \/ Post(q, remove) \/ Post(q, check)
    BY DEF ChangeContact
  <2> HIDE DEF edit, remove, check
  <2> QED
    BY <2>1, <2>2, <2>3, <2>4
<1> QED
  BY <1>1, <1>3, PostOK, ScreenStep DEF ChangeContact, BookInv

LEMMA ResendOK ==
  ASSUME BookInv, NEW q \in Requests, NEW r \in Requests, Resend(q, r)
  PROVE  BookStepOK
<1> DEFINE n == [request[r] EXCEPT !.pc = "posted", !.found = None]
<1>1. request[r] \in Bodies /\ BodyOK(request[r])
  BY DEF BookInv
<1>2. n \in Bodies
  BY <1>1 DEF Bodies
<1>3. BodyOK(n)
  BY <1>1 DEF BodyOK, Bodies
<1>4. request' = [request EXCEPT ![q] = n]
  BY DEF Resend
<1>5. inputs' \in Nat
  BY UserCounts DEF Resend
<1> HIDE DEF n
<1> QED
  BY <1>2, <1>3, <1>4, <1>5, OneRequest, ScreenStep DEF Resend, BookInv

-----------------------------------------------------------------------------
(* The server                                                              *)

LEMMA ResolveOK ==
  ASSUME BookInv, NEW q \in Requests, ResolveAlias(q) \/ ReadForDrift(q) \/ ResolveForDrift(q)
  PROVE  BookStepOK
<1>0. request[q] \in Bodies /\ BodyOK(request[q])
  BY DEF BookInv
<1>1. CASE \E ok \in BOOLEAN : Answer(q, ok)
  BY <1>1, AnswerOK, ScreenStep DEF ResolveAlias, ReadForDrift, ResolveForDrift, BookInv
<1>2. ASSUME NEW r \in Bodies, BodyOK(r), request' = [request EXCEPT ![q] = r], UNCHANGED page
      PROVE  BookStepOK
  BY <1>2, OneRequest, ScreenStep DEF ResolveAlias, ReadForDrift, ResolveForDrift, BookInv
<1>3. CASE ResolveAlias(q)
  <2> DEFINE a == registry[request[q].name]
             n == [request[q] EXCEPT !.pc = "resolved", !.found = a]
  <2>1. CASE a # None /\ a = request[q].address
    <3>1. a \in Addresses
      BY <1>0, <2>1 DEF Bodies
    <3>2. n \in Bodies
      BY <1>0, <3>1 DEF Bodies
    <3>3. BodyOK(n)
      BY <1>0, <1>3, <2>1, <3>1 DEF ResolveAlias, BodyOK, Bodies
    <3>4. request' = [request EXCEPT ![q] = n] /\ UNCHANGED page
      BY <1>3, <2>1 DEF ResolveAlias, Proceed
    <3> HIDE DEF n
    <3> QED
      BY <1>2, <3>2, <3>3, <3>4
  <2>2. CASE ~(a # None /\ a = request[q].address)
    BY <1>1, <1>3, <2>2 DEF ResolveAlias
  <2> QED
    BY <2>1, <2>2
<1>4. CASE ReadForDrift(q)
  <2> DEFINE c == request[q].contact
             n == [request[q] EXCEPT !.pc = "resolved", !.name = book[c].alias.name,
                                     !.address = book[c].address]
  <2>1. CASE Active(c) /\ book[c].alias.name # None
    <3>1. book[c].address \in Addresses /\ book[c].alias.name \in Names
      BY <2>1, RowIsRow, RowFields DEF Active, Contacts, Aliases, BookInv
    <3>2. n \in Bodies
      BY <1>0, <3>1 DEF Bodies
    <3>3. request[q].found = None
      BY <1>0, <1>4 DEF ReadForDrift, ReadyToWrite, BodyOK
    <3>4. BodyOK(n)
      BY <1>0, <1>4, <3>1, <3>3 DEF ReadForDrift, ReadyToWrite, BodyOK, Bodies
    <3>5. request' = [request EXCEPT ![q] = n] /\ UNCHANGED page
      BY <1>4, <2>1 DEF ReadForDrift
    <3> HIDE DEF n
    <3> QED
      BY <1>2, <3>2, <3>4, <3>5
  <2>2. CASE ~(Active(c) /\ book[c].alias.name # None)
    BY <1>1, <1>4, <2>2 DEF ReadForDrift
  <2> QED
    BY <2>1, <2>2
<1>5. CASE ResolveForDrift(q)
  <2> DEFINE a == registry[request[q].name]
             n == [request[q] EXCEPT !.pc = "resolved", !.found = <<a>>]
  <2>1. CASE a # request[q].address
    <3>1. request[q].address \in Addresses /\ request[q].name \in Names
      BY <1>0, <1>5 DEF ResolveForDrift, BodyOK
    <3>2. a \in Addresses \cup {None}
      BY <3>1 DEF BookInv
    <3>3. <<a>> \in Found
      BY <3>2 DEF Found
    <3>4. n \in Bodies
      BY <1>0, <3>3 DEF Bodies
    <3>5. BodyOK(n)
      BY <1>0, <1>5, <2>1, <3>1, <3>2 DEF ResolveForDrift, BodyOK, Bodies
    <3>6. request' = [request EXCEPT ![q] = n] /\ UNCHANGED page
      BY <1>5, <2>1 DEF ResolveForDrift, Proceed
    <3> HIDE DEF n
    <3> QED
      BY <1>2, <3>4, <3>5, <3>6
  <2>2. CASE a = request[q].address
    BY <1>1, <1>5, <2>2 DEF ResolveForDrift
  <2> QED
    BY <2>1, <2>2
<1> QED
  BY <1>3, <1>4, <1>5

\* A step that answers a request and writes the row of one contact.
LEMMA WriteStep ==
  ASSUME BookInv, NEW q \in Requests, NEW ok \in BOOLEAN, Answer(q, ok),
         UNCHANGED <<registry, moves, inputs>>, RowsOK', BookGrows,
         SentByTheScreen
  PROVE  BookStepOK
BY AnswerOK DEF BookInv, BookStepOK

LEMMA CreateOK ==
  ASSUME BookInv, NEW q \in Requests, Create(q)
  PROVE  BookStepOK
<1> DEFINE r == request[q]
           row == IF r.name = None THEN Row(r.address, NoClaim)
                  ELSE Row(r.found, Claim(r.name, r.found))
<1>0. r \in Bodies /\ BodyOK(r) /\ RowsOK
  BY DEF BookInv
<1>1. CASE UNCHANGED <<book, past>> /\ Answer(q, Replayed(q))
  <2>1. Replayed(q) \in BOOLEAN
    BY DEF Replayed
  <2> QED
    BY <1>1, <2>1, AnswerOK, ScreenStep DEF Create, BookInv
<1>2. CASE InsertContact(row) /\ Answer(q, TRUE)
  <2>1. r.kind = "create" /\ r.address \in Addresses /\ (r.name # None => r.found = r.address)
        /\ r.pc # "done"
    BY <1>0 DEF Create, ReadyToWrite, BodyOK
  <2>2. /\ row = [status |-> "active", address |-> r.address, version |-> 1, alias |-> row.alias]
        /\ row.alias \in Aliases /\ RowOK(row) /\ row.alias.name \in {None, r.name}
    BY <1>0, <2>1 DEF Row, Claim, NoClaim, Aliases, RowOK, Bodies
  <2>3. row \in Rows /\ row.version = 1 /\ row.address = r.address
    BY <2>1, <2>2 DEF Rows
  <2> HIDE DEF row
  <2>4. /\ RowsOK' /\ BookGrows /\ DOMAIN book' = DOMAIN book \cup {Len(book) + 1}
        /\ \A c \in DOMAIN book : book'[c] = book[c]
        /\ book'[Len(book) + 1] = row
    BY <1>0, <1>2, <2>2, <2>3, InsertOK
  <2>5. SentByTheScreen
    <3>1. request'[q].pc = "done"
      BY <1>2, AnswerOK
    <3>2. \A c \in DOMAIN book' : c \in DOMAIN book \/ c = Len(book) + 1
      BY <2>4
    <3> QED
      BY <2>1, <2>2, <2>3, <2>4, <3>1, <3>2 DEF SentByTheScreen, Contacts
  <2> QED
    BY <1>2, <2>4, <2>5, WriteStep DEF Create
<1> QED
  BY <1>1, <1>2 DEF Create

LEMMA EditOK ==
  ASSUME BookInv, NEW q \in Requests, Edit(q)
  PROVE  BookStepOK
<1> DEFINE r == request[q]
           c == r.contact
           row == NextRow(c, r.address)
<1>0. r \in Bodies /\ BodyOK(r) /\ RowsOK /\ Answer(q, TRUE)
  BY DEF BookInv, Edit
<1>1. CASE UNCHANGED <<book, past>>
  BY <1>0, <1>1, AnswerOK, ScreenStep DEF Edit, BookInv
<1>2. CASE /\ CurrentVersion(c, r.version)
           /\ past' = [past EXCEPT ![c] = Append(@, book[c].address)]
           /\ book' = [book EXCEPT ![c] = row]
  <2>1. c \in DOMAIN book /\ book[c].status = "active"
    BY <1>2 DEF CurrentVersion, Active, Contacts
  <2>2. book[c] \in Rows /\ RowOK(book[c])
    BY <1>0, <2>1, RowIsRow DEF RowsOK
  <2>3. NextProvenance(c, r.address) \in Aliases
    BY <2>2, RowFields DEF NextProvenance, NoClaim, Claim, Aliases
  <2>4. /\ row \in Rows /\ row.version = book[c].version + 1 /\ row.status = book[c].status
        /\ row.address = (IF r.address = None THEN book[c].address ELSE r.address)
        /\ row.alias = NextProvenance(c, r.address)
    <3>1. book[c].version + 1 \in Nat /\ book[c].address \in Addresses
          /\ book[c].status \in {"active", "inactive"}
      BY <2>1, <2>2, RowFields
    <3>2. (IF r.address = None THEN book[c].address ELSE r.address) \in Addresses
      BY <1>0, <3>1 DEF Bodies
    <3> QED
      BY <2>3, <3>1, <3>2 DEF NextRow, Rows
  <2>5. RowOK(row)
    BY <2>2, <2>4 DEF RowOK, NextProvenance, NoClaim, Claim
  <2> HIDE DEF row
  <2>6. past' = [past EXCEPT ![c] = Append(past[c], book[c].address)]
    BY <1>2
  <2>7. RowsOK' /\ BookGrows /\ DOMAIN book' = DOMAIN book
    BY <1>0, <1>2, <2>1, <2>4, <2>5, <2>6, RewriteOK
  <2>8. r.pc # "done"
    BY <1>0 DEF Edit, ReadyToWrite, BodyOK
  <2>9. r.address # None => row.alias.name = None
    BY <2>4 DEF NextProvenance, NoClaim, Claim
  <2>10. SentByTheScreen
    <3>1. \A d \in DOMAIN book : d # c => book'[d] = book[d]
      BY <1>2
    <3>2. book'[c] = row
      BY <1>2, <2>1
    <3>3. request'[q].pc = "done"
      BY <1>0, AnswerOK
    <3> QED
      BY <2>9, <2>4, <2>7, <2>8, <3>1, <3>2, <3>3 DEF SentByTheScreen, Contacts
  <2> QED
    BY <1>0, <2>7, <2>10, WriteStep DEF Edit
<1> QED
  BY <1>1, <1>2 DEF Edit

LEMMA RemoveOK ==
  ASSUME BookInv, NEW q \in Requests, Remove(q)
  PROVE  BookStepOK
<1> DEFINE c == request[q].contact
           row == [book[c] EXCEPT !.status = "inactive"]
<1>0. RowsOK /\ Answer(q, TRUE)
  BY DEF BookInv, Remove
<1>1. CASE UNCHANGED <<book, past>>
  BY <1>0, <1>1, AnswerOK, ScreenStep DEF Remove, BookInv
<1>2. CASE CurrentVersion(c, request[q].version) /\ book' = [book EXCEPT ![c].status = "inactive"]
  <2>1. c \in DOMAIN book
    BY <1>2 DEF CurrentVersion, Active, Contacts
  <2>2. book[c] \in Rows /\ RowOK(book[c])
    BY <1>0, <2>1, RowIsRow DEF RowsOK
  <2>3. row \in Rows /\ RowOK(row) /\ row.status # "active"
        /\ row.version = book[c].version /\ row.address = book[c].address
    BY <2>2 DEF Rows, RowOK
  <2>4. book' = [book EXCEPT ![c] = row] /\ past' = past
    BY <1>2 DEF Remove
  <2> HIDE DEF row
  <2>5. RowsOK' /\ BookGrows /\ DOMAIN book' = DOMAIN book
    BY <1>0, <2>1, <2>3, <2>4, RewriteOK
  <2>6. SentByTheScreen
    BY <2>1, <2>3, <2>4, <2>5 DEF SentByTheScreen, Contacts
  <2> QED
    BY <1>0, <2>5, <2>6, WriteStep DEF Remove
<1> QED
  BY <1>1, <1>2 DEF Remove

LEMMA DriftOK ==
  ASSUME BookInv, NEW q \in Requests, RecordDrift(q)
  PROVE  BookStepOK
<1> DEFINE r == request[q]
           c == r.contact
           seen == [compared |-> r.address, seen |-> r.found[1]]
           row == [book[c] EXCEPT !.alias = [@ EXCEPT !.drift = seen]]
<1>0. r \in Bodies /\ BodyOK(r) /\ RowsOK /\ Answer(q, TRUE)
  BY DEF BookInv, RecordDrift
<1>1. CASE UNCHANGED <<book, past>>
  BY <1>0, <1>1, AnswerOK, ScreenStep DEF RecordDrift, BookInv
<1>2. CASE DriftGuard(q) /\ book' = [book EXCEPT ![c].alias.drift = seen]
  <2>1. c \in DOMAIN book /\ book[c].address = r.address /\ book[c].alias.name # None
    <3>1. r.name \in Names
      BY <1>0 DEF RecordDrift, BodyOK
    <3> QED
      BY <1>2, <3>1, BookAssumption DEF DriftGuard, Active, Contacts
  <2>2. book[c] \in Rows /\ RowOK(book[c])
    BY <1>0, <2>1, RowIsRow DEF RowsOK
  <2>3. r.found[1] \in Addresses \cup {None} /\ r.found[1] # r.address
    <3>1. PICK a \in Addresses \cup {None} : r.found = <<a>> /\ a # r.address
      BY <1>0 DEF RecordDrift, BodyOK
    <3> QED
      BY <3>1
  <2>11. seen.compared = r.address /\ seen.seen = r.found[1]
    OBVIOUS
  <2>4. book[c].alias \in Aliases /\ r.address \in Addresses /\ seen \in Drifts
    BY <2>1, <2>2, <2>3, RowFields DEF Drifts
  <2> HIDE DEF seen
  <2>5. /\ [book[c].alias EXCEPT !.drift = seen] \in Aliases
        /\ [book[c].alias EXCEPT !.drift = seen].drift = seen
        /\ [book[c].alias EXCEPT !.drift = seen].address = book[c].alias.address
        /\ [book[c].alias EXCEPT !.drift = seen].name = book[c].alias.name
    BY <2>4 DEF Aliases
  <2>6. /\ row \in Rows /\ row.version = book[c].version /\ row.address = book[c].address
        /\ row.status = book[c].status /\ row.alias = [book[c].alias EXCEPT !.drift = seen]
    BY <2>2, <2>5 DEF Rows
  <2>7. RowOK(row)
    <3>1. book[c].alias.address = book[c].address
      BY <2>1, <2>2 DEF RowOK
    <3> HIDE DEF row
    <3>2. /\ row.alias.drift = seen /\ row.alias.address = row.address
          /\ row.address = r.address /\ row.alias.name # None
      BY <2>1, <2>5, <2>6, <3>1
    <3> QED
      BY <2>11, <2>3, <3>2 DEF RowOK
  <2>8. book' = [book EXCEPT ![c] = row] /\ past' = past
    BY <1>2 DEF RecordDrift
  <2> HIDE DEF row
  <2>9. RowsOK' /\ BookGrows /\ DOMAIN book' = DOMAIN book
    BY <1>0, <2>1, <2>6, <2>7, <2>8, RewriteOK
  <2>10. SentByTheScreen
    BY <2>1, <2>6, <2>8, <2>9 DEF SentByTheScreen, Contacts
  <2> QED
    BY <1>0, <2>9, <2>10, WriteStep DEF RecordDrift
<1> QED
  BY <1>1, <1>2 DEF RecordDrift

LEMMA BookStep == ASSUME BookInv, BookNext PROVE BookStepOK
  BY TextOK, SaveOK, ChangeOK, ResendOK, ResolveOK, CreateOK, EditOK, RemoveOK, DriftOK
     DEF BookNext

-----------------------------------------------------------------------------
(* The turns                                                               *)

Refs == {None} \cup (Nat \X Nat)
Drafts == [id : Nat, address : Addresses]
Mems == [selected : Refs, required : BOOLEAN, previewed : Refs,
         write : {None} \cup Drafts, used : SUBSET Nat]
Transfers == [to : Addresses, pin : Refs, status : {"previewed", "broadcasting"}, id : Nat]
Sessions == [mem : Mems, pending : {None} \cup Transfers]
Outs == {None} \cup [to : Addresses]
Records == [pc : {"idle", "progress", "write", "search", "tools", "save", "quote",
                  "cancel", "claim", "check", "pay"},
            id : Nat, session : Sessions, tools : Nat, out : Outs, fresh : BOOLEAN]

\* A contact at a version it has had, with the address it had at that version.
Tells(r, a) ==
  r # None => /\ r[1] \in DOMAIN book /\ r[2] \in 1..book[r[1]].version
              /\ AddressAt(r[1], r[2]) = a
TransferOK(p) == p # None => Tells(p.pin, p.to)
MemOK(mem) == mem.previewed # None => mem.previewed = mem.selected
SessionOK(s) == MemOK(s.mem) /\ TransferOK(s.pending)

TurnOK(n) ==
  /\ SessionOK(n.session)
  /\ n.out # None => Tells(n.session.mem.previewed, n.out.to)
  /\ n.pc = "progress" => n.out = None
  /\ n.pc = "write" => n.session.mem.write # None
  /\ n.pc \in {"claim", "check", "pay"} => n.session.pending # None
  /\ n.pc \in {"claim", "check"} /\ ~n.fresh => ~StillReviewed(n.session.pending)
  /\ n.pc = "pay" => (n.session.pending.pin # None => n.fresh)

PaidOK == \A p \in paid : p.pin # None => p.fresh

IInv ==
  /\ BookInv
  /\ conv \in Sessions /\ SessionOK(conv)
  /\ turn \in [Turns -> Records]
  /\ \A t \in Turns : TurnOK(turn[t])
  /\ PaidOK

LEMMA LatestAddress ==
  ASSUME RowsOK, NEW c \in DOMAIN book
  PROVE  AddressAt(c, book[c].version) = book[c].address
<1>1. past[c] \in Seq(Addresses) /\ book[c].version = Len(past[c]) + 1
      /\ book[c].address \in Addresses
  BY RowIsRow, RowFields
<1> QED
  BY <1>1 DEF AddressAt

\* A reviewed contact at its current version tells its address.
LEMMA CurrentTells ==
  ASSUME RowsOK, NEW c, NEW v, CurrentVersion(c, v)
  PROVE  /\ Tells(<<c, v>>, book[c].address) /\ <<c, v>> \in Refs
         /\ book[c].address \in Addresses
<1>1. c \in DOMAIN book /\ book[c].version = v
  BY DEF CurrentVersion, Active, Contacts
<1>2. c \in Nat /\ v \in Nat /\ book[c].address \in Addresses /\ v >= 1
  <2>1. past[c] \in Seq(Addresses) /\ v = Len(past[c]) + 1 /\ c \in 1..Len(book)
    BY <1>1, RowIsRow
  <2>2. book \in Seq(Rows)
    BY DEF RowsOK
  <2> QED
    BY <1>1, <2>1, <2>2, RowIsRow, RowFields
<1> QED
  BY <1>1, <1>2, LatestAddress DEF Tells, Refs

LEMMA TellsStays ==
  ASSUME RowsOK, RowsOK', BookGrows, NEW r, NEW a, Tells(r, a)
  PROVE  Tells(r, a)'
<1> SUFFICES ASSUME r # None
             PROVE  /\ r[1] \in DOMAIN book' /\ r[2] \in 1..book'[r[1]].version
                    /\ AddressAt(r[1], r[2])' = a
  BY DEF Tells
<1>1. r[1] \in DOMAIN book /\ r[2] \in 1..book[r[1]].version /\ AddressAt(r[1], r[2]) = a
  BY DEF Tells
<1>2. r[1] \in DOMAIN book' /\ book'[r[1]].version >= book[r[1]].version
      /\ AddressAt(r[1], r[2])' = AddressAt(r[1], r[2])
  BY <1>1 DEF BookGrows
<1>3. book[r[1]].version \in Nat
  BY <1>1, RowIsRow, RowFields
<1>4. book'[r[1]].version \in Nat
  <2>1. r[1] \in 1..Len(book') /\ book' \in Seq(Rows)
    BY <1>2 DEF RowsOK
  <2>2. book'[r[1]] \in Rows
    BY <2>1
  <2> QED
    BY <2>2, RowFields
<1> QED
  BY <1>1, <1>2, <1>3, <1>4

\* A preview whose contact is not the reviewed one any more never has it again.
LEMMA ReviewedNoMore ==
  ASSUME RowsOK, RowsOK', BookGrows, NEW p \in Transfers, TransferOK(p), StillReviewed(p)'
  PROVE  StillReviewed(p)
<1> SUFFICES ASSUME p # None, p.pin # None
             PROVE  CurrentVersion(p.pin[1], p.pin[2]) /\ book[p.pin[1]].address = p.to
  BY DEF StillReviewed
<1> DEFINE c == p.pin[1]
           v == p.pin[2]
<1>1. c \in DOMAIN book /\ v \in 1..book[c].version /\ AddressAt(c, v) = p.to
  BY DEF TransferOK, Tells
<1>2. c \in DOMAIN book' /\ book'[c].status = "active" /\ book'[c].version = v
  BY DEF StillReviewed, CurrentVersion, Active, Contacts
<1>3. book'[c].version >= book[c].version /\ book[c].status = "active"
  BY <1>1, <1>2 DEF BookGrows
<1>4. book[c].version \in Nat
  BY <1>1, RowIsRow, RowFields
<1>5. book[c].version = v
  BY <1>1, <1>2, <1>3, <1>4
<1> QED
  BY <1>1, <1>3, <1>5, LatestAddress DEF CurrentVersion, Active, Contacts

LEMMA SessionStays ==
  ASSUME RowsOK, RowsOK', BookGrows, NEW s, SessionOK(s)
  PROVE  SessionOK(s)'
BY TellsStays DEF SessionOK, TransferOK, MemOK

LEMMA TurnStays ==
  ASSUME RowsOK, RowsOK', BookGrows, NEW n \in Records, TurnOK(n)
  PROVE  TurnOK(n)'
<1>1. SessionOK(n.session)'
  BY SessionStays DEF TurnOK
<1>2. n.out # None => Tells(n.session.mem.previewed, n.out.to)'
  BY TellsStays DEF TurnOK
<1>3. ASSUME n.pc \in {"claim", "check"}, ~n.fresh PROVE ~StillReviewed(n.session.pending)'
  <2>1. n.session.pending \in Transfers /\ TransferOK(n.session.pending)
        /\ ~StillReviewed(n.session.pending)
    BY <1>3 DEF TurnOK, SessionOK, Records, Sessions
  <2> QED
    BY <2>1, ReviewedNoMore
<1> QED
  BY <1>1, <1>2, <1>3 DEF TurnOK

\* A step that writes at most one turn and the row of the conversation.
LEMMA OneTurn ==
  ASSUME IInv, BookInv', BookGrows, PaidOK',
         conv' \in Sessions, SessionOK(conv'),
         NEW t \in Turns, NEW n \in Records, TurnOK(n), turn' = [turn EXCEPT ![t] = n]
  PROVE  IInv'
<1>1. RowsOK /\ RowsOK'
  BY DEF IInv, BookInv
<1>2. SessionOK(conv)'
  <2> DEFINE s == conv'
  <2>1. PICK x : x = conv'
    OBVIOUS
  <2>2. SessionOK(x)'
    BY <1>1, <2>1, SessionStays
  <2> QED
    BY <2>1, <2>2 DEF SessionOK, TransferOK, MemOK, Tells
<1>3. turn' \in [Turns -> Records]
  BY DEF IInv
<1>4. \A x \in Turns : TurnOK(turn[x])'
  <2> SUFFICES ASSUME NEW x \in Turns PROVE TurnOK(turn[x])'
    OBVIOUS
  <2>1. PICK m : m = turn'[x]
    OBVIOUS
  <2>2. m \in Records /\ TurnOK(m)
    BY <2>1 DEF IInv
  <2>3. TurnOK(m)'
    BY <1>1, <2>2, TurnStays
  <2> QED
    BY <2>1, <2>3 DEF TurnOK, SessionOK, TransferOK, MemOK, Tells, StillReviewed
<1> QED
  BY <1>2, <1>3, <1>4 DEF IInv

LEMMA BookUntouched ==
  ASSUME IInv, UNCHANGED <<turnVars, book>>, inputs' \in Nat
  PROVE  BookInv' /\ BookGrows
<1>1. UNCHANGED <<registry, moves, past, intents, page, request, book>> /\ BookInv
  BY DEF turnVars, IInv
<1>2. RowsOK' /\ BookGrows
  BY <1>1, BookStaysPut DEF BookInv
<1> QED
  BY <1>1, <1>2 DEF BookInv

\* A step inside one turn: the book is not touched.
LEMMA TurnStep ==
  ASSUME IInv, UNCHANGED <<turnVars, book>>, inputs' \in Nat, PaidOK',
         conv' \in Sessions, SessionOK(conv'),
         NEW t \in Turns, NEW n \in Records, TurnOK(n), turn' = [turn EXCEPT ![t] = n]
  PROVE  IInv'
BY BookUntouched, OneTurn

\* The end of a turn.
LEMMA Ended ==
  ASSUME IInv, UNCHANGED <<turnVars, book>>, inputs' \in Nat, PaidOK',
         conv' \in Sessions, SessionOK(conv'), NEW t \in Turns, End(t)
  PROVE  IInv'
<1>1. NoTurn \in Records /\ TurnOK(NoTurn)
  BY DEF NoTurn, NoConv, NoMemory, Records, Sessions, Mems, Refs, Outs, TurnOK, SessionOK,
         MemOK, TransferOK
<1> QED
  BY <1>1, TurnStep DEF End

\* A tool: a memory, and the answer of a preview that tells its address.
LEMMA ToolStep ==
  ASSUME IInv, UNCHANGED <<turnVars, book, inputs, conv, paid>>,
         NEW t \in Turns, NEW pc \in {"tools", "save"}, NEW mem \in Mems, NEW out \in Outs,
         MemOK(mem), out # None => Tells(mem.previewed, out.to), SetMem(t, pc, mem, out)
  PROVE  IInv'
<1> DEFINE r == turn[t]
           n == [pc |-> pc, id |-> r.id, session |-> [mem |-> mem, pending |-> r.session.pending],
                 tools |-> r.tools + 1, out |-> out, fresh |-> r.fresh]
<1>1. r \in Records /\ TurnOK(r) /\ inputs \in Nat /\ PaidOK' /\ conv \in Sessions /\ SessionOK(conv)
  BY DEF IInv, BookInv, PaidOK
<1>2. n \in Records
  BY <1>1 DEF Records, Sessions
<1>3. TurnOK(n)
  BY <1>1 DEF TurnOK, SessionOK
<1>4. turn' = [turn EXCEPT ![t] = n]
  BY DEF SetMem
<1> HIDE DEF n, r
<1> QED
  BY <1>1, <1>2, <1>3, <1>4, TurnStep

\* A step that moves a turn on and changes nothing else of it.
LEMMA Moved ==
  ASSUME IInv, UNCHANGED <<turnVars, book, inputs, conv, paid>>, NEW t \in Turns,
         NEW pc \in {"save", "search", "tools"}, Goto(t, pc)
  PROVE  IInv'
<1> DEFINE n == [turn[t] EXCEPT !.pc = pc]
<1>1. turn[t] \in Records /\ TurnOK(turn[t]) /\ inputs \in Nat /\ PaidOK'
      /\ conv \in Sessions /\ SessionOK(conv)
  BY DEF IInv, BookInv, PaidOK
<1>2. n \in Records
  BY <1>1 DEF Records
<1>3. TurnOK(n)
  BY <1>1 DEF TurnOK, Records
<1>4. turn' = [turn EXCEPT ![t] = n]
  BY DEF Goto
<1> HIDE DEF n
<1> QED
  BY <1>1, <1>2, <1>3, <1>4, TurnStep

LEMMA Here ==
  ASSUME IInv, NEW t \in Turns
  PROVE  /\ turn[t] \in Records /\ TurnOK(turn[t])
         /\ turn[t].session \in Sessions /\ Mem(t) \in Mems /\ MemOK(Mem(t))
         /\ Pending(t) \in {None} \cup Transfers /\ TransferOK(Pending(t))
         /\ turn[t].out \in Outs /\ turn[t].id \in Nat
         /\ conv \in Sessions /\ SessionOK(conv)
         /\ inputs \in Nat /\ RowsOK /\ PaidOK
<1>1. turn[t] \in Records /\ TurnOK(turn[t]) /\ conv \in Sessions /\ SessionOK(conv)
      /\ inputs \in Nat /\ RowsOK /\ PaidOK
  BY DEF IInv, BookInv
<1>2. turn[t].session \in Sessions /\ turn[t].out \in Outs /\ turn[t].id \in Nat
  BY <1>1 DEF Records
<1>3. Mem(t) \in Mems /\ Pending(t) \in {None} \cup Transfers
  BY <1>2 DEF Sessions, Mem, Pending
<1>4. MemOK(Mem(t)) /\ TransferOK(Pending(t))
  BY <1>1 DEF TurnOK, SessionOK, Mem, Pending
<1> QED
  BY <1>1, <1>2, <1>3, <1>4

\* The memories the tools leave.
LEMMA Memories ==
  ASSUME NEW mem \in Mems, NEW r \in Refs
  PROVE  /\ Cleared(mem) \in Mems /\ Cleared(mem).previewed = None
         /\ Invalidated(mem) \in Mems /\ Invalidated(mem).previewed = None
         /\ Clarified(mem) \in Mems /\ Clarified(mem).previewed = None
         /\ [mem EXCEPT !.selected = r, !.required = TRUE, !.previewed = None] \in Mems
         /\ [mem EXCEPT !.selected = r, !.required = TRUE, !.previewed = None].previewed = None
         /\ [mem EXCEPT !.required = TRUE, !.previewed = None] \in Mems
         /\ [mem EXCEPT !.required = TRUE, !.previewed = None].previewed = None
         /\ [mem EXCEPT !.previewed = r] \in Mems
         /\ [mem EXCEPT !.previewed = r].previewed = r
         /\ [mem EXCEPT !.previewed = r].selected = mem.selected
<1>1. None \in Refs
  BY DEF Refs
<1>2. /\ Cleared(mem) \in Mems /\ Cleared(mem).previewed = None
      /\ Invalidated(mem) \in Mems /\ Invalidated(mem).previewed = None
      /\ Clarified(mem) \in Mems /\ Clarified(mem).previewed = None
  BY <1>1 DEF Cleared, Invalidated, Clarified, Mems
<1>3. /\ [mem EXCEPT !.selected = r, !.required = TRUE, !.previewed = None] \in Mems
      /\ [mem EXCEPT !.selected = r, !.required = TRUE, !.previewed = None].previewed = None
  BY <1>1 DEF Mems
<1>4. /\ [mem EXCEPT !.required = TRUE, !.previewed = None] \in Mems
      /\ [mem EXCEPT !.required = TRUE, !.previewed = None].previewed = None
  BY <1>1 DEF Mems
<1>5. /\ [mem EXCEPT !.previewed = r] \in Mems
      /\ [mem EXCEPT !.previewed = r].previewed = r
      /\ [mem EXCEPT !.previewed = r].selected = mem.selected
  BY DEF Mems
<1> QED
  BY <1>2, <1>3, <1>4, <1>5

LEMMA ActiveIsKnown ==
  ASSUME RowsOK, NEW c, Active(c)
  PROVE  <<c, book[c].version>> \in Refs
<1>1. CurrentVersion(c, book[c].version)
  BY DEF CurrentVersion
<1> QED
  BY <1>1, CurrentTells

LEMMA SearchOK ==
  ASSUME IInv, NEW t \in Turns, ResolveReference(t) \/ Search(t) \/ Reveal(t)
  PROVE  IInv'
<1> USE Here
<1>0. /\ UNCHANGED <<turnVars, book, inputs, conv, paid>>
      /\ None \in Outs
  BY DEF ResolveReference, Search, Reveal, Outs
<1>1. ASSUME NEW pc \in {"tools", "save"}, NEW mem \in Mems, NEW out \in Outs,
             mem.previewed = None, SetMem(t, pc, mem, out)
      PROVE  IInv'
  BY <1>0, <1>1, ToolStep DEF MemOK, Tells
<1>2. ASSUME NEW c, Active(c)
      PROVE  Selected(Cleared(Mem(t)), c) \in Mems /\ Selected(Cleared(Mem(t)), c).previewed = None
  <2>1. <<c, book[c].version>> \in Refs
    BY <1>2, ActiveIsKnown
  <2>2. Cleared(Mem(t)) \in Mems
    BY Memories DEF Refs
  <2> QED
    BY <2>1, <2>2, Memories DEF Selected
<1>3. Cleared(Mem(t)) \in Mems /\ Cleared(Mem(t)).previewed = None
  BY Memories DEF Refs
<1>4. CASE ResolveReference(t)
  <2>1. ASSUME NEW c, Active(c), SetMem(t, "tools", Selected(Cleared(Mem(t)), c), None) PROVE IInv'
    BY <1>0, <1>1, <1>2, <2>1
  <2>2. CASE SetMem(t, "tools", [Mem(t) EXCEPT !.required = TRUE, !.previewed = None], None)
    BY <1>0, <1>1, <2>2, Memories DEF Refs
  <2>3. CASE SetMem(t, "save", Clarified(Mem(t)), None) \/ SetMem(t, "save", Cleared(Mem(t)), None)
    BY <1>0, <1>1, <1>3, <2>3, Memories DEF Refs
  <2> QED
    BY <1>4, <2>1, <2>2, <2>3 DEF ResolveReference
<1>5. CASE Search(t)
  <2>1. ASSUME NEW c, Active(c), SetMem(t, "tools", Selected(Cleared(Mem(t)), c), turn[t].out) PROVE IInv'
    BY <1>1, <1>2, <2>1
  <2>2. CASE SetMem(t, "tools", Cleared(Mem(t)), turn[t].out)
    BY <1>1, <1>3, <2>2
  <2> QED
    BY <1>5, <2>1, <2>2 DEF Search
<1>6. CASE Reveal(t)
  <2>1. SetMem(t, "tools", Invalidated(Mem(t)), turn[t].out)
    BY <1>6 DEF Reveal
  <2> QED
    BY <1>1, <2>1, Memories DEF Refs
<1> QED
  BY <1>4, <1>5, <1>6

\* A preview by contact and version.
LEMMA PreviewOK ==
  ASSUME IInv, NEW t \in Turns, NEW c, NEW v, Preview(t, c, v)
  PROVE  IInv'
<1> USE Here
<1>0. UNCHANGED <<turnVars, book, inputs, conv, paid>>
  BY DEF Preview
<1>1. None \in Outs /\ None \in Refs
  BY DEF Outs, Refs
<1>2. CASE Usable(t, c, v)
  <2> DEFINE mem == Previewed(Mem(t), c, v)
             out == [to |-> book[c].address]
  <2>1. CurrentVersion(c, v)
    BY <1>2 DEF Usable
  <2>2. out \in Outs /\ Tells(<<c, v>>, book[c].address) /\ <<c, v>> \in Refs
    BY <2>1, CurrentTells DEF Outs
  <2>3. CASE Mem(t).selected = None
    <3>1. mem = Mem(t) /\ mem.previewed = None
      BY <2>3 DEF Previewed, MemOK
    <3> QED
      BY <1>0, <1>1, <1>2, <2>2, <3>1, ToolStep DEF Preview, Tells
  <2>4. CASE Mem(t).selected # None
    <3>1. PICK r \in Refs : r = <<c, v>>
      BY <2>2
    <3>2. mem \in Mems /\ mem.previewed = <<c, v>> /\ mem.selected = <<c, v>>
      <4>1. Mem(t).selected = <<c, v>>
        BY <1>2, <2>4 DEF Usable
      <4>2. mem = [Mem(t) EXCEPT !.previewed = r]
        BY <2>4, <3>1 DEF Previewed
      <4> HIDE DEF mem
      <4>3. mem \in Mems /\ mem.previewed = r /\ mem.selected = Mem(t).selected
        BY <4>2, Memories
      <4> QED
        BY <4>1, <3>1, <4>3
    <3> HIDE DEF mem
    <3> QED
      BY <1>0, <1>1, <1>2, <2>2, <3>2, ToolStep DEF Preview, Tells, MemOK, mem
  <2> QED
    BY <2>3, <2>4
<1>3. CASE ~Usable(t, c, v)
  <2>1. Invalidated(Mem(t)) \in Mems /\ MemOK(Invalidated(Mem(t)))
    BY <1>1, Memories DEF MemOK
  <2> QED
    BY <1>0, <1>1, <1>3, <2>1, ToolStep DEF Preview
<1> QED
  BY <1>2, <1>3

\* A preview by address: pinned to the selection, or to nothing.
LEMMA PreviewAddressOK ==
  ASSUME IInv, NEW t \in Turns, NEW a \in Addresses, PreviewAddress(t, a)
  PROVE  IInv'
<1> USE Here
<1> DEFINE s == Mem(t).selected
           out == [to |-> a]
<1>0. UNCHANGED <<turnVars, book, inputs, conv, paid>>
  BY DEF PreviewAddress
<1>1. None \in Outs /\ None \in Refs /\ out \in Outs /\ out.to = a /\ s \in Refs
  BY DEF Outs, Refs, Mems
<1>2. Invalidated(Mem(t)) \in Mems /\ MemOK(Invalidated(Mem(t)))
  BY <1>1, Memories DEF MemOK
<1>3. CASE s # None /\ CurrentVersion(s[1], s[2]) /\ book[s[1]].address = a
           /\ SetMem(t, "tools", [Mem(t) EXCEPT !.previewed = s], out)
  <2> DEFINE mem == [Mem(t) EXCEPT !.previewed = s]
  <2>1. mem \in Mems /\ mem.previewed = s /\ mem.selected = s
    BY <1>1, Memories
  <2>2. Tells(s, a)
    <3>1. Tells(<<s[1], s[2]>>, a)
      BY <1>3, CurrentTells
    <3>2. s = <<s[1], s[2]>>
      BY <1>1, <1>3 DEF Refs
    <3> QED
      BY <3>1, <3>2
  <2> HIDE DEF mem
  <2> QED
    BY <1>0, <1>1, <1>3, <2>1, <2>2, ToolStep DEF MemOK, mem
<1>4. CASE s = None /\ SetMem(t, "tools", [Mem(t) EXCEPT !.previewed = None], out)
  <2> DEFINE mem == [Mem(t) EXCEPT !.previewed = None]
  <2>1. mem \in Mems /\ mem.previewed = None
    BY <1>1, Memories
  <2> HIDE DEF mem
  <2> QED
    BY <1>0, <1>1, <1>4, <2>1, ToolStep DEF MemOK, Tells, mem
<1>5. CASE SetMem(t, "tools", Invalidated(Mem(t)), None) \/ SetMem(t, "tools", Mem(t), None)
  BY <1>0, <1>1, <1>2, <1>5, ToolStep
<1> QED
  BY <1>3, <1>4, <1>5 DEF PreviewAddress

\* The draft of a memory leaves the selection alone.
LEMMA StageOK ==
  ASSUME IInv, NEW t \in Turns, NEW a \in Addresses, Stage(t, a)
  PROVE  IInv'
<1> USE Here
<1> DEFINE draft == [id |-> turn[t].id, address |-> a]
           mem == [Mem(t) EXCEPT !.write = draft]
<1>1. draft \in Drafts
  BY DEF Drafts
<1> HIDE DEF draft
<1>2. mem \in Mems /\ mem.previewed = Mem(t).previewed /\ mem.selected = Mem(t).selected
  BY <1>1 DEF Mems
<1>3. turn[t].out # None => Tells(Mem(t).previewed, turn[t].out.to)
  BY DEF TurnOK, Mem
<1>4. SetMem(t, "tools", mem, turn[t].out) /\ UNCHANGED <<turnVars, book, inputs, conv, paid>>
  BY DEF Stage, draft
<1>5. MemOK(mem) /\ (turn[t].out # None => Tells(mem.previewed, turn[t].out.to))
  BY <1>2, <1>3 DEF MemOK
<1> HIDE DEF mem
<1> QED
  BY <1>2, <1>4, <1>5, ToolStep

\* A turn that begins has no answer of a tool yet.
Begun(pc, id, s, f) == [NoTurn EXCEPT !.session = s, !.id = id, !.pc = pc, !.fresh = f]

LEMMA FreshTurn ==
  ASSUME NEW pc \in {"progress", "write", "search", "tools", "save", "cancel", "claim"},
         NEW id \in Nat, NEW s \in Sessions, NEW f \in BOOLEAN
  PROVE  /\ Begun(pc, id, s, f) \in Records /\ Begun(pc, id, s, f).pc = pc
         /\ Begun(pc, id, s, f).session = s /\ Begun(pc, id, s, f).out = None
         /\ Begun(pc, id, s, f).fresh = f
<1>1. NoTurn \in Records /\ NoTurn.out = None
  BY DEF NoTurn, NoConv, NoMemory, Records, Sessions, Mems, Refs, Outs
<1> HIDE DEF NoTurn
<1> QED
  BY <1>1 DEF Records, Begun

LEMMA BeginOK ==
  ASSUME IInv, NEW t \in Turns, NEW text, BeginTurn(t, text)
  PROVE  IInv'
<1> USE Here
<1> DEFINE fresh == (Branch(text) = "claim") => StillReviewed(conv.pending)
           n == Begun(Branch(text), inputs', conv, fresh)
<1>1. UNCHANGED <<turnVars, book, conv, paid>> /\ inputs' \in Nat /\ PaidOK'
  BY UserCounts DEF BeginTurn, IInv, PaidOK
<1>2. /\ Branch(text) \in {"progress", "write", "search", "tools", "save", "cancel", "claim"}
      /\ Branch(text) = "claim" => conv.pending # None
      /\ Branch(text) = "write" => conv.mem.write # None
  BY DEF Branch, Handled
<1>3. fresh \in BOOLEAN
  OBVIOUS
<1>4. ~fresh => Branch(text) = "claim" /\ ~StillReviewed(conv.pending)
  OBVIOUS
<1> HIDE DEF fresh
<1>5. /\ n \in Records /\ n.pc = Branch(text) /\ n.session = conv
      /\ n.out = None /\ n.fresh = fresh
  BY <1>1, <1>2, <1>3, FreshTurn
<1>7. TurnOK(n)
  BY <1>2, <1>4, <1>5 DEF TurnOK
<1>8. turn' = [turn EXCEPT ![t] = n]
  BY DEF BeginTurn, Begun, fresh
<1> HIDE DEF n
<1> QED
  BY <1>1, <1>5, <1>7, <1>8, TurnStep

\* The row is read once more, or the selection is dropped for an address.
LEMMA ProgressOK ==
  ASSUME IInv, NEW t \in Turns, SetProgress(t)
  PROVE  IInv'
<1> USE Here
<1>0. UNCHANGED <<turnVars, book, inputs, conv, paid>> /\ At(t, "progress") /\ PaidOK'
  BY DEF SetProgress, PaidOK
<1>1. PICK session, pc :
        /\ turn' = [turn EXCEPT ![t] = [turn[t] EXCEPT !.session = session, !.pc = pc]]
        /\ pc \in {"search", "tools", "save"}
        /\ session = conv \/ session = [conv EXCEPT !.mem = Cleared(conv.mem)]
  <2>1. Handled("name") \in {"search", "tools", "save"}
        /\ Handled("address") \in {"search", "tools", "save"}
    BY DEF Handled
  <2>2. CASE turn' = [turn EXCEPT ![t].session = conv, ![t].pc = Handled("name")]
    BY <2>1, <2>2
  <2>3. CASE turn' = [turn EXCEPT
                 ![t].session = IF conv.pending = None THEN [conv EXCEPT !.mem = Cleared(@)] ELSE conv,
                 ![t].pc = Handled("address")]
    BY <2>1, <2>3
  <2> QED
    BY <2>2, <2>3 DEF SetProgress
<1> DEFINE n == [turn[t] EXCEPT !.session = session, !.pc = pc]
<1>2. session \in Sessions /\ SessionOK(session) /\ MemOK(session.mem)
      /\ (session.mem.previewed = None \/ session = conv)
  <2>1. conv.mem \in Mems /\ Cleared(conv.mem) \in Mems /\ Cleared(conv.mem).previewed = None
    BY Memories DEF Sessions, Refs
  <2>2. ASSUME session = [conv EXCEPT !.mem = Cleared(conv.mem)]
        PROVE  /\ session \in Sessions /\ session.mem = Cleared(conv.mem)
               /\ session.pending = conv.pending
    BY <2>1, <2>2 DEF Sessions
  <2> QED
    BY <1>1, <2>1, <2>2 DEF SessionOK, MemOK
<1>3. turn[t].out = None
  BY <1>0 DEF TurnOK, At
<1>4. n \in Records /\ n.session = session /\ n.pc = pc /\ n.out = turn[t].out
  BY <1>1, <1>2 DEF Records
<1>5. TurnOK(n)
  BY <1>1, <1>2, <1>3, <1>4 DEF TurnOK
<1> HIDE DEF n
<1> QED
  BY <1>0, <1>1, <1>4, <1>5, TurnStep DEF n

\* A draft becomes a contact, and is used up.
LEMMA WriteMemoryOK ==
  ASSUME IInv, NEW t \in Turns, WriteMemory(t)
  PROVE  IInv'
<1> USE Here
<1>0. UNCHANGED <<registry, moves, intents, page, request, inputs, conv, paid>> /\ At(t, "write")
  BY DEF WriteMemory
<1>1. CASE Goto(t, "save") /\ UNCHANGED <<book, past>>
  BY <1>0, <1>1, Moved DEF turnVars
<1> DEFINE mem == Consumed(Mem(t))
           row == Row(Mem(t).write.address, NoClaim)
           n == [turn[t] EXCEPT !.pc = "save", !.session = [turn[t].session EXCEPT !.mem = mem]]
<1>2. CASE /\ turn' = [turn EXCEPT ![t].pc = "save", ![t].session.mem = Consumed(@)]
           /\ InsertContact(row) \/ UNCHANGED <<book, past>>
  <2>1. Mem(t).write \in Drafts
    BY <1>0 DEF TurnOK, At, Mem, Mems
  <2>2. mem \in Mems /\ mem.previewed = Mem(t).previewed /\ mem.selected = Mem(t).selected
    BY <2>1 DEF Consumed, Mems, Drafts
  <2>3. n \in Records /\ n.pc = "save" /\ n.session.mem = mem
        /\ n.session.pending = Pending(t) /\ n.out = turn[t].out
    BY <2>2 DEF Records, Sessions, Pending
  <2>4. TurnOK(n)
    BY <2>2, <2>3 DEF TurnOK, SessionOK, MemOK, Mem, Pending
  <2>5. turn' = [turn EXCEPT ![t] = n]
    BY <1>2 DEF Mem
  <2>6. BookInv' /\ BookGrows
    <3>1. row \in Rows /\ row.version = 1 /\ RowOK(row)
      BY <2>1, PlainRow DEF Drafts
    <3>2. RowsOK' /\ BookGrows
      BY <1>2, <3>1, InsertOK, BookStaysPut
    <3> QED
      BY <1>0, <3>2 DEF BookInv, IInv
  <2> HIDE DEF n
  <2> QED
    BY <1>0, <2>3, <2>4, <2>5, <2>6, OneTurn DEF PaidOK
<1> QED
  BY <1>1, <1>2 DEF WriteMemory

\* The last preview becomes the pending transfer of the session.
LEMMA AnsweredOK ==
  ASSUME IInv, NEW t \in Turns, Answered(t)
  PROVE  IInv'
<1> USE Here
<1> DEFINE p == IF turn[t].out = None THEN None
                ELSE [to |-> turn[t].out.to, pin |-> Mem(t).previewed, status |-> "previewed", id |-> 0]
           n == [turn[t] EXCEPT !.pc = "save", !.tools = 0, !.out = None,
                                !.session = [turn[t].session EXCEPT !.pending = p]]
<1>1. p \in {None} \cup Transfers
  BY DEF Outs, Transfers, Mems
<1>2. TransferOK(p)
  BY DEF TransferOK, TurnOK, Mem
<1>3. turn' = [turn EXCEPT ![t] = n]
  BY DEF Answered
<1> HIDE DEF p
<1>4. n \in Records /\ n.pc = "save" /\ n.out = None /\ n.session.mem = Mem(t) /\ n.session.pending = p
  BY <1>1 DEF Records, Sessions, Outs, Mem
<1> HIDE DEF n
<1>5. TurnOK(n)
  BY <1>2, <1>4 DEF TurnOK, SessionOK
<1> QED
  BY <1>3, <1>4, <1>5, TurnStep DEF Answered, PaidOK

\* The whole session is written back, with the row as it is now or its own.
LEMMA SaveSnapshotOK ==
  ASSUME IInv, NEW t \in Turns, SaveSnapshot(t)
  PROVE  IInv'
<1> USE Here
<1>1. conv' \in Sessions /\ SessionOK(conv')
  <2>1. ASSUME NEW p \in {None} \cup Transfers, TransferOK(p),
               conv' = [turn[t].session EXCEPT !.pending = p]
        PROVE  conv' \in Sessions /\ SessionOK(conv')
    <3>1. conv' \in Sessions /\ conv'.mem = Mem(t) /\ conv'.pending = p
      BY <2>1 DEF Sessions, Mem
    <3> QED
      BY <2>1, <3>1 DEF SessionOK
  <2>2. CASE Pending(t) = None
    <3> DEFINE p == IF Blocked THEN conv.pending ELSE None
    <3>1. p \in {None} \cup Transfers /\ TransferOK(p)
      BY DEF Sessions, SessionOK, TransferOK
    <3>2. conv' = [turn[t].session EXCEPT !.pending = p]
      BY <2>2 DEF SaveSnapshot
    <3> HIDE DEF p
    <3> QED
      BY <2>1, <3>1, <3>2
  <2>3. CASE Pending(t) # None /\ ~Blocked
    <3> DEFINE p == [Pending(t) EXCEPT !.id = turn[t].id]
    <3>1. p \in Transfers /\ p.pin = Pending(t).pin /\ p.to = Pending(t).to
      BY <2>3 DEF Transfers
    <3>2. TransferOK(p)
      BY <2>3, <3>1 DEF TransferOK
    <3>3. conv' = [turn[t].session EXCEPT !.pending = p]
      BY <2>3 DEF SaveSnapshot, Pending
    <3> HIDE DEF p
    <3> QED
      BY <2>1, <3>1, <3>2, <3>3
  <2>4. CASE Pending(t) # None /\ Blocked
    BY <2>4 DEF SaveSnapshot
  <2> QED
    BY <2>2, <2>3, <2>4
<1> QED
  BY <1>1, Ended DEF SaveSnapshot, PaidOK

LEMMA FailsOK ==
  ASSUME IInv, NEW t \in Turns, TurnFails(t)
  PROVE  IInv'
BY Here, Ended DEF TurnFails, PaidOK

\* The voice's preview, and the insert of what it prepared.
LEMMA VoiceOK ==
  ASSUME IInv, NEW t \in Turns, NEW c, NEW v, VoicePreview(t, c, v)
  PROVE  IInv'
<1> USE Here
<1> DEFINE p == [to |-> book[c].address, pin |-> <<c, v>>, status |-> "previewed", id |-> inputs']
           s == [NoConv EXCEPT !.pending = p]
           n == [NoTurn EXCEPT !.pc = "quote", !.session = s]
<1>1. UNCHANGED <<turnVars, book, conv, paid>> /\ inputs' \in Nat /\ PaidOK'
      /\ CurrentVersion(c, v)
  BY UserCounts DEF VoicePreview, IInv, PaidOK
<1>2. p \in Transfers /\ TransferOK(p)
  <2>1. PICK r \in Refs : r = <<c, v>>
    BY <1>1, CurrentTells
  <2>2. Tells(r, book[c].address) /\ book[c].address \in Addresses
    BY <1>1, <2>1, CurrentTells
  <2>3. p = [to |-> book[c].address, pin |-> r, status |-> "previewed", id |-> inputs']
    BY <2>1
  <2> HIDE DEF p
  <2> QED
    BY <1>1, <2>2, <2>3 DEF Transfers, TransferOK
<1>3. turn' = [turn EXCEPT ![t] = n]
  BY DEF VoicePreview, NoTurn
<1> HIDE DEF p
<1>4. s = [mem |-> NoMemory, pending |-> p] /\ NoMemory \in Mems /\ NoMemory.previewed = None
  <2>1. NoMemory \in Mems /\ NoMemory.previewed = None
    BY DEF NoMemory, Mems, Refs
  <2>2. s = [mem |-> NoMemory, pending |-> p]
    BY DEF NoConv
  <2> QED
    BY <2>1, <2>2
<1>5. s \in Sessions /\ SessionOK(s)
  BY <1>2, <1>4 DEF Sessions, SessionOK, MemOK
<1>6. NoTurn \in Records /\ NoTurn.out = None
  BY DEF NoTurn, NoConv, NoMemory, Records, Sessions, Mems, Refs, Outs
<1> HIDE DEF s
<1>7. n \in Records /\ n.pc = "quote" /\ n.session = s /\ n.out = None
  BY <1>5, <1>6 DEF Records
<1>8. TurnOK(n)
  BY <1>5, <1>7 DEF TurnOK
<1> HIDE DEF n
<1> QED
  BY <1>1, <1>3, <1>7, <1>8, TurnStep

\* The row's pending transfer is replaced, taken away, or claimed.
LEMMA PendingRewritten ==
  ASSUME IInv, NEW p \in {None} \cup Transfers, TransferOK(p),
         conv' = [conv EXCEPT !.pending = p]
  PROVE  conv' \in Sessions /\ SessionOK(conv')
<1>1. conv \in Sessions /\ SessionOK(conv)
  BY DEF IInv
<1>2. conv' \in Sessions /\ conv'.mem = conv.mem /\ conv'.pending = p
  BY <1>1 DEF Sessions
<1> QED
  BY <1>1, <1>2 DEF SessionOK

LEMMA NoTransferOK == None \in {None} \cup Transfers /\ TransferOK(None)
  BY DEF TransferOK

LEMMA DecideOK ==
  ASSUME IInv, NEW t \in Turns, SetPendingTransfer(t) \/ CancelPendingTransfer(t)
  PROVE  IInv'
<1> USE Here
<1>1. conv' \in Sessions /\ SessionOK(conv')
  <2>1. conv' = conv \/ conv' = [conv EXCEPT !.pending = None]
        \/ conv' = [conv EXCEPT !.pending = Pending(t)]
    BY DEF SetPendingTransfer, CancelPendingTransfer
  <2> QED
    BY <2>1, NoTransferOK, PendingRewritten
<1> QED
  BY <1>1, Ended DEF SetPendingTransfer, CancelPendingTransfer, PaidOK

\* One turn wins the preview; what it remembers of the "yes" is still true.
LEMMA ClaimOK ==
  ASSUME IInv, NEW t \in Turns, ClaimPendingTransfer(t)
  PROVE  IInv'
<1> USE Here
<1>1. CASE Decidable(t)
  <2> DEFINE p == [conv.pending EXCEPT !.status = "broadcasting"]
             n == [turn[t] EXCEPT !.pc = "check"]
  <2>1. conv.pending \in Transfers /\ TransferOK(conv.pending)
    BY <1>1 DEF Decidable, Sessions, SessionOK
  <2>2. p \in Transfers /\ p.pin = conv.pending.pin /\ p.to = conv.pending.to
    BY <2>1 DEF Transfers
  <2>3. TransferOK(p)
    BY <1>1, <2>1, <2>2 DEF TransferOK, Decidable
  <2>4. conv' = [conv EXCEPT !.pending = p]
    BY <1>1 DEF ClaimPendingTransfer
  <2> HIDE DEF p
  <2>5. conv' \in Sessions /\ SessionOK(conv')
    BY <2>2, <2>3, <2>4, PendingRewritten
  <2>6. n \in Records /\ n.pc = "check" /\ n.session = turn[t].session
        /\ n.out = turn[t].out /\ n.fresh = turn[t].fresh
    BY DEF Records
  <2>7. turn' = [turn EXCEPT ![t] = n]
    BY <1>1 DEF ClaimPendingTransfer, Goto
  <2> HIDE DEF n
  <2>8. TurnOK(n)
    BY <2>6 DEF TurnOK, ClaimPendingTransfer, At
  <2> QED
    BY <2>5, <2>6, <2>7, <2>8, TurnStep DEF ClaimPendingTransfer, PaidOK
<1>2. CASE ~Decidable(t)
  BY <1>2, Ended DEF ClaimPendingTransfer, PaidOK
<1> QED
  BY <1>1, <1>2

\* The contact of the preview is read again before it is paid.
LEMMA CheckOK ==
  ASSUME IInv, NEW t \in Turns, CheckRecipient(t)
  PROVE  IInv'
<1> USE Here
<1>1. CASE ClaimedRecipientValid(Pending(t))
  <2> DEFINE n == [turn[t] EXCEPT !.pc = "pay"]
  <2>1. n \in Records /\ n.pc = "pay" /\ n.session = turn[t].session
        /\ n.out = turn[t].out /\ n.fresh = turn[t].fresh
    BY DEF Records
  <2>2. turn' = [turn EXCEPT ![t] = n] /\ UNCHANGED conv
    BY <1>1 DEF CheckRecipient, Goto
  <2> HIDE DEF n
  <2>3. turn[t].fresh
    BY <1>1 DEF ClaimedRecipientValid, TurnOK, Pending, CheckRecipient, At, Records
  <2>4. TurnOK(n)
    BY <2>1, <2>3 DEF TurnOK, CheckRecipient, At
  <2> QED
    BY <2>1, <2>2, <2>4, TurnStep DEF CheckRecipient, PaidOK
<1>2. CASE ~ClaimedRecipientValid(Pending(t))
  <2>1. conv' \in Sessions /\ SessionOK(conv')
    BY <1>2, NoTransferOK, PendingRewritten DEF CheckRecipient
  <2> QED
    BY <1>2, <2>1, Ended DEF CheckRecipient, PaidOK
<1> QED
  BY <1>1, <1>2

LEMMA PayOK ==
  ASSUME IInv, NEW t \in Turns, Pay(t)
  PROVE  IInv'
<1> USE Here
<1>1. conv' \in Sessions /\ SessionOK(conv')
  BY NoTransferOK, PendingRewritten DEF Pay
<1>2. Pending(t).pin # None => turn[t].fresh
  BY DEF Pay, At, TurnOK, Pending
<1>3. PaidOK'
  BY <1>2 DEF Pay, PaidOK
<1> QED
  BY <1>1, <1>3, Ended DEF Pay

LEMMA TurnsOK == ASSUME IInv, TurnNext PROVE IInv'
  BY BeginOK, ProgressOK, WriteMemoryOK, SearchOK, PreviewOK, PreviewAddressOK, StageOK,
     AnsweredOK, SaveSnapshotOK, FailsOK, VoiceOK, DecideOK, ClaimOK, CheckOK, PayOK
     DEF TurnNext

-----------------------------------------------------------------------------
(* The theorems                                                            *)

\* At the start nobody has previewed anything, and every saved row is new.
LEMMA InitOK == Init => IInv
<1> SUFFICES ASSUME Init PROVE IInv
  OBVIOUS
<1>1. RowsOK
  <2> DEFINE New == UNION {{Row(a, NoClaim)} \cup {Row(a, Claim(n, a)) : n \in Names} : a \in Addresses}
  <2>1. \A row \in New : row \in Rows /\ row.version = 1 /\ RowOK(row)
    <3> SUFFICES ASSUME NEW a \in Addresses, NEW row,
                        row = Row(a, NoClaim) \/ \E n \in Names : row = Row(a, Claim(n, a))
                 PROVE  row \in Rows /\ row.version = 1 /\ RowOK(row)
      OBVIOUS
    <3>1. CASE row = Row(a, NoClaim)
      BY <3>1, PlainRow
    <3>2. ASSUME NEW n \in Names, row = Row(a, Claim(n, a))
          PROVE  row \in Rows /\ row.version = 1 /\ RowOK(row)
      <4>1. Claim(n, a) \in Aliases /\ Claim(n, a).address = a /\ Claim(n, a).drift = None
        BY DEF Claim, Aliases
      <4> QED
        BY <3>2, <4>1 DEF Row, Rows, RowOK
    <3> QED
      BY <3>1, <3>2
  <2>2. book \in Seq(New)
    BY BookAssumption DEF Init, BookInit
  <2> HIDE DEF New
  <2>3. book \in Seq(Rows) /\ \A c \in 1..Len(book) : book[c].version = 1 /\ RowOK(book[c])
    BY <2>1, <2>2
  <2>4. past = [i \in 1..Len(book) |-> << >>] /\ Len(book) \in Nat
    BY <2>2 DEF Init, BookInit
  <2>5. past \in Seq(Seq(Addresses)) /\ Len(past) = Len(book)
        /\ \A c \in 1..Len(book) : Len(past[c]) = 0
    BY <2>4
  <2> QED
    BY <2>3, <2>5 DEF RowsOK
<1>2. page \in Pages
  BY DEF Init, BookInit, EmptyPage, Pages
<1>3. NoRequest \in Bodies /\ BodyOK(NoRequest)
  BY DEF NoRequest, Bodies, BodyOK
<1>4. BookInv
  BY <1>1, <1>2, <1>3 DEF BookInv, Init, BookInit
<1>5. NoConv \in Sessions /\ SessionOK(NoConv)
  BY DEF NoConv, NoMemory, Sessions, Mems, Refs, SessionOK, MemOK, TransferOK
<1>6. NoTurn \in Records /\ TurnOK(NoTurn)
  BY <1>5 DEF NoTurn, Records, Outs, TurnOK
<1> QED
  BY <1>4, <1>5, <1>6 DEF Init, IInv, PaidOK

\* The invariant is inductive.
LEMMA Inductive == IInv /\ [Next]_vars => IInv'
<1>1. ASSUME IInv, BookInv', BookGrows, UNCHANGED <<conv, turn, paid>> PROVE IInv'
  <2>1. RowsOK /\ RowsOK'
    BY <1>1 DEF IInv, BookInv
  <2>2. SessionOK(conv)'
    BY <1>1, <2>1, SessionStays DEF IInv, SessionOK, TransferOK, MemOK, Tells
  <2>3. \A t \in Turns : TurnOK(turn[t])'
    <3> SUFFICES ASSUME NEW t \in Turns PROVE TurnOK(turn[t])'
      OBVIOUS
    <3>1. PICK m \in Records : m = turn[t] /\ TurnOK(m)
      BY <1>1 DEF IInv
    <3>2. TurnOK(m)' /\ turn'[t] = m
      BY <1>1, <2>1, <3>1, TurnStays
    <3> QED
      BY <3>2 DEF TurnOK, SessionOK, TransferOK, MemOK, Tells, StillReviewed
  <2> QED
    BY <1>1, <2>2, <2>3 DEF IInv, PaidOK
<1>3. ASSUME IInv, BookNext, UNCHANGED <<conv, turn, paid>> PROVE IInv'
  BY <1>1, <1>3, BookStep DEF BookStepOK, IInv
<1>2. ASSUME IInv, UNCHANGED vars PROVE IInv'
  <2>1. UNCHANGED <<turnVars, book, inputs, conv, turn, paid>>
    BY <1>2 DEF vars, bookVars, turnVars
  <2>2. inputs' \in Nat
    BY <1>2, <2>1 DEF IInv, BookInv
  <2> QED
    BY <1>1, <1>2, <2>1, <2>2, BookUntouched
<1> QED
  BY <1>2, <1>3, TurnsOK DEF Next

THEOREM InvariantOK == Spec => []IInv
  BY InitOK, Inductive, PTL DEF Spec

\* What a row says of its alias is about the address it has, for every history of
\* creations, edits, drift checks and names that change hands.
THEOREM ProvenanceIsTrue == Spec => []ProvenanceDescribesItsRow
<1>1. ASSUME IInv, NEW c \in Contacts PROVE RowOK(book[c])
  <2>1. /\ book \in Seq(Rows) /\ \A d \in 1..Len(book) : RowOK(book[d])
    BY <1>1 DEF IInv, BookInv, RowsOK
  <2>2. c \in 1..Len(book)
    BY <1>1, <2>1 DEF Contacts
  <2> QED
    BY <2>1, <2>2
<1>2. IInv => ProvenanceDescribesItsRow
  BY <1>1 DEF RowOK, ProvenanceDescribesItsRow
<1> QED
  BY <1>2, InvariantOK, PTL

\* A pinned preview sends to the address its contact had at the pinned version,
\* for every number of overlapping turns and every choice of tools.
THEOREM PinIsTrue == Spec => []PinTellsTheAddress
<1>1. IInv => PinTellsTheAddress
  BY DEF IInv, TurnOK, SessionOK, TransferOK, Tells, PinTellsTheAddress
<1> QED
  BY <1>1, InvariantOK, PTL

\* A pinned preview is paid only if its contact was the reviewed one when the
\* user said yes.
THEOREM PaysTheReviewed == Spec => []ConfirmedPaysTheReviewedContact
<1>1. IInv => ConfirmedPaysTheReviewedContact
  BY DEF IInv, PaidOK, ConfirmedPaysTheReviewedContact
<1> QED
  BY <1>1, InvariantOK, PTL

\* What SavesWhatWasSent says of a step.
Sent ==
  \A c \in Contacts' :
    (c \notin Contacts \/ book'[c].address # book[c].address) =>
      \/ \E q \in Requests : /\ request[q].pc # "done" /\ request'[q].pc = "done"
                             /\ request[q].address = book'[c].address
                             /\ book'[c].alias.name \in {None, request[q].name}
      \/ \E t \in Turns : /\ At(t, "write")
                          /\ Mem(t).write.address = book'[c].address

\* Every address a contact takes is the one its request carried, and the name it
\* claims is that request's, whatever the name leads to by the time the server asks
\* and whatever other requests, lost answers and turns come in between.
THEOREM SavesOnlyWhatWasSent == Spec => SavesWhatWasSent
<1>1. ASSUME IInv, BookNext PROVE Sent
  BY <1>1, BookStep DEF BookStepOK, SentByTheScreen, IInv, Sent
<1>2. ASSUME IInv, UNCHANGED book PROVE Sent
  BY <1>2 DEF Contacts, Sent
<1>3. ASSUME IInv, NEW t \in Turns, WriteMemory(t) PROVE Sent
  <2>1. CASE UNCHANGED book
    BY <1>2, <1>3, <2>1
  <2>2. CASE InsertContact(Row(Mem(t).write.address, NoClaim))
    <3> DEFINE row == Row(Mem(t).write.address, NoClaim)
    <3>1. RowsOK /\ Mem(t).write.address \in Addresses /\ At(t, "write")
      BY <1>3, Here DEF WriteMemory, TurnOK, At, Mem, Mems, Drafts
    <3>2. row \in Rows /\ row.version = 1 /\ RowOK(row) /\ row.address = Mem(t).write.address
      BY <3>1, PlainRow
    <3> HIDE DEF row
    <3>3. /\ DOMAIN book' = DOMAIN book \cup {Len(book) + 1}
          /\ \A c \in DOMAIN book : book'[c] = book[c]
          /\ book'[Len(book) + 1] = row
      BY <2>2, <3>1, <3>2, InsertOK DEF row
    <3> QED
      BY <3>1, <3>2, <3>3 DEF Contacts, Sent
  <2> QED
    BY <1>3, <2>1, <2>2 DEF WriteMemory
<1>4. ASSUME IInv, TurnNext PROVE Sent
  <2>1. ASSUME NEW t \in Turns, ~WriteMemory(t)
        PROVE  (\/ \E x \in Texts : BeginTurn(t, x)
                \/ SetProgress(t) \/ ResolveReference(t) \/ Search(t) \/ Reveal(t) \/ Answered(t)
                \/ SaveSnapshot(t) \/ TurnFails(t)
                \/ \E a \in Addresses : PreviewAddress(t, a) \/ Stage(t, a)
                \/ \E c \in Contacts : \E v \in 1..book[c].version : Preview(t, c, v) \/ VoicePreview(t, c, v)
                \/ SetPendingTransfer(t) \/ CancelPendingTransfer(t) \/ ClaimPendingTransfer(t)
                \/ CheckRecipient(t) \/ Pay(t)) => UNCHANGED book
    BY DEF BeginTurn, SetProgress, ResolveReference, Search, Reveal, Answered, SaveSnapshot,
           TurnFails, PreviewAddress, Stage, Preview, VoicePreview, SetPendingTransfer,
           CancelPendingTransfer, ClaimPendingTransfer, CheckRecipient, Pay
  <2> QED
    BY <1>2, <1>3, <1>4, <2>1 DEF TurnNext
<1>5. IInv /\ [Next]_vars => [Sent]_vars
  BY <1>1, <1>4 DEF Next
<1>6. Spec => [][Sent]_vars
  BY <1>5, InvariantOK, PTL DEF Spec
<1> QED
  BY <1>6 DEF SavesWhatWasSent, Sent

=============================================================================
