-------------------------- MODULE VoiceActionsProofs --------------------------
(***************************************************************************)
(* Proofs about VoiceActions, for every number of calls, proposals and     *)
(* previews: the gate and the arbiter never disagree, a window is open     *)
(* only over a card that was shown, one version of a proposal is applied   *)
(* once, and only the user's last answer to a window decides.              *)
(*                                                                         *)
(* None of the four is inductive.  A call acts on what it learned before   *)
(* its last await: that its row was published and that it was authorized.  *)
(* Both are facts that no other call takes back (Grows), and CallOK says   *)
(* which of them each step relies on.  The versions of a proposal exclude  *)
(* one another through the lineage they share (RowsOK), and the evidence   *)
(* in the window is what was said to it since it opened (WindowOK).        *)
(***************************************************************************)
EXTENDS VoiceActions, TLAPS

Windows == Actions \cup {NoAction}
RowRecords ==
  [status : {"none", "open", "superseded", "expired", "consumed"}, live : BOOLEAN,
   published : BOOLEAN, alias : BOOLEAN, root : 0..MaxRows]
ArbiterRecords ==
  [win : Windows, fresh : BOOLEAN, evidence : Heard, consumed : Windows, stale : BOOLEAN]
GateRecords == [id : 0..MaxPreviews, evidence : Heard, consumed : 0..MaxPreviews]

\* The steps of a call about a row, and about a preview.
Waking == {"align", "wait", "woken"}
Granted == {"reverify", "replace", "apply"}
RowPcs == Waking \cup Granted \cup {"publish", "mark", "open", "lookup", "clear", "applied"}
Deciding == {"gate", "gateWait", "gateWoken"}
PreviewPcs == Deciding \cup {"prepare", "resolve"}
Pcs == RowPcs \cup PreviewPcs \cup {"idle", "cleanup", "insert", "reread"}
CallRecords ==
  [pc : Pcs, op : {"stage", "paste", "confirm", "preview", "decide"}, id : Nat,
   win : Windows, decision : Heard, alias : BOOLEAN]

Typed ==
  /\ row \in [Rows -> RowRecords]
  /\ saved \in [Rows -> Nat]
  /\ shown \subseteq Rows
  /\ arbiter \in ArbiterRecords
  /\ gate \in GateRecords
  /\ call \in [Calls -> CallRecords]
  /\ said \in [Actions -> Heard]
  /\ authorized \in [Actions -> Nat]

\* A version that is open or was applied excludes the others of its lineage.
Counts(r) == row[r].status \in {"open", "consumed"}

RowsOK ==
  \A r \in Rows :
    /\ row[r].status = "none" => row[r] = NoRow
    /\ row[r].status # "none" => /\ row[r].root \in Rows
                                 /\ row[row[r].root].status # "none"
    /\ row[r].published => r \in shown
    /\ saved[r] = IF row[r].status = "consumed" THEN 1 ELSE 0
    /\ row[r].status = "consumed" => r \in shown /\ authorized[Contact(r)] > 0
    /\ \A q \in Rows : Counts(q) /\ Counts(r) /\ row[q].root = row[r].root => q = r

\* What a call knows at each of its steps.
CallOK(k) ==
  /\ k.pc \in RowPcs => k.id \in Rows
  /\ k.pc = "mark" => k.id \in shown
  /\ k.pc \in Waking \cup Granted \cup {"open"} => row[k.id].published
  /\ k.pc \in Waking \cup {"lookup"} => k.decision = "confirm" /\ k.win.kind # "transfer"
  /\ k.pc \in Granted => authorized[Contact(k.id)] > 0
  /\ k.pc \in PreviewPcs => k.id \in Previews
  /\ k.pc \in Deciding => k.decision \in Decisions

CallsOK == \A c \in Calls : CallOK(call[c])

\* The evidence of a window is the last thing said to it, and a transfer window
\* has its copy in the gate.
WindowOK ==
  /\ arbiter.evidence # "none" =>
       /\ arbiter.win # NoAction /\ said[arbiter.win] = arbiter.evidence
       /\ arbiter.consumed = NoAction
  /\ arbiter.win.kind = "transfer" =>
       /\ arbiter.consumed = NoAction
       /\ gate.id = arbiter.win.id /\ gate.evidence = arbiter.evidence
       /\ gate.consumed = gate.id => gate.evidence = "none"
  /\ WindowHasCard

IInv == Typed /\ RowsOK /\ CallsOK /\ WindowOK

-----------------------------------------------------------------------------
(* Actions, calls, and what may happen to them                             *)

LEMMA ActionFacts ==
  /\ NoAction.kind = "none" /\ NoAction \notin Actions
  /\ \A r \in Rows :
       Contact(r) \in Actions /\ Contact(r).kind = "contact" /\ Contact(r).id = r
  /\ \A p \in Previews :
       Transfer(p) \in Actions /\ Transfer(p).kind = "transfer" /\ Transfer(p).id = p
  /\ \A a \in Windows :
       /\ a.kind = "contact" => a \in Actions /\ a.id \in Rows /\ a = Contact(a.id)
       /\ a.kind = "transfer" => a \in Actions /\ a.id \in Previews /\ a = Transfer(a.id)
       /\ a.kind \notin {"contact", "transfer"} => a = NoAction
<1>1. \A r \in Rows : Contact(r).kind = "contact" /\ Contact(r).id = r
  BY DEF Contact, Action
<1>2. \A p \in Previews : Transfer(p).kind = "transfer" /\ Transfer(p).id = p
  BY DEF Transfer, Action
<1>3. NoAction.kind = "none"
  BY DEF NoAction, Action
<1> QED
  BY <1>1, <1>2, <1>3 DEF Windows, Actions

LEMMA IdleFacts == IdleCall \in CallRecords /\ IdleCall.pc = "idle"
BY DEF IdleCall, CallRecords, Pcs, Windows, Heard

LEMMA IdleOK == CallOK(IdleCall)'
BY IdleFacts DEF CallOK, RowPcs, Waking, Granted, PreviewPcs, Deciding

\* The facts a call may rely on over an await: nobody takes them back.
Grows ==
  /\ shown \subseteq shown'
  /\ \A r \in Rows : row[r].published => row'[r].published
  /\ \A a \in Actions : authorized[a] > 0 => authorized'[a] > 0

LEMMA CallStays ==
  ASSUME Grows, NEW k, CallOK(k)
  PROVE  CallOK(k)'
BY ActionFacts DEF Grows, CallOK, RowPcs

\* A call that waits is woken, and nothing else happens to it.
Wakes(k, n) ==
  \/ n = k
  \/ k.pc = "wait" /\ n = [k EXCEPT !.pc = "woken"]
  \/ k.pc = "gateWait" /\ n = [k EXCEPT !.pc = "gateWoken"]

LEMMA WakingKeeps ==
  ASSUME NEW k \in CallRecords, NEW n, Wakes(k, n), CallOK(k)
  PROVE  n \in CallRecords /\ CallOK(n)
<1>1. n \in CallRecords /\ n.id = k.id /\ n.win = k.win /\ n.decision = k.decision
  BY DEF Wakes, CallRecords, Pcs, RowPcs, Waking, PreviewPcs, Deciding
<1>2. n.pc = k.pc \/ (k.pc = "wait" /\ n.pc = "woken") \/ (k.pc = "gateWait" /\ n.pc = "gateWoken")
  BY DEF Wakes, CallRecords
<1> QED
  BY <1>1, <1>2 DEF CallOK, RowPcs, Waking, Granted, PreviewPcs, Deciding

\* The calls after some of them were woken.
Awoken(cs) == DOMAIN cs = Calls /\ cs = [c \in Calls |-> cs[c]] /\ \A c \in Calls : Wakes(call[c], cs[c])

LEMMA WokenAre ==
  ASSUME Typed, NEW a
  PROVE  /\ Awoken(call) /\ Awoken(WakeArbiter(call, a))
         /\ Awoken(WakeGate(call)) /\ Awoken(WakeGate(WakeArbiter(call, a)))
<1>1. call \in [Calls -> CallRecords]
  BY DEF Typed
<1>2. Awoken(call)
  BY <1>1 DEF Awoken, Wakes
<1>3. Awoken(Woken(call, "wait", "woken")) /\ Awoken(WakeGate(call))
  BY <1>1 DEF Awoken, Wakes, Woken, WakeGate
<1>4. Awoken(WakeGate(Woken(call, "wait", "woken")))
  <2>1. PICK cs : cs = Woken(call, "wait", "woken")
    OBVIOUS
  <2>2. \A c \in Calls : cs[c] = IF call[c].pc = "wait" THEN [call[c] EXCEPT !.pc = "woken"] ELSE call[c]
    BY <2>1 DEF Woken
  <2>3. \A c \in Calls : cs[c].pc = "gateWait" => call[c].pc = "gateWait" /\ cs[c] = call[c]
    BY <1>1, <2>2 DEF CallRecords
  <2> QED
    BY <2>1, <2>2, <2>3 DEF Awoken, Wakes, Woken, WakeGate
<1> QED
  BY <1>2, <1>3, <1>4 DEF WakeArbiter

\* One call moves on, others are woken.
LEMMA CallMoves ==
  ASSUME IInv, Grows, NEW cs, Awoken(cs), NEW c \in Calls, NEW k \in CallRecords,
         CallOK(k)', call' = [cs EXCEPT ![c] = k]
  PROVE  call' \in [Calls -> CallRecords] /\ CallsOK'
<1>1. ASSUME NEW d \in Calls PROVE cs[d] \in CallRecords /\ CallOK(cs[d])
  BY WakingKeeps DEF Awoken, IInv, Typed, CallsOK
<1>2. ASSUME NEW d \in Calls PROVE CallOK(call[d])'
  <2>1. PICK n : n = cs[d]
    OBVIOUS
  <2>2. CallOK(n)'
    BY <1>1, <2>1, CallStays
  <2>3. call'[d] = IF d = c THEN k ELSE n
    BY <2>1 DEF Awoken
  <2> QED
    BY <2>2, <2>3 DEF CallOK
<1>3. call' \in [Calls -> CallRecords]
  BY <1>1 DEF Awoken
<1> QED
  BY <1>2, <1>3 DEF CallsOK

LEMMA CallEnds ==
  ASSUME IInv, Grows, NEW cs, Awoken(cs), NEW c \in Calls, call' = Done(cs, c)
  PROVE  call' \in [Calls -> CallRecords] /\ CallsOK'
BY CallMoves, IdleFacts, IdleOK DEF Done

LEMMA CallsWoken ==
  ASSUME IInv, Grows, Awoken(call')
  PROVE  call' \in [Calls -> CallRecords] /\ CallsOK'
<1>1. PICK cs : cs = call'
  OBVIOUS
<1>2. ASSUME NEW d \in Calls PROVE cs[d] \in CallRecords /\ CallOK(cs[d])
  BY <1>1, WakingKeeps DEF Awoken, IInv, Typed, CallsOK
<1>3. ASSUME NEW d \in Calls PROVE CallOK(call[d])'
  <2>1. PICK n : n = cs[d]
    OBVIOUS
  <2>2. CallOK(n)'
    BY <1>2, <2>1, CallStays
  <2> QED
    BY <1>1, <2>1, <2>2 DEF CallOK
<1> QED
  BY <1>1, <1>2, <1>3 DEF CallsOK, Awoken

\* The record of a call that goes on to another step.
LEMMA CallGoes ==
  ASSUME IInv, NEW cs, Awoken(cs), NEW c \in Calls, call[c].pc \notin {"wait", "gateWait"},
         NEW pc \in Pcs, call' = Goto(cs, c, pc)
  PROVE  \E k \in CallRecords :
           /\ call' = [cs EXCEPT ![c] = k]
           /\ k.pc = pc /\ k.id = call[c].id /\ k.win = call[c].win
           /\ k.decision = call[c].decision
<1>1. PICK o \in CallRecords : o = call[c]
  BY DEF IInv, Typed
<1>2. cs[c] = o
  BY <1>1 DEF Awoken, Wakes
<1>3. PICK k : k = [o EXCEPT !.pc = pc]
  OBVIOUS
<1>4. /\ k \in CallRecords /\ k.pc = pc /\ k.id = o.id /\ k.win = o.win
      /\ k.decision = o.decision
  BY <1>3 DEF CallRecords
<1>5. call' = [cs EXCEPT ![c] = k]
  BY <1>2, <1>3 DEF Goto
<1> QED
  BY <1>1, <1>4, <1>5

-----------------------------------------------------------------------------
(* The proposal rows                                                       *)

LEMMA RowsStay ==
  ASSUME IInv, Grows, UNCHANGED <<row, saved>>
  PROVE  RowsOK'
BY ActionFacts DEF IInv, RowsOK, Grows, Counts

LEMMA WindowStays ==
  ASSUME IInv, Grows, UNCHANGED <<arbiter, gate, said>>
  PROVE  WindowOK'
<1>1. arbiter.win \in Windows
  BY DEF IInv, Typed, ArbiterRecords
<1>2. WindowHasCard'
  BY <1>1, ActionFacts DEF IInv, WindowOK, WindowHasCard, Grows
<1> QED
  BY <1>2 DEF IInv, WindowOK

\* What may become of a row that stays what it is.
Ages(o, n) ==
  /\ n.root = o.root
  /\ o.status = "none" => n = o
  /\ \/ n.status = o.status
     \/ o.status = "open" /\ n.status \in {"superseded", "expired"}

LEMMA RowsAge ==
  ASSUME IInv, row' \in [Rows -> RowRecords], UNCHANGED <<saved, authorized>>, shown \subseteq shown',
         \A r \in Rows : Ages(row[r], row'[r]) /\ (row'[r].published => r \in shown')
  PROVE  RowsOK'
<1> SUFFICES ASSUME NEW r \in Rows
             PROVE  /\ row'[r].status = "none" => row'[r] = NoRow
                    /\ row'[r].status # "none" => /\ row'[r].root \in Rows
                                                  /\ row'[row'[r].root].status # "none"
                    /\ row'[r].published => r \in shown'
                    /\ saved'[r] = IF row'[r].status = "consumed" THEN 1 ELSE 0
                    /\ row'[r].status = "consumed" => r \in shown' /\ authorized'[Contact(r)] > 0
                    /\ \A q \in Rows : Counts(q)' /\ Counts(r)' /\ row'[q].root = row'[r].root => q = r
  BY DEF RowsOK
<1>1. \A q \in Rows : row'[q].status = "none" <=> row[q].status = "none"
  BY DEF Ages
<1>2. \A q \in Rows : row'[q].status = "consumed" <=> row[q].status = "consumed"
  BY DEF Ages
<1>3. \A q \in Rows : row'[q].status \in {"open", "consumed"} => Counts(q)
  BY DEF Ages, Counts
<1> QED
  BY <1>1, <1>2, <1>3 DEF IInv, RowsOK, Ages, Counts

\* A new version of a proposal, whose lineage has no other that counts.
LEMMA RowAdded ==
  ASSUME IInv, row' \in [Rows -> RowRecords], UNCHANGED <<saved, authorized, shown>>,
         NEW v \in Rows, row[v].status = "none", row'[v].status = "open",
         ~row'[v].published,
         row'[v].root = v \/ (row'[v].root \in Rows /\ row[row'[v].root].status # "none"),
         \A r \in Rows \ {v} :
           /\ Ages(row[r], row'[r]) /\ (row'[r].published => row[r].published)
           /\ row'[r].root = row'[v].root => row'[r].status \notin {"open", "consumed"}
  PROVE  RowsOK'
<1> SUFFICES ASSUME NEW r \in Rows
             PROVE  /\ row'[r].status = "none" => row'[r] = NoRow
                    /\ row'[r].status # "none" => /\ row'[r].root \in Rows
                                                  /\ row'[row'[r].root].status # "none"
                    /\ row'[r].published => r \in shown'
                    /\ saved'[r] = IF row'[r].status = "consumed" THEN 1 ELSE 0
                    /\ row'[r].status = "consumed" => r \in shown' /\ authorized'[Contact(r)] > 0
                    /\ \A q \in Rows : Counts(q)' /\ Counts(r)' /\ row'[q].root = row'[r].root => q = r
  BY DEF RowsOK
<1>1. \A q \in Rows : row[q].status # "none" => row'[q].status # "none"
  BY DEF Ages
<1>2. CASE r = v
  BY <1>1, <1>2 DEF IInv, RowsOK, Counts
<1>3. CASE r # v
  <2>1. \A q \in Rows \ {v} : row'[q].status \in {"open", "consumed"} => Counts(q)
    BY DEF Ages, Counts
  <2>2. row'[r].status = "consumed" <=> row[r].status = "consumed"
    BY <1>3 DEF Ages
  <2>3. \A q \in Rows : Counts(q)' /\ Counts(r)' /\ row'[q].root = row'[r].root => q = r
    BY <1>3, <2>1 DEF IInv, RowsOK, Ages, Counts
  <2>4. /\ row'[r].status = "none" => row'[r] = NoRow
        /\ row'[r].status # "none" => /\ row'[r].root \in Rows
                                      /\ row'[row'[r].root].status # "none"
    BY <1>1, <1>3 DEF IInv, RowsOK, Ages
  <2>5. row'[r].published => r \in shown'
    BY <1>3 DEF IInv, RowsOK
  <2>6. /\ saved'[r] = IF row'[r].status = "consumed" THEN 1 ELSE 0
        /\ row'[r].status = "consumed" => r \in shown' /\ authorized'[Contact(r)] > 0
    BY <2>2 DEF IInv, RowsOK
  <2> QED
    BY <2>3, <2>4, <2>5, <2>6
<1> QED
  BY <1>2, <1>3

\* replaceAddress: the open version gives way to one of its lineage.
LEMMA ReplacedOK ==
  ASSUME IInv, NEW r \in Rows, row[r].status = "open", NEW q \in NextRow, NEW alias \in BOOLEAN,
         row' = Replaced(r, q, alias), UNCHANGED <<saved, authorized, shown>>
  PROVE  row' \in [Rows -> RowRecords] /\ RowsOK' /\ Grows
<1>1. PICK o \in RowRecords : o = row[r]
  BY DEF IInv, Typed
<1>2. q \in Rows /\ row[q].status = "none" /\ row[q] = NoRow /\ q # r
  BY DEF NextRow, IInv, RowsOK
<1>3. PICK old : old = [o EXCEPT !.status = "superseded"]
  OBVIOUS
<1>4. PICK new : new = [o EXCEPT !.published = FALSE, !.alias = alias]
  OBVIOUS
<1>5. /\ old \in RowRecords /\ old.status = "superseded" /\ old.root = o.root
      /\ old.published = o.published
  BY <1>3 DEF RowRecords
<1>6. new \in RowRecords /\ new.status = "open" /\ new.root = o.root /\ ~new.published
  BY <1>1, <1>4 DEF RowRecords
<1>7. row' = [row EXCEPT ![r] = old, ![q] = new]
  BY <1>1, <1>3, <1>4 DEF Replaced
<1>8. row \in [Rows -> RowRecords]
  BY DEF IInv, Typed
<1>9. row' \in [Rows -> RowRecords]
  BY <1>5, <1>6, <1>7, <1>8
<1>10. \A x \in Rows : row'[x] = IF x = q THEN new ELSE IF x = r THEN old ELSE row[x]
  BY <1>7, <1>8
<1>11. o.root \in Rows /\ row[o.root].status # "none"
  BY <1>1 DEF IInv, RowsOK
<1>12. \A x \in Rows \ {q} : Ages(row[x], row'[x]) /\ (row'[x].published => row[x].published)
  BY <1>1, <1>5, <1>10 DEF Ages
<1>13. \A x \in Rows \ {q} : row'[x].root = o.root => row'[x].status \notin {"open", "consumed"}
  BY <1>1, <1>5, <1>10 DEF IInv, RowsOK, Counts
<1>14. RowsOK'
  BY <1>2, <1>6, <1>9, <1>10, <1>11, <1>12, <1>13, RowAdded
<1>15. Grows
  BY <1>1, <1>2, <1>5, <1>10 DEF Grows, NoRow
<1> QED
  BY <1>9, <1>14, <1>15

-----------------------------------------------------------------------------
(* Steps that touch the rows, and steps that touch only the calls          *)

LEMMA RowStep ==
  ASSUME IInv, Grows, UNCHANGED <<arbiter, gate, said, authorized>>,
         row' \in [Rows -> RowRecords], saved' \in [Rows -> Nat], shown' \subseteq Rows,
         call' \in [Calls -> CallRecords], CallsOK', RowsOK'
  PROVE  IInv'
BY WindowStays DEF IInv, Typed

LEMMA QuietGrows == ASSUME UNCHANGED <<row, shown, authorized>> PROVE Grows
BY DEF Grows

LEMMA QuietStep ==
  ASSUME IInv, UNCHANGED <<row, saved, shown, arbiter, gate, said, authorized>>,
         call' \in [Calls -> CallRecords], CallsOK'
  PROVE  IInv'
<1>1. Grows
  BY QuietGrows
<1> QED
  BY <1>1, RowsStay, RowStep DEF IInv, Typed

\* A call that begins.
LEMMA CallStarts ==
  ASSUME IInv, Grows, NEW c \in Calls, NEW k \in CallRecords, CallOK(k)', Start(c, k)
  PROVE  call' \in [Calls -> CallRecords] /\ CallsOK'
BY CallMoves, WokenAre DEF Start, IInv

\* A call that goes on, when its next step needs no more than it knew.
LEMMA CallSteps ==
  ASSUME IInv, Grows, NEW c \in Calls, call[c].pc \notin {"wait", "gateWait"},
         NEW pc \in Pcs, call' = Goto(call, c, pc),
         \A k \in CallRecords : /\ k.pc = pc /\ k.id = call[c].id /\ k.win = call[c].win
                                /\ k.decision = call[c].decision
                                => CallOK(k)'
  PROVE  call' \in [Calls -> CallRecords] /\ CallsOK'
<1>1. Awoken(call)
  BY WokenAre DEF IInv
<1>2. PICK k \in CallRecords :
           /\ call' = [call EXCEPT ![c] = k]
           /\ k.pc = pc /\ k.id = call[c].id /\ k.win = call[c].win
           /\ k.decision = call[c].decision
  BY <1>1, CallGoes
<1>3. CallOK(k)'
  BY <1>2
<1> QED
  BY <1>1, <1>2, <1>3, CallMoves

LEMMA CallFinishes ==
  ASSUME IInv, Grows, NEW c \in Calls, call' = Done(call, c)
  PROVE  call' \in [Calls -> CallRecords] /\ CallsOK'
BY CallEnds, WokenAre DEF IInv

LEMMA BeginOK ==
  ASSUME IInv, NEW c \in Calls, Stage(c) \/ ConfirmContact(c) \/ Preview(c) \/ Decide(c)
  PROVE  IInv'
<1>1. Grows
  BY QuietGrows DEF Stage, ConfirmContact, Preview, Decide
<1>2. UNCHANGED <<row, saved, shown, arbiter, gate, said, authorized>>
  BY DEF Stage, ConfirmContact, Preview, Decide
<1>3. CASE Stage(c)
  <2>1. PICK alias \in BOOLEAN :
          Start(c, [IdleCall EXCEPT !.pc = "cleanup", !.op = "stage", !.alias = alias])
    BY <1>3 DEF Stage
  <2>2. PICK k : k = [IdleCall EXCEPT !.pc = "cleanup", !.op = "stage", !.alias = alias]
    OBVIOUS
  <2>3. k \in CallRecords /\ k.pc = "cleanup"
    BY <2>2, IdleFacts DEF CallRecords, Pcs
  <2>4. CallOK(k)'
    BY <2>3 DEF CallOK, RowPcs, Waking, Granted, PreviewPcs, Deciding
  <2> QED
    BY <1>1, <1>2, <2>1, <2>2, <2>3, <2>4, CallStarts, QuietStep
<1>4. CASE ConfirmContact(c)
  <2>1. PICK r \in Rows : Start(c, [IdleCall EXCEPT !.pc = "lookup", !.op = "confirm", !.id = r,
                                       !.win = arbiter.win, !.decision = "confirm"])
    BY <1>4 DEF ConfirmContact
  <2>2. arbiter.win \in Windows /\ arbiter.win.kind # "transfer"
    BY <1>4 DEF ConfirmContact, IInv, Typed, ArbiterRecords
  <2>3. PICK w : w = arbiter.win
    OBVIOUS
  <2>4. PICK k : k = [IdleCall EXCEPT !.pc = "lookup", !.op = "confirm", !.id = r,
                                      !.win = w, !.decision = "confirm"]
    OBVIOUS
  <2>5. r \in Nat
    BY DEF Rows
  <2>6. k \in CallRecords /\ k.pc = "lookup" /\ k.id = r /\ k.win = w /\ k.decision = "confirm"
    BY <2>2, <2>3, <2>4, <2>5, IdleFacts DEF CallRecords, Pcs, RowPcs, Heard, Decisions
  <2>7. CallOK(k)'
    BY <2>2, <2>3, <2>6 DEF CallOK, RowPcs, Waking, Granted, PreviewPcs, Deciding
  <2> QED
    BY <1>1, <1>2, <2>1, <2>3, <2>4, <2>6, <2>7, CallStarts, QuietStep
<1>5. CASE Preview(c)
  <2>1. PICK p \in Previews : Start(c, [IdleCall EXCEPT !.pc = "reread", !.op = "preview", !.id = p])
    BY <1>5 DEF Preview
  <2>2. PICK k : k = [IdleCall EXCEPT !.pc = "reread", !.op = "preview", !.id = p]
    OBVIOUS
  <2>3. p \in Nat
    BY DEF Previews
  <2>4. k \in CallRecords /\ k.pc = "reread"
    BY <2>2, <2>3, IdleFacts DEF CallRecords, Pcs
  <2>5. CallOK(k)'
    BY <2>4 DEF CallOK, RowPcs, Waking, Granted, PreviewPcs, Deciding
  <2> QED
    BY <1>1, <1>2, <2>1, <2>2, <2>4, <2>5, CallStarts, QuietStep
<1>6. CASE Decide(c)
  <2>1. PICK p \in Pending, d \in Decisions :
          Start(c, [IdleCall EXCEPT !.pc = "gate", !.op = "decide", !.id = p, !.decision = d])
    BY <1>6 DEF Decide
  <2>2. PICK k : k = [IdleCall EXCEPT !.pc = "gate", !.op = "decide", !.id = p, !.decision = d]
    OBVIOUS
  <2>3. p \in Previews /\ p \in Nat
    BY DEF Previews, Pending
  <2>4. k \in CallRecords /\ k.pc = "gate" /\ k.id = p /\ k.decision = d
    BY <2>2, <2>3, IdleFacts DEF CallRecords, Pcs, PreviewPcs, Deciding, Heard
  <2>5. CallOK(k)'
    BY <2>3, <2>4 DEF CallOK, RowPcs, Waking, Granted, PreviewPcs, Deciding
  <2> QED
    BY <1>1, <1>2, <2>1, <2>2, <2>4, <2>5, CallStarts, QuietStep
<1> QED
  BY <1>3, <1>4, <1>5, <1>6

LEMMA LookOK ==
  ASSUME IInv, NEW c \in Calls,
         LookUp(c) \/ WaitEnds(c) \/ Reverify(c) \/ ResolveDecision(c)
  PROVE  IInv'
<1>1. UNCHANGED <<row, saved, shown, arbiter, gate, said, authorized>>
  BY DEF LookUp, WaitEnds, Reverify, ResolveDecision
<1>2. Grows
  BY <1>1, QuietGrows
<1>3. CallOK(call[c])
  BY DEF IInv, CallsOK
<1>4. CASE call' = Done(call, c)
  BY <1>1, <1>2, <1>4, CallFinishes, QuietStep
<1>5. CASE LookUp(c) /\ call' = Goto(call, c, "align")
  <2>1. call[c].pc = "lookup" /\ row[call[c].id].published
    BY <1>5 DEF LookUp, Current, Goto, Done, IInv, Typed, IdleCall, CallRecords
  <2>2. \A k \in CallRecords : /\ k.pc = "align" /\ k.id = call[c].id /\ k.win = call[c].win
                               /\ k.decision = call[c].decision
                               => CallOK(k)'
    BY <1>1, <1>3, <2>1 DEF CallOK, RowPcs, Waking, Granted, PreviewPcs, Deciding
  <2>3. "align" \in Pcs
    BY DEF Pcs, RowPcs, Waking
  <2> QED
    BY <1>1, <1>2, <1>5, <2>1, <2>2, <2>3, CallSteps, QuietStep
<1>6. ASSUME Reverify(c), NEW pc \in {"apply", "replace"}, call' = Goto(call, c, pc)
      PROVE  IInv'
  <2>1. call[c].pc = "reverify"
    BY <1>6 DEF Reverify
  <2>2. \A k \in CallRecords : /\ k.pc = pc /\ k.id = call[c].id /\ k.win = call[c].win
                               /\ k.decision = call[c].decision
                               => CallOK(k)'
    BY <1>1, <1>3, <2>1 DEF CallOK, RowPcs, Waking, Granted, PreviewPcs, Deciding
  <2>3. pc \in Pcs
    BY DEF Pcs, RowPcs, Granted
  <2> QED
    BY <1>1, <1>2, <1>6, <2>1, <2>2, <2>3, CallSteps, QuietStep
<1> QED
  BY <1>4, <1>5, <1>6 DEF LookUp, WaitEnds, Reverify, ResolveDecision

LEMMA ExpiresOK == ASSUME IInv, NEW r \in Rows, ProposalExpires(r) PROVE IInv'
<1>1. row \in [Rows -> RowRecords] /\ row[r].status = "open"
  BY DEF IInv, Typed, ProposalExpires, Live, Open
<1>2. PICK n : n = [row[r] EXCEPT !.live = FALSE]
  OBVIOUS
<1>3. n \in RowRecords /\ n.root = row[r].root /\ n.status = "open" /\ n.published = row[r].published
  BY <1>1, <1>2 DEF RowRecords
<1>4. row' = [row EXCEPT ![r] = n]
  BY <1>2 DEF ProposalExpires
<1>5. row' \in [Rows -> RowRecords]
  BY <1>1, <1>3, <1>4
<1>6. \A x \in Rows : Ages(row[x], row'[x]) /\ row'[x].published = row[x].published
  BY <1>1, <1>3, <1>4 DEF Ages
<1>7. UNCHANGED <<saved, shown, arbiter, gate, call, said, authorized>>
  BY DEF ProposalExpires
<1>8. Grows
  BY <1>6, <1>7 DEF Grows
<1>9. RowsOK'
  BY <1>5, <1>6, <1>7, RowsAge DEF IInv, RowsOK
<1>10. CallsOK'
  BY <1>7, <1>8, WokenAre, CallsWoken DEF IInv
<1> QED
  BY <1>5, <1>7, <1>8, <1>9, <1>10, RowStep DEF IInv, Typed

LEMMA CleanupOK == ASSUME IInv, NEW c \in Calls, Cleanup(c) PROVE IInv'
<1>1. row \in [Rows -> RowRecords]
  BY DEF IInv, Typed
<1>2. ASSUME NEW x \in Rows
      PROVE  /\ row'[x] \in RowRecords /\ Ages(row[x], row'[x])
             /\ row'[x].published = row[x].published
  <2>1. PICK o \in RowRecords : o = row[x]
    BY <1>1
  <2>2. PICK n : n = [o EXCEPT !.status = "superseded"]
    OBVIOUS
  <2>3. /\ n \in RowRecords /\ n.root = o.root /\ n.status = "superseded"
        /\ n.published = o.published
    BY <2>2 DEF RowRecords
  <2>4. row'[x] = o \/ (o.status = "open" /\ row'[x] = n)
    BY <2>1, <2>2 DEF Cleanup, Open
  <2> QED
    BY <2>1, <2>3, <2>4 DEF Ages
<1>3. row' \in [Rows -> RowRecords]
  BY <1>2 DEF Cleanup
<1>4. UNCHANGED <<saved, shown, arbiter, gate, said, authorized>>
  BY DEF Cleanup
<1>5. Grows
  BY <1>2, <1>4 DEF Grows
<1>6. RowsOK'
  BY <1>2, <1>3, <1>4, RowsAge DEF IInv, RowsOK
<1>7. call' \in [Calls -> CallRecords] /\ CallsOK'
  <2>1. \A k \in CallRecords : k.pc = "insert" => CallOK(k)'
    BY DEF CallOK, RowPcs, Waking, Granted, PreviewPcs, Deciding
  <2>2. "insert" \in Pcs /\ call[c].pc = "cleanup" /\ call' = Goto(call, c, "insert")
    BY DEF Pcs, Cleanup
  <2> QED
    BY <1>5, <2>1, <2>2, CallSteps
<1> QED
  BY <1>3, <1>4, <1>5, <1>6, <1>7, RowStep DEF IInv, Typed

LEMMA PublishOK == ASSUME IInv, NEW c \in Calls, Publish(c) PROVE IInv'
<1>1. UNCHANGED <<row, saved, arbiter, gate, said, authorized>> /\ call[c].pc = "publish"
  BY DEF Publish
<1>2. call[c].id \in Rows
  BY <1>1 DEF IInv, CallsOK, CallOK, RowPcs
<1>3. shown' \subseteq Rows /\ shown \subseteq shown'
  BY <1>2 DEF Publish, IInv, Typed
<1>4. Grows
  BY <1>1, <1>3 DEF Grows
<1>5. RowsOK'
  BY <1>1, <1>4, RowsStay
<1>6. call' \in [Calls -> CallRecords] /\ CallsOK'
  <2>1. CASE call' = Done(call, c)
    BY <1>4, <2>1, CallFinishes
  <2>2. CASE shown' = shown \cup {call[c].id} /\ call' = Goto(call, c, "mark")
    <3>1. \A k \in CallRecords : k.pc = "mark" /\ k.id = call[c].id => CallOK(k)'
      BY <1>2, <2>2 DEF CallOK, RowPcs, Waking, Granted, PreviewPcs, Deciding
    <3>2. "mark" \in Pcs
      BY DEF Pcs, RowPcs
    <3> QED
      BY <1>1, <1>4, <2>2, <3>1, <3>2, CallSteps
  <2> QED
    BY <2>1, <2>2 DEF Publish
<1> QED
  BY <1>1, <1>3, <1>4, <1>5, <1>6, RowStep DEF IInv, Typed

LEMMA MarkOK == ASSUME IInv, NEW c \in Calls, MarkPublished(c) PROVE IInv'
<1>1. UNCHANGED <<saved, shown, arbiter, gate, said, authorized>> /\ call[c].pc = "mark"
  BY DEF MarkPublished
<1>2. CASE row' = row /\ call' = Done(call, c)
  BY <1>1, <1>2, QuietGrows, CallFinishes, QuietStep
<1>3. CASE ~(row' = row /\ call' = Done(call, c))
  <2>1. PICK r \in Rows : r = call[c].id /\ r \in shown
    BY <1>1 DEF IInv, CallsOK, CallOK, RowPcs
  <2>2. row \in [Rows -> RowRecords] /\ row[r].status = "open"
    BY <1>3, <2>1 DEF MarkPublished, Stamped, Live, Open, IInv, Typed
  <2>3. PICK n : n = [row[r] EXCEPT !.published = TRUE]
    OBVIOUS
  <2>4. n \in RowRecords /\ n.root = row[r].root /\ n.status = "open" /\ n.published
    BY <2>2, <2>3 DEF RowRecords
  <2>5. row' = [row EXCEPT ![r] = n]
    BY <1>3, <2>1, <2>3 DEF MarkPublished
  <2>6. row' \in [Rows -> RowRecords]
    BY <2>2, <2>4, <2>5
  <2>7. \A x \in Rows : /\ Ages(row[x], row'[x])
                        /\ row'[x].published <=> (x = r \/ row[x].published)
    BY <2>2, <2>4, <2>5 DEF Ages
  <2>8. Grows
    BY <1>1, <2>7 DEF Grows
  <2>9. RowsOK'
    BY <1>1, <2>1, <2>6, <2>7, RowsAge DEF IInv, RowsOK
  <2>10. call' \in [Calls -> CallRecords] /\ CallsOK'
    <3>1. CASE call' = Done(call, c)
      BY <2>8, <3>1, CallFinishes
    <3>2. CASE call' = Goto(call, c, "open")
      <4>1. \A k \in CallRecords : k.pc = "open" /\ k.id = call[c].id => CallOK(k)'
        BY <2>1, <2>7 DEF CallOK, RowPcs, Waking, Granted, PreviewPcs, Deciding
      <4>2. "open" \in Pcs
        BY DEF Pcs, RowPcs
      <4> QED
        BY <1>1, <2>8, <3>2, <4>1, <4>2, CallSteps
    <3> QED
      BY <1>3, <3>1, <3>2 DEF MarkPublished
  <2> QED
    BY <1>1, <2>6, <2>8, <2>9, <2>10, RowStep DEF IInv, Typed
<1> QED
  BY <1>2, <1>3

LEMMA PasteOK == ASSUME IInv, NEW c \in Calls, Paste(c) PROVE IInv'
<1>1. PICK r \in Rows, q \in NextRow :
        /\ Live(r) /\ row' = Replaced(r, q, FALSE)
        /\ Start(c, [IdleCall EXCEPT !.pc = "publish", !.op = "paste", !.id = q])
  BY DEF Paste
<1>2. UNCHANGED <<saved, shown, arbiter, gate, said, authorized>>
  BY DEF Paste
<1>3. row' \in [Rows -> RowRecords] /\ RowsOK' /\ Grows
  BY <1>1, <1>2, ReplacedOK DEF Live, Open
<1>4. PICK k : k = [IdleCall EXCEPT !.pc = "publish", !.op = "paste", !.id = q]
  OBVIOUS
<1>5. q \in Rows /\ q \in Nat
  BY DEF NextRow, Rows
<1>6. k \in CallRecords /\ k.pc = "publish" /\ k.id = q
  BY <1>4, <1>5, IdleFacts DEF CallRecords, Pcs, RowPcs
<1>7. CallOK(k)'
  BY <1>5, <1>6 DEF CallOK, RowPcs, Waking, Granted, PreviewPcs, Deciding
<1>8. call' \in [Calls -> CallRecords] /\ CallsOK'
  BY <1>1, <1>3, <1>4, <1>6, <1>7, CallStarts
<1> QED
  BY <1>2, <1>3, <1>8, RowStep DEF IInv, Typed

LEMMA ReplaceOK == ASSUME IInv, NEW c \in Calls, ReplaceMoved(c) PROVE IInv'
<1>1. UNCHANGED <<saved, shown, arbiter, gate, said, authorized>> /\ call[c].pc = "replace"
  BY DEF ReplaceMoved
<1>2. PICK o \in CallRecords : o = call[c] /\ CallOK(o)
  BY DEF IInv, Typed, CallsOK
<1>3. PICK r \in Rows : r = o.id /\ r = call[c].id
  BY <1>1, <1>2 DEF CallOK, RowPcs, Granted
<1>4. CASE Live(r)
  <2>1. PICK q \in NextRow :
          /\ row' = Replaced(r, q, TRUE)
          /\ call' = [call EXCEPT ![c].pc = "clear", ![c].id = q, ![c].win = Contact(r)]
    BY <1>3, <1>4 DEF ReplaceMoved
  <2>2. row' \in [Rows -> RowRecords] /\ RowsOK' /\ Grows
    BY <1>1, <1>4, <2>1, ReplacedOK DEF Live, Open
  <2>3. PICK w \in Windows : w = Contact(r)
    BY ActionFacts DEF Windows
  <2>4. PICK k : k = [o EXCEPT !.pc = "clear", !.id = q, !.win = w]
    OBVIOUS
  <2>5. q \in Rows /\ q \in Nat
    BY DEF NextRow, Rows
  <2>6. k \in CallRecords /\ k.pc = "clear" /\ k.id = q
    BY <2>4, <2>5 DEF CallRecords, Pcs, RowPcs
  <2>7. CallOK(k)'
    BY <2>5, <2>6 DEF CallOK, RowPcs, Waking, Granted, PreviewPcs, Deciding
  <2>8. call' = [call EXCEPT ![c] = k]
    BY <1>2, <2>1, <2>3, <2>4
  <2>9. call' \in [Calls -> CallRecords] /\ CallsOK'
    BY <2>2, <2>6, <2>7, <2>8, WokenAre, CallMoves DEF IInv
  <2> QED
    BY <1>1, <2>2, <2>9, RowStep DEF IInv, Typed
<1>5. CASE row' = row /\ call' = Goto(call, c, "apply")
  <2>1. \A k \in CallRecords : k.pc = "apply" /\ k.id = call[c].id => CallOK(k)'
    BY <1>1, <1>2, <1>3, <1>5 DEF CallOK, RowPcs, Waking, Granted, PreviewPcs, Deciding
  <2>2. "apply" \in Pcs
    BY DEF Pcs, RowPcs, Granted
  <2> QED
    BY <1>1, <1>5, <2>1, <2>2, QuietGrows, CallSteps, QuietStep
<1> QED
  BY <1>3, <1>4, <1>5 DEF ReplaceMoved

LEMMA InsertOK == ASSUME IInv, NEW c \in Calls, InsertProposal(c) PROVE IInv'
<1>1. UNCHANGED <<saved, shown, arbiter, gate, said, authorized>> /\ call[c].pc = "insert"
  BY DEF InsertProposal
<1>2. CASE row' = row /\ call' = Done(call, c)
  BY <1>1, <1>2, QuietGrows, CallFinishes, QuietStep
<1>3. CASE ~(\E r \in Rows : Live(r))
  <2>1. PICK o \in CallRecords : o = call[c]
    BY DEF IInv, Typed
  <2>2. PICK alias \in BOOLEAN : alias = o.alias
    BY DEF CallRecords
  <2>3. PICK r \in NextRow :
          /\ row' = [DeadExpired EXCEPT ![r] = [status |-> "open", live |-> TRUE,
                        published |-> FALSE, alias |-> alias, root |-> r]]
          /\ call' = [call EXCEPT ![c].pc = "publish", ![c].id = r]
    BY <1>3, <2>1, <2>2 DEF InsertProposal
  <2>4. PICK n : n = [status |-> "open", live |-> TRUE, published |-> FALSE,
                      alias |-> alias, root |-> r]
    OBVIOUS
  <2>5. r \in Rows /\ row[r].status = "none" /\ row[r] = NoRow /\ r \in Nat /\ r \in 0..MaxRows
    BY DEF NextRow, IInv, RowsOK, Rows
  <2>6. n \in RowRecords /\ n.status = "open" /\ ~n.published /\ n.root = r
    BY <2>4, <2>5 DEF RowRecords
  <2>7. ASSUME NEW x \in Rows
        PROVE  /\ DeadExpired[x] \in RowRecords /\ Ages(row[x], DeadExpired[x])
               /\ DeadExpired[x].published = row[x].published
               /\ DeadExpired[x].status # "open"
    <3>1. PICK old \in RowRecords : old = row[x]
      BY DEF IInv, Typed
    <3>2. PICK gone : gone = [old EXCEPT !.status = "expired"]
      OBVIOUS
    <3>3. /\ gone \in RowRecords /\ gone.root = old.root /\ gone.status = "expired"
          /\ gone.published = old.published
      BY <3>2 DEF RowRecords
    <3>4. DeadExpired[x] = IF old.status = "open" THEN gone ELSE old
      BY <1>3, <3>1, <3>2 DEF DeadExpired, Live, Open
    <3> QED
      BY <3>1, <3>3, <3>4 DEF Ages
  <2>8. DeadExpired \in [Rows -> RowRecords]
    BY <2>7 DEF DeadExpired
  <2>9. row' = [DeadExpired EXCEPT ![r] = n]
    BY <2>3, <2>4
  <2>10. row' \in [Rows -> RowRecords]
    BY <2>6, <2>8, <2>9
  <2>11. \A x \in Rows : row'[x] = IF x = r THEN n ELSE DeadExpired[x]
    BY <2>8, <2>9
  <2>12. \A x \in Rows : row[x].root # r
    BY <2>5 DEF IInv, RowsOK, NoRow, Rows
  <2>13. \A x \in Rows \ {r} : row'[x].root # n.root
    BY <2>6, <2>7, <2>11, <2>12 DEF Ages
  <2>14. \A x \in Rows \ {r} : Ages(row[x], row'[x]) /\ (row'[x].published => row[x].published)
    BY <2>7, <2>11
  <2>15. RowsOK'
    BY <1>1, <2>5, <2>6, <2>10, <2>11, <2>13, <2>14, RowAdded
  <2>16. Grows
    BY <1>1, <2>5, <2>7, <2>11 DEF Grows, NoRow
  <2>17. PICK k : k = [o EXCEPT !.pc = "publish", !.id = r]
    OBVIOUS
  <2>18. k \in CallRecords /\ k.pc = "publish" /\ k.id = r
    BY <2>5, <2>17 DEF CallRecords, Pcs, RowPcs
  <2>19. CallOK(k)'
    BY <2>5, <2>18 DEF CallOK, RowPcs, Waking, Granted, PreviewPcs, Deciding
  <2>20. call' = [call EXCEPT ![c] = k]
    BY <2>1, <2>3, <2>17
  <2>21. call' \in [Calls -> CallRecords] /\ CallsOK'
    BY <2>16, <2>18, <2>19, <2>20, WokenAre, CallMoves DEF IInv
  <2> QED
    BY <1>1, <2>10, <2>15, <2>16, <2>21, RowStep DEF IInv, Typed
<1> QED
  BY <1>2, <1>3 DEF InsertProposal

LEMMA ApplyOK == ASSUME IInv, NEW c \in Calls, Apply(c) PROVE IInv'
<1>1. UNCHANGED <<shown, arbiter, gate, said, authorized>> /\ call[c].pc = "apply"
  BY DEF Apply
<1>2. CASE call' = Done(call, c) /\ UNCHANGED <<row, saved>>
  BY <1>1, <1>2, QuietGrows, CallFinishes, QuietStep
<1>3. CASE ~(call' = Done(call, c) /\ UNCHANGED <<row, saved>>)
  <2>1. PICK r \in Rows : r = call[c].id /\ row[r].published /\ authorized[Contact(r)] > 0
    BY <1>1 DEF IInv, CallsOK, CallOK, RowPcs, Granted
  <2>2. /\ row \in [Rows -> RowRecords] /\ row[r].status = "open"
        /\ saved' = [saved EXCEPT ![r] = @ + 1] /\ saved \in [Rows -> Nat]
    BY <1>3, <2>1 DEF Apply, Consumable, Live, Open, IInv, Typed
  <2>3. PICK n : n = [row[r] EXCEPT !.status = "consumed"]
    OBVIOUS
  <2>4. /\ n \in RowRecords /\ n.root = row[r].root /\ n.status = "consumed"
        /\ n.published = row[r].published
    BY <2>2, <2>3 DEF RowRecords
  <2>5. row' = [row EXCEPT ![r] = n]
    BY <1>3, <2>1, <2>3 DEF Apply
  <2>6. row' \in [Rows -> RowRecords] /\ saved' \in [Rows -> Nat]
    BY <2>2, <2>4, <2>5
  <2>7. \A x \in Rows : row'[x] = IF x = r THEN n ELSE row[x]
    BY <2>2, <2>5
  <2>8. Grows
    BY <1>1, <2>4, <2>7 DEF Grows
  <2>9. \A x \in Rows : Counts(x)' <=> Counts(x)
    BY <2>2, <2>4, <2>7 DEF Counts
  <2>10. \A x \in Rows : /\ row'[x].root = row[x].root
                         /\ row'[x].status = "none" <=> row[x].status = "none"
                         /\ row'[x].published <=> row[x].published
    BY <2>2, <2>4, <2>7
  <2>11. saved[r] = 0
    BY <2>2 DEF IInv, RowsOK
  <2>12. saved' = [saved EXCEPT ![r] = 1]
    BY <2>2, <2>11
  <2>13. \A x \in Rows : saved'[x] = IF row'[x].status = "consumed" THEN 1 ELSE 0
    BY <2>2, <2>4, <2>7, <2>12 DEF IInv, RowsOK
  <2>14. r \in shown
    BY <2>1 DEF IInv, RowsOK
  <2>15. \A x \in Rows : row'[x].status = "consumed" => x \in shown' /\ authorized'[Contact(x)] > 0
    BY <1>1, <2>1, <2>7, <2>14 DEF IInv, RowsOK
  <2>16. \A x \in Rows : row'[x].status = "none" => row'[x] = NoRow
    BY <2>4, <2>7 DEF IInv, RowsOK
  <2>17. RowsOK'
    BY <1>1, <2>9, <2>10, <2>13, <2>15, <2>16 DEF IInv, RowsOK
  <2>18. call' \in [Calls -> CallRecords] /\ CallsOK'
    <3>1. \A k \in CallRecords : k.pc = "applied" /\ k.id = call[c].id => CallOK(k)'
      BY <2>1 DEF CallOK, RowPcs, Waking, Granted, PreviewPcs, Deciding
    <3>2. "applied" \in Pcs /\ call' = Goto(call, c, "applied")
      BY <1>3 DEF Pcs, RowPcs, Apply
    <3> QED
      BY <1>1, <2>8, <3>1, <3>2, CallSteps
  <2> QED
    BY <1>1, <2>6, <2>8, <2>17, <2>18, RowStep DEF IInv, Typed
<1> QED
  BY <1>2, <1>3

-----------------------------------------------------------------------------
(* Steps that touch the window                                             *)

LEMMA WindowStep ==
  ASSUME IInv, Grows, UNCHANGED <<row, saved, shown>>, arbiter' \in ArbiterRecords,
         gate' \in GateRecords, said' \in [Actions -> Heard], authorized' \in [Actions -> Nat],
         call' \in [Calls -> CallRecords], CallsOK', WindowOK'
  PROVE  IInv'
BY RowsStay DEF IInv, Typed

LEMMA GateTypes ==
  ASSUME gate \in GateRecords, NEW p \in Previews
  PROVE  GateCleared(p) \in GateRecords /\ Prepared(p) \in GateRecords
<1>1. PICK g : g = [gate EXCEPT !.id = 0, !.evidence = "none"]
  OBVIOUS
<1>2. 0 \in 0..MaxPreviews /\ p \in 0..MaxPreviews
  BY VoiceAssumption DEF Previews
<1>3. g \in GateRecords
  BY <1>1, <1>2 DEF GateRecords, Heard
<1>4. GateCleared(p) \in GateRecords
  BY <1>1, <1>3 DEF GateCleared
<1>5. PICK n : n = IF gate.consumed = p THEN p ELSE 0
  OBVIOUS
<1>6. [id |-> p, evidence |-> "none", consumed |-> n] \in GateRecords
  BY <1>2, <1>5 DEF GateRecords, Heard
<1> QED
  BY <1>4, <1>5, <1>6 DEF Prepared

\* A window that closes takes the gate's copy with it, or the gate has none.
LEMMA ClearedOK ==
  ASSUME IInv, NEW act, arbiter' = Cleared(arbiter, act), UNCHANGED <<row, shown, said>>,
         gate' = gate \/ \E p \in Previews : act = Transfer(p) /\ gate' = GateCleared(p)
  PROVE  arbiter' \in ArbiterRecords /\ gate' \in GateRecords /\ WindowOK'
<1>1. arbiter \in ArbiterRecords /\ gate \in GateRecords /\ WindowOK
  BY DEF IInv, Typed
<1>2. CASE arbiter.win = act
  <2>1. PICK a : a = [arbiter EXCEPT !.win = NoAction, !.fresh = FALSE, !.evidence = "none",
                                     !.stale = FALSE]
    OBVIOUS
  <2>2. a \in ArbiterRecords /\ a.win = NoAction /\ a.evidence = "none"
    BY <1>1, <2>1 DEF ArbiterRecords, Windows, Heard
  <2>3. arbiter' = a
    BY <1>2, <2>1 DEF Cleared
  <2>4. gate' \in GateRecords
    BY <1>1, GateTypes
  <2> QED
    BY <2>2, <2>3, <2>4, ActionFacts DEF WindowOK, WindowHasCard
<1>3. CASE arbiter.win # act
  <2>1. arbiter' = arbiter
    BY <1>3 DEF Cleared
  <2>2. arbiter.win \in Windows
    BY <1>1 DEF ArbiterRecords
  <2>3. ASSUME arbiter.win.kind = "transfer" PROVE gate' = gate
    BY <1>1, <1>3, <2>2, <2>3, ActionFacts DEF WindowOK, GateCleared
  <2>4. gate' \in GateRecords
    BY <1>1, GateTypes
  <2> QED
    BY <1>1, <2>1, <2>3, <2>4 DEF WindowOK, WindowHasCard
<1> QED
  BY <1>2, <1>3

\* A window opens over a card that was shown, or with the gate prepared for it.
LEMMA OpenedOK ==
  ASSUME IInv, NEW act \in Actions, arbiter' = Opened(arbiter, act),
         said' = Forget(Opened(arbiter, act)), UNCHANGED <<row, shown>>,
         \/ act.kind = "contact" /\ row[act.id].published /\ gate' = gate
         \/ act.kind = "transfer" /\ gate' = Prepared(act.id)
  PROVE  /\ arbiter' \in ArbiterRecords /\ gate' \in GateRecords
         /\ said' \in [Actions -> Heard] /\ WindowOK'
<1>1. gate \in GateRecords /\ said \in [Actions -> Heard]
  BY DEF IInv, Typed
<1>2. PICK a : a = Opened(arbiter, act)
  OBVIOUS
<1>3. /\ a \in ArbiterRecords /\ a.win = act /\ a.evidence = "none" /\ a.consumed = NoAction
  BY <1>2 DEF Opened, ArbiterRecords, Windows, Heard
<1>4. said' \in [Actions -> Heard]
  BY <1>1, <1>2, <1>3 DEF Forget, Heard
<1>5. act.kind = "contact" => act.id \in Rows
  BY ActionFacts DEF Windows
<1>6. act.kind = "transfer" => act.id \in Previews
  BY ActionFacts DEF Windows
<1>7. gate' \in GateRecords
  BY <1>1, <1>6, GateTypes
<1>8. act.kind = "transfer" => gate'.id = act.id /\ gate'.evidence = "none"
  BY DEF Prepared
<1>9. act.kind = "contact" => act.id \in shown /\ row[act.id].published
  BY <1>5 DEF IInv, RowsOK
<1> QED
  BY <1>2, <1>3, <1>4, <1>7, <1>8, <1>9 DEF WindowOK, WindowHasCard

LEMMA AlignedIs ==
  ASSUME Typed, NEW w, NEW act
  PROVE  Aligned(w, act) \in {arbiter, Opened(arbiter, act)}
<1>1. PICK a : a = Cleared(arbiter, w)
  OBVIOUS
<1>2. a = arbiter \/ a.win = NoAction
  BY <1>1 DEF Cleared, Typed, ArbiterRecords
<1>3. TryOpen(a, act) = IF Opens(a, act) THEN Opened(arbiter, act) ELSE a
  BY DEF TryOpen, Opened
<1>4. TryOpen(arbiter, act) \in {arbiter, Opened(arbiter, act)}
  BY DEF TryOpen
<1>5. TryOpen(a, act) \in {arbiter, Opened(arbiter, act)}
  BY <1>2, <1>3 DEF Opens
<1> QED
  BY <1>1, <1>4, <1>5 DEF Aligned

LEMMA OpenWindowOK == ASSUME IInv, NEW c \in Calls, OpenWindow(c) PROVE IInv'
<1>1. /\ UNCHANGED <<row, saved, shown, gate, authorized>> /\ call[c].pc = "open"
  BY DEF OpenWindow
<1>2. Grows
  BY <1>1, QuietGrows
<1>3. PICK r \in Rows : r = call[c].id /\ row[r].published
  BY <1>1 DEF IInv, CallsOK, CallOK, RowPcs
<1>4. call' \in [Calls -> CallRecords] /\ CallsOK'
  <2>1. Awoken(WakeArbiter(call, TryOpen(arbiter, Contact(call[c].id))))
    BY WokenAre DEF IInv
  <2> QED
    BY <1>2, <2>1, CallEnds DEF OpenWindow
<1>5. /\ arbiter' \in ArbiterRecords /\ gate' \in GateRecords
      /\ said' \in [Actions -> Heard] /\ WindowOK'
  <2>1. CASE Opens(arbiter, Contact(r))
    <3>1. arbiter' = Opened(arbiter, Contact(r)) /\ said' = Forget(Opened(arbiter, Contact(r)))
      BY <1>3, <2>1 DEF OpenWindow, TryOpen
    <3> QED
      BY <1>1, <1>3, <3>1, ActionFacts, OpenedOK
  <2>2. CASE ~Opens(arbiter, Contact(r))
    <3>1. arbiter' = arbiter /\ said' = said
      BY <1>3, <2>2 DEF OpenWindow, TryOpen, Forget
    <3> QED
      BY <1>1, <1>2, <3>1, WindowStays DEF IInv, Typed
  <2> QED
    BY <2>1, <2>2
<1>6. authorized' \in [Actions -> Nat]
  BY <1>1 DEF IInv, Typed
<1> QED
  BY <1>1, <1>2, <1>4, <1>5, <1>6, WindowStep

LEMMA ClearOK == ASSUME IInv, NEW c \in Calls, ClearMoved(c) \/ Applied(c) PROVE IInv'
<1>1. /\ UNCHANGED <<row, saved, shown, gate, said, authorized>>
      /\ call[c].pc \in {"clear", "applied"}
  BY DEF ClearMoved, Applied
<1>2. Grows
  BY <1>1, QuietGrows
<1>3. \E act : arbiter' = Cleared(arbiter, act)
  BY DEF ClearMoved, Applied
<1>4. arbiter' \in ArbiterRecords /\ gate' \in GateRecords /\ WindowOK'
  BY <1>1, <1>3, ClearedOK
<1>5. call' \in [Calls -> CallRecords] /\ CallsOK'
  <2>1. CASE Applied(c)
    <3>1. Awoken(WakeArbiter(call, Cleared(arbiter, Contact(call[c].id))))
      BY WokenAre DEF IInv
    <3> QED
      BY <1>2, <2>1, <3>1, CallEnds DEF Applied
  <2>2. CASE ClearMoved(c)
    <3>1. PICK cs : cs = WakeArbiter(call, Cleared(arbiter, call[c].win))
      OBVIOUS
    <3>2. Awoken(cs)
      BY <3>1, WokenAre DEF IInv
    <3>3. "publish" \in Pcs /\ call[c].pc = "clear" /\ call' = Goto(cs, c, "publish")
      BY <2>2, <3>1 DEF Pcs, RowPcs, ClearMoved
    <3>4. PICK k \in CallRecords :
               call' = [cs EXCEPT ![c] = k] /\ k.pc = "publish" /\ k.id = call[c].id
      BY <3>2, <3>3, CallGoes
    <3>5. call[c].id \in Rows
      BY <3>3 DEF IInv, CallsOK, CallOK, RowPcs
    <3>6. CallOK(k)'
      BY <3>4, <3>5 DEF CallOK, RowPcs, Waking, Granted, PreviewPcs, Deciding
    <3> QED
      BY <1>2, <3>2, <3>4, <3>6, CallMoves
  <2> QED
    BY <2>1, <2>2
<1>6. said' \in [Actions -> Heard] /\ authorized' \in [Actions -> Nat]
  BY <1>1 DEF IInv, Typed
<1> QED
  BY <1>1, <1>2, <1>4, <1>5, <1>6, WindowStep

-----------------------------------------------------------------------------
(* What is heard, and what it decides                                      *)

\* The action DecidedBySpeech asks of every step.
Spoken ==
  \A a \in Actions : authorized'[a] # authorized[a] =>
    \E c \in Calls :
      /\ call'[c].pc \in {"reverify", "resolve"} /\ call'[c] # call[c]
      /\ said[a] = call[c].decision /\ said'[a] = "none"

\* An answer is used up: the window, what was said to it and the count move together.
LEMMA Decides ==
  ASSUME Typed, NEW act \in Actions, NEW c \in Calls, said[act] = call[c].decision,
         call'[c].pc \in {"reverify", "resolve"}, call'[c] # call[c],
         authorized' = [authorized EXCEPT ![act] = @ + 1],
         said' = [said EXCEPT ![act] = "none"]
  PROVE  /\ authorized' \in [Actions -> Nat] /\ said' \in [Actions -> Heard]
         /\ \A x \in Actions : authorized[x] > 0 => authorized'[x] > 0
         /\ authorized'[act] > 0 /\ Spoken
<1>1. authorized \in [Actions -> Nat] /\ said \in [Actions -> Heard]
  BY DEF Typed
<1>2. PICK n \in Nat : n = authorized[act] + 1 /\ n > 0
  BY <1>1
<1>3. authorized' = [authorized EXCEPT ![act] = n]
  BY <1>1, <1>2
<1>4. \A x \in Actions : authorized'[x] = IF x = act THEN n ELSE authorized[x]
  BY <1>1, <1>3
<1>5. authorized' \in [Actions -> Nat]
  BY <1>1, <1>3
<1>6. said' \in [Actions -> Heard] /\ said'[act] = "none"
  BY <1>1 DEF Heard
<1>7. Spoken
  BY <1>4, <1>6 DEF Spoken
<1> QED
  BY <1>2, <1>4, <1>5, <1>6, <1>7

\* A confirmation uses the answer in the window of its own version, which was
\* open before the call looked at it.
LEMMA ConsumeUses ==
  ASSUME IInv, NEW c \in Calls, NEW r \in Rows, r = call[c].id, row[r].published,
         call[c].pc \in {"align", "woken"}, UNCHANGED <<row, saved, shown, gate>>,
         NEW a \in {arbiter, Opened(arbiter, Contact(r))}, NEW canWait \in BOOLEAN,
         Consumes(a, Contact(r), "confirm"), Consume(c, a, Contact(r), canWait)
  PROVE  IInv' /\ Spoken
<1>1. PICK act \in Actions : act = Contact(r) /\ act.kind = "contact" /\ act.id = r
  BY ActionFacts
<1>2. a = arbiter /\ arbiter.win = act /\ arbiter.evidence = "confirm"
  BY <1>1 DEF Consumes, Same, Opened
<1>3. call[c].decision = "confirm" /\ said[act] = "confirm"
  BY <1>2 DEF IInv, CallsOK, CallOK, Waking, WindowOK
<1>4. PICK cs : cs = WakeArbiter(call, arbiter')
  OBVIOUS
<1>5. Awoken(cs)
  BY <1>4, WokenAre DEF IInv
<1>6. /\ arbiter' = Consumed(arbiter, act) /\ call' = Goto(cs, c, "reverify")
      /\ authorized' = [authorized EXCEPT ![act] = @ + 1]
      /\ said' = [said EXCEPT ![act] = "none"]
  BY <1>1, <1>2, <1>4 DEF Consume
<1>7. PICK k \in CallRecords :
           call' = [cs EXCEPT ![c] = k] /\ k.pc = "reverify" /\ k.id = r
  <2>1. "reverify" \in Pcs
    BY DEF Pcs, RowPcs, Granted
  <2> QED
    BY <1>5, <1>6, <2>1, CallGoes
<1>8. call'[c] = k /\ k # call[c]
  BY <1>5, <1>7 DEF Awoken
<1>9. /\ authorized' \in [Actions -> Nat] /\ said' \in [Actions -> Heard]
      /\ \A x \in Actions : authorized[x] > 0 => authorized'[x] > 0
      /\ authorized'[act] > 0 /\ Spoken
  BY <1>3, <1>6, <1>7, <1>8, Decides DEF IInv
<1>10. Grows
  BY <1>9 DEF Grows
<1>11. CallOK(k)'
  BY <1>1, <1>7, <1>9 DEF CallOK, RowPcs, Waking, Granted, PreviewPcs, Deciding
<1>12. call' \in [Calls -> CallRecords] /\ CallsOK'
  BY <1>5, <1>7, <1>10, <1>11, CallMoves
<1>13. PICK w : w = [arbiter EXCEPT !.consumed = act, !.evidence = "none", !.stale = FALSE]
  OBVIOUS
<1>14. w \in ArbiterRecords /\ w.win = act /\ w.evidence = "none"
  BY <1>2, <1>13 DEF IInv, Typed, ArbiterRecords, Windows, Heard
<1>15. arbiter' = w
  BY <1>6, <1>13 DEF Consumed
<1>16. r \in shown
  BY DEF IInv, RowsOK
<1>17. WindowOK'
  BY <1>1, <1>14, <1>15, <1>16 DEF WindowOK, WindowHasCard
<1>18. gate' \in GateRecords
  BY DEF IInv, Typed
<1> QED
  BY <1>9, <1>10, <1>12, <1>14, <1>15, <1>17, <1>18, WindowStep

\* Without the answer the call waits or ends, and the window may have opened.
LEMMA ConsumeRefuses ==
  ASSUME IInv, NEW c \in Calls, NEW r \in Rows, r = call[c].id, row[r].published,
         call[c].pc \in {"align", "woken"}, UNCHANGED <<row, saved, shown, gate>>,
         NEW a \in {arbiter, Opened(arbiter, Contact(r))}, NEW canWait \in BOOLEAN,
         ~Consumes(a, Contact(r), "confirm"), Consume(c, a, Contact(r), canWait)
  PROVE  IInv' /\ UNCHANGED authorized
<1>1. PICK act \in Actions : act = Contact(r) /\ act.kind = "contact" /\ act.id = r
  BY ActionFacts
<1>2. PICK cs : cs = WakeArbiter(call, arbiter')
  OBVIOUS
<1>3. Awoken(cs)
  BY <1>2, WokenAre DEF IInv
<1>4. /\ arbiter' = a /\ said' = Forget(a) /\ authorized' = authorized
      /\ call' = Done(cs, c) \/ call' = Goto(cs, c, "wait")
  BY <1>2 DEF Consume
<1>5. Grows
  BY <1>4, QuietGrows
<1>6. call' \in [Calls -> CallRecords] /\ CallsOK'
  <2>1. CASE call' = Done(cs, c)
    BY <1>3, <1>5, <2>1, CallEnds
  <2>2. CASE call' = Goto(cs, c, "wait")
    <3>1. "wait" \in Pcs
      BY DEF Pcs, RowPcs, Waking
    <3>2. PICK k \in CallRecords :
             /\ call' = [cs EXCEPT ![c] = k]
             /\ k.pc = "wait" /\ k.id = call[c].id /\ k.win = call[c].win
             /\ k.decision = call[c].decision
      BY <1>3, <2>2, <3>1, CallGoes
    <3>3. CallOK(call[c])
      BY DEF IInv, CallsOK
    <3>4. CallOK(k)'
      BY <3>2, <3>3 DEF CallOK, RowPcs, Waking, Granted, PreviewPcs, Deciding
    <3> QED
      BY <1>3, <1>5, <3>2, <3>4, CallMoves
  <2> QED
    BY <1>4, <2>1, <2>2
<1>7. /\ arbiter' \in ArbiterRecords /\ gate' \in GateRecords
      /\ said' \in [Actions -> Heard] /\ WindowOK'
  <2>1. CASE a = arbiter
    <3>1. said' = said
      BY <1>4, <2>1 DEF Forget
    <3> QED
      BY <1>4, <1>5, <2>1, <3>1, WindowStays DEF IInv, Typed
  <2>2. CASE a = Opened(arbiter, act)
    BY <1>1, <1>4, <2>2, OpenedOK
  <2> QED
    BY <1>1, <2>1, <2>2
<1>8. authorized' \in [Actions -> Nat]
  BY <1>4 DEF IInv, Typed
<1> QED
  BY <1>4, <1>5, <1>6, <1>7, <1>8, WindowStep

LEMMA ConfirmOK ==
  ASSUME IInv, NEW c \in Calls, Align(c) \/ Awake(c)
  PROVE  IInv' /\ (Spoken \/ UNCHANGED authorized)
<1>1. /\ UNCHANGED <<row, saved, shown, gate>>
      /\ call[c].pc \in {"align", "woken"}
  BY DEF Align, Awake
<1>2. PICK r \in Rows : r = call[c].id /\ row[r].published
  BY <1>1 DEF IInv, CallsOK, CallOK, RowPcs, Waking
<1>3. PICK a \in {arbiter, Opened(arbiter, Contact(r))}, canWait \in BOOLEAN :
           Consume(c, a, Contact(r), canWait)
  <2>1. CASE Awake(c)
    BY <1>2, <2>1 DEF Awake
  <2>2. CASE Align(c)
    <3>1. Aligned(call[c].win, Contact(r)) \in {arbiter, Opened(arbiter, Contact(r))}
      BY AlignedIs DEF IInv
    <3> QED
      BY <1>2, <2>2, <3>1 DEF Align
  <2> QED
    BY <2>1, <2>2
<1> QED
  BY <1>1, <1>2, <1>3, ConsumeUses, ConsumeRefuses

\* The gate is never asked for what the arbiter would give and it would not.
LEMMA ArbiterAgrees ==
  ASSUME IInv, NEW p \in Previews, NEW d \in Decisions, ArbiterAccepts(p, d)
  PROVE  Accepts(p, d)
BY ActionFacts DEF IInv, WindowOK, ArbiterAccepts, Consumes, Same, Accepts, Decisions

LEMMA GateConsumeOK ==
  ASSUME IInv, NEW c \in Calls, AskGate(c) \/ GateAwake(c)
  PROVE  IInv' /\ (Spoken \/ UNCHANGED authorized)
<1>1. UNCHANGED <<row, saved, shown>> /\ call[c].pc \in {"gate", "gateWoken"}
  BY DEF AskGate, GateAwake
<1>2. PICK p \in Previews, d \in Decisions : p = call[c].id /\ d = call[c].decision
  BY <1>1 DEF IInv, CallsOK, CallOK, PreviewPcs, Deciding
<1>3. PICK canWait \in BOOLEAN : GateConsume(c, canWait)
  BY DEF AskGate, GateAwake
<1>4. CASE ~ArbiterAccepts(p, d)
  <2>1. /\ UNCHANGED <<arbiter, gate, authorized, said>>
        /\ call' = Done(call, c) \/ call' = Goto(call, c, "gateWait")
    BY <1>2, <1>3, <1>4 DEF GateConsume, WakeArbiter
  <2>2. Grows
    BY <1>1, <2>1, QuietGrows
  <2>3. CASE call' = Done(call, c)
    BY <1>1, <2>1, <2>2, <2>3, CallFinishes, QuietStep
  <2>4. CASE call' = Goto(call, c, "gateWait")
    <3>1. "gateWait" \in Pcs
      BY DEF Pcs, PreviewPcs, Deciding
    <3>2. \A k \in CallRecords : /\ k.pc = "gateWait" /\ k.id = call[c].id
                                 /\ k.decision = call[c].decision
                                 => CallOK(k)'
      BY <1>2 DEF CallOK, RowPcs, Waking, Granted, PreviewPcs, Deciding
    <3> QED
      BY <1>1, <2>1, <2>2, <2>4, <3>1, <3>2, CallSteps, QuietStep
  <2> QED
    BY <2>1, <2>3, <2>4
<1>5. CASE ArbiterAccepts(p, d)
  <2>1. Accepts(p, d)
    BY <1>5, ArbiterAgrees
  <2>2. PICK act \in Actions : act = Transfer(p) /\ act.kind = "transfer" /\ act.id = p
    BY ActionFacts
  <2>3. arbiter.win = act /\ arbiter.evidence = d /\ said[act] = d
    BY <1>5, <2>2 DEF ArbiterAccepts, Consumes, Same, IInv, WindowOK, Decisions
  <2>4. PICK w : w = Cleared(Consumed(arbiter, act), act)
    OBVIOUS
  <2>5. PICK cs : cs = WakeGate(WakeArbiter(call, w))
    OBVIOUS
  <2>6. Awoken(cs)
    BY <2>5, WokenAre DEF IInv
  <2>7. /\ arbiter' = w /\ gate' = [gate EXCEPT !.evidence = "none", !.consumed = p]
        /\ authorized' = [authorized EXCEPT ![act] = @ + 1]
        /\ said' = [said EXCEPT ![act] = "none"]
        /\ call' = Goto(cs, c, "resolve")
    BY <1>2, <1>3, <1>5, <2>1, <2>2, <2>4, <2>5 DEF GateConsume
  <2>8. PICK k \in CallRecords : call' = [cs EXCEPT ![c] = k] /\ k.pc = "resolve" /\ k.id = p
    <3>1. "resolve" \in Pcs
      BY DEF Pcs, PreviewPcs
    <3> QED
      BY <1>1, <1>2, <2>6, <2>7, <3>1, CallGoes
  <2>9. call'[c] = k /\ k # call[c]
    BY <1>1, <2>6, <2>8 DEF Awoken
  <2>10. /\ authorized' \in [Actions -> Nat] /\ said' \in [Actions -> Heard]
         /\ \A x \in Actions : authorized[x] > 0 => authorized'[x] > 0
         /\ Spoken
    BY <1>2, <2>3, <2>7, <2>8, <2>9, Decides DEF IInv
  <2>11. Grows
    BY <1>1, <2>10 DEF Grows
  <2>12. CallOK(k)'
    BY <2>8 DEF CallOK, RowPcs, Waking, Granted, PreviewPcs, Deciding
  <2>13. call' \in [Calls -> CallRecords] /\ CallsOK'
    BY <2>6, <2>8, <2>11, <2>12, CallMoves
  <2>14. PICK u : u = [arbiter EXCEPT !.consumed = act, !.evidence = "none", !.stale = FALSE]
    OBVIOUS
  <2>15. u \in ArbiterRecords /\ u.win = act /\ u = Consumed(arbiter, act)
    BY <2>3, <2>14 DEF IInv, Typed, ArbiterRecords, Windows, Heard, Consumed
  <2>16. w = [u EXCEPT !.win = NoAction, !.fresh = FALSE, !.evidence = "none", !.stale = FALSE]
    BY <2>4, <2>15 DEF Cleared
  <2>17. w \in ArbiterRecords /\ w.win = NoAction /\ w.evidence = "none"
    BY <2>15, <2>16 DEF ArbiterRecords, Windows, Heard
  <2>18. gate' \in GateRecords
    <3>1. gate \in GateRecords /\ p \in 0..MaxPreviews
      BY DEF IInv, Typed, Previews
    <3> QED
      BY <2>7, <3>1 DEF GateRecords, Heard
  <2>19. WindowOK'
    BY <2>7, <2>17, ActionFacts DEF WindowOK, WindowHasCard
  <2> QED
    BY <1>1, <2>7, <2>10, <2>11, <2>13, <2>17, <2>18, <2>19, WindowStep
<1> QED
  BY <1>4, <1>5

LEMMA ClearPreviewOK ==
  ASSUME IInv, NEW c \in Calls, NEW p \in Previews, ClearPreview(c, p),
         UNCHANGED <<row, saved, shown, said, authorized>>
  PROVE  IInv'
<1>1. Grows
  BY QuietGrows
<1>2. arbiter' \in ArbiterRecords /\ gate' \in GateRecords /\ WindowOK'
  BY ClearedOK DEF ClearPreview
<1>3. PICK woken : woken = WakeArbiter(call, Cleared(arbiter, Transfer(p)))
  OBVIOUS
<1>4. Awoken(woken) /\ Awoken(WakeGate(woken))
  BY <1>3, WokenAre DEF IInv
<1>5. call' = Done(woken, c) \/ call' = Done(WakeGate(woken), c)
  BY <1>3 DEF ClearPreview
<1>6. call' \in [Calls -> CallRecords] /\ CallsOK'
  BY <1>1, <1>4, <1>5, CallEnds
<1>7. said' \in [Actions -> Heard] /\ authorized' \in [Actions -> Nat]
  BY DEF IInv, Typed
<1> QED
  BY <1>1, <1>2, <1>6, <1>7, WindowStep

LEMMA RereadOK == ASSUME IInv, NEW c \in Calls, RereadPreview(c) PROVE IInv'
<1>1. UNCHANGED <<row, saved, shown, said, authorized>> /\ call[c].pc = "reread"
  BY DEF RereadPreview
<1>2. Grows
  BY <1>1, QuietGrows
<1>3. ASSUME NEW p \in Pending, ClearPreview(c, p) PROVE IInv'
  BY <1>1, <1>3, ClearPreviewOK DEF Pending
<1>4. ASSUME NEW p \in Pending, UNCHANGED <<arbiter, gate>>,
             call' = [call EXCEPT ![c].pc = "prepare", ![c].id = p]
      PROVE  IInv'
  <2>1. PICK o \in CallRecords : o = call[c]
    BY DEF IInv, Typed
  <2>2. PICK k : k = [o EXCEPT !.pc = "prepare", !.id = p]
    OBVIOUS
  <2>3. p \in Previews /\ p \in Nat
    BY DEF Pending, Previews
  <2>4. k \in CallRecords /\ k.pc = "prepare" /\ k.id = p
    BY <2>2, <2>3 DEF CallRecords, Pcs, PreviewPcs
  <2>5. CallOK(k)'
    BY <2>3, <2>4 DEF CallOK, RowPcs, Waking, Granted, PreviewPcs, Deciding
  <2>6. call' = [call EXCEPT ![c] = k]
    BY <1>4, <2>1, <2>2
  <2> QED
    BY <1>1, <1>2, <1>4, <2>4, <2>5, <2>6, WokenAre, CallMoves, QuietStep DEF IInv
<1>5. ASSUME call' = Done(call, c), UNCHANGED <<arbiter, gate>> PROVE IInv'
  BY <1>1, <1>2, <1>5, CallFinishes, QuietStep
<1> QED
  BY <1>3, <1>4, <1>5 DEF RereadPreview

LEMMA PrepareOK == ASSUME IInv, NEW c \in Calls, PreparePreview(c) PROVE IInv'
<1>1. UNCHANGED <<row, saved, shown, authorized>> /\ call[c].pc = "prepare"
  BY DEF PreparePreview
<1>2. Grows
  BY <1>1, QuietGrows
<1>3. PICK p \in Previews : p = call[c].id
  BY <1>1 DEF IInv, CallsOK, CallOK, PreviewPcs
<1>4. CASE ClearPreview(c, p) /\ UNCHANGED said
  BY <1>1, <1>4, ClearPreviewOK
<1>5. CASE ~(ClearPreview(c, p) /\ UNCHANGED said)
  <2>1. PICK act \in Actions : act = Transfer(p) /\ act.kind = "transfer" /\ act.id = p
    BY ActionFacts
  <2>2. PICK b : b = Released(p)
    OBVIOUS
  <2>3. arbiter' = TryOpen(b, act) /\ said' = Forget(TryOpen(b, act))
    BY <1>3, <1>5, <2>1, <2>2 DEF PreparePreview
  <2>4. PICK cs : cs = WakeArbiter(call, TryOpen(b, act))
    OBVIOUS
  <2>5. Awoken(cs) /\ Awoken(WakeGate(cs))
    BY <2>4, WokenAre DEF IInv
  <2>6. /\ Opens(b, act) => gate' = Prepared(p)
        /\ ~Opens(b, act) => gate' = gate
        /\ call' = Done(cs, c) \/ call' = Done(WakeGate(cs), c)
    BY <1>3, <1>5, <2>1, <2>2, <2>4 DEF PreparePreview
  <2>7. call' \in [Calls -> CallRecords] /\ CallsOK'
    BY <1>2, <2>5, <2>6, CallEnds
  <2>8. authorized' \in [Actions -> Nat]
    BY <1>1 DEF IInv, Typed
  <2>9. /\ arbiter' \in ArbiterRecords /\ gate' \in GateRecords
        /\ said' \in [Actions -> Heard] /\ WindowOK'
    <3>1. CASE Opens(b, act)
      <4>1. arbiter' = Opened(arbiter, act) /\ said' = Forget(Opened(arbiter, act))
        BY <2>3, <3>1 DEF TryOpen, Opened
      <4> QED
        BY <1>1, <2>1, <2>6, <3>1, <4>1, OpenedOK
    <3>2. CASE ~Opens(b, act)
      <4>1. b = arbiter \/ b.win = NoAction
        BY <2>2 DEF Released, Cleared, IInv, Typed, ArbiterRecords
      <4>2. arbiter' = arbiter /\ said' = said
        BY <2>3, <3>2, <4>1 DEF TryOpen, Opens, Forget
      <4> QED
        BY <1>1, <1>2, <2>6, <3>2, <4>2, WindowStays DEF IInv, Typed
    <3> QED
      BY <3>1, <3>2
  <2> QED
    BY <1>1, <1>2, <2>7, <2>8, <2>9, WindowStep
<1> QED
  BY <1>4, <1>5

-----------------------------------------------------------------------------
(* Speech, time, the screen, the end of the session                        *)

LEMMA HearContactOK ==
  ASSUME IInv, NEW answer \in Heard, Hear(answer), HearForContact(answer) PROVE IInv'
<1>1. UNCHANGED <<row, saved, shown, attempt, authorized, gate>>
  BY DEF Hear, HearForContact
<1>2. Grows
  BY <1>1, QuietGrows
<1>3. PICK act \in Actions : act = arbiter.win /\ act.kind = "contact" /\ act # NoAction
  BY ActionFacts DEF HearForContact, IInv, Typed, ArbiterRecords
<1>4. /\ arbiter' = Recorded(arbiter, answer)
      /\ said' = IF answer # "none" /\ ~arbiter.fresh THEN [said EXCEPT ![act] = answer] ELSE said
  BY <1>3 DEF Hear, HearForContact
<1>5. said' \in [Actions -> Heard]
  BY <1>4 DEF IInv, Typed
<1>6. PICK stale : stale = [arbiter EXCEPT !.stale = TRUE]
  OBVIOUS
<1>7. PICK heard : heard = [arbiter EXCEPT !.evidence = answer]
  OBVIOUS
<1>8. arbiter \in ArbiterRecords /\ said \in [Actions -> Heard] /\ WindowOK
  BY DEF IInv, Typed
<1>9. /\ stale \in ArbiterRecords /\ stale.win = act /\ stale.evidence = arbiter.evidence
      /\ stale.consumed = arbiter.consumed
      /\ heard \in ArbiterRecords /\ heard.win = act /\ heard.evidence = answer
      /\ heard.consumed = arbiter.consumed
  BY <1>3, <1>6, <1>7, <1>8 DEF ArbiterRecords
<1>10. act.id \in shown /\ row[act.id].published
  BY <1>3, <1>8 DEF WindowOK, WindowHasCard
<1>11. ASSUME arbiter.fresh
      PROVE  arbiter' \in ArbiterRecords /\ WindowOK'
  <2>1. arbiter' = stale /\ said' = said
    BY <1>4, <1>6, <1>11 DEF Recorded
  <2> QED
    BY <1>1, <1>2, <1>3, <1>5, <1>8, <1>9, <1>10, <2>1 DEF WindowOK, WindowHasCard
<1>12. ASSUME ~arbiter.fresh /\ arbiter.consumed = NoAction /\ answer # "none"
      PROVE  arbiter' \in ArbiterRecords /\ WindowOK'
  <2>1. arbiter' = heard /\ said'[act] = answer
    BY <1>4, <1>7, <1>8, <1>12 DEF Recorded
  <2> QED
    BY <1>1, <1>2, <1>3, <1>5, <1>9, <1>10, <1>12, <2>1 DEF WindowOK, WindowHasCard
<1>13. ASSUME ~arbiter.fresh /\ ~(arbiter.consumed = NoAction /\ answer # "none")
      PROVE  arbiter' \in ArbiterRecords /\ WindowOK'
  <2>1. arbiter' = arbiter
    BY <1>4, <1>13 DEF Recorded
  <2>2. answer = "none" => said' = said
    BY <1>4
  <2> QED
    BY <1>1, <1>3, <1>8, <1>10, <1>13, <2>1, <2>2 DEF WindowOK, WindowHasCard
<1>14. arbiter' \in ArbiterRecords /\ WindowOK'
  BY <1>11, <1>12, <1>13
<1>15. call' \in [Calls -> CallRecords] /\ CallsOK'
  <2>1. Awoken(call')
    BY WokenAre DEF HearForContact, IInv
  <2> QED
    BY <1>2, <2>1, CallsWoken
<1> QED
  BY <1>1, <1>2, <1>5, <1>14, <1>15, WindowStep DEF IInv, Typed

LEMMA HearTransferOK ==
  ASSUME IInv, NEW answer \in Heard, Hear(answer), HearForTransfer(answer) PROVE IInv'
<1>1. UNCHANGED <<row, saved, shown, attempt, authorized>>
  BY DEF Hear
<1>2. Grows
  BY <1>1, QuietGrows
<1>3. /\ arbiter \in ArbiterRecords /\ gate \in GateRecords /\ said \in [Actions -> Heard]
      /\ WindowOK /\ arbiter.win \in Windows
  BY DEF IInv, Typed, ArbiterRecords
<1>4. PICK g : g = [gate EXCEPT !.evidence = answer]
  OBVIOUS
<1>5. /\ g \in GateRecords /\ g.id = gate.id /\ g.evidence = answer /\ g.consumed = gate.consumed
      /\ gate' = g
  BY <1>3, <1>4 DEF GateRecords, HearForTransfer
<1>6. call' \in [Calls -> CallRecords] /\ CallsOK'
  <2>1. Awoken(call')
    BY WokenAre DEF HearForTransfer, IInv
  <2> QED
    BY <1>2, <2>1, CallsWoken
<1>7. CASE arbiter.win = NoAction
  <2>1. arbiter' = arbiter /\ said' = said
    BY <1>7 DEF Hear, HearForTransfer
  <2>2. WindowOK'
    BY <1>3, <1>7, <2>1, ActionFacts DEF WindowOK, WindowHasCard
  <2> QED
    BY <1>1, <1>2, <1>3, <1>5, <1>6, <2>1, <2>2, WindowStep DEF IInv, Typed
<1>8. CASE arbiter.win # NoAction
  <2>1. PICK act \in Actions : act = arbiter.win /\ act.kind = "transfer"
    BY <1>3, <1>8, ActionFacts DEF HearForTransfer
  <2>2. PICK a : a = [arbiter EXCEPT !.evidence = answer]
    OBVIOUS
  <2>3. a \in ArbiterRecords /\ a.win = act /\ a.evidence = answer /\ a.consumed = arbiter.consumed
    BY <1>3, <2>1, <2>2 DEF ArbiterRecords
  <2>4. /\ ~arbiter.fresh /\ answer # "none" /\ gate.consumed # gate.id
        /\ arbiter.consumed = NoAction /\ gate.id = act.id
    BY <1>3, <2>1 DEF HearForTransfer, GateEligible, WindowOK
  <2>5. arbiter' = a
    BY <1>8, <2>2, <2>4 DEF HearForTransfer, Recorded
  <2>6. said' = [said EXCEPT ![act] = answer]
    BY <1>8, <2>1, <2>4 DEF Hear
  <2>7. said' \in [Actions -> Heard] /\ said'[act] = answer
    BY <1>3, <2>6
  <2>8. WindowOK'
    BY <1>5, <1>8, <2>1, <2>3, <2>4, <2>5, <2>7 DEF WindowOK, WindowHasCard
  <2> QED
    BY <1>1, <1>2, <1>5, <1>6, <2>3, <2>5, <2>7, <2>8, WindowStep DEF IInv, Typed
<1> QED
  BY <1>7, <1>8

LEMMA MillisecondOK == ASSUME IInv, Millisecond PROVE IInv'
<1>1. UNCHANGED <<row, saved, shown, attempt, gate, call, said, authorized>>
  BY DEF Millisecond
<1>2. Grows
  BY <1>1, QuietGrows
<1>3. PICK a : a = [arbiter EXCEPT !.fresh = FALSE]
  OBVIOUS
<1>4. /\ a \in ArbiterRecords /\ a.win = arbiter.win /\ a.evidence = arbiter.evidence
      /\ a.consumed = arbiter.consumed /\ arbiter' = a
  BY <1>3 DEF Millisecond, IInv, Typed, ArbiterRecords
<1>5. WindowOK'
  BY <1>1, <1>4 DEF IInv, WindowOK, WindowHasCard
<1>6. call' \in [Calls -> CallRecords] /\ CallsOK'
  BY <1>1, <1>2, WokenAre, CallsWoken DEF IInv
<1> QED
  BY <1>1, <1>2, <1>4, <1>5, <1>6, WindowStep DEF IInv, Typed

LEMMA TouchOK == ASSUME IInv, TouchDecision PROVE IInv'
<1>1. UNCHANGED <<row, saved, shown, arbiter, gate, call, said, authorized>>
  BY DEF TouchDecision
<1>2. call' \in [Calls -> CallRecords] /\ CallsOK'
  BY <1>1, QuietGrows, WokenAre, CallsWoken DEF IInv
<1> QED
  BY <1>1, <1>2, QuietStep

LEMMA SessionOK == ASSUME IInv, SessionEnds PROVE IInv'
<1>1. UNCHANGED <<row, saved, shown, authorized>>
  BY DEF SessionEnds
<1>2. Grows
  BY <1>1, QuietGrows
<1>3. arbiter' \in ArbiterRecords /\ gate' \in GateRecords /\ said' \in [Actions -> Heard]
  <2>1. 0 \in 0..MaxPreviews
    BY VoiceAssumption
  <2>2. NoArbiter \in ArbiterRecords
    BY DEF NoArbiter, ArbiterRecords, Windows, Heard
  <2>3. NoGate \in GateRecords
    BY <2>1 DEF NoGate, GateRecords, Heard
  <2> QED
    BY <2>2, <2>3 DEF SessionEnds, Heard
<1>4. WindowOK'
  BY ActionFacts DEF SessionEnds, NoArbiter, WindowOK, WindowHasCard
<1>5. ASSUME NEW c \in Calls PROVE call'[c] \in CallRecords /\ CallOK(call[c])'
  <2>1. call'[c] = call[c] \/ call'[c] = IdleCall
    BY DEF SessionEnds
  <2>2. PICK k : k = call[c]
    OBVIOUS
  <2>3. CallOK(k)' /\ k \in CallRecords
    BY <1>2, <2>2, CallStays DEF IInv, Typed, CallsOK
  <2>4. CASE call'[c] = IdleCall
    BY <2>4, IdleFacts, IdleOK DEF CallOK
  <2>5. CASE call'[c] = k
    BY <2>3, <2>5 DEF CallOK
  <2> QED
    BY <2>1, <2>2, <2>4, <2>5
<1>6. call' \in [Calls -> CallRecords] /\ CallsOK'
  <2>1. DOMAIN call' = Calls /\ call' = [c \in Calls |-> call'[c]]
    BY DEF SessionEnds
  <2> QED
    BY <1>5, <2>1 DEF CallsOK
<1> QED
  BY <1>1, <1>2, <1>3, <1>4, <1>6, WindowStep DEF IInv, Typed

-----------------------------------------------------------------------------
(* The theorems                                                            *)

LEMMA Initially == Init => IInv
<1> SUFFICES ASSUME Init PROVE IInv
  OBVIOUS
<1>1. 0 \in 0..MaxRows /\ 0 \in 0..MaxPreviews
  BY VoiceAssumption
<1>2. NoRow \in RowRecords /\ NoRow.status = "none" /\ ~NoRow.published
  BY <1>1 DEF NoRow, RowRecords
<1>3. NoArbiter \in ArbiterRecords /\ NoGate \in GateRecords
  BY <1>1 DEF NoArbiter, ArbiterRecords, Windows, NoGate, GateRecords, Heard
<1>4. Typed
  BY <1>2, <1>3, IdleFacts DEF Init, Typed, Heard
<1>5. RowsOK
  BY <1>2 DEF Init, RowsOK, Counts
<1>6. CallOK(IdleCall)
  BY IdleFacts DEF CallOK, RowPcs, Waking, Granted, PreviewPcs, Deciding
<1>7. CallsOK
  BY <1>6 DEF Init, CallsOK
<1>8. WindowOK
  BY ActionFacts DEF Init, NoArbiter, WindowOK, WindowHasCard
<1> QED
  BY <1>4, <1>5, <1>7, <1>8 DEF IInv

\* Every step keeps the invariant, and what it authorizes was said.
LEMMA StepOK == ASSUME IInv, Next PROVE IInv' /\ (Spoken \/ UNCHANGED authorized)
<1>1. ASSUME NEW c \in Calls, ContactStep(c) PROVE IInv' /\ (Spoken \/ UNCHANGED authorized)
  <2>1. CASE Align(c) \/ Awake(c)
    BY <2>1, ConfirmOK
  <2>2. CASE Stage(c) \/ Cleanup(c) \/ InsertProposal(c) \/ Publish(c) \/ MarkPublished(c)
    <3>1. UNCHANGED authorized
      BY <2>2 DEF Stage, Cleanup, InsertProposal, Publish, MarkPublished
    <3> QED
      BY <2>2, <3>1, BeginOK, CleanupOK, InsertOK, PublishOK, MarkOK
  <2>3. CASE OpenWindow(c) \/ Paste(c) \/ ConfirmContact(c) \/ LookUp(c) \/ WaitEnds(c)
    <3>1. UNCHANGED authorized
      BY <2>3 DEF OpenWindow, Paste, ConfirmContact, LookUp, WaitEnds
    <3> QED
      BY <2>3, <3>1, OpenWindowOK, PasteOK, BeginOK, LookOK
  <2>4. CASE Reverify(c) \/ ReplaceMoved(c) \/ ClearMoved(c) \/ Apply(c) \/ Applied(c)
    <3>1. UNCHANGED authorized
      BY <2>4 DEF Reverify, ReplaceMoved, ClearMoved, Apply, Applied
    <3> QED
      BY <2>4, <3>1, LookOK, ReplaceOK, ClearOK, ApplyOK
  <2> QED
    BY <1>1, <2>1, <2>2, <2>3, <2>4 DEF ContactStep
<1>2. ASSUME NEW c \in Calls, TransferStep(c) PROVE IInv' /\ (Spoken \/ UNCHANGED authorized)
  <2>1. CASE AskGate(c) \/ GateAwake(c)
    BY <2>1, GateConsumeOK
  <2>2. CASE Preview(c) \/ RereadPreview(c) \/ PreparePreview(c) \/ Decide(c) \/ ResolveDecision(c)
    <3>1. UNCHANGED authorized
      BY <2>2 DEF Preview, RereadPreview, PreparePreview, Decide, ResolveDecision
    <3> QED
      BY <2>2, <3>1, BeginOK, RereadOK, PrepareOK, LookOK
  <2> QED
    BY <1>2, <2>1, <2>2 DEF TransferStep
<1>3. ASSUME NEW answer \in Heard, Hear(answer) PROVE IInv' /\ UNCHANGED authorized
  BY <1>3, HearContactOK, HearTransferOK DEF Hear
<1>4. ASSUME NEW r \in Rows, ProposalExpires(r) PROVE IInv' /\ UNCHANGED authorized
  BY <1>4, ExpiresOK DEF ProposalExpires
<1>5. CASE Millisecond \/ TouchDecision \/ SessionEnds
  BY <1>5, MillisecondOK, TouchOK, SessionOK DEF Millisecond, TouchDecision, SessionEnds
<1> QED
  BY <1>1, <1>2, <1>3, <1>4, <1>5 DEF Next

LEMMA Preserved == ASSUME IInv, [Next]_vars PROVE IInv' /\ [Spoken]_vars
<1>1. CASE Next
  <2>1. UNCHANGED authorized => Spoken
    BY DEF Spoken
  <2> QED
    BY <1>1, <2>1, StepOK
<1>2. CASE UNCHANGED vars
  <2>1. UNCHANGED <<row, saved, shown, arbiter, gate, call, said, authorized>>
    BY <1>2 DEF vars
  <2>2. call' \in [Calls -> CallRecords] /\ CallsOK'
    BY <2>1, QuietGrows, WokenAre, CallsWoken DEF IInv
  <2> QED
    BY <1>2, <2>1, <2>2, QuietStep
<1> QED
  BY <1>1, <1>2

\* The inductive invariant of the voice session: what each call relies on over
\* its awaits, what excludes the versions of a proposal, and what the evidence
\* in the window is.
THEOREM InvariantHolds == Spec => []IInv
<1>1. IInv /\ [Next]_vars => IInv'
  BY Preserved
<1> QED
  BY <1>1, Initially, PTL DEF Spec

\* The gate's copy of a transfer decision and the arbiter's never disagree
\* (confirmation-gate.ts, confirmation-arbiter.ts), for any number of calls.
THEOREM GateNeverDisagrees == Spec => []GateAgreesWithArbiter
<1>1. IInv => GateAgreesWithArbiter
  BY DEF IInv, WindowOK, GateAgreesWithArbiter
<1> QED
  BY <1>1, InvariantHolds, PTL

\* A contact window is open only over a card that was shown and stamped.
THEOREM WindowsHaveCards == Spec => []WindowHasCard
<1>1. IInv => WindowHasCard
  BY DEF IInv, WindowOK
<1> QED
  BY <1>1, InvariantHolds, PTL

\* However often a proposal was pasted over, re-resolved, retried or confirmed,
\* one version of it is applied, once, and by voice.
THEOREM AppliedOnce == Spec => []OneVersionApplied
<1>1. ASSUME IInv PROVE OneVersionApplied
  <2>1. \A r \in Rows : saved[r] > 0 <=> row[r].status = "consumed"
    BY <1>1 DEF IInv, RowsOK
  <2>2. \A r \in Rows : saved[r] \in {0, 1}
    BY <1>1 DEF IInv, RowsOK
  <2> QED
    BY <1>1, <2>1, <2>2 DEF IInv, RowsOK, Counts, OneVersionApplied
<1> QED
  BY <1>1, InvariantHolds, PTL

\* Only the last answer the user gave to a window that is still open decides
\* its action, and it decides it once.
THEOREM OnlySpeechDecides == Spec => DecidedBySpeech
<1>1. IInv /\ [Next]_vars => [Spoken]_vars
  BY Preserved
<1>2. Spec => [][Spoken]_vars
  BY <1>1, InvariantHolds, PTL DEF Spec
<1> QED
  BY <1>2 DEF Spoken, DecidedBySpeech
=============================================================================
