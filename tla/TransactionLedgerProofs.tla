---------------------- MODULE TransactionLedgerProofs ----------------------
(***************************************************************************)
(* For any number of rows, people, handlers and group expenses: the types, *)
(* that the history explains the amounts, that the type of a transaction   *)
(* gives its direction, and that the views of the ledger agree.            *)
(***************************************************************************)
EXTENDS TransactionLedger, SetSums, TLAPS

-----------------------------------------------------------------------------
(* Type correctness                                                        *)

Types == {"", "give", "receive"}

LEMMA LiveIsRow ==
  ASSUME TypeOK, NEW id \in Ids, rows[id].live
  PROVE  rows[id] \in Row
BY DEF TypeOK, NoRow

LEMMA ExistingIsRow ==
  ASSUME TypeOK, NEW id \in Ids, Exists(id)
  PROVE  rows[id] \in Row
BY DEF TypeOK, Exists

LEMMA WithTypeIsRow ==
  ASSUME NEW row \in Row, NEW n, NEW type \in Types
  PROVE  /\ WithType(row, n, type) \in Row
         /\ WithType(row, n, type).amount = row.amount
         /\ WithType(row, n, type).by = row.by
BY DEF WithType, Redirected, Row, Types

\* What an edit writes back, and what it logs.
Edited(row, n, type, amount, note) ==
  [WithType(row, n, type) EXCEPT !.amount = amount, !.note = note]

LEMMA EditedIsRow ==
  ASSUME NEW row \in Row, NEW n, NEW type \in Types, NEW amount \in Nat, NEW note \in Notes
  PROVE  /\ Edited(row, n, type, amount, note) \in Row
         /\ Edited(row, n, type, amount, note).amount = amount
         /\ Edited(row, n, type, amount, note).by = row.by
         /\ Edited(row, n, type, amount, note).from = WithType(row, n, type).from
         /\ Edited(row, n, type, amount, note).to = WithType(row, n, type).to
         /\ Edited(row, n, type, amount, note).type = WithType(row, n, type).type
<1> DEFINE w == WithType(row, n, type)
<1>1. w \in Row /\ w.by = row.by
  BY WithTypeIsRow
<1> HIDE DEF w
<1>2. /\ [w EXCEPT !.amount = amount, !.note = note] \in Row
      /\ [w EXCEPT !.amount = amount, !.note = note].amount = amount
      /\ [w EXCEPT !.amount = amount, !.note = note].by = w.by
      /\ [w EXCEPT !.amount = amount, !.note = note].from = w.from
      /\ [w EXCEPT !.amount = amount, !.note = note].to = w.to
      /\ [w EXCEPT !.amount = amount, !.note = note].type = w.type
  BY <1>1 DEF Row
<1> QED
  BY <1>1, <1>2 DEF Edited, w

LEMMA EntriesAreTyped ==
  ASSUME NEW old \in Nat, NEW new \in Nat
  PROVE  /\ Pending(<<Entry(old, new)>>)
         /\ <<Entry(old, new)>> # <<>>
         /\ <<Entry(old, new)>>[1] = Entry(old, new)
         /\ Entry(old, new).from = old /\ Entry(old, new).to = new
BY DEF Pending, Entry, LogEntry

LEMMA NothingIsPending == Pending(<<>>)
BY DEF Pending

\* What a save plan is, and the other way round.
LEMMA SavePlan ==
  ASSUME NEW p, IsPlan(p), p.op = "save"
  PROVE  /\ p = [op |-> "save", id |-> p.id, row |-> p.row, log |-> p.log]
         /\ p.id \in Ids /\ p.row \in Row /\ Pending(p.log)
         /\ p.log # <<>> => p.log[1] \in LogEntry
<1>1. /\ p \in [op : {"save"}, id : Ids, row : Row, log : {p.log}]
      /\ Pending(p.log)
  BY DEF IsPlan, Idle
<1>2. p.log # <<>> => p.log[1] \in LogEntry
  BY <1>1 DEF Pending
<1> QED
  BY <1>1, <1>2

LEMMA MakesSavePlan ==
  ASSUME NEW id \in Ids, NEW row \in Row, NEW log, Pending(log)
  PROVE  IsPlan([op |-> "save", id |-> id, row |-> row, log |-> log])
BY DEF IsPlan

LEMMA ArchivePlan ==
  ASSUME NEW p, IsPlan(p), p.op = "archive"
  PROVE  p.id \in Ids /\ p.to \in BOOLEAN
BY DEF IsPlan, Idle

LEMMA DecideTyped ==
  ASSUME TypeOK, NEW h \in Handlers, NEW d, IsPlan(d), Decide(h, d)
  PROVE  TypeOK'
BY BoundAssumption DEF Decide, Serve, TypeOK, Exists

LEMMA DeletedRowsTyped ==
  ASSUME TypeOK, NEW e \in Expenses, NEW marked \in BOOLEAN, NEW removed \in BOOLEAN
  PROVE  /\ DOMAIN DeleteRowsOf(e, marked, removed) = Ids
         /\ \A id \in Ids : DeleteRowsOf(e, marked, removed)[id] \in Row \cup {NoRow}
<1> SUFFICES ASSUME NEW id \in Ids
             PROVE  DeleteRowsOf(e, marked, removed)[id] \in Row \cup {NoRow}
  BY DEF DeleteRowsOf
<1>1. CASE rows[id].live /\ rows[id].expense = e
  <2>1. rows[id] \in Row
    BY <1>1, LiveIsRow
  <2>2. [rows[id] EXCEPT !.deleted = @ \/ marked, !.live = ~removed] \in Row
    BY <2>1 DEF Row
  <2> QED
    BY <2>2, <1>1 DEF DeleteRowsOf
<1>2. CASE ~(rows[id].live /\ rows[id].expense = e)
  BY <1>2 DEF DeleteRowsOf, TypeOK
<1> QED
  BY <1>1, <1>2

LEMMA TypeStep ==
  ASSUME TypeOK, [Next]_vars
  PROVE  TypeOK'
<1> USE BoundAssumption
<1>1. ASSUME NEW n \in Callers, NEW contact \in Contacts, NEW type \in {"give", "receive"},
             NEW amount \in Amounts, NEW note \in Notes,
             CreateTransaction(n, contact, type, amount, note)
      PROVE  TypeOK'
  <2> DEFINE new ==
        [from |-> IF type = "give" THEN n ELSE contact,
         to   |-> IF type = "give" THEN contact ELSE n,
         type |-> type, amount |-> amount, note |-> note, expense |-> Personal,
         by |-> n[1], live |-> TRUE, deleted |-> FALSE, archived |-> FALSE]
  <2>1. n \in Number /\ contact \in Number /\ n[1] \in People /\ amount \in Nat
    BY PeopleAssumption DEF Number
  <2>2. new \in Row
    BY <2>1 DEF Row
  <2>3. PICK id \in Ids : rows' = [rows EXCEPT ![id] = new]
    BY <1>1 DEF CreateTransaction
  <2> HIDE DEF new
  <2>4. DOMAIN rows' = Ids /\ \A k \in Ids : rows'[k] \in Row \cup {NoRow}
    BY <2>2, <2>3 DEF TypeOK
  <2>5. /\ calls' \in 0..MaxCalls
        /\ UNCHANGED <<logs, lost, gone, dropped, plan>>
    BY <1>1 DEF CreateTransaction, Serve, TypeOK
  <2> QED
    BY <2>4, <2>5 DEF TypeOK
<1>2. ASSUME NEW h \in Handlers, Request(h)
      PROVE  TypeOK'
  <2> PICK n \in Callers, id \in Ids :
        \/ \E type \in Types, amount \in Amounts, note \in Notes :
             UpdateTransaction(h, id, n, type, amount, note)
        \/ DeleteTransaction(h, id, n)
        \/ ArchiveTransaction(h, id, n)
        \/ UnarchiveTransaction(h, id, n)
    BY <1>2 DEF Request, Types
  <2>1. ASSUME NEW type \in Types, NEW amount \in Amounts, NEW note \in Notes,
               UpdateTransaction(h, id, n, type, amount, note)
        PROVE  TypeOK'
    <3> DEFINE new == Edited(rows[id], n, type, amount, note)
               log == IF new = rows[id] THEN <<>> ELSE <<Entry(rows[id].amount, amount)>>
    <3>1. rows[id] \in Row /\ amount \in Nat /\ rows[id].amount \in Nat
      BY <2>1, LiveIsRow DEF UpdateTransaction, Row
    <3>2. new \in Row
      BY <3>1, EditedIsRow
    <3>3. Pending(log)
      BY <3>1, EntriesAreTyped, NothingIsPending
    <3>4. Decide(h, [op |-> "save", id |-> id, row |-> new, log |-> log])
      BY <2>1 DEF UpdateTransaction, Edited
    <3> HIDE DEF new, log
    <3> QED
      BY <3>2, <3>3, <3>4, MakesSavePlan, DecideTyped
  <2>2. CASE DeleteTransaction(h, id, n)
    <3> DEFINE new == [rows[id] EXCEPT !.deleted = TRUE]
               log == <<Entry(rows[id].amount, 0)>>
    <3>1. rows[id] \in Row
      BY <2>2, LiveIsRow DEF DeleteTransaction
    <3>2. new \in Row /\ rows[id].amount \in Nat
      BY <3>1 DEF Row
    <3>3. Pending(log)
      BY <3>2, EntriesAreTyped
    <3>4. Decide(h, [op |-> "save", id |-> id, row |-> new, log |-> log])
      BY <2>2 DEF DeleteTransaction
    <3> HIDE DEF new, log
    <3> QED
      BY <3>2, <3>3, <3>4, MakesSavePlan, DecideTyped
  <2>3. ASSUME NEW to \in BOOLEAN, Decide(h, [op |-> "archive", id |-> id, to |-> to])
        PROVE  TypeOK'
    <3>1. IsPlan([op |-> "archive", id |-> id, to |-> to])
      BY DEF IsPlan
    <3> QED
      BY <2>3, <3>1, DecideTyped
  <2> QED
    BY <2>1, <2>2, <2>3 DEF ArchiveTransaction, UnarchiveTransaction
<1>3. ASSUME NEW h \in Handlers, CreateEditLog(h)
      PROVE  TypeOK'
  <2> DEFINE p == plan[h]
  <2>1. /\ p = [op |-> "save", id |-> p.id, row |-> p.row, log |-> p.log]
        /\ p.id \in Ids /\ p.row \in Row /\ p.log[1] \in LogEntry
    BY <1>3, SavePlan DEF CreateEditLog, TypeOK
  <2>2. [p EXCEPT !.log = <<>>] = [op |-> "save", id |-> p.id, row |-> p.row, log |-> <<>>]
    BY <2>1
  <2>3. IsPlan([p EXCEPT !.log = <<>>])
    BY <2>1, <2>2, NothingIsPending, MakesSavePlan
  <2>4. plan' = [plan EXCEPT ![h] = [p EXCEPT !.log = <<>>]]
    BY <1>3 DEF CreateEditLog
  <2>5. logs' \in [Ids -> Seq(LogEntry)] /\ lost' \subseteq Ids
    <3>1. CASE logs' = [logs EXCEPT ![p.id] = Append(@, p.log[1])] /\ UNCHANGED lost
      BY <2>1, <3>1 DEF TypeOK
    <3>2. CASE lost' = lost \cup {p.id} /\ UNCHANGED logs
      BY <2>1, <3>2 DEF TypeOK
    <3> QED
      BY <1>3, <3>1, <3>2 DEF CreateEditLog
  <2> HIDE DEF p
  <2>6. DOMAIN plan' = Handlers /\ \A k \in Handlers : IsPlan(plan'[k])
    BY <2>3, <2>4 DEF TypeOK
  <2> QED
    BY <2>5, <2>6, <1>3 DEF CreateEditLog, TypeOK
<1>4. ASSUME NEW h \in Handlers, SaveTransaction(h)
      PROVE  TypeOK'
  <2>1. plan[h].id \in Ids /\ plan[h].row \in Row
    BY <1>4, SavePlan DEF SaveTransaction, TypeOK
  <2>2. IsPlan(Idle)
    BY DEF IsPlan
  <2> QED
    BY <2>1, <2>2, <1>4 DEF SaveTransaction, Finish, TypeOK
<1>5. ASSUME NEW h \in Handlers, SetArchived(h)
      PROVE  TypeOK'
  <2> DEFINE p == plan[h]
  <2>1. p.id \in Ids /\ p.to \in BOOLEAN
    BY <1>5, ArchivePlan DEF SetArchived, TypeOK
  <2>2. IsPlan(Idle)
    BY DEF IsPlan
  <2>3. rows[p.id].live => [rows[p.id] EXCEPT !.archived = p.to] \in Row
    BY <2>1, LiveIsRow DEF Row
  <2>4. DOMAIN rows' = Ids /\ \A id \in Ids : rows'[id] \in Row \cup {NoRow}
    BY <2>1, <2>3, <1>5 DEF SetArchived, TypeOK
  <2> HIDE DEF p
  <2> QED
    BY <2>2, <2>4, <1>5 DEF SetArchived, Finish, TypeOK
<1>6. ASSUME NEW h \in Handlers, GiveUp(h)
      PROVE  TypeOK'
  <2>1. IsPlan(Idle)
    BY DEF IsPlan
  <2> QED
    BY <2>1, <1>6 DEF GiveUp, Finish, TypeOK
<1>7. ASSUME NEW e \in Expenses, DeleteGroupExpense(e)
      PROVE  TypeOK'
  <2>1. PICK marked \in BOOLEAN : rows' = DeleteRowsOf(e, marked, TRUE)
    BY <1>7 DEF DeleteGroupExpense
  <2>2. DOMAIN rows' = Ids /\ \A id \in Ids : rows'[id] \in Row \cup {NoRow}
    BY <2>1, DeletedRowsTyped
  <2>3. /\ calls' \in 0..MaxCalls /\ gone' \subseteq Expenses /\ dropped \subseteq gone'
        /\ UNCHANGED <<logs, lost, dropped, plan>>
    BY <1>7 DEF DeleteGroupExpense, Serve, TypeOK
  <2> QED
    BY <2>2, <2>3 DEF TypeOK
<1>8. ASSUME NEW e \in Expenses, DeleteGroup(e)
      PROVE  TypeOK'
  <2>1. PICK marked \in BOOLEAN, removed \in BOOLEAN : rows' = DeleteRowsOf(e, marked, removed)
    BY <1>8 DEF DeleteGroup
  <2>2. DOMAIN rows' = Ids /\ \A id \in Ids : rows'[id] \in Row \cup {NoRow}
    BY <2>1, DeletedRowsTyped
  <2> QED
    BY <2>2, <1>8 DEF DeleteGroup, Serve, TypeOK
<1>9. CASE UNCHANGED vars
  BY <1>9 DEF vars, TypeOK
<1>10. CASE Next
  <2>1. CASE \E h \in Handlers : Request(h) \/ Write(h)
    BY <2>1, <1>2, <1>3, <1>4, <1>5, <1>6 DEF Write
  <2>2. CASE \E e \in Expenses : DeleteGroupExpense(e) \/ DeleteGroup(e)
    BY <2>2, <1>7, <1>8
  <2> QED
    BY <1>1, <1>10, <2>1, <2>2 DEF Next
<1> QED
  BY <1>9, <1>10

LEMMA TypeInit == Init => TypeOK
<1>1. IsPlan(Idle)
  BY DEF IsPlan
<1> QED
  BY <1>1, RowsAssumption, BoundAssumption DEF Init, TypeOK

\* In every reachable state the tables and the pending writes have their types.
THEOREM TypeCorrect == Spec => []TypeOK
BY TypeInit, TypeStep, PTL DEF Spec

-----------------------------------------------------------------------------
(* The history explains the amounts. Between its read and its save an edit *)
(* holds an amount and a log entry of its own, so the invariant says where *)
(* both come from: a pending entry starts at a value that is already known *)
(* of the row, and a save that has been logged writes a known one.         *)

\* What is known of a row's amounts: the history, or today's value when there
\* is none.
KnownAmounts(id) == IF logs[id] = <<>> THEN {rows[id].amount} ELSE Mentioned(logs[id])

SaveIsKnown(p) ==
  IF p.log = <<>> THEN p.row.amount \in KnownAmounts(p.id)
  ELSE /\ p.log[1].from \in KnownAmounts(p.id)
       /\ p.row.amount \in {p.log[1].from, p.log[1].to}

HistoryInv ==
  /\ \A id \in Ids : Exists(id) /\ id \notin lost => rows[id].amount \in KnownAmounts(id)
  /\ \A id \in Ids : ~Exists(id) => logs[id] = <<>>
  /\ \A h \in Handlers :
       plan[h].op = "save" =>
         Exists(plan[h].id) /\ (plan[h].id \notin lost => SaveIsKnown(plan[h]))

LEMMA ExistsKept ==
  ASSUME NEW row \in Row
  PROVE  row # NoRow
BY DEF Row, NoRow

LEMMA AppendMentions ==
  ASSUME NEW log \in Seq(LogEntry), NEW e \in LogEntry
  PROVE  /\ Append(log, e) # <<>>
         /\ Mentioned(log) \subseteq Mentioned(Append(log, e))
         /\ e.from \in Mentioned(Append(log, e)) /\ e.to \in Mentioned(Append(log, e))
<1> DEFINE more == Append(log, e)
<1>1. /\ more \in Seq(LogEntry) /\ Len(more) = Len(log) + 1 /\ more[Len(log) + 1] = e
      /\ \A i \in DOMAIN log : i \in DOMAIN more /\ more[i] = log[i]
      /\ Len(log) + 1 \in DOMAIN more
  OBVIOUS
<1>2. more # <<>>
  BY <1>1
<1> HIDE DEF more
<1>3. e.from \in Mentioned(more) /\ e.to \in Mentioned(more)
  BY <1>1 DEF Mentioned
<1>4. Mentioned(log) \subseteq Mentioned(more)
  BY <1>1 DEF Mentioned
<1> QED
  BY <1>2, <1>3, <1>4 DEF more

\* A step that writes no log entry, changes no amount of a row, and plans only
\* saves of known amounts keeps the invariant.
LEMMA HistoryFrame ==
  ASSUME HistoryInv, logs' = logs, lost' = lost,
         \A id \in Ids : Exists(id) => Exists(id)' /\ rows'[id].amount = rows[id].amount,
         \A h \in Handlers :
           \/ plan'[h] = plan[h]
           \/ plan'[h].op # "save"
           \/ plan'[h].id \in Ids /\ Exists(plan'[h].id)
              /\ (plan'[h].id \notin lost => SaveIsKnown(plan'[h])),
         \A h \in Handlers : plan[h].op = "save" => plan[h].id \in Ids
  PROVE  HistoryInv'
<1>1. \A id \in Ids : Exists(id) => KnownAmounts(id)' = KnownAmounts(id)
  BY DEF KnownAmounts
<1>2. \A id \in Ids : ~Exists(id)' => logs'[id] = <<>>
  BY DEF HistoryInv
<1>3. ASSUME NEW id \in Ids, Exists(id)', id \notin lost'
      PROVE  rows'[id].amount \in KnownAmounts(id)'
  <2>1. CASE Exists(id)
    BY <2>1, <1>1, <1>3 DEF HistoryInv
  <2>2. CASE ~Exists(id)
    BY <2>2 DEF HistoryInv, KnownAmounts
  <2> QED
    BY <2>1, <2>2
<1>4. ASSUME NEW h \in Handlers, plan'[h].op = "save"
      PROVE  Exists(plan[h].id)' /\ (plan'[h].id \notin lost' => SaveIsKnown(plan[h])')
  <2>1. /\ plan'[h].id \in Ids /\ Exists(plan'[h].id)
        /\ plan'[h].id \notin lost => SaveIsKnown(plan'[h])
    BY <1>4 DEF HistoryInv
  <2>2. Exists(plan[h].id)' /\ KnownAmounts(plan[h].id)' = KnownAmounts(plan'[h].id)
    BY <2>1 DEF Exists, KnownAmounts
  <2> QED
    BY <2>1, <2>2 DEF SaveIsKnown
<1> QED
  BY <1>2, <1>3, <1>4 DEF HistoryInv

LEMMA HistoryRequest ==
  ASSUME TypeOK, HistoryInv, NEW h \in Handlers, Request(h)
  PROVE  HistoryInv'
<1> PICK n \in Callers, id \in Ids :
      \/ \E type \in Types, amount \in Amounts, note \in Notes :
           UpdateTransaction(h, id, n, type, amount, note)
      \/ DeleteTransaction(h, id, n)
      \/ ArchiveTransaction(h, id, n)
      \/ UnarchiveTransaction(h, id, n)
  BY DEF Request, Types
<1>0. \A k \in Handlers : plan[k].op = "save" => plan[k].id \in Ids
  BY SavePlan DEF TypeOK
<1>1. ASSUME NEW d, Decide(h, d),
             d.op = "save" =>
               d.id \in Ids /\ Exists(d.id) /\ (d.id \notin lost => SaveIsKnown(d))
      PROVE  HistoryInv'
  <2>1. /\ logs' = logs /\ lost' = lost /\ rows' = rows
        /\ plan' = [plan EXCEPT ![h] = d]
    BY <1>1 DEF Decide
  <2>2. \A k \in Handlers : plan'[k] = plan[k] \/ (k = h /\ plan'[k] = d)
    BY <2>1 DEF TypeOK
  <2>3. \A k \in Ids : Exists(k) => Exists(k)' /\ rows'[k].amount = rows[k].amount
    BY <2>1 DEF Exists
  <2> QED
    BY <1>0, <1>1, <2>1, <2>2, <2>3, HistoryFrame
<1>2. ASSUME rows[id].live
      PROVE  /\ Exists(id) /\ rows[id] \in Row /\ rows[id].amount \in Nat
             /\ id \notin lost => rows[id].amount \in KnownAmounts(id)
  <2>1. rows[id] \in Row
    BY <1>2, LiveIsRow
  <2> QED
    BY <2>1, ExistsKept DEF Exists, Row, HistoryInv
<1>3. ASSUME NEW type \in Types, NEW amount \in Amounts, NEW note \in Notes,
             UpdateTransaction(h, id, n, type, amount, note)
      PROVE  HistoryInv'
  <2> DEFINE new == Edited(rows[id], n, type, amount, note)
             log == IF new = rows[id] THEN <<>> ELSE <<Entry(rows[id].amount, amount)>>
             d   == [op |-> "save", id |-> id, row |-> new, log |-> log]
  <2>1. /\ Exists(id) /\ rows[id] \in Row /\ rows[id].amount \in Nat /\ amount \in Nat
        /\ id \notin lost => rows[id].amount \in KnownAmounts(id)
    BY <1>2, <1>3, BoundAssumption DEF UpdateTransaction
  <2>2. new.amount = amount
    <3>1. rows[id] \in Row /\ amount \in Nat
      BY <2>1
    <3>2. WithType(rows[id], n, type) \in Row
      BY <3>1, WithTypeIsRow
    <3> QED
      BY <3>2 DEF Edited, Row
  <2>3. Decide(h, d)
    BY <1>3 DEF UpdateTransaction, Edited
  <2> HIDE DEF new
  <2>4. id \notin lost => SaveIsKnown(d)
    <3>1. CASE new = rows[id]
      BY <2>1, <3>1 DEF SaveIsKnown
    <3>2. CASE new # rows[id]
      BY <2>1, <2>2, <3>2, EntriesAreTyped DEF SaveIsKnown
    <3> QED
      BY <3>1, <3>2
  <2> QED
    BY <1>1, <2>1, <2>3, <2>4
<1>4. CASE DeleteTransaction(h, id, n)
  <2> DEFINE new == [rows[id] EXCEPT !.deleted = TRUE]
             log == <<Entry(rows[id].amount, 0)>>
             d   == [op |-> "save", id |-> id, row |-> new, log |-> log]
  <2>1. /\ Exists(id) /\ rows[id] \in Row /\ rows[id].amount \in Nat
        /\ id \notin lost => rows[id].amount \in KnownAmounts(id)
    BY <1>2, <1>4 DEF DeleteTransaction
  <2>2. new.amount = rows[id].amount
    BY <2>1 DEF Row
  <2>3. Decide(h, d)
    BY <1>4 DEF DeleteTransaction
  <2> HIDE DEF new
  <2>4. id \notin lost => SaveIsKnown(d)
    BY <2>1, <2>2, EntriesAreTyped DEF SaveIsKnown
  <2> QED
    BY <1>1, <2>1, <2>3, <2>4
<1>5. ASSUME NEW to \in BOOLEAN, Decide(h, [op |-> "archive", id |-> id, to |-> to])
      PROVE  HistoryInv'
  BY <1>1, <1>5
<1> QED
  BY <1>3, <1>4, <1>5 DEF ArchiveTransaction, UnarchiveTransaction

LEMMA HistoryLog ==
  ASSUME TypeOK, HistoryInv, NEW h \in Handlers, CreateEditLog(h)
  PROVE  HistoryInv'
<1> DEFINE p == plan[h]
<1>1. /\ p = [op |-> "save", id |-> p.id, row |-> p.row, log |-> p.log]
      /\ p.id \in Ids /\ p.row \in Row /\ p.log # <<>> /\ p.log[1] \in LogEntry
  BY SavePlan DEF CreateEditLog, TypeOK
<1>0. PICK i \in Ids : i = p.id
  BY <1>1
<1>2. /\ Exists(p.id)
      /\ p.id \notin lost => SaveIsKnown(p)
  BY <1>1 DEF HistoryInv
<1>3. rows' = rows
  BY DEF CreateEditLog
<1>4. \A k \in Handlers :
        plan[k].op = "save" => plan[k].id \in Ids /\ Exists(plan[k].id)
  BY SavePlan DEF TypeOK, HistoryInv
<1>5. /\ plan'[h] = [op |-> "save", id |-> p.id, row |-> p.row, log |-> <<>>]
      /\ \A k \in Handlers : k # h => plan'[k] = plan[k]
  <2>1. plan' = [plan EXCEPT ![h].log = <<>>]
    BY DEF CreateEditLog
  <2> QED
    BY <1>1, <2>1 DEF TypeOK
<1>6. CASE lost' = lost \cup {p.id} /\ UNCHANGED logs
  <2>1. \A id \in Ids : KnownAmounts(id)' = KnownAmounts(id)
    BY <1>3, <1>6 DEF KnownAmounts
  <2>2. /\ \A id \in Ids : Exists(id)' /\ id \notin lost' => rows'[id].amount \in KnownAmounts(id)'
        /\ \A id \in Ids : ~Exists(id)' => logs'[id] = <<>>
    BY <1>3, <1>6, <2>1 DEF HistoryInv, Exists
  <2>3. ASSUME NEW k \in Handlers, plan'[k].op = "save"
        PROVE  Exists(plan[k].id)' /\ (plan'[k].id \notin lost' => SaveIsKnown(plan[k])')
    <3>1. CASE k = h
      BY <1>2, <1>3, <1>5, <1>6, <3>1 DEF Exists
    <3>2. CASE k # h
      <4>1. plan'[k] = plan[k] /\ plan[k].id \in Ids /\ Exists(plan[k].id)
        BY <1>4, <1>5, <2>3, <3>2
      <4>2. KnownAmounts(plan[k].id)' = KnownAmounts(plan[k].id)
        BY <4>1, <1>3, <1>6 DEF KnownAmounts
      <4> QED
        BY <1>3, <1>6, <2>3, <4>1, <4>2 DEF HistoryInv, SaveIsKnown, Exists
    <3> QED
      BY <3>1, <3>2
  <2> QED
    BY <2>2, <2>3 DEF HistoryInv
<1>7. CASE logs' = [logs EXCEPT ![p.id] = Append(@, p.log[1])] /\ UNCHANGED lost
  <2>1. /\ logs'[i] = Append(logs[i], p.log[1])
        /\ \A id \in Ids \ {i} : logs'[id] = logs[id]
        /\ logs[i] \in Seq(LogEntry)
    BY <1>0, <1>1, <1>7 DEF TypeOK
  <2>2. /\ KnownAmounts(i)' = Mentioned(logs'[i])
        /\ p.log[1].from \in KnownAmounts(i)' /\ p.log[1].to \in KnownAmounts(i)'
        /\ Mentioned(logs[i]) \subseteq KnownAmounts(i)'
    <3>1. KnownAmounts(i)' = Mentioned(logs'[i])
      BY <1>1, <2>1, AppendMentions DEF KnownAmounts
    <3> QED
      BY <1>1, <2>1, <3>1, AppendMentions
  <2>3. \A id \in Ids \ lost : Exists(id) => KnownAmounts(id) \subseteq KnownAmounts(id)'
    <3> SUFFICES ASSUME NEW id \in Ids \ lost, Exists(id)
                 PROVE  KnownAmounts(id) \subseteq KnownAmounts(id)'
      OBVIOUS
    <3>1. CASE id # i
      BY <1>3, <2>1, <3>1 DEF KnownAmounts
    <3>2. CASE id = i /\ logs[id] # <<>>
      BY <2>2, <3>2 DEF KnownAmounts
    <3>3. CASE id = i /\ logs[id] = <<>>
      BY <1>0, <1>1, <1>2, <2>2, <3>3 DEF KnownAmounts, SaveIsKnown
    <3> QED
      BY <3>1, <3>2, <3>3
  <2>4. \A id \in Ids : Exists(id)' /\ id \notin lost' => rows'[id].amount \in KnownAmounts(id)'
    BY <1>3, <1>7, <2>3 DEF HistoryInv, Exists
  <2>5. \A id \in Ids : ~Exists(id)' => logs'[id] = <<>>
    BY <1>0, <1>2, <1>3, <2>1 DEF HistoryInv, Exists
  <2>6. ASSUME NEW k \in Handlers, plan'[k].op = "save"
        PROVE  Exists(plan[k].id)' /\ (plan'[k].id \notin lost' => SaveIsKnown(plan[k])')
    <3>1. CASE k = h
      <4>1. plan'[k].id = i /\ plan'[k].log = <<>> /\ plan'[k].row = p.row
        BY <1>0, <1>5, <3>1
      <4>2. i \notin lost => p.row.amount \in {p.log[1].from, p.log[1].to}
        BY <1>0, <1>1, <1>2 DEF SaveIsKnown
      <4>3. KnownAmounts(plan[k].id)' = Mentioned(logs'[i])
        BY <2>1, <1>1, <4>1, AppendMentions DEF KnownAmounts
      <4> QED
        BY <1>0, <1>2, <1>3, <1>7, <2>2, <4>1, <4>2, <4>3 DEF SaveIsKnown, Exists
    <3>2. CASE k # h
      <4>1. plan'[k] = plan[k] /\ plan[k].id \in Ids /\ Exists(plan[k].id)
        BY <1>4, <1>5, <2>6, <3>2
      <4>2. plan[k].id \notin lost => SaveIsKnown(plan[k])
        BY <2>6, <4>1 DEF HistoryInv
      <4>3. plan[k].id \notin lost => KnownAmounts(plan[k].id) \subseteq KnownAmounts(plan[k].id)'
        <5>1. ASSUME NEW id \in Ids, id = plan'[k].id
              PROVE  KnownAmounts(id)' = KnownAmounts(plan[k].id)'
          BY <5>1
        <5> QED
          BY <2>3, <4>1, <5>1
      <4> QED
        BY <1>3, <1>7, <4>1, <4>2, <4>3 DEF SaveIsKnown, Exists
    <3> QED
      BY <3>1, <3>2
  <2> QED
    BY <2>4, <2>5, <2>6 DEF HistoryInv
<1> QED
  BY <1>6, <1>7 DEF CreateEditLog

LEMMA HistorySave ==
  ASSUME TypeOK, HistoryInv, NEW h \in Handlers, SaveTransaction(h)
  PROVE  HistoryInv'
<1> DEFINE p == plan[h]
<1>1. p.id \in Ids /\ p.row \in Row /\ p.log = <<>> /\ Exists(p.id)
  BY SavePlan DEF SaveTransaction, TypeOK, HistoryInv
<1>2. p.id \notin lost => p.row.amount \in KnownAmounts(p.id)
  BY <1>1 DEF SaveTransaction, HistoryInv, SaveIsKnown
<1>3. /\ rows'[p.id] = p.row /\ \A id \in Ids \ {p.id} : rows'[id] = rows[id]
      /\ logs' = logs /\ lost' = lost
      /\ plan'[h] = Idle /\ \A k \in Handlers : k # h => plan'[k] = plan[k]
  BY <1>1 DEF SaveTransaction, Finish, TypeOK
<1>4. \A id \in Ids : Exists(id)' <=> Exists(id)
  BY <1>1, <1>3, ExistsKept DEF Exists
<1>5. \A id \in Ids \ lost : KnownAmounts(id)' = KnownAmounts(id)
  BY <1>2, <1>3 DEF KnownAmounts
<1>6. ASSUME NEW id \in Ids, Exists(id)', id \notin lost'
      PROVE  rows'[id].amount \in KnownAmounts(id)'
  BY <1>2, <1>3, <1>4, <1>5, <1>6 DEF HistoryInv
<1>7. \A id \in Ids : ~Exists(id)' => logs'[id] = <<>>
  BY <1>3, <1>4 DEF HistoryInv
<1>8. ASSUME NEW k \in Handlers, plan'[k].op = "save"
      PROVE  Exists(plan[k].id)' /\ (plan'[k].id \notin lost' => SaveIsKnown(plan[k])')
  <2>1. plan'[k] = plan[k]
    BY <1>3, <1>8 DEF Idle
  <2>2. plan[k].id \in Ids /\ Exists(plan[k].id)
    BY <1>8, <2>1, SavePlan DEF TypeOK, HistoryInv
  <2>3. rows'[plan[k].id] # NoRow
    BY <2>2, <1>4 DEF Exists
  <2>4. plan[k].id \notin lost => SaveIsKnown(plan[k])
    BY <1>8, <2>1 DEF HistoryInv
  <2>5. plan[k].id \notin lost => KnownAmounts(plan[k].id)' = KnownAmounts(plan[k].id)
    BY <1>5, <2>1, <2>2 DEF KnownAmounts
  <2> QED
    BY <1>3, <2>1, <2>3, <2>4, <2>5 DEF SaveIsKnown, Exists
<1> QED
  BY <1>6, <1>7, <1>8 DEF HistoryInv

LEMMA HistoryStep ==
  ASSUME TypeOK, HistoryInv, [Next]_vars
  PROVE  HistoryInv'
<1>0. \A h \in Handlers : plan[h].op = "save" => plan[h].id \in Ids
  BY SavePlan DEF TypeOK
<1>1. ASSUME NEW n \in Callers, NEW contact \in Contacts, NEW type \in {"give", "receive"},
             NEW amount \in Amounts, NEW note \in Notes,
             CreateTransaction(n, contact, type, amount, note)
      PROVE  HistoryInv'
  <2>1. PICK new \in Ids :
          ~Exists(new) /\ \A id \in Ids \ {new} : rows'[id] = rows[id]
    BY <1>1 DEF CreateTransaction, FreshId, TypeOK
  <2>2. \A id \in Ids : Exists(id) => Exists(id)' /\ rows'[id].amount = rows[id].amount
    BY <2>1 DEF Exists
  <2>3. logs' = logs /\ lost' = lost /\ plan' = plan
    BY <1>1 DEF CreateTransaction
  <2> QED
    BY <1>0, <2>2, <2>3, HistoryFrame
<1>2. ASSUME NEW h \in Handlers, SetArchived(h) \/ GiveUp(h)
      PROVE  HistoryInv'
  <2>1. logs' = logs /\ lost' = lost /\ plan' = [plan EXCEPT ![h] = Idle]
    BY <1>2 DEF SetArchived, GiveUp, Finish
  <2>2. \A k \in Handlers : plan'[k] = plan[k] \/ plan'[k].op # "save"
    BY <2>1 DEF TypeOK, Idle
  <2>3. ASSUME NEW id \in Ids, Exists(id)
        PROVE  Exists(id)' /\ rows'[id].amount = rows[id].amount
    <3>1. rows[id] \in Row
      BY <2>3, ExistingIsRow
    <3>2. rows'[id] = rows[id] \/ rows'[id] = [rows[id] EXCEPT !.archived = plan[h].to]
      BY <1>2 DEF SetArchived, GiveUp, TypeOK
    <3> QED
      BY <2>3, <3>1, <3>2 DEF Exists, Row, NoRow
  <2> QED
    BY <1>0, <2>1, <2>2, <2>3, HistoryFrame
<1>3. ASSUME NEW e \in Expenses, DeleteGroupExpense(e) \/ DeleteGroup(e)
      PROVE  HistoryInv'
  <2>1. PICK marked \in BOOLEAN, removed \in BOOLEAN : rows' = DeleteRowsOf(e, marked, removed)
    BY <1>3 DEF DeleteGroupExpense, DeleteGroup
  <2>2. ASSUME NEW id \in Ids, Exists(id)
        PROVE  Exists(id)' /\ rows'[id].amount = rows[id].amount
    <3>1. rows[id] \in Row
      BY <2>2, ExistingIsRow
    <3>2. rows'[id] = rows[id]
          \/ rows'[id] = [rows[id] EXCEPT !.deleted = @ \/ marked, !.live = ~removed]
      BY <2>1 DEF DeleteRowsOf
    <3> QED
      BY <2>2, <3>1, <3>2 DEF Exists, Row, NoRow
  <2>3. logs' = logs /\ lost' = lost /\ plan' = plan
    BY <1>3 DEF DeleteGroupExpense, DeleteGroup
  <2> QED
    BY <1>0, <2>2, <2>3, HistoryFrame
<1>4. CASE UNCHANGED vars
  <2>1. logs' = logs /\ lost' = lost /\ plan' = plan /\ rows' = rows
    BY <1>4 DEF vars
  <2>2. \A id \in Ids : Exists(id) => Exists(id)' /\ rows'[id].amount = rows[id].amount
    BY <2>1 DEF Exists
  <2> QED
    BY <1>0, <2>1, <2>2, HistoryFrame
<1>5. CASE Next
  <2>1. CASE \E h \in Handlers : Request(h) \/ Write(h)
    BY <2>1, <1>2, HistoryRequest, HistoryLog, HistorySave DEF Write
  <2>2. CASE \E e \in Expenses : DeleteGroupExpense(e) \/ DeleteGroup(e)
    BY <2>2, <1>3
  <2> QED
    BY <1>1, <1>5, <2>1, <2>2 DEF Next
<1> QED
  BY <1>4, <1>5

LEMMA HistoryInit == Init => HistoryInv
BY DEF Init, HistoryInv, KnownAmounts, Idle

LEMMA HistoryExplains ==
  ASSUME HistoryInv
  PROVE  AmountsAreLogged
BY DEF HistoryInv, AmountsAreLogged, KnownAmounts

\* However edits overlap, fail or are undone by others, an amount the ledger
\* shows is one its edit history mentions, unless an entry could not be written.
THEOREM AmountsExplained == Spec => []AmountsAreLogged
BY TypeInit, TypeStep, HistoryInit, HistoryStep, HistoryExplains, PTL DEF Spec

-----------------------------------------------------------------------------
(* The type gives the direction, when every person's number is written in  *)
(* one way: numbers are compared as spelled before the parties are         *)
(* swapped. Rows whose created_by is a number (group rows, confirmations)  *)
(* or empty are not concerned.                                             *)

OneFormEach == \A n, m \in Callers \cup Contacts : n[1] = m[1] => n = m

Fits(row) ==
  row.by \in People =>
    /\ row.from \in Callers \cup Contacts /\ row.to \in Callers \cup Contacts
    /\ row.from # row.to
    /\ row.by \in {row.from[1], row.to[1]}
    /\ row.type = "give" <=> row.from[1] = row.by

InitialRowsFit == \A old \in InitialRows : \A id \in DOMAIN old : Fits(old[id])

\* A pending save fits as well as the rows do: it is written later as it is.
DirectionInv ==
  /\ \A id \in Ids : Exists(id) => Fits(rows[id])
  /\ \A h \in Handlers : plan[h].op = "save" => Fits(plan[h].row)

LEMMA WithTypeFits ==
  ASSUME OneFormEach, PeopleAssumption, NEW n \in Callers, NEW type \in Types,
         NEW row \in Row, Fits(row), IsOwner(row, n)
  PROVE  Fits(WithType(row, n, type))
<1> DEFINE new == WithType(row, n, type)
<1>1. new \in Row /\ new.by = row.by
  BY WithTypeIsRow
<1>2. SUFFICES ASSUME row.by \in People
               PROVE  Fits(new)
  BY <1>1 DEF Fits
<1>3. /\ row.from \in Callers \cup Contacts /\ row.to \in Callers \cup Contacts
      /\ row.from # row.to /\ row.by \in {row.from[1], row.to[1]}
      /\ row.type = "give" <=> row.from[1] = row.by
  BY <1>2 DEF Fits
<1>4. row.by = n[1]
  BY <1>2 DEF IsOwner, NamedAsCreator, Number
<1>5. n \in {row.from, row.to}
  BY <1>3, <1>4 DEF OneFormEach
<1>6. row.from[1] # row.to[1]
  BY <1>3 DEF OneFormEach
<1>7. CASE type \in {"give", "receive"} \ {row.type}
  <2>1. /\ new.from = row.to /\ new.to = row.from /\ new.type = type
        /\ row.type \in {"give", "receive"}
    BY <1>3, <1>4, <1>5, <1>6, <1>7 DEF WithType, Redirected, Row
  <2> QED
    BY <1>1, <1>3, <1>6, <1>7, <2>1 DEF Fits
<1>8. CASE type \notin {"give", "receive"} \ {row.type}
  BY <1>8 DEF WithType
<1> QED
  BY <1>7, <1>8

\* Fits looks at four columns only.
LEMMA FitsFrame ==
  ASSUME NEW a, NEW b, Fits(a), b.by = a.by, b.from = a.from, b.to = a.to, b.type = a.type
  PROVE  Fits(b)
BY DEF Fits

LEMMA DirectionStep ==
  ASSUME OneFormEach, TypeOK, DirectionInv, [Next]_vars
  PROVE  DirectionInv'
<1>1. ASSUME NEW n \in Callers, NEW contact \in Contacts, NEW type \in {"give", "receive"},
             NEW amount \in Amounts, NEW note \in Notes,
             CreateTransaction(n, contact, type, amount, note)
      PROVE  DirectionInv'
  <2> DEFINE new ==
        [from |-> IF type = "give" THEN n ELSE contact,
         to   |-> IF type = "give" THEN contact ELSE n,
         type |-> type, amount |-> amount, note |-> note, expense |-> Personal,
         by |-> n[1], live |-> TRUE, deleted |-> FALSE, archived |-> FALSE]
  <2>1. n # contact /\ n[1] # contact[1]
    BY <1>1 DEF CreateTransaction, OneFormEach
  <2>2. Fits(new)
    BY <2>1 DEF Fits
  <2>3. PICK id \in Ids : rows' = [rows EXCEPT ![id] = new]
    BY <1>1 DEF CreateTransaction
  <2>4. plan' = plan
    BY <1>1 DEF CreateTransaction
  <2> HIDE DEF new
  <2>5. \A k \in Ids : rows'[k] = new \/ rows'[k] = rows[k]
    BY <2>3 DEF TypeOK
  <2>6. \A k \in Ids : Exists(k)' => Fits(rows'[k])
    BY <2>2, <2>5 DEF DirectionInv, Exists
  <2> QED
    BY <2>4, <2>6 DEF DirectionInv
<1>2. ASSUME NEW h \in Handlers, NEW d, Decide(h, d), d.op = "save" => Fits(d.row)
      PROVE  DirectionInv'
  <2>1. rows' = rows /\ \A k \in Handlers : plan'[k] = plan[k] \/ plan'[k] = d
    BY <1>2 DEF Decide, TypeOK
  <2> QED
    BY <1>2, <2>1 DEF DirectionInv, Exists
<1>3. ASSUME NEW h \in Handlers, Request(h)
      PROVE  DirectionInv'
  <2> PICK n \in Callers, id \in Ids :
        \/ \E type \in Types, amount \in Amounts, note \in Notes :
             UpdateTransaction(h, id, n, type, amount, note)
        \/ DeleteTransaction(h, id, n)
        \/ ArchiveTransaction(h, id, n)
        \/ UnarchiveTransaction(h, id, n)
    BY <1>3 DEF Request, Types
  <2>0. ASSUME rows[id].live
        PROVE  rows[id] \in Row /\ Fits(rows[id])
    BY <2>0, LiveIsRow, ExistsKept DEF DirectionInv, Exists
  <2>1. ASSUME NEW type \in Types, NEW amount \in Amounts, NEW note \in Notes,
               UpdateTransaction(h, id, n, type, amount, note)
        PROVE  DirectionInv'
    <3> DEFINE new == Edited(rows[id], n, type, amount, note)
               log == IF new = rows[id] THEN <<>> ELSE <<Entry(rows[id].amount, amount)>>
    <3>1. rows[id] \in Row /\ Fits(rows[id]) /\ IsOwner(rows[id], n) /\ amount \in Nat
      BY <2>0, <2>1, BoundAssumption DEF UpdateTransaction
    <3>2. Fits(WithType(rows[id], n, type)) /\ WithType(rows[id], n, type) \in Row
      BY <3>1, WithTypeFits, WithTypeIsRow, PeopleAssumption
    <3>3. /\ new.by = WithType(rows[id], n, type).by
          /\ new.from = WithType(rows[id], n, type).from
          /\ new.to = WithType(rows[id], n, type).to
          /\ new.type = WithType(rows[id], n, type).type
      BY <3>2 DEF Edited, Row
    <3>4. Fits(new)
      BY <3>2, <3>3, FitsFrame
    <3>5. Decide(h, [op |-> "save", id |-> id, row |-> new, log |-> log])
      BY <2>1 DEF UpdateTransaction, Edited
    <3> HIDE DEF new, log
    <3> QED
      BY <1>2, <3>4, <3>5
  <2>2. CASE DeleteTransaction(h, id, n)
    <3> DEFINE new == [rows[id] EXCEPT !.deleted = TRUE]
               log == <<Entry(rows[id].amount, 0)>>
    <3>1. rows[id] \in Row /\ Fits(rows[id])
      BY <2>0, <2>2 DEF DeleteTransaction
    <3>2. Fits(new)
      BY <3>1, FitsFrame DEF Row
    <3>3. Decide(h, [op |-> "save", id |-> id, row |-> new, log |-> log])
      BY <2>2 DEF DeleteTransaction
    <3> HIDE DEF new, log
    <3> QED
      BY <1>2, <3>2, <3>3
  <2>3. ASSUME NEW to \in BOOLEAN, Decide(h, [op |-> "archive", id |-> id, to |-> to])
        PROVE  DirectionInv'
    BY <1>2, <2>3
  <2> QED
    BY <2>1, <2>2, <2>3 DEF ArchiveTransaction, UnarchiveTransaction
<1>4. ASSUME NEW h \in Handlers, CreateEditLog(h)
      PROVE  DirectionInv'
  <2>1. rows' = rows /\ plan' = [plan EXCEPT ![h].log = <<>>]
    BY <1>4 DEF CreateEditLog
  <2>2. /\ plan[h] = [op |-> "save", id |-> plan[h].id, row |-> plan[h].row, log |-> plan[h].log]
        /\ Fits(plan[h].row)
    BY <1>4, SavePlan DEF CreateEditLog, TypeOK, DirectionInv
  <2>3. \A k \in Handlers : plan'[k] = plan[k] \/ plan'[k].row = plan[h].row
    BY <2>1, <2>2 DEF TypeOK
  <2> QED
    BY <2>1, <2>2, <2>3 DEF DirectionInv, Exists
<1>5. ASSUME NEW h \in Handlers, SaveTransaction(h)
      PROVE  DirectionInv'
  <2>1. /\ \A id \in Ids : rows'[id] = plan[h].row \/ rows'[id] = rows[id]
        /\ plan' = [plan EXCEPT ![h] = Idle]
    BY <1>5 DEF SaveTransaction, Finish, TypeOK
  <2>2. Fits(plan[h].row)
    BY <1>5 DEF SaveTransaction, DirectionInv
  <2> QED
    BY <2>1, <2>2 DEF DirectionInv, Exists, TypeOK, Idle
<1>6. ASSUME \A id \in Ids : Exists(id)' =>
               /\ Exists(id) /\ rows'[id].by = rows[id].by /\ rows'[id].from = rows[id].from
               /\ rows'[id].to = rows[id].to /\ rows'[id].type = rows[id].type,
             \A h \in Handlers : plan'[h] = plan[h] \/ plan'[h] = Idle
      PROVE  DirectionInv'
  <2>1. \A id \in Ids : Exists(id)' => Fits(rows'[id])
    BY <1>6, FitsFrame DEF DirectionInv
  <2>2. \A h \in Handlers : plan'[h].op = "save" => Fits(plan'[h].row)
    BY <1>6 DEF DirectionInv, Idle
  <2> QED
    BY <2>1, <2>2 DEF DirectionInv
<1>7. ASSUME NEW h \in Handlers, SetArchived(h) \/ GiveUp(h)
      PROVE  DirectionInv'
  <2>1. \A k \in Handlers : plan'[k] = plan[k] \/ plan'[k] = Idle
    BY <1>7 DEF SetArchived, GiveUp, Finish, TypeOK
  <2>2. ASSUME NEW id \in Ids, Exists(id)'
        PROVE  /\ Exists(id) /\ rows'[id].by = rows[id].by /\ rows'[id].from = rows[id].from
               /\ rows'[id].to = rows[id].to /\ rows'[id].type = rows[id].type
    <3>1. rows'[id] = rows[id]
          \/ (rows[id].live /\ rows'[id] = [rows[id] EXCEPT !.archived = plan[h].to])
      BY <1>7 DEF SetArchived, GiveUp, TypeOK
    <3>2. rows[id].live => rows[id] \in Row
      BY LiveIsRow
    <3> QED
      BY <2>2, <3>1, <3>2, ExistsKept DEF Exists, Row
  <2> QED
    BY <1>6, <2>1, <2>2
<1>8. ASSUME NEW e \in Expenses, DeleteGroupExpense(e) \/ DeleteGroup(e)
      PROVE  DirectionInv'
  <2>1. PICK marked \in BOOLEAN, removed \in BOOLEAN : rows' = DeleteRowsOf(e, marked, removed)
    BY <1>8 DEF DeleteGroupExpense, DeleteGroup
  <2>2. plan' = plan
    BY <1>8 DEF DeleteGroupExpense, DeleteGroup
  <2>3. ASSUME NEW id \in Ids, Exists(id)'
        PROVE  /\ Exists(id) /\ rows'[id].by = rows[id].by /\ rows'[id].from = rows[id].from
               /\ rows'[id].to = rows[id].to /\ rows'[id].type = rows[id].type
    <3>1. rows'[id] = rows[id]
          \/ (rows[id].live
              /\ rows'[id] = [rows[id] EXCEPT !.deleted = @ \/ marked, !.live = ~removed])
      BY <2>1 DEF DeleteRowsOf
    <3>2. rows[id].live => rows[id] \in Row
      BY LiveIsRow
    <3> QED
      BY <2>3, <3>1, <3>2, ExistsKept DEF Exists, Row
  <2> QED
    BY <1>6, <2>2, <2>3
<1>9. CASE UNCHANGED vars
  BY <1>9 DEF vars, DirectionInv, Exists
<1>10. CASE Next
  <2>1. CASE \E h \in Handlers : Request(h) \/ Write(h)
    BY <2>1, <1>3, <1>4, <1>5, <1>7 DEF Write
  <2>2. CASE \E e \in Expenses : DeleteGroupExpense(e) \/ DeleteGroup(e)
    BY <2>2, <1>8
  <2> QED
    BY <1>1, <1>10, <2>1, <2>2 DEF Next
<1> QED
  BY <1>9, <1>10

LEMMA DirectionInit ==
  ASSUME InitialRowsFit, Init
  PROVE  DirectionInv
BY DEF InitialRowsFit, Init, DirectionInv, Exists, Idle

LEMMA FitsGivesDirection ==
  ASSUME DirectionInv
  PROVE  TypeMatchesDirection
BY DEF DirectionInv, TypeMatchesDirection, Fits

\* However edits of type, amount and note overlap, a transaction is "give"
\* exactly when its creator is the payer, as long as nobody's number is written
\* in two ways.
THEOREM DirectionsMatch ==
  ASSUME OneFormEach, InitialRowsFit
  PROVE  Spec => []TypeMatchesDirection
<1>1. Init => TypeOK /\ DirectionInv
  BY TypeInit, DirectionInit
<1>2. TypeOK /\ DirectionInv /\ [Next]_vars => TypeOK' /\ DirectionInv'
  BY TypeStep, DirectionStep
<1>3. DirectionInv => TypeMatchesDirection
  BY FitsGivesDirection
<1> QED
  BY <1>1, <1>2, <1>3, PTL DEF Spec

-----------------------------------------------------------------------------
(* What the API shows of the ledger agrees. The sums of the model are       *)
(* Totals (SetSums): a summary sums signed amounts over the rows between    *)
(* two people; a dashboard keeps a net per person, which is the summary.    *)

PeerRows(n, contact) ==
  {id \in Ids : /\ CountsForPeers(id) /\ Involves(rows[id], n)
                /\ SameMobile(ContactOf(rows[id], n), contact)}
AmountsOfRows == [id \in Ids |-> rows[id].amount]
SignedFor(n) == [id \in Ids |-> SignedAmount(rows[id], n)]
Owing(n) == [p \in People |-> SummaryBalance(n, Spelled(p))]
OwedParts(n) == [p \in People |-> Positive(DashboardNet(n, p))]
OwingParts(n) == [p \in People |-> Positive(0 - DashboardNet(n, p))]
Dashboards == [p \in People |-> DashboardBalance(Spelled(p))]

LEMMA IdsFinite == IsFiniteSet(Ids)
BY BoundAssumption, FS_Interval DEF Ids

LEMMA AmountsAreTotals ==
  ASSUME NEW R \in SUBSET Ids
  PROVE  MapThenSumSet(LAMBDA id : rows[id].amount, R) = Total(AmountsOfRows, R)
<1> DEFINE S == R
           f == AmountsOfRows
           iter == CHOOSE r : r = [s \in SUBSET S |->
                     IF s = {} THEN 0 ELSE rows[Some(s)].amount + r[s \ {Some(s)}]]
<1>1. IsFiniteSet(S) /\ S \subseteq Ids
  BY IdsFinite, FS_Subset
<1>2. PICK r : IsSum(r, f, S)
  <2> HIDE DEF S, f
  <2> QED
    BY <1>1, SumExists
<1>3. \A s \in SUBSET S : s # {} => f[Some(s)] = rows[Some(s)].amount
  <2> HIDE DEF S
  <2> QED
    BY <1>1, SomeMember DEF AmountsOfRows
<1>4. MapThenSumSet(LAMBDA id : rows[id].amount, R) = iter[S]
  BY DEF MapThenSumSet, MapThenFoldSet, Some
<1> HIDE DEF S, f
<1>5. r = [s \in SUBSET S |-> IF s = {} THEN 0 ELSE rows[Some(s)].amount + r[s \ {Some(s)}]]
  BY <1>2, <1>3 DEF IsSum
<1>6. iter = [s \in SUBSET S |-> IF s = {} THEN 0 ELSE rows[Some(s)].amount + iter[s \ {Some(s)}]]
  BY <1>5
<1> HIDE DEF iter
<1>7. IsSum(iter, f, S)
  BY <1>3, <1>6 DEF IsSum
<1>8. S \in SUBSET S
  OBVIOUS
<1>9. iter[S] = Total(f, S)
  BY <1>1, <1>7, <1>8, TotalIsSum
<1> QED
  BY <1>4, <1>9 DEF S, f

LEMMA SummaryIsTotal ==
  ASSUME NEW n, NEW contact
  PROVE  SummaryBalance(n, contact) = Total(SignedFor(n), PeerRows(n, contact))
<1> DEFINE S == PeerRows(n, contact)
           f == SignedFor(n)
           iter == CHOOSE r : r = [s \in SUBSET S |->
                     IF s = {} THEN 0 ELSE SignedAmount(rows[Some(s)], n) + r[s \ {Some(s)}]]
<1>1. IsFiniteSet(S) /\ S \subseteq Ids
  BY IdsFinite, FS_Subset DEF PeerRows
<1>2. PICK r : IsSum(r, f, S)
  <2> HIDE DEF S, f
  <2> QED
    BY <1>1, SumExists
<1>3. \A s \in SUBSET S : s # {} => f[Some(s)] = SignedAmount(rows[Some(s)], n)
  <2> HIDE DEF S
  <2> QED
    BY <1>1, SomeMember DEF SignedFor
<1>4. SummaryBalance(n, contact) = iter[S]
  BY DEF SummaryBalance, PeerRows, MapThenSumSet, MapThenFoldSet, Some
<1> HIDE DEF S, f
<1>5. r = [s \in SUBSET S |-> IF s = {} THEN 0 ELSE SignedAmount(rows[Some(s)], n) + r[s \ {Some(s)}]]
  BY <1>2, <1>3 DEF IsSum
<1>6. iter = [s \in SUBSET S |-> IF s = {} THEN 0 ELSE SignedAmount(rows[Some(s)], n) + iter[s \ {Some(s)}]]
  BY <1>5
<1> HIDE DEF iter
<1>7. IsSum(iter, f, S)
  BY <1>3, <1>6 DEF IsSum
<1>8. S \in SUBSET S
  OBVIOUS
<1>9. iter[S] = Total(f, S)
  BY <1>1, <1>7, <1>8, TotalIsSum
<1> QED
  BY <1>4, <1>9 DEF S, f

LEMMA ReceivedIsTotal ==
  ASSUME NEW n
  PROVE  DashboardReceived(n) = Total(OwedParts(n), People)
<1> DEFINE S == People
           f == OwedParts(n)
           iter == CHOOSE r : r = [s \in SUBSET S |->
                     IF s = {} THEN 0 ELSE Positive(DashboardNet(n, Some(s))) + r[s \ {Some(s)}]]
<1>1. IsFiniteSet(S) /\ S \subseteq People
  BY PeopleAssumption
<1>2. PICK r : IsSum(r, f, S)
  <2> HIDE DEF S, f
  <2> QED
    BY <1>1, SumExists
<1>3. \A s \in SUBSET S : s # {} => f[Some(s)] = Positive(DashboardNet(n, Some(s)))
  <2> HIDE DEF S
  <2> QED
    BY <1>1, SomeMember DEF OwedParts
<1>4. DashboardReceived(n) = iter[S]
  BY DEF DashboardReceived, MapThenSumSet, MapThenFoldSet, Some
<1> HIDE DEF S, f
<1>5. r = [s \in SUBSET S |-> IF s = {} THEN 0 ELSE Positive(DashboardNet(n, Some(s))) + r[s \ {Some(s)}]]
  BY <1>2, <1>3 DEF IsSum
<1>6. iter = [s \in SUBSET S |-> IF s = {} THEN 0 ELSE Positive(DashboardNet(n, Some(s))) + iter[s \ {Some(s)}]]
  BY <1>5
<1> HIDE DEF iter
<1>7. IsSum(iter, f, S)
  BY <1>3, <1>6 DEF IsSum
<1>8. S \in SUBSET S
  OBVIOUS
<1>9. iter[S] = Total(f, S)
  BY <1>1, <1>7, <1>8, TotalIsSum
<1> QED
  BY <1>4, <1>9 DEF S, f

LEMMA GivenIsTotal ==
  ASSUME NEW n
  PROVE  DashboardGiven(n) = Total(OwingParts(n), People)
<1> DEFINE S == People
           f == OwingParts(n)
           iter == CHOOSE r : r = [s \in SUBSET S |->
                     IF s = {} THEN 0 ELSE Positive(0 - DashboardNet(n, Some(s))) + r[s \ {Some(s)}]]
<1>1. IsFiniteSet(S) /\ S \subseteq People
  BY PeopleAssumption
<1>2. PICK r : IsSum(r, f, S)
  <2> HIDE DEF S, f
  <2> QED
    BY <1>1, SumExists
<1>3. \A s \in SUBSET S : s # {} => f[Some(s)] = Positive(0 - DashboardNet(n, Some(s)))
  <2> HIDE DEF S
  <2> QED
    BY <1>1, SomeMember DEF OwingParts
<1>4. DashboardGiven(n) = iter[S]
  BY DEF DashboardGiven, MapThenSumSet, MapThenFoldSet, Some
<1> HIDE DEF S, f
<1>5. r = [s \in SUBSET S |-> IF s = {} THEN 0 ELSE Positive(0 - DashboardNet(n, Some(s))) + r[s \ {Some(s)}]]
  BY <1>2, <1>3 DEF IsSum
<1>6. iter = [s \in SUBSET S |-> IF s = {} THEN 0 ELSE Positive(0 - DashboardNet(n, Some(s))) + iter[s \ {Some(s)}]]
  BY <1>5
<1> HIDE DEF iter
<1>7. IsSum(iter, f, S)
  BY <1>3, <1>6 DEF IsSum
<1>8. S \in SUBSET S
  OBVIOUS
<1>9. iter[S] = Total(f, S)
  BY <1>1, <1>7, <1>8, TotalIsSum
<1> QED
  BY <1>4, <1>9 DEF S, f

LEMMA SummariesAreTotal ==
  ASSUME NEW n
  PROVE  MapThenSumSet(LAMBDA p : SummaryBalance(n, Spelled(p)), People) = Total(Owing(n), People)
<1> DEFINE S == People
           f == Owing(n)
           iter == CHOOSE r : r = [s \in SUBSET S |->
                     IF s = {} THEN 0 ELSE SummaryBalance(n, Spelled(Some(s))) + r[s \ {Some(s)}]]
<1>1. IsFiniteSet(S) /\ S \subseteq People
  BY PeopleAssumption
<1>2. PICK r : IsSum(r, f, S)
  <2> HIDE DEF S, f
  <2> QED
    BY <1>1, SumExists
<1>3. \A s \in SUBSET S : s # {} => f[Some(s)] = SummaryBalance(n, Spelled(Some(s)))
  <2> HIDE DEF S
  <2> QED
    BY <1>1, SomeMember DEF Owing
<1>4. MapThenSumSet(LAMBDA p : SummaryBalance(n, Spelled(p)), People) = iter[S]
  BY DEF MapThenSumSet, MapThenFoldSet, Some
<1> HIDE DEF S, f
<1>5. r = [s \in SUBSET S |-> IF s = {} THEN 0 ELSE SummaryBalance(n, Spelled(Some(s))) + r[s \ {Some(s)}]]
  BY <1>2, <1>3 DEF IsSum
<1>6. iter = [s \in SUBSET S |-> IF s = {} THEN 0 ELSE SummaryBalance(n, Spelled(Some(s))) + iter[s \ {Some(s)}]]
  BY <1>5
<1> HIDE DEF iter
<1>7. IsSum(iter, f, S)
  BY <1>3, <1>6 DEF IsSum
<1>8. S \in SUBSET S
  OBVIOUS
<1>9. iter[S] = Total(f, S)
  BY <1>1, <1>7, <1>8, TotalIsSum
<1> QED
  BY <1>4, <1>9 DEF S, f

LEMMA DashboardsAreTotal ==
  MapThenSumSet(LAMBDA p : DashboardBalance(Spelled(p)), People) = Total(Dashboards, People)
<1> DEFINE S == People
           f == Dashboards
           iter == CHOOSE r : r = [s \in SUBSET S |->
                     IF s = {} THEN 0 ELSE DashboardBalance(Spelled(Some(s))) + r[s \ {Some(s)}]]
<1>1. IsFiniteSet(S) /\ S \subseteq People
  BY PeopleAssumption
<1>2. PICK r : IsSum(r, f, S)
  <2> HIDE DEF S, f
  <2> QED
    BY <1>1, SumExists
<1>3. \A s \in SUBSET S : s # {} => f[Some(s)] = DashboardBalance(Spelled(Some(s)))
  <2> HIDE DEF S
  <2> QED
    BY <1>1, SomeMember DEF Dashboards
<1>4. MapThenSumSet(LAMBDA p : DashboardBalance(Spelled(p)), People) = iter[S]
  BY DEF MapThenSumSet, MapThenFoldSet, Some
<1> HIDE DEF S, f
<1>5. r = [s \in SUBSET S |-> IF s = {} THEN 0 ELSE DashboardBalance(Spelled(Some(s))) + r[s \ {Some(s)}]]
  BY <1>2, <1>3 DEF IsSum
<1>6. iter = [s \in SUBSET S |-> IF s = {} THEN 0 ELSE DashboardBalance(Spelled(Some(s))) + iter[s \ {Some(s)}]]
  BY <1>5
<1> HIDE DEF iter
<1>7. IsSum(iter, f, S)
  BY <1>3, <1>6 DEF IsSum
<1>8. S \in SUBSET S
  OBVIOUS
<1>9. iter[S] = Total(f, S)
  BY <1>1, <1>7, <1>8, TotalIsSum
<1> QED
  BY <1>4, <1>9 DEF S, f

LEMMA CountedIsRow ==
  ASSUME TypeOK, NEW id \in Ids, Counted(id)
  PROVE  rows[id] \in Row /\ rows[id].amount \in Int
BY LiveIsRow DEF Counted, Row

LEMMA SummaryTyped ==
  ASSUME TypeOK, NEW n, NEW contact
  PROVE  /\ IsFiniteSet(PeerRows(n, contact)) /\ PeerRows(n, contact) \subseteq Ids
         /\ \A id \in PeerRows(n, contact) :
              rows[id] \in Row /\ rows[id].amount \in Int /\ SignedFor(n)[id] \in Int
         /\ SummaryBalance(n, contact) \in Int
<1>1. IsFiniteSet(PeerRows(n, contact)) /\ PeerRows(n, contact) \subseteq Ids
  BY IdsFinite, FS_Subset DEF PeerRows
<1>2. \A id \in PeerRows(n, contact) :
        rows[id] \in Row /\ rows[id].amount \in Int /\ SignedFor(n)[id] \in Int
  <2> SUFFICES ASSUME NEW id \in PeerRows(n, contact)
               PROVE  rows[id] \in Row /\ rows[id].amount \in Int /\ SignedFor(n)[id] \in Int
    OBVIOUS
  <2>1. id \in Ids /\ rows[id] \in Row /\ rows[id].amount \in Int
    BY CountedIsRow DEF PeerRows, CountsForPeers
  <2>2. SignedFor(n)[id] = SignedAmount(rows[id], n)
    BY <2>1 DEF SignedFor
  <2> QED
    BY <2>1, <2>2 DEF SignedAmount
<1>3. SummaryBalance(n, contact) \in Int
  BY <1>1, <1>2, SummaryIsTotal, TotalType
<1> QED
  BY <1>1, <1>2, <1>3

\* No row is from a person to himself.
BetweenTwo(row) == row.from[1] # row.to[1]
NoRowToSelf == \A id \in Ids : Exists(id) => BetweenTwo(rows[id])

\* Both parties sum the same rows, with opposite signs; nobody has a summary
\* with himself.
LEMMA SummariesOppose ==
  ASSUME TypeOK, NoRowToSelf, NEW n, NEW contact
  PROVE  SummaryBalance(n, contact) + SummaryBalance(contact, n) = 0
<1> DEFINE S == PeerRows(n, contact)
<1>1. \A id \in Ids : CountsForPeers(id) => rows[id].from[1] # rows[id].to[1]
  BY CountedIsRow DEF NoRowToSelf, BetweenTwo, Exists, CountsForPeers, Counted, NoRow
<1>2. ASSUME n[1] = contact[1]
      PROVE  SummaryBalance(n, contact) = 0 /\ SummaryBalance(contact, n) = 0
  <2>1. PeerRows(n, contact) = {} /\ PeerRows(contact, n) = {}
    BY <1>1, <1>2 DEF PeerRows, Involves, SameMobile, ContactOf, UserIsPayer
  <2> QED
    BY <2>1, SummaryIsTotal, TotalEmpty
<1>3. ASSUME n[1] # contact[1]
      PROVE  SummaryBalance(n, contact) + SummaryBalance(contact, n) = 0
  <2>1. PeerRows(contact, n) = S
    BY <1>1, <1>3 DEF PeerRows, Involves, SameMobile, ContactOf, UserIsPayer
  <2>2. \A id \in S : /\ SignedFor(n)[id] \in Int /\ SignedFor(contact)[id] \in Int
                      /\ SignedFor(n)[id] + SignedFor(contact)[id] = 0
    <3> SUFFICES ASSUME NEW id \in S
                 PROVE  /\ SignedFor(n)[id] \in Int /\ SignedFor(contact)[id] \in Int
                        /\ SignedFor(n)[id] + SignedFor(contact)[id] = 0
      OBVIOUS
    <3>1. id \in Ids /\ rows[id].amount \in Int /\ id \in PeerRows(contact, n)
      BY <2>1, SummaryTyped
    <3>2. rows[id].from[1] = n[1] <=> rows[id].from[1] # contact[1]
      BY <1>1, <1>3 DEF PeerRows, Involves, SameMobile, ContactOf, UserIsPayer
    <3>3. /\ SignedFor(n)[id] = SignedAmount(rows[id], n)
          /\ SignedFor(contact)[id] = SignedAmount(rows[id], contact)
      BY <3>1 DEF SignedFor
    <3> QED
      BY <3>1, <3>2, <3>3 DEF SignedAmount, UserIsPayer, SameMobile
  <2>3. IsFiniteSet(S)
    BY SummaryTyped
  <2>4. Total(SignedFor(n), S) + Total(SignedFor(contact), S) = 0
    <3> HIDE DEF S
    <3> QED
      BY <2>2, <2>3, TotalCancels
  <2> QED
    BY <2>1, <2>4, SummaryIsTotal
<1> QED
  BY <1>2, <1>3

\* The loop of the dashboard and the summary of a contact split the same rows
\* in the same two parts.
LEMMA NetIsSummary ==
  ASSUME TypeOK, NEW n, NEW p
  PROVE  DashboardNet(n, p) = SummaryBalance(n, Spelled(p))
<1> DEFINE S == PeerRows(n, Spelled(p))
           paid == {id \in S : UserIsPayer(rows[id], n)}
           got == {id \in S : ~UserIsPayer(rows[id], n)}
           f == [id \in Ids |-> IF id \in paid THEN rows[id].amount ELSE 0]
           g == [id \in Ids |-> IF id \in got THEN rows[id].amount ELSE 0]
<1>1. LentTo(n, p) = paid /\ BorrowedFrom(n, p) = got
  BY DEF LentTo, BorrowedFrom, PeerRows, Involves, SameMobile, ContactOf, UserIsPayer, Spelled
<1>2. IsFiniteSet(S) /\ S \subseteq Ids /\ paid \subseteq S /\ got \subseteq S
  BY SummaryTyped
<1>3. /\ MapThenSumSet(LAMBDA id : rows[id].amount, LentTo(n, p)) = Total(AmountsOfRows, paid)
      /\ MapThenSumSet(LAMBDA id : rows[id].amount, BorrowedFrom(n, p)) = Total(AmountsOfRows, got)
  BY <1>1, <1>2, AmountsAreTotals
<1>5. \A id \in S : /\ rows[id].amount \in Int /\ SignedFor(n)[id] \in Int
                    /\ f[id] \in Int /\ g[id] \in Int
                    /\ f[id] = SignedFor(n)[id] + g[id]
  <2> SUFFICES ASSUME NEW id \in S
               PROVE  /\ rows[id].amount \in Int /\ SignedFor(n)[id] \in Int
                      /\ f[id] \in Int /\ g[id] \in Int
                      /\ f[id] = SignedFor(n)[id] + g[id]
    OBVIOUS
  <2>1. id \in Ids /\ rows[id].amount \in Int
    BY SummaryTyped
  <2>2. SignedFor(n)[id] = SignedAmount(rows[id], n)
    BY <2>1 DEF SignedFor
  <2>3. id \in paid <=> UserIsPayer(rows[id], n)
    OBVIOUS
  <2>4. id \in got <=> ~UserIsPayer(rows[id], n)
    OBVIOUS
  <2>5. /\ f[id] = (IF UserIsPayer(rows[id], n) THEN rows[id].amount ELSE 0)
        /\ g[id] = (IF UserIsPayer(rows[id], n) THEN 0 ELSE rows[id].amount)
    <3> HIDE DEF paid, got
    <3> QED
      BY <2>1, <2>3, <2>4
  <2> HIDE DEF f, g
  <2> QED
    BY <2>1, <2>2, <2>5 DEF SignedAmount
<1>6. /\ \A id \in S \ paid : f[id] = 0
      /\ \A id \in S \ got : g[id] = 0
      /\ \A id \in paid : f[id] = AmountsOfRows[id]
      /\ \A id \in got : g[id] = AmountsOfRows[id]
  <2> HIDE DEF paid, got, S
  <2> QED
    BY <1>2 DEF AmountsOfRows
<1> HIDE DEF paid, got, f, g, S
<1>7. Total(f, S) = Total(SignedFor(n), S) + Total(g, S)
  BY <1>2, <1>5, TotalPlus
<1>8. Total(f, S) = Total(AmountsOfRows, paid)
  <2>1. IsFiniteSet(paid)
    BY <1>2, FS_Subset
  <2>2. Total(f, S) = Total(f, paid)
    BY <1>2, <1>5, <1>6, TotalRestrict
  <2>3. Total(f, paid) = Total(AmountsOfRows, paid)
    BY <2>1, <1>6, TotalEqual
  <2> QED
    BY <2>2, <2>3
<1>9. Total(g, S) = Total(AmountsOfRows, got)
  <2>1. IsFiniteSet(got)
    BY <1>2, FS_Subset
  <2>2. Total(g, S) = Total(g, got)
    BY <1>2, <1>5, <1>6, TotalRestrict
  <2>3. Total(g, got) = Total(AmountsOfRows, got)
    BY <2>1, <1>6, TotalEqual
  <2> QED
    BY <2>2, <2>3
<1>10. Total(g, S) \in Int /\ Total(SignedFor(n), S) \in Int
  BY <1>2, <1>5, TotalType
<1> QED
  BY <1>3, <1>7, <1>8, <1>9, <1>10, SummaryIsTotal DEF DashboardNet, S

\* A dashboard is the sum of the summaries, whatever their signs.
LEMMA DashboardIsTotal ==
  ASSUME TypeOK, NEW n
  PROVE  DashboardBalance(n) = Total(Owing(n), People)
<1>1. \A p \in People : /\ Owing(n)[p] \in Int /\ OwingParts(n)[p] \in Int
                        /\ OwedParts(n)[p] = Owing(n)[p] + OwingParts(n)[p]
  <2> SUFFICES ASSUME NEW p \in People
               PROVE  /\ Owing(n)[p] \in Int /\ OwingParts(n)[p] \in Int
                      /\ OwedParts(n)[p] = Owing(n)[p] + OwingParts(n)[p]
    OBVIOUS
  <2> DEFINE x == SummaryBalance(n, Spelled(p))
  <2>1. x \in Int
    BY SummaryTyped
  <2>2. Owing(n)[p] = x /\ OwedParts(n)[p] = Positive(x) /\ OwingParts(n)[p] = Positive(0 - x)
    BY NetIsSummary DEF Owing, OwedParts, OwingParts
  <2> HIDE DEF x
  <2> QED
    BY <2>1, <2>2 DEF Positive
<1>2. Total(OwedParts(n), People) = Total(Owing(n), People) + Total(OwingParts(n), People)
  BY <1>1, PeopleAssumption, TotalPlus
<1>3. Total(Owing(n), People) \in Int /\ Total(OwingParts(n), People) \in Int
  BY <1>1, PeopleAssumption, TotalType
<1> QED
  BY <1>2, <1>3, ReceivedIsTotal, GivenIsTotal DEF DashboardBalance

LEMMA DashboardsCancel ==
  ASSUME TypeOK, NoRowToSelf
  PROVE  MapThenSumSet(LAMBDA p : DashboardBalance(Spelled(p)), People) = 0
<1> DEFINE M == [p \in People |-> Owing(Spelled(p))]
<1>1. \A p, q \in People : M[p][q] \in Int /\ M[p][q] + M[q][p] = 0
  BY SummaryTyped, SummariesOppose DEF Owing
<1>2. \A p \in People : Dashboards[p] = Total(M[p], People)
  BY DashboardIsTotal DEF Dashboards
<1> HIDE DEF M
<1> DEFINE sums == [p \in People |-> Total(M[p], People)]
<1>3. Total(sums, People) = 0
  BY <1>1, PeopleAssumption, TotalSkew
<1>4. \A p \in People : Dashboards[p] = sums[p]
  BY <1>2
<1> HIDE DEF sums
<1>5. Total(Dashboards, People) = Total(sums, People)
  BY <1>4, PeopleAssumption, TotalEqual
<1> QED
  BY <1>3, <1>5, DashboardsAreTotal

\* Without group rows the history counts the rows of the summary, once on
\* either side.
LEMMA HistoryIsSummary ==
  ASSUME TypeOK, NEW n, NEW contact,
         \A id \in HistoryRows(n, contact) : rows[id].expense = Personal
  PROVE  HistoryBalance(n, contact) = SummaryBalance(n, contact)
<1> DEFINE S == PeerRows(n, contact)
           paid == {id \in S : UserIsPayer(rows[id], n)}
           got == {id \in S : ~UserIsPayer(rows[id], n)}
           f == [id \in Ids |-> IF id \in paid THEN rows[id].amount ELSE 0]
           g == [id \in Ids |-> IF id \in got THEN rows[id].amount ELSE 0]
<1>1. HistoryRows(n, contact) = S
  BY DEF HistoryRows, PeerRows, CountsForPeers, Between, Involves, SameMobile, ContactOf,
         UserIsPayer
<1>2. IsFiniteSet(S) /\ S \subseteq Ids /\ paid \subseteq S /\ got \subseteq S
  BY SummaryTyped
<1>3. TotalGiven(n, contact) = Total(AmountsOfRows, paid)
  <2>1. TotalGiven(n, contact) = MapThenSumSet(LAMBDA id : rows[id].amount, paid)
    BY <1>1 DEF TotalGiven
  <2> QED
    BY <1>2, <2>1, AmountsAreTotals
<1>4. TotalReceived(n, contact) = Total(AmountsOfRows, got)
  <2>1. TotalReceived(n, contact) = MapThenSumSet(LAMBDA id : rows[id].amount, got)
    BY <1>1 DEF TotalReceived
  <2> QED
    BY <1>2, <2>1, AmountsAreTotals
<1>5. \A id \in S : /\ rows[id].amount \in Int /\ SignedFor(n)[id] \in Int
                    /\ f[id] \in Int /\ g[id] \in Int
                    /\ f[id] = SignedFor(n)[id] + g[id]
  <2> SUFFICES ASSUME NEW id \in S
               PROVE  /\ rows[id].amount \in Int /\ SignedFor(n)[id] \in Int
                      /\ f[id] \in Int /\ g[id] \in Int
                      /\ f[id] = SignedFor(n)[id] + g[id]
    OBVIOUS
  <2>1. id \in Ids /\ rows[id].amount \in Int
    BY SummaryTyped
  <2>2. SignedFor(n)[id] = SignedAmount(rows[id], n)
    BY <2>1 DEF SignedFor
  <2>3. id \in paid <=> UserIsPayer(rows[id], n)
    OBVIOUS
  <2>4. id \in got <=> ~UserIsPayer(rows[id], n)
    OBVIOUS
  <2>5. /\ f[id] = (IF UserIsPayer(rows[id], n) THEN rows[id].amount ELSE 0)
        /\ g[id] = (IF UserIsPayer(rows[id], n) THEN 0 ELSE rows[id].amount)
    <3> HIDE DEF paid, got
    <3> QED
      BY <2>1, <2>3, <2>4
  <2> HIDE DEF f, g
  <2> QED
    BY <2>1, <2>2, <2>5 DEF SignedAmount
<1>6. /\ \A id \in S \ paid : f[id] = 0
      /\ \A id \in S \ got : g[id] = 0
      /\ \A id \in paid : f[id] = AmountsOfRows[id]
      /\ \A id \in got : g[id] = AmountsOfRows[id]
  <2> HIDE DEF paid, got, S
  <2> QED
    BY <1>2 DEF AmountsOfRows
<1> HIDE DEF paid, got, f, g, S
<1>7. Total(f, S) = Total(SignedFor(n), S) + Total(g, S)
  BY <1>2, <1>5, TotalPlus
<1>8. Total(f, S) = Total(AmountsOfRows, paid)
  <2>1. IsFiniteSet(paid)
    BY <1>2, FS_Subset
  <2>2. Total(f, S) = Total(f, paid)
    BY <1>2, <1>5, <1>6, TotalRestrict
  <2>3. Total(f, paid) = Total(AmountsOfRows, paid)
    BY <2>1, <1>6, TotalEqual
  <2> QED
    BY <2>2, <2>3
<1>9. Total(g, S) = Total(AmountsOfRows, got)
  <2>1. IsFiniteSet(got)
    BY <1>2, FS_Subset
  <2>2. Total(g, S) = Total(g, got)
    BY <1>2, <1>5, <1>6, TotalRestrict
  <2>3. Total(g, got) = Total(AmountsOfRows, got)
    BY <2>1, <1>6, TotalEqual
  <2> QED
    BY <2>2, <2>3
<1>10. Total(g, S) \in Int /\ Total(SignedFor(n), S) \in Int
  BY <1>2, <1>5, TotalType
<1> QED
  BY <1>3, <1>4, <1>7, <1>8, <1>9, <1>10, SummaryIsTotal DEF HistoryBalance, S

LEMMA ViewsFromRows ==
  ASSUME TypeOK, NoRowToSelf
  PROVE  ViewsAgree
<1>1. \A n, contact \in Callers \cup Contacts :
        SummaryBalance(n, contact) = 0 - SummaryBalance(contact, n)
  <2> SUFFICES ASSUME NEW n \in Callers \cup Contacts, NEW contact \in Callers \cup Contacts
               PROVE  SummaryBalance(n, contact) = 0 - SummaryBalance(contact, n)
    OBVIOUS
  <2>1. SummaryBalance(n, contact) \in Int /\ SummaryBalance(contact, n) \in Int
    BY SummaryTyped
  <2> QED
    BY <2>1, SummariesOppose
<1>2. \A n, contact \in Callers \cup Contacts :
        (\A id \in HistoryRows(n, contact) : rows[id].expense = Personal) =>
          HistoryBalance(n, contact) = SummaryBalance(n, contact)
  BY HistoryIsSummary
<1>3. \A n \in Callers \cup Contacts :
        DashboardBalance(n) = MapThenSumSet(LAMBDA p : SummaryBalance(n, Spelled(p)), People)
  <2> SUFFICES ASSUME NEW n \in Callers \cup Contacts
               PROVE  DashboardBalance(n)
                        = MapThenSumSet(LAMBDA p : SummaryBalance(n, Spelled(p)), People)
    OBVIOUS
  <2> QED
    BY DashboardIsTotal, SummariesAreTotal
<1> QED
  BY <1>1, <1>2, <1>3, DashboardsCancel DEF ViewsAgree

-----------------------------------------------------------------------------
(* CreateTransaction refuses a number that is the caller's as spelled, so  *)
(* no row is from a person to himself as long as a caller is not written   *)
(* in one way in his token and in another in a request.                    *)

RequestsApart == \A n \in Callers, contact \in Contacts : n # contact => n[1] # contact[1]
InitialRowsApart == \A old \in InitialRows : \A id \in DOMAIN old : BetweenTwo(old[id])

ApartInv ==
  /\ NoRowToSelf
  /\ \A h \in Handlers : plan[h].op = "save" => BetweenTwo(plan[h].row)

LEMMA ApartStep ==
  ASSUME RequestsApart, TypeOK, ApartInv, [Next]_vars
  PROVE  ApartInv'
<1>1. ASSUME NEW n \in Callers, NEW contact \in Contacts, NEW type \in {"give", "receive"},
             NEW amount \in Amounts, NEW note \in Notes,
             CreateTransaction(n, contact, type, amount, note)
      PROVE  ApartInv'
  <2> DEFINE new ==
        [from |-> IF type = "give" THEN n ELSE contact,
         to   |-> IF type = "give" THEN contact ELSE n,
         type |-> type, amount |-> amount, note |-> note, expense |-> Personal,
         by |-> n[1], live |-> TRUE, deleted |-> FALSE, archived |-> FALSE]
  <2>1. n # contact /\ n[1] # contact[1]
    BY <1>1 DEF CreateTransaction, RequestsApart
  <2>2. BetweenTwo(new)
    BY <2>1 DEF BetweenTwo
  <2>3. PICK id \in Ids : rows' = [rows EXCEPT ![id] = new]
    BY <1>1 DEF CreateTransaction
  <2>4. plan' = plan
    BY <1>1 DEF CreateTransaction
  <2> HIDE DEF new
  <2>5. \A k \in Ids : rows'[k] = new \/ rows'[k] = rows[k]
    BY <2>3 DEF TypeOK
  <2>6. \A k \in Ids : Exists(k)' => BetweenTwo(rows'[k])
    BY <2>2, <2>5 DEF ApartInv, NoRowToSelf, Exists
  <2> QED
    BY <2>4, <2>6 DEF ApartInv, NoRowToSelf
<1>2. ASSUME NEW h \in Handlers, NEW d, Decide(h, d), d.op = "save" => BetweenTwo(d.row)
      PROVE  ApartInv'
  <2>1. rows' = rows /\ \A k \in Handlers : plan'[k] = plan[k] \/ plan'[k] = d
    BY <1>2 DEF Decide, TypeOK
  <2> QED
    BY <1>2, <2>1 DEF ApartInv, NoRowToSelf, Exists
<1>3. ASSUME NEW h \in Handlers, Request(h)
      PROVE  ApartInv'
  <2> PICK n \in Callers, id \in Ids :
        \/ \E type \in Types, amount \in Amounts, note \in Notes :
             UpdateTransaction(h, id, n, type, amount, note)
        \/ DeleteTransaction(h, id, n)
        \/ ArchiveTransaction(h, id, n)
        \/ UnarchiveTransaction(h, id, n)
    BY <1>3 DEF Request, Types
  <2>0. ASSUME rows[id].live
        PROVE  rows[id] \in Row /\ BetweenTwo(rows[id])
    BY <2>0, LiveIsRow, ExistsKept DEF ApartInv, NoRowToSelf, Exists
  <2>1. ASSUME NEW type \in Types, NEW amount \in Amounts, NEW note \in Notes,
               UpdateTransaction(h, id, n, type, amount, note)
        PROVE  ApartInv'
    <3> DEFINE new == Edited(rows[id], n, type, amount, note)
               log == IF new = rows[id] THEN <<>> ELSE <<Entry(rows[id].amount, amount)>>
    <3>1. rows[id] \in Row /\ BetweenTwo(rows[id]) /\ amount \in Nat
      BY <2>0, <2>1, BoundAssumption DEF UpdateTransaction
    <3>2. BetweenTwo(WithType(rows[id], n, type)) /\ WithType(rows[id], n, type) \in Row
      BY <3>1, WithTypeIsRow DEF BetweenTwo, WithType, Redirected, Row
    <3>3. /\ new.from = WithType(rows[id], n, type).from
          /\ new.to = WithType(rows[id], n, type).to
      BY <3>2 DEF Edited, Row
    <3>4. BetweenTwo(new)
      BY <3>2, <3>3 DEF BetweenTwo
    <3>5. Decide(h, [op |-> "save", id |-> id, row |-> new, log |-> log])
      BY <2>1 DEF UpdateTransaction, Edited
    <3> HIDE DEF new, log
    <3> QED
      BY <1>2, <3>4, <3>5
  <2>2. CASE DeleteTransaction(h, id, n)
    <3> DEFINE new == [rows[id] EXCEPT !.deleted = TRUE]
               log == <<Entry(rows[id].amount, 0)>>
    <3>1. rows[id] \in Row /\ BetweenTwo(rows[id])
      BY <2>0, <2>2 DEF DeleteTransaction
    <3>2. BetweenTwo(new)
      BY <3>1 DEF BetweenTwo, Row
    <3>3. Decide(h, [op |-> "save", id |-> id, row |-> new, log |-> log])
      BY <2>2 DEF DeleteTransaction
    <3> HIDE DEF new, log
    <3> QED
      BY <1>2, <3>2, <3>3
  <2>3. ASSUME NEW to \in BOOLEAN, Decide(h, [op |-> "archive", id |-> id, to |-> to])
        PROVE  ApartInv'
    BY <1>2, <2>3
  <2> QED
    BY <2>1, <2>2, <2>3 DEF ArchiveTransaction, UnarchiveTransaction
<1>4. ASSUME NEW h \in Handlers, CreateEditLog(h)
      PROVE  ApartInv'
  <2>1. rows' = rows /\ plan' = [plan EXCEPT ![h].log = <<>>]
    BY <1>4 DEF CreateEditLog
  <2>2. /\ plan[h] = [op |-> "save", id |-> plan[h].id, row |-> plan[h].row, log |-> plan[h].log]
        /\ BetweenTwo(plan[h].row)
    BY <1>4, SavePlan DEF CreateEditLog, TypeOK, ApartInv
  <2>3. \A k \in Handlers : plan'[k] = plan[k] \/ plan'[k].row = plan[h].row
    BY <2>1, <2>2 DEF TypeOK
  <2> QED
    BY <2>1, <2>2, <2>3 DEF ApartInv, NoRowToSelf, Exists
<1>5. ASSUME NEW h \in Handlers, SaveTransaction(h)
      PROVE  ApartInv'
  <2>1. /\ \A id \in Ids : rows'[id] = plan[h].row \/ rows'[id] = rows[id]
        /\ plan' = [plan EXCEPT ![h] = Idle]
    BY <1>5 DEF SaveTransaction, Finish, TypeOK
  <2>2. BetweenTwo(plan[h].row)
    BY <1>5 DEF SaveTransaction, ApartInv
  <2> QED
    BY <2>1, <2>2 DEF ApartInv, NoRowToSelf, Exists, TypeOK, Idle
<1>6. ASSUME \A id \in Ids : Exists(id)' =>
               /\ Exists(id) /\ rows'[id].from = rows[id].from
               /\ rows'[id].to = rows[id].to,
             \A h \in Handlers : plan'[h] = plan[h] \/ plan'[h] = Idle
      PROVE  ApartInv'
  <2>1. \A id \in Ids : Exists(id)' => BetweenTwo(rows'[id])
    BY <1>6 DEF ApartInv, NoRowToSelf, BetweenTwo
  <2>2. \A h \in Handlers : plan'[h].op = "save" => BetweenTwo(plan'[h].row)
    BY <1>6 DEF ApartInv, Idle
  <2> QED
    BY <2>1, <2>2 DEF ApartInv, NoRowToSelf
<1>7. ASSUME NEW h \in Handlers, SetArchived(h) \/ GiveUp(h)
      PROVE  ApartInv'
  <2>1. \A k \in Handlers : plan'[k] = plan[k] \/ plan'[k] = Idle
    BY <1>7 DEF SetArchived, GiveUp, Finish, TypeOK
  <2>2. ASSUME NEW id \in Ids, Exists(id)'
        PROVE  /\ Exists(id) /\ rows'[id].from = rows[id].from
               /\ rows'[id].to = rows[id].to
    <3>1. rows'[id] = rows[id]
          \/ (rows[id].live /\ rows'[id] = [rows[id] EXCEPT !.archived = plan[h].to])
      BY <1>7 DEF SetArchived, GiveUp, TypeOK
    <3>2. rows[id].live => rows[id] \in Row
      BY LiveIsRow
    <3> QED
      BY <2>2, <3>1, <3>2, ExistsKept DEF Exists, Row
  <2> QED
    BY <1>6, <2>1, <2>2
<1>8. ASSUME NEW e \in Expenses, DeleteGroupExpense(e) \/ DeleteGroup(e)
      PROVE  ApartInv'
  <2>1. PICK marked \in BOOLEAN, removed \in BOOLEAN : rows' = DeleteRowsOf(e, marked, removed)
    BY <1>8 DEF DeleteGroupExpense, DeleteGroup
  <2>2. plan' = plan
    BY <1>8 DEF DeleteGroupExpense, DeleteGroup
  <2>3. ASSUME NEW id \in Ids, Exists(id)'
        PROVE  /\ Exists(id) /\ rows'[id].from = rows[id].from
               /\ rows'[id].to = rows[id].to
    <3>1. rows'[id] = rows[id]
          \/ (rows[id].live
              /\ rows'[id] = [rows[id] EXCEPT !.deleted = @ \/ marked, !.live = ~removed])
      BY <2>1 DEF DeleteRowsOf
    <3>2. rows[id].live => rows[id] \in Row
      BY LiveIsRow
    <3> QED
      BY <2>3, <3>1, <3>2, ExistsKept DEF Exists, Row
  <2> QED
    BY <1>6, <2>2, <2>3
<1>9. CASE UNCHANGED vars
  BY <1>9 DEF vars, ApartInv, NoRowToSelf, Exists
<1>10. CASE Next
  <2>1. CASE \E h \in Handlers : Request(h) \/ Write(h)
    BY <2>1, <1>3, <1>4, <1>5, <1>7 DEF Write
  <2>2. CASE \E e \in Expenses : DeleteGroupExpense(e) \/ DeleteGroup(e)
    BY <2>2, <1>8
  <2> QED
    BY <1>1, <1>10, <2>1, <2>2 DEF Next
<1> QED
  BY <1>9, <1>10

LEMMA ApartInit ==
  ASSUME InitialRowsApart, Init
  PROVE  ApartInv
BY DEF InitialRowsApart, Init, ApartInv, NoRowToSelf, Exists, Idle

\* What one party of a balance sees is what the other sees, the dashboards of
\* all people cancel out, and histories give the figures of the summaries,
\* after any number of overlapping edits, deletions and archivings. A row from
\* a person to himself would be a debt with no other side: the hypotheses
\* exclude it, the first because requests are compared with the token as spelled.
THEOREM ViewsAlwaysAgree ==
  ASSUME RequestsApart, InitialRowsApart
  PROVE  Spec => []ViewsAgree
<1>1. Init => TypeOK /\ ApartInv
  BY TypeInit, ApartInit
<1>2. TypeOK /\ ApartInv /\ [Next]_vars => TypeOK' /\ ApartInv'
  BY TypeStep, ApartStep
<1>3. TypeOK /\ ApartInv => ViewsAgree
  BY ViewsFromRows DEF ApartInv
<1> QED
  BY <1>1, <1>2, <1>3, PTL DEF Spec

=============================================================================
