-------------------------- MODULE TransactionLedger --------------------------
(***************************************************************************)
(* One transaction at a time: services/transaction_service.go over the     *)
(* tables transactions and transaction_edit_logs.                          *)
(*                                                                         *)
(* None of these handlers opens a database transaction. An edit or a       *)
(* deletion reads the row, inserts a log entry, and writes the whole row   *)
(* back; archiving reads the row and then updates one column. Each of      *)
(* these statements is a step here, so that handlers interleave with one   *)
(* another and with the group service, which deletes the rows it           *)
(* generated in a transaction of its own (GroupLedger).                    *)
(*                                                                         *)
(* A number is a pair <<person, form>>, as in GroupLedger. The columns     *)
(* is_edited, previous_*, edited_at, updated_by and status take part in no *)
(* decision and no total; they are left out, and so are names and dates.   *)
(***************************************************************************)
EXTENDS Integers, FiniteSets, Sequences, FiniteSetsExt

CONSTANTS
  People,       \* subscribers
  Forms,        \* the ways one subscriber's number is written
  Registered,   \* people with an account
  Callers,      \* numbers in the tokens of the callers
  Contacts,     \* numbers create requests name
  Handlers,     \* edits, deletions and archivings in progress at once
  Expenses,     \* group expenses whose transactions are in the table
  InitialRows,  \* sequences of rows written before the behaviour starts
  MaxRows,      \* bound: transactions rows
  MaxCalls,     \* bound: requests served in a behaviour
  Amounts,      \* amounts requests carry
  Notes         \* notes requests carry

Number == People \X Forms
Ids == 1..MaxRows
Nobody == <<>>          \* created_by of a legacy row
Personal == "personal"  \* instead of a group expense

ASSUME PeopleAssumption ==
  /\ IsFiniteSet(People) /\ Registered \subseteq People
  /\ People \cap (Number \cup {Nobody}) = {}
  /\ Callers \subseteq Number /\ Contacts \subseteq Number
ASSUME BoundAssumption == MaxRows \in Nat /\ MaxCalls \in Nat /\ Amounts \subseteq Nat

VARIABLES
  rows,     \* transactions by id; NoRow where none was created
  logs,     \* transaction_edit_logs of each transaction, oldest first
  lost,     \* transactions of which the insert of a log entry failed
  gone,     \* group expenses that are deleted
  dropped,  \* group expenses whose group is deleted
  plan,     \* what each handler still has to write
  calls     \* requests served so far

vars == <<rows, logs, lost, gone, dropped, plan, calls>>

-----------------------------------------------------------------------------
(* Rows                                                                    *)

NoRow == [type |-> "none", live |-> FALSE]
Exists(id) == rows[id] # NoRow
SameMobile(a, b) == a[1] = b[1]

\* created_by holds an e-mail (a person), a mobile number, or nothing. The
\* caller's e-mail is known when the number in the token has an account.
NamedAsCreator(row, n) == row.by = n \/ (n[1] \in Registered /\ row.by = n[1])
IsOwner(row, n) ==
  IF row.by # Nobody THEN NamedAsCreator(row, n)
  ELSE (row.type = "give" /\ row.from = n) \/ (row.type = "receive" /\ row.to = n)
IsParticipant(row, n) == NamedAsCreator(row, n) \/ n \in {row.from, row.to}

\* The row with the direction a new type asks for. The numbers are compared as
\* they are spelled.
ToReceiveOnly(row, n, type) ==                              \* faulty variant
  IF type = "receive" /\ row.from = n
  THEN [row EXCEPT !.type = type, !.from = row.to, !.to = row.from]
  ELSE [row EXCEPT !.type = type]
Redirected(row, n, type) ==
  IF (type = "receive" /\ row.from = n) \/ (type = "give" /\ row.to = n)
  THEN [row EXCEPT !.type = type, !.from = row.to, !.to = row.from]
  ELSE [row EXCEPT !.type = type]
TakenFromRequest(row, n, type) == Redirected(row, n, type)  \* faulty variant
WithType(row, n, type) ==
  IF type \in {"give", "receive"} \ {row.type} THEN Redirected(row, n, type) ELSE row

EntryBehind(old, new) == [from |-> old, to |-> old]         \* faulty variant
Entry(old, new) == [from |-> old, to |-> new]

-----------------------------------------------------------------------------
Idle == [op |-> "idle"]

Init ==
  \E old \in InitialRows :
    /\ rows = [id \in Ids |-> IF id \in DOMAIN old THEN old[id] ELSE NoRow]
    /\ logs = [id \in Ids |-> <<>>]
    /\ lost = {} /\ gone = {} /\ dropped = {}
    /\ plan = [h \in Handlers |-> Idle]
    /\ calls = 0

Serve == calls < MaxCalls /\ calls' = calls + 1

\* The next auto-increment id. MaxRows bounds how many there are.
FreshId(id) == ~Exists(id) /\ \A k \in 1..(id - 1) : Exists(k)

\* The caller may not name itself, compared as spelled.
CreateTransaction(n, contact, type, amount, note) ==
  /\ Serve
  /\ n # contact
  /\ n[1] \in Registered
  /\ amount > 0
  /\ \E id \in Ids :
       /\ FreshId(id)
       /\ rows' = [rows EXCEPT ![id] =
            [from |-> IF type = "give" THEN n ELSE contact,
             to   |-> IF type = "give" THEN contact ELSE n,
             type |-> type, amount |-> amount, note |-> note, expense |-> Personal,
             by |-> n[1], live |-> TRUE, deleted |-> FALSE, archived |-> FALSE]]
  /\ UNCHANGED <<logs, lost, gone, dropped, plan>>

Decide(h, decision) ==
  /\ plan[h] = Idle
  /\ Serve
  /\ plan' = [plan EXCEPT ![h] = decision]
  /\ UNCHANGED <<rows, logs, lost, gone, dropped>>

\* An edit of anything, the note included, is logged. Deleted rows may be
\* edited. "" stands for a request without a type.
UpdateTransaction(h, id, n, type, amount, note) ==
  LET row == rows[id]
      new == [WithType(row, n, type) EXCEPT !.amount = amount, !.note = note]
  IN /\ row.live
     /\ IsOwner(row, n)
     /\ amount > 0
     /\ Decide(h, [op |-> "save", id |-> id, row |-> new,
                   log |-> IF new = row THEN <<>> ELSE <<Entry(row.amount, amount)>>])

\* A row that is marked deleted can be deleted, and logged, again.
DeleteTransaction(h, id, n) ==
  LET row == rows[id]
  IN /\ row.live
     /\ IsOwner(row, n)
     /\ Decide(h, [op |-> "save", id |-> id, row |-> [row EXCEPT !.deleted = TRUE],
                   log |-> <<Entry(row.amount, 0)>>])

ArchiveTransaction(h, id, n) ==
  LET row == rows[id]
  IN /\ row.live /\ ~row.deleted
     /\ IsParticipant(row, n)
     /\ Decide(h, [op |-> "archive", id |-> id, to |-> TRUE])

\* A row of a deleted group is refused only when the look-up of the group
\* answers; when it fails the check is skipped, so no row is refused for sure.
UnarchiveTransaction(h, id, n) ==
  LET row == rows[id]
  IN /\ row.live /\ ~row.deleted
     /\ IsParticipant(row, n)
     /\ Decide(h, [op |-> "archive", id |-> id, to |-> FALSE])

-----------------------------------------------------------------------------
(* The writes                                                              *)

Finish(h) == plan' = [plan EXCEPT ![h] = Idle]

\* A failed insert of the entry is printed and the edit goes on without it.
CreateEditLog(h) ==
  LET p == plan[h]
  IN /\ p.op = "save" /\ p.log # <<>>
     /\ \/ logs' = [logs EXCEPT ![p.id] = Append(@, p.log[1])] /\ UNCHANGED lost
        \/ lost' = lost \cup {p.id} /\ UNCHANGED logs
     /\ plan' = [plan EXCEPT ![h].log = <<>>]
     /\ UNCHANGED <<rows, gone, dropped, calls>>

\* gorm's Save writes every column as it was read. When the row was
\* soft-deleted meanwhile the update matches nothing and Save upserts, which
\* clears deleted_at as well.
SaveTransaction(h) ==
  LET p == plan[h]
  IN /\ p.op = "save" /\ p.log = <<>>
     /\ rows' = [rows EXCEPT ![p.id] = p.row]
     /\ Finish(h)
     /\ UNCHANGED <<logs, lost, gone, dropped, calls>>

SetArchived(h) ==
  LET p == plan[h]
  IN /\ p.op = "archive"
     /\ rows' = IF rows[p.id].live THEN [rows EXCEPT ![p.id].archived = p.to] ELSE rows
     /\ Finish(h)
     /\ UNCHANGED <<logs, lost, gone, dropped, calls>>

\* A write fails, or the process dies: what was written before it stays.
GiveUp(h) ==
  /\ plan[h] # Idle
  /\ Finish(h)
  /\ UNCHANGED <<rows, logs, lost, gone, dropped, calls>>

-----------------------------------------------------------------------------
(* The group service                                                       *)

\* Two statements: one marks the rows of an expense, the other soft-deletes
\* them. The error of the first is ignored.
DeleteRowsOf(e, marked, removed) ==
  [id \in Ids |->
     IF rows[id].live /\ rows[id].expense = e
     THEN [rows[id] EXCEPT !.deleted = @ \/ marked, !.live = ~removed] ELSE rows[id]]

\* DeleteByGroupExpense, in the transaction that deletes the expense.
DeleteGroupExpense(e) ==
  /\ Serve
  /\ e \notin gone
  /\ \E marked \in BOOLEAN : rows' = DeleteRowsOf(e, marked, TRUE)
  /\ gone' = gone \cup {e}
  /\ UNCHANGED <<logs, lost, dropped, plan>>

\* DeleteGroup ignores the errors of both statements. Every expense here is in
\* a group of its own.
DeleteGroup(e) ==
  /\ Serve
  /\ e \notin dropped
  /\ \E marked, removed \in BOOLEAN : rows' = DeleteRowsOf(e, marked, removed)
  /\ gone' = gone \cup {e}
  /\ dropped' = dropped \cup {e}
  /\ UNCHANGED <<logs, lost, plan>>

-----------------------------------------------------------------------------
(* What the API shows of the ledger                                        *)

Involves(row, n) == SameMobile(row.from, n) \/ SameMobile(row.to, n)
Between(row, n, contact) ==
  \/ SameMobile(row.from, n) /\ SameMobile(row.to, contact)
  \/ SameMobile(row.from, contact) /\ SameMobile(row.to, n)

\* The queries give a row of a deleted group as archived, and the code then
\* skips what is deleted or archived.
Counted(id) ==
  /\ rows[id].live /\ ~rows[id].deleted /\ ~rows[id].archived
  /\ rows[id].expense \notin dropped
CountsForPeers(id) == Counted(id) /\ rows[id].expense = Personal

PayerAsSpelled(row, n) == row.from = n                      \* faulty variant
UserIsPayer(row, n) == SameMobile(row.from, n)
ContactOf(row, n) == IF UserIsPayer(row, n) THEN row.to ELSE row.from
SignedAmount(row, n) == IF UserIsPayer(row, n) THEN row.amount ELSE 0 - row.amount

\* GetTransactionSummary: one item per normalised contact.
SummaryBalance(n, contact) ==
  MapThenSumSet(LAMBDA id : SignedAmount(rows[id], n),
    {id \in Ids : /\ CountsForPeers(id) /\ Involves(rows[id], n)
                  /\ SameMobile(ContactOf(rows[id], n), contact)})

\* GetDashboardData without the caller's positions in groups. Its loop keeps
\* one running figure per contact, to which it adds what the caller paid and
\* from which it takes what the caller got; what contacts owe the caller and
\* what the caller owes contacts are then added up apart.
Spelled(p) == <<p, CHOOSE f \in Forms : TRUE>>
Positive(x) == IF x > 0 THEN x ELSE 0
LentTo(n, p) ==
  {id \in Ids : CountsForPeers(id) /\ SameMobile(rows[id].from, n) /\ rows[id].to[1] = p}
BorrowedFrom(n, p) ==
  {id \in Ids : /\ CountsForPeers(id)
                /\ ~SameMobile(rows[id].from, n) /\ SameMobile(rows[id].to, n)
                /\ rows[id].from[1] = p}
DashboardNet(n, p) ==
  MapThenSumSet(LAMBDA id : rows[id].amount, LentTo(n, p))
    - MapThenSumSet(LAMBDA id : rows[id].amount, BorrowedFrom(n, p))
DashboardReceived(n) == MapThenSumSet(LAMBDA p : Positive(DashboardNet(n, p)), People)
DashboardGiven(n) == MapThenSumSet(LAMBDA p : Positive(0 - DashboardNet(n, p)), People)
DashboardBalance(n) == DashboardReceived(n) - DashboardGiven(n)

\* GetTransactionHistory: unlike the other two it counts group rows.
HistoryRows(n, contact) == {id \in Ids : Counted(id) /\ Between(rows[id], n, contact)}
TotalGiven(n, contact) ==
  MapThenSumSet(LAMBDA id : rows[id].amount,
    {id \in HistoryRows(n, contact) : UserIsPayer(rows[id], n)})
TotalReceived(n, contact) ==
  MapThenSumSet(LAMBDA id : rows[id].amount,
    {id \in HistoryRows(n, contact) : ~UserIsPayer(rows[id], n)})
HistoryBalance(n, contact) == TotalGiven(n, contact) - TotalReceived(n, contact)

-----------------------------------------------------------------------------
Request(h) ==
  \E n \in Callers, id \in Ids :
    \/ \E type \in {"", "give", "receive"}, amount \in Amounts, note \in Notes :
         UpdateTransaction(h, id, n, type, amount, note)
    \/ DeleteTransaction(h, id, n)
    \/ ArchiveTransaction(h, id, n)
    \/ UnarchiveTransaction(h, id, n)

Write(h) == CreateEditLog(h) \/ SaveTransaction(h) \/ SetArchived(h) \/ GiveUp(h)

Next ==
  \/ \E n \in Callers, contact \in Contacts, type \in {"give", "receive"},
        amount \in Amounts, note \in Notes :
       CreateTransaction(n, contact, type, amount, note)
  \/ \E h \in Handlers : Request(h) \/ Write(h)
  \/ \E e \in Expenses : DeleteGroupExpense(e) \/ DeleteGroup(e)

Spec == Init /\ [][Next]_vars

-----------------------------------------------------------------------------
(* Types                                                                   *)

Row == [from : Number, to : Number, type : {"give", "receive"}, amount : Nat,
        note : Notes, expense : Expenses \cup {Personal},
        by : People \cup Number \cup {Nobody},
        live : BOOLEAN, deleted : BOOLEAN, archived : BOOLEAN]
LogEntry == [from : Nat, to : Nat]
Pending(log) == log \in Seq(LogEntry) /\ Len(log) <= 1
IsPlan(p) ==
  \/ p = Idle
  \/ /\ p.op = "save"
     /\ p \in [op : {"save"}, id : Ids, row : Row, log : {p.log}]
     /\ Pending(p.log)
  \/ p \in [op : {"archive"}, id : Ids, to : BOOLEAN]

ASSUME RowsAssumption ==
  \A old \in InitialRows : \A id \in DOMAIN old : old[id] \in Row

\* The type invariant: what the tables and the pending writes look like.
TypeOK ==
  /\ DOMAIN rows = Ids /\ \A id \in Ids : rows[id] \in Row \cup {NoRow}
  /\ logs \in [Ids -> Seq(LogEntry)]
  /\ lost \subseteq Ids /\ gone \subseteq Expenses /\ dropped \subseteq gone
  /\ DOMAIN plan = Handlers /\ \A h \in Handlers : IsPlan(plan[h])
  /\ calls \in 0..MaxCalls

-----------------------------------------------------------------------------
(* Properties                                                              *)

\* Nobody finds an amount in the ledger that its edit history cannot explain:
\* once a transaction has a history, today's amount is one that an entry goes
\* from or to, whatever edits overlapped, and whether or not they were saved.
Mentioned(log) == {log[i].from : i \in DOMAIN log} \cup {log[i].to : i \in DOMAIN log}
AmountsAreLogged ==
  \A id \in Ids \ lost :
    logs[id] # <<>> => rows[id].amount \in Mentioned(logs[id])

\* The type of a transaction says which way the money went: after any number
\* of overlapping edits of type, amount and note, it is "give" exactly when
\* its creator is the payer.
TypeMatchesDirection ==
  \A id \in Ids :
    Exists(id) /\ rows[id].by \in People =>
      (rows[id].type = "give" <=> rows[id].from[1] = rows[id].by)

\* What a contact owes the user in the user's view, the user is owed in the
\* contact's; a dashboard's own loop arrives at what its user's summaries add
\* up to, and the dashboards of all people cancel out; and the history of a
\* contact gives the summary's figure when no group row is between the two.
\* It must hold for numbers stored in different forms, after edits that turn a
\* transaction around, and for what is archived or deleted.
ViewsAgree ==
  /\ MapThenSumSet(LAMBDA p : DashboardBalance(Spelled(p)), People) = 0
  /\ \A n \in Callers \cup Contacts :
       DashboardBalance(n) = MapThenSumSet(LAMBDA p : SummaryBalance(n, Spelled(p)), People)
  /\ \A n, contact \in Callers \cup Contacts :
       /\ SummaryBalance(n, contact) = 0 - SummaryBalance(contact, n)
       /\ (\A id \in HistoryRows(n, contact) : rows[id].expense = Personal) =>
            HistoryBalance(n, contact) = SummaryBalance(n, contact)

\* A deleted group expense leaves no transaction in the personal ledger
\* (models/transaction.go, GroupExpenseID).
NoStrandedRows ==
  \A id \in Ids :
    rows[id].live => rows[id].expense \notin gone \ dropped

=============================================================================
