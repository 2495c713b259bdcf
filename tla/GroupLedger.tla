---------------------------- MODULE GroupLedger ----------------------------
(***************************************************************************)
(* The group half of the API: services/group_service.go over the tables    *)
(* group_members, group_expenses and transactions.                         *)
(*                                                                         *)
(* A handler first reads the group and the expense it works on, outside    *)
(* any database transaction, and decides what to write (a plan). It then   *)
(* writes the plan in one transaction that re-reads nothing. Each handler  *)
(* is therefore two steps here, the read and the transaction, and the      *)
(* steps of concurrent handlers interleave. A transaction that fails rolls *)
(* back and leaves no trace.                                               *)
(*                                                                         *)
(* A phone number is a pair <<person, form>>: NormalizeMobile forgets the  *)
(* form. Money is a whole number and every amount in use is divisible by   *)
(* the split sizes in use; the rounding of shares is not modelled here.    *)
(***************************************************************************)
EXTENDS Integers, FiniteSets, Sequences, FiniteSetsExt

CONSTANTS
  Groups,        \* group ids
  People,        \* subscribers
  Forms,         \* the ways one subscriber's number is written
  TokenForm,     \* the form a login token carries
  OwnerOf,       \* [Groups -> People]: groups.created_by
  Handlers,      \* requests that can be in progress at once
  MaxExpenses,   \* bound: expense rows ever created
  MaxCalls,      \* bound: requests served in a behaviour
  Ops,           \* the operations clients call
  Amounts,       \* amounts requests carry
  Callers,       \* people who make requests
  Numbers,       \* numbers requests name a payer or receiver by
  SplitRequests, \* split_with lists requests carry; <<>> is "everyone"
  Joiners,       \* numbers AddMember is called with
  Leavers,       \* numbers RemoveMember is called with
  StrayEdits,    \* may an edit name a group other than the expense's own
  GroupRequests, \* member lists CreateGroup was called with
  LegacyRows,    \* sequences of rows an older release left behind
  InitialDrifts  \* errors an older release left in the balances, by person

Number == People \X Forms
NoNumber == <<>>
OpNames == {"add", "settle", "update", "delete", "join", "leave", "drop", "recompute"}
ExpenseIds == 1..MaxExpenses

ASSUME NumberAssumption == TokenForm \in Forms /\ OwnerOf \in [Groups -> People]
ASSUME BoundAssumption == MaxExpenses \in Nat /\ MaxCalls \in Nat
ASSUME RequestAssumption ==
  /\ Callers \subseteq People /\ Ops \subseteq OpNames /\ StrayEdits \in BOOLEAN
  /\ Amounts \subseteq Nat
  /\ Numbers \subseteq Number /\ Joiners \subseteq Number /\ Leavers \subseteq Number
  /\ \A s \in SplitRequests \cup GroupRequests : s \in Seq(Number)
  /\ InitialDrifts \subseteq [People -> Int]

VARIABLES
  members,   \* group_members rows of each group, in insertion order
  dropped,   \* is the group soft-deleted
  expenses,  \* group_expenses by id; NoRow where none was created
  ledger,    \* live transactions rows generated by the group service
  edits,     \* group_expense_edit_logs of each expense, oldest first
  plan,      \* what each handler has decided to write
  calls      \* requests served so far

vars == <<members, dropped, expenses, ledger, edits, plan, calls>>

-----------------------------------------------------------------------------
(* Numbers and members                                                     *)

SameMobile(a, b) == a # NoNumber /\ b # NoNumber /\ a[1] = b[1]
Token(u) == <<u, TokenForm>>

\* The rows a Preload of the group's members returns, and those among them
\* that hold subscriber n.
MemberRows(ms) == {i \in DOMAIN ms : ms[i].live}
RowsFor(ms, n) == {i \in MemberRows(ms) : SameMobile(ms[i].mobile, n)}

IsGroupMember(ms, n) == RowsFor(ms, n) # {}
ResolvesToNothing(ms, n) == NoNumber                        \* faulty variant
ResolveMemberMobile(ms, n) ==
  ms[CHOOSE i \in RowsFor(ms, n) : \A k \in RowsFor(ms, n) : i <= k].mobile

NewMember(n) == [mobile |-> n, balance |-> 0, live |-> TRUE]

\* Deleting members is a soft delete; it matches user_mobile exactly.
RemoveRows(ms, n) ==
  [i \in DOMAIN ms |-> IF ms[i].mobile = n THEN [ms[i] EXCEPT !.live = FALSE] ELSE ms[i]]
RemoveAllRows(ms) == [i \in DOMAIN ms |-> [ms[i] EXCEPT !.live = FALSE]]

\* The creator's row first, then one row per requested member. Entries that
\* name the creator are skipped by the code and absent from GroupRequests.
CreateGroup(g, req) ==
  <<NewMember(Token(OwnerOf[g]))>> \o [i \in DOMAIN req |-> NewMember(req[i])]

-----------------------------------------------------------------------------
(* Splits and balance deltas. A split maps slots to stored numbers: the    *)
(* positions of the request's list, or the member rows when it was empty.  *)

EveryMember(ms) == [i \in MemberRows(ms) |-> ms[i].mobile]
EveryoneAlways(ms, row) == EveryMember(ms)                  \* faulty variant
SplitMembersFor(ms, row) == IF DOMAIN row.split = {} THEN EveryMember(ms) ELSE row.split

Share(row, split) == row.amount \div Cardinality(DOMAIN split)
Owed(row, split, n) == Share(row, split) * Cardinality({i \in DOMAIN split : split[i] = n})
When(condition, amount) == IF condition THEN amount ELSE 0

SettlementBalanceDelta(row, n) ==
  When(n = row.payer, row.amount) - When(n = row.receiver, row.amount)
ExpenseBalanceDelta(row, split, n) ==
  IF DOMAIN split = {} THEN 0
  ELSE When(n = row.payer, row.amount) - Owed(row, split, n)
BalanceDeltaFor(row, split, n) ==
  IF row.kind = "settlement" THEN SettlementBalanceDelta(row, n)
                             ELSE ExpenseBalanceDelta(row, split, n)
Replayable(row) == row.kind = "settlement" => row.receiver # NoNumber

\* UpdateMemberBalance matches user_mobile exactly and skips deleted rows: a
\* delta for a number that no row holds updates nothing.
PersistDeltas(ms, row, split, sign) ==
  [i \in DOMAIN ms |->
     IF ms[i].live
     THEN [ms[i] EXCEPT !.balance = @ + sign * BalanceDeltaFor(row, split, ms[i].mobile)]
     ELSE ms[i]]

\* The transactions rows written for an expense: one per split entry that is
\* not the payer's, or the single row of a settlement.
SplitTransactions(id, g, row, split) ==
  {[expense |-> id, slot |-> i, group |-> g, from |-> row.payer, to |-> split[i],
    amount |-> Share(row, split), status |-> "pending"] :
      i \in {j \in DOMAIN split : ~SameMobile(split[j], row.payer)}}
SettlementTransactions(id, g, row) ==
  {[expense |-> id, slot |-> 0, group |-> g, from |-> row.payer, to |-> row.receiver,
    amount |-> row.amount, status |-> "settled"]}
GeneratedTransactions(id, g, row, split) ==
  IF row.kind = "settlement" THEN SettlementTransactions(id, g, row)
                             ELSE SplitTransactions(id, g, row, split)
TransactionsOf(id) == {t \in ledger : t.expense = id}

DeleteOnlyPending(rows, id) ==                              \* faulty variant
  {t \in rows : ~(t.expense = id /\ t.status = "pending")}
DeleteByGroupExpense(rows, id) == {t \in rows : t.expense # id}

\* An edit that changes the amount is logged.
LogBackwards(log, old, new) ==                              \* faulty variant
  IF old = new THEN log ELSE Append(log, [from |-> new, to |-> old])
LogEdit(log, old, new) ==
  IF old = new THEN log ELSE Append(log, [from |-> old, to |-> new])

-----------------------------------------------------------------------------
(* Replaying the expenses of a group, as RecomputeGroupBalances does       *)

NoRow == [kind |-> "none", live |-> FALSE]
LiveRows(rows, g) == {id \in {i \in ExpenseIds : rows[i].live} : rows[id].group = g}

NumbersOf(row, split) == {row.payer, row.receiver} \cup {split[i] : i \in DOMAIN split}
StoredForm(ms, n) == IF IsGroupMember(ms, n) THEN ResolveMemberMobile(ms, n) ELSE n
ReplayRow(ms, row, n) ==
  LET split == SplitMembersFor(ms, row)
  IN MapThenSumSet(LAMBDA k : BalanceDeltaFor(row, split, k),
                   {k \in NumbersOf(row, split) : StoredForm(ms, k) = n})
Expected(ms, rows, g, n) ==
  MapThenSumSet(LAMBDA id : ReplayRow(ms, rows[id], n), LiveRows(rows, g))

\* The corrections a recompute of g decides on: number |-> replayed balance.
Corrections(ms, rows, g) ==
  [n \in {ms[i].mobile : i \in {j \in MemberRows(ms) :
                                  ms[j].balance # Expected(ms, rows, g, ms[j].mobile)}}
     |-> Expected(ms, rows, g, n)]
AddToMemberBalances(ms, want) ==                            \* faulty variant
  [i \in DOMAIN ms |-> IF ms[i].live /\ ms[i].mobile \in DOMAIN want
                       THEN [ms[i] EXCEPT !.balance = @ + want[ms[i].mobile]] ELSE ms[i]]
SetMemberBalances(ms, want) ==
  [i \in DOMAIN ms |-> IF ms[i].live /\ ms[i].mobile \in DOMAIN want
                       THEN [ms[i] EXCEPT !.balance = want[ms[i].mobile]] ELSE ms[i]]

-----------------------------------------------------------------------------
Idle == [op |-> "idle"]

\* Groups as CreateGroup left them, with what an older release added: rows
\* without a split set or a receiver, and balances that may have drifted.
Init ==
  \E request \in [Groups -> GroupRequests], old \in LegacyRows,
     drift \in InitialDrifts :
    /\ expenses = [id \in ExpenseIds |-> IF id \in DOMAIN old THEN old[id] ELSE NoRow]
    /\ members = [g \in Groups |->
         LET ms == CreateGroup(g, request[g])
         IN [i \in DOMAIN ms |->
              [ms[i] EXCEPT !.balance =
                 Expected(ms, expenses, g, ms[i].mobile) + drift[ms[i].mobile[1]]]]]
    /\ dropped = [g \in Groups |-> FALSE]
    /\ ledger = {}
    /\ edits = [id \in ExpenseIds |-> <<>>]
    /\ plan = [h \in Handlers |-> Idle]
    /\ calls = 0

-----------------------------------------------------------------------------
(* The read half of each handler. A request its guards turn away changes   *)
(* nothing. Members of a dropped group are deleted rows, so a dropped      *)
(* group has no members until its owner adds one.                          *)

Decide(h, op, decision) ==
  /\ op \in Ops /\ plan[h] = Idle /\ calls < MaxCalls
  /\ plan' = [plan EXCEPT ![h] = decision]
  /\ calls' = calls + 1
  /\ UNCHANGED <<members, dropped, expenses, ledger, edits>>

AddGroupExpense(h, g, u, payer, splitWith, amount) ==
  LET ms == members[g]
      split == IF splitWith = <<>> THEN EveryMember(ms)
               ELSE [i \in DOMAIN splitWith |-> ResolveMemberMobile(ms, splitWith[i])]
  IN /\ IsGroupMember(ms, Token(u))
     /\ amount > 0
     /\ IsGroupMember(ms, payer)
     /\ \A i \in DOMAIN splitWith : IsGroupMember(ms, splitWith[i])
     /\ Decide(h, "add",
          [op |-> "add",
           new |-> [group |-> g, kind |-> "expense", payer |-> ResolveMemberMobile(ms, payer),
                    receiver |-> NoNumber, split |-> split, amount |-> amount,
                    createdBy |-> u, live |-> TRUE]])

SettleGroup(h, g, u, payer, receiver, amount) ==
  LET ms == members[g]
  IN /\ IsGroupMember(ms, Token(u))
     /\ amount > 0
     /\ IsGroupMember(ms, payer) /\ IsGroupMember(ms, receiver)
     /\ ~SameMobile(payer, receiver)
     /\ Decide(h, "settle",
          [op |-> "settle",
           new |-> [group |-> g, kind |-> "settlement", payer |-> ResolveMemberMobile(ms, payer),
                    receiver |-> ResolveMemberMobile(ms, receiver), split |-> <<>>,
                    amount |-> amount, createdBy |-> u, live |-> TRUE]])

\* Who may edit or delete an expense: its creator, its payer, the group's owner.
MayChange(u, g, row) == u \in {row.createdBy, row.payer[1], OwnerOf[g]}

\* The new payer is checked by SameMobile but written as the request spells it.
UpdateGroupExpense(h, g, id, u, payer, amount) ==
  LET row == expenses[id]
      newPayer == IF payer = NoNumber THEN row.payer ELSE payer
  IN /\ row.live
     /\ StrayEdits \/ row.group = g
     /\ MayChange(u, g, row)
     /\ amount > 0
     /\ row.kind = "expense"
     /\ IsGroupMember(members[g], newPayer)
     /\ Decide(h, "update",
          [op |-> "update", group |-> g, id |-> id, old |-> row,
           new |-> [row EXCEPT !.payer = newPayer, !.amount = amount],
           split |-> SplitMembersFor(members[g], row)])

DeleteGroupExpense(h, g, id, u) ==
  LET row == expenses[id]
  IN /\ row.live
     /\ row.group = g
     /\ MayChange(u, g, row)
     /\ Replayable(row)
     /\ Decide(h, "delete",
          [op |-> "delete", group |-> g, id |-> id, old |-> row,
           split |-> SplitMembersFor(members[g], row)])

\* AddMember does not look at whether the group is deleted.
AddMember(h, g, u, n) ==
  /\ u = OwnerOf[g]
  /\ ~IsGroupMember(members[g], n)
  /\ Decide(h, "join", [op |-> "join", group |-> g, mobile |-> n])

RemoveMember(h, g, u, n) ==
  /\ u = OwnerOf[g]
  /\ n[1] # OwnerOf[g]
  /\ Cardinality(MemberRows(members[g])) > 1
  /\ IsGroupMember(members[g], n)
  /\ Decide(h, "leave",
       [op |-> "leave", group |-> g, mobile |-> ResolveMemberMobile(members[g], n)])

DeleteGroup(h, g, u) ==
  /\ u = OwnerOf[g]
  /\ Decide(h, "drop", [op |-> "drop", group |-> g])

\* One group of a recompute run with apply set. A group holding a row that
\* cannot be replayed is skipped, and so is one without drift.
RecomputeGroupBalances(h, g) ==
  LET want == Corrections(members[g], expenses, g)
  IN /\ ~dropped[g]
     /\ \A id \in LiveRows(expenses, g) : Replayable(expenses[id])
     /\ DOMAIN want # {}
     /\ Decide(h, "recompute", [op |-> "recompute", group |-> g, want |-> want])

-----------------------------------------------------------------------------
(* The transaction half: what the handler decided is written without       *)
(* looking again. Statements a transaction makes are one step, since the   *)
(* row locks its balance updates take are held until it commits.           *)

Finish(h) == plan' = [plan EXCEPT ![h] = Idle] /\ UNCHANGED calls

\* The next auto-increment id. MaxExpenses bounds how many there are.
FreshExpense(id) ==
  /\ expenses[id].kind = "none"
  /\ \A k \in 1..(id - 1) : expenses[k].kind # "none"

\* AddGroupExpense and SettleGroup write the same three tables.
CreateExpenseTx(h) ==
  LET row == plan[h].new
      g   == row.group
  IN /\ plan[h].op \in {"add", "settle"}
     /\ \E id \in ExpenseIds :
          /\ FreshExpense(id)
          /\ expenses' = [expenses EXCEPT ![id] = row]
          /\ ledger' = ledger \cup GeneratedTransactions(id, g, row, row.split)
     /\ members' = [members EXCEPT ![g] = PersistDeltas(@, row, row.split, 1)]
     /\ Finish(h)
     /\ UNCHANGED <<dropped, edits>>

\* Revert, log, re-apply, save, rebuild the ledger rows. gorm's Save of a row
\* that was soft-deleted meanwhile updates nothing and then upserts it: the
\* deleted expense is live again.
UpdateGroupExpenseTx(h) ==
  LET p == plan[h]
  IN /\ p.op = "update"
     /\ members' = [members EXCEPT ![p.group] =
          PersistDeltas(PersistDeltas(@, p.old, p.split, -1), p.new, p.split, 1)]
     /\ edits' = [edits EXCEPT ![p.id] = LogEdit(@, p.old.amount, p.new.amount)]
     /\ expenses' = [expenses EXCEPT ![p.id] = p.new]
     /\ ledger' = DeleteByGroupExpense(ledger, p.id)
                  \cup SplitTransactions(p.id, p.group, p.new, p.split)
     /\ Finish(h)
     /\ UNCHANGED dropped

DeleteGroupExpenseTx(h) ==
  LET p == plan[h]
  IN /\ p.op = "delete"
     /\ members' = [members EXCEPT ![p.group] = PersistDeltas(@, p.old, p.split, -1)]
     /\ ledger' = DeleteByGroupExpense(ledger, p.id)
     /\ expenses' = [expenses EXCEPT ![p.id].live = FALSE]
     /\ Finish(h)
     /\ UNCHANGED <<dropped, edits>>

AddMemberTx(h) ==
  LET p == plan[h]
  IN /\ p.op = "join"
     /\ members' = [members EXCEPT ![p.group] = Append(@, NewMember(p.mobile))]
     /\ Finish(h)
     /\ UNCHANGED <<dropped, expenses, ledger, edits>>

RemoveMemberTx(h) ==
  LET p == plan[h]
  IN /\ p.op = "leave"
     /\ members' = [members EXCEPT ![p.group] = RemoveRows(@, p.mobile)]
     /\ Finish(h)
     /\ UNCHANGED <<dropped, expenses, ledger, edits>>

\* The errors of the two statements on the group's transactions are ignored:
\* when they fail, the rows stay and the rest is still deleted.
DeleteGroupTx(h) ==
  LET g == plan[h].group
  IN /\ plan[h].op = "drop"
     /\ ledger' \in {ledger, {t \in ledger : t.group # g}}
     /\ members' = [members EXCEPT ![g] = RemoveAllRows(@)]
     /\ expenses' = [id \in ExpenseIds |-> IF id \in LiveRows(expenses, g)
                       THEN [expenses[id] EXCEPT !.live = FALSE] ELSE expenses[id]]
     /\ dropped' = [dropped EXCEPT ![g] = TRUE]
     /\ Finish(h)
     /\ UNCHANGED edits

RecomputeTx(h) ==
  LET p == plan[h]
  IN /\ p.op = "recompute"
     /\ members' = [members EXCEPT ![p.group] = SetMemberBalances(@, p.want)]
     /\ Finish(h)
     /\ UNCHANGED <<dropped, expenses, ledger, edits>>

\* The transaction fails (an error, a deadlock between two transactions that
\* update balances in different orders, a lost connection) and rolls back.
Rollback(h) ==
  /\ plan[h] # Idle
  /\ Finish(h)
  /\ UNCHANGED <<members, dropped, expenses, ledger, edits>>

-----------------------------------------------------------------------------
Request(h) ==
  \E g \in Groups :
    \/ \E u \in Callers, payer \in Numbers, splitWith \in SplitRequests, amount \in Amounts :
         AddGroupExpense(h, g, u, payer, splitWith, amount)
    \/ \E u \in Callers, payer, receiver \in Numbers, amount \in Amounts :
         SettleGroup(h, g, u, payer, receiver, amount)
    \/ \E u \in Callers, id \in ExpenseIds, payer \in Numbers \cup {NoNumber}, amount \in Amounts :
         UpdateGroupExpense(h, g, id, u, payer, amount)
    \/ \E u \in Callers, id \in ExpenseIds : DeleteGroupExpense(h, g, id, u)
    \/ \E u \in Callers, n \in Joiners : AddMember(h, g, u, n)
    \/ \E u \in Callers, n \in Leavers : RemoveMember(h, g, u, n)
    \/ \E u \in Callers : DeleteGroup(h, g, u)
    \/ RecomputeGroupBalances(h, g)

Transaction(h) ==
  \/ CreateExpenseTx(h)
  \/ UpdateGroupExpenseTx(h)
  \/ DeleteGroupExpenseTx(h)
  \/ AddMemberTx(h)
  \/ RemoveMemberTx(h)
  \/ DeleteGroupTx(h)
  \/ RecomputeTx(h)
  \/ Rollback(h)

Next == \E h \in Handlers : Request(h) \/ Transaction(h)

Spec == Init /\ [][Next]_vars

-----------------------------------------------------------------------------
(* Types                                                                   *)

MemberRow == [mobile : Number, balance : Int, live : BOOLEAN]
IsSplit(s) == /\ DOMAIN s \subseteq Nat /\ IsFiniteSet(DOMAIN s)
              /\ s \in [DOMAIN s -> Number]
IsExpense(r) ==
  /\ r \in [group : Groups, kind : {"expense", "settlement"}, payer : Number,
            receiver : Number \cup {NoNumber}, split : {r.split}, amount : Nat,
            createdBy : People, live : BOOLEAN]
  /\ IsSplit(r.split)
Generated ==
  [expense : ExpenseIds, slot : Nat, group : Groups, from : Number,
   to : Number \cup {NoNumber}, amount : Int, status : {"pending", "settled"}]

\* Rows written before split sets and receivers were recorded are not linked
\* to the transactions they generated.
Linked(row) == IF row.kind = "settlement" THEN row.receiver # NoNumber
                                          ELSE DOMAIN row.split # {}
ASSUME LegacyAssumption ==
  \A old \in LegacyRows : \A id \in DOMAIN old : IsExpense(old[id]) /\ ~Linked(old[id])

IsPlan(p) ==
  \/ p = Idle
  \/ /\ p.op \in {"add", "settle"}
     /\ p \in [op : {"add", "settle"}, new : {p.new}] /\ IsExpense(p.new)
  \/ /\ p.op = "update"
     /\ p \in [op : {"update"}, group : Groups, id : ExpenseIds,
               old : {p.old}, new : {p.new}, split : {p.split}]
     /\ IsExpense(p.old) /\ IsExpense(p.new) /\ IsSplit(p.split)
  \/ /\ p.op = "delete"
     /\ p \in [op : {"delete"}, group : Groups, id : ExpenseIds,
               old : {p.old}, split : {p.split}]
     /\ IsExpense(p.old) /\ IsSplit(p.split)
  \/ p \in [op : {"join", "leave"}, group : Groups, mobile : Number]
  \/ p \in [op : {"drop"}, group : Groups]
  \/ /\ p.op = "recompute"
     /\ p \in [op : {"recompute"}, group : Groups, want : {p.want}]
     /\ p.want \in [DOMAIN p.want -> Int]

\* The type invariant: what every table and every decided write looks like.
TypeOK ==
  /\ members \in [Groups -> Seq(MemberRow)]
  /\ dropped \in [Groups -> BOOLEAN]
  /\ DOMAIN expenses = ExpenseIds
  /\ \A id \in ExpenseIds : expenses[id] = NoRow \/ IsExpense(expenses[id])
  /\ ledger \subseteq Generated
  /\ edits \in [ExpenseIds -> Seq([from : Nat, to : Nat])]
  /\ DOMAIN plan = Handlers
  /\ \A h \in Handlers : IsPlan(plan[h])
  /\ calls \in 0..MaxCalls

-----------------------------------------------------------------------------
(* Properties                                                              *)

\* The personal ledger shows what the group shows: the live transactions of a
\* live expense are exactly those its current payer, amount and split call
\* for, and an expense that is gone from a group that still exists has none
\* left. It must hold however adds, edits, deletes and group deletions
\* interleave, although each writes what it decided on an earlier state.
LedgerMirrorsExpenses ==
  \A id \in ExpenseIds :
    LET row == expenses[id] IN
    /\ row.live /\ Linked(row) =>
         TransactionsOf(id) = GeneratedTransactions(id, row.group, row, row.split)
    /\ ~row.live /\ (row # NoRow => ~dropped[row.group]) => TransactionsOf(id) = {}

\* Every member's stored balance is what replaying the group's live expenses
\* and settlements gives, the comparison RecomputeGroupBalances reports on.
BalancesMatch(g) ==
  \A i \in MemberRows(members[g]) :
    members[g][i].balance = Expected(members[g], expenses, g, members[g][i].mobile)
BalancesMatchLedger == \A g \in Groups : BalancesMatch(g)

\* Every row of the group carries its split: none is of an older release, whose
\* rows are split over the members of the moment.
SplitsStored(g) == \A id \in ExpenseIds :
  expenses[id] # NoRow /\ expenses[id].group = g => Linked(expenses[id])

\* No operation takes a group whose balances match its ledger to one whose
\* balances do not: not an edit that changes payer and amount, not the
\* removal of somebody who took part in expenses, not a deletion.
BalancesStayMatched ==
  [][\A g \in Groups : SplitsStored(g) /\ BalancesMatch(g) => BalancesMatch(g)']_vars

\* A recompute that writes leaves every member of its group at the replayed
\* balance, whatever drift it found.
RecomputeRepairs ==
  [][\A h \in Handlers, g \in Groups :
       RecomputeTx(h) /\ plan[h].group = g => BalancesMatch(g)']_vars

OneRowEach(ms) ==
  \A i, k \in MemberRows(ms) : ms[i].mobile = ms[k].mobile => i = k

\* Members owe each other, never the group: the balances sum to zero, however
\* adds, edits, deletes, settlements and joins of several handlers interleave,
\* also when two of them revert the same expense or revert it over different
\* members. Only a number with two rows, which two joins at once can leave,
\* or a group that is gone makes a difference.
BalancesSumToZero ==
  \A g \in Groups :
    ~dropped[g] /\ OneRowEach(members[g]) =>
      MapThenSumSet(LAMBDA i : members[g][i].balance, MemberRows(members[g])) = 0

\* The edit history of an expense is a chain: every entry starts at the amount
\* the entry before it ended with, and the last one ends at today's amount.
EditHistoryChains ==
  \A id \in ExpenseIds :
    LET log == edits[id] IN
    /\ \A i \in 2..Len(log) : log[i].from = log[i - 1].to
    /\ log # <<>> /\ expenses[id].live => log[Len(log)].to = expenses[id].amount

=============================================================================
