------------------------- MODULE GroupLedgerProofs -------------------------
(***************************************************************************)
(* For every number of groups, members, expenses and concurrent handlers:  *)
(* the types of all tables but the balance column, and that the personal   *)
(* ledger mirrors the groups' expenses.                                    *)
(***************************************************************************)
EXTENDS GroupLedger, FiniteSetTheorems, SequenceTheorems, WellFoundedInduction, TLAPS

-----------------------------------------------------------------------------
(* Members                                                                 *)

\* A sequence of member rows, whatever their balances.
MemberShape(ms) ==
  /\ \E n \in Nat : DOMAIN ms = 1..n
  /\ ms = [i \in DOMAIN ms |-> ms[i]]
  /\ \A i \in DOMAIN ms :
       ms[i] \in [mobile : Number, balance : {ms[i].balance}, live : BOOLEAN]

LEMMA NatMinimum ==
  ASSUME NEW T \in SUBSET Nat, T # {}
  PROVE  \E i \in T : \A k \in T : i <= k
<1>1. PICK i \in T : \A k \in T : <<k, i>> \notin OpToRel(<, Nat)
  BY NatLessThanWellFounded, WFMin
<1>2. \A k \in T : ~(k < i)
  BY <1>1 DEF OpToRel
<1> QED
  BY <1>2

\* Resolving a member's number gives the number of a live row that is the same
\* subscriber's.
LEMMA Resolved ==
  ASSUME NEW ms, MemberShape(ms), NEW n, IsGroupMember(ms, n)
  PROVE  /\ ResolveMemberMobile(ms, n) \in Number
         /\ SameMobile(ResolveMemberMobile(ms, n), n)
         /\ ResolveMemberMobile(ms, n) # NoNumber
<1>1. RowsFor(ms, n) \in SUBSET Nat /\ RowsFor(ms, n) # {}
  BY DEF RowsFor, MemberRows, MemberShape, IsGroupMember
<1>2. \E i \in RowsFor(ms, n) : \A k \in RowsFor(ms, n) : i <= k
  BY <1>1, NatMinimum
<1>3. PICK i \in RowsFor(ms, n) : ResolveMemberMobile(ms, n) = ms[i].mobile
  BY <1>2 DEF ResolveMemberMobile
<1>4. i \in DOMAIN ms /\ SameMobile(ms[i].mobile, n)
  BY DEF RowsFor, MemberRows
<1>5. ms[i].mobile \in Number
  BY <1>4 DEF MemberShape
<1> QED
  BY <1>3, <1>4, <1>5 DEF SameMobile

\* An operation that keeps every row's number keeps the shape.
LEMMA ShapeOfMap ==
  ASSUME NEW ms, MemberShape(ms), NEW ns, ns = [i \in DOMAIN ms |-> ns[i]],
         \A i \in DOMAIN ms :
           ns[i] \in [mobile : {ms[i].mobile}, balance : {ns[i].balance}, live : BOOLEAN]
  PROVE  MemberShape(ns)
<1>1. DOMAIN ns = DOMAIN ms
  OBVIOUS
<1>2. \A i \in DOMAIN ms : ns[i] \in [mobile : Number, balance : {ns[i].balance}, live : BOOLEAN]
  BY DEF MemberShape
<1> QED
  BY <1>1, <1>2 DEF MemberShape

LEMMA ShapeOfDeltas ==
  ASSUME NEW ms, MemberShape(ms), NEW row, NEW split, NEW sign
  PROVE  MemberShape(PersistDeltas(ms, row, split, sign))
<1> DEFINE ns == PersistDeltas(ms, row, split, sign)
           b(i) == ms[i].balance + sign * BalanceDeltaFor(row, split, ms[i].mobile)
<1>1. \A i \in DOMAIN ms :
        ns[i] = IF ms[i].live THEN [ms[i] EXCEPT !.balance = b(i)] ELSE ms[i]
  BY DEF PersistDeltas
<1>2. ns = [i \in DOMAIN ms |-> ns[i]]
  BY DEF PersistDeltas
<1> HIDE DEF ns, b
<1>3. ASSUME NEW i \in DOMAIN ms
      PROVE  ns[i] \in [mobile : {ms[i].mobile}, balance : {ns[i].balance}, live : BOOLEAN]
  BY <1>1 DEF MemberShape
<1> QED
  BY <1>2, <1>3, ShapeOfMap DEF ns

LEMMA ShapeOfSet ==
  ASSUME NEW ms, MemberShape(ms), NEW want
  PROVE  MemberShape(SetMemberBalances(ms, want))
<1> DEFINE ns == SetMemberBalances(ms, want)
<1>1. \A i \in DOMAIN ms :
        ns[i] = IF ms[i].live /\ ms[i].mobile \in DOMAIN want
                THEN [ms[i] EXCEPT !.balance = want[ms[i].mobile]] ELSE ms[i]
  BY DEF SetMemberBalances
<1>2. ns = [i \in DOMAIN ms |-> ns[i]]
  BY DEF SetMemberBalances
<1> HIDE DEF ns
<1>3. ASSUME NEW i \in DOMAIN ms
      PROVE  ns[i] \in [mobile : {ms[i].mobile}, balance : {ns[i].balance}, live : BOOLEAN]
  BY <1>1 DEF MemberShape
<1> QED
  BY <1>2, <1>3, ShapeOfMap DEF ns

LEMMA ShapeOfRemove ==
  ASSUME NEW ms, MemberShape(ms), NEW n
  PROVE  /\ MemberShape(RemoveRows(ms, n))
         /\ MemberShape(RemoveAllRows(ms))
<1>1. MemberShape(RemoveRows(ms, n))
  <2> DEFINE ns == RemoveRows(ms, n)
  <2>1. \A i \in DOMAIN ms :
          ns[i] = IF ms[i].mobile = n THEN [ms[i] EXCEPT !.live = FALSE] ELSE ms[i]
    BY DEF RemoveRows
  <2>2. ns = [i \in DOMAIN ms |-> ns[i]]
    BY DEF RemoveRows
  <2> HIDE DEF ns
  <2>3. ASSUME NEW i \in DOMAIN ms
        PROVE  ns[i] \in [mobile : {ms[i].mobile}, balance : {ns[i].balance}, live : BOOLEAN]
    BY <2>1 DEF MemberShape
  <2> QED
    BY <2>2, <2>3, ShapeOfMap DEF ns
<1>2. MemberShape(RemoveAllRows(ms))
  <2> DEFINE ns == RemoveAllRows(ms)
  <2>1. \A i \in DOMAIN ms : ns[i] = [ms[i] EXCEPT !.live = FALSE]
    BY DEF RemoveAllRows
  <2>2. ns = [i \in DOMAIN ms |-> ns[i]]
    BY DEF RemoveAllRows
  <2> HIDE DEF ns
  <2>3. ASSUME NEW i \in DOMAIN ms
        PROVE  ns[i] \in [mobile : {ms[i].mobile}, balance : {ns[i].balance}, live : BOOLEAN]
    BY <2>1 DEF MemberShape
  <2> QED
    BY <2>2, <2>3, ShapeOfMap DEF ns
<1> QED
  BY <1>1, <1>2

LEMMA ShapeOfAppend ==
  ASSUME NEW ms, MemberShape(ms), NEW n \in Number
  PROVE  MemberShape(Append(ms, NewMember(n)))
<1> DEFINE e == NewMember(n)
           S == {ms[i] : i \in DOMAIN ms} \cup {e}
<1>1. PICK k \in Nat : DOMAIN ms = 1..k
  BY DEF MemberShape
<1>2. ms \in [1..k -> S]
  BY <1>1 DEF MemberShape
<1>3. ms \in Seq(S)
  BY <1>2, SeqDef
<1>4. e \in S /\ e \in [mobile : Number, balance : {e.balance}, live : BOOLEAN]
  BY DEF NewMember
<1> HIDE DEF e, S
<1>5. Len(ms) = k
  BY <1>1, <1>3, LenProperties
<1>6. /\ Append(ms, e) \in Seq(S)
      /\ Len(Append(ms, e)) = k + 1
      /\ \A i \in 1..k : Append(ms, e)[i] = ms[i]
      /\ Append(ms, e)[k + 1] = e
  BY <1>3, <1>4, <1>5, AppendProperties
<1>7. /\ DOMAIN Append(ms, e) = 1..(k + 1)
      /\ Append(ms, e) = [i \in 1..(k + 1) |-> Append(ms, e)[i]]
  BY <1>6, LenProperties
<1>8. \A i \in 1..(k + 1) : i \in 1..k \/ i = k + 1
  BY <1>1
<1>9. \A i \in DOMAIN Append(ms, e) :
        Append(ms, e)[i] \in
          [mobile : Number, balance : {Append(ms, e)[i].balance}, live : BOOLEAN]
  BY <1>1, <1>4, <1>6, <1>7, <1>8 DEF MemberShape
<1>10. k + 1 \in Nat
  OBVIOUS
<1> QED
  BY <1>7, <1>9, <1>10 DEF MemberShape, e

LEMMA ShapeOfCreateGroup ==
  ASSUME NEW g \in Groups, NEW req \in GroupRequests
  PROVE  MemberShape(CreateGroup(g, req))
<1> DEFINE owner == <<NewMember(Token(OwnerOf[g]))>>
           rest == [i \in DOMAIN req |-> NewMember(req[i])]
           S == {NewMember(n) : n \in Number}
<1>1. PICK k \in Nat : req \in [1..k -> Number]
  BY RequestAssumption, SeqDef
<1>2. Token(OwnerOf[g]) \in Number
  BY NumberAssumption DEF Token, Number
<1>3. owner \in Seq(S) /\ rest \in Seq(S)
  <2>1. owner \in Seq(S)
    BY <1>2
  <2>2. rest \in [1..k -> S]
    BY <1>1
  <2> QED
    BY <2>1, <2>2, SeqDef
<1>4. CreateGroup(g, req) \in Seq(S)
  BY <1>3, ConcatProperties DEF CreateGroup
<1>5. PICK m \in Nat : CreateGroup(g, req) \in [1..m -> S]
  BY <1>4, SeqDef
<1>6. \A e \in S : e \in [mobile : Number, balance : {e.balance}, live : BOOLEAN]
  <2>1. \A n \in Number :
          NewMember(n) \in [mobile : Number, balance : {NewMember(n).balance}, live : BOOLEAN]
    BY DEF NewMember
  <2> QED
    BY <2>1
<1> HIDE DEF S
<1> QED
  BY <1>5, <1>6 DEF MemberShape

-----------------------------------------------------------------------------
(* Splits and generated transactions                                       *)

LEMMA EveryMemberIsSplit ==
  ASSUME NEW ms, MemberShape(ms)
  PROVE  IsSplit(EveryMember(ms))
<1>1. PICK n \in Nat : DOMAIN ms = 1..n
  BY DEF MemberShape
<1>2. MemberRows(ms) \in SUBSET (1..n)
  BY <1>1 DEF MemberRows
<1>3. IsFiniteSet(MemberRows(ms))
  <2>1. IsFiniteSet(1..n)
    BY FS_Interval
  <2> QED
    BY <1>2, <2>1, FS_Subset
<1>4. EveryMember(ms) \in [MemberRows(ms) -> Number]
  BY DEF EveryMember, MemberRows, MemberShape
<1> QED
  BY <1>2, <1>3, <1>4 DEF IsSplit

LEMMA SplitOfRow ==
  ASSUME NEW ms, MemberShape(ms), NEW row, IsSplit(row.split)
  PROVE  /\ IsSplit(SplitMembersFor(ms, row))
         /\ DOMAIN row.split # {} => SplitMembersFor(ms, row) = row.split
  BY EveryMemberIsSplit DEF SplitMembersFor

LEMMA SplitTransactionsType ==
  ASSUME NEW id \in ExpenseIds, NEW g \in Groups, NEW row, IsExpense(row),
         NEW split, IsSplit(split)
  PROVE  /\ SplitTransactions(id, g, row, split) \subseteq Generated
         /\ \A t \in SplitTransactions(id, g, row, split) : t.expense = id /\ t.group = g
<1> SUFFICES ASSUME NEW i \in DOMAIN split
             PROVE  [expense |-> id, slot |-> i, group |-> g, from |-> row.payer,
                     to |-> split[i], amount |-> Share(row, split), status |-> "pending"]
                      \in Generated
  BY DEF SplitTransactions
<1>1. Cardinality(DOMAIN split) \in Nat \ {0}
  BY FS_CardinalityType, FS_EmptySet DEF IsSplit
<1>2. row.amount \in Nat /\ row.payer \in Number
  BY DEF IsExpense
<1>3. Share(row, split) \in Int
  <2>1. \A a \in Nat, n \in Nat \ {0} : a \div n \in Int
    OBVIOUS
  <2> QED
    BY <1>1, <1>2, <2>1 DEF Share
<1>4. i \in Nat /\ split[i] \in Number
  BY DEF IsSplit
<1> QED
  BY <1>2, <1>3, <1>4 DEF Generated

LEMMA GeneratedType ==
  ASSUME NEW id \in ExpenseIds, NEW g \in Groups, NEW row, IsExpense(row),
         NEW split, IsSplit(split)
  PROVE  /\ GeneratedTransactions(id, g, row, split) \subseteq Generated
         /\ \A t \in GeneratedTransactions(id, g, row, split) : t.expense = id /\ t.group = g
<1>1. CASE row.kind = "settlement"
  BY <1>1 DEF GeneratedTransactions, SettlementTransactions, IsExpense, Generated
<1>2. CASE row.kind # "settlement"
  BY <1>2, SplitTransactionsType DEF GeneratedTransactions
<1> QED
  BY <1>1, <1>2

-----------------------------------------------------------------------------
(* The inductive invariant. A transaction writes what its handler decided  *)
(* on an earlier state, so the invariant has to say what of a decision     *)
(* stays true whatever other handlers do meanwhile: an expense keeps its   *)
(* group, its kind and its split for good, and only those matter to the    *)
(* ledger rows an edit generates.                                          *)

PlanShape(p) ==
  \/ IsPlan(p)
  \/ p \in [op : {"recompute"}, group : Groups, want : {p.want}]

\* The types of everything but balances and the corrections to them.
RowsTyped ==
  /\ DOMAIN members = Groups
  /\ \A g \in Groups : MemberShape(members[g])
  /\ dropped \in [Groups -> BOOLEAN]
  /\ DOMAIN expenses = ExpenseIds
  /\ \A id \in ExpenseIds : expenses[id] = NoRow \/ IsExpense(expenses[id])
  /\ ledger \subseteq Generated
  /\ edits \in [ExpenseIds -> Seq([from : Nat, to : Nat])]
  /\ DOMAIN plan = Handlers
  /\ \A h \in Handlers : PlanShape(plan[h])
  /\ calls \in 0..MaxCalls

\* Generated rows belong to an expense that was created, and to its group.
LedgerLinks ==
  \A t \in ledger :
    /\ expenses[t.expense] # NoRow
    /\ t.group = expenses[t.expense].group

\* What of a decision other handlers cannot undo.
Fits(p) ==
  /\ p.op \in {"add", "settle"} => p.new.live /\ Linked(p.new)
  /\ p.op = "update" =>
       /\ expenses[p.id] # NoRow
       /\ expenses[p.id].kind = "expense"
       /\ expenses[p.id].group = p.group
       /\ p.new.kind = "expense" /\ p.new.group = p.group /\ p.new.live
       /\ Linked(p.new) => p.split = p.new.split
PlansFit == \A h \in Handlers : Fits(plan[h])

IInv == RowsTyped /\ LedgerLinks /\ PlansFit /\ LedgerMirrorsExpenses

LEMMA ExpenseFacts ==
  ASSUME NEW row, IsExpense(row)
  PROVE  /\ row # NoRow
         /\ row.kind \in {"expense", "settlement"}
         /\ row.group \in Groups /\ row.live \in BOOLEAN /\ row.amount \in Nat
         /\ IsSplit(row.split)
  BY DEF IsExpense, NoRow

LEMMA InitIInv == Init => IInv
<1> SUFFICES ASSUME Init PROVE IInv
  OBVIOUS
<1>1. PICK request \in [Groups -> GroupRequests], old \in LegacyRows, drift \in InitialDrifts :
        /\ expenses = [id \in ExpenseIds |-> IF id \in DOMAIN old THEN old[id] ELSE NoRow]
        /\ members = [g \in Groups |->
             LET ms == CreateGroup(g, request[g])
             IN [i \in DOMAIN ms |->
                  [ms[i] EXCEPT !.balance =
                     Expected(ms, expenses, g, ms[i].mobile) + drift[ms[i].mobile[1]]]]]
  BY DEF Init
<1>2. /\ dropped = [g \in Groups |-> FALSE]
      /\ ledger = {}
      /\ edits = [id \in ExpenseIds |-> <<>>]
      /\ plan = [h \in Handlers |-> Idle]
      /\ calls = 0
  BY DEF Init
<1>3. \A id \in ExpenseIds :
        expenses[id] = NoRow \/ (IsExpense(expenses[id]) /\ ~Linked(expenses[id]))
  BY <1>1, LegacyAssumption
<1>4. ASSUME NEW g \in Groups
      PROVE  MemberShape(members[g])
  <2> DEFINE ms == CreateGroup(g, request[g])
             ns == members[g]
             b(i) == Expected(ms, expenses, g, ms[i].mobile) + drift[ms[i].mobile[1]]
  <2>1. MemberShape(ms)
    BY ShapeOfCreateGroup
  <2>2. ns = [i \in DOMAIN ms |-> [ms[i] EXCEPT !.balance = b(i)]]
    BY <1>1
  <2> HIDE DEF ms, ns, b
  <2>3. ns = [i \in DOMAIN ms |-> ns[i]]
    BY <2>2
  <2>4. ASSUME NEW i \in DOMAIN ms
        PROVE  ns[i] \in [mobile : {ms[i].mobile}, balance : {ns[i].balance}, live : BOOLEAN]
    BY <2>1, <2>2 DEF MemberShape
  <2>5. MemberShape(ns)
    BY <2>1, <2>3, <2>4, ShapeOfMap
  <2> QED
    BY <2>5 DEF ns
<1>5. RowsTyped
  BY <1>1, <1>2, <1>3, <1>4, BoundAssumption DEF RowsTyped, PlanShape, IsPlan
<1>6. LedgerLinks /\ PlansFit
  BY <1>2 DEF LedgerLinks, PlansFit, Fits, Idle
<1>7. LedgerMirrorsExpenses
  BY <1>2, <1>3 DEF LedgerMirrorsExpenses, TransactionsOf, NoRow
<1> QED
  BY <1>5, <1>6, <1>7 DEF IInv

-----------------------------------------------------------------------------
(* Decisions                                                               *)

LEMMA DecideStep ==
  ASSUME IInv, NEW h \in Handlers, NEW op, NEW d, Decide(h, op, d), PlanShape(d), Fits(d)
  PROVE  IInv'
<1>1. /\ plan' = [plan EXCEPT ![h] = d]
      /\ calls < MaxCalls /\ calls' = calls + 1
      /\ UNCHANGED <<members, dropped, expenses, ledger, edits>>
  BY DEF Decide
<1>2. calls' \in 0..MaxCalls
  BY <1>1, BoundAssumption DEF IInv, RowsTyped
<1>3. RowsTyped'
  BY <1>1, <1>2 DEF IInv, RowsTyped
<1>4. PlansFit'
  <2>1. \A p : Fits(p) => Fits(p)'
    BY <1>1 DEF Fits
  <2> QED
    BY <1>1, <2>1 DEF IInv, RowsTyped, PlansFit
<1>5. LedgerLinks' /\ LedgerMirrorsExpenses'
  BY <1>1 DEF IInv, LedgerLinks, LedgerMirrorsExpenses, TransactionsOf
<1> QED
  BY <1>3, <1>4, <1>5 DEF IInv

LEMMA AddDecides ==
  ASSUME IInv, NEW h \in Handlers, NEW g \in Groups, NEW u \in Callers,
         NEW payer \in Numbers, NEW splitWith \in SplitRequests, NEW amount \in Amounts,
         AddGroupExpense(h, g, u, payer, splitWith, amount)
  PROVE  IInv'
<1> DEFINE ms == members[g]
           split == IF splitWith = <<>> THEN EveryMember(ms)
                    ELSE [i \in DOMAIN splitWith |-> ResolveMemberMobile(ms, splitWith[i])]
           new == [group |-> g, kind |-> "expense", payer |-> ResolveMemberMobile(ms, payer),
                   receiver |-> NoNumber, split |-> split, amount |-> amount,
                   createdBy |-> u, live |-> TRUE]
<1>1. /\ IsGroupMember(ms, Token(u)) /\ IsGroupMember(ms, payer)
      /\ \A i \in DOMAIN splitWith : IsGroupMember(ms, splitWith[i])
      /\ Decide(h, "add", [op |-> "add", new |-> new])
  BY DEF AddGroupExpense
<1>2. MemberShape(ms)
  BY DEF IInv, RowsTyped
<1>3. IsSplit(split) /\ DOMAIN split # {}
  <2>1. CASE splitWith = <<>>
    <3>1. DOMAIN EveryMember(ms) # {}
      BY <1>1 DEF EveryMember, IsGroupMember, RowsFor
    <3> QED
      BY <1>2, <2>1, <3>1, EveryMemberIsSplit
  <2>2. CASE splitWith # <<>>
    <3>1. PICK n \in Nat : splitWith \in [1..n -> Number]
      BY RequestAssumption, SeqDef
    <3>2. DOMAIN splitWith = 1..n /\ n # 0
      BY <2>2, <3>1
    <3>3. IsFiniteSet(1..n)
      BY FS_Interval
    <3>4. \A i \in DOMAIN splitWith : ResolveMemberMobile(ms, splitWith[i]) \in Number
      BY <1>1, <1>2, Resolved
    <3> QED
      BY <2>2, <3>2, <3>3, <3>4 DEF IsSplit
  <2> QED
    BY <2>1, <2>2
<1>4. ResolveMemberMobile(ms, payer) \in Number
  BY <1>1, <1>2, Resolved
<1>5. amount \in Nat /\ u \in People
  BY RequestAssumption
<1> HIDE DEF ms, split
<1>6. IsExpense(new)
  BY <1>3, <1>4, <1>5 DEF IsExpense
<1>7. new.live /\ Linked(new)
  BY <1>3 DEF Linked
<1> HIDE DEF new
<1>8. PlanShape([op |-> "add", new |-> new])
  BY <1>6 DEF PlanShape, IsPlan
<1>9. Fits([op |-> "add", new |-> new])
  BY <1>7 DEF Fits
<1> QED
  BY <1>1, <1>8, <1>9, DecideStep

LEMMA SettleDecides ==
  ASSUME IInv, NEW h \in Handlers, NEW g \in Groups, NEW u \in Callers,
         NEW payer \in Numbers, NEW receiver \in Numbers, NEW amount \in Amounts,
         SettleGroup(h, g, u, payer, receiver, amount)
  PROVE  IInv'
<1> DEFINE ms == members[g]
           new == [group |-> g, kind |-> "settlement", payer |-> ResolveMemberMobile(ms, payer),
                   receiver |-> ResolveMemberMobile(ms, receiver), split |-> <<>>,
                   amount |-> amount, createdBy |-> u, live |-> TRUE]
<1>1. /\ IsGroupMember(ms, payer) /\ IsGroupMember(ms, receiver)
      /\ Decide(h, "settle", [op |-> "settle", new |-> new])
  BY DEF SettleGroup
<1>2. MemberShape(ms)
  BY DEF IInv, RowsTyped
<1>3. /\ ResolveMemberMobile(ms, payer) \in Number
      /\ ResolveMemberMobile(ms, receiver) \in Number
      /\ ResolveMemberMobile(ms, receiver) # NoNumber
  BY <1>1, <1>2, Resolved
<1>4. amount \in Nat /\ u \in People
  BY RequestAssumption
<1>5. IsSplit(<<>>)
  BY FS_EmptySet DEF IsSplit
<1> HIDE DEF ms
<1>6. IsExpense(new)
  BY <1>3, <1>4, <1>5 DEF IsExpense
<1>7. new.live /\ Linked(new)
  BY <1>3 DEF Linked
<1> HIDE DEF new
<1>8. PlanShape([op |-> "settle", new |-> new])
  BY <1>6 DEF PlanShape, IsPlan
<1>9. Fits([op |-> "settle", new |-> new])
  BY <1>7 DEF Fits
<1> QED
  BY <1>1, <1>8, <1>9, DecideStep

LEMMA UpdateDecides ==
  ASSUME IInv, ~StrayEdits, NEW h \in Handlers, NEW g \in Groups, NEW id \in ExpenseIds,
         NEW u \in Callers, NEW payer \in Numbers \cup {NoNumber}, NEW amount \in Amounts,
         UpdateGroupExpense(h, g, id, u, payer, amount)
  PROVE  IInv'
<1> DEFINE row == expenses[id]
           newPayer == IF payer = NoNumber THEN row.payer ELSE payer
           new == [row EXCEPT !.payer = newPayer, !.amount = amount]
           split == SplitMembersFor(members[g], row)
           d == [op |-> "update", group |-> g, id |-> id, old |-> row, new |-> new,
                 split |-> split]
<1>1. /\ row.live /\ row.group = g /\ row.kind = "expense"
      /\ Decide(h, "update", d)
  BY DEF UpdateGroupExpense
<1>2. IsExpense(row)
  BY <1>1 DEF IInv, RowsTyped, NoRow
<1>3. newPayer \in Number /\ amount \in Nat
  BY <1>2, RequestAssumption DEF IsExpense
<1>4. /\ IsSplit(split)
      /\ DOMAIN row.split # {} => split = row.split
  BY <1>2, SplitOfRow, ExpenseFacts DEF IInv, RowsTyped
<1> HIDE DEF row, newPayer, split
<1>5. /\ IsExpense(new)
      /\ new.kind = row.kind /\ new.group = row.group /\ new.live = row.live
      /\ new.split = row.split
  BY <1>2, <1>3 DEF IsExpense
<1> HIDE DEF new
<1>6. PlanShape(d)
  BY <1>2, <1>4, <1>5 DEF PlanShape, IsPlan
<1>7. Fits(d)
  BY <1>1, <1>2, <1>4, <1>5, ExpenseFacts DEF Fits, Linked, row
<1> HIDE DEF d
<1> QED
  BY <1>1, <1>6, <1>7, DecideStep

LEMMA DeleteDecides ==
  ASSUME IInv, NEW h \in Handlers, NEW g \in Groups, NEW id \in ExpenseIds,
         NEW u \in Callers, DeleteGroupExpense(h, g, id, u)
  PROVE  IInv'
<1> DEFINE row == expenses[id]
           split == SplitMembersFor(members[g], row)
           d == [op |-> "delete", group |-> g, id |-> id, old |-> row, split |-> split]
<1>1. row.live /\ Decide(h, "delete", d)
  BY DEF DeleteGroupExpense
<1>2. IsExpense(row)
  BY <1>1 DEF IInv, RowsTyped, NoRow
<1>3. IsSplit(split)
  BY <1>2, SplitOfRow, ExpenseFacts DEF IInv, RowsTyped
<1> HIDE DEF row, split
<1>4. PlanShape(d)
  BY <1>2, <1>3 DEF PlanShape, IsPlan
<1>5. Fits(d)
  BY DEF Fits
<1> HIDE DEF d
<1> QED
  BY <1>1, <1>4, <1>5, DecideStep

LEMMA MembershipDecides ==
  ASSUME IInv, NEW h \in Handlers, NEW g \in Groups,
         \/ \E u \in Callers, n \in Joiners : AddMember(h, g, u, n)
         \/ \E u \in Callers, n \in Leavers : RemoveMember(h, g, u, n)
         \/ \E u \in Callers : DeleteGroup(h, g, u)
         \/ RecomputeGroupBalances(h, g)
  PROVE  IInv'
<1>1. ASSUME NEW u \in Callers, NEW n \in Joiners, AddMember(h, g, u, n)
      PROVE  IInv'
  <2> DEFINE d == [op |-> "join", group |-> g, mobile |-> n]
  <2>1. Decide(h, "join", d)
    BY <1>1 DEF AddMember
  <2>2. PlanShape(d) /\ Fits(d)
    BY RequestAssumption DEF PlanShape, IsPlan, Fits
  <2> HIDE DEF d
  <2> QED
    BY <2>1, <2>2, DecideStep
<1>2. ASSUME NEW u \in Callers, NEW n \in Leavers, RemoveMember(h, g, u, n)
      PROVE  IInv'
  <2> DEFINE d == [op |-> "leave", group |-> g, mobile |-> ResolveMemberMobile(members[g], n)]
  <2>1. Decide(h, "leave", d) /\ IsGroupMember(members[g], n)
    BY <1>2 DEF RemoveMember
  <2>2. ResolveMemberMobile(members[g], n) \in Number
    BY <2>1, Resolved DEF IInv, RowsTyped
  <2>3. PlanShape(d) /\ Fits(d)
    BY <2>2 DEF PlanShape, IsPlan, Fits
  <2> HIDE DEF d
  <2> QED
    BY <2>1, <2>3, DecideStep
<1>3. ASSUME NEW u \in Callers, DeleteGroup(h, g, u)
      PROVE  IInv'
  <2> DEFINE d == [op |-> "drop", group |-> g]
  <2>1. Decide(h, "drop", d)
    BY <1>3 DEF DeleteGroup
  <2>2. PlanShape(d) /\ Fits(d)
    BY DEF PlanShape, IsPlan, Fits
  <2> HIDE DEF d
  <2> QED
    BY <2>1, <2>2, DecideStep
<1>4. ASSUME RecomputeGroupBalances(h, g)
      PROVE  IInv'
  <2> DEFINE w == Corrections(members[g], expenses, g)
             d == [op |-> "recompute", group |-> g, want |-> w]
  <2>1. Decide(h, "recompute", d)
    BY <1>4 DEF RecomputeGroupBalances
  <2> HIDE DEF w
  <2>2. PlanShape(d) /\ Fits(d)
    BY DEF PlanShape, Fits
  <2> HIDE DEF d
  <2> QED
    BY <2>1, <2>2, DecideStep
<1> QED
  BY <1>1, <1>2, <1>3, <1>4

-----------------------------------------------------------------------------
(* Transactions                                                            *)

LEMMA PlanFacts ==
  ASSUME NEW p, PlanShape(p)
  PROVE  /\ p.op \in {"add", "settle"} => IsExpense(p.new)
         /\ p.op = "update" =>
              /\ p.group \in Groups /\ p.id \in ExpenseIds
              /\ IsExpense(p.old) /\ IsExpense(p.new) /\ IsSplit(p.split)
         /\ p.op = "delete" => p.group \in Groups /\ p.id \in ExpenseIds
         /\ p.op \in {"join", "leave"} => p.group \in Groups /\ p.mobile \in Number
         /\ p.op \in {"drop", "recompute"} => p.group \in Groups
  BY DEF PlanShape, IsPlan, Idle

\* An expense that was created keeps its group and its kind.
Lasting(id) ==
  expenses[id] # NoRow =>
    /\ expenses'[id] # NoRow
    /\ expenses'[id].kind = expenses[id].kind
    /\ expenses'[id].group = expenses[id].group

\* The other handlers' decisions survive a transaction.
LEMMA FinishStep ==
  ASSUME IInv, NEW h \in Handlers, Finish(h), \A id \in ExpenseIds : Lasting(id)
  PROVE  /\ PlansFit'
         /\ DOMAIN plan' = Handlers
         /\ \A k \in Handlers : PlanShape(plan'[k])
         /\ calls' \in 0..MaxCalls
<1>1. plan' = [plan EXCEPT ![h] = Idle] /\ calls' = calls
  BY DEF Finish
<1>2. \A k \in Handlers : plan'[k] = IF k = h THEN Idle ELSE plan[k]
  BY <1>1 DEF IInv, RowsTyped
<1>3. PlanShape(Idle) /\ \A k \in Handlers : PlanShape(plan[k])
  BY DEF IInv, RowsTyped, PlanShape, IsPlan
<1>4. Fits(Idle)'
  BY DEF Fits, Idle
<1>5. ASSUME NEW k \in Handlers
      PROVE  Fits(plan[k])'
  <2>1. CASE k = h
    BY <1>2, <1>4, <2>1 DEF Fits
  <2>2. CASE k # h
    <3> DEFINE p == plan[k]
    <3>1. plan'[k] = p
      BY <1>2, <2>2
    <3>2. p.op = "update" => p.id \in ExpenseIds
      BY <1>3, PlanFacts
    <3>3. Fits(p)
      BY DEF IInv, PlansFit
    <3> HIDE DEF p
    <3>4. p.op = "update" =>
            /\ expenses'[p.id] # NoRow
            /\ expenses'[p.id].kind = "expense"
            /\ expenses'[p.id].group = p.group
      BY <3>2, <3>3 DEF Fits, Lasting
    <3> QED
      BY <3>1, <3>3, <3>4 DEF Fits
  <2> QED
    BY <2>1, <2>2
<1>6. PlansFit'
  BY <1>5 DEF PlansFit, Fits
<1> QED
  BY <1>1, <1>2, <1>3, <1>6 DEF IInv, RowsTyped

LEMMA MembersStep ==
  ASSUME RowsTyped, NEW g \in Groups, NEW ms, MemberShape(ms),
         members' = [members EXCEPT ![g] = ms]
  PROVE  /\ DOMAIN members' = Groups
         /\ \A k \in Groups : MemberShape(members'[k])
  BY DEF RowsTyped

LEMMA CreateExpenseStep ==
  ASSUME IInv, NEW h \in Handlers, CreateExpenseTx(h)
  PROVE  IInv'
<1> DEFINE row == plan[h].new
           g == row.group
<1>1. PICK id \in ExpenseIds :
        /\ expenses[id].kind = "none"
        /\ expenses' = [expenses EXCEPT ![id] = row]
        /\ ledger' = ledger \cup GeneratedTransactions(id, g, row, row.split)
  BY DEF CreateExpenseTx, FreshExpense
<1>2. /\ plan[h].op \in {"add", "settle"}
      /\ members' = [members EXCEPT ![g] = PersistDeltas(members[g], row, row.split, 1)]
      /\ Finish(h)
      /\ UNCHANGED <<dropped, edits>>
  BY DEF CreateExpenseTx
<1>3. /\ IsExpense(row)
      /\ row.live /\ Linked(row)
  BY <1>2, PlanFacts DEF IInv, RowsTyped, PlansFit, Fits
<1>4. /\ row # NoRow /\ g \in Groups /\ IsSplit(row.split)
  BY <1>3, ExpenseFacts
<1> HIDE DEF row
<1>5. expenses[id] = NoRow
  BY <1>1, ExpenseFacts DEF IInv, RowsTyped
<1>6. /\ expenses'[id] = row
      /\ \A k \in ExpenseIds : k # id => expenses'[k] = expenses[k]
      /\ DOMAIN expenses' = ExpenseIds
  BY <1>1 DEF IInv, RowsTyped
<1>7. \A k \in ExpenseIds : Lasting(k)
  BY <1>5, <1>6 DEF Lasting
<1>8. /\ GeneratedTransactions(id, g, row, row.split) \subseteq Generated
      /\ \A t \in GeneratedTransactions(id, g, row, row.split) : t.expense = id /\ t.group = g
  BY <1>3, <1>4, GeneratedType
<1>9. \A t \in ledger : t.expense \in ExpenseIds /\ t.expense # id
  BY <1>5 DEF IInv, RowsTyped, LedgerLinks, Generated
<1>10. RowsTyped'
  <2>1. MemberShape(PersistDeltas(members[g], row, row.split, 1))
    BY <1>4, ShapeOfDeltas DEF IInv, RowsTyped
  <2>2. DOMAIN members' = Groups /\ \A k \in Groups : MemberShape(members'[k])
    BY <1>2, <1>4, <2>1, MembersStep DEF IInv
  <2>3. ledger' \subseteq Generated
    BY <1>1, <1>8 DEF IInv, RowsTyped
  <2> QED
    BY <1>2, <1>3, <1>6, <1>7, <2>2, <2>3, FinishStep DEF IInv, RowsTyped
<1>11. LedgerLinks'
  BY <1>1, <1>4, <1>6, <1>8, <1>9 DEF IInv, LedgerLinks
<1>12. LedgerMirrorsExpenses'
  <2>1. {t \in ledger' : t.expense = id} = GeneratedTransactions(id, g, row, row.split)
    BY <1>1, <1>8, <1>9
  <2>2. \A k \in ExpenseIds : k # id =>
          {t \in ledger' : t.expense = k} = {t \in ledger : t.expense = k}
    BY <1>1, <1>8
  <2> SUFFICES ASSUME NEW k \in ExpenseIds
               PROVE  /\ expenses'[k].live /\ Linked(expenses'[k]) =>
                           {t \in ledger' : t.expense = k} =
                             GeneratedTransactions(k, expenses'[k].group, expenses'[k],
                                                   expenses'[k].split)
                      /\ ~expenses'[k].live /\ (expenses'[k] # NoRow =>
                                                  ~dropped'[expenses'[k].group]) =>
                           {t \in ledger' : t.expense = k} = {}
    BY DEF LedgerMirrorsExpenses, TransactionsOf
  <2>3. CASE k = id
    BY <1>3, <1>6, <2>1, <2>3
  <2>4. CASE k # id
    BY <1>2, <1>6, <2>2, <2>4 DEF IInv, LedgerMirrorsExpenses, TransactionsOf
  <2> QED
    BY <2>3, <2>4
<1> QED
  BY <1>2, <1>7, <1>10, <1>11, <1>12, FinishStep DEF IInv

LEMMA UpdateStep ==
  ASSUME IInv, NEW h \in Handlers, UpdateGroupExpenseTx(h)
  PROVE  IInv'
<1> DEFINE p == plan[h]
           ms == PersistDeltas(PersistDeltas(members[p.group], p.old, p.split, -1),
                               p.new, p.split, 1)
           added == SplitTransactions(p.id, p.group, p.new, p.split)
<1>1. /\ p.op = "update"
      /\ members' = [members EXCEPT ![p.group] = ms]
      /\ edits' = [edits EXCEPT ![p.id] = LogEdit(edits[p.id], p.old.amount, p.new.amount)]
      /\ expenses' = [expenses EXCEPT ![p.id] = p.new]
      /\ ledger' = {t \in ledger : t.expense # p.id} \cup added
      /\ Finish(h)
      /\ UNCHANGED dropped
  BY DEF UpdateGroupExpenseTx, DeleteByGroupExpense
<1>2. /\ p.group \in Groups /\ p.id \in ExpenseIds
      /\ IsExpense(p.old) /\ IsExpense(p.new) /\ IsSplit(p.split)
  BY <1>1, PlanFacts DEF IInv, RowsTyped
<1>3. /\ expenses[p.id] # NoRow
      /\ expenses[p.id].kind = "expense" /\ expenses[p.id].group = p.group
      /\ p.new.kind = "expense" /\ p.new.group = p.group /\ p.new.live
      /\ Linked(p.new) => p.split = p.new.split
  BY <1>1 DEF IInv, PlansFit, Fits
<1>4. MemberShape(ms)
  BY <1>2, ShapeOfDeltas DEF IInv, RowsTyped
<1>5. /\ p.new # NoRow /\ p.old.amount \in Nat /\ p.new.amount \in Nat
  BY <1>2, ExpenseFacts
<1>6. added \subseteq Generated /\ \A t \in added : t.expense = p.id /\ t.group = p.group
  BY <1>2, SplitTransactionsType
<1> HIDE DEF p, ms, added
<1>7. /\ expenses'[p.id] = p.new
      /\ \A k \in ExpenseIds : k # p.id => expenses'[k] = expenses[k]
      /\ DOMAIN expenses' = ExpenseIds
  BY <1>1, <1>2 DEF IInv, RowsTyped
<1>8. \A k \in ExpenseIds : Lasting(k)
  BY <1>3, <1>5, <1>7 DEF Lasting
<1>9. \A t \in ledger : t.expense \in ExpenseIds
  BY DEF IInv, RowsTyped, Generated
<1>10. RowsTyped'
  <2>1. DOMAIN members' = Groups /\ \A k \in Groups : MemberShape(members'[k])
    BY <1>1, <1>2, <1>4, MembersStep DEF IInv
  <2>2. ledger' \subseteq Generated
    BY <1>1, <1>6 DEF IInv, RowsTyped
  <2>3. edits' \in [ExpenseIds -> Seq([from : Nat, to : Nat])]
    <3>1. edits[p.id] \in Seq([from : Nat, to : Nat])
      BY <1>2 DEF IInv, RowsTyped
    <3>2. LogEdit(edits[p.id], p.old.amount, p.new.amount) \in Seq([from : Nat, to : Nat])
      BY <1>5, <3>1, AppendProperties DEF LogEdit
    <3> QED
      BY <1>1, <3>2 DEF IInv, RowsTyped
  <2> QED
    BY <1>1, <1>2, <1>7, <1>8, <2>1, <2>2, <2>3, FinishStep DEF IInv, RowsTyped
<1>11. LedgerLinks'
  BY <1>1, <1>2, <1>3, <1>5, <1>6, <1>7, <1>9 DEF IInv, LedgerLinks
<1>12. LedgerMirrorsExpenses'
  <2>1. {t \in ledger' : t.expense = p.id} = added
    BY <1>1, <1>6
  <2>2. \A k \in ExpenseIds : k # p.id =>
          {t \in ledger' : t.expense = k} = {t \in ledger : t.expense = k}
    BY <1>1, <1>6
  <2>3. Linked(p.new) => added = GeneratedTransactions(p.id, p.new.group, p.new, p.new.split)
    BY <1>3 DEF GeneratedTransactions, added
  <2> SUFFICES ASSUME NEW k \in ExpenseIds
               PROVE  /\ expenses'[k].live /\ Linked(expenses'[k]) =>
                           {t \in ledger' : t.expense = k} =
                             GeneratedTransactions(k, expenses'[k].group, expenses'[k],
                                                   expenses'[k].split)
                      /\ ~expenses'[k].live /\ (expenses'[k] # NoRow =>
                                                  ~dropped'[expenses'[k].group]) =>
                           {t \in ledger' : t.expense = k} = {}
    BY DEF LedgerMirrorsExpenses, TransactionsOf
  <2>4. CASE k = p.id
    BY <1>3, <1>7, <2>1, <2>3, <2>4
  <2>5. CASE k # p.id
    BY <1>1, <1>7, <2>2, <2>5 DEF IInv, LedgerMirrorsExpenses, TransactionsOf
  <2> QED
    BY <2>4, <2>5
<1> QED
  BY <1>1, <1>8, <1>10, <1>11, <1>12, FinishStep DEF IInv

LEMMA DeleteStep ==
  ASSUME IInv, NEW h \in Handlers, DeleteGroupExpenseTx(h)
  PROVE  IInv'
<1> DEFINE p == plan[h]
           ms == PersistDeltas(members[p.group], p.old, p.split, -1)
<1>1. /\ p.op = "delete"
      /\ members' = [members EXCEPT ![p.group] = ms]
      /\ ledger' = {t \in ledger : t.expense # p.id}
      /\ expenses' = [expenses EXCEPT ![p.id] = [expenses[p.id] EXCEPT !.live = FALSE]]
      /\ Finish(h)
      /\ UNCHANGED <<dropped, edits>>
  BY DEF DeleteGroupExpenseTx, DeleteByGroupExpense
<1>2. p.group \in Groups /\ p.id \in ExpenseIds
  BY <1>1, PlanFacts DEF IInv, RowsTyped
<1>3. MemberShape(ms)
  BY <1>2, ShapeOfDeltas DEF IInv, RowsTyped
<1> HIDE DEF p, ms
<1>4. /\ expenses'[p.id] = [expenses[p.id] EXCEPT !.live = FALSE]
      /\ \A k \in ExpenseIds : k # p.id => expenses'[k] = expenses[k]
      /\ DOMAIN expenses' = ExpenseIds
  BY <1>1, <1>2 DEF IInv, RowsTyped
<1>5. /\ expenses'[p.id] = NoRow \/ IsExpense(expenses'[p.id])
      /\ ~expenses'[p.id].live
      /\ Lasting(p.id)
  <2>1. CASE expenses[p.id] = NoRow
    <3>1. NoRow \in [kind : {"none"}, live : {FALSE}]
      BY DEF NoRow
    <3>2. \A r \in [kind : {"none"}, live : {FALSE}] :
            [r EXCEPT !.live = FALSE] = r /\ ~r.live
      OBVIOUS
    <3> QED
      BY <1>4, <2>1, <3>1, <3>2 DEF Lasting
  <2>2. CASE IsExpense(expenses[p.id])
    <3> DEFINE row == expenses[p.id]
    <3>1. expenses'[p.id] = [row EXCEPT !.live = FALSE]
      BY <1>4
    <3>2. IsExpense(row)
      BY <2>2
    <3> HIDE DEF row
    <3>3. /\ IsExpense([row EXCEPT !.live = FALSE])
          /\ ~[row EXCEPT !.live = FALSE].live
          /\ [row EXCEPT !.live = FALSE].kind = row.kind
          /\ [row EXCEPT !.live = FALSE].group = row.group
      BY <3>2 DEF IsExpense
    <3> QED
      BY <3>1, <3>3, ExpenseFacts DEF Lasting, row
  <2> QED
    BY <1>2, <2>1, <2>2 DEF IInv, RowsTyped
<1>6. \A k \in ExpenseIds : Lasting(k)
  BY <1>4, <1>5 DEF Lasting
<1>7. RowsTyped'
  <2>1. DOMAIN members' = Groups /\ \A k \in Groups : MemberShape(members'[k])
    BY <1>1, <1>2, <1>3, MembersStep DEF IInv
  <2>2. ledger' \subseteq Generated
    BY <1>1 DEF IInv, RowsTyped
  <2> QED
    BY <1>1, <1>4, <1>5, <1>6, <2>1, <2>2, FinishStep DEF IInv, RowsTyped
<1>8. LedgerLinks'
  <2>1. \A t \in ledger' : t \in ledger /\ t.expense \in ExpenseIds
    BY <1>1 DEF IInv, RowsTyped, Generated
  <2> QED
    BY <1>6, <2>1 DEF IInv, LedgerLinks, Lasting
<1>9. LedgerMirrorsExpenses'
  <2>1. {t \in ledger' : t.expense = p.id} = {}
    BY <1>1
  <2>2. \A k \in ExpenseIds : k # p.id =>
          {t \in ledger' : t.expense = k} = {t \in ledger : t.expense = k}
    BY <1>1
  <2> SUFFICES ASSUME NEW k \in ExpenseIds
               PROVE  /\ expenses'[k].live /\ Linked(expenses'[k]) =>
                           {t \in ledger' : t.expense = k} =
                             GeneratedTransactions(k, expenses'[k].group, expenses'[k],
                                                   expenses'[k].split)
                      /\ ~expenses'[k].live /\ (expenses'[k] # NoRow =>
                                                  ~dropped'[expenses'[k].group]) =>
                           {t \in ledger' : t.expense = k} = {}
    BY DEF LedgerMirrorsExpenses, TransactionsOf
  <2>3. CASE k = p.id
    BY <1>5, <2>1, <2>3
  <2>4. CASE k # p.id
    BY <1>1, <1>4, <2>2, <2>4 DEF IInv, LedgerMirrorsExpenses, TransactionsOf
  <2> QED
    BY <2>3, <2>4
<1> QED
  BY <1>1, <1>6, <1>7, <1>8, <1>9, FinishStep DEF IInv

LEMMA DropStep ==
  ASSUME IInv, NEW h \in Handlers, DeleteGroupTx(h)
  PROVE  IInv'
<1> DEFINE g == plan[h].group
           gone == LiveRows(expenses, g)
<1>1. /\ plan[h].op = "drop"
      /\ ledger' \in {ledger, {t \in ledger : t.group # g}}
      /\ members' = [members EXCEPT ![g] = RemoveAllRows(members[g])]
      /\ expenses' = [id \in ExpenseIds |-> IF id \in gone
                        THEN [expenses[id] EXCEPT !.live = FALSE] ELSE expenses[id]]
      /\ dropped' = [dropped EXCEPT ![g] = TRUE]
      /\ Finish(h)
      /\ UNCHANGED edits
  BY DEF DeleteGroupTx
<1>2. g \in Groups
  BY <1>1, PlanFacts DEF IInv, RowsTyped
<1>3. \A id \in ExpenseIds : id \in gone <=> expenses[id].live /\ expenses[id].group = g
  BY DEF LiveRows
<1> HIDE DEF g, gone
<1>4. DOMAIN expenses' = ExpenseIds
  BY <1>1
<1>5. ASSUME NEW id \in ExpenseIds, id \in gone
      PROVE  /\ IsExpense(expenses'[id]) /\ ~expenses'[id].live
             /\ expenses'[id].group = g
             /\ Lasting(id)
  <2> DEFINE row == expenses[id]
  <2>1. expenses'[id] = [row EXCEPT !.live = FALSE]
    BY <1>1, <1>5
  <2>2. IsExpense(row) /\ row.group = g
    BY <1>3, <1>5 DEF IInv, RowsTyped, NoRow
  <2> HIDE DEF row
  <2>3. /\ IsExpense([row EXCEPT !.live = FALSE])
        /\ ~[row EXCEPT !.live = FALSE].live
        /\ [row EXCEPT !.live = FALSE].kind = row.kind
        /\ [row EXCEPT !.live = FALSE].group = row.group
    BY <2>2 DEF IsExpense
  <2> QED
    BY <2>1, <2>2, <2>3, ExpenseFacts DEF Lasting, row
<1>6. \A id \in ExpenseIds : id \notin gone => expenses'[id] = expenses[id]
  BY <1>1
<1>7. \A id \in ExpenseIds : Lasting(id)
  BY <1>5, <1>6 DEF Lasting
<1>8. \A t \in ledger' : t \in ledger /\ t.expense \in ExpenseIds
  BY <1>1 DEF IInv, RowsTyped, Generated
<1>9. RowsTyped'
  <2>1. MemberShape(RemoveAllRows(members[g]))
    BY <1>2, ShapeOfRemove DEF IInv, RowsTyped
  <2>2. DOMAIN members' = Groups /\ \A k \in Groups : MemberShape(members'[k])
    BY <1>1, <1>2, <2>1, MembersStep DEF IInv
  <2>3. ledger' \subseteq Generated
    BY <1>8 DEF IInv, RowsTyped
  <2>4. dropped' \in [Groups -> BOOLEAN]
    BY <1>1 DEF IInv, RowsTyped
  <2>5. \A id \in ExpenseIds : expenses'[id] = NoRow \/ IsExpense(expenses'[id])
    BY <1>5, <1>6 DEF IInv, RowsTyped
  <2> QED
    BY <1>1, <1>4, <1>7, <2>2, <2>3, <2>4, <2>5, FinishStep DEF IInv, RowsTyped
<1>10. LedgerLinks'
  BY <1>7, <1>8 DEF IInv, LedgerLinks, Lasting
<1>11. LedgerMirrorsExpenses'
  <2> SUFFICES ASSUME NEW k \in ExpenseIds
               PROVE  /\ expenses'[k].live /\ Linked(expenses'[k]) =>
                           {t \in ledger' : t.expense = k} =
                             GeneratedTransactions(k, expenses'[k].group, expenses'[k],
                                                   expenses'[k].split)
                      /\ ~expenses'[k].live /\ (expenses'[k] # NoRow =>
                                                  ~dropped'[expenses'[k].group]) =>
                           {t \in ledger' : t.expense = k} = {}
    BY DEF LedgerMirrorsExpenses, TransactionsOf
  <2>1. dropped'[g] /\ \A q \in Groups : q # g => dropped'[q] = dropped[q]
    BY <1>1, <1>2 DEF IInv, RowsTyped
  <2>2. CASE k \in gone
    BY <1>5, <2>1, <2>2, ExpenseFacts
  <2>3. CASE k \notin gone
    <3>1. expenses'[k] = expenses[k]
      BY <1>6, <2>3
    <3>2. CASE expenses[k] = NoRow
      BY <1>8, <3>1, <3>2 DEF IInv, LedgerLinks, NoRow
    <3>3. CASE IsExpense(expenses[k]) /\ expenses[k].group = g
      <4>1. ~expenses[k].live
        BY <1>3, <2>3, <3>3
      <4> QED
        BY <2>1, <3>1, <3>3, <4>1, ExpenseFacts
    <3>4. CASE IsExpense(expenses[k]) /\ expenses[k].group # g
      <4>1. expenses[k].group \in Groups
        BY <3>4, ExpenseFacts
      <4>2. \A t \in ledger : t.expense = k => t.group # g
        BY <3>4 DEF IInv, LedgerLinks
      <4>3. {t \in ledger' : t.expense = k} = {t \in ledger : t.expense = k}
        BY <1>1, <4>2
      <4> QED
        BY <2>1, <3>1, <3>4, <4>1, <4>3 DEF IInv, LedgerMirrorsExpenses, TransactionsOf
    <3> QED
      BY <3>2, <3>3, <3>4 DEF IInv, RowsTyped
  <2> QED
    BY <2>2, <2>3
<1> QED
  BY <1>1, <1>7, <1>9, <1>10, <1>11, FinishStep DEF IInv

\* Transactions that leave expenses and ledger alone.
LEMMA MembersOnlyStep ==
  ASSUME IInv, NEW h \in Handlers,
         AddMemberTx(h) \/ RemoveMemberTx(h) \/ RecomputeTx(h) \/ Rollback(h)
  PROVE  IInv'
<1>1. UNCHANGED <<dropped, expenses, ledger, edits>> /\ Finish(h)
  BY DEF AddMemberTx, RemoveMemberTx, RecomputeTx, Rollback
<1>2. \A id \in ExpenseIds : Lasting(id)
  BY <1>1 DEF Lasting
<1>3. DOMAIN members' = Groups /\ \A k \in Groups : MemberShape(members'[k])
  <2> DEFINE p == plan[h]
  <2>1. PlanShape(p)
    BY DEF IInv, RowsTyped
  <2>2. CASE AddMemberTx(h)
    <3>1. /\ p.op = "join"
          /\ members' = [members EXCEPT ![p.group] =
               Append(members[p.group], NewMember(p.mobile))]
      BY <2>2 DEF AddMemberTx
    <3>2. p.group \in Groups /\ p.mobile \in Number
      BY <2>1, <3>1, PlanFacts
    <3> HIDE DEF p
    <3>3. MemberShape(Append(members[p.group], NewMember(p.mobile)))
      BY <3>2, ShapeOfAppend DEF IInv, RowsTyped
    <3> QED
      BY <3>1, <3>2, <3>3, MembersStep DEF IInv
  <2>3. CASE RemoveMemberTx(h)
    <3>1. /\ p.op = "leave"
          /\ members' = [members EXCEPT ![p.group] = RemoveRows(members[p.group], p.mobile)]
      BY <2>3 DEF RemoveMemberTx
    <3>2. p.group \in Groups
      BY <2>1, <3>1, PlanFacts
    <3> HIDE DEF p
    <3>3. MemberShape(RemoveRows(members[p.group], p.mobile))
      BY <3>2, ShapeOfRemove DEF IInv, RowsTyped
    <3> QED
      BY <3>1, <3>2, <3>3, MembersStep DEF IInv
  <2>4. CASE RecomputeTx(h)
    <3>1. /\ p.op = "recompute"
          /\ members' = [members EXCEPT ![p.group] =
               SetMemberBalances(members[p.group], p.want)]
      BY <2>4 DEF RecomputeTx
    <3>2. p.group \in Groups
      BY <2>1, <3>1, PlanFacts
    <3> HIDE DEF p
    <3>3. MemberShape(SetMemberBalances(members[p.group], p.want))
      BY <3>2, ShapeOfSet DEF IInv, RowsTyped
    <3> QED
      BY <3>1, <3>2, <3>3, MembersStep DEF IInv
  <2>5. CASE Rollback(h)
    BY <2>5 DEF Rollback, IInv, RowsTyped
  <2> QED
    BY <2>2, <2>3, <2>4, <2>5
<1>4. RowsTyped'
  BY <1>1, <1>2, <1>3, FinishStep DEF IInv, RowsTyped
<1>5. LedgerLinks' /\ LedgerMirrorsExpenses'
  BY <1>1 DEF IInv, LedgerLinks, LedgerMirrorsExpenses, TransactionsOf
<1> QED
  BY <1>1, <1>2, <1>4, <1>5, FinishStep DEF IInv

LEMMA IInvStep ==
  ASSUME IInv, ~StrayEdits, [Next]_vars
  PROVE  IInv'
<1>1. CASE UNCHANGED vars
  BY <1>1 DEF vars, IInv, RowsTyped, LedgerLinks, PlansFit, Fits, LedgerMirrorsExpenses,
              TransactionsOf
<1>2. ASSUME NEW h \in Handlers, Request(h)
      PROVE  IInv'
  BY <1>2, AddDecides, SettleDecides, UpdateDecides, DeleteDecides, MembershipDecides
     DEF Request
<1>3. ASSUME NEW h \in Handlers, Transaction(h)
      PROVE  IInv'
  BY <1>3, CreateExpenseStep, UpdateStep, DeleteStep, DropStep, MembersOnlyStep
     DEF Transaction
<1> QED
  BY <1>1, <1>2, <1>3 DEF Next

LEMMA Invariance ==
  ASSUME ~StrayEdits
  PROVE  Spec => []IInv
<1>1. IInv /\ [Next]_vars => IInv'
  BY IInvStep
<1> QED
  BY InitIInv, <1>1, PTL DEF Spec

\* As long as edits name the expense's own group, every table has its type.
\* The integers of the balance column are added in GroupBalanceProofs.
THEOREM RowsWellTyped ==
  ASSUME ~StrayEdits
  PROVE  Spec => []RowsTyped
<1> QED
  BY Invariance, PTL DEF IInv

\* As long as edits name the expense's own group, the generated transactions
\* of every live expense are those its payer, amount and split call for, and
\* a deleted one has none, for any interleaving of any number of handlers.
THEOREM LedgerMirrors ==
  ASSUME ~StrayEdits
  PROVE  Spec => []LedgerMirrorsExpenses
<1> QED
  BY Invariance, PTL DEF IInv

-----------------------------------------------------------------------------
(* The edit history, served by one handler at a time                       *)

Chained(log) == \A i \in 2..Len(log) : log[i].from = log[i - 1].to
EndsAt(log, amount) == log # <<>> => log[Len(log)].to = amount

\* Every log ends at the amount of its expense, and an edit that has been
\* decided starts from the row as it is.
HistoryIsCurrent ==
  /\ \A id \in ExpenseIds :
       /\ Chained(edits[id])
       /\ expenses[id] = NoRow => edits[id] = <<>>
       /\ expenses[id] # NoRow => EndsAt(edits[id], expenses[id].amount)
  /\ \A h \in Handlers : plan[h].op = "update" => plan[h].old = expenses[plan[h].id]

LEMMA LogEditChains ==
  ASSUME NEW log \in Seq([from : Nat, to : Nat]), NEW old \in Nat, NEW new \in Nat,
         Chained(log), EndsAt(log, old)
  PROVE  Chained(LogEdit(log, old, new)) /\ EndsAt(LogEdit(log, old, new), new)
<1>1. CASE old = new
  BY <1>1 DEF LogEdit
<1>2. CASE old # new
  <2> DEFINE e == [from |-> old, to |-> new]
             more == Append(log, e)
  <2>1. /\ LogEdit(log, old, new) = more
        /\ e \in [from : Nat, to : Nat] /\ e.from = old /\ e.to = new
    BY <1>2 DEF LogEdit
  <2> HIDE DEF e
  <2>2. /\ Len(more) = Len(log) + 1
        /\ \A i \in 1..Len(log) : more[i] = log[i]
        /\ more[Len(log) + 1] = e
        /\ Len(log) \in Nat
    BY <2>1, AppendProperties, LenProperties
  <2> HIDE DEF more
  <2>3. EndsAt(more, new)
    BY <2>1, <2>2 DEF EndsAt
  <2>4. ASSUME NEW i \in 2..Len(more)
        PROVE  more[i].from = more[i - 1].to
    <3>1. CASE i \in 2..Len(log)
      <4>1. i \in 1..Len(log) /\ i - 1 \in 1..Len(log)
        BY <2>2, <3>1
      <4>2. log[i].from = log[i - 1].to
        BY <3>1 DEF Chained
      <4> QED
        BY <2>2, <4>1, <4>2
    <3>2. CASE i = Len(log) + 1
      <4>1. Len(log) >= 1
        BY <2>2, <2>4, <3>2
      <4>2. log # <<>>
        BY <4>1, EmptySeq
      <4>3. more[i - 1] = log[Len(log)]
        BY <2>2, <3>2, <4>1
      <4> QED
        BY <2>1, <2>2, <3>2, <4>2, <4>3 DEF EndsAt
    <3> QED
      BY <2>2, <2>4, <3>1, <3>2
  <2> QED
    BY <2>1, <2>3, <2>4 DEF Chained
<1> QED
  BY <1>1, <1>2

LEMMA HistoryStep ==
  ASSUME IInv, HistoryIsCurrent, [Next]_vars, NEW only, Handlers = {only}
  PROVE  HistoryIsCurrent'
<1>1. CASE UNCHANGED vars
  BY <1>1 DEF vars, HistoryIsCurrent
<1>2. ASSUME NEW op, NEW d, Decide(only, op, d), d.op = "update" => d.old = expenses[d.id]
      PROVE  HistoryIsCurrent'
  BY <1>2 DEF Decide, HistoryIsCurrent, IInv, RowsTyped
<1>3. CASE Request(only)
  <2>1. PICK g \in Groups :
          \/ \E u \in Callers, payer \in Numbers, splitWith \in SplitRequests, amount \in Amounts :
               AddGroupExpense(only, g, u, payer, splitWith, amount)
          \/ \E u \in Callers, payer, receiver \in Numbers, amount \in Amounts :
               SettleGroup(only, g, u, payer, receiver, amount)
          \/ \E u \in Callers, id \in ExpenseIds, payer \in Numbers \cup {NoNumber},
                amount \in Amounts : UpdateGroupExpense(only, g, id, u, payer, amount)
          \/ \E u \in Callers, id \in ExpenseIds : DeleteGroupExpense(only, g, id, u)
          \/ \E u \in Callers, n \in Joiners : AddMember(only, g, u, n)
          \/ \E u \in Callers, n \in Leavers : RemoveMember(only, g, u, n)
          \/ \E u \in Callers : DeleteGroup(only, g, u)
          \/ RecomputeGroupBalances(only, g)
    BY <1>3 DEF Request
  <2>2. ASSUME NEW u \in Callers, NEW payer, NEW splitWith, NEW amount,
               AddGroupExpense(only, g, u, payer, splitWith, amount)
        PROVE  HistoryIsCurrent'
    <3> DEFINE split == IF splitWith = <<>> THEN EveryMember(members[g])
                        ELSE [i \in DOMAIN splitWith |->
                                ResolveMemberMobile(members[g], splitWith[i])]
               d == [op |-> "add",
                     new |-> [group |-> g, kind |-> "expense",
                              payer |-> ResolveMemberMobile(members[g], payer),
                              receiver |-> NoNumber, split |-> split, amount |-> amount,
                              createdBy |-> u, live |-> TRUE]]
    <3>1. Decide(only, "add", d) /\ d.op # "update"
      BY <2>2 DEF AddGroupExpense
    <3> HIDE DEF d
    <3> QED
      BY <3>1, <1>2
  <2>3. ASSUME NEW u \in Callers, NEW payer, NEW receiver, NEW amount,
               SettleGroup(only, g, u, payer, receiver, amount)
        PROVE  HistoryIsCurrent'
    <3> DEFINE d == [op |-> "settle",
                     new |-> [group |-> g, kind |-> "settlement",
                              payer |-> ResolveMemberMobile(members[g], payer),
                              receiver |-> ResolveMemberMobile(members[g], receiver),
                              split |-> <<>>, amount |-> amount, createdBy |-> u,
                              live |-> TRUE]]
    <3>1. Decide(only, "settle", d) /\ d.op # "update"
      BY <2>3 DEF SettleGroup
    <3> HIDE DEF d
    <3> QED
      BY <3>1, <1>2
  <2>4. ASSUME NEW u \in Callers, NEW id \in ExpenseIds, NEW payer, NEW amount,
               UpdateGroupExpense(only, g, id, u, payer, amount)
        PROVE  HistoryIsCurrent'
    <3> DEFINE row == expenses[id]
               newPayer == IF payer = NoNumber THEN row.payer ELSE payer
               d == [op |-> "update", group |-> g, id |-> id, old |-> row,
                     new |-> [row EXCEPT !.payer = newPayer, !.amount = amount],
                     split |-> SplitMembersFor(members[g], row)]
    <3>1. Decide(only, "update", d) /\ d.old = expenses[d.id]
      BY <2>4 DEF UpdateGroupExpense
    <3> HIDE DEF d
    <3> QED
      BY <3>1, <1>2
  <2>5. ASSUME NEW u \in Callers, NEW id \in ExpenseIds, DeleteGroupExpense(only, g, id, u)
        PROVE  HistoryIsCurrent'
    <3> DEFINE d == [op |-> "delete", group |-> g, id |-> id, old |-> expenses[id],
                     split |-> SplitMembersFor(members[g], expenses[id])]
    <3>1. Decide(only, "delete", d) /\ d.op # "update"
      BY <2>5 DEF DeleteGroupExpense
    <3> HIDE DEF d
    <3> QED
      BY <3>1, <1>2
  <2>6. ASSUME NEW u \in Callers, NEW n, AddMember(only, g, u, n)
        PROVE  HistoryIsCurrent'
    <3>1. Decide(only, "join", [op |-> "join", group |-> g, mobile |-> n])
      BY <2>6 DEF AddMember
    <3> QED
      BY <3>1, <1>2
  <2>7. ASSUME NEW u \in Callers, NEW n, RemoveMember(only, g, u, n)
        PROVE  HistoryIsCurrent'
    <3> DEFINE d == [op |-> "leave", group |-> g,
                     mobile |-> ResolveMemberMobile(members[g], n)]
    <3>1. Decide(only, "leave", d) /\ d.op # "update"
      BY <2>7 DEF RemoveMember
    <3> HIDE DEF d
    <3> QED
      BY <3>1, <1>2
  <2>8. ASSUME NEW u \in Callers, DeleteGroup(only, g, u)
        PROVE  HistoryIsCurrent'
    <3>1. Decide(only, "drop", [op |-> "drop", group |-> g])
      BY <2>8 DEF DeleteGroup
    <3> QED
      BY <3>1, <1>2
  <2>9. ASSUME RecomputeGroupBalances(only, g)
        PROVE  HistoryIsCurrent'
    <3> DEFINE d == [op |-> "recompute", group |-> g,
                     want |-> Corrections(members[g], expenses, g)]
    <3>1. Decide(only, "recompute", d) /\ d.op # "update"
      BY <2>9 DEF RecomputeGroupBalances
    <3> HIDE DEF d
    <3> QED
      BY <3>1, <1>2
  <2> QED
    BY <2>1, <2>2, <2>3, <2>4, <2>5, <2>6, <2>7, <2>8, <2>9
<1> DEFINE p == plan[only]
<1>4. ASSUME Finish(only)
      PROVE  \A h \in Handlers : plan'[h].op # "update"
  BY <1>4 DEF Finish, Idle, IInv, RowsTyped
<1>5. ASSUME UNCHANGED edits, Finish(only),
             \A id \in ExpenseIds :
               /\ expenses'[id] = NoRow => expenses[id] = NoRow
               /\ expenses[id] # NoRow => expenses'[id].amount = expenses[id].amount
      PROVE  HistoryIsCurrent'
  BY <1>4, <1>5 DEF HistoryIsCurrent, EndsAt, Chained
<1>6. CASE CreateExpenseTx(only)
  <2>1. PICK id \in ExpenseIds :
          /\ expenses[id].kind = "none"
          /\ expenses' = [expenses EXCEPT ![id] = p.new]
    BY <1>6 DEF CreateExpenseTx, FreshExpense
  <2>2. /\ IsExpense(p.new)
        /\ Finish(only) /\ UNCHANGED edits
    BY <1>6, PlanFacts DEF CreateExpenseTx, IInv, RowsTyped
  <2>3. expenses[id] = NoRow /\ p.new # NoRow
    BY <2>1, <2>2, ExpenseFacts DEF IInv, RowsTyped
  <2> HIDE DEF p
  <2>4. \A k \in ExpenseIds : k # id => expenses'[k] = expenses[k]
    BY <2>1 DEF IInv, RowsTyped
  <2> QED
    BY <1>5, <2>1, <2>2, <2>3, <2>4 DEF IInv, RowsTyped
<1>7. CASE UpdateGroupExpenseTx(only)
  <2>1. /\ p.op = "update"
        /\ edits' = [edits EXCEPT ![p.id] = LogEdit(edits[p.id], p.old.amount, p.new.amount)]
        /\ expenses' = [expenses EXCEPT ![p.id] = p.new]
        /\ Finish(only)
    BY <1>7 DEF UpdateGroupExpenseTx
  <2>2. /\ p.id \in ExpenseIds /\ IsExpense(p.old) /\ IsExpense(p.new)
        /\ p.old = expenses[p.id] /\ p.old # NoRow /\ p.new # NoRow
        /\ p.old.amount \in Nat /\ p.new.amount \in Nat
    BY <2>1, PlanFacts, ExpenseFacts DEF IInv, RowsTyped, HistoryIsCurrent
  <2>3. edits[p.id] \in Seq([from : Nat, to : Nat])
    BY <2>2 DEF IInv, RowsTyped
  <2>4. Chained(edits[p.id]) /\ EndsAt(edits[p.id], p.old.amount)
    BY <2>2 DEF HistoryIsCurrent
  <2> HIDE DEF p
  <2>5. /\ Chained(LogEdit(edits[p.id], p.old.amount, p.new.amount))
        /\ EndsAt(LogEdit(edits[p.id], p.old.amount, p.new.amount), p.new.amount)
    BY <2>2, <2>3, <2>4, LogEditChains
  <2>6. /\ edits'[p.id] = LogEdit(edits[p.id], p.old.amount, p.new.amount)
        /\ expenses'[p.id] = p.new
        /\ \A k \in ExpenseIds : k # p.id => edits'[k] = edits[k] /\ expenses'[k] = expenses[k]
    BY <2>1, <2>2 DEF IInv, RowsTyped
  <2>7. ASSUME NEW k \in ExpenseIds
        PROVE  /\ Chained(edits'[k])
               /\ expenses'[k] = NoRow => edits'[k] = <<>>
               /\ expenses'[k] # NoRow => EndsAt(edits'[k], expenses'[k].amount)
    <3>1. CASE k = p.id
      BY <2>2, <2>5, <2>6, <3>1
    <3>2. CASE k # p.id
      BY <2>6, <3>2 DEF HistoryIsCurrent
    <3> QED
      BY <3>1, <3>2
  <2> QED
    BY <1>4, <2>1, <2>7 DEF HistoryIsCurrent, Chained, EndsAt
<1>8. CASE DeleteGroupExpenseTx(only)
  <2>1. /\ expenses' = [expenses EXCEPT ![p.id] = [expenses[p.id] EXCEPT !.live = FALSE]]
        /\ UNCHANGED edits /\ Finish(only)
    BY <1>8 DEF DeleteGroupExpenseTx
  <2> HIDE DEF p
  <2>2. \A id \in ExpenseIds :
          expenses'[id] \in {expenses[id], [expenses[id] EXCEPT !.live = FALSE]}
    BY <2>1 DEF IInv, RowsTyped
  <2>3. \A row : IsExpense(row) => /\ [row EXCEPT !.live = FALSE].amount = row.amount
                                  /\ [row EXCEPT !.live = FALSE].kind = row.kind
    BY DEF IsExpense
  <2>4. \A row : IsExpense(row) => [row EXCEPT !.live = FALSE] # NoRow
    BY <2>3, ExpenseFacts DEF NoRow
  <2> QED
    BY <1>5, <2>1, <2>2, <2>3, <2>4 DEF IInv, RowsTyped
<1>9. CASE DeleteGroupTx(only)
  <2>1. /\ \A id \in ExpenseIds :
             expenses'[id] \in {expenses[id], [expenses[id] EXCEPT !.live = FALSE]}
        /\ UNCHANGED edits /\ Finish(only)
    BY <1>9 DEF DeleteGroupTx
  <2>2. \A row : IsExpense(row) => /\ [row EXCEPT !.live = FALSE].amount = row.amount
                                  /\ [row EXCEPT !.live = FALSE].kind = row.kind
    BY DEF IsExpense
  <2>3. \A row : IsExpense(row) => [row EXCEPT !.live = FALSE] # NoRow
    BY <2>2, ExpenseFacts DEF NoRow
  <2> QED
    BY <1>5, <2>1, <2>2, <2>3 DEF IInv, RowsTyped
<1>10. CASE AddMemberTx(only) \/ RemoveMemberTx(only) \/ RecomputeTx(only) \/ Rollback(only)
  <2>1. UNCHANGED <<edits, expenses>> /\ Finish(only)
    BY <1>10 DEF AddMemberTx, RemoveMemberTx, RecomputeTx, Rollback
  <2> QED
    BY <1>5, <2>1
<1> QED
  BY <1>1, <1>3, <1>6, <1>7, <1>8, <1>9, <1>10 DEF Next, Transaction

\* Served one at a time, the edits of an expense form a chain that ends at its
\* amount. (Two handlers that edit one expense at once break the chain.)
THEOREM HistoryChains ==
  ASSUME ~StrayEdits, NEW only, Handlers = {only}
  PROVE  Spec => []EditHistoryChains
<1>1. Init => HistoryIsCurrent
  BY DEF Init, HistoryIsCurrent, Chained, EndsAt, Idle
<1>2. IInv /\ HistoryIsCurrent /\ [Next]_vars => HistoryIsCurrent'
  BY HistoryStep
<1>3. IInv /\ HistoryIsCurrent => EditHistoryChains
  BY DEF IInv, RowsTyped, HistoryIsCurrent, EditHistoryChains, Chained, EndsAt, NoRow
<1> QED
  BY <1>1, <1>2, <1>3, Invariance, PTL DEF Spec
=============================================================================
