------------------------- MODULE GroupBalanceProofs -------------------------
(***************************************************************************)
(* The balance column of the groups, for every number of groups, members,  *)
(* expenses and handlers: its type, that a recompute repairs it, that a    *)
(* group's balances sum to zero, that they stay what a replay of the rows  *)
(* gives when requests come one at a time, and how far rounding moves them.*)
(*                                                                         *)
(* The models sum with MapThenSumSet. Each sum a proof speaks of is first  *)
(* shown to be a Total (module SetSums), about which lemmas can be stated. *)
(***************************************************************************)
EXTENDS GroupLedgerProofs, BalanceRounding, SetSums

-----------------------------------------------------------------------------
(* Deltas and replays are integers                                         *)

\* An expense touches finitely many numbers.
LEMMA NumbersFinite ==
  ASSUME NEW row, NEW split, IsSplit(split)
  PROVE  IsFiniteSet(NumbersOf(row, split))
<1> DEFINE named == {split[i] : i \in DOMAIN split}
<1>1. IsFiniteSet(DOMAIN split)
  BY DEF IsSplit
<1>2. split \in Surjection(DOMAIN split, named)
  BY DEF IsSplit, Surjection
<1>3. IsFiniteSet(named)
  <2> HIDE DEF named
  <2> QED
    BY <1>1, <1>2, FS_Surjection
<1>4. NumbersOf(row, split) = (named \cup {row.payer}) \cup {row.receiver}
  BY DEF NumbersOf
<1> HIDE DEF named
<1>5. IsFiniteSet(named \cup {row.payer})
  BY <1>3, FS_AddElement
<1>6. IsFiniteSet((named \cup {row.payer}) \cup {row.receiver})
  BY <1>5, FS_AddElement
<1> QED
  BY <1>4, <1>6

LEMMA DeltaIsInteger ==
  ASSUME NEW row, IsExpense(row), NEW split, IsSplit(split), NEW n
  PROVE  BalanceDeltaFor(row, split, n) \in Int
<1>1. row.amount \in Nat
  BY ExpenseFacts
<1>2. ASSUME DOMAIN split # {}
      PROVE  Share(row, split) \in Int
  <2>1. Cardinality(DOMAIN split) \in Nat \ {0}
    BY <1>2, FS_CardinalityType, FS_EmptySet DEF IsSplit
  <2>2. \A x \in Nat, m \in Nat \ {0} : x \div m \in Int
    OBVIOUS
  <2> QED
    BY <1>1, <2>1, <2>2 DEF Share
<1>3. ASSUME DOMAIN split # {}
      PROVE  Owed(row, split, n) \in Int
  <2> DEFINE mine == {i \in DOMAIN split : split[i] = n}
  <2>1. IsFiniteSet(mine)
    BY FS_Subset DEF IsSplit
  <2>2. Cardinality(mine) \in Int
    BY <2>1, FS_CardinalityType
  <2>3. Share(row, split) * Cardinality(mine) \in Int
    <3> HIDE DEF mine
    <3> QED
      BY <1>2, <1>3, <2>2
  <2> QED
    BY <2>3 DEF Owed
<1>4. SettlementBalanceDelta(row, n) \in Int
  <2> DEFINE x == When(n = row.payer, row.amount)
             y == When(n = row.receiver, row.amount)
  <2>1. x \in Int /\ y \in Int
    BY <1>1 DEF When
  <2>2. SettlementBalanceDelta(row, n) = x - y
    BY DEF SettlementBalanceDelta
  <2> HIDE DEF x, y
  <2> QED
    BY <2>1, <2>2
<1>5. ExpenseBalanceDelta(row, split, n) \in Int
  <2> DEFINE x == When(n = row.payer, row.amount)
             y == Owed(row, split, n)
  <2>1. x \in Int
    BY <1>1 DEF When
  <2>2. ExpenseBalanceDelta(row, split, n) = IF DOMAIN split = {} THEN 0 ELSE x - y
    BY DEF ExpenseBalanceDelta
  <2>3. DOMAIN split # {} => y \in Int
    BY <1>3
  <2> HIDE DEF x, y
  <2>4. CASE DOMAIN split = {}
    BY <2>2, <2>4
  <2>5. CASE DOMAIN split # {}
    BY <2>1, <2>2, <2>3, <2>5
  <2> QED
    BY <2>4, <2>5
<1> QED
  BY <1>4, <1>5 DEF BalanceDeltaFor

\* What a row changes, number by number, and the numbers that count for n.
DeltasOfRow(row, split) == [k \in NumbersOf(row, split) |-> BalanceDeltaFor(row, split, k)]
CountedFor(ms, row, split, n) == {k \in NumbersOf(row, split) : StoredForm(ms, k) = n}

LEMMA ReplayRowIsTotal ==
  ASSUME NEW ms, NEW row, NEW n, IsSplit(SplitMembersFor(ms, row))
  PROVE  ReplayRow(ms, row, n) =
           Total(DeltasOfRow(row, SplitMembersFor(ms, row)),
                 CountedFor(ms, row, SplitMembersFor(ms, row), n))
<1> DEFINE split == SplitMembersFor(ms, row)
           S == CountedFor(ms, row, split, n)
           f == DeltasOfRow(row, split)
           iter == CHOOSE g : g = [s \in SUBSET S |->
                     IF s = {} THEN 0
                     ELSE BalanceDeltaFor(row, split, Some(s)) + g[s \ {Some(s)}]]
<1>0. IsFiniteSet(S)
  BY NumbersFinite, FS_Subset DEF CountedFor
<1>1. PICK g : IsSum(g, f, S)
  <2> HIDE DEF S, f
  <2> QED
    BY <1>0, SumExists
<1>2. \A s \in SUBSET S : s # {} => f[Some(s)] = BalanceDeltaFor(row, split, Some(s))
  BY SomeMember DEF DeltasOfRow, CountedFor
<1>3. ReplayRow(ms, row, n) = iter[S]
  BY DEF ReplayRow, CountedFor, MapThenSumSet, MapThenFoldSet, Some
<1> HIDE DEF split, S, f
<1>4. g = [s \in SUBSET S |->
             IF s = {} THEN 0
             ELSE BalanceDeltaFor(row, split, Some(s)) + g[s \ {Some(s)}]]
  BY <1>1, <1>2 DEF IsSum
<1>5. iter = [s \in SUBSET S |->
                IF s = {} THEN 0
                ELSE BalanceDeltaFor(row, split, Some(s)) + iter[s \ {Some(s)}]]
  BY <1>4
<1> HIDE DEF iter
<1>6. IsSum(iter, f, S)
  BY <1>2, <1>5 DEF IsSum
<1>7. S \in SUBSET S
  OBVIOUS
<1>8. iter[S] = Total(f, S)
  BY <1>0, <1>6, <1>7, TotalIsSum
<1> QED
  BY <1>3, <1>8 DEF split, S, f

LEMMA ReplayRowIsInteger ==
  ASSUME NEW ms, MemberShape(ms), NEW row, IsExpense(row), NEW n
  PROVE  ReplayRow(ms, row, n) \in Int
<1> DEFINE split == SplitMembersFor(ms, row)
<1>1. IsSplit(split)
  BY SplitOfRow, ExpenseFacts
<1>2. IsFiniteSet(CountedFor(ms, row, split, n))
  BY <1>1, NumbersFinite, FS_Subset DEF CountedFor
<1>3. \A k \in CountedFor(ms, row, split, n) : DeltasOfRow(row, split)[k] \in Int
  BY <1>1, DeltaIsInteger DEF CountedFor, DeltasOfRow
<1>4. Total(DeltasOfRow(row, split), CountedFor(ms, row, split, n)) \in Int
  <2> HIDE DEF split
  <2> QED
    BY <1>2, <1>3, TotalType
<1> QED
  BY <1>1, <1>4, ReplayRowIsTotal

\* The replay of the rows with the given ids.
RowReplays(ms, rows, n) == [id \in ExpenseIds |-> ReplayRow(ms, rows[id], n)]

LEMMA LiveRowsFinite ==
  ASSUME NEW rows, NEW g
  PROVE  LiveRows(rows, g) \subseteq ExpenseIds /\ IsFiniteSet(LiveRows(rows, g))
<1>1. IsFiniteSet(ExpenseIds)
  BY BoundAssumption, FS_Interval DEF ExpenseIds
<1>2. LiveRows(rows, g) \subseteq ExpenseIds
  BY DEF LiveRows
<1> QED
  BY <1>1, <1>2, FS_Subset

LEMMA ExpectedIsTotal ==
  ASSUME NEW ms, NEW rows, NEW g, NEW n
  PROVE  Expected(ms, rows, g, n) = Total(RowReplays(ms, rows, n), LiveRows(rows, g))
<1> DEFINE S == LiveRows(rows, g)
           f == RowReplays(ms, rows, n)
           iter == CHOOSE r : r = [s \in SUBSET S |->
                     IF s = {} THEN 0
                     ELSE ReplayRow(ms, rows[Some(s)], n) + r[s \ {Some(s)}]]
<1>0. IsFiniteSet(S) /\ S \subseteq ExpenseIds
  BY LiveRowsFinite
<1>1. PICK r : IsSum(r, f, S)
  <2> HIDE DEF S, f
  <2> QED
    BY <1>0, SumExists
<1>2. \A s \in SUBSET S : s # {} => f[Some(s)] = ReplayRow(ms, rows[Some(s)], n)
  BY <1>0, SomeMember DEF RowReplays
<1>3. Expected(ms, rows, g, n) = iter[S]
  BY DEF Expected, MapThenSumSet, MapThenFoldSet, Some
<1> HIDE DEF S, f
<1>4. r = [s \in SUBSET S |->
             IF s = {} THEN 0 ELSE ReplayRow(ms, rows[Some(s)], n) + r[s \ {Some(s)}]]
  BY <1>1, <1>2 DEF IsSum
<1>5. iter = [s \in SUBSET S |->
                IF s = {} THEN 0
                ELSE ReplayRow(ms, rows[Some(s)], n) + iter[s \ {Some(s)}]]
  BY <1>4
<1> HIDE DEF iter
<1>6. IsSum(iter, f, S)
  BY <1>2, <1>5 DEF IsSum
<1>7. S \in SUBSET S
  OBVIOUS
<1>8. iter[S] = Total(f, S)
  BY <1>0, <1>6, <1>7, TotalIsSum
<1> QED
  BY <1>3, <1>8 DEF S, f

LEMMA ExpectedIsInteger ==
  ASSUME NEW ms, MemberShape(ms), NEW rows, NEW g, NEW n,
         \A id \in ExpenseIds : rows[id] = NoRow \/ IsExpense(rows[id])
  PROVE  Expected(ms, rows, g, n) \in Int
<1>1. \A id \in LiveRows(rows, g) : id \in ExpenseIds /\ IsExpense(rows[id])
  BY DEF LiveRows, NoRow
<1>2. \A id \in LiveRows(rows, g) : RowReplays(ms, rows, n)[id] \in Int
  BY <1>1, ReplayRowIsInteger DEF RowReplays
<1> QED
  BY <1>2, LiveRowsFinite, ExpectedIsTotal, TotalType

-----------------------------------------------------------------------------
(* The balance column                                                      *)

IntegerBalances(ms) == \A i \in DOMAIN ms : ms[i].balance \in Int
IntegerPlan(p) == p.op = "recompute" => p.want \in [DOMAIN p.want -> Int]

\* With the types of everything else, this is the type invariant: balances are
\* integers, and so is what a recompute decided to store in them.
Integral ==
  /\ members = [g \in Groups |-> members[g]]
  /\ \A g \in Groups : IntegerBalances(members[g])
  /\ \A h \in Handlers : IntegerPlan(plan[h])

LEMMA IntegralInit == Init => Integral
<1> SUFFICES ASSUME Init PROVE Integral
  OBVIOUS
<1>0. IInv
  BY InitIInv
<1>1. PICK request \in [Groups -> GroupRequests], drift \in InitialDrifts :
        members = [g \in Groups |->
          LET ms == CreateGroup(g, request[g])
          IN [i \in DOMAIN ms |->
               [ms[i] EXCEPT !.balance =
                  Expected(ms, expenses, g, ms[i].mobile) + drift[ms[i].mobile[1]]]]]
  BY DEF Init
<1>2. ASSUME NEW g \in Groups
      PROVE  IntegerBalances(members[g])
  <2> DEFINE ms == CreateGroup(g, request[g])
             b(i) == Expected(ms, expenses, g, ms[i].mobile) + drift[ms[i].mobile[1]]
  <2>1. MemberShape(ms)
    BY ShapeOfCreateGroup
  <2>2. members[g] = [i \in DOMAIN ms |-> [ms[i] EXCEPT !.balance = b(i)]]
    BY <1>1
  <2>3. \A n : Expected(ms, expenses, g, n) \in Int
    BY <1>0, <2>1, ExpectedIsInteger DEF IInv, RowsTyped
  <2>4. ASSUME NEW i \in DOMAIN ms
        PROVE  b(i) \in Int
    <3>1. ms[i].mobile \in Number
      BY <2>1 DEF MemberShape
    <3>2. ms[i].mobile[1] \in People
      BY <3>1 DEF Number
    <3>3. drift[ms[i].mobile[1]] \in Int
      BY <3>2, RequestAssumption
    <3> HIDE DEF ms
    <3> QED
      BY <2>3, <3>3
  <2> HIDE DEF ms, b
  <2> QED
    BY <2>1, <2>2, <2>4 DEF IntegerBalances, MemberShape
<1>3. \A h \in Handlers : plan[h] = Idle
  BY DEF Init
<1>4. members = [g \in Groups |-> members[g]]
  BY <1>1
<1> QED
  BY <1>2, <1>3, <1>4 DEF Integral, IntegerPlan, Idle

LEMMA IntegerDeltas ==
  ASSUME NEW ms, MemberShape(ms), IntegerBalances(ms),
         NEW row, IsExpense(row), NEW split, IsSplit(split), NEW sign \in {1, -1}
  PROVE  IntegerBalances(PersistDeltas(ms, row, split, sign))
<1> DEFINE ns == PersistDeltas(ms, row, split, sign)
           b(i) == ms[i].balance + sign * BalanceDeltaFor(row, split, ms[i].mobile)
<1>1. \A i \in DOMAIN ms :
        ns[i] = IF ms[i].live THEN [ms[i] EXCEPT !.balance = b(i)] ELSE ms[i]
  BY DEF PersistDeltas
<1>2. DOMAIN ns = DOMAIN ms
  BY DEF PersistDeltas
<1>3. ASSUME NEW i \in DOMAIN ms
      PROVE  b(i) \in Int
  <2> DEFINE d == BalanceDeltaFor(row, split, ms[i].mobile)
  <2>1. d \in Int
    BY DeltaIsInteger
  <2>2. ms[i].balance \in Int
    BY DEF IntegerBalances
  <2> HIDE DEF d
  <2>3. ms[i].balance + sign * d \in Int
    BY <2>1, <2>2
  <2> QED
    BY <2>3 DEF d
<1> HIDE DEF ns, b
<1>4. \A i \in DOMAIN ms : ns[i].balance \in Int
  BY <1>1, <1>3 DEF IntegerBalances, MemberShape
<1> QED
  BY <1>2, <1>4 DEF IntegerBalances, ns

LEMMA IntegerAppend ==
  ASSUME NEW ms, MemberShape(ms), IntegerBalances(ms), NEW n
  PROVE  IntegerBalances(Append(ms, NewMember(n)))
<1> DEFINE e == NewMember(n)
           S == {ms[i] : i \in DOMAIN ms} \cup {e}
<1>1. PICK k \in Nat : DOMAIN ms = 1..k
  BY DEF MemberShape
<1>2. ms \in [1..k -> S]
  BY <1>1 DEF MemberShape
<1>3. ms \in Seq(S)
  BY <1>2, SeqDef
<1>4. e \in S /\ e.balance = 0
  BY DEF NewMember
<1> HIDE DEF e, S
<1>5. Len(ms) = k
  BY <1>1, <1>3, LenProperties
<1>6. /\ Append(ms, e) \in Seq(S)
      /\ Len(Append(ms, e)) = k + 1
      /\ \A i \in 1..k : Append(ms, e)[i] = ms[i]
      /\ Append(ms, e)[k + 1] = e
  BY <1>3, <1>4, <1>5, AppendProperties
<1>7. DOMAIN Append(ms, e) = 1..(k + 1)
  BY <1>6, LenProperties
<1>8. \A i \in 1..(k + 1) : i \in 1..k \/ i = k + 1
  BY <1>1
<1> QED
  BY <1>1, <1>4, <1>6, <1>7, <1>8 DEF IntegerBalances, e

LEMMA IntegerKept ==
  ASSUME NEW ms, MemberShape(ms), IntegerBalances(ms), NEW n
  PROVE  /\ IntegerBalances(RemoveRows(ms, n))
         /\ IntegerBalances(RemoveAllRows(ms))
<1>1. \A i \in DOMAIN ms : [ms[i] EXCEPT !.live = FALSE].balance \in Int
  BY DEF IntegerBalances, MemberShape
<1>2. IntegerBalances(RemoveRows(ms, n))
  BY <1>1 DEF IntegerBalances, RemoveRows
<1>3. IntegerBalances(RemoveAllRows(ms))
  BY <1>1 DEF IntegerBalances, RemoveAllRows
<1> QED
  BY <1>2, <1>3

LEMMA IntegerSet ==
  ASSUME NEW ms, MemberShape(ms), IntegerBalances(ms), NEW want, want \in [DOMAIN want -> Int]
  PROVE  IntegerBalances(SetMemberBalances(ms, want))
<1>1. ASSUME NEW i \in DOMAIN ms, ms[i].mobile \in DOMAIN want
      PROVE  [ms[i] EXCEPT !.balance = want[ms[i].mobile]].balance \in Int
  BY <1>1 DEF MemberShape
<1> QED
  BY <1>1 DEF IntegerBalances, SetMemberBalances

\* A decision leaves the balances alone; only a recompute's own corrections
\* have to be integers.
LEMMA IntegralDecide ==
  ASSUME IInv, Integral, NEW h \in Handlers, NEW op, NEW d, Decide(h, op, d), IntegerPlan(d)
  PROVE  Integral'
<1>1. plan' = [plan EXCEPT ![h] = d] /\ members' = members
  BY DEF Decide
<1>2. \A k \in Handlers : plan'[k] = IF k = h THEN d ELSE plan[k]
  BY <1>1 DEF IInv, RowsTyped
<1> QED
  BY <1>1, <1>2 DEF Integral, IntegerBalances, IntegerPlan

Known(op, d) ==
  /\ d.op = op
  /\ op = "recompute" =>
       d.group \in Groups /\ d.want = Corrections(members[d.group], expenses, d.group)

\* A request that is not turned away decides on something, and what it decides
\* is named for its operation; a recompute decides on the corrections.
LEMMA WhatIsDecided ==
  ASSUME NEW h \in Handlers, Request(h)
  PROVE  \E op, d : Decide(h, op, d) /\ Known(op, d)
<1>1. PICK g \in Groups :
        \/ \E u \in Callers, payer \in Numbers, splitWith \in SplitRequests, amount \in Amounts :
             AddGroupExpense(h, g, u, payer, splitWith, amount)
        \/ \E u \in Callers, payer, receiver \in Numbers, amount \in Amounts :
             SettleGroup(h, g, u, payer, receiver, amount)
        \/ \E u \in Callers, id \in ExpenseIds, payer \in Numbers \cup {NoNumber},
              amount \in Amounts : UpdateGroupExpense(h, g, id, u, payer, amount)
        \/ \E u \in Callers, id \in ExpenseIds : DeleteGroupExpense(h, g, id, u)
        \/ \E u \in Callers, n \in Joiners : AddMember(h, g, u, n)
        \/ \E u \in Callers, n \in Leavers : RemoveMember(h, g, u, n)
        \/ \E u \in Callers : DeleteGroup(h, g, u)
        \/ RecomputeGroupBalances(h, g)
  BY DEF Request
<1>2. CASE \E u \in Callers, payer \in Numbers, splitWith \in SplitRequests, amount \in Amounts :
             AddGroupExpense(h, g, u, payer, splitWith, amount)
  <2>1. \E x : Decide(h, "add", [op |-> "add", new |-> x])
    BY <1>2 DEF AddGroupExpense
  <2> QED
    BY <2>1 DEF Known
<1>3. CASE \E u \in Callers, payer, receiver \in Numbers, amount \in Amounts :
             SettleGroup(h, g, u, payer, receiver, amount)
  <2>1. \E x : Decide(h, "settle", [op |-> "settle", new |-> x])
    BY <1>3 DEF SettleGroup
  <2> QED
    BY <2>1 DEF Known
<1>4. CASE \E u \in Callers, id \in ExpenseIds, payer \in Numbers \cup {NoNumber},
              amount \in Amounts : UpdateGroupExpense(h, g, id, u, payer, amount)
  <2>1. \E id, x, y, z : Decide(h, "update", [op |-> "update", group |-> g, id |-> id,
                                               old |-> x, new |-> y, split |-> z])
    BY <1>4 DEF UpdateGroupExpense
  <2> QED
    BY <2>1 DEF Known
<1>5. CASE \E u \in Callers, id \in ExpenseIds : DeleteGroupExpense(h, g, id, u)
  <2>1. \E id, x, z : Decide(h, "delete", [op |-> "delete", group |-> g, id |-> id,
                                            old |-> x, split |-> z])
    BY <1>5 DEF DeleteGroupExpense
  <2> QED
    BY <2>1 DEF Known
<1>6. CASE \E u \in Callers, n \in Joiners : AddMember(h, g, u, n)
  <2>1. \E n : Decide(h, "join", [op |-> "join", group |-> g, mobile |-> n])
    BY <1>6 DEF AddMember
  <2> QED
    BY <2>1 DEF Known
<1>7. CASE \E u \in Callers, n \in Leavers : RemoveMember(h, g, u, n)
  <2>1. \E n : Decide(h, "leave", [op |-> "leave", group |-> g, mobile |-> n])
    BY <1>7 DEF RemoveMember
  <2> QED
    BY <2>1 DEF Known
<1>8. CASE \E u \in Callers : DeleteGroup(h, g, u)
  <2>1. Decide(h, "drop", [op |-> "drop", group |-> g])
    BY <1>8 DEF DeleteGroup
  <2> QED
    BY <2>1 DEF Known
<1>9. CASE RecomputeGroupBalances(h, g)
  <2> DEFINE d == [op |-> "recompute", group |-> g,
                   want |-> Corrections(members[g], expenses, g)]
  <2>1. Decide(h, "recompute", d)
    BY <1>9 DEF RecomputeGroupBalances
  <2>2. Known("recompute", d)
    BY DEF Known
  <2> HIDE DEF d
  <2> QED
    BY <2>1, <2>2
<1> QED
  BY <1>1, <1>2, <1>3, <1>4, <1>5, <1>6, <1>7, <1>8, <1>9

LEMMA IntegralRequest ==
  ASSUME IInv, Integral, NEW h \in Handlers, Request(h)
  PROVE  Integral'
<1>1. PICK op, d : Decide(h, op, d) /\ Known(op, d)
  BY WhatIsDecided
<1>2. ASSUME d.op = "recompute"
      PROVE  d.want \in [DOMAIN d.want -> Int]
  <2>1. d.group \in Groups /\ d.want = Corrections(members[d.group], expenses, d.group)
    BY <1>1, <1>2 DEF Known
  <2>2. MemberShape(members[d.group])
    BY <2>1 DEF IInv, RowsTyped
  <2>3. \A n : Expected(members[d.group], expenses, d.group, n) \in Int
    BY <2>2, ExpectedIsInteger DEF IInv, RowsTyped
  <2> QED
    BY <2>1, <2>3 DEF Corrections
<1> QED
  BY <1>1, <1>2, IntegralDecide DEF IntegerPlan

\* A transaction that gives one group integer balances, or changes none.
LEMMA IntegralFinish ==
  ASSUME IInv, Integral, NEW h \in Handlers, Finish(h),
         \/ members' = members
         \/ \E g \in Groups : \E ms : IntegerBalances(ms) /\ members' = [members EXCEPT ![g] = ms]
  PROVE  Integral'
<1>1. plan' = [plan EXCEPT ![h] = Idle]
  BY DEF Finish
<1>2. \A k \in Handlers : plan'[k] = IF k = h THEN Idle ELSE plan[k]
  BY <1>1 DEF IInv, RowsTyped
<1>3. \A k \in Handlers : IntegerPlan(plan'[k])
  BY <1>2 DEF Integral, IntegerPlan, Idle
<1>4. \A g \in Groups : IntegerBalances(members'[g])
  BY DEF Integral, IInv, RowsTyped
<1>5. members' = [g \in Groups |-> members'[g]]
  BY DEF Integral
<1> QED
  BY <1>3, <1>4, <1>5 DEF Integral, IntegerPlan, IntegerBalances

LEMMA IntegralTransaction ==
  ASSUME IInv, Integral, NEW h \in Handlers, Transaction(h)
  PROVE  Integral'
<1> DEFINE p == plan[h]
<1>0. PlanShape(p) /\ \A g \in Groups : MemberShape(members[g]) /\ IntegerBalances(members[g])
  BY DEF IInv, RowsTyped, Integral
<1>1. CASE CreateExpenseTx(h)
  <2> DEFINE row == p.new
             ms == PersistDeltas(members[row.group], row, row.split, 1)
  <2>1. Finish(h) /\ members' = [members EXCEPT ![row.group] = ms] /\ p.op \in {"add", "settle"}
    BY <1>1 DEF CreateExpenseTx
  <2>2. IsExpense(row) /\ row.group \in Groups /\ IsSplit(row.split)
    BY <1>0, <2>1, PlanFacts, ExpenseFacts
  <2>3. IntegerBalances(ms)
    BY <1>0, <2>2, IntegerDeltas
  <2> HIDE DEF ms, p
  <2> QED
    BY <2>1, <2>2, <2>3, IntegralFinish
<1>2. CASE UpdateGroupExpenseTx(h)
  <2> DEFINE ms == PersistDeltas(members[p.group], p.old, p.split, -1)
             ns == PersistDeltas(ms, p.new, p.split, 1)
  <2>1. Finish(h) /\ members' = [members EXCEPT ![p.group] = ns] /\ p.op = "update"
    BY <1>2 DEF UpdateGroupExpenseTx
  <2>2. IsExpense(p.old) /\ IsExpense(p.new) /\ IsSplit(p.split) /\ p.group \in Groups
    BY <1>0, <2>1, PlanFacts
  <2>3. IntegerBalances(ms) /\ MemberShape(ms)
    BY <1>0, <2>2, IntegerDeltas, ShapeOfDeltas
  <2> HIDE DEF ms
  <2>4. IntegerBalances(ns)
    BY <2>2, <2>3, IntegerDeltas
  <2> HIDE DEF ns, p
  <2> QED
    BY <2>1, <2>2, <2>4, IntegralFinish
<1>3. CASE DeleteGroupExpenseTx(h)
  <2> DEFINE ms == PersistDeltas(members[p.group], p.old, p.split, -1)
  <2>1. Finish(h) /\ members' = [members EXCEPT ![p.group] = ms] /\ p.op = "delete"
    BY <1>3 DEF DeleteGroupExpenseTx
  <2>2. IsExpense(p.old) /\ IsSplit(p.split) /\ p.group \in Groups
    BY <1>0, <2>1 DEF PlanShape, IsPlan, Idle
  <2>3. IntegerBalances(ms)
    BY <1>0, <2>2, IntegerDeltas
  <2> HIDE DEF ms, p
  <2> QED
    BY <2>1, <2>2, <2>3, IntegralFinish
<1>4. CASE AddMemberTx(h)
  <2> DEFINE e == NewMember(p.mobile)
             ms == Append(members[p.group], e)
  <2>1. Finish(h) /\ members' = [members EXCEPT ![p.group] = ms] /\ p.op = "join"
    BY <1>4 DEF AddMemberTx
  <2>2. p.mobile \in Number /\ p.group \in Groups
    BY <1>0, <2>1, PlanFacts
  <2>3. IntegerBalances(ms)
    BY <1>0, <2>2, IntegerAppend
  <2> HIDE DEF ms, p
  <2> QED
    BY <2>1, <2>2, <2>3, IntegralFinish
<1>5. CASE RemoveMemberTx(h)
  <2> DEFINE ms == RemoveRows(members[p.group], p.mobile)
  <2>1. Finish(h) /\ members' = [members EXCEPT ![p.group] = ms] /\ p.op = "leave"
    BY <1>5 DEF RemoveMemberTx
  <2>2. p.group \in Groups
    BY <1>0, <2>1, PlanFacts
  <2>3. IntegerBalances(ms)
    BY <1>0, <2>2, IntegerKept
  <2> HIDE DEF ms, p
  <2> QED
    BY <2>1, <2>2, <2>3, IntegralFinish
<1>6. CASE DeleteGroupTx(h)
  <2> DEFINE ms == RemoveAllRows(members[p.group])
  <2>1. Finish(h) /\ members' = [members EXCEPT ![p.group] = ms] /\ p.op = "drop"
    BY <1>6 DEF DeleteGroupTx
  <2>2. p.group \in Groups
    BY <1>0, <2>1, PlanFacts
  <2>3. IntegerBalances(ms)
    BY <1>0, <2>2, IntegerKept
  <2> HIDE DEF ms, p
  <2> QED
    BY <2>1, <2>2, <2>3, IntegralFinish
<1>7. CASE RecomputeTx(h)
  <2> DEFINE ms == SetMemberBalances(members[p.group], p.want)
  <2>1. Finish(h) /\ members' = [members EXCEPT ![p.group] = ms] /\ p.op = "recompute"
    BY <1>7 DEF RecomputeTx
  <2>2. p.group \in Groups
    BY <1>0, <2>1, PlanFacts
  <2>3. p.want \in [DOMAIN p.want -> Int]
    BY <2>1 DEF Integral, IntegerPlan
  <2>4. IntegerBalances(ms)
    BY <1>0, <2>2, <2>3, IntegerSet
  <2> HIDE DEF ms, p
  <2> QED
    BY <2>1, <2>2, <2>4, IntegralFinish
<1>8. CASE Rollback(h)
  BY <1>8, IntegralFinish DEF Rollback
<1> QED
  BY <1>1, <1>2, <1>3, <1>4, <1>5, <1>6, <1>7, <1>8 DEF Transaction

LEMMA IntegralStep ==
  ASSUME IInv, Integral, [Next]_vars
  PROVE  Integral'
<1>1. CASE UNCHANGED vars
  BY <1>1 DEF vars, Integral, IntegerBalances, IntegerPlan
<1>2. ASSUME NEW h \in Handlers, Request(h) \/ Transaction(h)
      PROVE  Integral'
  BY <1>2, IntegralRequest, IntegralTransaction
<1> QED
  BY <1>1, <1>2 DEF Next

LEMMA TypesTogether ==
  ASSUME RowsTyped, Integral
  PROVE  TypeOK
<1>1. ASSUME NEW g \in Groups
      PROVE  members[g] \in Seq(MemberRow)
  <2> DEFINE ms == members[g]
  <2>1. MemberShape(ms) /\ IntegerBalances(ms)
    BY DEF RowsTyped, Integral
  <2>2. PICK n \in Nat : DOMAIN ms = 1..n
    BY <2>1 DEF MemberShape
  <2>3. \A i \in DOMAIN ms : ms[i] \in MemberRow
    BY <2>1 DEF MemberShape, IntegerBalances, MemberRow
  <2>4. ms = [i \in DOMAIN ms |-> ms[i]]
    BY <2>1 DEF MemberShape
  <2> HIDE DEF ms
  <2>5. ms \in [1..n -> MemberRow]
    BY <2>2, <2>3, <2>4
  <2>6. ms \in Seq(MemberRow)
    BY <2>5, SeqDef
  <2> QED
    BY <2>6 DEF ms
<1>2. members \in [Groups -> Seq(MemberRow)]
  <2>1. members = [g \in Groups |-> members[g]]
    BY DEF Integral
  <2> QED
    BY <1>1, <2>1
<1>3. ASSUME NEW h \in Handlers
      PROVE  IsPlan(plan[h])
  <2>1. PlanShape(plan[h]) /\ IntegerPlan(plan[h])
    BY DEF RowsTyped, Integral
  <2>2. CASE plan[h] \in [op : {"recompute"}, group : Groups, want : {plan[h].want}]
    BY <2>1, <2>2 DEF IsPlan, IntegerPlan
  <2> QED
    BY <2>1, <2>2 DEF PlanShape
<1> QED
  BY <1>2, <1>3 DEF TypeOK, RowsTyped

LEMMA IntegersKept ==
  ASSUME ~StrayEdits
  PROVE  Spec => [](IInv /\ Integral)
<1>1. IInv /\ Integral /\ [Next]_vars => (IInv /\ Integral)'
  BY IInvStep, IntegralStep
<1> QED
  BY InitIInv, IntegralInit, <1>1, PTL DEF Spec

\* As long as edits name the expense's own group, every row of every table has
\* its type and every decided write, the corrections of a recompute included,
\* is one its table can take.
THEOREM GroupTyped ==
  ASSUME ~StrayEdits
  PROVE  Spec => []TypeOK
<1>1. IInv /\ Integral => TypeOK
  BY TypesTogether DEF IInv
<1> QED
  BY <1>1, IntegersKept, PTL

-----------------------------------------------------------------------------
(* Recompute, one request at a time                                        *)

\* Storing balances changes no replay.
LEMMA SetKeepsMembers ==
  ASSUME NEW ms, MemberShape(ms), NEW want
  PROVE  LET ns == SetMemberBalances(ms, want)
         IN /\ MemberRows(ns) = MemberRows(ms)
            /\ \A i \in MemberRows(ms) : ns[i].mobile = ms[i].mobile
            /\ \A n : RowsFor(ns, n) = RowsFor(ms, n)
            /\ \A n : StoredForm(ns, n) = StoredForm(ms, n)
            /\ \A row : SplitMembersFor(ns, row) = SplitMembersFor(ms, row)
<1> DEFINE ns == SetMemberBalances(ms, want)
<1>1. DOMAIN ns = DOMAIN ms
  BY DEF SetMemberBalances
<1>2. ASSUME NEW i \in DOMAIN ms
      PROVE  ns[i].mobile = ms[i].mobile /\ ns[i].live = ms[i].live
  BY DEF SetMemberBalances, MemberShape
<1> HIDE DEF ns
<1>3. MemberRows(ns) = MemberRows(ms)
  BY <1>1, <1>2 DEF MemberRows
<1>4. \A i \in MemberRows(ms) : ns[i].mobile = ms[i].mobile
  BY <1>2 DEF MemberRows
<1>5. \A n : RowsFor(ns, n) = RowsFor(ms, n)
  BY <1>3, <1>4 DEF RowsFor
<1>6. ASSUME NEW n
      PROVE  StoredForm(ns, n) = StoredForm(ms, n)
  <2>1. IsGroupMember(ns, n) <=> IsGroupMember(ms, n)
    BY <1>5 DEF IsGroupMember
  <2>2. CASE IsGroupMember(ms, n)
    <3> DEFINE First(R) == CHOOSE i \in R : \A k \in R : i <= k
               j == First(RowsFor(ms, n))
    <3>1. /\ ResolveMemberMobile(ms, n) = ms[First(RowsFor(ms, n))].mobile
          /\ ResolveMemberMobile(ns, n) = ns[First(RowsFor(ns, n))].mobile
      BY DEF ResolveMemberMobile
    <3>2. j \in MemberRows(ms)
      <4>1. RowsFor(ms, n) \in SUBSET Nat /\ RowsFor(ms, n) # {}
        BY <2>2 DEF RowsFor, MemberRows, MemberShape, IsGroupMember
      <4>2. \E i \in RowsFor(ms, n) : \A k \in RowsFor(ms, n) : i <= k
        BY <4>1, NatMinimum
      <4>3. j \in RowsFor(ms, n)
        BY <4>2
      <4> QED
        BY <4>3 DEF RowsFor
    <3> HIDE DEF First
    <3>3. ResolveMemberMobile(ns, n) = ns[j].mobile
      BY <1>5, <3>1
    <3> QED
      BY <1>4, <2>1, <2>2, <3>1, <3>2, <3>3 DEF StoredForm
  <2> QED
    BY <2>1, <2>2 DEF StoredForm
<1>7. EveryMember(ns) = EveryMember(ms)
  BY <1>3, <1>4 DEF EveryMember
<1> QED
  BY <1>3, <1>4, <1>5, <1>6, <1>7 DEF SplitMembersFor, ns

\* The replay looks at who the members are, not at what they have.
LEMMA SameReplay ==
  ASSUME NEW ms, MemberShape(ms), NEW ns, NEW rows, NEW g, NEW n,
         \A id \in ExpenseIds : rows[id] = NoRow \/ IsExpense(rows[id]),
         \A k : StoredForm(ns, k) = StoredForm(ms, k),
         \A row : SplitMembersFor(ns, row) = SplitMembersFor(ms, row)
  PROVE  Expected(ns, rows, g, n) = Expected(ms, rows, g, n)
<1>1. ASSUME NEW id \in LiveRows(rows, g)
      PROVE  ReplayRow(ns, rows[id], n) = ReplayRow(ms, rows[id], n)
  <2> DEFINE row == rows[id]
             split == SplitMembersFor(ms, row)
  <2>1. IsExpense(row)
    BY DEF LiveRows, NoRow
  <2>2. IsSplit(split)
    BY <2>1, SplitOfRow, ExpenseFacts
  <2>3. CountedFor(ns, row, split, n) = CountedFor(ms, row, split, n)
    BY DEF CountedFor
  <2>4. ReplayRow(ms, row, n) = Total(DeltasOfRow(row, split), CountedFor(ms, row, split, n))
    BY <2>2, ReplayRowIsTotal
  <2>5. SplitMembersFor(ns, row) = split
    OBVIOUS
  <2>6. ReplayRow(ns, row, n) = Total(DeltasOfRow(row, split), CountedFor(ns, row, split, n))
    BY <2>2, <2>5, ReplayRowIsTotal
  <2> QED
    BY <2>3, <2>4, <2>6
<1>2. LiveRows(rows, g) \subseteq ExpenseIds /\ IsFiniteSet(LiveRows(rows, g))
  BY LiveRowsFinite
<1>3. \A id \in LiveRows(rows, g) : RowReplays(ns, rows, n)[id] = RowReplays(ms, rows, n)[id]
  BY <1>1, <1>2 DEF RowReplays
<1>4. Total(RowReplays(ns, rows, n), LiveRows(rows, g))
        = Total(RowReplays(ms, rows, n), LiveRows(rows, g))
  BY <1>2, <1>3, TotalEqual
<1> QED
  BY <1>4, ExpectedIsTotal

\* What a group's replay gives, stored, is what the replay gives afterwards.
LEMMA CorrectionsRepair ==
  ASSUME NEW ms, MemberShape(ms), NEW rows, NEW g,
         \A id \in ExpenseIds : rows[id] = NoRow \/ IsExpense(rows[id]),
         NEW ns, ns = SetMemberBalances(ms, Corrections(ms, rows, g))
  PROVE  \A i \in MemberRows(ns) : ns[i].balance = Expected(ns, rows, g, ns[i].mobile)
<1> DEFINE want == Corrections(ms, rows, g)
<1>1. /\ MemberRows(ns) = MemberRows(ms)
      /\ \A i \in MemberRows(ms) : ns[i].mobile = ms[i].mobile
      /\ \A n : StoredForm(ns, n) = StoredForm(ms, n)
      /\ \A row : SplitMembersFor(ns, row) = SplitMembersFor(ms, row)
  BY SetKeepsMembers
<1>2. \A n : Expected(ns, rows, g, n) = Expected(ms, rows, g, n)
  BY <1>1, SameReplay
<1> SUFFICES ASSUME NEW i \in MemberRows(ms)
             PROVE  ns[i].balance = Expected(ms, rows, g, ms[i].mobile)
  BY <1>1, <1>2
<1> DEFINE m == ms[i].mobile
<1>3. i \in DOMAIN ms /\ ms[i].live
  BY DEF MemberRows
<1>4. CASE m \in DOMAIN want
  <2>1. want[m] = Expected(ms, rows, g, m)
    BY <1>4 DEF Corrections
  <2>2. ns[i] = [ms[i] EXCEPT !.balance = want[m]]
    BY <1>3, <1>4 DEF SetMemberBalances
  <2> HIDE DEF want
  <2> QED
    BY <1>3, <2>1, <2>2 DEF MemberShape
<1>5. CASE m \notin DOMAIN want
  <2>1. ms[i].balance = Expected(ms, rows, g, m)
    BY <1>5 DEF Corrections
  <2>2. ns[i] = ms[i]
    BY <1>3, <1>5 DEF SetMemberBalances
  <2> QED
    BY <2>1, <2>2
<1> QED
  BY <1>4, <1>5

\* With one request at a time, what a recompute decided on is still the case
\* when it writes.
CorrectionsCurrent ==
  \A h \in Handlers : plan[h].op = "recompute" =>
    plan[h].want = Corrections(members[plan[h].group], expenses, plan[h].group)

LEMMA CurrentStep ==
  ASSUME IInv, CorrectionsCurrent, [Next]_vars, \A h, k \in Handlers : h = k
  PROVE  CorrectionsCurrent'
<1>0. DOMAIN plan = Handlers
  BY DEF IInv, RowsTyped
<1>1. CASE UNCHANGED vars
  BY <1>1 DEF vars, CorrectionsCurrent
<1>2. ASSUME NEW h \in Handlers, Transaction(h)
      PROVE  CorrectionsCurrent'
  <2>1. plan' = [plan EXCEPT ![h] = Idle]
    BY <1>2 DEF Transaction, CreateExpenseTx, UpdateGroupExpenseTx, DeleteGroupExpenseTx,
                AddMemberTx, RemoveMemberTx, DeleteGroupTx, RecomputeTx, Rollback, Finish
  <2>2. \A k \in Handlers : plan'[k] = Idle
    BY <1>0, <2>1
  <2> QED
    BY <2>2 DEF CorrectionsCurrent, Idle
<1>3. ASSUME NEW h \in Handlers, Request(h)
      PROVE  CorrectionsCurrent'
  <2>a. ASSUME NEW op, NEW d, Decide(h, op, d),
               d.op = "recompute" => d.want = Corrections(members[d.group], expenses, d.group)
        PROVE  CorrectionsCurrent'
    <3>1. plan' = [plan EXCEPT ![h] = d] /\ UNCHANGED <<members, expenses>>
      BY <2>a DEF Decide
    <3>2. \A k \in Handlers : plan'[k] = d
      BY <1>0, <3>1
    <3> QED
      BY <2>a, <3>1, <3>2 DEF CorrectionsCurrent
  <2>1. PICK op, d : Decide(h, op, d) /\ Known(op, d)
    BY <1>3, WhatIsDecided
  <2> QED
    BY <2>a, <2>1 DEF Known
<1> QED
  BY <1>1, <1>2, <1>3 DEF Next

LEMMA RecomputeMatches ==
  ASSUME IInv, CorrectionsCurrent, NEW h \in Handlers, NEW g \in Groups,
         RecomputeTx(h), plan[h].group = g
  PROVE  BalancesMatch(g)'
<1> DEFINE ms == members[g]
           ns == SetMemberBalances(ms, Corrections(ms, expenses, g))
<1>1. members' = [members EXCEPT ![g] = ns] /\ expenses' = expenses
  BY DEF RecomputeTx, CorrectionsCurrent
<1>2. members'[g] = ns /\ MemberShape(ms)
  BY <1>1 DEF IInv, RowsTyped
<1>3. \A i \in MemberRows(ns) : ns[i].balance = Expected(ns, expenses, g, ns[i].mobile)
  BY <1>2, CorrectionsRepair DEF IInv, RowsTyped
<1> QED
  BY <1>1, <1>2, <1>3 DEF BalancesMatch

\* Served one request at a time, a recompute with -apply leaves every member
\* of the group at what replaying its expenses gives, whatever balances,
\* whatever rows of an older release and however many spellings of a number
\* it found.
THEOREM RecomputeRepairsAll ==
  ASSUME ~StrayEdits, \A h, k \in Handlers : h = k
  PROVE  Spec => RecomputeRepairs
<1>1. Init => CorrectionsCurrent
  BY DEF Init, CorrectionsCurrent, Idle
<1>2. IInv /\ CorrectionsCurrent /\ [Next]_vars => CorrectionsCurrent'
  BY CurrentStep
<1>3. IInv /\ CorrectionsCurrent /\ [Next]_vars =>
        [\A h \in Handlers, g \in Groups :
           RecomputeTx(h) /\ plan[h].group = g => BalancesMatch(g)']_vars
  BY RecomputeMatches
<1> QED
  BY <1>1, <1>2, <1>3, Invariance, PTL DEF Spec, RecomputeRepairs

-----------------------------------------------------------------------------
(* Balances sum to zero                                                    *)

\* The numbers a group's members are stored under.
Mobiles(ms) == {ms[i].mobile : i \in MemberRows(ms)}

\* Everybody a row names, split over split, is a member.
Names(ms, row, split) ==
  /\ row.payer \in Mobiles(ms)
  /\ row.kind = "settlement" => row.receiver \in Mobiles(ms)
  /\ \A j \in DOMAIN split : split[j] \in Mobiles(ms)

\* The shares of a row come out even.
Whole(row, split) ==
  row.kind = "expense" /\ DOMAIN split # {} =>
    row.amount % Cardinality(DOMAIN split) = 0

BalancesOf(ms) == [i \in MemberRows(ms) |-> ms[i].balance]
BalanceSum(ms) == Total(BalancesOf(ms), MemberRows(ms))

LEMMA RowsFinite ==
  ASSUME NEW ms, MemberShape(ms)
  PROVE  IsFiniteSet(MemberRows(ms)) /\ MemberRows(ms) \subseteq DOMAIN ms
<1>1. PICK n \in Nat : DOMAIN ms = 1..n
  BY DEF MemberShape
<1>2. IsFiniteSet(1..n) /\ MemberRows(ms) \in SUBSET (1..n)
  BY <1>1, FS_Interval DEF MemberRows
<1> QED
  BY <1>1, <1>2, FS_Subset

\* An amount credited to one member counts once.
LEMMA CountsOnce ==
  ASSUME NEW ms, MemberShape(ms), OneRowEach(ms), NEW n \in Mobiles(ms), NEW amount \in Int,
         NEW f, \A i \in MemberRows(ms) : f[i] = When(ms[i].mobile = n, amount)
  PROVE  Total(f, MemberRows(ms)) = amount
<1> DEFINE R == MemberRows(ms)
<1>1. PICK i \in R : ms[i].mobile = n
  BY DEF Mobiles
<1>2. f[i] = amount /\ \A k \in R \ {i} : f[k] = 0
  BY <1>1 DEF When, OneRowEach
<1>3. \A k \in R : f[k] \in Int
  BY <1>2
<1>4. IsFiniteSet(R)
  BY RowsFinite
<1> HIDE DEF R
<1>5. Total(f, R) = f[i] + Total(f, R \ {i})
  BY <1>3, <1>4, TotalRemove
<1>6. IsFiniteSet(R \ {i})
  BY <1>4, FS_RemoveElement
<1>7. Total(f, R \ {i}) = 0
  BY <1>2, <1>6, TotalZero
<1> QED
  BY <1>2, <1>5, <1>7 DEF R

\* What members owe for the slots E of a split, when each slot costs share.
OwedFor(ms, split, share, E) ==
  [i \in MemberRows(ms) |-> share * Cardinality({j \in E : split[j] = ms[i].mobile})]

LEMMA EverySlotIsOwed ==
  ASSUME NEW ms, MemberShape(ms), OneRowEach(ms), NEW split, IsSplit(split),
         \A j \in DOMAIN split : split[j] \in Mobiles(ms), NEW share \in Int
  PROVE  Total(OwedFor(ms, split, share, DOMAIN split), MemberRows(ms))
           = share * Cardinality(DOMAIN split)
<1> DEFINE R == MemberRows(ms)
           D == DOMAIN split
           Owes(E) == OwedFor(ms, split, share, E)
           Bad == {E \in SUBSET D : Total(Owes(E), R) # share * Cardinality(E)}
<1> SUFFICES ASSUME Bad # {} PROVE FALSE
  OBVIOUS
<1>0. IsFiniteSet(D) /\ IsFiniteSet(R)
  BY RowsFinite DEF IsSplit
<1>1. PICK E \in Bad : \A F \in Bad : ~(F \subseteq E /\ F # E)
  <2>1. Bad \subseteq SUBSET D
    OBVIOUS
  <2> HIDE DEF Bad
  <2> QED
    BY <1>0, <2>1, LeastSubset
<1>2. E \subseteq D /\ IsFiniteSet(E) /\ Total(Owes(E), R) # share * Cardinality(E)
  BY <1>0, FS_Subset
<1>3. E # {}
  <2> SUFFICES ASSUME E = {} PROVE FALSE
    OBVIOUS
  <2>1. Cardinality({}) = 0
    BY FS_EmptySet
  <2>2. \A i \in R : {j \in E : split[j] = ms[i].mobile} = {}
    OBVIOUS
  <2>3. share * 0 = 0
    OBVIOUS
  <2>4. \A i \in R : Owes(E)[i] = 0
    BY <2>1, <2>2, <2>3 DEF OwedFor
  <2>5. Total(Owes(E), R) = 0
    <3> HIDE DEF Owes, R
    <3> QED
      BY <1>0, <2>4, TotalZero
  <2> QED
    BY <1>2, <2>1, <2>3, <2>5
<1>4. PICK d \in E : TRUE
  BY <1>3
<1> DEFINE F == E \ {d}
           here == [i \in R |-> When(ms[i].mobile = split[d], share)]
<1>5. /\ F \subseteq D /\ IsFiniteSet(F) /\ E = F \cup {d} /\ d \notin F
      /\ Cardinality(E) = Cardinality(F) + 1 /\ Cardinality(F) \in Nat
  <2>1. IsFiniteSet(F)
    BY <1>2, FS_RemoveElement
  <2>2. E = F \cup {d} /\ d \notin F
    OBVIOUS
  <2>3. Cardinality(F) \in Nat /\ Cardinality(F \cup {d}) = Cardinality(F) + 1
    <3> HIDE DEF F
    <3> QED
      BY <2>1, <2>2, FS_AddElement, FS_CardinalityType
  <2> QED
    BY <1>2, <2>1, <2>2, <2>3
<1>6. Total(Owes(F), R) = share * Cardinality(F)
  <2>1. F \notin Bad
    BY <1>1, <1>5
  <2> QED
    BY <1>5, <2>1
<1>7. ASSUME NEW i \in R
      PROVE  /\ Owes(F)[i] \in Int /\ here[i] \in Int
             /\ Owes(E)[i] = Owes(F)[i] + here[i]
  <2> DEFINE m == ms[i].mobile
             X == {j \in F : split[j] = m}
             Y == {j \in E : split[j] = m}
  <2>1. Owes(F)[i] = share * Cardinality(X) /\ Owes(E)[i] = share * Cardinality(Y)
    BY DEF OwedFor
  <2>2. IsFiniteSet(X) /\ d \notin X
    BY <1>5, FS_Subset
  <2>3. Cardinality(X) \in Nat
    BY <2>2, FS_CardinalityType
  <2>4. share * Cardinality(X) \in Int
    <3> HIDE DEF X
    <3> QED
      BY <2>3
  <2>5. CASE m = split[d]
    <3>1. Y = X \cup {d}
      BY <1>5, <2>5
    <3>2. Cardinality(Y) = Cardinality(X) + 1
      <4> HIDE DEF X, Y
      <4> QED
        BY <2>2, <3>1, FS_AddElement
    <3>3. here[i] = share
      BY <2>5 DEF When
    <3>4. share * (Cardinality(X) + 1) = share * Cardinality(X) + share
      <4> HIDE DEF X
      <4> QED
        BY <2>3
    <3> QED
      BY <2>1, <2>4, <3>2, <3>3, <3>4
  <2>6. CASE m # split[d]
    <3>1. Y = X
      BY <1>5, <2>6
    <3>2. here[i] = 0
      BY <2>6 DEF When
    <3> HIDE DEF X, Y, Owes, here
    <3> QED
      BY <2>1, <2>4, <3>1, <3>2
  <2> QED
    BY <2>5, <2>6
<1>8. Total(Owes(E), R) = Total(Owes(F), R) + Total(here, R)
  <2> HIDE DEF Owes, here, R, F
  <2> QED
    BY <1>0, <1>7, TotalPlus
<1>9. Total(here, R) = share
  <2>1. split[d] \in Mobiles(ms)
    BY <1>2
  <2>2. \A i \in MemberRows(ms) : here[i] = When(ms[i].mobile = split[d], share)
    OBVIOUS
  <2> HIDE DEF here
  <2> QED
    BY <2>1, <2>2, CountsOnce
<1>10. share * (Cardinality(F) + 1) = share * Cardinality(F) + share
  <2> HIDE DEF F
  <2> QED
    BY <1>5
<1> QED
  BY <1>2, <1>5, <1>6, <1>8, <1>9, <1>10

\* The deltas of a row cancel over the members.
DeltasOver(ms, row, split) ==
  [i \in MemberRows(ms) |-> BalanceDeltaFor(row, split, ms[i].mobile)]

LEMMA DeltasCancel ==
  ASSUME NEW ms, MemberShape(ms), OneRowEach(ms), NEW row, IsExpense(row),
         NEW split, IsSplit(split), Names(ms, row, split), Whole(row, split)
  PROVE  Total(DeltasOver(ms, row, split), MemberRows(ms)) = 0
<1> DEFINE R == MemberRows(ms)
           d == DeltasOver(ms, row, split)
           paid == [i \in R |-> When(ms[i].mobile = row.payer, row.amount)]
<1>0. IsFiniteSet(R) /\ row.amount \in Nat /\ row.kind \in {"expense", "settlement"}
  BY RowsFinite, ExpenseFacts
<1>1. \A i \in R : d[i] \in Int
  BY DeltaIsInteger DEF DeltasOver
<1>2. \A i \in R : paid[i] \in Int
  BY <1>0 DEF When
<1>3. Total(paid, R) = row.amount
  <2>1. row.payer \in Mobiles(ms)
    BY DEF Names
  <2>2. \A i \in MemberRows(ms) : paid[i] = When(ms[i].mobile = row.payer, row.amount)
    OBVIOUS
  <2> HIDE DEF paid
  <2> QED
    BY <1>0, <2>1, <2>2, CountsOnce
<1>4. Total(d, R) \in Int
  <2> HIDE DEF d, R
  <2> QED
    BY <1>0, <1>1, TotalType
<1>5. CASE row.kind = "settlement"
  <2> DEFINE got == [i \in R |-> When(ms[i].mobile = row.receiver, row.amount)]
  <2>1. row.receiver \in Mobiles(ms)
    BY <1>5 DEF Names
  <2>2. \A i \in MemberRows(ms) : got[i] = When(ms[i].mobile = row.receiver, row.amount)
    OBVIOUS
  <2>3. Total(got, R) = row.amount
    <3> HIDE DEF got
    <3> QED
      BY <1>0, <2>1, <2>2, CountsOnce
  <2>4. \A i \in R : got[i] \in Int
    BY <1>0 DEF When
  <2>5. \A i \in R : d[i] = paid[i] - got[i]
    BY <1>5 DEF DeltasOver, BalanceDeltaFor, SettlementBalanceDelta
  <2> HIDE DEF d, got, paid, R
  <2>6. \A i \in R : paid[i] = d[i] + got[i]
    BY <1>1, <1>2, <2>4, <2>5
  <2>7. Total(paid, R) = Total(d, R) + Total(got, R)
    BY <1>0, <1>1, <2>4, <2>6, TotalPlus
  <2> QED
    BY <1>0, <1>3, <1>4, <2>3, <2>7 DEF d, R
<1>6. CASE row.kind # "settlement" /\ DOMAIN split = {}
  <2>1. \A i \in R : d[i] = 0
    BY <1>6 DEF DeltasOver, BalanceDeltaFor, ExpenseBalanceDelta
  <2> HIDE DEF d, R
  <2> QED
    BY <1>0, <2>1, TotalZero DEF d, R
<1>7. CASE row.kind # "settlement" /\ DOMAIN split # {}
  <2> DEFINE share == Share(row, split)
             size == Cardinality(DOMAIN split)
             owes == OwedFor(ms, split, share, DOMAIN split)
  <2>1. size \in Nat \ {0}
    BY <1>7, FS_CardinalityType, FS_EmptySet DEF IsSplit
  <2>2. row.amount % size = 0
    BY <1>0, <1>7 DEF Whole
  <2>3. share \in Int /\ share * size = row.amount
    <3>1. \A x \in Nat, m \in Nat \ {0} : x \div m \in Int /\ x = m * (x \div m) + (x % m)
      OBVIOUS
    <3>2. \A x, m \in Int : m * x + 0 = x * m
      OBVIOUS
    <3> HIDE DEF size
    <3>3. share = row.amount \div size
      BY DEF Share, size
    <3>4. share \in Int /\ row.amount = size * share + 0
      <4> HIDE DEF share
      <4> QED
        BY <1>0, <2>1, <2>2, <3>1, <3>3
    <3> HIDE DEF share
    <3> QED
      BY <2>1, <3>2, <3>4
  <2>4. \A j \in DOMAIN split : split[j] \in Mobiles(ms)
    BY DEF Names
  <2>5. Total(owes, R) = row.amount
    <3>1. Total(OwedFor(ms, split, share, DOMAIN split), MemberRows(ms)) = share * size
      <4> HIDE DEF share
      <4> QED
        BY <2>3, <2>4, EverySlotIsOwed
    <3> QED
      BY <2>3, <3>1
  <2>6. \A i \in R : owes[i] = Owed(row, split, ms[i].mobile)
    BY DEF OwedFor, Owed
  <2>7. \A i \in R : d[i] = paid[i] - owes[i]
    BY <1>7, <2>6 DEF DeltasOver, BalanceDeltaFor, ExpenseBalanceDelta
  <2>8. ASSUME NEW i \in R PROVE owes[i] \in Int
    <3> DEFINE X == {j \in DOMAIN split : split[j] = ms[i].mobile}
    <3>1. Cardinality(X) \in Int
      <4>1. IsFiniteSet(X)
        BY FS_Subset DEF IsSplit
      <4> HIDE DEF X
      <4> QED
        BY <4>1, FS_CardinalityType
    <3>2. owes[i] = share * Cardinality(X)
      BY DEF OwedFor
    <3> HIDE DEF X, share, owes
    <3> QED
      BY <2>3, <3>1, <3>2
  <2> HIDE DEF d, owes, paid, R
  <2>9. \A i \in R : paid[i] = d[i] + owes[i]
    BY <1>1, <1>2, <2>7, <2>8
  <2>10. Total(paid, R) = Total(d, R) + Total(owes, R)
    BY <1>0, <1>1, <2>8, <2>9, TotalPlus
  <2> QED
    BY <1>0, <1>3, <1>4, <2>5, <2>10 DEF d, R
<1> QED
  BY <1>5, <1>6, <1>7

\* Applying or reverting a row over members that are all there leaves the sum.
LEMMA DeltasKeepSum ==
  ASSUME NEW ms, MemberShape(ms), IntegerBalances(ms), OneRowEach(ms), NEW row, IsExpense(row),
         NEW split, IsSplit(split), Names(ms, row, split), Whole(row, split),
         NEW sign \in {1, -1}
  PROVE  BalanceSum(PersistDeltas(ms, row, split, sign)) = BalanceSum(ms)
<1> DEFINE ns == PersistDeltas(ms, row, split, sign)
           R == MemberRows(ms)
           d == DeltasOver(ms, row, split)
           s == [i \in R |-> sign * d[i]]
           old == BalancesOf(ms)
           new == BalancesOf(ns)
<1>0. IsFiniteSet(R) /\ R \subseteq DOMAIN ms
  BY RowsFinite
<1>1. \A i \in R : d[i] \in Int
  BY DeltaIsInteger DEF DeltasOver
<1>2. MemberRows(ns) = R
  BY DEF PersistDeltas, MemberRows, MemberShape
<1>3. ASSUME NEW i \in R
      PROVE  new[i] = old[i] + s[i] /\ old[i] \in Int /\ s[i] \in Int
  <2>1. ms[i].live /\ i \in DOMAIN ms
    BY DEF MemberRows
  <2>2. ns[i] = [ms[i] EXCEPT !.balance = ms[i].balance
                                + sign * BalanceDeltaFor(row, split, ms[i].mobile)]
    BY <2>1 DEF PersistDeltas
  <2>3. ns[i].balance = ms[i].balance + sign * BalanceDeltaFor(row, split, ms[i].mobile)
    BY <2>1, <2>2 DEF MemberShape
  <2>4. d[i] = BalanceDeltaFor(row, split, ms[i].mobile)
    BY DEF DeltasOver
  <2>5. new[i] = ns[i].balance /\ old[i] = ms[i].balance
    BY <1>2 DEF BalancesOf
  <2>6. old[i] \in Int
    BY <2>1, <2>5 DEF IntegerBalances
  <2>7. s[i] = sign * d[i]
    OBVIOUS
  <2> HIDE DEF ns, R, d, s, old, new
  <2>8. s[i] \in Int
    BY <1>1, <2>7
  <2> QED
    BY <2>3, <2>4, <2>5, <2>6, <2>7, <2>8
<1>4. Total(d, R) = 0
  BY DeltasCancel
<1>5. \A i \in R : s[i] = sign * d[i]
  OBVIOUS
<1> HIDE DEF ns, R, d, s, old, new
<1>6. Total(s, R) = 0
  <2>1. CASE sign = 1
    <3>1. \A i \in R : s[i] = d[i]
      BY <1>1, <1>5, <2>1
    <3>2. Total(s, R) = Total(d, R)
      BY <1>0, <3>1, TotalEqual
    <3> QED
      BY <1>4, <3>2
  <2>2. CASE sign = -1
    <3>1. \A i \in R : s[i] \in Int /\ d[i] + s[i] = 0
      BY <1>1, <1>5, <2>2
    <3>2. Total(d, R) + Total(s, R) = 0
      BY <1>0, <1>1, <3>1, TotalCancels
    <3>3. Total(s, R) \in Int
      BY <1>0, <3>1, TotalType
    <3> QED
      BY <1>4, <3>2, <3>3
  <2> QED
    BY <2>1, <2>2
<1>7. Total(new, R) = Total(old, R) + Total(s, R)
  BY <1>0, <1>3, TotalPlus
<1>8. Total(old, R) \in Int
  BY <1>0, <1>3, TotalType
<1>9. Total(new, R) = Total(old, R)
  BY <1>6, <1>7, <1>8
<1> QED
  BY <1>2, <1>9 DEF BalanceSum, ns, R, old, new

LEMMA AppendedRows ==
  ASSUME NEW ms, MemberShape(ms), NEW n
  PROVE  LET ns == Append(ms, NewMember(n))
         IN \E k : /\ k \notin MemberRows(ms)
                   /\ MemberRows(ns) = MemberRows(ms) \cup {k}
                   /\ ns[k] = NewMember(n)
                   /\ \A i \in MemberRows(ms) : ns[i] = ms[i]
<1> DEFINE e == NewMember(n)
           S == {ms[i] : i \in DOMAIN ms} \cup {e}
           ns == Append(ms, e)
<1>1. PICK k \in Nat : DOMAIN ms = 1..k
  BY DEF MemberShape
<1>2. ms \in [1..k -> S]
  BY <1>1 DEF MemberShape
<1>3. ms \in Seq(S)
  BY <1>2, SeqDef
<1>4. e \in S /\ e.live
  BY DEF NewMember
<1> HIDE DEF e, S
<1>5. Len(ms) = k
  BY <1>1, <1>3, LenProperties
<1>6. /\ ns \in Seq(S)
      /\ Len(ns) = k + 1
      /\ \A i \in 1..k : ns[i] = ms[i]
      /\ ns[k + 1] = e
  BY <1>3, <1>4, <1>5, AppendProperties
<1>7. DOMAIN ns = 1..(k + 1)
  BY <1>6, LenProperties
<1>8. \A i : i \in 1..(k + 1) <=> i \in 1..k \/ i = k + 1
  BY <1>1
<1>9. k + 1 \notin 1..k
  BY <1>1
<1> HIDE DEF ns
<1>10. MemberRows(ns) = MemberRows(ms) \cup {k + 1} /\ k + 1 \notin MemberRows(ms)
  BY <1>1, <1>4, <1>6, <1>7, <1>8, <1>9 DEF MemberRows
<1>11. \A i \in MemberRows(ms) : ns[i] = ms[i]
  BY <1>1, <1>6 DEF MemberRows
<1> QED
  BY <1>6, <1>10, <1>11 DEF ns, e

\* A new member owes nothing and is owed nothing.
LEMMA AppendKeepsSum ==
  ASSUME NEW ms, MemberShape(ms), IntegerBalances(ms), NEW n
  PROVE  BalanceSum(Append(ms, NewMember(n))) = BalanceSum(ms)
<1> DEFINE ns == Append(ms, NewMember(n))
           R == MemberRows(ms)
<1>1. PICK k : /\ k \notin R /\ MemberRows(ns) = R \cup {k}
               /\ ns[k] = NewMember(n) /\ \A i \in R : ns[i] = ms[i]
  BY AppendedRows
<1>2. IsFiniteSet(R) /\ R \subseteq DOMAIN ms
  BY RowsFinite
<1> HIDE DEF ns
<1>3. ASSUME NEW i \in R
      PROVE  BalancesOf(ns)[i] = BalancesOf(ms)[i] /\ BalancesOf(ms)[i] \in Int
  <2>1. BalancesOf(ns)[i] = ns[i].balance /\ BalancesOf(ms)[i] = ms[i].balance
    BY <1>1 DEF BalancesOf
  <2>2. ms[i].balance \in Int
    BY <1>2 DEF IntegerBalances
  <2> QED
    BY <1>1, <2>1, <2>2
<1>4. BalancesOf(ns)[k] = 0
  BY <1>1 DEF BalancesOf, NewMember
<1> HIDE DEF R
<1>5. Total(BalancesOf(ns), R \cup {k}) = BalancesOf(ns)[k] + Total(BalancesOf(ns), R)
  <2>1. \A i \in R \cup {k} : BalancesOf(ns)[i] \in Int
    BY <1>3, <1>4
  <2> QED
    BY <1>1, <1>2, <2>1, TotalAdd
<1>6. Total(BalancesOf(ns), R) = Total(BalancesOf(ms), R)
  BY <1>2, <1>3, TotalEqual
<1>7. Total(BalancesOf(ms), R) \in Int
  BY <1>2, <1>3, TotalType
<1>8. Total(BalancesOf(ns), R \cup {k}) = Total(BalancesOf(ms), R)
  BY <1>4, <1>5, <1>6, <1>7
<1> QED
  BY <1>1, <1>8 DEF BalanceSum, ns, R

\* Nobody is lost from ms to ns, and no number comes to have one row only.
Grows(ms, ns) == Mobiles(ms) \subseteq Mobiles(ns) /\ (OneRowEach(ns) => OneRowEach(ms))

LEMMA AppendGrows ==
  ASSUME NEW ms, MemberShape(ms), NEW n
  PROVE  Grows(ms, Append(ms, NewMember(n)))
<1> DEFINE ns == Append(ms, NewMember(n))
<1>1. PICK k : /\ MemberRows(ns) = MemberRows(ms) \cup {k}
               /\ \A i \in MemberRows(ms) : ns[i] = ms[i]
  BY AppendedRows
<1> HIDE DEF ns
<1>2. Mobiles(ms) \subseteq Mobiles(ns)
  BY <1>1 DEF Mobiles
<1>3. OneRowEach(ns) => OneRowEach(ms)
  BY <1>1 DEF OneRowEach
<1> QED
  BY <1>2, <1>3 DEF Grows, ns

LEMMA DeltasGrow ==
  ASSUME NEW ms, MemberShape(ms), NEW row, NEW split, NEW sign
  PROVE  LET ns == PersistDeltas(ms, row, split, sign)
         IN Mobiles(ns) = Mobiles(ms) /\ (OneRowEach(ns) <=> OneRowEach(ms))
<1> DEFINE ns == PersistDeltas(ms, row, split, sign)
<1>1. MemberRows(ns) = MemberRows(ms)
  BY DEF PersistDeltas, MemberRows, MemberShape
<1>2. \A i \in MemberRows(ms) : ns[i].mobile = ms[i].mobile
  BY DEF PersistDeltas, MemberRows, MemberShape
<1> HIDE DEF ns
<1> QED
  BY <1>1, <1>2 DEF Mobiles, OneRowEach, ns

LEMMA NamesGrow ==
  ASSUME NEW ms, NEW ns, Grows(ms, ns), NEW row, NEW split, Names(ms, row, split)
  PROVE  Names(ns, row, split)
BY DEF Grows, Names

LEMMA ResolvedIsStored ==
  ASSUME NEW ms, MemberShape(ms), NEW n, IsGroupMember(ms, n)
  PROVE  ResolveMemberMobile(ms, n) \in Mobiles(ms)
<1>1. RowsFor(ms, n) \in SUBSET Nat /\ RowsFor(ms, n) # {}
  BY DEF RowsFor, MemberRows, MemberShape, IsGroupMember
<1>2. \E i \in RowsFor(ms, n) : \A k \in RowsFor(ms, n) : i <= k
  BY <1>1, NatMinimum
<1>3. PICK i \in RowsFor(ms, n) : ResolveMemberMobile(ms, n) = ms[i].mobile
  BY <1>2 DEF ResolveMemberMobile
<1> QED
  BY <1>3 DEF Mobiles, RowsFor

-----------------------------------------------------------------------------
(* The invariant behind the sums. A row or a decision over a group that is *)
(* not deleted names members only: an update reverts and applies deltas of *)
(* people who all have a row to write them to.                             *)

OneSpelling == \A n, k \in Number : SameMobile(n, k) => n = k

\* The live rows that can be replayed name members, of groups still there.
RowsNameMembers ==
  \A id \in ExpenseIds :
    LET row == expenses[id] IN
    row.live /\ Replayable(row) /\ ~dropped[row.group] =>
      Names(members[row.group], row, row.split)

NamesHere(p, ms) ==
  /\ p.op \in {"add", "settle"} => Names(ms, p.new, p.new.split)
  /\ p.op = "update" => /\ Names(ms, p.old, p.split) /\ Names(ms, p.new, p.split)
                        /\ Names(ms, p.new, p.new.split)
  /\ p.op = "delete" => Names(ms, p.old, p.split)
GroupOf(p) == IF p.op \in {"add", "settle"} THEN p.new.group ELSE p.group
PlansNameMembers ==
  \A h \in Handlers : plan[h] # Idle /\ ~dropped[GroupOf(plan[h])] =>
    NamesHere(plan[h], members[GroupOf(plan[h])])

SumsAreZero ==
  \A g \in Groups : ~dropped[g] /\ OneRowEach(members[g]) => BalanceSum(members[g]) = 0

OpsOnly == \A h \in Handlers : plan[h] = Idle \/ plan[h].op \in Ops

SumInv == RowsNameMembers /\ PlansNameMembers /\ OpsOnly /\ SumsAreZero

\* The amounts decided on divide evenly over the people they are split over,
\* if the group is there and two joins at once have left no number with two
\* rows.
WholePlan(p) ==
  /\ p.op \in {"add", "settle"} => Whole(p.new, p.new.split)
  /\ p.op = "update" => Whole(p.old, p.split) /\ Whole(p.new, p.split)
  /\ p.op = "delete" => Whole(p.old, p.split)
SharesAreWhole ==
  \A h \in Handlers :
    LET g == GroupOf(plan[h]) IN
    plan[h] # Idle /\ ~dropped[g] /\ OneRowEach(members[g]) => WholePlan(plan[h])

LEMMA DecideSums ==
  ASSUME IInv, SumInv, NEW h \in Handlers, NEW op, NEW d, Decide(h, op, d), d.op = op,
         ~dropped[GroupOf(d)] => NamesHere(d, members[GroupOf(d)])
  PROVE  SumInv'
<1>1. /\ plan' = [plan EXCEPT ![h] = d] /\ op \in Ops
      /\ members' = members /\ dropped' = dropped /\ expenses' = expenses
  BY DEF Decide
<1>2. \A k \in Handlers : plan'[k] = IF k = h THEN d ELSE plan[k]
  BY <1>1 DEF IInv, RowsTyped
<1>3. OpsOnly'
  BY <1>1, <1>2 DEF SumInv, OpsOnly
<1>4. PlansNameMembers'
  BY <1>1, <1>2 DEF SumInv, PlansNameMembers
<1>5. RowsNameMembers' /\ SumsAreZero'
  BY <1>1 DEF SumInv, RowsNameMembers, SumsAreZero
<1> QED
  BY <1>3, <1>4, <1>5 DEF SumInv

LEMMA AddNames ==
  ASSUME IInv, SumInv, NEW h \in Handlers, NEW g \in Groups, NEW u \in Callers,
         NEW payer \in Numbers, NEW splitWith \in SplitRequests, NEW amount \in Amounts,
         AddGroupExpense(h, g, u, payer, splitWith, amount)
  PROVE  SumInv'
<1> DEFINE ms == members[g]
           split == IF splitWith = <<>> THEN EveryMember(ms)
                    ELSE [i \in DOMAIN splitWith |-> ResolveMemberMobile(ms, splitWith[i])]
           new == [group |-> g, kind |-> "expense", payer |-> ResolveMemberMobile(ms, payer),
                   receiver |-> NoNumber, split |-> split, amount |-> amount,
                   createdBy |-> u, live |-> TRUE]
           d == [op |-> "add", new |-> new]
<1>1. /\ IsGroupMember(ms, payer)
      /\ \A i \in DOMAIN splitWith : IsGroupMember(ms, splitWith[i])
      /\ Decide(h, "add", d)
  BY DEF AddGroupExpense
<1>2. MemberShape(ms)
  BY DEF IInv, RowsTyped
<1>3. \A j \in DOMAIN split : split[j] \in Mobiles(ms)
  <2>1. \A j \in DOMAIN EveryMember(ms) : EveryMember(ms)[j] \in Mobiles(ms)
    BY DEF EveryMember, Mobiles
  <2>2. \A j \in DOMAIN splitWith : ResolveMemberMobile(ms, splitWith[j]) \in Mobiles(ms)
    BY <1>1, <1>2, ResolvedIsStored
  <2> HIDE DEF ms
  <2> QED
    BY <2>1, <2>2
<1>4. ResolveMemberMobile(ms, payer) \in Mobiles(ms)
  BY <1>1, <1>2, ResolvedIsStored
<1> HIDE DEF ms, split
<1>5. Names(ms, new, new.split)
  BY <1>3, <1>4 DEF Names
<1>6. new.group = g
  OBVIOUS
<1> HIDE DEF new
<1>7. NamesHere(d, ms) /\ GroupOf(d) = g /\ d.op = "add"
  BY <1>5, <1>6 DEF NamesHere, GroupOf
<1> HIDE DEF d
<1> QED
  BY <1>1, <1>7, DecideSums DEF ms

LEMMA SettleNames ==
  ASSUME IInv, SumInv, NEW h \in Handlers, NEW g \in Groups, NEW u \in Callers,
         NEW payer \in Numbers, NEW receiver \in Numbers, NEW amount \in Amounts,
         SettleGroup(h, g, u, payer, receiver, amount)
  PROVE  SumInv'
<1> DEFINE ms == members[g]
           new == [group |-> g, kind |-> "settlement", payer |-> ResolveMemberMobile(ms, payer),
                   receiver |-> ResolveMemberMobile(ms, receiver), split |-> <<>>,
                   amount |-> amount, createdBy |-> u, live |-> TRUE]
           d == [op |-> "settle", new |-> new]
<1>1. /\ IsGroupMember(ms, payer) /\ IsGroupMember(ms, receiver)
      /\ Decide(h, "settle", d)
  BY DEF SettleGroup
<1>2. MemberShape(ms)
  BY DEF IInv, RowsTyped
<1>3. /\ ResolveMemberMobile(ms, payer) \in Mobiles(ms)
      /\ ResolveMemberMobile(ms, receiver) \in Mobiles(ms)
  BY <1>1, <1>2, ResolvedIsStored
<1> HIDE DEF ms
<1>4. Names(ms, new, new.split)
  BY <1>3 DEF Names
<1>5. new.group = g
  OBVIOUS
<1> HIDE DEF new
<1>6. NamesHere(d, ms) /\ GroupOf(d) = g /\ d.op = "settle"
  BY <1>4, <1>5 DEF NamesHere, GroupOf
<1> HIDE DEF d
<1> QED
  BY <1>1, <1>6, DecideSums DEF ms

\* What an edit or a deletion is split over, when its row names members.
LEMMA SplitNames ==
  ASSUME NEW ms, NEW row, Names(ms, row, row.split)
  PROVE  Names(ms, row, SplitMembersFor(ms, row))
<1>1. \A j \in DOMAIN EveryMember(ms) : EveryMember(ms)[j] \in Mobiles(ms)
  BY DEF EveryMember, Mobiles
<1> QED
  BY <1>1 DEF Names, SplitMembersFor

LEMMA UpdateNames ==
  ASSUME IInv, SumInv, ~StrayEdits, OneSpelling, NEW h \in Handlers, NEW g \in Groups,
         NEW id \in ExpenseIds, NEW u \in Callers, NEW payer \in Numbers \cup {NoNumber},
         NEW amount \in Amounts, UpdateGroupExpense(h, g, id, u, payer, amount)
  PROVE  SumInv'
<1> DEFINE row == expenses[id]
           ms == members[g]
           newPayer == IF payer = NoNumber THEN row.payer ELSE payer
           new == [row EXCEPT !.payer = newPayer, !.amount = amount]
           split == SplitMembersFor(ms, row)
           d == [op |-> "update", group |-> g, id |-> id, old |-> row, new |-> new,
                 split |-> split]
<1>1. /\ row.live /\ row.group = g /\ row.kind = "expense"
      /\ IsGroupMember(ms, newPayer)
      /\ Decide(h, "update", d)
  BY DEF UpdateGroupExpense
<1>2. IsExpense(row) /\ MemberShape(ms)
  BY <1>1 DEF IInv, RowsTyped, NoRow
<1>3. newPayer \in Mobiles(ms)
  <2>1. newPayer \in Number
    BY <1>2, RequestAssumption DEF IsExpense
  <2>2. PICK i \in MemberRows(ms) : SameMobile(ms[i].mobile, newPayer)
    BY <1>1 DEF IsGroupMember, RowsFor
  <2>3. ms[i].mobile \in Number
    BY <1>2 DEF MemberRows, MemberShape
  <2>4. ms[i].mobile = newPayer
    BY <2>1, <2>2, <2>3 DEF OneSpelling
  <2> QED
    BY <2>4 DEF Mobiles
<1>4. ASSUME ~dropped[g]
      PROVE  NamesHere(d, ms)
  <2>1. Names(ms, row, row.split)
    BY <1>1, <1>4 DEF SumInv, RowsNameMembers, Replayable
  <2>2. Names(ms, row, split)
    BY <2>1, SplitNames
  <2> HIDE DEF row, newPayer, ms, split
  <2>3. new.payer = newPayer /\ new.kind = row.kind /\ new.split = row.split
    BY <1>2 DEF IsExpense
  <2>4. Names(ms, new, split) /\ Names(ms, new, row.split)
    <3> HIDE DEF new
    <3> QED
      BY <1>1, <1>3, <2>1, <2>2, <2>3 DEF Names
  <2> HIDE DEF new
  <2> QED
    BY <2>2, <2>3, <2>4 DEF NamesHere
<1>5. GroupOf(d) = g /\ d.op = "update"
  BY DEF GroupOf
<1> HIDE DEF d
<1> QED
  BY <1>1, <1>4, <1>5, DecideSums

LEMMA DeleteNames ==
  ASSUME IInv, SumInv, NEW h \in Handlers, NEW g \in Groups, NEW id \in ExpenseIds,
         NEW u \in Callers, DeleteGroupExpense(h, g, id, u)
  PROVE  SumInv'
<1> DEFINE row == expenses[id]
           ms == members[g]
           split == SplitMembersFor(ms, row)
           d == [op |-> "delete", group |-> g, id |-> id, old |-> row, split |-> split]
<1>1. row.live /\ row.group = g /\ Replayable(row) /\ Decide(h, "delete", d)
  BY DEF DeleteGroupExpense
<1>2. ASSUME ~dropped[g]
      PROVE  NamesHere(d, ms)
  <2>1. Names(ms, row, row.split)
    BY <1>1, <1>2 DEF SumInv, RowsNameMembers
  <2>2. Names(ms, row, split)
    BY <2>1, SplitNames
  <2> HIDE DEF row, ms, split
  <2> QED
    BY <2>2 DEF NamesHere
<1>3. GroupOf(d) = g /\ d.op = "delete"
  BY DEF GroupOf
<1> HIDE DEF d
<1> QED
  BY <1>1, <1>2, <1>3, DecideSums

LEMMA OtherNames ==
  ASSUME IInv, SumInv, NEW h \in Handlers, NEW g \in Groups,
         \/ \E u \in Callers, n \in Joiners : AddMember(h, g, u, n)
         \/ \E u \in Callers, n \in Leavers : RemoveMember(h, g, u, n)
         \/ \E u \in Callers : DeleteGroup(h, g, u)
         \/ RecomputeGroupBalances(h, g)
  PROVE  SumInv'
<1>1. ASSUME NEW op, NEW d, Decide(h, op, d), d.op = op,
             op \in {"join", "leave", "drop", "recompute"}
      PROVE  SumInv'
  BY <1>1, DecideSums DEF NamesHere
<1>2. CASE \E u \in Callers, n \in Joiners : AddMember(h, g, u, n)
  <2>1. \E n : Decide(h, "join", [op |-> "join", group |-> g, mobile |-> n])
    BY <1>2 DEF AddMember
  <2> QED
    BY <2>1, <1>1
<1>3. CASE \E u \in Callers, n \in Leavers : RemoveMember(h, g, u, n)
  <2>1. \E n : Decide(h, "leave", [op |-> "leave", group |-> g, mobile |-> n])
    BY <1>3 DEF RemoveMember
  <2> QED
    BY <2>1, <1>1
<1>4. CASE \E u \in Callers : DeleteGroup(h, g, u)
  <2>1. Decide(h, "drop", [op |-> "drop", group |-> g])
    BY <1>4 DEF DeleteGroup
  <2> QED
    BY <2>1, <1>1
<1>5. CASE RecomputeGroupBalances(h, g)
  <2>1. \E w : Decide(h, "recompute", [op |-> "recompute", group |-> g, want |-> w])
    BY <1>5 DEF RecomputeGroupBalances
  <2> QED
    BY <2>1, <1>1
<1> QED
  BY <1>2, <1>3, <1>4, <1>5

-----------------------------------------------------------------------------
(* Transactions and the sums                                               *)

\* What a transaction does to a group that is there afterwards: it grows, and
\* the sum of its balances stays.
Steady(g) ==
  ~dropped'[g] =>
    /\ ~dropped[g]
    /\ Grows(members[g], members'[g])
    /\ OneRowEach(members'[g]) => BalanceSum(members'[g]) = BalanceSum(members[g])

LEMMA SteadyWhenSame ==
  ASSUME NEW g, members'[g] = members[g], dropped'[g] = dropped[g]
  PROVE  Steady(g)
BY DEF Steady, Grows

\* Every row that is live afterwards is one that was, or names members.
RowsFollow ==
  \A id \in ExpenseIds :
    LET row == expenses'[id] IN
    row.live /\ Replayable(row) /\ ~dropped'[row.group] =>
      \/ row = expenses[id]
      \/ Names(members[row.group], row, row.split)

LEMMA FinishSums ==
  ASSUME IInv, IInv', SumInv, NEW h \in Handlers, Finish(h),
         \A g \in Groups : Steady(g), RowsFollow
  PROVE  SumInv'
<1>1. plan' = [plan EXCEPT ![h] = Idle]
  BY DEF Finish
<1>2. \A k \in Handlers : plan'[k] = IF k = h THEN Idle ELSE plan[k]
  BY <1>1 DEF IInv, RowsTyped
<1>3. OpsOnly'
  BY <1>2 DEF SumInv, OpsOnly, Idle
<1>4. SumsAreZero'
  <2> SUFFICES ASSUME NEW g \in Groups, ~dropped'[g], OneRowEach(members'[g])
               PROVE  BalanceSum(members'[g]) = 0
    BY DEF SumsAreZero
  <2>1. ~dropped[g] /\ OneRowEach(members[g]) /\ BalanceSum(members'[g]) = BalanceSum(members[g])
    BY DEF Steady, Grows
  <2> QED
    BY <2>1 DEF SumInv, SumsAreZero
<1>5. RowsNameMembers'
  <2> SUFFICES ASSUME NEW id \in ExpenseIds,
                      expenses'[id].live, Replayable(expenses'[id]),
                      ~dropped'[expenses'[id].group]
               PROVE  Names(members'[expenses'[id].group], expenses'[id], expenses'[id].split)
    BY DEF RowsNameMembers
  <2> DEFINE row == expenses'[id]
             g == row.group
  <2>1. g \in Groups
    <3>1. row = NoRow \/ IsExpense(row)
      BY DEF IInv, RowsTyped
    <3> QED
      BY <3>1, ExpenseFacts DEF NoRow
  <2>2. ~dropped[g] /\ Grows(members[g], members'[g])
    BY <2>1 DEF Steady
  <2>3. Names(members[g], row, row.split)
    BY <2>2 DEF RowsFollow, SumInv, RowsNameMembers
  <2> HIDE DEF row
  <2> QED
    BY <2>2, <2>3, NamesGrow DEF row
<1>6. PlansNameMembers'
  <2> SUFFICES ASSUME NEW k \in Handlers, plan'[k] # Idle, ~dropped'[GroupOf(plan'[k])]
               PROVE  NamesHere(plan'[k], members'[GroupOf(plan'[k])])
    BY DEF PlansNameMembers
  <2> DEFINE p == plan[k]
             g == GroupOf(p)
  <2>1. plan'[k] = p /\ p # Idle
    BY <1>2
  <2>2. PlanShape(p)
    BY DEF IInv, RowsTyped
  <2> HIDE DEF p
  <2>3. g \in Groups
    BY <2>1, <2>2, ExpenseFacts DEF PlanShape, IsPlan, GroupOf
  <2>4. ~dropped[g] /\ Grows(members[g], members'[g])
    BY <2>1, <2>3 DEF Steady
  <2>5. NamesHere(p, members[g])
    BY <2>1, <2>4 DEF SumInv, PlansNameMembers, p
  <2> HIDE DEF g
  <2>6. NamesHere(p, members'[g])
    BY <2>4, <2>5, NamesGrow DEF NamesHere
  <2> QED
    BY <2>1, <2>6 DEF g
<1> QED
  BY <1>3, <1>4, <1>5, <1>6 DEF SumInv

\* Deltas over members of a group that is there keep its sum.
LEMMA DeltasSteady ==
  ASSUME NEW ms, MemberShape(ms), IntegerBalances(ms), NEW row, IsExpense(row),
         NEW split, IsSplit(split), Names(ms, row, split),
         OneRowEach(ms) => Whole(row, split),
         NEW sign \in {1, -1}, NEW ns, ns = PersistDeltas(ms, row, split, sign)
  PROVE  /\ MemberShape(ns) /\ IntegerBalances(ns)
         /\ Mobiles(ns) = Mobiles(ms) /\ (OneRowEach(ns) <=> OneRowEach(ms))
         /\ OneRowEach(ns) => BalanceSum(ns) = BalanceSum(ms)
<1>1. Mobiles(ns) = Mobiles(ms) /\ (OneRowEach(ns) <=> OneRowEach(ms))
  BY DeltasGrow
<1>2. OneRowEach(ns) => BalanceSum(ns) = BalanceSum(ms)
  BY <1>1, DeltasKeepSum
<1>3. MemberShape(ns) /\ IntegerBalances(ns)
  BY ShapeOfDeltas, IntegerDeltas
<1> QED
  BY <1>1, <1>2, <1>3

LEMMA CreateSums ==
  ASSUME IInv, IInv', Integral, SumInv, SharesAreWhole, NEW h \in Handlers, CreateExpenseTx(h)
  PROVE  SumInv'
<1> DEFINE p == plan[h]
           row == p.new
           g == row.group
           ms == members[g]
           ns == PersistDeltas(ms, row, row.split, 1)
<1>1. /\ p.op \in {"add", "settle"} /\ Finish(h) /\ dropped' = dropped
      /\ members' = [members EXCEPT ![g] = ns]
      /\ \E id \in ExpenseIds : expenses' = [expenses EXCEPT ![id] = row]
  BY DEF CreateExpenseTx
<1>2. IsExpense(row) /\ g \in Groups /\ IsSplit(row.split) /\ p # Idle /\ GroupOf(p) = g
  BY <1>1, PlanFacts, ExpenseFacts DEF IInv, RowsTyped, Idle, GroupOf
<1>3. MemberShape(ms) /\ IntegerBalances(ms) /\ members'[g] = ns
  BY <1>1, <1>2 DEF IInv, RowsTyped, Integral
<1>4. ~dropped[g] => Names(ms, row, row.split)
  BY <1>1, <1>2 DEF SumInv, PlansNameMembers, NamesHere
<1>5. ~dropped[g] /\ OneRowEach(ms) => Whole(row, row.split)
  BY <1>1, <1>2 DEF SharesAreWhole, WholePlan
<1> HIDE DEF p, row
<1>6. ASSUME NEW k \in Groups
      PROVE  Steady(k)
  <2>1. CASE k = g
    <3> HIDE DEF ns, ms
    <3>1. ~dropped[g] => /\ Mobiles(ns) = Mobiles(ms) /\ (OneRowEach(ns) <=> OneRowEach(ms))
                         /\ OneRowEach(ns) => BalanceSum(ns) = BalanceSum(ms)
      BY <1>2, <1>3, <1>4, <1>5, DeltasSteady DEF ns
    <3> QED
      BY <1>1, <1>3, <2>1, <3>1 DEF Steady, Grows, ms
  <2>2. CASE k # g
    BY <1>1, <1>2, <2>2, SteadyWhenSame DEF IInv, RowsTyped
  <2> QED
    BY <2>1, <2>2
<1>7. RowsFollow
  BY <1>1, <1>4 DEF RowsFollow, IInv, RowsTyped
<1> QED
  BY <1>1, <1>6, <1>7, FinishSums

LEMMA UpdateSums ==
  ASSUME IInv, IInv', Integral, SumInv, SharesAreWhole, NEW h \in Handlers,
         UpdateGroupExpenseTx(h)
  PROVE  SumInv'
<1> DEFINE p == plan[h]
           g == p.group
           ms == members[g]
           rs == PersistDeltas(ms, p.old, p.split, -1)
           ns == PersistDeltas(rs, p.new, p.split, 1)
<1>1. /\ p.op = "update" /\ Finish(h) /\ dropped' = dropped
      /\ members' = [members EXCEPT ![g] = ns]
      /\ expenses' = [expenses EXCEPT ![p.id] = p.new]
  BY DEF UpdateGroupExpenseTx
<1>2. /\ IsExpense(p.old) /\ IsExpense(p.new) /\ IsSplit(p.split) /\ g \in Groups
      /\ p # Idle /\ GroupOf(p) = g
  BY <1>1, PlanFacts DEF IInv, RowsTyped, Idle, GroupOf
<1>3. MemberShape(ms) /\ IntegerBalances(ms) /\ members'[g] = ns
  BY <1>1, <1>2 DEF IInv, RowsTyped, Integral
<1>4. ~dropped[g] => /\ Names(ms, p.old, p.split) /\ Names(ms, p.new, p.split)
                     /\ Names(ms, p.new, p.new.split)
  BY <1>1, <1>2 DEF SumInv, PlansNameMembers, NamesHere
<1>5. ~dropped[g] /\ OneRowEach(ms) => Whole(p.old, p.split) /\ Whole(p.new, p.split)
  BY <1>1, <1>2 DEF SharesAreWhole, WholePlan
<1>6. p.new.group = g
  BY <1>1 DEF IInv, PlansFit, Fits
<1> HIDE DEF p
<1>7. ASSUME NEW k \in Groups
      PROVE  Steady(k)
  <2>1. CASE k = g /\ ~dropped[g]
    <3> HIDE DEF ns, rs, ms
    <3>1. /\ MemberShape(rs) /\ IntegerBalances(rs)
          /\ Mobiles(rs) = Mobiles(ms) /\ (OneRowEach(rs) <=> OneRowEach(ms))
          /\ OneRowEach(rs) => BalanceSum(rs) = BalanceSum(ms)
      BY <1>2, <1>3, <1>4, <1>5, <2>1, DeltasSteady DEF rs
    <3>2. Names(rs, p.new, p.split)
      BY <1>4, <2>1, <3>1 DEF Names
    <3>3. OneRowEach(rs) => Whole(p.new, p.split)
      BY <1>5, <2>1, <3>1
    <3>4. /\ Mobiles(ns) = Mobiles(rs) /\ (OneRowEach(ns) <=> OneRowEach(rs))
          /\ OneRowEach(ns) => BalanceSum(ns) = BalanceSum(rs)
      BY <1>2, <3>1, <3>2, <3>3, DeltasSteady DEF ns
    <3> QED
      BY <1>1, <1>3, <2>1, <3>1, <3>4 DEF Steady, Grows, ms
  <2>2. CASE dropped[k]
    BY <1>1, <2>2 DEF Steady
  <2>3. CASE k # g
    BY <1>1, <1>2, <2>3, SteadyWhenSame DEF IInv, RowsTyped
  <2> QED
    BY <2>1, <2>2, <2>3
<1>8. RowsFollow
  <2> HIDE DEF ns
  <2> QED
    BY <1>1, <1>4, <1>6 DEF RowsFollow, IInv, RowsTyped
<1> QED
  BY <1>1, <1>7, <1>8, FinishSums

LEMMA DeleteSums ==
  ASSUME IInv, IInv', Integral, SumInv, SharesAreWhole, NEW h \in Handlers,
         DeleteGroupExpenseTx(h)
  PROVE  SumInv'
<1> DEFINE p == plan[h]
           g == p.group
           ms == members[g]
           ns == PersistDeltas(ms, p.old, p.split, -1)
<1>1. /\ p.op = "delete" /\ Finish(h) /\ dropped' = dropped
      /\ members' = [members EXCEPT ![g] = ns]
      /\ expenses' = [expenses EXCEPT ![p.id].live = FALSE]
  BY DEF DeleteGroupExpenseTx
<1>2. /\ IsExpense(p.old) /\ IsSplit(p.split) /\ g \in Groups /\ p.id \in ExpenseIds
      /\ p # Idle /\ GroupOf(p) = g
  <2>1. PlanShape(p)
    BY DEF IInv, RowsTyped
  <2> HIDE DEF p
  <2> QED
    BY <1>1, <2>1 DEF PlanShape, IsPlan, Idle, GroupOf
<1>3. MemberShape(ms) /\ IntegerBalances(ms) /\ members'[g] = ns
  BY <1>1, <1>2 DEF IInv, RowsTyped, Integral
<1>4. ~dropped[g] => Names(ms, p.old, p.split)
  BY <1>1, <1>2 DEF SumInv, PlansNameMembers, NamesHere
<1>5. ~dropped[g] /\ OneRowEach(ms) => Whole(p.old, p.split)
  BY <1>1, <1>2 DEF SharesAreWhole, WholePlan
<1> HIDE DEF p
<1>6. ASSUME NEW k \in Groups
      PROVE  Steady(k)
  <2>1. CASE k = g
    <3> HIDE DEF ns, ms
    <3>1. ~dropped[g] => /\ Mobiles(ns) = Mobiles(ms) /\ (OneRowEach(ns) <=> OneRowEach(ms))
                         /\ OneRowEach(ns) => BalanceSum(ns) = BalanceSum(ms)
      BY <1>2, <1>3, <1>4, <1>5, DeltasSteady DEF ns
    <3> QED
      BY <1>1, <1>3, <2>1, <3>1 DEF Steady, Grows, ms
  <2>2. CASE k # g
    BY <1>1, <1>2, <2>2, SteadyWhenSame DEF IInv, RowsTyped
  <2> QED
    BY <2>1, <2>2
<1>7. \A id \in ExpenseIds : expenses'[id].live => expenses'[id] = expenses[id]
  <2>1. \A id \in ExpenseIds : id # p.id => expenses'[id] = expenses[id]
    BY <1>1 DEF IInv, RowsTyped
  <2>2. expenses'[p.id] = [expenses[p.id] EXCEPT !.live = FALSE]
    BY <1>1, <1>2 DEF IInv, RowsTyped
  <2>3. expenses[p.id] = NoRow \/ IsExpense(expenses[p.id])
    BY <1>2 DEF IInv, RowsTyped
  <2>4. ~expenses'[p.id].live
    BY <2>2, <2>3 DEF NoRow, IsExpense
  <2> QED
    BY <2>1, <2>4
<1>8. RowsFollow
  BY <1>7 DEF RowsFollow
<1> QED
  BY <1>1, <1>6, <1>8, FinishSums

LEMMA JoinSums ==
  ASSUME IInv, IInv', Integral, SumInv, NEW h \in Handlers, AddMemberTx(h)
  PROVE  SumInv'
<1> DEFINE p == plan[h]
           g == p.group
           ms == members[g]
           ns == Append(ms, NewMember(p.mobile))
<1>1. /\ p.op = "join" /\ Finish(h) /\ dropped' = dropped /\ expenses' = expenses
      /\ members' = [members EXCEPT ![g] = ns]
  BY DEF AddMemberTx
<1>2. g \in Groups
  BY <1>1, PlanFacts DEF IInv, RowsTyped
<1>3. MemberShape(ms) /\ IntegerBalances(ms) /\ members'[g] = ns
  BY <1>1, <1>2 DEF IInv, RowsTyped, Integral
<1> HIDE DEF p
<1>4. Grows(ms, ns) /\ BalanceSum(ns) = BalanceSum(ms)
  BY <1>3, AppendGrows, AppendKeepsSum
<1>5. ASSUME NEW k \in Groups
      PROVE  Steady(k)
  <2>1. CASE k = g
    <3> HIDE DEF ns
    <3> QED
      BY <1>1, <1>3, <1>4, <2>1 DEF Steady
  <2>2. CASE k # g
    BY <1>1, <1>2, <2>2, SteadyWhenSame DEF IInv, RowsTyped
  <2> QED
    BY <2>1, <2>2
<1>6. RowsFollow
  BY <1>1 DEF RowsFollow
<1> QED
  BY <1>1, <1>5, <1>6, FinishSums

LEMMA DropSums ==
  ASSUME IInv, IInv', Integral, SumInv, NEW h \in Handlers, DeleteGroupTx(h)
  PROVE  SumInv'
<1> DEFINE g == plan[h].group
<1>1. /\ plan[h].op = "drop" /\ Finish(h)
      /\ dropped' = [dropped EXCEPT ![g] = TRUE]
      /\ members' = [members EXCEPT ![g] = RemoveAllRows(members[g])]
      /\ expenses' = [id \in ExpenseIds |-> IF id \in LiveRows(expenses, g)
                        THEN [expenses[id] EXCEPT !.live = FALSE] ELSE expenses[id]]
  BY DEF DeleteGroupTx
<1>2. g \in Groups
  BY <1>1, PlanFacts DEF IInv, RowsTyped
<1> HIDE DEF g
<1>3. ASSUME NEW k \in Groups
      PROVE  Steady(k)
  <2>1. CASE k = g
    BY <1>1, <1>2, <2>1 DEF Steady, IInv, RowsTyped
  <2>2. CASE k # g
    BY <1>1, <1>2, <2>2, SteadyWhenSame DEF IInv, RowsTyped
  <2> QED
    BY <2>1, <2>2
<1>4. ASSUME NEW id \in ExpenseIds, expenses'[id].live
      PROVE  expenses'[id] = expenses[id]
  <2>1. CASE id \in LiveRows(expenses, g)
    <3>1. IsExpense(expenses[id])
      BY <2>1 DEF LiveRows, NoRow, IInv, RowsTyped
    <3>2. ~[expenses[id] EXCEPT !.live = FALSE].live
      BY <3>1 DEF IsExpense
    <3> QED
      BY <1>1, <1>4, <2>1, <3>2
  <2>2. CASE id \notin LiveRows(expenses, g)
    BY <1>1, <2>2
  <2> QED
    BY <2>1, <2>2
<1>5. RowsFollow
  BY <1>4 DEF RowsFollow
<1> QED
  BY <1>1, <1>3, <1>5, FinishSums

LEMMA RollbackSums ==
  ASSUME IInv, IInv', SumInv, NEW h \in Handlers, Rollback(h)
  PROVE  SumInv'
<1>1. Finish(h) /\ members' = members /\ dropped' = dropped /\ expenses' = expenses
  BY DEF Rollback
<1>2. \A g \in Groups : Steady(g)
  BY <1>1, SteadyWhenSame
<1>3. RowsFollow
  BY <1>1 DEF RowsFollow
<1> QED
  BY <1>1, <1>2, <1>3, FinishSums

LEMMA SumStep ==
  ASSUME IInv, Integral, SumInv, SharesAreWhole, ~StrayEdits, OneSpelling,
         Ops \cap {"leave", "recompute"} = {}, [Next]_vars
  PROVE  SumInv'
<1>1. CASE UNCHANGED vars
  BY <1>1 DEF vars, SumInv, RowsNameMembers, PlansNameMembers, OpsOnly, SumsAreZero
<1>2. ASSUME NEW h \in Handlers, Request(h)
      PROVE  SumInv'
  BY <1>2, AddNames, SettleNames, UpdateNames, DeleteNames, OtherNames DEF Request
<1>3. ASSUME NEW h \in Handlers, Transaction(h)
      PROVE  SumInv'
  <2>1. IInv'
    BY IInvStep
  <2>2. plan[h].op # "leave" /\ plan[h].op # "recompute"
    BY DEF SumInv, OpsOnly, Idle
  <2> QED
    BY <1>3, <2>1, <2>2, CreateSums, UpdateSums, DeleteSums, JoinSums, DropSums, RollbackSums
       DEF Transaction, RemoveMemberTx, RecomputeTx
<1> QED
  BY <1>1, <1>2, <1>3 DEF Next

LEMMA SumIsTotal ==
  ASSUME NEW ms, IsFiniteSet(MemberRows(ms))
  PROVE  MapThenSumSet(LAMBDA i : ms[i].balance, MemberRows(ms)) = BalanceSum(ms)
<1> DEFINE S == MemberRows(ms)
           f == BalancesOf(ms)
           iter == CHOOSE r : r = [s \in SUBSET S |->
                     IF s = {} THEN 0 ELSE ms[Some(s)].balance + r[s \ {Some(s)}]]
<1>1. PICK r : IsSum(r, f, S)
  <2> HIDE DEF S, f
  <2> QED
    BY SumExists DEF S
<1>2. \A s \in SUBSET S : s # {} => f[Some(s)] = ms[Some(s)].balance
  BY SomeMember DEF BalancesOf
<1>3. MapThenSumSet(LAMBDA i : ms[i].balance, S) = iter[S]
  BY DEF MapThenSumSet, MapThenFoldSet, Some
<1>4. IsFiniteSet(S)
  OBVIOUS
<1> HIDE DEF S, f
<1>5. r = [s \in SUBSET S |->
             IF s = {} THEN 0 ELSE ms[Some(s)].balance + r[s \ {Some(s)}]]
  BY <1>1, <1>2 DEF IsSum
<1>6. iter = [s \in SUBSET S |->
                IF s = {} THEN 0 ELSE ms[Some(s)].balance + iter[s \ {Some(s)}]]
  BY <1>5
<1> HIDE DEF iter
<1>7. IsSum(iter, f, S)
  BY <1>2, <1>6 DEF IsSum
<1>8. S \in SUBSET S
  OBVIOUS
<1>9. iter[S] = Total(f, S)
  BY <1>4, <1>7, <1>8, TotalIsSum
<1> QED
  BY <1>3, <1>9 DEF S, f, BalanceSum

LEMMA SumsAreBalances ==
  ASSUME RowsTyped
  PROVE  BalancesSumToZero <=> SumsAreZero
<1>1. \A g \in Groups :
        MapThenSumSet(LAMBDA i : members[g][i].balance, MemberRows(members[g]))
          = BalanceSum(members[g])
  BY RowsFinite, SumIsTotal DEF RowsTyped
<1> QED
  BY <1>1 DEF BalancesSumToZero, SumsAreZero

\* The members of a group owe each other and never the group, whatever number
\* of handlers add, edit, settle, delete and join at once. A balance may be
\* reverted twice or reverted over other members than it was applied to: every
\* single write still cancels. It takes balances that summed to zero and rows
\* that name members at first, shares that come out even (what rounding adds
\* is bounded by DriftBounded), one way to write a number (an edit stores a
\* payer as the request spells it), and that nobody leaves: RemoveMember takes
\* a member's balance with it, and a recompute may store what it read before
\* another transaction.
THEOREM GroupSumsToZero ==
  ASSUME ~StrayEdits, OneSpelling, Ops \cap {"leave", "recompute"} = {}
  PROVE  Spec /\ RowsNameMembers /\ BalancesSumToZero /\ []SharesAreWhole
           => []BalancesSumToZero
<1>1. Init /\ RowsNameMembers /\ BalancesSumToZero => SumInv
  <2> SUFFICES ASSUME Init, RowsNameMembers, BalancesSumToZero PROVE SumInv
    OBVIOUS
  <2>1. RowsTyped
    BY InitIInv DEF IInv
  <2>2. SumsAreZero
    BY <2>1, SumsAreBalances
  <2>3. \A h \in Handlers : plan[h] = Idle
    BY DEF Init
  <2> QED
    BY <2>2, <2>3 DEF SumInv, PlansNameMembers, OpsOnly
<1>2. IInv /\ Integral /\ SumInv /\ SharesAreWhole /\ [Next]_vars => SumInv'
  BY SumStep
<1>3. IInv /\ SumInv => BalancesSumToZero
  BY SumsAreBalances DEF IInv, SumInv
<1> QED
  BY <1>1, <1>2, <1>3, IntegersKept, PTL DEF Spec

-----------------------------------------------------------------------------
(* Balances that match stay matched, one request at a time. When nobody's  *)
(* number is written in two ways, the replay of a row gives each number    *)
(* what writing the row gave it, whoever the members are by then. So what  *)
(* is to be shown of an operation is that the deltas it writes are those   *)
(* of the rows it changes, and that a new member has none.                 *)

LEMMA NobodyHasNoNumber ==
  ASSUME NEW ms
  PROVE  ~IsGroupMember(ms, NoNumber) /\ NoNumber \notin Number
<1>1. ~IsGroupMember(ms, NoNumber)
  BY DEF IsGroupMember, RowsFor, SameMobile
<1>2. NoNumber \notin Number
  BY DEF NoNumber, Number
<1> QED
  BY <1>1, <1>2

\* With one spelling, members are stored under the numbers they are named by.
LEMMA OneStoredForm ==
  ASSUME OneSpelling, NEW ms, MemberShape(ms), NEW k \in Number \cup {NoNumber}
  PROVE  StoredForm(ms, k) = k
<1>1. CASE IsGroupMember(ms, k)
  <2>1. k \in Number
    BY <1>1, NobodyHasNoNumber
  <2>2. ResolveMemberMobile(ms, k) \in Number /\ SameMobile(ResolveMemberMobile(ms, k), k)
    BY <1>1, Resolved
  <2> QED
    BY <1>1, <2>1, <2>2 DEF StoredForm, OneSpelling
<1>2. CASE ~IsGroupMember(ms, k)
  BY <1>2 DEF StoredForm
<1> QED
  BY <1>1, <1>2

\* Whom a row does not name, it does not concern.
LEMMA UnnamedUnchanged ==
  ASSUME NEW row, IsExpense(row), NEW split, IsSplit(split), NEW n,
         n # row.payer, row.kind = "settlement" => n # row.receiver,
         row.kind = "expense" => \A j \in DOMAIN split : split[j] # n
  PROVE  BalanceDeltaFor(row, split, n) = 0
<1>1. CASE row.kind = "settlement"
  BY <1>1 DEF BalanceDeltaFor, SettlementBalanceDelta, When
<1>2. CASE row.kind = "expense" /\ DOMAIN split = {}
  BY <1>2 DEF BalanceDeltaFor, ExpenseBalanceDelta
<1>3. CASE row.kind = "expense" /\ DOMAIN split # {}
  <2>1. {j \in DOMAIN split : split[j] = n} = {}
    BY <1>3
  <2>2. Cardinality({j \in DOMAIN split : split[j] = n}) = 0
    BY <2>1, FS_EmptySet
  <2>3. Share(row, split) \in Int
    <3>1. Cardinality(DOMAIN split) \in Nat \ {0}
      BY <1>3, FS_CardinalityType, FS_EmptySet DEF IsSplit
    <3>2. \A x \in Nat, m \in Nat \ {0} : x \div m \in Int
      OBVIOUS
    <3> QED
      BY <3>1, <3>2, ExpenseFacts DEF Share
  <2>4. Owed(row, split, n) = 0
    <3>1. Owed(row, split, n) = Share(row, split) * 0
      BY <2>2 DEF Owed
    <3> QED
      BY <2>3, <3>1
  <2> QED
    BY <1>3, <2>4 DEF BalanceDeltaFor, ExpenseBalanceDelta, When
<1> QED
  BY <1>1, <1>2, <1>3, ExpenseFacts

LEMMA ReplayIsDelta ==
  ASSUME OneSpelling, NEW ms, MemberShape(ms), NEW row, IsExpense(row), NEW n \in Number
  PROVE  ReplayRow(ms, row, n) = BalanceDeltaFor(row, SplitMembersFor(ms, row), n)
<1> DEFINE split == SplitMembersFor(ms, row)
           named == NumbersOf(row, split)
           f == DeltasOfRow(row, split)
<1>1. IsSplit(split)
  BY SplitOfRow, ExpenseFacts
<1> HIDE DEF split
<1>2. \A k \in named : k \in Number \cup {NoNumber}
  BY <1>1 DEF NumbersOf, IsSplit, IsExpense
<1>3. \A k \in named : StoredForm(ms, k) = k
  BY <1>2, OneStoredForm
<1>4. ReplayRow(ms, row, n) = Total(f, CountedFor(ms, row, split, n))
  BY <1>1, ReplayRowIsTotal DEF split
<1>5. BalanceDeltaFor(row, split, n) \in Int
  BY <1>1, DeltaIsInteger
<1>6. CASE n \in named
  <2>1. CountedFor(ms, row, split, n) = {} \cup {n}
    BY <1>3, <1>6 DEF CountedFor
  <2>2. f[n] = BalanceDeltaFor(row, split, n)
    BY <1>6 DEF DeltasOfRow
  <2> HIDE DEF f
  <2>3. Total(f, {} \cup {n}) = f[n] + Total(f, {})
    BY <1>5, <2>2, FS_EmptySet, TotalAdd
  <2> QED
    BY <1>4, <1>5, <2>1, <2>2, <2>3, TotalEmpty DEF split
<1>7. CASE n \notin named
  <2>1. CountedFor(ms, row, split, n) = {}
    BY <1>3, <1>7 DEF CountedFor
  <2>2. BalanceDeltaFor(row, split, n) = 0
    BY <1>1, <1>7, UnnamedUnchanged DEF NumbersOf
  <2> HIDE DEF f
  <2> QED
    BY <1>4, <2>1, <2>2, TotalEmpty DEF split
<1> QED
  BY <1>6, <1>7

\* A row that carries its split is replayed over it, whoever the members are.
LEMMA LinkedSplit ==
  ASSUME NEW row, IsExpense(row), Linked(row), NEW ms, NEW n
  PROVE  BalanceDeltaFor(row, SplitMembersFor(ms, row), n) = BalanceDeltaFor(row, row.split, n)
BY DEF Linked, BalanceDeltaFor, SettlementBalanceDelta, SplitMembersFor

-----------------------------------------------------------------------------
(* Replaying a group is summing deltas                                     *)

RowsAreTyped(rows) == \A id \in ExpenseIds : rows[id] = NoRow \/ IsExpense(rows[id])
SplitsIn(rows, g) ==
  \A id \in ExpenseIds : rows[id] # NoRow /\ rows[id].group = g => Linked(rows[id])
Deltas(rows, n) == [id \in ExpenseIds |-> BalanceDeltaFor(rows[id], rows[id].split, n)]

LEMMA LiveRowFacts ==
  ASSUME NEW rows, RowsAreTyped(rows), NEW g, SplitsIn(rows, g), NEW id \in LiveRows(rows, g)
  PROVE  /\ id \in ExpenseIds /\ rows[id].live /\ rows[id].group = g
         /\ IsExpense(rows[id]) /\ Linked(rows[id])
         /\ \A n : Deltas(rows, n)[id] = BalanceDeltaFor(rows[id], rows[id].split, n)
         /\ \A n : Deltas(rows, n)[id] \in Int
<1>1. id \in ExpenseIds /\ rows[id].live /\ rows[id].group = g
  BY DEF LiveRows
<1>2. IsExpense(rows[id])
  BY <1>1 DEF RowsAreTyped, NoRow
<1>3. rows[id] # NoRow /\ IsSplit(rows[id].split)
  BY <1>2, ExpenseFacts
<1>4. Linked(rows[id])
  BY <1>1, <1>3 DEF SplitsIn
<1>5. \A n : Deltas(rows, n)[id] = BalanceDeltaFor(rows[id], rows[id].split, n)
  BY <1>1 DEF Deltas
<1>6. \A n : Deltas(rows, n)[id] \in Int
  BY <1>2, <1>3, <1>5, DeltaIsInteger
<1> QED
  BY <1>1, <1>2, <1>4, <1>5, <1>6

LEMMA ExpectedIsDeltas ==
  ASSUME OneSpelling, NEW ms, MemberShape(ms), NEW rows, RowsAreTyped(rows),
         NEW g, SplitsIn(rows, g), NEW n \in Number
  PROVE  Expected(ms, rows, g, n) = Total(Deltas(rows, n), LiveRows(rows, g))
<1>1. \A id \in LiveRows(rows, g) : RowReplays(ms, rows, n)[id] = Deltas(rows, n)[id]
  <2> SUFFICES ASSUME NEW id \in LiveRows(rows, g)
               PROVE  RowReplays(ms, rows, n)[id] = Deltas(rows, n)[id]
    OBVIOUS
  <2>1. /\ id \in ExpenseIds /\ IsExpense(rows[id]) /\ Linked(rows[id])
        /\ Deltas(rows, n)[id] = BalanceDeltaFor(rows[id], rows[id].split, n)
    BY LiveRowFacts
  <2>2. RowReplays(ms, rows, n)[id] = ReplayRow(ms, rows[id], n)
    BY <2>1 DEF RowReplays
  <2> QED
    BY <2>1, <2>2, ReplayIsDelta, LinkedSplit
<1> QED
  BY <1>1, LiveRowsFinite, ExpectedIsTotal, TotalEqual

\* What the row id gives n in the replay of g.
Contribution(rows, id, g, n) ==
  IF id \in LiveRows(rows, g) THEN BalanceDeltaFor(rows[id], rows[id].split, n) ELSE 0

LEMMA RowCounts ==
  ASSUME NEW rows, RowsAreTyped(rows), NEW g, SplitsIn(rows, g), NEW id, NEW n
  PROVE  /\ Total(Deltas(rows, n), LiveRows(rows, g)) =
              Contribution(rows, id, g, n) + Total(Deltas(rows, n), LiveRows(rows, g) \ {id})
         /\ Contribution(rows, id, g, n) \in Int
         /\ Total(Deltas(rows, n), LiveRows(rows, g) \ {id}) \in Int
<1> DEFINE L == LiveRows(rows, g)
           f == Deltas(rows, n)
<1>1. IsFiniteSet(L) /\ IsFiniteSet(L \ {id})
  BY LiveRowsFinite, FS_RemoveElement
<1>2. \A k \in L : f[k] \in Int
  BY LiveRowFacts
<1>3. id \in L => Contribution(rows, id, g, n) = f[id]
  BY LiveRowFacts DEF Contribution
<1>4. id \notin L => Contribution(rows, id, g, n) = 0
  BY DEF Contribution
<1> HIDE DEF L, f
<1>5. Total(f, L \ {id}) \in Int
  BY <1>1, <1>2, TotalType
<1> DEFINE c == Contribution(rows, id, g, n)
<1>6. Total(f, L) = c + Total(f, L \ {id}) /\ c \in Int
  <2>1. CASE id \in L
    <3>1. Total(f, L) = f[id] + Total(f, L \ {id})
      BY <1>1, <1>2, <2>1, TotalRemove
    <3>2. f[id] \in Int /\ c = f[id]
      BY <1>2, <1>3, <2>1
    <3> QED
      BY <3>1, <3>2
  <2>2. CASE id \notin L
    <3>1. L \ {id} = L /\ c = 0
      BY <1>4, <2>2
    <3> HIDE DEF c
    <3> QED
      BY <1>5, <3>1
  <2> QED
    BY <2>1, <2>2
<1> QED
  BY <1>5, <1>6 DEF L, f

Matches(ms, rows, g) ==
  \A i \in MemberRows(ms) : ms[i].balance = Expected(ms, rows, g, ms[i].mobile)

\* When one row changes, balances that move by what it gave and what it gives
\* still match. For a group that row is not in, they do not move.
LEMMA RowChanged ==
  ASSUME OneSpelling, NEW ms, MemberShape(ms), NEW ns, MemberShape(ns),
         MemberRows(ns) = MemberRows(ms),
         NEW rows, RowsAreTyped(rows), NEW news, RowsAreTyped(news),
         NEW g, SplitsIn(rows, g), SplitsIn(news, g), NEW id \in ExpenseIds,
         \A k \in ExpenseIds \ {id} : news[k] = rows[k],
         \A i \in MemberRows(ms) :
           /\ ns[i].mobile = ms[i].mobile
           /\ ns[i].balance = ms[i].balance - Contribution(rows, id, g, ms[i].mobile)
                                            + Contribution(news, id, g, ms[i].mobile),
         Matches(ms, rows, g)
  PROVE  Matches(ns, news, g)
<1> SUFFICES ASSUME NEW i \in MemberRows(ms)
             PROVE  ns[i].balance = Expected(ns, news, g, ns[i].mobile)
  BY DEF Matches
<1> DEFINE n == ms[i].mobile
           others == LiveRows(rows, g) \ {id}
<1>1. n \in Number
  BY DEF MemberRows, MemberShape
<1>2. LiveRows(news, g) \ {id} = others
  BY DEF LiveRows
<1>3. Total(Deltas(news, n), others) = Total(Deltas(rows, n), others)
  <2>1. \A k \in others : Deltas(news, n)[k] = Deltas(rows, n)[k]
    BY DEF Deltas, LiveRows
  <2>2. IsFiniteSet(others)
    BY LiveRowsFinite, FS_RemoveElement
  <2> HIDE DEF others
  <2> QED
    BY <2>1, <2>2, TotalEqual
<1>4. ms[i].balance = Contribution(rows, id, g, n) + Total(Deltas(rows, n), others)
  BY <1>1, ExpectedIsDeltas, RowCounts DEF Matches
<1>5. Expected(ns, news, g, n) = Contribution(news, id, g, n) + Total(Deltas(rows, n), others)
  BY <1>1, <1>2, <1>3, ExpectedIsDeltas, RowCounts
<1>6. /\ Contribution(rows, id, g, n) \in Int /\ Contribution(news, id, g, n) \in Int
      /\ Total(Deltas(rows, n), others) \in Int
  BY RowCounts
<1>7. ns[i].mobile = n /\ ns[i].balance = ms[i].balance - Contribution(rows, id, g, n)
                                                        + Contribution(news, id, g, n)
  OBVIOUS
<1> HIDE DEF n, others
<1> QED
  BY <1>4, <1>5, <1>6, <1>7

-----------------------------------------------------------------------------
(* What is decided is still so                                             *)

\* Everybody a row names is a member, or has a number that may be removed.
Covered(ms, row) ==
  LET known == Mobiles(ms) \cup Leavers
  IN /\ row.payer \in known
     /\ row.kind = "settlement" => row.receiver \in known
     /\ \A j \in DOMAIN row.split : row.split[j] \in known
RowsCovered ==
  \A id \in ExpenseIds :
    expenses[id].live /\ Linked(expenses[id]) =>
      Covered(members[expenses[id].group], expenses[id])

\* What a handler has decided follows from the tables ms and rows, which are
\* those it read.
StillSo(p, ms, rows) ==
  /\ p.op \in {"add", "settle"} => Names(ms[p.new.group], p.new, p.new.split)
  /\ p.op \in {"update", "delete"} =>
       /\ p.old = rows[p.id] /\ p.old.live /\ p.old.group = p.group
       /\ p.split = SplitMembersFor(ms[p.group], p.old)
  /\ p.op = "update" =>
       /\ p.old.kind = "expense" /\ p.new.split = p.old.split
       /\ p.new.payer \in Mobiles(ms[p.group])
  /\ p.op = "join" => p.mobile \in Joiners /\ ~IsGroupMember(ms[p.group], p.mobile)
  /\ p.op = "leave" => p.mobile \in Leavers

MatchInv ==
  /\ RowsCovered
  /\ CorrectionsCurrent
  /\ \A h \in Handlers : StillSo(plan[h], members, expenses)

LEMMA NamesAreCovered ==
  ASSUME NEW ms, NEW row, Names(ms, row, row.split)
  PROVE  Covered(ms, row)
BY DEF Names, Covered

LEMMA AddStill ==
  ASSUME IInv, NEW h \in Handlers, NEW g \in Groups, NEW u \in Callers,
         NEW payer \in Numbers, NEW splitWith \in SplitRequests, NEW amount \in Amounts,
         AddGroupExpense(h, g, u, payer, splitWith, amount)
  PROVE  \E d : Decide(h, "add", d) /\ Known("add", d) /\ StillSo(d, members, expenses)
<1> DEFINE ms == members[g]
           split == IF splitWith = <<>> THEN EveryMember(ms)
                    ELSE [i \in DOMAIN splitWith |-> ResolveMemberMobile(ms, splitWith[i])]
           new == [group |-> g, kind |-> "expense", payer |-> ResolveMemberMobile(ms, payer),
                   receiver |-> NoNumber, split |-> split, amount |-> amount,
                   createdBy |-> u, live |-> TRUE]
           d == [op |-> "add", new |-> new]
<1>1. /\ IsGroupMember(ms, payer)
      /\ \A i \in DOMAIN splitWith : IsGroupMember(ms, splitWith[i])
      /\ Decide(h, "add", d)
  BY DEF AddGroupExpense
<1>2. MemberShape(ms)
  BY DEF IInv, RowsTyped
<1>3. \A j \in DOMAIN split : split[j] \in Mobiles(ms)
  <2>1. \A j \in DOMAIN EveryMember(ms) : EveryMember(ms)[j] \in Mobiles(ms)
    BY DEF EveryMember, Mobiles
  <2>2. \A j \in DOMAIN splitWith : ResolveMemberMobile(ms, splitWith[j]) \in Mobiles(ms)
    BY <1>1, <1>2, ResolvedIsStored
  <2> HIDE DEF ms
  <2> QED
    BY <2>1, <2>2
<1>4. ResolveMemberMobile(ms, payer) \in Mobiles(ms)
  BY <1>1, <1>2, ResolvedIsStored
<1> HIDE DEF split
<1>5. Names(ms, new, new.split)
  <2> HIDE DEF ms
  <2> QED
    BY <1>3, <1>4 DEF Names
<1>6. new.group = g
  OBVIOUS
<1> HIDE DEF new
<1>7. Known("add", d) /\ StillSo(d, members, expenses)
  BY <1>5, <1>6 DEF Known, StillSo
<1> HIDE DEF d
<1> QED
  BY <1>1, <1>7

LEMMA SettleStill ==
  ASSUME IInv, NEW h \in Handlers, NEW g \in Groups, NEW u \in Callers,
         NEW payer \in Numbers, NEW receiver \in Numbers, NEW amount \in Amounts,
         SettleGroup(h, g, u, payer, receiver, amount)
  PROVE  \E d : Decide(h, "settle", d) /\ Known("settle", d) /\ StillSo(d, members, expenses)
<1> DEFINE ms == members[g]
           new == [group |-> g, kind |-> "settlement", payer |-> ResolveMemberMobile(ms, payer),
                   receiver |-> ResolveMemberMobile(ms, receiver), split |-> <<>>,
                   amount |-> amount, createdBy |-> u, live |-> TRUE]
           d == [op |-> "settle", new |-> new]
<1>1. /\ IsGroupMember(ms, payer) /\ IsGroupMember(ms, receiver)
      /\ Decide(h, "settle", d)
  BY DEF SettleGroup
<1>2. MemberShape(ms)
  BY DEF IInv, RowsTyped
<1>3. /\ ResolveMemberMobile(ms, payer) \in Mobiles(ms)
      /\ ResolveMemberMobile(ms, receiver) \in Mobiles(ms)
  BY <1>1, <1>2, ResolvedIsStored
<1>4. Names(ms, new, new.split)
  <2> HIDE DEF ms
  <2> QED
    BY <1>3 DEF Names
<1>5. new.group = g
  OBVIOUS
<1> HIDE DEF new
<1>6. Known("settle", d) /\ StillSo(d, members, expenses)
  BY <1>4, <1>5 DEF Known, StillSo
<1> HIDE DEF d
<1> QED
  BY <1>1, <1>6

LEMMA UpdateStill ==
  ASSUME IInv, ~StrayEdits, OneSpelling, NEW h \in Handlers, NEW g \in Groups,
         NEW id \in ExpenseIds, NEW u \in Callers, NEW payer \in Numbers \cup {NoNumber},
         NEW amount \in Amounts, UpdateGroupExpense(h, g, id, u, payer, amount)
  PROVE  \E d : Decide(h, "update", d) /\ Known("update", d) /\ StillSo(d, members, expenses)
<1> DEFINE row == expenses[id]
           ms == members[g]
           newPayer == IF payer = NoNumber THEN row.payer ELSE payer
           new == [row EXCEPT !.payer = newPayer, !.amount = amount]
           d == [op |-> "update", group |-> g, id |-> id, old |-> row, new |-> new,
                 split |-> SplitMembersFor(ms, row)]
<1>1. /\ row.live /\ row.group = g /\ row.kind = "expense"
      /\ IsGroupMember(ms, newPayer)
      /\ Decide(h, "update", d)
  BY DEF UpdateGroupExpense
<1>2. IsExpense(row) /\ MemberShape(ms)
  BY <1>1 DEF IInv, RowsTyped, NoRow
<1>3. newPayer \in Mobiles(ms)
  <2>1. newPayer \in Number
    BY <1>2, RequestAssumption DEF IsExpense
  <2>2. PICK i \in MemberRows(ms) : SameMobile(ms[i].mobile, newPayer)
    BY <1>1 DEF IsGroupMember, RowsFor
  <2>3. ms[i].mobile \in Number
    BY <1>2 DEF MemberRows, MemberShape
  <2>4. ms[i].mobile = newPayer
    BY <2>1, <2>2, <2>3 DEF OneSpelling
  <2> QED
    BY <2>4 DEF Mobiles
<1>4. new.payer = newPayer /\ new.split = row.split
  <2> HIDE DEF newPayer, row
  <2> QED
    BY <1>2 DEF IsExpense
<1> HIDE DEF new, newPayer
<1>5. Known("update", d) /\ StillSo(d, members, expenses)
  BY <1>1, <1>3, <1>4 DEF Known, StillSo
<1> HIDE DEF d
<1> QED
  BY <1>1, <1>5

LEMMA OthersStill ==
  ASSUME IInv, OneSpelling, NEW h \in Handlers, NEW g \in Groups,
         \/ \E u \in Callers, id \in ExpenseIds : DeleteGroupExpense(h, g, id, u)
         \/ \E u \in Callers, n \in Joiners : AddMember(h, g, u, n)
         \/ \E u \in Callers, n \in Leavers : RemoveMember(h, g, u, n)
         \/ \E u \in Callers : DeleteGroup(h, g, u)
         \/ RecomputeGroupBalances(h, g)
  PROVE  \E op, d : Decide(h, op, d) /\ Known(op, d) /\ StillSo(d, members, expenses)
<1>1. ASSUME NEW u \in Callers, NEW id \in ExpenseIds, DeleteGroupExpense(h, g, id, u)
      PROVE  \E op, d : Decide(h, op, d) /\ Known(op, d) /\ StillSo(d, members, expenses)
  <2> DEFINE d == [op |-> "delete", group |-> g, id |-> id, old |-> expenses[id],
                   split |-> SplitMembersFor(members[g], expenses[id])]
  <2>1. expenses[id].live /\ expenses[id].group = g /\ Decide(h, "delete", d)
    BY <1>1 DEF DeleteGroupExpense
  <2>2. Known("delete", d) /\ StillSo(d, members, expenses)
    BY <2>1 DEF Known, StillSo
  <2> HIDE DEF d
  <2> QED
    BY <2>1, <2>2
<1>2. ASSUME NEW u \in Callers, NEW n \in Joiners, AddMember(h, g, u, n)
      PROVE  \E op, d : Decide(h, op, d) /\ Known(op, d) /\ StillSo(d, members, expenses)
  <2> DEFINE d == [op |-> "join", group |-> g, mobile |-> n]
  <2>1. ~IsGroupMember(members[g], n) /\ Decide(h, "join", d)
    BY <1>2 DEF AddMember
  <2>2. Known("join", d) /\ StillSo(d, members, expenses)
    BY <2>1 DEF Known, StillSo
  <2> HIDE DEF d
  <2> QED
    BY <2>1, <2>2
<1>3. ASSUME NEW u \in Callers, NEW n \in Leavers, RemoveMember(h, g, u, n)
      PROVE  \E op, d : Decide(h, op, d) /\ Known(op, d) /\ StillSo(d, members, expenses)
  <2> DEFINE m == ResolveMemberMobile(members[g], n)
             d == [op |-> "leave", group |-> g, mobile |-> m]
  <2>1. IsGroupMember(members[g], n) /\ Decide(h, "leave", d)
    BY <1>3 DEF RemoveMember
  <2>2. m = n
    <3>1. MemberShape(members[g]) /\ n \in Number
      BY RequestAssumption DEF IInv, RowsTyped
    <3>2. m \in Number /\ SameMobile(m, n)
      BY <2>1, <3>1, Resolved
    <3> QED
      BY <3>1, <3>2 DEF OneSpelling
  <2> HIDE DEF m
  <2>3. Known("leave", d) /\ StillSo(d, members, expenses)
    BY <2>2 DEF Known, StillSo
  <2> HIDE DEF d
  <2> QED
    BY <2>1, <2>3
<1>4. ASSUME NEW u \in Callers, DeleteGroup(h, g, u)
      PROVE  \E op, d : Decide(h, op, d) /\ Known(op, d) /\ StillSo(d, members, expenses)
  <2> DEFINE d == [op |-> "drop", group |-> g]
  <2>1. Decide(h, "drop", d)
    BY <1>4 DEF DeleteGroup
  <2>2. Known("drop", d) /\ StillSo(d, members, expenses)
    BY DEF Known, StillSo
  <2> HIDE DEF d
  <2> QED
    BY <2>1, <2>2
<1>5. ASSUME RecomputeGroupBalances(h, g)
      PROVE  \E op, d : Decide(h, op, d) /\ Known(op, d) /\ StillSo(d, members, expenses)
  <2> DEFINE d == [op |-> "recompute", group |-> g,
                   want |-> Corrections(members[g], expenses, g)]
  <2>1. Decide(h, "recompute", d)
    BY <1>5 DEF RecomputeGroupBalances
  <2>2. Known("recompute", d) /\ StillSo(d, members, expenses)
    BY DEF Known, StillSo
  <2> HIDE DEF d
  <2> QED
    BY <2>1, <2>2
<1> QED
  BY <1>1, <1>2, <1>3, <1>4, <1>5

LEMMA RequestStill ==
  ASSUME IInv, MatchInv, ~StrayEdits, OneSpelling, \A k, l \in Handlers : k = l,
         NEW h \in Handlers, Request(h)
  PROVE  MatchInv'
<1>1. PICK op, d : Decide(h, op, d) /\ Known(op, d) /\ StillSo(d, members, expenses)
  BY AddStill, SettleStill, UpdateStill, OthersStill DEF Request
<1>2. /\ plan' = [plan EXCEPT ![h] = d]
      /\ members' = members /\ expenses' = expenses
  BY <1>1 DEF Decide
<1>3. \A k \in Handlers : plan'[k] = d
  BY <1>2 DEF IInv, RowsTyped
<1>4. CorrectionsCurrent'
  BY <1>1, <1>2, <1>3 DEF CorrectionsCurrent, Known
<1>5. RowsCovered'
  BY <1>2 DEF MatchInv, RowsCovered
<1>6. \A k \in Handlers : StillSo(plan'[k], members', expenses')
  BY <1>1, <1>2, <1>3
<1> QED
  BY <1>4, <1>5, <1>6 DEF MatchInv

-----------------------------------------------------------------------------
(* What a transaction does to balances that match                          *)

\* Nobody disappears but those who may be removed.
Covers(ms, ns) == Mobiles(ms) \subseteq Mobiles(ns) \cup Leavers

\* Every linked row that is live afterwards was there, of a group that covers
\* it still, or is covered now.
CoverStep ==
  \A id \in ExpenseIds :
    LET row == expenses'[id] IN
    row.live /\ Linked(row) =>
      \/ row = expenses[id] /\ Covers(members[row.group], members'[row.group])
      \/ Covered(members'[row.group], row)

\* A group whose rows carry their splits and whose balances match is left so.
Kept ==
  \A g \in Groups :
    SplitsIn(expenses, g) /\ Matches(members[g], expenses, g) =>
      Matches(members'[g], expenses', g)

LEMMA CoversIsEnough ==
  ASSUME NEW ms, NEW ns, Covers(ms, ns), NEW row, Covered(ms, row)
  PROVE  Covered(ns, row)
BY DEF Covers, Covered

LEMMA FinishMatch ==
  ASSUME IInv, MatchInv, \A k, l \in Handlers : k = l, NEW h \in Handlers, Finish(h), CoverStep
  PROVE  MatchInv'
<1>1. \A k \in Handlers : plan'[k] = Idle
  BY DEF Finish, IInv, RowsTyped
<1>2. CorrectionsCurrent'
  BY <1>1 DEF CorrectionsCurrent, Idle
<1>3. \A k \in Handlers : StillSo(plan'[k], members', expenses')
  BY <1>1 DEF StillSo, Idle
<1>4. RowsCovered'
  <2> SUFFICES ASSUME NEW id \in ExpenseIds, expenses'[id].live, Linked(expenses'[id])
               PROVE  Covered(members'[expenses'[id].group], expenses'[id])
    BY DEF RowsCovered
  <2> QED
    BY CoversIsEnough DEF CoverStep, MatchInv, RowsCovered
<1> QED
  BY <1>2, <1>3, <1>4 DEF MatchInv

LEMMA DeltasMove ==
  ASSUME NEW ms, MemberShape(ms), NEW row, NEW split, NEW sign,
         NEW ns, ns = PersistDeltas(ms, row, split, sign)
  PROVE  /\ MemberRows(ns) = MemberRows(ms)
         /\ Mobiles(ns) = Mobiles(ms)
         /\ \A i \in MemberRows(ms) :
              /\ ns[i].mobile = ms[i].mobile
              /\ ns[i].balance = ms[i].balance
                                   + sign * BalanceDeltaFor(row, split, ms[i].mobile)
<1>1. MemberRows(ns) = MemberRows(ms)
  BY DEF PersistDeltas, MemberRows, MemberShape
<1>2. \A i \in MemberRows(ms) :
        /\ ns[i].mobile = ms[i].mobile
        /\ ns[i].balance = ms[i].balance + sign * BalanceDeltaFor(row, split, ms[i].mobile)
  BY DEF PersistDeltas, MemberRows, MemberShape
<1> QED
  BY <1>1, <1>2 DEF Mobiles

\* A group that a transaction does not write to, in which no row changes.
LEMMA KeptElsewhere ==
  ASSUME OneSpelling, IInv, IInv', NEW g \in Groups, members'[g] = members[g],
         NEW id \in ExpenseIds, \A k \in ExpenseIds \ {id} : expenses'[k] = expenses[k],
         expenses[id].live => expenses[id].group # g,
         expenses'[id].live => expenses'[id].group # g,
         SplitsIn(expenses, g), Matches(members[g], expenses, g)
  PROVE  Matches(members'[g], expenses', g)
<1>1. LiveRows(expenses', g) = LiveRows(expenses, g)
  BY DEF LiveRows
<1>2. \A k \in LiveRows(expenses, g) : k \in ExpenseIds \ {id}
  BY DEF LiveRows
<1>3. \A n : \A k \in LiveRows(expenses, g) :
        RowReplays(members[g], expenses', n)[k] = RowReplays(members[g], expenses, n)[k]
  BY <1>2 DEF RowReplays
<1>4. \A n : Expected(members[g], expenses', g, n) = Expected(members[g], expenses, g, n)
  BY <1>1, <1>3, LiveRowsFinite, ExpectedIsTotal, TotalEqual
<1> QED
  BY <1>4 DEF Matches

LEMMA CreateKeeps ==
  ASSUME OneSpelling, IInv, IInv', Integral, MatchInv, NEW h \in Handlers, CreateExpenseTx(h)
  PROVE  Kept /\ CoverStep
<1> DEFINE p == plan[h]
           row == p.new
           g == row.group
           ms == members[g]
           ns == PersistDeltas(ms, row, row.split, 1)
<1>1. PICK id \in ExpenseIds :
        expenses[id].kind = "none" /\ expenses' = [expenses EXCEPT ![id] = row]
  BY DEF CreateExpenseTx, FreshExpense
<1>2. p.op \in {"add", "settle"} /\ members' = [members EXCEPT ![g] = ns]
  BY DEF CreateExpenseTx
<1>3. IsExpense(row) /\ row.live /\ Linked(row)
  BY <1>2, PlanFacts DEF IInv, RowsTyped, PlansFit, Fits
<1>4. g \in Groups /\ IsSplit(row.split)
  BY <1>3, ExpenseFacts
<1>5. MemberShape(ms) /\ IntegerBalances(ms) /\ members'[g] = ns
  BY <1>2, <1>4 DEF IInv, RowsTyped, Integral
<1>6. Names(ms, row, row.split)
  BY <1>2 DEF MatchInv, StillSo
<1> HIDE DEF p, row
<1>7. expenses[id] = NoRow
  BY <1>1, ExpenseFacts DEF IInv, RowsTyped
<1>8. /\ expenses'[id] = row
      /\ \A k \in ExpenseIds \ {id} : expenses'[k] = expenses[k]
  BY <1>1 DEF IInv, RowsTyped
<1>9. /\ MemberRows(ns) = MemberRows(ms) /\ Mobiles(ns) = Mobiles(ms)
      /\ \A i \in MemberRows(ms) :
           /\ ns[i].mobile = ms[i].mobile
           /\ ns[i].balance = ms[i].balance + 1 * BalanceDeltaFor(row, row.split, ms[i].mobile)
  BY <1>5, DeltasMove
<1>10. ASSUME SplitsIn(expenses, g), Matches(ms, expenses, g)
       PROVE  Matches(ns, expenses', g)
  <2>1. \A n : Contribution(expenses, id, g, n) = 0
    BY <1>7 DEF Contribution, LiveRows, NoRow
  <2>2. \A n : Contribution(expenses', id, g, n) = BalanceDeltaFor(row, row.split, n)
    BY <1>3, <1>8 DEF Contribution, LiveRows
  <2>3. SplitsIn(expenses', g)
    BY <1>3, <1>8, <1>10 DEF SplitsIn
  <2>4. RowsAreTyped(expenses) /\ RowsAreTyped(expenses') /\ MemberShape(ns)
    BY <1>4, <1>5 DEF RowsAreTyped, IInv, RowsTyped
  <2>5. \A i \in MemberRows(ms) : ms[i].balance \in Int
    BY <1>5 DEF IntegerBalances, MemberRows
  <2>6. \A n : BalanceDeltaFor(row, row.split, n) \in Int
    BY <1>3, <1>4, DeltaIsInteger
  <2> HIDE DEF ns, ms
  <2>7. \A i \in MemberRows(ms) :
          ns[i].balance = ms[i].balance - Contribution(expenses, id, g, ms[i].mobile)
                                        + Contribution(expenses', id, g, ms[i].mobile)
    BY <1>9, <2>1, <2>2, <2>5, <2>6
  <2> QED
    BY <1>5, <1>8, <1>9, <1>10, <2>3, <2>4, <2>7, RowChanged
<1>11. Kept
  <2> SUFFICES ASSUME NEW k \in Groups, SplitsIn(expenses, k), Matches(members[k], expenses, k)
               PROVE  Matches(members'[k], expenses', k)
    BY DEF Kept
  <2>1. CASE k = g
    BY <1>5, <1>10, <2>1
  <2>2. CASE k # g
    <3>1. members'[k] = members[k]
      BY <1>2, <2>2 DEF IInv, RowsTyped
    <3> QED
      BY <1>7, <1>8, <2>2, <3>1, KeptElsewhere DEF NoRow
  <2> QED
    BY <2>1, <2>2
<1>12. CoverStep
  <2> SUFFICES ASSUME NEW k \in ExpenseIds
               PROVE  \/ /\ expenses'[k] = expenses[k]
                         /\ Covers(members[expenses'[k].group], members'[expenses'[k].group])
                      \/ Covered(members'[expenses'[k].group], expenses'[k])
                      \/ ~expenses'[k].live
    BY DEF CoverStep
  <2>1. CASE k = id
    <3>1. Covered(ms, row)
      BY <1>6, NamesAreCovered
    <3>2. Covered(ns, row)
      BY <1>9, <3>1 DEF Covered
    <3> QED
      BY <1>5, <1>8, <2>1, <3>2
  <2>2. CASE k # id
    <3> DEFINE q == expenses[k].group
    <3>1. expenses'[k] = expenses[k] /\ (expenses[k] = NoRow \/ q \in Groups)
      BY <1>8, <2>2, ExpenseFacts DEF IInv, RowsTyped
    <3>2. ASSUME q \in Groups PROVE Covers(members[q], members'[q])
      <4> HIDE DEF ns, q
      <4>1. q = g => members'[q] = ns
        BY <1>5
      <4>2. q # g => members'[q] = members[q]
        BY <1>2, <1>4, <3>2 DEF IInv, RowsTyped
      <4> QED
        BY <1>9, <4>1, <4>2 DEF Covers
    <3> QED
      BY <3>1, <3>2 DEF NoRow
  <2> QED
    BY <2>1, <2>2
<1> QED
  BY <1>11, <1>12

LEMMA UpdateKeeps ==
  ASSUME OneSpelling, IInv, IInv', Integral, MatchInv, NEW h \in Handlers,
         UpdateGroupExpenseTx(h)
  PROVE  Kept /\ CoverStep
<1> DEFINE p == plan[h]
           id == p.id
           old == p.old
           new == p.new
           g == p.group
           ms == members[g]
           rs == PersistDeltas(ms, old, p.split, -1)
           ns == PersistDeltas(rs, new, p.split, 1)
<1>1. /\ p.op = "update"
      /\ members' = [members EXCEPT ![g] = ns]
      /\ expenses' = [expenses EXCEPT ![id] = new]
  BY DEF UpdateGroupExpenseTx
<1>2. /\ IsExpense(old) /\ IsExpense(new) /\ IsSplit(p.split)
      /\ g \in Groups /\ id \in ExpenseIds
  BY <1>1, PlanFacts DEF IInv, RowsTyped
<1>3. /\ old = expenses[id] /\ old.live /\ old.group = g /\ old.kind = "expense"
      /\ p.split = SplitMembersFor(ms, old)
      /\ new.split = old.split /\ new.payer \in Mobiles(ms)
  BY <1>1 DEF MatchInv, StillSo
<1>4. new.kind = "expense" /\ new.group = g /\ new.live
  BY <1>1 DEF IInv, PlansFit, Fits
<1>5. MemberShape(ms) /\ IntegerBalances(ms) /\ members'[g] = ns /\ MemberShape(ns)
  BY <1>1, <1>2 DEF IInv, RowsTyped, Integral
<1>6. /\ expenses'[id] = new
      /\ \A k \in ExpenseIds \ {id} : expenses'[k] = expenses[k]
  BY <1>1, <1>2 DEF IInv, RowsTyped
<1>7. old # NoRow /\ new # NoRow
  BY <1>2, ExpenseFacts
<1>s. MemberShape(rs)
  BY <1>2, <1>5, ShapeOfDeltas
<1> DEFINE split == p.split
<1> HIDE DEF p, id, old, new, g
<1>8. /\ MemberRows(rs) = MemberRows(ms) /\ Mobiles(rs) = Mobiles(ms)
      /\ \A i \in MemberRows(ms) :
           /\ rs[i].mobile = ms[i].mobile
           /\ rs[i].balance = ms[i].balance + (-1) * BalanceDeltaFor(old, split, ms[i].mobile)
  BY <1>5, DeltasMove
<1>9. /\ MemberRows(ns) = MemberRows(rs) /\ Mobiles(ns) = Mobiles(rs)
      /\ \A i \in MemberRows(rs) :
           /\ ns[i].mobile = rs[i].mobile
           /\ ns[i].balance = rs[i].balance + 1 * BalanceDeltaFor(new, split, rs[i].mobile)
  BY <1>s, DeltasMove
<1>10. ASSUME SplitsIn(expenses, g), Matches(ms, expenses, g)
       PROVE  Matches(ns, expenses', g)
  <2>1. Linked(old)
    BY <1>2, <1>3, <1>7, <1>10 DEF SplitsIn
  <2>2. split = old.split /\ split = new.split /\ Linked(new)
    BY <1>3, <1>4, <2>1 DEF Linked, SplitMembersFor
  <2>3. \A n : Contribution(expenses, id, g, n) = BalanceDeltaFor(old, split, n)
    BY <1>2, <1>3, <2>2 DEF Contribution, LiveRows
  <2>4. \A n : Contribution(expenses', id, g, n) = BalanceDeltaFor(new, split, n)
    BY <1>2, <1>4, <1>6, <2>2 DEF Contribution, LiveRows
  <2>5. SplitsIn(expenses', g)
    BY <1>6, <1>10, <2>2 DEF SplitsIn
  <2>6. RowsAreTyped(expenses) /\ RowsAreTyped(expenses')
    BY DEF RowsAreTyped, IInv, RowsTyped
  <2>7. \A i \in MemberRows(ms) : ms[i].balance \in Int
    BY <1>5 DEF IntegerBalances, MemberRows
  <2>8. \A n : BalanceDeltaFor(old, split, n) \in Int /\ BalanceDeltaFor(new, split, n) \in Int
    BY <1>2, DeltaIsInteger
  <2> HIDE DEF ns, rs, ms, split
  <2>9. \A i \in MemberRows(ms) :
          /\ ns[i].mobile = ms[i].mobile
          /\ ns[i].balance = ms[i].balance - Contribution(expenses, id, g, ms[i].mobile)
                                        + Contribution(expenses', id, g, ms[i].mobile)
    BY <1>8, <1>9, <2>3, <2>4, <2>7, <2>8
  <2> QED
    BY <1>2, <1>5, <1>6, <1>8, <1>9, <1>10, <2>5, <2>6, <2>9, RowChanged
<1>11. Kept
  <2> SUFFICES ASSUME NEW k \in Groups, SplitsIn(expenses, k), Matches(members[k], expenses, k)
               PROVE  Matches(members'[k], expenses', k)
    BY DEF Kept
  <2>1. CASE k = g
    BY <1>5, <1>10, <2>1
  <2>2. CASE k # g
    <3>1. members'[k] = members[k]
      BY <1>1, <2>2 DEF IInv, RowsTyped
    <3> QED
      BY <1>2, <1>3, <1>4, <1>6, <2>2, <3>1, KeptElsewhere
  <2> QED
    BY <2>1, <2>2
<1>12. ASSUME NEW q \in Groups PROVE Covers(members[q], members'[q])
  <2> HIDE DEF ns, rs
  <2>1. q = g => members'[q] = ns
    BY <1>5
  <2>2. q # g => members'[q] = members[q]
    BY <1>1, <1>12 DEF IInv, RowsTyped
  <2> QED
    BY <1>8, <1>9, <2>1, <2>2 DEF Covers
<1>13. CoverStep
  <2> SUFFICES ASSUME NEW k \in ExpenseIds, expenses'[k].live, Linked(expenses'[k])
               PROVE  \/ /\ expenses'[k] = expenses[k]
                         /\ Covers(members[expenses'[k].group], members'[expenses'[k].group])
                      \/ Covered(members'[expenses'[k].group], expenses'[k])
    BY DEF CoverStep
  <2>1. CASE k = id
    <3>1. Linked(old)
      BY <1>3, <1>4, <1>6, <2>1 DEF Linked
    <3>2. Covered(ms, old)
      BY <1>2, <1>3, <3>1 DEF MatchInv, RowsCovered
    <3>3. Covered(ms, new)
      <4> HIDE DEF ms
      <4> QED
        BY <1>3, <1>4, <3>2 DEF Covered
    <3>4. Covered(ns, new)
      <4> HIDE DEF ns, rs, ms
      <4> QED
        BY <1>8, <1>9, <3>3 DEF Covered
    <3> QED
      BY <1>4, <1>5, <1>6, <2>1, <3>4
  <2>2. CASE k # id
    <3>1. expenses'[k] = expenses[k]
      BY <1>6, <2>2
    <3>2. expenses[k] = NoRow \/ IsExpense(expenses[k])
      BY DEF IInv, RowsTyped
    <3>3. expenses[k].group \in Groups
      BY <3>1, <3>2, ExpenseFacts DEF NoRow
    <3> QED
      BY <1>12, <3>1, <3>3
  <2> QED
    BY <2>1, <2>2
<1> QED
  BY <1>11, <1>13

LEMMA DeleteKeeps ==
  ASSUME OneSpelling, IInv, IInv', Integral, MatchInv, NEW h \in Handlers,
         DeleteGroupExpenseTx(h)
  PROVE  Kept /\ CoverStep
<1> DEFINE p == plan[h]
           id == p.id
           old == p.old
           new == [old EXCEPT !.live = FALSE]
           g == p.group
           ms == members[g]
           ns == PersistDeltas(ms, old, p.split, -1)
<1>1. /\ p.op = "delete"
      /\ members' = [members EXCEPT ![g] = ns]
      /\ expenses' = [expenses EXCEPT ![id].live = FALSE]
  BY DEF DeleteGroupExpenseTx
<1>2. IsExpense(old) /\ IsSplit(p.split) /\ g \in Groups /\ id \in ExpenseIds
  <2>1. PlanShape(p)
    BY DEF IInv, RowsTyped
  <2> HIDE DEF p
  <2> QED
    BY <1>1, <2>1 DEF PlanShape, IsPlan, Idle
<1>3. /\ old = expenses[id] /\ old.live /\ old.group = g
      /\ p.split = SplitMembersFor(ms, old)
  BY <1>1 DEF MatchInv, StillSo
<1>4. ~new.live /\ new.kind = old.kind /\ new.receiver = old.receiver /\ new.split = old.split
  <2> HIDE DEF old
  <2> QED
    BY <1>2 DEF IsExpense
<1>5. MemberShape(ms) /\ IntegerBalances(ms) /\ members'[g] = ns /\ MemberShape(ns)
  BY <1>1, <1>2 DEF IInv, RowsTyped, Integral
<1>6. /\ expenses'[id] = new
      /\ \A k \in ExpenseIds \ {id} : expenses'[k] = expenses[k]
  BY <1>1, <1>2, <1>3 DEF IInv, RowsTyped
<1>7. old # NoRow
  BY <1>2, ExpenseFacts
<1> DEFINE split == p.split
<1> HIDE DEF p, id, old, new, g
<1>8. /\ MemberRows(ns) = MemberRows(ms) /\ Mobiles(ns) = Mobiles(ms)
      /\ \A i \in MemberRows(ms) :
           /\ ns[i].mobile = ms[i].mobile
           /\ ns[i].balance = ms[i].balance + (-1) * BalanceDeltaFor(old, split, ms[i].mobile)
  BY <1>5, DeltasMove
<1>9. ASSUME SplitsIn(expenses, g), Matches(ms, expenses, g)
      PROVE  Matches(ns, expenses', g)
  <2>1. Linked(old)
    BY <1>2, <1>3, <1>7, <1>9 DEF SplitsIn
  <2>2. \A n : BalanceDeltaFor(old, split, n) = BalanceDeltaFor(old, old.split, n)
    BY <1>2, <1>3, <2>1, LinkedSplit
  <2>3. \A n : Contribution(expenses, id, g, n) = BalanceDeltaFor(old, split, n)
    BY <1>2, <1>3, <2>2 DEF Contribution, LiveRows
  <2>4. \A n : Contribution(expenses', id, g, n) = 0
    BY <1>4, <1>6 DEF Contribution, LiveRows
  <2>5. SplitsIn(expenses', g)
    BY <1>4, <1>6, <1>9, <2>1 DEF SplitsIn, Linked
  <2>6. RowsAreTyped(expenses) /\ RowsAreTyped(expenses')
    BY DEF RowsAreTyped, IInv, RowsTyped
  <2>7. \A i \in MemberRows(ms) : ms[i].balance \in Int
    BY <1>5 DEF IntegerBalances, MemberRows
  <2>8. \A n : BalanceDeltaFor(old, split, n) \in Int
    BY <1>2, DeltaIsInteger
  <2> HIDE DEF ns, ms, split
  <2>9. \A i \in MemberRows(ms) :
          /\ ns[i].mobile = ms[i].mobile
          /\ ns[i].balance = ms[i].balance - Contribution(expenses, id, g, ms[i].mobile)
                                        + Contribution(expenses', id, g, ms[i].mobile)
    BY <1>8, <2>3, <2>4, <2>7, <2>8
  <2> QED
    BY <1>2, <1>5, <1>6, <1>8, <1>9, <2>5, <2>6, <2>9, RowChanged
<1>10. Kept
  <2> SUFFICES ASSUME NEW k \in Groups, SplitsIn(expenses, k), Matches(members[k], expenses, k)
               PROVE  Matches(members'[k], expenses', k)
    BY DEF Kept
  <2>1. CASE k = g
    BY <1>5, <1>9, <2>1
  <2>2. CASE k # g
    <3>1. members'[k] = members[k]
      BY <1>1, <2>2 DEF IInv, RowsTyped
    <3> QED
      BY <1>2, <1>3, <1>4, <1>6, <2>2, <3>1, KeptElsewhere
  <2> QED
    BY <2>1, <2>2
<1>11. CoverStep
  <2> SUFFICES ASSUME NEW k \in ExpenseIds, expenses'[k].live
               PROVE  /\ expenses'[k] = expenses[k]
                      /\ Covers(members[expenses'[k].group], members'[expenses'[k].group])
    BY DEF CoverStep
  <2>1. expenses'[k] = expenses[k]
    BY <1>4, <1>6
  <2>2. expenses[k] = NoRow \/ IsExpense(expenses[k])
    BY DEF IInv, RowsTyped
  <2> DEFINE q == expenses[k].group
  <2>3. q \in Groups
    BY <2>1, <2>2, ExpenseFacts DEF NoRow
  <2> HIDE DEF ns, q
  <2>4. q = g => members'[q] = ns
    BY <1>5
  <2>5. q # g => members'[q] = members[q]
    BY <1>1, <2>3 DEF IInv, RowsTyped
  <2>6. Covers(members[q], members'[q])
    BY <1>8, <2>4, <2>5 DEF Covers
  <2> QED
    BY <2>1, <2>6 DEF q
<1> QED
  BY <1>10, <1>11

\* Without a change to the rows, members who keep number and balance match.
LEMMA MembersKeep ==
  ASSUME OneSpelling, IInv, IInv', NEW g \in Groups, UNCHANGED expenses,
         SplitsIn(expenses, g), Matches(members[g], expenses, g),
         \A i \in MemberRows(members'[g]) :
           \/ /\ i \in MemberRows(members[g])
              /\ members'[g][i].mobile = members[g][i].mobile
              /\ members'[g][i].balance = members[g][i].balance
           \/ /\ members'[g][i].balance = 0
              /\ \A id \in LiveRows(expenses, g) :
                   Deltas(expenses, members'[g][i].mobile)[id] = 0
  PROVE  Matches(members'[g], expenses', g)
<1> DEFINE ms == members[g]
           ns == members'[g]
<1> SUFFICES ASSUME NEW i \in MemberRows(ns)
             PROVE  ns[i].balance = Expected(ns, expenses', g, ns[i].mobile)
  BY DEF Matches
<1>1. MemberShape(ms) /\ MemberShape(ns) /\ RowsAreTyped(expenses)
  BY DEF IInv, RowsTyped, RowsAreTyped
<1>2. ns[i].mobile \in Number
  BY <1>1 DEF MemberRows, MemberShape
<1> DEFINE n == ns[i].mobile
<1>3. Expected(ns, expenses', g, n) = Total(Deltas(expenses, n), LiveRows(expenses, g))
  BY <1>1, <1>2, ExpectedIsDeltas
<1>4. CASE /\ i \in MemberRows(ms) /\ n = ms[i].mobile
           /\ ns[i].balance = ms[i].balance
  <2>1. ms[i].balance = Expected(ms, expenses, g, n)
    BY <1>4 DEF Matches
  <2>2. Expected(ms, expenses, g, n) = Total(Deltas(expenses, n), LiveRows(expenses, g))
    BY <1>1, <1>2, ExpectedIsDeltas
  <2> QED
    BY <1>3, <1>4, <2>1, <2>2
<1>5. CASE /\ ns[i].balance = 0
           /\ \A id \in LiveRows(expenses, g) : Deltas(expenses, n)[id] = 0
  <2> HIDE DEF n
  <2>1. Total(Deltas(expenses, n), LiveRows(expenses, g)) = 0
    BY <1>5, LiveRowsFinite, TotalZero
  <2> QED
    BY <1>3, <1>5, <2>1 DEF n
<1> QED
  BY <1>4, <1>5

LEMMA UntouchedKeeps ==
  ASSUME NEW g, members'[g] = members[g], UNCHANGED expenses,
         Matches(members[g], expenses, g)
  PROVE  Matches(members'[g], expenses', g)
OBVIOUS

LEMMA CoversWhenSame ==
  ASSUME UNCHANGED expenses, IInv, \A g \in Groups : Covers(members[g], members'[g])
  PROVE  CoverStep
<1> SUFFICES ASSUME NEW id \in ExpenseIds, expenses[id].live
             PROVE  Covers(members[expenses[id].group], members'[expenses[id].group])
  BY DEF CoverStep
<1>1. IsExpense(expenses[id])
  BY DEF IInv, RowsTyped, NoRow
<1> QED
  BY <1>1, ExpenseFacts

\* Who joins is named by no row of the group: those who are named are members
\* or may have been removed, and those who may be removed do not join again.
LEMMA NewcomersOweNothing ==
  ASSUME OneSpelling, IInv, RowsCovered, NEW g \in Groups, SplitsIn(expenses, g),
         NEW n \in Number, n \notin Leavers, ~IsGroupMember(members[g], n),
         NEW id \in LiveRows(expenses, g)
  PROVE  Deltas(expenses, n)[id] = 0
<1> DEFINE row == expenses[id]
           ms == members[g]
<1>1. RowsAreTyped(expenses)
  BY DEF IInv, RowsTyped, RowsAreTyped
<1>2. /\ id \in ExpenseIds /\ row.live /\ row.group = g /\ IsExpense(row) /\ Linked(row)
      /\ Deltas(expenses, n)[id] = BalanceDeltaFor(row, row.split, n)
  BY <1>1, LiveRowFacts
<1>3. Covered(ms, row)
  BY <1>2 DEF RowsCovered
<1>4. n \notin Mobiles(ms)
  <2> SUFFICES ASSUME NEW i \in MemberRows(ms), ms[i].mobile = n
               PROVE  FALSE
    BY DEF Mobiles
  <2>1. n # NoNumber
    BY NobodyHasNoNumber
  <2>2. i \in RowsFor(ms, n)
    BY <2>1 DEF RowsFor, SameMobile
  <2> QED
    BY <2>2 DEF IsGroupMember
<1>5. IsSplit(row.split)
  BY <1>2, ExpenseFacts
<1> HIDE DEF row, ms
<1>6. BalanceDeltaFor(row, row.split, n) = 0
  BY <1>2, <1>3, <1>4, <1>5, UnnamedUnchanged DEF Covered
<1> QED
  BY <1>2, <1>6

LEMMA JoinKeeps ==
  ASSUME OneSpelling, IInv, IInv', MatchInv, Joiners \cap Leavers = {},
         NEW h \in Handlers, AddMemberTx(h)
  PROVE  Kept /\ CoverStep
<1> DEFINE p == plan[h]
           g == p.group
           ms == members[g]
           new == NewMember(p.mobile)
           ns == Append(ms, new)
<1>1. /\ p.op = "join" /\ UNCHANGED expenses
      /\ members' = [members EXCEPT ![g] = ns]
  BY DEF AddMemberTx
<1>2. g \in Groups /\ p.mobile \in Number
  BY <1>1, PlanFacts DEF IInv, RowsTyped
<1>3. p.mobile \notin Leavers /\ ~IsGroupMember(ms, p.mobile)
  BY <1>1 DEF MatchInv, StillSo
<1>4. MemberShape(ms) /\ members'[g] = ns
  BY <1>1, <1>2 DEF IInv, RowsTyped
<1>5. new.mobile = p.mobile /\ new.balance = 0
  BY DEF NewMember
<1>6. Mobiles(ms) \subseteq Mobiles(ns)
  BY <1>4, AppendGrows DEF Grows
<1>7. ASSUME NEW i \in MemberRows(ns)
      PROVE  (i \in MemberRows(ms) /\ ns[i] = ms[i]) \/ ns[i] = new
  <2>1. PICK k \in Nat : /\ DOMAIN ms = 1..k /\ DOMAIN ns = 1..(k + 1)
                         /\ \A j \in 1..k : ns[j] = ms[j]
                         /\ ns[k + 1] = new
    BY <1>4, AppendedRows
  <2>2. i \in 1..k \/ i = k + 1
    BY <2>1 DEF MemberRows
  <2> QED
    BY <2>1, <2>2 DEF MemberRows
<1> HIDE DEF p, g, new, ns
<1>8. Kept
  <2> SUFFICES ASSUME NEW q \in Groups, SplitsIn(expenses, q), Matches(members[q], expenses, q)
               PROVE  Matches(members'[q], expenses', q)
    BY DEF Kept
  <2>1. CASE q = g
    <3>1. \A id \in LiveRows(expenses, g) : Deltas(expenses, p.mobile)[id] = 0
      BY <1>2, <1>3, <2>1, NewcomersOweNothing DEF MatchInv
    <3> QED
      BY <1>1, <1>4, <1>5, <1>7, <2>1, <3>1, MembersKeep
  <2>2. CASE q # g
    <3>1. members'[q] = members[q]
      BY <1>1, <2>2 DEF IInv, RowsTyped
    <3> QED
      BY <1>1, <3>1, UntouchedKeeps
  <2> QED
    BY <2>1, <2>2
<1>9. \A q \in Groups : Covers(members[q], members'[q])
  BY <1>1, <1>4, <1>6 DEF Covers, IInv, RowsTyped
<1> QED
  BY <1>1, <1>8, <1>9, CoversWhenSame

LEMMA LeaveKeeps ==
  ASSUME OneSpelling, IInv, IInv', MatchInv, NEW h \in Handlers, RemoveMemberTx(h)
  PROVE  Kept /\ CoverStep
<1> DEFINE p == plan[h]
           g == p.group
           ms == members[g]
           ns == RemoveRows(ms, p.mobile)
<1>1. /\ p.op = "leave" /\ UNCHANGED expenses
      /\ members' = [members EXCEPT ![g] = ns]
  BY DEF RemoveMemberTx
<1>2. g \in Groups
  BY <1>1, PlanFacts DEF IInv, RowsTyped
<1>3. p.mobile \in Leavers
  BY <1>1 DEF MatchInv, StillSo
<1>4. MemberShape(ms) /\ members'[g] = ns
  BY <1>1, <1>2 DEF IInv, RowsTyped
<1>5. \A i \in MemberRows(ns) : i \in MemberRows(ms) /\ ns[i] = ms[i]
  BY <1>4 DEF MemberRows, RemoveRows, MemberShape
<1>6. Covers(ms, ns)
  <2> SUFFICES ASSUME NEW i \in MemberRows(ms), ms[i].mobile # p.mobile
               PROVE  ms[i].mobile \in Mobiles(ns)
    BY <1>3 DEF Covers, Mobiles
  <2>1. i \in MemberRows(ns) /\ ns[i] = ms[i]
    BY DEF MemberRows, RemoveRows
  <2> QED
    BY <2>1 DEF Mobiles
<1> HIDE DEF p, g, ns
<1>7. Kept
  <2> SUFFICES ASSUME NEW q \in Groups, SplitsIn(expenses, q), Matches(members[q], expenses, q)
               PROVE  Matches(members'[q], expenses', q)
    BY DEF Kept
  <2>1. CASE q = g
    BY <1>1, <1>4, <1>5, <2>1, MembersKeep
  <2>2. CASE q # g
    <3>1. members'[q] = members[q]
      BY <1>1, <2>2 DEF IInv, RowsTyped
    <3> QED
      BY <1>1, <3>1, UntouchedKeeps
  <2> QED
    BY <2>1, <2>2
<1>8. \A q \in Groups : Covers(members[q], members'[q])
  BY <1>1, <1>4, <1>6 DEF Covers, IInv, RowsTyped
<1> QED
  BY <1>1, <1>7, <1>8, CoversWhenSame

LEMMA DropKeeps ==
  ASSUME OneSpelling, IInv, IInv', MatchInv, NEW h \in Handlers, DeleteGroupTx(h)
  PROVE  Kept /\ CoverStep
<1> DEFINE g == plan[h].group
           ns == RemoveAllRows(members[g])
<1>1. /\ plan[h].op = "drop"
      /\ members' = [members EXCEPT ![g] = ns]
      /\ expenses' = [id \in ExpenseIds |-> IF id \in LiveRows(expenses, g)
                        THEN [expenses[id] EXCEPT !.live = FALSE] ELSE expenses[id]]
  BY DEF DeleteGroupTx
<1>2. g \in Groups
  BY <1>1, PlanFacts DEF IInv, RowsTyped
<1>3. members'[g] = ns /\ MemberShape(members[g])
  BY <1>1, <1>2 DEF IInv, RowsTyped
<1>4. MemberRows(ns) = {}
  BY <1>3 DEF MemberRows, RemoveAllRows, MemberShape
<1> HIDE DEF g, ns
<1>5. \A q \in Groups : q # g => members'[q] = members[q]
  BY <1>1 DEF IInv, RowsTyped
<1>6. ASSUME NEW id \in ExpenseIds
      PROVE  /\ id \in LiveRows(expenses, g) =>
                  ~expenses'[id].live /\ expenses'[id].group = g
             /\ id \notin LiveRows(expenses, g) => expenses'[id] = expenses[id]
  <2>1. CASE id \in LiveRows(expenses, g)
    <3>1. IsExpense(expenses[id]) /\ expenses[id].group = g
      BY <2>1 DEF LiveRows, NoRow, IInv, RowsTyped
    <3>2. /\ ~[expenses[id] EXCEPT !.live = FALSE].live
          /\ [expenses[id] EXCEPT !.live = FALSE].group = expenses[id].group
      BY <3>1 DEF IsExpense
    <3> QED
      BY <1>1, <2>1, <3>1, <3>2
  <2>2. CASE id \notin LiveRows(expenses, g)
    BY <1>1, <2>2
  <2> QED
    BY <2>1, <2>2
<1>7. Kept
  <2> SUFFICES ASSUME NEW q \in Groups, SplitsIn(expenses, q), Matches(members[q], expenses, q)
               PROVE  Matches(members'[q], expenses', q)
    BY DEF Kept
  <2>1. CASE q = g
    BY <1>3, <1>4, <2>1 DEF Matches
  <2>2. CASE q # g
    <3>1. LiveRows(expenses', q) = LiveRows(expenses, q)
      BY <1>6, <2>2 DEF LiveRows
    <3>2. \A k \in LiveRows(expenses, q) : k \in ExpenseIds /\ expenses'[k] = expenses[k]
      BY <1>6, <2>2 DEF LiveRows
    <3>3. \A n : \A k \in LiveRows(expenses, q) :
            RowReplays(members[q], expenses', n)[k] = RowReplays(members[q], expenses, n)[k]
      BY <3>2 DEF RowReplays
    <3>4. \A n : Expected(members[q], expenses', q, n) = Expected(members[q], expenses, q, n)
      BY <3>1, <3>3, LiveRowsFinite, ExpectedIsTotal, TotalEqual
    <3> QED
      BY <1>5, <2>2, <3>4 DEF Matches
  <2> QED
    BY <2>1, <2>2
<1>8. CoverStep
  <2> SUFFICES ASSUME NEW id \in ExpenseIds, expenses'[id].live
               PROVE  /\ expenses'[id] = expenses[id]
                      /\ Covers(members[expenses'[id].group], members'[expenses'[id].group])
    BY DEF CoverStep
  <2>1. expenses'[id] = expenses[id] /\ expenses[id].group # g
    BY <1>6 DEF LiveRows
  <2>2. IsExpense(expenses[id])
    BY <2>1 DEF IInv, RowsTyped, NoRow
  <2>3. expenses[id].group \in Groups
    BY <2>2, ExpenseFacts
  <2> QED
    BY <1>5, <2>1, <2>3 DEF Covers
<1> QED
  BY <1>7, <1>8

LEMMA RecomputeKeeps ==
  ASSUME IInv, IInv', MatchInv, NEW h \in Handlers, RecomputeTx(h)
  PROVE  Kept /\ CoverStep
<1> DEFINE g == plan[h].group
           ns == SetMemberBalances(members[g], plan[h].want)
<1>1. /\ plan[h].op = "recompute" /\ UNCHANGED expenses
      /\ members' = [members EXCEPT ![g] = ns]
  BY DEF RecomputeTx
<1>2. g \in Groups
  BY <1>1, PlanFacts DEF IInv, RowsTyped
<1>3. MemberShape(members[g]) /\ members'[g] = ns
  BY <1>1, <1>2 DEF IInv, RowsTyped
<1>4. Mobiles(ns) = Mobiles(members[g])
  BY <1>3, SetKeepsMembers DEF Mobiles
<1>5. Matches(members'[g], expenses', g)
  BY <1>2, RecomputeMatches DEF MatchInv, BalancesMatch, Matches
<1> HIDE DEF g, ns
<1>6. \A q \in Groups : q # g => members'[q] = members[q]
  BY <1>1 DEF IInv, RowsTyped
<1>7. Kept
  BY <1>1, <1>5, <1>6, UntouchedKeeps DEF Kept
<1>8. \A q \in Groups : Covers(members[q], members'[q])
  BY <1>3, <1>4, <1>6 DEF Covers
<1> QED
  BY <1>1, <1>7, <1>8, CoversWhenSame

LEMMA RollbackKeeps ==
  ASSUME IInv, NEW h \in Handlers, Rollback(h)
  PROVE  Kept /\ CoverStep
<1>1. UNCHANGED <<members, expenses>>
  BY DEF Rollback
<1>2. \A q \in Groups : Covers(members[q], members'[q])
  BY <1>1 DEF Covers
<1> QED
  BY <1>1, <1>2, CoversWhenSame DEF Kept

LEMMA MatchStep ==
  ASSUME IInv, Integral, MatchInv, ~StrayEdits, OneSpelling, Joiners \cap Leavers = {},
         \A k, l \in Handlers : k = l, [Next]_vars
  PROVE  MatchInv' /\ Kept
<1>0. IInv'
  BY IInvStep
<1>1. CASE UNCHANGED vars
  BY <1>1 DEF vars, MatchInv, RowsCovered, CorrectionsCurrent, StillSo, Kept
<1>2. ASSUME NEW h \in Handlers, Request(h)
      PROVE  MatchInv' /\ Kept
  <2>1. PICK op, d : Decide(h, op, d)
    BY <1>2, WhatIsDecided
  <2>2. UNCHANGED <<members, expenses>>
    BY <2>1 DEF Decide
  <2> QED
    BY <1>2, <2>2, RequestStill DEF Kept
<1>3. ASSUME NEW h \in Handlers, Transaction(h)
      PROVE  MatchInv' /\ Kept
  <2>1. Finish(h)
    BY <1>3 DEF Transaction, CreateExpenseTx, UpdateGroupExpenseTx, DeleteGroupExpenseTx,
                AddMemberTx, RemoveMemberTx, DeleteGroupTx, RecomputeTx, Rollback
  <2>2. Kept /\ CoverStep
    BY <1>0, <1>3, CreateKeeps, UpdateKeeps, DeleteKeeps, JoinKeeps, LeaveKeeps, DropKeeps,
       RecomputeKeeps, RollbackKeeps DEF Transaction
  <2> QED
    BY <2>1, <2>2, FinishMatch
<1> QED
  BY <1>1, <1>2, <1>3 DEF Next

LEMMA MatchInit == Init => MatchInv
<1> SUFFICES ASSUME Init
             PROVE  MatchInv
  OBVIOUS
<1>1. \A id \in ExpenseIds : expenses[id].live => ~Linked(expenses[id])
  BY LegacyAssumption DEF Init, NoRow
<1>2. \A h \in Handlers : plan[h] = Idle
  BY DEF Init
<1> QED
  BY <1>1, <1>2 DEF MatchInv, RowsCovered, CorrectionsCurrent, StillSo, Idle

\* Served one request at a time, no operation takes a group whose balances
\* match its expenses to one whose balances do not, in any order and number of
\* expenses, edits of payer and amount, settlements, deletions, joins,
\* removals, group deletions and recomputes. A number is written in one way
\* only, or an edit stores a payer whom no row holds; and who is removed does
\* not join again, or the new row starts at zero while the replay does not.
THEOREM StayMatched ==
  ASSUME ~StrayEdits, OneSpelling, Joiners \cap Leavers = {}, \A h, k \in Handlers : h = k
  PROVE  Spec => BalancesStayMatched
<1>1. IInv /\ Integral /\ MatchInv /\ [Next]_vars => MatchInv' /\ Kept
  BY MatchStep
<1>2. Kept => \A g \in Groups : SplitsStored(g) /\ BalancesMatch(g) => BalancesMatch(g)'
  BY DEF Kept, SplitsIn, SplitsStored, Matches, BalancesMatch
<1>3. IInv /\ Integral /\ MatchInv /\ [Next]_vars =>
        [\A g \in Groups : SplitsStored(g) /\ BalancesMatch(g) => BalancesMatch(g)']_vars
  BY <1>1, <1>2
<1> QED
  BY <1>1, <1>3, MatchInit, IntegersKept, PTL DEF Spec, BalancesStayMatched

-----------------------------------------------------------------------------
(* Rounding                                                                *)

LEMMA DivMod ==
  ASSUME NEW x \in Int, NEW P \in Nat \ {0}
  PROVE  x \div P \in Int /\ x % P \in 0..(P - 1) /\ x = P * (x \div P) + (x % P)
OBVIOUS

\* What is stored is within half a cent of the parts it stands for.
LEMMA StoredNear ==
  ASSUME NEW x \in Int, NEW up \in BOOLEAN
  PROVE  Stored(x, up) \in Int /\ 2 * Distance(Parts * Stored(x, up), x) <= Parts
<1>1. Parts \in Nat \ {0}
  BY RoundingAssumption
<1> DEFINE q == x \div Parts
           r == x % Parts
<1>2. q \in Int /\ r \in 0..(Parts - 1) /\ x = Parts * q + r
  BY <1>1, DivMod
<1>3. Parts * (q + 1) = Parts * q + Parts
  BY <1>1, <1>2
<1>4. /\ Stored(x, up) \in {q, q + 1}
      /\ Stored(x, up) = q => 2 * r <= Parts
      /\ Stored(x, up) = q + 1 => 2 * r >= Parts
  <2> HIDE DEF q
  <2> QED
    BY <1>1, <1>2 DEF Stored, q
<1> HIDE DEF q, r
<1>5. CASE Stored(x, up) = q
  BY <1>1, <1>2, <1>4, <1>5 DEF Distance
<1>6. CASE Stored(x, up) = q + 1
  BY <1>1, <1>2, <1>3, <1>4, <1>6 DEF Distance
<1> QED
  BY <1>4, <1>5, <1>6

\* An amount the splits divide: one of a request, or what a row keeps.
IsAmount(x) == x \in Int /\ \A s \in Splits : x % Cardinality(s) = 0

LEMMA SplitSize ==
  ASSUME NEW split \in Splits
  PROVE  Cardinality(split) \in Nat \ {0}
BY RoundingAssumption, FS_CardinalityType, FS_EmptySet

\* A share, exactly.
LEMMA ExactShare ==
  ASSUME NEW split \in Splits, NEW x, IsAmount(x)
  PROVE  /\ x \div Cardinality(split) \in Int
         /\ x = Cardinality(split) * (x \div Cardinality(split))
<1> DEFINE n == Cardinality(split)
<1>1. n \in Nat \ {0} /\ x \in Int /\ x % n = 0
  BY SplitSize DEF IsAmount
<1> HIDE DEF n
<1>2. x \div n \in Int /\ x = n * (x \div n) + (x % n)
  BY <1>1, DivMod
<1>3. n * (x \div n) \in Int
  BY <1>1, <1>2
<1> QED
  BY <1>1, <1>2, <1>3 DEF n

LEMMA RowsKeepAmounts ==
  ASSUME NEW price \in Int
  PROVE  IsAmount(Parts * price)
<1>1. Parts \in Nat \ {0}
  BY RoundingAssumption
<1>2. IsAmount(Parts)
  BY <1>1, RoundingAssumption DEF IsAmount
<1> SUFFICES ASSUME NEW split \in Splits
             PROVE  (Parts * price) % Cardinality(split) = 0
  BY <1>1 DEF IsAmount
<1> DEFINE n == Cardinality(split)
           q == Parts \div n
<1>3. n \in Nat \ {0} /\ q \in Int /\ Parts = n * q
  BY <1>2, SplitSize, ExactShare
<1> HIDE DEF n, q
<1>4. Parts * price = n * (q * price) /\ q * price \in Int
  BY <1>1, <1>3
<1>5. (n * (q * price)) % n = 0
  <2> DEFINE k == q * price
  <2>1. k \in Int
    BY <1>4
  <2> HIDE DEF k
  <2>2. n * k \in Int
    BY <1>3, <2>1
  <2>3. /\ (n * k) \div n \in Int /\ (n * k) % n \in 0..(n - 1)
        /\ n * k = n * ((n * k) \div n) + ((n * k) % n)
    BY <1>3, <2>2, DivMod
  <2> DEFINE j == (n * k) \div n
             r == (n * k) % n
  <2>4. j \in Int /\ r \in 0..(n - 1) /\ n * (k - j) = r
    BY <1>3, <2>1, <2>2, <2>3
  <2> HIDE DEF j, r
  <2>5. k - j \in Int /\ (k - j >= 1 => n * (k - j) >= n) /\ (k - j <= -1 => n * (k - j) < 0)
    BY <1>3, <2>1, <2>4
  <2>6. k - j = 0
    BY <1>3, <2>4, <2>5
  <2>7. r = 0
    BY <1>3, <2>4, <2>6
  <2> QED
    BY <2>7 DEF k, r
<1> QED
  BY <1>4, <1>5 DEF n

LEMMA AmountDelta ==
  ASSUME NEW split \in Splits, NEW payer, NEW m, NEW x, IsAmount(x)
  PROVE  Delta(payer, split, x, m) \in Int
<1>1. x \in Int /\ x \div Cardinality(split) \in Int
  BY ExactShare DEF IsAmount
<1> QED
  BY <1>1 DEF Delta

\* What a row may be.
EntryRow == [id : Entries, payer : Payers, split : Splits, price : Int]

LEMMA DeltaType ==
  ASSUME NEW e \in EntryRow, NEW m \in Payers
  PROVE  RowDelta(e, m) \in Int
<1>1. e.split \in Splits /\ IsAmount(Parts * e.price)
  BY RowsKeepAmounts DEF EntryRow
<1> QED
  BY <1>1, AmountDelta DEF RowDelta

\* Two amounts differ for no member by more than they differ themselves: a
\* member gets the amount, owes a share of it, or both.
LEMMA DeltasAreNear ==
  ASSUME NEW split \in Splits, NEW payer, NEW m,
         NEW x, NEW y, IsAmount(x), IsAmount(y)
  PROVE  Distance(Delta(payer, split, x, m), Delta(payer, split, y, m)) <= Distance(x, y)
<1> DEFINE n == Cardinality(split)
           u == x \div n
           v == y \div n
<1>1. n \in Nat \ {0} /\ u \in Int /\ v \in Int
  BY SplitSize, ExactShare
<1>2. x = n * u /\ y = n * v /\ x \in Int /\ y \in Int
  BY ExactShare DEF IsAmount
<1>3. /\ Delta(payer, split, x, m) =
           (IF m = payer THEN x ELSE 0) - (IF m \in split THEN u ELSE 0)
      /\ Delta(payer, split, y, m) =
           (IF m = payer THEN y ELSE 0) - (IF m \in split THEN v ELSE 0)
  BY DEF Delta
<1> HIDE DEF n, u, v
<1>4. x - y = n * (u - v) /\ u - v \in Int
  BY <1>1, <1>2
<1>5. /\ u - v >= 0 => n * (u - v) >= u - v
      /\ u - v <= 0 => n * (u - v) <= u - v
  <2> DEFINE d == u - v
             k == n - 1
  <2>1. k \in Nat /\ d \in Int /\ n = k + 1
    BY <1>1
  <2> HIDE DEF d, k
  <2>2. n * d = k * d + d
    BY <2>1
  <2>3. (d >= 0 => k * d >= 0) /\ (d <= 0 => k * d <= 0)
    BY <2>1
  <2>4. k * d \in Int
    BY <2>1
  <2> QED
    BY <2>1, <2>2, <2>3, <2>4 DEF d
<1> QED
  BY <1>1, <1>2, <1>3, <1>4, <1>5 DEF Distance

\* What the row of a request keeps is the amount asked for, or off by at most
\* half a cent if that has a fraction of a cent; so are its deltas.
LEMMA RowIsNear ==
  ASSUME NEW amount \in Prices, NEW up \in BOOLEAN, NEW split \in Splits,
         NEW payer, NEW m
  PROVE  /\ Stored(amount, up) \in Int
         /\ 2 * Distance(Delta(payer, split, amount, m),
                         Delta(payer, split, Parts * Stored(amount, up), m))
              <= Parts * (Applied(amount) - 1)
<1> DEFINE price == Stored(amount, up)
           x == Delta(payer, split, amount, m)
           y == Delta(payer, split, Parts * price, m)
<1>1. amount \in Nat /\ Parts \in Nat \ {0} /\ IsAmount(amount)
  BY RoundingAssumption DEF IsAmount
<1>2. price \in Int /\ 2 * Distance(Parts * price, amount) <= Parts
  BY <1>1, StoredNear
<1>3. Parts * price \in Int /\ IsAmount(Parts * price)
  <2> HIDE DEF price
  <2>1. price \in Int /\ Parts * price \in Int
    BY <1>1, <1>2
  <2>2. IsAmount(Parts * price)
    BY <2>1, RowsKeepAmounts
  <2> QED
    BY <2>1, <2>2
<1>4. x \in Int /\ y \in Int /\ Distance(x, y) <= Distance(amount, Parts * price)
  <2> DEFINE z == Parts * price
  <2> HIDE DEF z, price
  <2>1. IsAmount(amount) /\ IsAmount(z)
    BY <1>1, <1>3 DEF z
  <2>2. Delta(payer, split, amount, m) \in Int /\ Delta(payer, split, z, m) \in Int
    BY <2>1, AmountDelta
  <2>3. Distance(Delta(payer, split, amount, m), Delta(payer, split, z, m))
          <= Distance(amount, z)
    BY <2>1, DeltasAreNear
  <2> QED
    BY <2>2, <2>3 DEF z
<1>5. CASE amount % Parts = 0
  <2>1. price = amount \div Parts
    BY <1>1, <1>5 DEF Stored
  <2>2. Parts * price = amount
    BY <1>1, <1>2, <1>5, <2>1, DivMod
  <2>3. x = y
    BY <2>2
  <2>4. Parts * (Applied(amount) - 1) = 0
    BY <1>1, <1>5 DEF Applied
  <2> HIDE DEF x, y, price
  <2>5. 2 * Distance(x, y) = 0
    BY <1>4, <2>3 DEF Distance
  <2> QED
    BY <1>2, <2>4, <2>5 DEF x, y, price
<1>6. CASE amount % Parts # 0
  <2>1. Applied(amount) - 1 = 1
    BY <1>6 DEF Applied
  <2>2. Parts * (Applied(amount) - 1) = Parts
    BY <1>1, <2>1
  <2> HIDE DEF x, y, price
  <2>3. 2 * Distance(x, y) <= Parts
    BY <1>1, <1>2, <1>3, <1>4 DEF Distance
  <2> QED
    BY <1>2, <2>2, <2>3 DEF x, y, price
<1> QED
  BY <1>5, <1>6

\* The replay of m as a sum over the entries.
DeltasOf(m) == [e \in EntryRow |-> RowDelta(e, m)]

LEMMA ReplayIsTotal ==
  ASSUME NEW S, S \subseteq EntryRow, IsFiniteSet(S), NEW m
  PROVE  MapThenSumSet(LAMBDA e : RowDelta(e, m), S) = Total(DeltasOf(m), S)
<1> DEFINE iter == CHOOSE g : g = [s \in SUBSET S |->
                     IF s = {} THEN 0 ELSE RowDelta(Some(s), m) + g[s \ {Some(s)}]]
<1>1. PICK g : IsSum(g, DeltasOf(m), S)
  BY SumExists
<1>2. \A s \in SUBSET S : s # {} => DeltasOf(m)[Some(s)] = RowDelta(Some(s), m)
  BY SomeMember DEF DeltasOf
<1>3. g = [s \in SUBSET S |->
             IF s = {} THEN 0 ELSE RowDelta(Some(s), m) + g[s \ {Some(s)}]]
  BY <1>1, <1>2 DEF IsSum
<1>4. iter = [s \in SUBSET S |->
                IF s = {} THEN 0 ELSE RowDelta(Some(s), m) + iter[s \ {Some(s)}]]
  BY <1>3
<1>5. IsSum(iter, DeltasOf(m), S)
  <2> HIDE DEF iter
  <2> QED
    BY <1>2, <1>4 DEF IsSum
<1>6. iter[S] = Total(DeltasOf(m), S)
  <2> HIDE DEF iter
  <2>1. S \in SUBSET S
    OBVIOUS
  <2> QED
    BY <1>5, <2>1, TotalIsSum
<1>7. MapThenSumSet(LAMBDA e : RowDelta(e, m), S) = iter[S]
  BY DEF MapThenSumSet, MapThenFoldSet, Some
<1> QED
  BY <1>6, <1>7

LEMMA ReplayedFacts ==
  ASSUME NEW S, S \subseteq EntryRow, IsFiniteSet(S), NEW m \in Payers
  PROVE  /\ Total(DeltasOf(m), S) \in Int
         /\ \A e \in EntryRow \ S :
              Total(DeltasOf(m), S \cup {e}) = Total(DeltasOf(m), S) + RowDelta(e, m)
         /\ \A e \in S :
              Total(DeltasOf(m), S \ {e}) = Total(DeltasOf(m), S) - RowDelta(e, m)
<1> DEFINE D == DeltasOf(m)
<1>1. \A e \in EntryRow : D[e] = RowDelta(e, m) /\ D[e] \in Int
  BY DeltaType DEF DeltasOf
<1> HIDE DEF D
<1>2. Total(D, S) \in Int
  BY <1>1, TotalType
<1>3. ASSUME NEW e \in EntryRow \ S
      PROVE  Total(D, S \cup {e}) = Total(D, S) + RowDelta(e, m)
  <2>1. Total(D, S \cup {e}) = D[e] + Total(D, S)
    BY <1>1, TotalAdd
  <2> QED
    BY <1>1, <1>2, <2>1
<1>4. ASSUME NEW e \in S
      PROVE  Total(D, S \ {e}) = Total(D, S) - RowDelta(e, m)
  <2>1. Total(D, S) = D[e] + Total(D, S \ {e})
    BY <1>1, TotalRemove
  <2>2. IsFiniteSet(S \ {e})
    BY FS_RemoveElement
  <2>3. Total(D, S \ {e}) \in Int
    BY <1>1, <2>2, TotalType
  <2> QED
    BY <1>1, <2>1, <2>3
<1> QED
  BY <1>2, <1>3, <1>4 DEF D

-----------------------------------------------------------------------------
(* Drift                                                                   *)

EntriesAreDistinct == \A e, f \in entries : e.id = f.id => e = f

\* The inductive invariant: the entries are finitely many and have ids of
\* their own, so that each counts once in the replay.
DriftInv ==
  /\ balance \in [Payers -> Int] /\ roundings \in Nat
  /\ entries \subseteq EntryRow /\ IsFiniteSet(entries)
  /\ EntriesAreDistinct
  /\ DriftIsBounded

\* One update of the balances: it adds at most half a cent to what they were off
\* by, and what the change is off from that of the replay.
LEMMA OneUpdate ==
  ASSUME NEW old \in [Payers -> Int], NEW change \in [Payers -> Int],
         NEW R \in [Payers -> Int], NEW Q \in [Payers -> Int], NEW n \in Nat, NEW k \in Nat,
         \A m \in Payers : 2 * Distance(Parts * old[m], R[m]) <= Parts * n,
         \A m \in Payers : 2 * Distance(change[m], Q[m] - R[m]) <= Parts * k,
         NEW new \in Sums(old, change)
  PROVE  /\ new \in [Payers -> Int]
         /\ \A m \in Payers : 2 * Distance(Parts * new[m], Q[m]) <= Parts * (n + k + 1)
<1>1. PICK up \in SUBSET Payers :
        new = [m \in Payers |-> Stored(Parts * old[m] + change[m], m \in up)]
  BY DEF Sums
<1>2. /\ Parts \in Nat \ {0} /\ Parts * n \in Int /\ Parts * k \in Int
      /\ Parts * (n + k + 1) = Parts * n + Parts * k + Parts
  BY RoundingAssumption
<1>3. ASSUME NEW m \in Payers
      PROVE  /\ new[m] \in Int
             /\ 2 * Distance(Parts * new[m], Q[m]) <= Parts * (n + k + 1)
  <2> DEFINE x == Parts * old[m] + change[m]
  <2>1. old[m] \in Int /\ change[m] \in Int /\ R[m] \in Int /\ Q[m] \in Int
    OBVIOUS
  <2>2. Parts * old[m] \in Int /\ x \in Int /\ x - change[m] = Parts * old[m]
    BY <1>2, <2>1
  <2>3. new[m] = Stored(x, m \in up) /\ (m \in up) \in BOOLEAN
    BY <1>1
  <2> HIDE DEF x
  <2>4. new[m] \in Int /\ 2 * Distance(Parts * new[m], x) <= Parts
    BY <2>2, <2>3, StoredNear
  <2>5. Parts * new[m] \in Int
    BY <1>2, <2>4
  <2>6. /\ 2 * Distance(Parts * old[m], R[m]) <= Parts * n
        /\ 2 * Distance(change[m], Q[m] - R[m]) <= Parts * k
    OBVIOUS
  <2> QED
    BY <1>2, <2>1, <2>2, <2>4, <2>5, <2>6 DEF Distance
<1> QED
  BY <1>1, <1>3

\* What the balances should be for a set of rows.
Called(S) == [m \in Payers |-> Total(DeltasOf(m), S)]

Near(b, S, n) ==
  /\ b \in [Payers -> Int] /\ S \subseteq EntryRow /\ IsFiniteSet(S)
  /\ \A m \in Payers : 2 * Distance(Parts * b[m], Called(S)[m]) <= Parts * n

\* A row joins, and the balances are moved by the amount asked for.
LEMMA RowJoins ==
  ASSUME NEW old, NEW S, NEW n \in Nat, Near(old, S, n),
         NEW e \in EntryRow \ S, NEW amount \in Prices, NEW up \in BOOLEAN,
         e.price = Stored(amount, up),
         NEW new \in Sums(old, Asked(e.payer, e.split, amount))
  PROVE  Near(new, S \cup {e}, n + Applied(amount))
<1> DEFINE change == Asked(e.payer, e.split, amount)
           R == Called(S)
           Q == Called(S \cup {e})
           k == Applied(amount) - 1
<1>1. /\ old \in [Payers -> Int] /\ S \subseteq EntryRow /\ IsFiniteSet(S)
      /\ S \cup {e} \subseteq EntryRow /\ IsFiniteSet(S \cup {e})
      /\ e.split \in Splits /\ e.price \in Int
  BY FS_AddElement DEF Near, EntryRow
<1>2. IsAmount(amount) /\ k \in Nat /\ n + k + 1 = n + Applied(amount)
  BY RoundingAssumption DEF IsAmount, Applied
<1>3. ASSUME NEW m \in Payers
      PROVE  /\ change[m] \in Int /\ R[m] \in Int /\ Q[m] \in Int
             /\ 2 * Distance(change[m], Q[m] - R[m]) <= Parts * k
             /\ 2 * Distance(Parts * old[m], R[m]) <= Parts * n
  <2>1. change[m] = Delta(e.payer, e.split, amount, m) /\ change[m] \in Int
    BY <1>1, <1>2, AmountDelta DEF Asked
  <2>2. R[m] = Total(DeltasOf(m), S) /\ Q[m] = Total(DeltasOf(m), S \cup {e})
    BY DEF Called
  <2>3. RowDelta(e, m) \in Int /\ R[m] \in Int /\ Q[m] = R[m] + RowDelta(e, m)
    BY <1>1, <2>2, DeltaType, ReplayedFacts
  <2>4. Q[m] - R[m] = Delta(e.payer, e.split, Parts * Stored(amount, up), m)
    <3> HIDE DEF R, Q
    <3>1. Q[m] - R[m] = RowDelta(e, m)
      BY <2>3
    <3> QED
      BY <3>1 DEF RowDelta
  <2>5. 2 * Distance(change[m], Q[m] - R[m]) <= Parts * k
    BY <1>1, <2>1, <2>4, RowIsNear
  <2> QED
    BY <2>1, <2>3, <2>5 DEF Near
<1>4. change \in [Payers -> Int] /\ R \in [Payers -> Int] /\ Q \in [Payers -> Int]
  BY <1>3 DEF Asked, Called
<1> HIDE DEF change, R, Q, k
<1>5. new \in Sums(old, change)
  BY DEF change
<1>6. /\ new \in [Payers -> Int]
      /\ \A m \in Payers : 2 * Distance(Parts * new[m], Q[m]) <= Parts * (n + k + 1)
  BY <1>1, <1>2, <1>3, <1>4, <1>5, OneUpdate
<1> QED
  BY <1>1, <1>2, <1>6 DEF Near, Q

\* A row goes, and the balances are moved back by what it keeps.
LEMMA RowGoes ==
  ASSUME NEW old, NEW S, NEW n \in Nat, Near(old, S, n),
         NEW e \in S, NEW new \in Sums(old, TakenBack(e))
  PROVE  Near(new, S \ {e}, n + 1)
<1> DEFINE change == TakenBack(e)
           R == Called(S)
           Q == Called(S \ {e})
<1>1. /\ old \in [Payers -> Int] /\ S \subseteq EntryRow /\ IsFiniteSet(S)
      /\ S \ {e} \subseteq EntryRow /\ IsFiniteSet(S \ {e}) /\ e \in EntryRow
  BY FS_RemoveElement DEF Near
<1>2. ASSUME NEW m \in Payers
      PROVE  /\ change[m] \in Int /\ R[m] \in Int /\ Q[m] \in Int
             /\ 2 * Distance(change[m], Q[m] - R[m]) <= Parts * 0
             /\ 2 * Distance(Parts * old[m], R[m]) <= Parts * n
  <2>1. RowDelta(e, m) \in Int /\ change[m] = -RowDelta(e, m)
    BY <1>1, DeltaType DEF TakenBack
  <2>2. R[m] = Total(DeltasOf(m), S) /\ Q[m] = Total(DeltasOf(m), S \ {e})
    BY DEF Called
  <2>3. R[m] \in Int /\ Q[m] = R[m] - RowDelta(e, m)
    BY <1>1, <2>2, ReplayedFacts
  <2> HIDE DEF change, R, Q
  <2>4. change[m] \in Int /\ Q[m] - R[m] = change[m] /\ Q[m] \in Int
    BY <2>1, <2>3
  <2>5. 2 * Distance(change[m], Q[m] - R[m]) = 0 /\ Parts * 0 = 0
    BY <2>4, RoundingAssumption DEF Distance
  <2> QED
    BY <2>3, <2>4, <2>5 DEF Near, R
<1>3. change \in [Payers -> Int] /\ R \in [Payers -> Int] /\ Q \in [Payers -> Int]
  BY <1>2 DEF TakenBack, Called
<1> HIDE DEF change, R, Q
<1>4. new \in Sums(old, change)
  BY DEF change
<1>5. /\ new \in [Payers -> Int]
      /\ \A m \in Payers : 2 * Distance(Parts * new[m], Q[m]) <= Parts * (n + 0 + 1)
  BY <1>1, <1>2, <1>3, <1>4, OneUpdate
<1>6. n + 0 + 1 = n + 1
  OBVIOUS
<1> QED
  BY <1>1, <1>5, <1>6 DEF Near, Q

\* What the replay is, in this state and the next.
ReplayKnown ==
  entries \subseteq EntryRow /\ IsFiniteSet(entries) =>
    \A m \in Payers : Replayed(m) = Total(DeltasOf(m), entries)

LEMMA ReplayedIs == ReplayKnown
BY ReplayIsTotal DEF Replayed, ReplayKnown

LEMMA ReplayedIsNext == ReplayKnown'
BY ReplayedIs, PTL

\* A recompute leaves every balance within half a cent of the replay.
LEMMA RecomputeNear ==
  ASSUME DriftInv, RecomputeBalances
  PROVE  /\ balance' \in [Payers -> Int]
         /\ \A m \in Payers : 2 * Distance(Parts * balance'[m], Replayed(m)') <= Parts
<1> DEFINE R == [m \in Payers |-> Replayed(m)]
<1>1. PICK tie \in SUBSET Payers, up \in SUBSET Payers : balance' = Recomputed(R, tie, up)
  BY DEF RecomputeBalances
<1>2. entries' = entries
  BY DEF RecomputeBalances
<1>3. \A m \in Payers : Replayed(m) = Total(DeltasOf(m), entries)
                      /\ Replayed(m)' = Total(DeltasOf(m), entries)
  BY <1>2, ReplayedIs, ReplayedIsNext DEF DriftInv, ReplayKnown
<1>4. \A m \in Payers : Replayed(m) \in Int /\ Replayed(m)' = Replayed(m)
  BY <1>3, ReplayedFacts DEF DriftInv
<1>5. ASSUME NEW m \in Payers
      PROVE  /\ balance'[m] \in Int
             /\ 2 * Distance(Parts * balance'[m], Replayed(m)') <= Parts
  <2>1. R[m] = Replayed(m) /\ R[m] \in Int
    BY <1>4
  <2>2. Parts \in Nat /\ balance[m] \in Int /\ Parts * balance[m] \in Int
    BY RoundingAssumption DEF DriftInv
  <2>3. balance'[m] = IF InTolerance(Distance(Parts * balance[m], R[m]), m \in tie)
                      THEN balance[m] ELSE Stored(R[m], m \in up)
    <3> HIDE DEF R
    <3> QED
      BY <1>1 DEF Recomputed
  <2>4. CASE InTolerance(Distance(Parts * balance[m], R[m]), m \in tie)
    <3>1. 2 * Distance(Parts * balance[m], R[m]) <= Parts
      <4> HIDE DEF R
      <4> QED
        BY <2>1, <2>2, <2>4 DEF InTolerance, Distance
    <3> QED
      BY <1>4, <2>1, <2>2, <2>3, <2>4, <3>1
  <2>5. CASE ~InTolerance(Distance(Parts * balance[m], R[m]), m \in tie)
    <3>1. (m \in up) \in BOOLEAN
      OBVIOUS
    <3>2. balance'[m] = Stored(R[m], m \in up)
      BY <2>3, <2>5
    <3>3. balance'[m] \in Int /\ 2 * Distance(Parts * balance'[m], R[m]) <= Parts
      <4> HIDE DEF R
      <4> QED
        BY <2>1, <3>1, <3>2, StoredNear
    <3> QED
      BY <1>4, <2>1, <3>3
  <2> QED
    BY <2>4, <2>5
<1>6. balance' \in [Payers -> Int]
  <2>1. DOMAIN balance' = Payers /\ balance' = [m \in Payers |-> balance'[m]]
    BY <1>1 DEF Recomputed
  <2> QED
    BY <1>5, <2>1
<1> QED
  BY <1>5, <1>6

LEMMA DriftInit == RoundingInit => DriftInv
<1> SUFFICES ASSUME RoundingInit PROVE DriftInv
  OBVIOUS
<1>1. IsFiniteSet(entries) /\ entries \subseteq EntryRow /\ entries = {}
  BY FS_EmptySet DEF RoundingInit
<1>2. \A m \in Payers : Replayed(m) = 0
  BY <1>1, ReplayedIs, TotalEmpty DEF ReplayKnown
<1>3. DriftIsBounded
  BY <1>2, RoundingAssumption DEF RoundingInit, DriftIsBounded, Distance
<1> QED
  BY <1>1, <1>3 DEF RoundingInit, DriftInv, EntriesAreDistinct

LEMMA DriftStep == DriftInv /\ [RoundingNext]_roundingVars => DriftInv'
<1> SUFFICES ASSUME DriftInv, [RoundingNext]_roundingVars PROVE DriftInv'
  OBVIOUS
<1>0. roundings \in Nat /\ EntriesAreDistinct /\ Near(balance, entries, roundings)
  BY ReplayedIs DEF DriftInv, DriftIsBounded, ReplayKnown, Near, Called
\* What is left to show once the next state is known to be near.
<1>a. ASSUME roundings' \in Nat, EntriesAreDistinct', Near(balance', entries', roundings')
      PROVE  DriftInv'
  BY <1>a, ReplayedIsNext DEF DriftInv, DriftIsBounded, ReplayKnown, Near, Called
<1>1. ASSUME NEW id \in Entries, NEW payer \in Payers, NEW split \in Splits,
             NEW amount \in Prices, AddEntry(id, payer, split, amount)
      PROVE  DriftInv'
  <2>1. PICK up \in BOOLEAN :
          entries' = entries \cup
            {[id |-> id, payer |-> payer, split |-> split, price |-> Stored(amount, up)]}
    BY <1>1 DEF AddEntry
  <2> DEFINE e == [id |-> id, payer |-> payer, split |-> split, price |-> Stored(amount, up)]
  <2>2. e \in EntryRow /\ e \notin entries
    <3>1. Stored(amount, up) \in Int
      BY RowIsNear
    <3> QED
      BY <1>1, <3>1 DEF EntryRow, AddEntry
  <2>3. /\ e.payer = payer /\ e.split = split /\ e.price = Stored(amount, up) /\ e.id = id
        /\ balance' \in Sums(balance, Asked(payer, split, amount))
        /\ entries' = entries \cup {e} /\ id \notin {f.id : f \in entries}
    BY <1>1, <2>1 DEF AddEntry
  <2>4. roundings' = roundings + Applied(amount) /\ roundings' \in Nat
    BY <1>0, <1>1 DEF AddEntry, Rounded, Applied
  <2> HIDE DEF e
  <2>5. Near(balance', entries', roundings')
    BY <1>0, <2>2, <2>3, <2>4, RowJoins
  <2>6. EntriesAreDistinct'
    BY <1>0, <2>3 DEF EntriesAreDistinct
  <2> QED
    BY <1>a, <2>4, <2>5, <2>6
<1>2. ASSUME NEW e \in entries, RemoveEntry(e) PROVE DriftInv'
  <2>1. entries' = entries \ {e} /\ roundings' = roundings + 1 /\ roundings' \in Nat
    BY <1>0, <1>2 DEF RemoveEntry, Rounded
  <2>2. Near(balance', entries', roundings')
    BY <1>0, <1>2, <2>1, RowGoes DEF RemoveEntry
  <2>3. EntriesAreDistinct'
    BY <1>0, <2>1 DEF EntriesAreDistinct
  <2> QED
    BY <1>a, <2>1, <2>2, <2>3
<1>3. ASSUME NEW e \in entries, NEW payer \in Payers, NEW amount \in Prices,
             EditEntry(e, payer, amount)
      PROVE  DriftInv'
  <2>1. PICK up \in BOOLEAN :
          entries' = (entries \ {e}) \cup
            {[e EXCEPT !.payer = payer, !.price = Stored(amount, up)]}
    BY <1>3 DEF EditEntry
  <2> DEFINE edited == [e EXCEPT !.payer = payer, !.price = Stored(amount, up)]
             rest == entries \ {e}
  <2>2. e \in EntryRow
    BY <1>0 DEF Near
  <2>3. /\ edited \in EntryRow /\ edited.id = e.id /\ edited.payer = payer
        /\ edited.split = e.split /\ edited.price = Stored(amount, up)
    <3>1. Stored(amount, up) \in Int
      BY <2>2, RowIsNear DEF EntryRow
    <3> QED
      BY <2>2, <3>1 DEF EntryRow
  <2>4. PICK reverted \in Sums(balance, TakenBack(e)) :
          balance' \in Sums(reverted, Asked(payer, e.split, amount))
    BY <1>3 DEF EditEntry
  <2>5. entries' = rest \cup {edited}
    BY <2>1
  <2>6. edited \notin rest
    BY <1>0, <2>3 DEF EntriesAreDistinct
  <2> HIDE DEF edited, rest
  <2>7. Near(reverted, rest, roundings + 1)
    BY <1>0, <2>4, RowGoes DEF rest
  <2>8. roundings' = (roundings + 1) + Applied(amount) /\ roundings' \in Nat
    BY <1>0, <1>3 DEF EditEntry, Rounded, Applied
  <2>9. Near(balance', entries', roundings')
    <3>1. roundings + 1 \in Nat
      BY <1>0
    <3> QED
      BY <2>3, <2>4, <2>5, <2>6, <2>7, <2>8, <3>1, RowJoins
  <2>10. EntriesAreDistinct'
    BY <1>0, <2>3, <2>5 DEF EntriesAreDistinct, rest
  <2> QED
    BY <1>a, <2>8, <2>9, <2>10
<1>4. CASE RecomputeBalances
  <2>1. entries' = entries /\ roundings' = 1
    BY <1>4 DEF RecomputeBalances
  <2>2. /\ balance' \in [Payers -> Int]
        /\ \A m \in Payers : 2 * Distance(Parts * balance'[m], Replayed(m)') <= Parts
    BY <1>4, RecomputeNear
  <2>3. Parts * 1 = Parts
    BY RoundingAssumption
  <2> QED
    BY <2>1, <2>2, <2>3 DEF DriftInv, DriftIsBounded, EntriesAreDistinct
<1>5. CASE UNCHANGED roundingVars
  <2>1. balance' = balance /\ entries' = entries /\ roundings' = roundings
    BY <1>5 DEF roundingVars
  <2> QED
    BY <1>0, <1>a, <2>1 DEF EntriesAreDistinct
<1> QED
  BY <1>1, <1>2, <1>3, <1>4, <1>5 DEF RoundingNext

\* A balance is off from what the rows call for by at most half a cent for every
\* update it has seen and for every amount with a fraction of a cent, whatever
\* the amounts and splits, and for any number of members and expenses (the
\* decimal(12,2) columns, the float64 amounts and shares).
THEOREM DriftBounded == RoundingSpec => []DriftIsBounded
<1>1. DriftInv => DriftIsBounded
  BY DEF DriftInv
<1> QED
  BY <1>1, DriftInit, DriftStep, PTL DEF RoundingSpec

\* A recompute with -apply leaves no balance more than half a cent off.
THEOREM RecomputeEnds == RoundingSpec => RecomputeEndsDrift
<1>1. DriftInv /\ [RoundingNext]_roundingVars =>
        [RecomputeBalances =>
           \A m \in Payers : 2 * Distance(Parts * balance'[m], Replayed(m)') <= Parts]_roundingVars
  BY RecomputeNear
<1> QED
  BY <1>1, DriftInit, DriftStep, PTL DEF RoundingSpec, RecomputeEndsDrift

=============================================================================
