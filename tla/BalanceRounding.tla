--------------------------- MODULE BalanceRounding ---------------------------
(***************************************************************************)
(* What rounding does to the balances of a group. services/                *)
(* group_service.go works out shares as float64 quotients, and the         *)
(* database adds each delta to a decimal(12,2) column (models/group.go,    *)
(* repositories/group_repository.go). This is one group whose members have *)
(* one number each and stay; requests one at a time. The tables, guards    *)
(* and overlapping requests are in GroupLedger, where every share is whole.*)
(*                                                                         *)
(* A balance is a number of cents, counted from some state in which it was *)
(* right; a delta is a number of parts, of which Parts make a cent. The    *)
(* amount of a request is a number of parts too: nothing rounds it, and it *)
(* moves the balances as it is, while the row of the expense, from which   *)
(* the deltas are taken back and replayed, keeps it to the cent. Shares    *)
(* are exact, parts being as small as the splits need. A sum that ends     *)
(* half-way between two cents may be stored as either: it is worked out in *)
(* double precision.                                                       *)
(***************************************************************************)
EXTENDS Integers, FiniteSets, FiniteSetsExt

CONSTANTS
  Payers,        \* members; anybody may pay
  Prices,        \* the amounts requests carry, in parts
  Splits,        \* sets of members an expense is split over
  Entries,       \* ids of expenses
  Parts,         \* parts of a cent
  MaxRoundings   \* bound: roundings

ASSUME RoundingAssumption ==
  /\ Prices \subseteq Nat \ {0} /\ MaxRoundings \in Nat /\ Parts \in Nat \ {0}
  /\ \A s \in Splits : /\ s # {} /\ s \subseteq Payers /\ IsFiniteSet(s)
                       /\ \A x \in Prices \cup {Parts} : x % Cardinality(s) = 0

VARIABLES
  balance,     \* the balance column of each member
  entries,     \* the live expenses; a price is what the row keeps, in cents
  roundings    \* roundings behind the balances; a recompute counts as one

roundingVars == <<balance, entries, roundings>>

-----------------------------------------------------------------------------
Distance(x, y) == IF x < y THEN y - x ELSE x - y

\* What a column holds after x parts were stored in it.
Truncated(x, up) == x \div Parts                           \* faulty variant
Stored(x, up) ==
  LET rest == 2 * (x % Parts)
  IN (x \div Parts) + (IF rest > Parts \/ (rest = Parts /\ up) THEN 1 ELSE 0)

\* The payer is credited the amount, and everyone in the split owes a share.
Delta(payer, split, amount, m) ==
  (IF m = payer THEN amount ELSE 0)
    - (IF m \in split THEN amount \div Cardinality(split) ELSE 0)

RowDelta(e, m) == Delta(e.payer, e.split, Parts * e.price, m)

Asked(payer, split, amount) == [m \in Payers |-> Delta(payer, split, amount, m)]
TakenBack(e) == [m \in Payers |-> -RowDelta(e, m)]

\* The balances after a change: "up" are the members whose sum falls to the
\* upper side if it is half-way.
Sums(old, change) ==
  {[m \in Payers |-> Stored(Parts * old[m] + change[m], m \in up)] : up \in SUBSET Payers}

Replayed(m) == MapThenSumSet(LAMBDA e : RowDelta(e, m), entries)

RoundingInit ==
  /\ balance = [m \in Payers |-> 0]
  /\ entries = {}
  /\ roundings = 0

-----------------------------------------------------------------------------
Rounded(n) == roundings + n <= MaxRoundings /\ roundings' = roundings + n

\* An amount with a fraction of a cent is rounded in its row as well.
Applied(amount) == IF amount % Parts = 0 THEN 1 ELSE 2

AddEntry(id, payer, split, amount) ==
  /\ id \notin {e.id : e \in entries}
  /\ \E up \in BOOLEAN :
       entries' = entries \cup
         {[id |-> id, payer |-> payer, split |-> split, price |-> Stored(amount, up)]}
  /\ balance' \in Sums(balance, Asked(payer, split, amount))
  /\ Rounded(Applied(amount))

RemoveEntry(e) ==
  /\ entries' = entries \ {e}
  /\ balance' \in Sums(balance, TakenBack(e))
  /\ Rounded(1)

\* A revert of what the row keeps and a re-apply of what the request asks for,
\* over the same split.
EditEntry(e, payer, amount) ==
  /\ \E up \in BOOLEAN :
       entries' = (entries \ {e}) \cup
         {[e EXCEPT !.payer = payer, !.price = Stored(amount, up)]}
  /\ \E reverted \in Sums(balance, TakenBack(e)) :
       balance' \in Sums(reverted, Asked(payer, e.split, amount))
  /\ Rounded(1 + Applied(amount))

\* Less than half a cent off is no drift; exactly half a cent may be either.
TenTimesAsLax(x, tie) == x < 10 * Parts                    \* faulty variant
InTolerance(x, tie) == 2 * x < Parts \/ (2 * x = Parts /\ tie)

Recomputed(replayed, tie, up) ==
  [m \in Payers |->
     IF InTolerance(Distance(Parts * balance[m], replayed[m]), m \in tie) THEN balance[m]
     ELSE Stored(replayed[m], m \in up)]

RecomputeBalances ==
  /\ UNCHANGED entries
  /\ roundings' = 1
  /\ LET replayed == [m \in Payers |-> Replayed(m)]
     IN balance' \in {Recomputed(replayed, tie, up) : tie, up \in SUBSET Payers}

-----------------------------------------------------------------------------
RoundingNext ==
  \/ \E id \in Entries, payer \in Payers, split \in Splits, amount \in Prices :
       AddEntry(id, payer, split, amount)
  \/ \E e \in entries : RemoveEntry(e)
  \/ \E e \in entries, payer \in Payers, amount \in Prices : EditEntry(e, payer, amount)
  \/ RecomputeBalances

RoundingSpec == RoundingInit /\ [][RoundingNext]_roundingVars

-----------------------------------------------------------------------------
(* Properties                                                              *)

\* A balance drifts from what the rows of the expenses call for by at most half
\* a cent for every rounding: each update of the balances is one, and so is each
\* amount with a fraction of a cent, which the row rounds and the balances do
\* not. This holds whatever expenses are added, edited and deleted.
DriftIsBounded ==
  \A m \in Payers : 2 * Distance(Parts * balance[m], Replayed(m)) <= Parts * roundings

\* A recompute with -apply leaves no balance more than half a cent off, however
\* much had come together, so its tolerance hides no drift.
RecomputeEndsDrift ==
  [][RecomputeBalances =>
       \A m \in Payers : 2 * Distance(Parts * balance'[m], Replayed(m)') <= Parts]_roundingVars

\* "The returned deltas always sum to zero, so applying and then reverting is a
\* no-op" (expenseBalanceDeltas): when every expense is reverted, every balance
\* is what it was.
RevertIsNoOp == entries = {} => \A m \in Payers : balance[m] = 0

=============================================================================
