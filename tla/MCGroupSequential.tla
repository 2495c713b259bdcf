------------------------- MODULE MCGroupSequential -------------------------
(***************************************************************************)
(* One request at a time, every operation: an owner a and a member b at    *)
(* first, c joins later and b may leave. Balances may start with drift,    *)
(* and there may be rows of an older release: an expense without a split   *)
(* set and a settlement without a receiver.                                *)
(***************************************************************************)
EXTENDS GroupLedger

CONSTANTS a, b, c, g1, h1

Bare(p) == <<p, "bare">>
MCOwnerOf == [g \in {g1} |-> a]
MCNumbers == {Bare(a), Bare(b)}
MCSplitRequests == {<<>>, <<Bare(b), Bare(b)>>}
MCJoiners == {Bare(c)}
MCLeavers == {Bare(b)}
MCGroupRequests == {<<Bare(b)>>}
OldRow(kind) ==
  [group |-> g1, kind |-> kind, payer |-> Bare(b), receiver |-> NoNumber,
   split |-> <<>>, amount |-> 6, createdBy |-> b, live |-> TRUE]
MCLegacyRows == {<<>>, <<OldRow("expense")>>, <<OldRow("expense"), OldRow("settlement")>>}
MCInitialDrifts == {[p \in {a, b, c} |-> 0], [p \in {a, b, c} |-> IF p = b THEN 5 ELSE 0]}

\* Every split in use divides every amount: one to three members.
ASSUME \A amount \in Amounts, n \in 1..3 : amount % n = 0
=============================================================================
