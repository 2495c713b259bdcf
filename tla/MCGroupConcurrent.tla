------------------------- MODULE MCGroupConcurrent -------------------------
(***************************************************************************)
(* Two requests in progress at once. The owner a and member b have a row   *)
(* each, and c may join. An older release left either nothing or an        *)
(* expense without a split set.                                            *)
(***************************************************************************)
EXTENDS GroupLedger, TLC

CONSTANTS a, b, c, g1, h1, h2

Bare(p) == <<p, "bare">>
MCOwnerOf == [g \in {g1} |-> a]
MCJoiners == {Bare(c)}
MCNumbers == {Bare(a), Bare(b), Bare(c)}
MCMixedNumbers == {Bare(a), <<b, "intl">>}
MCSplitRequests == {<<>>, <<Bare(b)>>}
MCGroupRequests == {<<Bare(b)>>}
MCNoLegacyRows == {<<>>}
MCLegacyRows ==
  {<<>>,
   <<[group |-> g1, kind |-> "expense", payer |-> Bare(b), receiver |-> NoNumber,
      split |-> <<>>, amount |-> 6, createdBy |-> b, live |-> TRUE]>>}
MCInitialDrifts == {[p \in {a, b, c} |-> 0]}
HandlerSymmetry == Permutations({h1, h2})

\* Every split in use divides every amount: one to three members.
ASSUME \A amount \in Amounts, n \in 1..3 : amount % n = 0
=============================================================================
