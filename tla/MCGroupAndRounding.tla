------------------------ MODULE MCGroupAndRounding ------------------------
(***************************************************************************)
(* A group with two requests in progress at once, and the balances of      *)
(* another in cents and parts of a cent. They share no variable, so a      *)
(* behaviour of one is explored while the other stands still.              *)
(***************************************************************************)
EXTENDS MCGroupConcurrent, BalanceRounding

CONSTANTS p1, p2, p3

VARIABLE part

AllOrTwo == {{p1, p2, p3}, {p1, p2}}
Interchangeable == HandlerSymmetry \cup Permutations({p1, p2})

PartsInit == Init /\ RoundingInit /\ part \in {"group", "rounding"}

PartsNext ==
  /\ \/ part = "group" /\ Next /\ UNCHANGED roundingVars
     \/ part = "rounding" /\ RoundingNext /\ UNCHANGED vars
  /\ UNCHANGED part

PartsSpec == PartsInit /\ [][PartsNext]_<<vars, roundingVars, part>>

=============================================================================
