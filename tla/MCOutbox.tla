----------------------------- MODULE MCOutbox -----------------------------
(***************************************************************************)
(* Instances of OutboxDispatch. Two of the events share a key, the way the *)
(* key of a member added twice does.                                       *)
(***************************************************************************)
EXTENDS OutboxDispatch, TLC

CONSTANTS e1, e2, e3, j1, j2, poller, goroutine

TwoKeys == (e1 :> j1) @@ (e2 :> j1) @@ (e3 :> j2)
TwoEvents == (e1 :> j1) @@ (e2 :> j2)
OneEvent == e1 :> j1
Batches == [w \in Workers |-> IF w = poller THEN 2 ELSE 1]
=============================================================================
