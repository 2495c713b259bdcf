------------------------ MODULE MCReportsAndLockout ------------------------
(***************************************************************************)
(* Two payment reports between two people, two handlers deciding at once,  *)
(* and a third transaction id for the insert that is rolled back; and the  *)
(* lock-out of one account with two requests at once. The two share no     *)
(* variable, so a behaviour of one is explored while the other stands      *)
(* still.                                                                  *)
(***************************************************************************)
EXTENDS PaymentReports, MpinLockout, TLC

CONSTANTS r1, r2, p1, p2, h1, h2, t1, t2, t3

VARIABLE part

PartsInit == Init /\ LockoutInit /\ part \in {"reports", "lockout"}

PartsNext ==
  /\ \/ part = "reports" /\ Next /\ UNCHANGED lockoutVars
     \/ part = "lockout" /\ LockoutNext /\ UNCHANGED vars
  /\ UNCHANGED part

\* The fairness of both: it asks nothing of the part that stands still, where
\* nothing is in progress.
PartsSpec ==
  /\ PartsInit /\ [][PartsNext]_<<vars, lockoutVars, part>>
  /\ Fairness
  /\ WF_lockoutVars(Tick)

=============================================================================
