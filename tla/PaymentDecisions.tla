------------------------- MODULE PaymentDecisions -------------------------
(***************************************************************************)
(* What the payment report flow promises: a reported payment is decided at *)
(* most once, by its receiver, and it settles money exactly when the       *)
(* decision is to confirm. Deciding and settling are one step.             *)
(***************************************************************************)
EXTENDS Naturals

CONSTANTS
  Reports,   \* payment reports
  Payments   \* settlement transactions that may be made

VARIABLES
  decision,  \* what was decided about each report
  settledBy  \* the settlement transactions made for each report

decisionVars == <<decision, settledBy>>

Init ==
  /\ decision = [r \in Reports |-> "unreported"]
  /\ settledBy = [r \in Reports |-> {}]

Report(r) ==
  /\ decision[r] = "unreported"
  /\ decision' = [decision EXCEPT ![r] = "awaiting"]
  /\ UNCHANGED settledBy

Confirm(r) ==
  /\ decision[r] = "awaiting"
  /\ decision' = [decision EXCEPT ![r] = "confirmed"]
  /\ \E p \in Payments :
       /\ \A q \in Reports : p \notin settledBy[q]
       /\ settledBy' = [settledBy EXCEPT ![r] = {p}]

Reject(r) ==
  /\ decision[r] = "awaiting"
  /\ decision' = [decision EXCEPT ![r] = "rejected"]
  /\ UNCHANGED settledBy

Next == \E r \in Reports : Report(r) \/ Confirm(r) \/ Reject(r)

Spec == Init /\ [][Next]_decisionVars
=============================================================================
