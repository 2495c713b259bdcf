-------------------------- MODULE PaymentReports --------------------------
(***************************************************************************)
(* Reporting, confirming and rejecting a payment made outside the app:     *)
(* services/payment_report_service.go over payment_reports and             *)
(* transactions.                                                           *)
(*                                                                         *)
(* ConfirmReport and RejectReport run in one database transaction that     *)
(* locks the report's row when it reads it (SELECT ... FOR UPDATE) and     *)
(* holds the lock until it ends. What a transaction has written is private *)
(* to it until it commits. The notification is handed to the outbox after  *)
(* the commit, by a goroutine that a crash may end first.                  *)
(***************************************************************************)
EXTENDS Naturals, FiniteSets

CONSTANTS
  Reports,       \* ids of payment_reports rows
  People,        \* subscribers; SameMobile compares them
  Amounts,       \* amounts requests carry
  Handlers,      \* confirm and reject requests in progress at once
  Transactions,  \* ids of transactions rows
  Nobody         \* holder of a lock nobody holds

ASSUME AmountAssumption == Amounts \subseteq Nat
ASSUME NobodyAssumption == Nobody \notin Handlers

VARIABLES
  reports,       \* the committed payment_reports rows
  settlements,   \* the committed settlement rows of transactions
  usedIds,       \* transactions ids handed out, also to rolled back inserts
  lockedBy,      \* the handler that holds each report's row lock
  handler,       \* where each handler is
  notified       \* idempotency keys handed to the outbox

vars == <<reports, settlements, usedIds, lockedBy, handler, notified>>

NoReport == [status |-> "unreported"]
Idle == [pc |-> "idle"]
NoTransaction == "none"

Init ==
  /\ reports = [r \in Reports |-> NoReport]
  /\ settlements = {}
  /\ usedIds = {}
  /\ lockedBy = [r \in Reports |-> Nobody]
  /\ handler = [h \in Handlers |-> Idle]
  /\ notified = {}

-----------------------------------------------------------------------------
\* One insert. Nothing stops a payer from reporting the same payment twice:
\* that makes two reports.
CreateReport(r, payer, receiver, amount) ==
  /\ reports[r] = NoReport
  /\ payer # receiver
  /\ amount > 0
  /\ reports' = [reports EXCEPT ![r] =
       [status |-> "awaiting", payer |-> payer, receiver |-> receiver,
        amount |-> amount, transaction |-> NoTransaction]]
  /\ UNCHANGED <<settlements, usedIds, lockedBy, handler, notified>>

\* The goroutine that CreateReport starts.
NotifyReceiver(r) ==
  /\ reports[r] # NoReport
  /\ notified' = notified \cup {<<r, "create">>}
  /\ UNCHANGED <<reports, settlements, usedIds, lockedBy, handler>>

-----------------------------------------------------------------------------
AnyLock(r) == TRUE                                          \* faulty variant
LockFree(r) == lockedBy[r] = Nobody

NotYetConfirmed(r) == reports[r].status # "confirmed"       \* faulty variant
Undecided(r) == reports[r].status = "awaiting"

\* SELECT ... FOR UPDATE waits for the row lock and reads the committed row;
\* the guards that follow run under the lock. A request they turn away rolls
\* back at once and changes nothing.
LockReport(h, op, r, u) ==
  /\ handler[h] = Idle
  /\ reports[r] # NoReport
  /\ LockFree(r)
  /\ u = reports[r].receiver
  /\ Undecided(r)
  /\ lockedBy' = [lockedBy EXCEPT ![r] = h]
  /\ handler' = [handler EXCEPT ![h] =
       [pc |-> "locked", op |-> op, report |-> r, row |-> reports[r]]]
  /\ UNCHANGED <<reports, settlements, usedIds, notified>>

ConfirmReport(h, r, u) == LockReport(h, "confirm", r, u)
RejectReport(h, r, u) == LockReport(h, "reject", r, u)

\* The settlement row is created inside the transaction. Its id is taken for
\* good, whether or not the transaction commits.
InsertSettlement(h) ==
  /\ handler[h].pc = "locked"
  /\ handler[h].op = "confirm"
  /\ \E id \in Transactions \ usedIds :
       /\ usedIds' = usedIds \cup {id}
       /\ handler' = [handler EXCEPT ![h] =
            [pc |-> "inserted", op |-> "confirm", report |-> @.report, row |-> @.row,
             transaction |-> id]]
  /\ UNCHANGED <<reports, settlements, lockedBy, notified>>

SettlementToNobody(r, row, id) ==                           \* faulty variant
  [id |-> id, report |-> r, from |-> row.payer, to |-> NoTransaction, amount |-> row.amount]
Settlement(r, row, id) ==
  [id |-> id, report |-> r, from |-> row.payer, to |-> row.receiver, amount |-> row.amount]

AsConfirmed(r, status) ==                                   \* faulty variant
  [pc |-> "committed", report |-> r, status |-> "confirmed"]
Committed(r, status) == [pc |-> "committed", report |-> r, status |-> status]

\* Save writes the row as it was read, with status and transaction set.
CommitConfirm(h) ==
  /\ handler[h].pc = "inserted"
  /\ LET r == handler[h].report
         row == handler[h].row
         id == handler[h].transaction
     IN /\ reports' = [reports EXCEPT ![r] =
             [row EXCEPT !.status = "confirmed", !.transaction = id]]
        /\ settlements' = settlements \cup {Settlement(r, row, id)}
        /\ lockedBy' = [lockedBy EXCEPT ![r] = Nobody]
        /\ handler' = [handler EXCEPT ![h] = Committed(r, "confirmed")]
  /\ UNCHANGED <<usedIds, notified>>

CommitReject(h) ==
  /\ handler[h].pc = "locked"
  /\ handler[h].op = "reject"
  /\ LET r == handler[h].report
         row == handler[h].row
     IN /\ reports' = [reports EXCEPT ![r] = [row EXCEPT !.status = "rejected"]]
        /\ lockedBy' = [lockedBy EXCEPT ![r] = Nobody]
        /\ handler' = [handler EXCEPT ![h] = Committed(r, "rejected")]
  /\ UNCHANGED <<settlements, usedIds, notified>>

KeepLock(r) == lockedBy                                     \* faulty variant
Released(r) == [lockedBy EXCEPT ![r] = Nobody]

\* An error or a crash inside the transaction: the database rolls it back.
Rollback(h) ==
  /\ handler[h].pc \in {"locked", "inserted"}
  /\ lockedBy' = Released(handler[h].report)
  /\ handler' = [handler EXCEPT ![h] = Idle]
  /\ UNCHANGED <<reports, settlements, usedIds, notified>>

\* The goroutine that tells the payer, under a key made of report and status.
NotifyPayer(h) ==
  /\ handler[h].pc = "committed"
  /\ notified' = notified \cup {<<handler[h].report, handler[h].status>>}
  /\ handler' = [handler EXCEPT ![h] = Idle]
  /\ UNCHANGED <<reports, settlements, usedIds, lockedBy>>

\* The process dies after the commit: the notification is never enqueued.
CrashAfterCommit(h) ==
  /\ handler[h].pc = "committed"
  /\ handler' = [handler EXCEPT ![h] = Idle]
  /\ UNCHANGED <<reports, settlements, usedIds, lockedBy, notified>>

-----------------------------------------------------------------------------
Work(h) ==
  \/ InsertSettlement(h)
  \/ CommitConfirm(h)
  \/ CommitReject(h)
  \/ Rollback(h)
  \/ NotifyPayer(h)
  \/ CrashAfterCommit(h)

Next ==
  \/ \E r \in Reports, payer, receiver \in People, amount \in Amounts :
       CreateReport(r, payer, receiver, amount)
  \/ \E r \in Reports : NotifyReceiver(r)
  \/ \E h \in Handlers, r \in Reports, u \in People :
       ConfirmReport(h, r, u) \/ RejectReport(h, r, u)
  \/ \E h \in Handlers : Work(h)

\* A handler that has begun goes on until it has finished or failed.
Fairness == \A h \in Handlers : WF_vars(Work(h))

Spec == Init /\ [][Next]_vars
FairSpec == Spec /\ Fairness

-----------------------------------------------------------------------------
(* Properties                                                              *)

ReportRow ==
  [status : {"awaiting", "confirmed", "rejected"}, payer : People, receiver : People,
   amount : Nat, transaction : Transactions \cup {NoTransaction}]
SettlementRow ==
  [id : Transactions, report : Reports, from : People, to : People, amount : Nat]
HandlerState ==
  {Idle}
  \cup [pc : {"locked"}, op : {"confirm", "reject"}, report : Reports, row : ReportRow]
  \cup [pc : {"inserted"}, op : {"confirm"}, report : Reports, row : ReportRow,
        transaction : Transactions]
  \cup [pc : {"committed"}, report : Reports, status : {"confirmed", "rejected"}]

\* The type invariant.
TypeOK ==
  /\ reports \in [Reports -> ReportRow \cup {NoReport}]
  /\ settlements \subseteq SettlementRow
  /\ usedIds \subseteq Transactions
  /\ lockedBy \in [Reports -> Handlers \cup {Nobody}]
  /\ handler \in [Handlers -> HandlerState]
  /\ notified \subseteq Reports \X {"create", "confirmed", "rejected"}

SettlementsOf(r) == {t \in settlements : t.report = r}

\* Money moves exactly once for a confirmed report, between its two parties and
\* in its amount, and never for one that is awaiting or rejected, however
\* confirmations and rejections of the same report race, fail and are retried.
OneSettlementPerConfirmation ==
  \A r \in Reports :
    SettlementsOf(r) =
      IF reports[r].status = "confirmed"
      THEN {Settlement(r, reports[r], reports[r].transaction)} ELSE {}

\* A decision is final and so is what was reported: once a report is confirmed
\* or rejected, its row never changes.
DecisionIsFinal ==
  [][\A r \in Reports : reports[r].status \in {"confirmed", "rejected"}
                          => reports'[r] = reports[r]]_vars

\* What the payer is told is what happened: nobody is told of a decision that
\* was rolled back, and never of both decisions.
NotificationsAreTrue ==
  \A n \in notified : n[2] = "create" \/ reports[n[1]].status = n[2]

\* A transaction that holds a report's row ends, so that whoever waits for the
\* row gets its turn.
LocksAreReleased == \A r \in Reports : lockedBy[r] # Nobody ~> lockedBy[r] = Nobody

\* The service implements the abstract decisions: what a report's row and the
\* transactions table show together changes in one step, at the commit.
Decisions ==
  INSTANCE PaymentDecisions WITH
    Payments <- Transactions,
    decision <- [r \in Reports |-> reports[r].status],
    settledBy <- [r \in Reports |-> {t.id : t \in SettlementsOf(r)}]
ImplementsDecisions == Decisions!Spec

=============================================================================
