----------------------- MODULE PaymentReportsProofs -----------------------
(***************************************************************************)
(* For every number of reports, people, handlers and transactions: the     *)
(* types, that money moves exactly once per confirmation, that decisions   *)
(* are final, that the payer is told the truth, and that the service       *)
(* implements PaymentDecisions.                                            *)
(***************************************************************************)
EXTENDS PaymentReports, TLAPS

-----------------------------------------------------------------------------
(* Type correctness                                                        *)

LEMMA TypeStep ==
  ASSUME TypeOK, [Next]_vars
  PROVE  TypeOK'
<1> USE AmountAssumption
<1>1. ASSUME NEW r \in Reports, NEW payer \in People, NEW receiver \in People,
             NEW amount \in Amounts, CreateReport(r, payer, receiver, amount)
      PROVE  TypeOK'
  BY <1>1 DEF CreateReport, TypeOK, ReportRow
<1>2. ASSUME NEW r \in Reports, NotifyReceiver(r)
      PROVE  TypeOK'
  BY <1>2 DEF NotifyReceiver, TypeOK
<1>3. ASSUME NEW h \in Handlers, NEW r \in Reports, NEW u \in People,
             NEW op \in {"confirm", "reject"}, LockReport(h, op, r, u)
      PROVE  TypeOK'
  <2>1. reports[r] \in ReportRow
    BY <1>3 DEF LockReport, TypeOK
  <2>2. [pc |-> "locked", op |-> op, report |-> r, row |-> reports[r]] \in HandlerState
    BY <2>1, <1>3 DEF HandlerState
  <2>3. handler' \in [Handlers -> HandlerState]
    BY <2>2, <1>3 DEF LockReport, TypeOK
  <2> QED
    BY <2>3, <1>3 DEF LockReport, TypeOK
<1>4. ASSUME NEW h \in Handlers, Work(h)
      PROVE  TypeOK'
  <2>0. handler[h] \in HandlerState
    BY DEF TypeOK
  <2>1. CASE InsertSettlement(h)
    <3>1. /\ handler[h].report \in Reports
          /\ handler[h].row \in ReportRow
      BY <2>0, <2>1 DEF InsertSettlement, HandlerState, Idle
    <3>2. \A id \in Transactions :
            [pc |-> "inserted", op |-> "confirm", report |-> handler[h].report,
             row |-> handler[h].row, transaction |-> id] \in HandlerState
      BY <3>1 DEF HandlerState
    <3>3. handler' \in [Handlers -> HandlerState]
      BY <3>2, <2>1 DEF InsertSettlement, TypeOK
    <3> QED
      BY <3>3, <2>1 DEF InsertSettlement, TypeOK
  <2>2. CASE CommitConfirm(h)
    <3>1. /\ handler[h].report \in Reports
          /\ handler[h].row \in ReportRow
          /\ handler[h].transaction \in Transactions
      BY <2>0, <2>2 DEF CommitConfirm, HandlerState, Idle
    <3>2. [handler[h].row EXCEPT !.status = "confirmed",
                                 !.transaction = handler[h].transaction] \in ReportRow
      BY <3>1 DEF ReportRow
    <3>3. Settlement(handler[h].report, handler[h].row, handler[h].transaction)
            \in SettlementRow
      BY <3>1 DEF Settlement, SettlementRow, ReportRow
    <3>4. Committed(handler[h].report, "confirmed") \in HandlerState
      BY <3>1 DEF Committed, HandlerState
    <3> QED
      BY <3>1, <3>2, <3>3, <3>4, <2>2 DEF CommitConfirm, TypeOK
  <2>3. CASE CommitReject(h)
    <3>1. /\ handler[h].report \in Reports
          /\ handler[h].row \in ReportRow
      BY <2>0, <2>3 DEF CommitReject, HandlerState, Idle
    <3>2. [handler[h].row EXCEPT !.status = "rejected"] \in ReportRow
      BY <3>1 DEF ReportRow
    <3>3. Committed(handler[h].report, "rejected") \in HandlerState
      BY <3>1 DEF Committed, HandlerState
    <3> QED
      BY <3>1, <3>2, <3>3, <2>3 DEF CommitReject, TypeOK
  <2>4. CASE Rollback(h)
    BY <2>4 DEF Rollback, Released, TypeOK, HandlerState
  <2>5. CASE NotifyPayer(h)
    <3>1. /\ handler[h].report \in Reports
          /\ handler[h].status \in {"confirmed", "rejected"}
      BY <2>0, <2>5 DEF NotifyPayer, HandlerState, Idle
    <3> QED
      BY <3>1, <2>5 DEF NotifyPayer, TypeOK, HandlerState
  <2>6. CASE CrashAfterCommit(h)
    BY <2>6 DEF CrashAfterCommit, TypeOK, HandlerState
  <2> QED
    BY <1>4, <2>1, <2>2, <2>3, <2>4, <2>5, <2>6 DEF Work
<1>5. CASE UNCHANGED vars
  BY <1>5 DEF vars, TypeOK
<1> QED
  BY <1>1, <1>2, <1>3, <1>4, <1>5 DEF Next, ConfirmReport, RejectReport

\* In every reachable state the tables and the handlers have their types.
THEOREM TypeCorrect == Spec => []TypeOK
<1>1. Init => TypeOK
  BY DEF Init, TypeOK, HandlerState, NoReport
<1> QED
  BY <1>1, TypeStep, PTL DEF Spec

-----------------------------------------------------------------------------
(* The inductive invariant. OneSettlementPerConfirmation alone does not    *)
(* survive a commit: nothing in it says that the row a handler read is     *)
(* still the row in the table. The row lock says so, and the ids handed    *)
(* out keep two inserts apart.                                             *)

InTransaction(h) == handler[h].pc \in {"locked", "inserted"}

\* A handler inside its transaction holds the lock on its report, which is
\* still awaiting and still reads as it did when the lock was taken.
LockProtectsRow ==
  \A h \in Handlers :
    InTransaction(h) =>
      /\ lockedBy[handler[h].report] = h
      /\ reports[handler[h].report] = handler[h].row
      /\ handler[h].row.status = "awaiting"

\* An uncommitted settlement has an id of its own.
InsertsAreNew ==
  \A h \in Handlers :
    handler[h].pc = "inserted" =>
      /\ handler[h].transaction \in usedIds
      /\ \A t \in settlements : t.id # handler[h].transaction
      /\ \A g \in Handlers \ {h} :
           handler[g].pc = "inserted" => handler[g].transaction # handler[h].transaction

IdsAreUsed == \A t \in settlements : t.id \in usedIds

\* What a committed handler is about to tell is what it committed.
TellsWhatHappened ==
  \A h \in Handlers :
    handler[h].pc = "committed" => reports[handler[h].report].status = handler[h].status

IInv ==
  /\ TypeOK
  /\ LockProtectsRow
  /\ InsertsAreNew
  /\ IdsAreUsed
  /\ OneSettlementPerConfirmation
  /\ TellsWhatHappened
  /\ NotificationsAreTrue

LEMMA InitIInv == Init => IInv
<1> SUFFICES ASSUME Init PROVE IInv
  OBVIOUS
<1>1. TypeOK
  BY DEF Init, TypeOK, HandlerState, NoReport
<1>2. LockProtectsRow /\ InsertsAreNew /\ TellsWhatHappened
  BY DEF Init, LockProtectsRow, InsertsAreNew, TellsWhatHappened, InTransaction, Idle
<1>3. IdsAreUsed /\ OneSettlementPerConfirmation /\ NotificationsAreTrue
  BY DEF Init, IdsAreUsed, OneSettlementPerConfirmation, NotificationsAreTrue,
         SettlementsOf, NoReport
<1> QED
  BY <1>1, <1>2, <1>3 DEF IInv

LEMMA CreateStep ==
  ASSUME IInv, NEW r \in Reports, NEW payer \in People, NEW receiver \in People,
         NEW amount \in Amounts, CreateReport(r, payer, receiver, amount)
  PROVE  /\ LockProtectsRow' /\ InsertsAreNew' /\ IdsAreUsed'
         /\ OneSettlementPerConfirmation' /\ TellsWhatHappened' /\ NotificationsAreTrue'
<1>1. /\ reports[r] = NoReport
      /\ reports' = [reports EXCEPT ![r] =
           [status |-> "awaiting", payer |-> payer, receiver |-> receiver,
            amount |-> amount, transaction |-> NoTransaction]]
      /\ UNCHANGED <<settlements, usedIds, lockedBy, handler, notified>>
  BY DEF CreateReport
<1>2. \A h \in Handlers : handler[h].pc # "idle" => handler[h].report \in Reports
  BY DEF IInv, TypeOK, HandlerState, Idle
<1>3. \A h \in Handlers : handler[h].pc # "idle" => handler[h].report # r
  <2>1. \A h \in Handlers : handler[h].pc \in {"idle", "locked", "inserted", "committed"}
    BY DEF IInv, TypeOK, HandlerState, Idle
  <2>2. \A h \in Handlers :
          handler[h].pc = "committed" => handler[h].status \in {"confirmed", "rejected"}
    BY DEF IInv, TypeOK, HandlerState, Idle
  <2>3. reports[r].status = "unreported"
    BY <1>1 DEF NoReport
  <2> QED
    BY <2>1, <2>2, <2>3 DEF IInv, LockProtectsRow, TellsWhatHappened, InTransaction
<1>8. \A q \in Reports : q # r => reports'[q] = reports[q]
  BY <1>1 DEF IInv, TypeOK
<1>9. LockProtectsRow'
  BY <1>1, <1>2, <1>3, <1>8 DEF IInv, LockProtectsRow, InTransaction
<1>10. TellsWhatHappened'
  BY <1>1, <1>2, <1>3, <1>8 DEF IInv, TellsWhatHappened
<1>4. InsertsAreNew' /\ IdsAreUsed'
  BY <1>1 DEF IInv, InsertsAreNew, IdsAreUsed
<1>5. \A q \in Reports : SettlementsOf(q)' = SettlementsOf(q)
  BY <1>1 DEF SettlementsOf
<1>6. OneSettlementPerConfirmation'
  BY <1>1, <1>5 DEF IInv, TypeOK, OneSettlementPerConfirmation, NoReport, Settlement
<1>7. NotificationsAreTrue'
  <2>1. \A n \in notified : n[1] \in Reports /\ n[2] \in {"create", "confirmed", "rejected"}
    BY DEF IInv, TypeOK
  <2> QED
    BY <1>1, <2>1 DEF IInv, TypeOK, NotificationsAreTrue, NoReport
<1> QED
  BY <1>9, <1>10, <1>4, <1>6, <1>7

LEMMA LockStep ==
  ASSUME IInv, NEW h \in Handlers, NEW op \in {"confirm", "reject"}, NEW r \in Reports,
         NEW u \in People, LockReport(h, op, r, u)
  PROVE  /\ LockProtectsRow' /\ InsertsAreNew' /\ IdsAreUsed'
         /\ OneSettlementPerConfirmation' /\ TellsWhatHappened' /\ NotificationsAreTrue'
<1>1. /\ lockedBy[r] = Nobody
      /\ reports[r].status = "awaiting"
      /\ lockedBy' = [lockedBy EXCEPT ![r] = h]
      /\ handler' = [handler EXCEPT ![h] =
           [pc |-> "locked", op |-> op, report |-> r, row |-> reports[r]]]
      /\ UNCHANGED <<reports, settlements, usedIds, notified>>
  BY DEF LockReport, LockFree, Undecided
<1>2. \A g \in Handlers : InTransaction(g) => handler[g].report # r
  BY <1>1, NobodyAssumption DEF IInv, LockProtectsRow
<1>3. LockProtectsRow'
  <2> SUFFICES ASSUME NEW g \in Handlers, InTransaction(g)'
               PROVE  /\ lockedBy'[handler'[g].report] = g
                      /\ reports'[handler'[g].report] = handler'[g].row
                      /\ handler'[g].row.status = "awaiting"
    BY DEF LockProtectsRow
  <2>1. CASE g = h
    BY <1>1, <2>1 DEF IInv, TypeOK
  <2>2. CASE g # h
    BY <1>1, <1>2, <2>2 DEF IInv, TypeOK, LockProtectsRow, InTransaction
  <2> QED
    BY <2>1, <2>2
<1>4. InsertsAreNew' /\ IdsAreUsed'
  BY <1>1 DEF IInv, TypeOK, InsertsAreNew, IdsAreUsed
<1>5. OneSettlementPerConfirmation' /\ NotificationsAreTrue'
  BY <1>1 DEF IInv, OneSettlementPerConfirmation, NotificationsAreTrue, SettlementsOf
<1>6. TellsWhatHappened'
  BY <1>1 DEF IInv, TypeOK, TellsWhatHappened
<1> QED
  BY <1>3, <1>4, <1>5, <1>6

LEMMA InsertStep ==
  ASSUME IInv, NEW h \in Handlers, InsertSettlement(h)
  PROVE  /\ LockProtectsRow' /\ InsertsAreNew' /\ IdsAreUsed'
         /\ OneSettlementPerConfirmation' /\ TellsWhatHappened' /\ NotificationsAreTrue'
<1>1. PICK id \in Transactions \ usedIds :
        /\ usedIds' = usedIds \cup {id}
        /\ handler' = [handler EXCEPT ![h] =
             [pc |-> "inserted", op |-> "confirm", report |-> @.report, row |-> @.row,
              transaction |-> id]]
  BY DEF InsertSettlement
<1>2. /\ handler[h].pc = "locked"
      /\ UNCHANGED <<reports, settlements, lockedBy, notified>>
  BY DEF InsertSettlement
<1>3. LockProtectsRow'
  BY <1>1, <1>2 DEF IInv, TypeOK, LockProtectsRow, InTransaction
<1>4. IdsAreUsed'
  BY <1>1, <1>2 DEF IInv, IdsAreUsed
<1>5. InsertsAreNew'
  <2> SUFFICES ASSUME NEW g \in Handlers, handler'[g].pc = "inserted"
               PROVE  /\ handler'[g].transaction \in usedIds'
                      /\ \A t \in settlements' : t.id # handler'[g].transaction
                      /\ \A k \in Handlers \ {g} : handler'[k].pc = "inserted" =>
                           handler'[k].transaction # handler'[g].transaction
    BY DEF InsertsAreNew
  <2>1. handler'[h].transaction = id
    BY <1>1 DEF IInv, TypeOK
  <2>2. \A k \in Handlers \ {h} : handler'[k] = handler[k]
    BY <1>1 DEF IInv, TypeOK
  <2>3. CASE g = h
    BY <1>1, <1>2, <2>1, <2>2, <2>3 DEF IInv, InsertsAreNew, IdsAreUsed
  <2>4. CASE g # h
    BY <1>1, <1>2, <2>1, <2>2, <2>4 DEF IInv, InsertsAreNew
  <2> QED
    BY <2>3, <2>4
<1>6. OneSettlementPerConfirmation' /\ NotificationsAreTrue'
  BY <1>2 DEF IInv, OneSettlementPerConfirmation, NotificationsAreTrue, SettlementsOf
<1>7. TellsWhatHappened'
  BY <1>1, <1>2 DEF IInv, TypeOK, TellsWhatHappened
<1> QED
  BY <1>3, <1>4, <1>5, <1>6, <1>7

LEMMA ConfirmStep ==
  ASSUME IInv, NEW h \in Handlers, CommitConfirm(h)
  PROVE  /\ LockProtectsRow' /\ InsertsAreNew' /\ IdsAreUsed'
         /\ OneSettlementPerConfirmation' /\ TellsWhatHappened' /\ NotificationsAreTrue'
<1> DEFINE r == handler[h].report
           row == handler[h].row
           id == handler[h].transaction
<1>1. /\ handler[h].pc = "inserted"
      /\ reports' = [reports EXCEPT ![r] =
           [row EXCEPT !.status = "confirmed", !.transaction = id]]
      /\ settlements' = settlements \cup {Settlement(r, row, id)}
      /\ lockedBy' = [lockedBy EXCEPT ![r] = Nobody]
      /\ handler' = [handler EXCEPT ![h] = Committed(r, "confirmed")]
      /\ UNCHANGED <<usedIds, notified>>
  BY DEF CommitConfirm
<1>2. /\ r \in Reports
      /\ row \in ReportRow
      /\ id \in Transactions
  BY <1>1 DEF IInv, TypeOK, HandlerState, Idle
<1>3. /\ lockedBy[r] = h
      /\ reports[r] = row
      /\ row.status = "awaiting"
      /\ id \in usedIds
      /\ \A t \in settlements : t.id # id
  BY <1>1 DEF IInv, LockProtectsRow, InTransaction, InsertsAreNew
<1>4. /\ \A q \in Reports : q # r => reports'[q] = reports[q] /\ lockedBy'[q] = lockedBy[q]
      /\ \A g \in Handlers : g # h => handler'[g] = handler[g]
      /\ handler'[h] = Committed(r, "confirmed")
      /\ reports'[r] = [row EXCEPT !.status = "confirmed", !.transaction = id]
  BY <1>1, <1>2 DEF IInv, TypeOK
<1>5. /\ reports'[r].status = "confirmed"
      /\ reports'[r].transaction = id
      /\ handler'[h].report = r
      /\ handler'[h].status = "confirmed"
      /\ Settlement(r, reports'[r], id) = Settlement(r, row, id)
  BY <1>2, <1>4 DEF ReportRow, Settlement, Committed
<1>6. \A g \in Handlers : handler[g].pc # "idle" => handler[g].report \in Reports
  BY DEF IInv, TypeOK, HandlerState, Idle
<1>7. \A g \in Handlers : InTransaction(g) /\ g # h => handler[g].report # r
  BY <1>3 DEF IInv, LockProtectsRow
<1>8. LockProtectsRow'
  BY <1>4, <1>6, <1>7 DEF IInv, LockProtectsRow, InTransaction, Committed
<1>9. IdsAreUsed'
  BY <1>1, <1>3 DEF IInv, IdsAreUsed, Settlement
<1>10. InsertsAreNew'
  BY <1>1, <1>4 DEF IInv, InsertsAreNew, Committed, Settlement
<1>11. OneSettlementPerConfirmation'
  <2>1. SettlementsOf(r) = {}
    BY <1>2, <1>3 DEF IInv, OneSettlementPerConfirmation
  <2>2. {t \in settlements' : t.report = r} = {Settlement(r, row, id)}
    BY <1>1, <2>1 DEF SettlementsOf, Settlement
  <2> SUFFICES ASSUME NEW q \in Reports
               PROVE  {t \in settlements' : t.report = q} =
                        IF reports'[q].status = "confirmed"
                        THEN {Settlement(q, reports'[q], reports'[q].transaction)} ELSE {}
    BY DEF OneSettlementPerConfirmation, SettlementsOf, Settlement
  <2>3. CASE q = r
    BY <1>5, <2>2, <2>3
  <2>4. CASE q # r
    <3>1. {t \in settlements' : t.report = q} = SettlementsOf(q)
      BY <1>1, <2>4 DEF SettlementsOf, Settlement
    <3> QED
      BY <1>4, <2>4, <3>1 DEF IInv, OneSettlementPerConfirmation
  <2> QED
    BY <2>3, <2>4
<1>12. TellsWhatHappened'
  <2> SUFFICES ASSUME NEW g \in Handlers, handler'[g].pc = "committed"
               PROVE  reports'[handler'[g].report].status = handler'[g].status
    BY DEF TellsWhatHappened
  <2>1. CASE g = h
    BY <1>5, <2>1
  <2>2. CASE g # h
    <3>1. /\ reports[handler[g].report].status = handler[g].status
          /\ handler[g].status \in {"confirmed", "rejected"}
          /\ handler[g].report \in Reports
      BY <1>4, <2>2 DEF IInv, TellsWhatHappened, TypeOK, HandlerState, Idle
    <3> QED
      BY <1>3, <1>4, <2>2, <3>1
  <2> QED
    BY <2>1, <2>2
<1>13. NotificationsAreTrue'
  <2>1. \A n \in notified : n[1] \in Reports /\ n[2] \in {"create", "confirmed", "rejected"}
    BY DEF IInv, TypeOK
  <2> QED
    BY <1>1, <1>3, <1>4, <2>1 DEF IInv, NotificationsAreTrue
<1> QED
  BY <1>8, <1>9, <1>10, <1>11, <1>12, <1>13

LEMMA RejectStep ==
  ASSUME IInv, NEW h \in Handlers, CommitReject(h)
  PROVE  /\ LockProtectsRow' /\ InsertsAreNew' /\ IdsAreUsed'
         /\ OneSettlementPerConfirmation' /\ TellsWhatHappened' /\ NotificationsAreTrue'
<1> DEFINE r == handler[h].report
           row == handler[h].row
<1>1. /\ handler[h].pc = "locked"
      /\ reports' = [reports EXCEPT ![r] = [row EXCEPT !.status = "rejected"]]
      /\ lockedBy' = [lockedBy EXCEPT ![r] = Nobody]
      /\ handler' = [handler EXCEPT ![h] = Committed(r, "rejected")]
      /\ UNCHANGED <<settlements, usedIds, notified>>
  BY DEF CommitReject
<1>2. /\ r \in Reports
      /\ row \in ReportRow
  BY <1>1 DEF IInv, TypeOK, HandlerState, Idle
<1>3. /\ lockedBy[r] = h
      /\ reports[r] = row
      /\ row.status = "awaiting"
  BY <1>1 DEF IInv, LockProtectsRow, InTransaction
<1>4. /\ \A q \in Reports : q # r => reports'[q] = reports[q] /\ lockedBy'[q] = lockedBy[q]
      /\ \A g \in Handlers : g # h => handler'[g] = handler[g]
      /\ handler'[h] = Committed(r, "rejected")
      /\ reports'[r] = [row EXCEPT !.status = "rejected"]
  BY <1>1, <1>2 DEF IInv, TypeOK
<1>5. /\ reports'[r].status = "rejected"
      /\ handler'[h].report = r
      /\ handler'[h].status = "rejected"
  BY <1>2, <1>4 DEF ReportRow, Committed
<1>6. \A g \in Handlers : handler[g].pc # "idle" => handler[g].report \in Reports
  BY DEF IInv, TypeOK, HandlerState, Idle
<1>7. \A g \in Handlers : InTransaction(g) /\ g # h => handler[g].report # r
  BY <1>3 DEF IInv, LockProtectsRow
<1>8. LockProtectsRow'
  BY <1>4, <1>6, <1>7 DEF IInv, LockProtectsRow, InTransaction, Committed
<1>9. InsertsAreNew' /\ IdsAreUsed'
  BY <1>1, <1>4 DEF IInv, InsertsAreNew, IdsAreUsed, Committed
<1>10. OneSettlementPerConfirmation'
  <2>1. \A q \in Reports : SettlementsOf(q)' = SettlementsOf(q)
    BY <1>1 DEF SettlementsOf
  <2> QED
    BY <1>2, <1>3, <1>4, <1>5, <2>1 DEF IInv, OneSettlementPerConfirmation
<1>11. TellsWhatHappened'
  <2> SUFFICES ASSUME NEW g \in Handlers, handler'[g].pc = "committed"
               PROVE  reports'[handler'[g].report].status = handler'[g].status
    BY DEF TellsWhatHappened
  <2>1. CASE g = h
    BY <1>5, <2>1
  <2>2. CASE g # h
    <3>1. /\ reports[handler[g].report].status = handler[g].status
          /\ handler[g].status \in {"confirmed", "rejected"}
          /\ handler[g].report \in Reports
      BY <1>4, <2>2 DEF IInv, TellsWhatHappened, TypeOK, HandlerState, Idle
    <3> QED
      BY <1>3, <1>4, <2>2, <3>1
  <2> QED
    BY <2>1, <2>2
<1>12. NotificationsAreTrue'
  <2>1. \A n \in notified : n[1] \in Reports /\ n[2] \in {"create", "confirmed", "rejected"}
    BY DEF IInv, TypeOK
  <2> QED
    BY <1>1, <1>3, <1>4, <2>1 DEF IInv, NotificationsAreTrue
<1> QED
  BY <1>8, <1>9, <1>10, <1>11, <1>12

LEMMA RollbackStep ==
  ASSUME IInv, NEW h \in Handlers, Rollback(h)
  PROVE  /\ LockProtectsRow' /\ InsertsAreNew' /\ IdsAreUsed'
         /\ OneSettlementPerConfirmation' /\ TellsWhatHappened' /\ NotificationsAreTrue'
<1>1. /\ InTransaction(h)
      /\ lockedBy' = [lockedBy EXCEPT ![handler[h].report] = Nobody]
      /\ handler' = [handler EXCEPT ![h] = Idle]
      /\ UNCHANGED <<reports, settlements, usedIds, notified>>
  BY DEF Rollback, Released, InTransaction
<1>2. \A g \in Handlers : InTransaction(g) /\ g # h => handler[g].report # handler[h].report
  BY <1>1 DEF IInv, LockProtectsRow
<1>3. /\ \A g \in Handlers : g # h => handler'[g] = handler[g]
      /\ handler'[h] = Idle
  BY <1>1 DEF IInv, TypeOK
<1>4. \A q \in Reports : q # handler[h].report => lockedBy'[q] = lockedBy[q]
  BY <1>1 DEF IInv, TypeOK
<1>5. \A g \in Handlers : handler[g].pc # "idle" => handler[g].report \in Reports
  BY DEF IInv, TypeOK, HandlerState, Idle
<1>6. LockProtectsRow'
  BY <1>1, <1>2, <1>3, <1>4, <1>5 DEF IInv, LockProtectsRow, InTransaction, Idle
<1>7. InsertsAreNew' /\ IdsAreUsed' /\ TellsWhatHappened'
  BY <1>1, <1>3 DEF IInv, InsertsAreNew, IdsAreUsed, TellsWhatHappened, Idle
<1>8. OneSettlementPerConfirmation' /\ NotificationsAreTrue'
  BY <1>1 DEF IInv, OneSettlementPerConfirmation, NotificationsAreTrue, SettlementsOf
<1> QED
  BY <1>6, <1>7, <1>8

\* The two steps after the commit, and the receiver's notification.
LEMMA NotifyStep ==
  ASSUME IInv,
         \/ \E h \in Handlers : NotifyPayer(h) \/ CrashAfterCommit(h)
         \/ \E r \in Reports : NotifyReceiver(r)
  PROVE  /\ LockProtectsRow' /\ InsertsAreNew' /\ IdsAreUsed'
         /\ OneSettlementPerConfirmation' /\ TellsWhatHappened' /\ NotificationsAreTrue'
<1>1. UNCHANGED <<reports, settlements, usedIds, lockedBy>>
  BY DEF NotifyPayer, CrashAfterCommit, NotifyReceiver
<1>2. OneSettlementPerConfirmation' /\ IdsAreUsed'
  BY <1>1 DEF IInv, OneSettlementPerConfirmation, IdsAreUsed, SettlementsOf
<1>3. CASE \E r \in Reports : NotifyReceiver(r)
  BY <1>1, <1>2, <1>3 DEF IInv, LockProtectsRow, InTransaction, InsertsAreNew,
     TellsWhatHappened, NotificationsAreTrue, NotifyReceiver
<1>4. ASSUME NEW h \in Handlers, NotifyPayer(h) \/ CrashAfterCommit(h)
      PROVE  /\ LockProtectsRow' /\ InsertsAreNew'
             /\ TellsWhatHappened' /\ NotificationsAreTrue'
  <2>1. /\ handler[h].pc = "committed"
        /\ handler' = [handler EXCEPT ![h] = Idle]
        /\ notified' \subseteq notified \cup {<<handler[h].report, handler[h].status>>}
    BY <1>4 DEF NotifyPayer, CrashAfterCommit
  <2>2. /\ \A g \in Handlers : g # h => handler'[g] = handler[g]
        /\ handler'[h] = Idle
    BY <2>1 DEF IInv, TypeOK
  <2>3. LockProtectsRow' /\ InsertsAreNew' /\ TellsWhatHappened'
    BY <1>1, <2>2 DEF IInv, LockProtectsRow, InTransaction, InsertsAreNew,
       TellsWhatHappened, Idle
  <2>4. NotificationsAreTrue'
    BY <1>1, <2>1 DEF IInv, NotificationsAreTrue, TellsWhatHappened
  <2> QED
    BY <2>3, <2>4
<1> QED
  BY <1>2, <1>3, <1>4

LEMMA IInvStep ==
  ASSUME IInv, [Next]_vars
  PROVE  IInv'
<1>1. TypeOK'
  BY TypeStep DEF IInv
<1>2. CASE \E r \in Reports, payer, receiver \in People, amount \in Amounts :
             CreateReport(r, payer, receiver, amount)
  BY <1>1, <1>2, CreateStep DEF IInv
<1>3. CASE \E h \in Handlers, r \in Reports, u \in People :
             ConfirmReport(h, r, u) \/ RejectReport(h, r, u)
  BY <1>1, <1>3, LockStep DEF IInv, ConfirmReport, RejectReport
<1>4. CASE \E h \in Handlers : InsertSettlement(h)
  BY <1>1, <1>4, InsertStep DEF IInv
<1>5. CASE \E h \in Handlers : CommitConfirm(h)
  BY <1>1, <1>5, ConfirmStep DEF IInv
<1>6. CASE \E h \in Handlers : CommitReject(h)
  BY <1>1, <1>6, RejectStep DEF IInv
<1>7. CASE \E h \in Handlers : Rollback(h)
  BY <1>1, <1>7, RollbackStep DEF IInv
<1>8. CASE \/ \E h \in Handlers : NotifyPayer(h) \/ CrashAfterCommit(h)
           \/ \E r \in Reports : NotifyReceiver(r)
  BY <1>1, <1>8, NotifyStep DEF IInv
<1>9. CASE UNCHANGED vars
  BY <1>1, <1>9 DEF IInv, vars, LockProtectsRow, InTransaction, InsertsAreNew, IdsAreUsed,
     OneSettlementPerConfirmation, SettlementsOf, TellsWhatHappened, NotificationsAreTrue
<1> QED
  BY <1>2, <1>3, <1>4, <1>5, <1>6, <1>7, <1>8, <1>9 DEF Next, Work

THEOREM Invariance == Spec => []IInv
<1> QED
  BY InitIInv, IInvStep, PTL DEF Spec

\* Money moves exactly once for a confirmed report, in its amount and between
\* its parties, and never for any other.
THEOREM OneSettlement == Spec => []OneSettlementPerConfirmation
<1> QED
  BY Invariance, PTL DEF IInv

\* Nobody is told of a decision that was not committed.
THEOREM NotificationsTrue == Spec => []NotificationsAreTrue
<1> QED
  BY Invariance, PTL DEF IInv

-----------------------------------------------------------------------------
(* What a step may do to the tables                                        *)

\* The rows of reports and settlements change together or not at all, in one
\* of three ways.
LEMMA StepOfTables ==
  ASSUME IInv, [Next]_vars
  PROVE  \/ UNCHANGED <<reports, settlements>>
         \/ \E r \in Reports :
              /\ reports[r].status = "unreported"
              /\ \E row \in ReportRow :
                   /\ row.status = "awaiting"
                   /\ reports' = [reports EXCEPT ![r] = row]
              /\ UNCHANGED settlements
         \/ \E r \in Reports :
              /\ reports[r].status = "awaiting"
              /\ \E row \in ReportRow :
                   /\ row.status = "rejected"
                   /\ reports' = [reports EXCEPT ![r] = row]
              /\ UNCHANGED settlements
         \/ \E r \in Reports, id \in Transactions :
              /\ reports[r].status = "awaiting"
              /\ \E row \in ReportRow :
                   /\ row.status = "confirmed"
                   /\ reports' = [reports EXCEPT ![r] = row]
              /\ \A t \in settlements : t.id # id
              /\ \E t \in SettlementRow :
                   /\ t.id = id
                   /\ t.report = r
                   /\ settlements' = settlements \cup {t}
<1> USE AmountAssumption
<1>1. ASSUME NEW r \in Reports, NEW payer \in People, NEW receiver \in People,
             NEW amount \in Amounts, CreateReport(r, payer, receiver, amount)
      PROVE  /\ reports[r].status = "unreported"
             /\ \E row \in ReportRow :
                  /\ row.status = "awaiting"
                  /\ reports' = [reports EXCEPT ![r] = row]
             /\ UNCHANGED settlements
  <2> DEFINE row == [status |-> "awaiting", payer |-> payer, receiver |-> receiver,
                     amount |-> amount, transaction |-> NoTransaction]
  <2>1. row \in ReportRow /\ row.status = "awaiting"
    BY DEF ReportRow
  <2>2. reports' = [reports EXCEPT ![r] = row]
    BY <1>1 DEF CreateReport
  <2>3. reports[r].status = "unreported" /\ UNCHANGED settlements
    BY <1>1 DEF CreateReport, NoReport
  <2> HIDE DEF row
  <2> QED
    BY <2>1, <2>2, <2>3
<1>2. ASSUME NEW h \in Handlers, CommitReject(h)
      PROVE  \E r \in Reports :
               /\ reports[r].status = "awaiting"
               /\ \E row \in ReportRow :
                    /\ row.status = "rejected"
                    /\ reports' = [reports EXCEPT ![r] = row]
               /\ UNCHANGED settlements
  <2> DEFINE r == handler[h].report
             row == [handler[h].row EXCEPT !.status = "rejected"]
  <2>1. handler[h].pc = "locked" /\ reports' = [reports EXCEPT ![r] = row]
    BY <1>2 DEF CommitReject
  <2>2. r \in Reports /\ handler[h].row \in ReportRow
    BY <2>1 DEF IInv, TypeOK, HandlerState, Idle
  <2>3. row \in ReportRow /\ row.status = "rejected"
    BY <2>2 DEF ReportRow
  <2>4. reports[r].status = "awaiting"
    BY <2>1 DEF IInv, LockProtectsRow, InTransaction
  <2>5. UNCHANGED settlements
    BY <1>2 DEF CommitReject
  <2> HIDE DEF r, row
  <2> QED
    BY <2>1, <2>2, <2>3, <2>4, <2>5
<1>3. ASSUME NEW h \in Handlers, CommitConfirm(h)
      PROVE  \E r \in Reports, id \in Transactions :
               /\ reports[r].status = "awaiting"
               /\ \E row \in ReportRow :
                    /\ row.status = "confirmed"
                    /\ reports' = [reports EXCEPT ![r] = row]
               /\ \A t \in settlements : t.id # id
               /\ \E t \in SettlementRow :
                    /\ t.id = id
                    /\ t.report = r
                    /\ settlements' = settlements \cup {t}
  <2> DEFINE r == handler[h].report
             id == handler[h].transaction
             row == [handler[h].row EXCEPT !.status = "confirmed", !.transaction = id]
             t == Settlement(r, handler[h].row, id)
  <2>1. /\ handler[h].pc = "inserted"
        /\ reports' = [reports EXCEPT ![r] = row]
        /\ settlements' = settlements \cup {t}
    BY <1>3 DEF CommitConfirm
  <2>2. r \in Reports /\ handler[h].row \in ReportRow /\ id \in Transactions
    BY <2>1 DEF IInv, TypeOK, HandlerState, Idle
  <2>3. row \in ReportRow /\ row.status = "confirmed"
    BY <2>2 DEF ReportRow
  <2>4. t \in SettlementRow /\ t.id = id /\ t.report = r
    BY <2>2 DEF Settlement, SettlementRow, ReportRow
  <2>5. reports[r].status = "awaiting"
    BY <2>1 DEF IInv, LockProtectsRow, InTransaction
  <2>6. \A s \in settlements : s.id # id
    BY <2>1 DEF IInv, InsertsAreNew
  <2> HIDE DEF r, id, row, t
  <2> QED
    BY <2>1, <2>2, <2>3, <2>4, <2>5, <2>6
<1>4. ASSUME NEW h \in Handlers,
             \/ InsertSettlement(h) \/ Rollback(h) \/ NotifyPayer(h) \/ CrashAfterCommit(h)
             \/ \E r \in Reports, u \in People : ConfirmReport(h, r, u) \/ RejectReport(h, r, u)
      PROVE  UNCHANGED <<reports, settlements>>
  BY <1>4 DEF InsertSettlement, Rollback, NotifyPayer, CrashAfterCommit, ConfirmReport,
              RejectReport, LockReport
<1>5. ASSUME NEW r \in Reports, NotifyReceiver(r)
      PROVE  UNCHANGED <<reports, settlements>>
  BY <1>5 DEF NotifyReceiver
<1>6. CASE UNCHANGED vars
  BY <1>6 DEF vars
<1>7. CASE \E r \in Reports, payer, receiver \in People, amount \in Amounts :
             CreateReport(r, payer, receiver, amount)
  BY <1>1, <1>7
<1>8. CASE \E h \in Handlers : Work(h)
  BY <1>2, <1>3, <1>4, <1>8 DEF Work
<1>9. CASE \/ \E r \in Reports : NotifyReceiver(r)
           \/ \E h \in Handlers, r \in Reports, u \in People :
                ConfirmReport(h, r, u) \/ RejectReport(h, r, u)
  BY <1>4, <1>5, <1>9
<1> QED
  BY <1>6, <1>7, <1>8, <1>9 DEF Next

\* A decided report never changes again.
THEOREM DecisionFinal == Spec => DecisionIsFinal
<1>1. IInv /\ [Next]_vars =>
        [\A r \in Reports : reports[r].status \in {"confirmed", "rejected"}
                               => reports'[r] = reports[r]]_vars
  BY StepOfTables DEF IInv, TypeOK
<1> QED
  BY <1>1, Invariance, PTL DEF Spec, DecisionIsFinal

-----------------------------------------------------------------------------
(* The service implements PaymentDecisions. A commit of a confirmation is  *)
(* Confirm, a commit of a rejection is Reject, an insert of a report is    *)
(* Report, and every other step is a stutter.                              *)

decisionBar == [r \in Reports |-> reports[r].status]
settledByBar == [r \in Reports |-> {t.id : t \in SettlementsOf(r)}]

LEMMA InitMaps == Init => Decisions!Init
<1> SUFFICES ASSUME Init PROVE Decisions!Init
  OBVIOUS
<1>1. \A r \in Reports : reports[r].status = "unreported" /\ SettlementsOf(r) = {}
  BY DEF Init, NoReport, SettlementsOf
<1> QED
  BY <1>1 DEF Decisions!Init

LEMMA StepMaps ==
  ASSUME IInv, [Next]_vars
  PROVE  [Decisions!Next]_(Decisions!decisionVars)
<1>1. reports \in [Reports -> ReportRow \cup {NoReport}]
  BY DEF IInv, TypeOK
<1>2. CASE UNCHANGED <<reports, settlements>>
  BY <1>2 DEF Decisions!decisionVars, SettlementsOf
<1>3. ASSUME NEW r \in Reports, NEW row \in ReportRow, UNCHANGED settlements,
             reports' = [reports EXCEPT ![r] = row]
      PROVE  /\ decisionBar' = [decisionBar EXCEPT ![r] = row.status]
             /\ settledByBar' = settledByBar
  BY <1>1, <1>3 DEF decisionBar, settledByBar, SettlementsOf
<1>4. ASSUME NEW r \in Reports, reports[r].status = "unreported",
             \E row \in ReportRow : row.status = "awaiting"
                                    /\ reports' = [reports EXCEPT ![r] = row],
             UNCHANGED settlements
      PROVE  Decisions!Report(r)
  BY <1>3, <1>4 DEF Decisions!Report, decisionBar, settledByBar
<1>5. ASSUME NEW r \in Reports, reports[r].status = "awaiting",
             \E row \in ReportRow : row.status = "rejected"
                                    /\ reports' = [reports EXCEPT ![r] = row],
             UNCHANGED settlements
      PROVE  Decisions!Reject(r)
  BY <1>3, <1>5 DEF Decisions!Reject, decisionBar, settledByBar
<1>6. ASSUME NEW r \in Reports, NEW id \in Transactions, reports[r].status = "awaiting",
             NEW row \in ReportRow, row.status = "confirmed",
             reports' = [reports EXCEPT ![r] = row],
             \A t \in settlements : t.id # id,
             NEW s \in SettlementRow, s.id = id, s.report = r,
             settlements' = settlements \cup {s}
      PROVE  Decisions!Confirm(r)
  <2>1. decisionBar' = [decisionBar EXCEPT ![r] = "confirmed"]
    BY <1>1, <1>6 DEF decisionBar
  <2>2. SettlementsOf(r) = {}
    BY <1>6 DEF IInv, OneSettlementPerConfirmation
  <2>3. {t \in settlements' : t.report = r} = {s}
    BY <1>6, <2>2 DEF SettlementsOf
  <2>4. \A q \in Reports : q # r => {t \in settlements' : t.report = q} = SettlementsOf(q)
    BY <1>6 DEF SettlementsOf
  <2>5. settledByBar' = [settledByBar EXCEPT ![r] = {id}]
    <3>1. settledByBar' = [q \in Reports |-> {t.id : t \in {u \in settlements' : u.report = q}}]
      BY DEF settledByBar, SettlementsOf
    <3>2. {t.id : t \in {u \in settlements' : u.report = r}} = {id}
      BY <1>6, <2>3
    <3>3. \A q \in Reports : q # r =>
            {t.id : t \in {u \in settlements' : u.report = q}} = settledByBar[q]
      BY <2>4 DEF settledByBar
    <3>4. settledByBar = [q \in Reports |-> settledByBar[q]]
      BY DEF settledByBar
    <3> QED
      BY <3>1, <3>2, <3>3, <3>4
  <2>6. \A q \in Reports : id \notin settledByBar[q]
    BY <1>6 DEF settledByBar, SettlementsOf
  <2>7. decisionBar[r] = "awaiting"
    BY <1>6 DEF decisionBar
  <2> QED
    BY <2>1, <2>5, <2>6, <2>7 DEF Decisions!Confirm, decisionBar, settledByBar
<1> QED
  <2>1. CASE UNCHANGED <<reports, settlements>>
    BY <1>2, <2>1
  <2>2. CASE ~ UNCHANGED <<reports, settlements>>
    <3>1. \E r \in Reports : Decisions!Report(r) \/ Decisions!Confirm(r) \/ Decisions!Reject(r)
      BY <1>4, <1>5, <1>6, <2>2, StepOfTables
    <3> QED
      BY <3>1 DEF Decisions!Next
  <2> QED
    BY <2>1, <2>2

\* Every behaviour of the service is one of the abstract decisions.
THEOREM Implements == Spec => ImplementsDecisions
<1> QED
  BY InitMaps, StepMaps, Invariance, PTL DEF Spec, ImplementsDecisions, Decisions!Spec
=============================================================================
