------------------------- MODULE NotificationProofs -------------------------
(***************************************************************************)
(* The outbox: for every number of events, jobs, dispatchers and faults,   *)
(* the types and that locks match statuses; and for one dispatcher that    *)
(* outruns the lock timeout, that what is settled is final, that sends     *)
(* stay within their limit, and that only a fault can make a duplicate.    *)
(* After it the tokens it is delivered to: theorems about DeviceTokens,    *)
(* for any number of devices, accounts and pushes in progress.             *)
(***************************************************************************)
EXTENDS OutboxAttempts, DeviceTokens, TLAPS

-----------------------------------------------------------------------------
(* The outbox: type correctness                                            *)


LEMMA MarkedType ==
  ASSUME NEW row \in JobRow, NEW outcome \in Outcomes, NEW n \in Nat
  PROVE  /\ Marked(row, outcome, n) \in JobRow
         /\ Marked(row, outcome, n).status \in {"accepted", "failed", "retryable_failure"}
         /\ Marked(row, outcome, n).lockedBy = Nobody
<1>1. /\ Unlocked(row) \in JobRow
      /\ Unlocked(row).lockedBy = Nobody
  BY DEF Unlocked, JobRow
<1>2. [Unlocked(row) EXCEPT !.status = "accepted"] \in JobRow
  BY <1>1 DEF JobRow, Statuses
<1>3. [Unlocked(row) EXCEPT !.status = "failed", !.attempts = n] \in JobRow
  BY <1>1 DEF JobRow, Statuses
<1>4. [Unlocked(row) EXCEPT !.status = "retryable_failure", !.attempts = n, !.due = FALSE]
        \in JobRow
  BY <1>1 DEF JobRow, Statuses
<1> QED
  BY <1>1, <1>2, <1>3, <1>4 DEF Marked, JobRow

LEMMA NextJobType ==
  ASSUME NEW w \in Workers, worker \in [Workers -> Worker], NextJob(w)
  PROVE  worker' \in [Workers -> Worker]
<1>1. worker[w].batch \in SUBSET Copy
  BY DEF Worker
<1>2. /\ IdleWorker \in Worker
      /\ [pc |-> "working", picked |-> {}, batch |-> worker[w].batch] \in Worker
  BY <1>1 DEF Worker, IdleWorker
<1> QED
  BY <1>2 DEF NextJob

LEMMA TypeStep ==
  ASSUME TypeOK, [Next]_vars
  PROVE  TypeOK'
<1> USE OutboxAssumption
<1>1. ASSUME NEW e \in Events, Commit(e) \/ EnqueueNotification(e) \/ LoseEvent(e)
      PROVE  TypeOK'
  <2>1. NewJob \in JobRow
    BY DEF NewJob, Absent, JobRow, Statuses
  <2>2. CASE EnqueueNotification(e)
    <3>1. jobs[KeyOf[e]] \in JobRow
      BY DEF TypeOK
    <3>2. EnqueueOnce(jobs[KeyOf[e]]) \in JobRow
      BY <2>1, <3>1 DEF EnqueueOnce
    <3> QED
      BY <2>2, <3>2 DEF EnqueueNotification, TypeOK
  <2> QED
    BY <1>1, <2>2 DEF Commit, LoseEvent, Fault, TypeOK
<1>2. ASSUME NEW w \in Workers, RecoverStaleLocks(w)
      PROVE  TypeOK'
  <2>1. \A row \in JobRow : Recovered(row) \in JobRow
    BY DEF Recovered, JobRow, Statuses
  <2>2. [worker[w] EXCEPT !.pc = "selecting"] \in Worker
    BY <1>2 DEF RecoverStaleLocks, TypeOK, Worker
  <2>3. worker' \in [Workers -> Worker]
    BY <1>2, <2>2 DEF RecoverStaleLocks, TypeOK
  <2> QED
    BY <1>2, <2>1, <2>3 DEF RecoverStaleLocks, TypeOK
<1>3. ASSUME NEW w \in Workers, SelectCandidates(w)
      PROVE  TypeOK'
  <2>1. \A picked \in SUBSET Jobs :
          [worker[w] EXCEPT !.pc = "claiming", !.picked = picked] \in Worker
    BY <1>3 DEF SelectCandidates, TypeOK, Worker
  <2>2. IdleWorker \in Worker
    BY DEF Worker, IdleWorker
  <2> DEFINE eligible == {j \in Jobs : Eligible(jobs[j])}
  <2>3. PICK picked \in SUBSET eligible :
          worker' = [worker EXCEPT ![w] =
            IF picked = {} THEN IdleWorker
            ELSE [@ EXCEPT !.pc = "claiming", !.picked = picked]]
    BY <1>3 DEF SelectCandidates
  <2>4. worker' \in [Workers -> Worker]
    BY <2>1, <2>2, <2>3 DEF TypeOK
  <2> QED
    BY <1>3, <2>4 DEF SelectCandidates, TypeOK
<1>4. ASSUME NEW w \in Workers, ClaimCandidates(w)
      PROVE  TypeOK'
  <2>1. \A j \in Jobs : [jobs[j] EXCEPT !.status = "processing", !.lockedBy = w,
                                        !.stale = FALSE] \in JobRow
    BY DEF TypeOK, JobRow, Statuses
  <2>2. {[job |-> j, attempts |-> jobs[j].attempts] : j \in worker[w].picked} \subseteq Copy
    BY DEF TypeOK, Worker, Copy, JobRow
  <2>3. [pc |-> "working", picked |-> {},
         batch |-> {[job |-> j, attempts |-> jobs[j].attempts] : j \in worker[w].picked}]
          \in Worker
    BY <2>2 DEF Worker
  <2> QED
    BY <1>4, <2>1, <2>3 DEF ClaimCandidates, TypeOK
<1>5. ASSUME NEW w \in Workers, Send(w)
      PROVE  TypeOK'
  <2>1. PICK copy \in worker[w].batch, outcome \in Outcomes :
          /\ worker' = [worker EXCEPT ![w] =
               [pc |-> "marking", picked |-> {}, batch |-> @.batch \ {copy},
                copy |-> copy, outcome |-> outcome]]
          /\ delivered' = [delivered EXCEPT ![copy.job] =
               IF outcome \in Taken THEN @ + 1 ELSE @]
          /\ IF outcome = "answer_lost" THEN Fault ELSE UNCHANGED faults
    BY <1>5 DEF Send
  <2>2. worker[w].batch \subseteq Copy /\ copy.job \in Jobs
    BY DEF TypeOK, Worker, Copy
  <2>3. [pc |-> "marking", picked |-> {}, batch |-> worker[w].batch \ {copy},
         copy |-> copy, outcome |-> outcome] \in Worker
    BY <2>2 DEF Worker
  <2>4. delivered' \in [Jobs -> Nat]
    BY <2>1, <2>2 DEF TypeOK
  <2>5. faults' \in 0..MaxFaults
    BY <2>1 DEF TypeOK, Fault
  <2> QED
    BY <1>5, <2>1, <2>3, <2>4, <2>5 DEF Send, TypeOK
<1>6. ASSUME NEW w \in Workers, Mark(w)
      PROVE  TypeOK'
  <2>1. /\ worker[w].copy \in Copy
        /\ worker[w].outcome \in Outcomes
    BY <1>6 DEF Mark, TypeOK, Worker
  <2>2. worker[w].copy.job \in Jobs /\ worker[w].copy.attempts + 1 \in Nat
    BY <2>1 DEF Copy
  <2>3. Marked(jobs[worker[w].copy.job], worker[w].outcome, worker[w].copy.attempts + 1)
          \in JobRow
    BY <2>1, <2>2, MarkedType DEF TypeOK
  <2>4. worker' \in [Workers -> Worker]
    BY <1>6, NextJobType DEF Mark, TypeOK
  <2> QED
    BY <1>6, <2>3, <2>4 DEF Mark, TypeOK
<1>7. ASSUME NEW w \in Workers, MarkFails(w)
      PROVE  TypeOK'
  BY <1>7, NextJobType DEF MarkFails, Fault, TypeOK
<1>8. ASSUME NEW w \in Workers, ContextDone(w) \/ Crash(w)
      PROVE  TypeOK'
  <2>1. IdleWorker \in Worker
    BY DEF Worker, IdleWorker
  <2> QED
    BY <1>8, <2>1 DEF ContextDone, Crash, Fault, TypeOK
<1>9. ASSUME NEW j \in Jobs, LockExpires(j) \/ BackoffElapses(j)
      PROVE  TypeOK'
  <2>1. /\ [jobs[j] EXCEPT !.stale = TRUE] \in JobRow
        /\ [jobs[j] EXCEPT !.due = TRUE] \in JobRow
    BY DEF TypeOK, JobRow
  <2> QED
    BY <1>9, <2>1 DEF LockExpires, BackoffElapses, TypeOK
<1>10. CASE UNCHANGED vars
  BY <1>10 DEF vars, TypeOK
<1> QED
  BY <1>1, <1>2, <1>3, <1>4, <1>5, <1>6, <1>7, <1>8, <1>9, <1>10 DEF Next, Continue

LEMMA InitType == Init => TypeOK
  BY OutboxAssumption DEF Init, TypeOK, Absent, JobRow, Statuses, IdleWorker, Worker

\* In every reachable state the rows and the dispatchers have their types.
THEOREM OutboxTyped == Spec => []TypeOK
<1> QED
  BY InitType, TypeStep, PTL DEF Spec

-----------------------------------------------------------------------------
(* Locks and statuses                                                      *)

LEMMA LockStep ==
  ASSUME TypeOK, LockMatchesStatus, [Next]_vars
  PROVE  LockMatchesStatus'
<1> USE OutboxAssumption
<1>1. ASSUME NEW e \in Events, EnqueueNotification(e)
      PROVE  LockMatchesStatus'
  <2>1. NewJob.status = "pending" /\ NewJob.lockedBy = Nobody
    BY DEF NewJob, Absent
  <2> QED
    BY <1>1, <2>1 DEF EnqueueNotification, EnqueueOnce, TypeOK, LockMatchesStatus
<1>2. ASSUME NEW w \in Workers, RecoverStaleLocks(w)
      PROVE  LockMatchesStatus'
  <2>1. \A row \in JobRow :
          (row.status = "processing" <=> row.lockedBy # Nobody) =>
            (Recovered(row).status = "processing" <=> Recovered(row).lockedBy # Nobody)
    BY DEF Recovered, JobRow
  <2> QED
    BY <1>2, <2>1 DEF RecoverStaleLocks, TypeOK, LockMatchesStatus
<1>3. ASSUME NEW w \in Workers, ClaimCandidates(w)
      PROVE  LockMatchesStatus'
  <2>1. w # Nobody
    OBVIOUS
  <2> QED
    BY <1>3, <2>1 DEF ClaimCandidates, TypeOK, JobRow, LockMatchesStatus
<1>4. ASSUME NEW w \in Workers, Mark(w)
      PROVE  LockMatchesStatus'
  <2> DEFINE j == worker[w].copy.job
             new == Marked(jobs[j], worker[w].outcome, worker[w].copy.attempts + 1)
  <2>1. /\ worker[w].copy \in Copy
        /\ worker[w].outcome \in Outcomes
    BY <1>4 DEF Mark, TypeOK, Worker
  <2>2. j \in Jobs /\ worker[w].copy.attempts + 1 \in Nat
    BY <2>1 DEF Copy
  <2>3. new.status # "processing" /\ new.lockedBy = Nobody
    BY <2>1, <2>2, MarkedType DEF TypeOK
  <2>4. jobs' = [jobs EXCEPT ![j] = new]
    BY <1>4 DEF Mark
  <2> HIDE DEF j, new
  <2> QED
    BY <2>2, <2>3, <2>4 DEF TypeOK, LockMatchesStatus
<1>5. ASSUME NEW j \in Jobs, LockExpires(j) \/ BackoffElapses(j)
      PROVE  LockMatchesStatus'
  BY <1>5 DEF LockExpires, BackoffElapses, TypeOK, JobRow, LockMatchesStatus
<1>6. CASE UNCHANGED jobs
  BY <1>6 DEF LockMatchesStatus
<1> QED
  BY <1>1, <1>2, <1>3, <1>4, <1>5, <1>6
     DEF Next, Continue, Commit, LoseEvent, SelectCandidates, Send, MarkFails, ContextDone,
         Crash, vars

\* A row is locked exactly while it is processing, for any number of
\* dispatchers and however slow they are.
THEOREM LocksMatch == Spec => []LockMatchesStatus
<1>1. Init => LockMatchesStatus
  BY DEF Init, LockMatchesStatus, Absent
<1> QED
  BY <1>1, LockStep, OutboxTyped, PTL DEF Spec

-----------------------------------------------------------------------------
(* One dispatcher that outruns the lock timeout                            *)

OneDispatcher == Workers = {Poller} /\ ~SlowWorkers
sole == worker[Poller]

\* A dispatcher that has not claimed yet holds nothing.
HoldsNothingYet == sole.pc \in {"idle", "selecting", "claiming"} => sole.batch = {}

\* What it is about to claim is still waiting: nobody else claims.
PicksAreWaiting ==
  sole.pc = "claiming" =>
    \A j \in sole.picked : jobs[j].status \in {"pending", "retryable_failure"}

\* What it holds is processing, freshly locked, and carries the row's attempts.
CopyIsFresh(c) ==
  /\ jobs[c.job].status = "processing"
  /\ ~jobs[c.job].stale
  /\ jobs[c.job].attempts = c.attempts
CopiesAreFresh ==
  /\ \A c \in sole.batch : CopyIsFresh(c)
  /\ sole.pc = "marking" =>
       /\ CopyIsFresh(sole.copy)
       /\ \A c \in sole.batch : c.job # sole.copy.job

\* A row that is not settled has an attempt left.
AttemptsAreLeft ==
  \A j \in Jobs :
    /\ jobs[j].attempts <= MaxAttempts
    /\ ~Settled(j) => jobs[j].attempts < MaxAttempts

\* A row whose deliveries outnumber the faults is settled or about to be.
DeliveriesAreCounted ==
  \A j \in Jobs :
    /\ delivered[j] <= faults + 1
    /\ delivered[j] = faults + 1 =>
         \/ Settled(j)
         \/ sole.pc = "marking" /\ sole.copy.job = j /\ sole.outcome = "ok"

Parts ==
  /\ HoldsNothingYet
  /\ PicksAreWaiting
  /\ CopiesAreFresh
  /\ AttemptsAreLeft
  /\ DeliveriesAreCounted
SoleInv == TypeOK /\ Parts

LEMMA InitParts == Init /\ OneDispatcher => Parts
  BY OutboxAssumption
     DEF Init, OneDispatcher, Parts, HoldsNothingYet, PicksAreWaiting, CopiesAreFresh,
         AttemptsAreLeft, DeliveriesAreCounted, sole, IdleWorker, Absent, Settled

\* What the type invariant says of the dispatcher.
LEMMA SoleType ==
  ASSUME TypeOK
  PROVE  /\ sole \in Worker
         /\ sole.batch \subseteq Copy
         /\ sole.picked \subseteq Jobs
         /\ \A c \in sole.batch : c.job \in Jobs /\ c.attempts \in Nat
         /\ sole.pc = "marking" =>
              /\ sole.copy \in Copy /\ sole.copy.job \in Jobs /\ sole.copy.attempts \in Nat
              /\ sole.outcome \in Outcomes
<1>1. sole \in Worker
  BY OutboxAssumption DEF TypeOK, sole
<1>2. \A c \in Copy : c.job \in Jobs /\ c.attempts \in Nat
  BY DEF Copy
<1> QED
  BY <1>1, <1>2 DEF Worker

LEMMA ProducerParts ==
  ASSUME SoleInv, NEW e \in Events, Commit(e) \/ EnqueueNotification(e) \/ LoseEvent(e)
  PROVE  Parts'
<1>1. /\ sole' = sole
      /\ delivered' = delivered
      /\ faults' \in Nat /\ faults \in Nat /\ faults' >= faults
  BY OutboxAssumption
     DEF Commit, EnqueueNotification, LoseEvent, Fault, sole, SoleInv, TypeOK
<1>2. /\ NewJob.status = "pending"
      /\ NewJob.attempts = 0
  BY DEF NewJob, Absent
<1>3. \A j \in Jobs : \/ jobs'[j] = jobs[j]
                      \/ jobs[j].status = "absent" /\ jobs'[j] = NewJob
  <2>1. CASE EnqueueNotification(e)
    BY <2>1, OutboxAssumption DEF EnqueueNotification, EnqueueOnce, SoleInv, TypeOK
  <2>2. CASE Commit(e) \/ LoseEvent(e)
    BY <2>2 DEF Commit, LoseEvent
  <2> QED
    BY <2>1, <2>2
<1>4. HoldsNothingYet'
  BY <1>1 DEF SoleInv, Parts, HoldsNothingYet
<1>5. PicksAreWaiting'
  BY <1>1, <1>3, SoleType DEF SoleInv, Parts, PicksAreWaiting
<1>6. CopiesAreFresh'
  BY <1>1, <1>3, SoleType DEF SoleInv, Parts, CopiesAreFresh, CopyIsFresh
<1>7. AttemptsAreLeft'
  BY <1>2, <1>3, OutboxAssumption DEF SoleInv, Parts, AttemptsAreLeft, Settled
<1>8. DeliveriesAreCounted'
  <2> SUFFICES ASSUME NEW j \in Jobs
               PROVE  /\ delivered[j] <= faults' + 1
                      /\ delivered[j] = faults' + 1 =>
                           \/ Settled(j)'
                           \/ sole.pc = "marking" /\ sole.copy.job = j /\ sole.outcome = "ok"
    BY <1>1 DEF DeliveriesAreCounted
  <2>1. delivered[j] \in Nat
    BY DEF SoleInv, TypeOK
  <2>2. Settled(j) => Settled(j)'
    BY <1>3 DEF Settled
  <2> QED
    BY <1>1, <2>1, <2>2 DEF SoleInv, Parts, DeliveriesAreCounted
<1> QED
  BY <1>4, <1>5, <1>6, <1>7, <1>8 DEF Parts

LEMMA RecoverParts ==
  ASSUME SoleInv, RecoverStaleLocks(Poller)
  PROVE  Parts'
<1>1. /\ sole.pc = "idle"
      /\ sole' = [sole EXCEPT !.pc = "selecting"]
      /\ UNCHANGED <<delivered, faults>>
  BY OutboxAssumption DEF RecoverStaleLocks, sole, SoleInv, TypeOK
<1>2. sole'.pc = "selecting" /\ sole'.batch = {}
  <2>1. sole \in [pc : {"idle", "selecting", "claiming", "working"}, picked : SUBSET Jobs,
                  batch : SUBSET Copy]
    BY <1>1, SoleType DEF SoleInv, Worker
  <2> QED
    BY <1>1, <2>1 DEF SoleInv, Parts, HoldsNothingYet
<1>3. \A j \in Jobs :
        /\ jobs'[j].attempts = jobs[j].attempts
        /\ Settled(j) <=> Settled(j)'
  <2>1. \A row \in JobRow :
          /\ Recovered(row).attempts = row.attempts
          /\ row.status \in {"accepted", "failed"}
               <=> Recovered(row).status \in {"accepted", "failed"}
    BY DEF Recovered, JobRow
  <2> QED
    BY <2>1 DEF RecoverStaleLocks, SoleInv, TypeOK, Settled
<1>4. HoldsNothingYet' /\ PicksAreWaiting' /\ CopiesAreFresh'
  BY <1>2 DEF HoldsNothingYet, PicksAreWaiting, CopiesAreFresh
<1>5. AttemptsAreLeft'
  BY <1>3 DEF SoleInv, Parts, AttemptsAreLeft
<1>6. DeliveriesAreCounted'
  BY <1>1, <1>3 DEF SoleInv, Parts, DeliveriesAreCounted
<1> QED
  BY <1>4, <1>5, <1>6 DEF Parts

LEMMA SelectParts ==
  ASSUME SoleInv, SelectCandidates(Poller)
  PROVE  Parts'
<1>1. sole.pc = "selecting" /\ UNCHANGED <<jobs, delivered, faults>>
  BY DEF SelectCandidates, sole
<1>2. sole.batch = {}
  BY <1>1 DEF SoleInv, Parts, HoldsNothingYet
<1>3. PICK picked \in SUBSET {j \in Jobs : Eligible(jobs[j])} :
        sole' = IF picked = {} THEN IdleWorker
                ELSE [sole EXCEPT !.pc = "claiming", !.picked = picked]
  BY OutboxAssumption DEF SelectCandidates, sole, SoleInv, TypeOK
<1>4. /\ sole'.pc \in {"idle", "claiming"}
      /\ sole'.batch = {}
      /\ sole'.pc = "claiming" => sole'.picked = picked
  <2>1. sole \in [pc : {"idle", "selecting", "claiming", "working"}, picked : SUBSET Jobs,
                  batch : SUBSET Copy]
    BY <1>1, SoleType DEF SoleInv, Worker
  <2> QED
    BY <1>2, <1>3, <2>1 DEF IdleWorker
<1>5. HoldsNothingYet' /\ CopiesAreFresh'
  BY <1>4 DEF HoldsNothingYet, CopiesAreFresh
<1>6. PicksAreWaiting'
  BY <1>1, <1>3, <1>4 DEF PicksAreWaiting, Eligible
<1>7. AttemptsAreLeft' /\ DeliveriesAreCounted'
  BY <1>1 DEF SoleInv, Parts, AttemptsAreLeft, DeliveriesAreCounted, Settled
<1> QED
  BY <1>5, <1>6, <1>7 DEF Parts

LEMMA ClaimParts ==
  ASSUME SoleInv, ClaimCandidates(Poller)
  PROVE  Parts'
<1> DEFINE held == {[job |-> j, attempts |-> jobs[j].attempts] : j \in sole.picked}
<1>1. /\ sole.pc = "claiming"
      /\ sole' = [pc |-> "working", picked |-> {}, batch |-> held]
      /\ UNCHANGED <<delivered, faults>>
  BY OutboxAssumption DEF ClaimCandidates, sole, SoleInv, TypeOK
<1>2. \A j \in Jobs :
        jobs'[j] = IF j \in sole.picked
                   THEN [jobs[j] EXCEPT !.status = "processing", !.lockedBy = Poller,
                                        !.stale = FALSE]
                   ELSE jobs[j]
  BY DEF ClaimCandidates, sole
<1>3. \A j \in Jobs :
        /\ jobs'[j].attempts = jobs[j].attempts
        /\ j \in sole.picked => jobs'[j].status = "processing" /\ ~jobs'[j].stale
  BY <1>2 DEF SoleInv, TypeOK, JobRow
<1>4. \A j \in Jobs : Settled(j) <=> Settled(j)'
  BY <1>1, <1>2, <1>3 DEF SoleInv, Parts, PicksAreWaiting, Settled
<1>5. HoldsNothingYet' /\ PicksAreWaiting'
  BY <1>1 DEF HoldsNothingYet, PicksAreWaiting
<1>6. CopiesAreFresh'
  <2>1. \A c \in held : /\ c.job \in sole.picked /\ c.job \in Jobs
                        /\ c.attempts = jobs[c.job].attempts
    BY SoleType DEF SoleInv
  <2> HIDE DEF held
  <2> QED
    BY <1>1, <1>3, <2>1 DEF CopiesAreFresh, CopyIsFresh
<1>7. AttemptsAreLeft'
  BY <1>3, <1>4 DEF SoleInv, Parts, AttemptsAreLeft
<1>8. DeliveriesAreCounted'
  BY <1>1, <1>4 DEF SoleInv, Parts, DeliveriesAreCounted
<1> QED
  BY <1>5, <1>6, <1>7, <1>8 DEF Parts

LEMMA SendParts ==
  ASSUME SoleInv, Send(Poller)
  PROVE  Parts'
<1>1. PICK copy \in sole.batch, outcome \in Outcomes :
        /\ sole' = [pc |-> "marking", picked |-> {}, batch |-> sole.batch \ {copy},
                    copy |-> copy, outcome |-> outcome]
        /\ delivered' = [delivered EXCEPT ![copy.job] =
             IF outcome \in Taken THEN @ + 1 ELSE @]
        /\ IF outcome = "answer_lost" THEN Fault ELSE UNCHANGED faults
  BY OutboxAssumption DEF Send, sole, SoleInv, TypeOK
<1>2. sole.pc = "working" /\ UNCHANGED jobs
  BY DEF Send, sole
<1>3. /\ sole'.pc = "marking" /\ sole'.batch = sole.batch \ {copy}
      /\ sole'.copy = copy /\ sole'.outcome = outcome
  BY <1>1
<1>4. /\ copy.job \in Jobs
      /\ CopyIsFresh(copy)
  BY SoleType DEF SoleInv, Parts, CopiesAreFresh
<1>5. HoldsNothingYet' /\ PicksAreWaiting'
  BY <1>3 DEF HoldsNothingYet, PicksAreWaiting
<1>6. CopiesAreFresh'
  <2>1. \A c \in sole.batch : c # copy => c.job # copy.job
    <3>1. \A c, d \in Copy : c.job = d.job /\ c.attempts = d.attempts => c = d
      BY DEF Copy
    <3> QED
      BY <3>1, SoleType DEF SoleInv, Parts, CopiesAreFresh, CopyIsFresh
  <2> QED
    BY <1>2, <1>3, <1>4, <2>1 DEF SoleInv, Parts, CopiesAreFresh, CopyIsFresh
<1>7. AttemptsAreLeft'
  BY <1>2 DEF SoleInv, Parts, AttemptsAreLeft, Settled
<1>8. DeliveriesAreCounted'
  <2> SUFFICES ASSUME NEW j \in Jobs
               PROVE  /\ delivered'[j] <= faults' + 1
                      /\ delivered'[j] = faults' + 1 =>
                           \/ Settled(j)
                           \/ copy.job = j /\ outcome = "ok"
    BY <1>2, <1>3 DEF DeliveriesAreCounted, Settled
  <2>1. /\ delivered[j] \in Nat /\ faults \in Nat
        /\ faults' = IF outcome = "answer_lost" THEN faults + 1 ELSE faults
    BY <1>1, OutboxAssumption DEF SoleInv, TypeOK, Fault
  <2>2. delivered'[j] = IF j = copy.job /\ outcome \in Taken
                        THEN delivered[j] + 1 ELSE delivered[j]
    BY <1>1, <1>4 DEF SoleInv, TypeOK
  <2>3. /\ delivered[j] <= faults + 1
        /\ delivered[j] = faults + 1 => Settled(j)
    BY <1>2 DEF SoleInv, Parts, DeliveriesAreCounted
  <2>4. CASE j = copy.job
    <3>1. ~Settled(j)
      BY <1>4, <2>4 DEF CopyIsFresh, Settled
    <3> QED
      BY <2>1, <2>2, <2>3, <2>4, <3>1 DEF Taken
  <2>5. CASE j # copy.job
    BY <2>1, <2>2, <2>3, <2>5
  <2> QED
    BY <2>4, <2>5
<1> QED
  BY <1>5, <1>6, <1>7, <1>8 DEF Parts

\* After a mark, or the loss of one, the dispatcher goes on with the rest.
LEMMA NextJobParts ==
  ASSUME TypeOK, HoldsNothingYet, CopiesAreFresh, sole.pc = "marking", NextJob(Poller)
  PROVE  /\ sole'.batch = sole.batch
         /\ sole'.pc \in {"idle", "working"}
         /\ sole'.pc = "idle" => sole'.batch = {}
<1>1. sole' = IF sole.batch = {} THEN IdleWorker
              ELSE [pc |-> "working", picked |-> {}, batch |-> sole.batch]
  BY OutboxAssumption DEF NextJob, sole, TypeOK
<1> QED
  BY <1>1 DEF IdleWorker

LEMMA MarkParts ==
  ASSUME SoleInv, Mark(Poller)
  PROVE  /\ Parts'
         /\ \A j \in Jobs : Settled(j) => jobs'[j] = jobs[j]
<1> DEFINE j == sole.copy.job
           new == Marked(jobs[j], sole.outcome, sole.copy.attempts + 1)
<1>1. /\ sole.pc = "marking"
      /\ jobs' = [jobs EXCEPT ![j] = new]
      /\ UNCHANGED <<delivered, faults>>
  BY DEF Mark, sole
<1>2. /\ sole'.batch = sole.batch
      /\ sole'.pc \in {"idle", "working"}
      /\ sole'.pc = "idle" => sole'.batch = {}
  BY <1>1, NextJobParts DEF Mark, SoleInv, Parts
<1>3. /\ j \in Jobs /\ sole.copy.attempts \in Nat /\ sole.outcome \in Outcomes
      /\ jobs[j] \in JobRow
  BY <1>1, SoleType DEF SoleInv, TypeOK
<1>4. /\ jobs[j].status = "processing" /\ ~jobs[j].stale
      /\ jobs[j].attempts = sole.copy.attempts
      /\ \A c \in sole.batch : c.job # j
  BY <1>1 DEF SoleInv, Parts, CopiesAreFresh, CopyIsFresh
<1>5. jobs[j].attempts < MaxAttempts
  BY <1>3, <1>4 DEF SoleInv, Parts, AttemptsAreLeft, Settled
<1>6. /\ new.attempts <= MaxAttempts
      /\ new.status \notin {"accepted", "failed"} => new.attempts < MaxAttempts
      /\ sole.outcome = "ok" => new.status = "accepted"
  <2>1. /\ Unlocked(jobs[j]) \in JobRow
        /\ Unlocked(jobs[j]).attempts = jobs[j].attempts
    BY <1>3 DEF Unlocked, JobRow
  <2>2. /\ [Unlocked(jobs[j]) EXCEPT !.status = "accepted"].attempts = jobs[j].attempts
        /\ [Unlocked(jobs[j]) EXCEPT !.status = "accepted"].status = "accepted"
        /\ \A n : /\ [Unlocked(jobs[j]) EXCEPT !.status = "failed", !.attempts = n].attempts = n
                  /\ [Unlocked(jobs[j]) EXCEPT !.status = "failed", !.attempts = n].status
                       = "failed"
                  /\ [Unlocked(jobs[j]) EXCEPT !.status = "retryable_failure",
                        !.attempts = n, !.due = FALSE].attempts = n
    BY <2>1 DEF JobRow
  <2>3. sole.copy.attempts + 1 <= MaxAttempts
    BY <1>3, <1>4, <1>5, OutboxAssumption
  <2>4. CASE sole.outcome \in {"ok", "no_device"}
    BY <1>5, <1>3, <2>2, <2>4, OutboxAssumption DEF Marked, JobRow, Retryable
  <2>5. CASE /\ sole.outcome \notin {"ok", "no_device"}
             /\ sole.outcome = "terminal" \/ GiveUp(sole.copy.attempts + 1)
    BY <1>3, <2>2, <2>3, <2>5 DEF Marked, Outcomes, Retryable
  <2>6. CASE /\ sole.outcome \notin {"ok", "no_device", "terminal"}
             /\ ~GiveUp(sole.copy.attempts + 1)
    BY <1>3, <2>2, <2>3, <2>6, OutboxAssumption DEF Marked, GiveUp, Outcomes, Retryable
  <2> QED
    BY <2>4, <2>5, <2>6
<1>7. jobs'[j] = new /\ \A k \in Jobs : k # j => jobs'[k] = jobs[k]
  BY <1>1, <1>3 DEF SoleInv, TypeOK
<1> HIDE DEF j, new
<1>8. \A k \in Jobs : Settled(k) => jobs'[k] = jobs[k]
  BY <1>4, <1>7 DEF Settled
<1>9. HoldsNothingYet' /\ PicksAreWaiting'
  BY <1>2 DEF HoldsNothingYet, PicksAreWaiting
<1>10. CopiesAreFresh'
  BY <1>2, <1>4, <1>7, SoleType DEF SoleInv, Parts, CopiesAreFresh, CopyIsFresh
<1>11. AttemptsAreLeft'
  BY <1>3, <1>6, <1>7 DEF SoleInv, Parts, AttemptsAreLeft, Settled
<1>12. DeliveriesAreCounted'
  <2> SUFFICES ASSUME NEW k \in Jobs
               PROVE  /\ delivered[k] <= faults + 1
                      /\ delivered[k] = faults + 1 => Settled(k)'
    BY <1>1 DEF DeliveriesAreCounted
  <2>1. CASE k = j
    BY <1>4, <1>6, <1>7, <2>1 DEF SoleInv, Parts, DeliveriesAreCounted, Settled
  <2>2. CASE k # j
    BY <1>7, <2>2 DEF SoleInv, Parts, DeliveriesAreCounted, Settled, j
  <2> QED
    BY <2>1, <2>2
<1> QED
  BY <1>8, <1>9, <1>10, <1>11, <1>12 DEF Parts

LEMMA FaultParts ==
  ASSUME SoleInv, MarkFails(Poller) \/ ContextDone(Poller) \/ Crash(Poller)
  PROVE  Parts'
<1>1. UNCHANGED <<jobs, delivered>> /\ faults' = faults + 1
  BY DEF MarkFails, ContextDone, Crash, Fault
<1>2. /\ sole'.batch \subseteq sole.batch
      /\ sole'.pc \in {"idle", "working"}
      /\ sole'.pc = "idle" => sole'.batch = {}
  <2>1. CASE MarkFails(Poller)
    BY <2>1, NextJobParts DEF MarkFails, SoleInv, Parts, sole
  <2>2. CASE ContextDone(Poller) \/ Crash(Poller)
    BY <2>2, OutboxAssumption DEF ContextDone, Crash, SoleInv, TypeOK, sole, IdleWorker
  <2> QED
    BY <2>1, <2>2
<1>3. HoldsNothingYet' /\ PicksAreWaiting'
  BY <1>2 DEF HoldsNothingYet, PicksAreWaiting
<1>4. CopiesAreFresh'
  BY <1>1, <1>2 DEF SoleInv, Parts, CopiesAreFresh, CopyIsFresh
<1>5. AttemptsAreLeft'
  BY <1>1 DEF SoleInv, Parts, AttemptsAreLeft, Settled
<1>6. DeliveriesAreCounted'
  <2>1. \A j \in Jobs : delivered[j] \in Nat /\ faults \in Nat
    BY OutboxAssumption DEF SoleInv, TypeOK
  <2> QED
    BY <1>1, <2>1 DEF SoleInv, Parts, DeliveriesAreCounted
<1> QED
  BY <1>3, <1>4, <1>5, <1>6 DEF Parts

LEMMA TimeParts ==
  ASSUME SoleInv, OneDispatcher, NEW j \in Jobs, LockExpires(j) \/ BackoffElapses(j)
  PROVE  Parts'
<1>1. UNCHANGED <<worker, delivered, faults>> /\ sole' = sole
  BY DEF LockExpires, BackoffElapses, sole
<1>2. \A k \in Jobs :
        /\ jobs'[k].status = jobs[k].status
        /\ jobs'[k].attempts = jobs[k].attempts
        /\ k # j => jobs'[k] = jobs[k]
        /\ BackoffElapses(j) => jobs'[k].stale = jobs[k].stale
  BY DEF LockExpires, BackoffElapses, SoleInv, TypeOK, JobRow
<1>3. LockExpires(j) => /\ \A c \in sole.batch : c.job # j
                        /\ sole.pc = "marking" => sole.copy.job # j
  BY OutboxAssumption DEF LockExpires, OneDispatcher, AtWork, sole
<1>4. HoldsNothingYet' /\ PicksAreWaiting'
  BY <1>1, <1>2, SoleType DEF SoleInv, Parts, HoldsNothingYet, PicksAreWaiting
<1>5. CopiesAreFresh'
  BY <1>1, <1>2, <1>3, SoleType DEF SoleInv, Parts, CopiesAreFresh, CopyIsFresh
<1>6. AttemptsAreLeft' /\ DeliveriesAreCounted'
  BY <1>1, <1>2 DEF SoleInv, Parts, AttemptsAreLeft, DeliveriesAreCounted, Settled
<1> QED
  BY <1>4, <1>5, <1>6 DEF Parts

LEMMA SoleStep ==
  ASSUME SoleInv, OneDispatcher, [Next]_vars
  PROVE  SoleInv'
<1>1. TypeOK'
  BY TypeStep DEF SoleInv
<1>2. Parts'
  <2>1. CASE UNCHANGED vars
    BY <2>1 DEF vars, SoleInv, Parts, HoldsNothingYet, PicksAreWaiting, CopiesAreFresh,
                CopyIsFresh, AttemptsAreLeft, DeliveriesAreCounted, Settled, sole
  <2>2. CASE \E e \in Events : Commit(e) \/ EnqueueNotification(e) \/ LoseEvent(e)
    BY <2>2, ProducerParts
  <2>3. CASE \E w \in Workers : \/ RecoverStaleLocks(w) \/ Continue(w)
                                \/ MarkFails(w) \/ ContextDone(w) \/ Crash(w)
    BY <2>3, RecoverParts, SelectParts, ClaimParts, SendParts, MarkParts, FaultParts
       DEF OneDispatcher, Continue
  <2>4. CASE \E j \in Jobs : LockExpires(j) \/ BackoffElapses(j)
    BY <2>4, TimeParts
  <2> QED
    BY <2>1, <2>2, <2>3, <2>4 DEF Next
<1> QED
  BY <1>1, <1>2 DEF SoleInv

LEMMA SoleInvariance ==
  ASSUME OneDispatcher
  PROVE  Spec => []SoleInv
<1>1. Init => SoleInv
  BY InitType, InitParts DEF SoleInv
<1>2. SoleInv /\ [Next]_vars => SoleInv'
  BY SoleStep
<1> QED
  BY <1>1, <1>2, PTL DEF Spec

\* With one dispatcher, a key is delivered at most once more than there are
\* faults: without a fault nobody is notified twice.
THEOREM DuplicatesNeedFaults ==
  ASSUME OneDispatcher
  PROVE  Spec => []DuplicatesOnlyAfterFaults
<1>1. SoleInv => DuplicatesOnlyAfterFaults
  <2> SUFFICES ASSUME SoleInv, NEW j \in Jobs PROVE delivered[j] <= 1 + faults
    BY DEF DuplicatesOnlyAfterFaults
  <2>1. faults \in Nat /\ delivered[j] \in Nat
    BY OutboxAssumption DEF SoleInv, TypeOK
  <2> QED
    BY <2>1 DEF SoleInv, Parts, DeliveriesAreCounted
<1> QED
  BY <1>1, SoleInvariance, PTL

\* With one dispatcher, a settled row never changes its status.
THEOREM SettledFinal ==
  ASSUME OneDispatcher
  PROVE  Spec => SettledIsFinal
<1>1. ASSUME SoleInv, [Next]_vars, NEW j \in Jobs, Settled(j)
      PROVE  jobs'[j].status = jobs[j].status
  <2>1. CASE \E e \in Events : EnqueueNotification(e)
    BY <1>1, <2>1, OutboxAssumption
       DEF EnqueueNotification, EnqueueOnce, SoleInv, TypeOK, Settled
  <2>2. CASE RecoverStaleLocks(Poller)
    BY <1>1, <2>2 DEF RecoverStaleLocks, Recovered, Settled
  <2>3. CASE ClaimCandidates(Poller)
    BY <1>1, <2>3 DEF ClaimCandidates, SoleInv, Parts, PicksAreWaiting, Settled, sole
  <2>4. CASE Mark(Poller)
    BY <1>1, <2>4, MarkParts
  <2>5. CASE \E k \in Jobs : LockExpires(k) \/ BackoffElapses(k)
    BY <1>1, <2>5 DEF LockExpires, BackoffElapses, SoleInv, TypeOK, JobRow
  <2>6. CASE UNCHANGED jobs
    BY <2>6
  <2> QED
    BY <1>1, <2>1, <2>2, <2>3, <2>4, <2>5, <2>6
       DEF Next, Continue, OneDispatcher, Commit, LoseEvent, SelectCandidates, Send, MarkFails,
           ContextDone, Crash, vars
<1>2. SoleInv /\ [Next]_vars =>
        [\A j \in Jobs : Settled(j) => jobs'[j].status = jobs[j].status]_vars
  BY <1>1
<1> QED
  BY <1>2, SoleInvariance, PTL DEF Spec, SettledIsFinal

-----------------------------------------------------------------------------
(* How often a notification is sent                                        *)

Marking(j) == IF sole.pc = "marking" /\ sole.copy.job = j THEN 1 ELSE 0

\* How often j may have been sent: once for each attempt its row counts, once
\* for each outcome that was lost, and once for the outcome still to be written.
Budget(j) ==
  IF Settled(j) THEN MaxAttempts + unmarked[j]
  ELSE jobs[j].attempts + unmarked[j] + Marking(j)

CountedInv ==
  /\ SoleInv
  /\ sent \in [Jobs -> Nat] /\ unmarked \in [Jobs -> Nat]
  /\ \A j \in Jobs :
       /\ sent[j] <= Budget(j)
       /\ jobs[j].status = "absent" => jobs[j].attempts = 0

HandedOver(j) == IF HandsOver(Poller, j) THEN 1 ELSE 0
Forgotten(j) == IF Forgets(Poller, j) THEN 1 ELSE 0

\* No step takes from the budget of j, and one that sends j adds to it.
LEMMA BudgetGrows ==
  ASSUME SoleInv, OneDispatcher, [Next]_vars, NEW j \in Jobs,
         unmarked[j] \in Nat, unmarked'[j] = unmarked[j] + Forgotten(j),
         jobs[j].status = "absent" => jobs[j].attempts = 0
  PROVE  /\ Budget(j)' >= Budget(j) + HandedOver(j)
         /\ jobs'[j].status = "absent" => jobs'[j].attempts = 0
<1>1. /\ SoleInv' /\ TypeOK /\ TypeOK' /\ AttemptsAreLeft
      /\ MaxAttempts \in Nat
      /\ unmarked[j] \in Nat /\ unmarked'[j] \in Nat /\ unmarked'[j] >= unmarked[j]
      /\ jobs[j] \in JobRow /\ jobs'[j] \in JobRow
      /\ jobs[j].attempts \in Nat /\ jobs'[j].attempts \in Nat
      /\ sole' = worker'[Poller]
  BY SoleStep, OutboxAssumption DEF SoleInv, Parts, TypeOK, JobRow, sole, Forgotten
\* Steps of the dispatcher and others that leave the counts and j's place alone.
<1>a. ASSUME Marking(j)' = Marking(j), ~HandsOver(Poller, j),
             jobs'[j].attempts = jobs[j].attempts, Settled(j)' <=> Settled(j),
             jobs'[j].status = "absent" => jobs[j].status = "absent"
      PROVE  /\ Budget(j)' >= Budget(j) + HandedOver(j)
             /\ jobs'[j].status = "absent" => jobs'[j].attempts = 0
  <2>1. Marking(j) \in Nat
    BY DEF Marking
  <2> QED
    BY <1>1, <1>a, <2>1 DEF Budget, HandedOver
<1>2. ASSUME NEW e \in Events, Commit(e) \/ EnqueueNotification(e) \/ LoseEvent(e)
      PROVE  /\ Budget(j)' >= Budget(j) + HandedOver(j)
             /\ jobs'[j].status = "absent" => jobs'[j].attempts = 0
  <2>1. worker' = worker
    BY <1>2 DEF Commit, EnqueueNotification, LoseEvent
  <2>2. Marking(j)' = Marking(j) /\ ~HandsOver(Poller, j)
    BY <2>1 DEF Marking, sole, HandsOver
  <2>3. NewJob.attempts = 0 /\ NewJob.status = "pending"
    BY DEF NewJob, Absent
  <2>4. jobs'[j] = jobs[j] \/ (jobs[j].status = "absent" /\ jobs'[j] = NewJob)
    <3>1. CASE EnqueueNotification(e)
      BY <1>1, <3>1, OutboxAssumption DEF EnqueueNotification, EnqueueOnce, TypeOK
    <3>2. CASE Commit(e) \/ LoseEvent(e)
      BY <3>2 DEF Commit, LoseEvent
    <3> QED
      BY <1>2, <3>1, <3>2
  <2> QED
    BY <1>a, <2>1, <2>2, <2>3, <2>4 DEF Settled
<1>3. ASSUME RecoverStaleLocks(Poller)
      PROVE  /\ Budget(j)' >= Budget(j) + HandedOver(j)
             /\ jobs'[j].status = "absent" => jobs'[j].attempts = 0
  <2>1. jobs'[j] = Recovered(jobs[j])
    BY <1>3 DEF RecoverStaleLocks
  <2>2. sole.pc = "idle" /\ sole'.pc = "selecting"
    <3>1. sole' = [sole EXCEPT !.pc = "selecting"] /\ sole.pc = "idle"
      BY <1>1, <1>3, OutboxAssumption DEF RecoverStaleLocks, TypeOK, sole
    <3>2. sole \in [pc : {"idle", "selecting", "claiming", "working"}, picked : SUBSET Jobs,
                    batch : SUBSET Copy]
      BY <1>1, <3>1, SoleType DEF Worker
    <3> QED
      BY <3>1, <3>2
  <2>3. Marking(j)' = Marking(j) /\ ~HandsOver(Poller, j)
    BY <1>1, <2>2 DEF Marking, HandsOver, sole
  <2>4. /\ jobs'[j].attempts = jobs[j].attempts /\ (Settled(j)' <=> Settled(j))
        /\ jobs'[j].status = "absent" => jobs[j].status = "absent"
    BY <1>1, <2>1 DEF Recovered, JobRow, Settled
  <2> QED
    BY <1>1, <1>a, <2>1, <2>3, <2>4
<1>4. ASSUME SelectCandidates(Poller)
      PROVE  /\ Budget(j)' >= Budget(j) + HandedOver(j)
             /\ jobs'[j].status = "absent" => jobs'[j].attempts = 0
  <2>1. sole.pc = "selecting" /\ jobs' = jobs
    BY <1>4 DEF SelectCandidates, sole
  <2>2. sole'.pc \in {"idle", "claiming"}
    <3>1. PICK picked : sole' = IF picked = {} THEN IdleWorker
                                ELSE [sole EXCEPT !.pc = "claiming", !.picked = picked]
      BY <1>1, <1>4, OutboxAssumption DEF SelectCandidates, TypeOK, sole
    <3>2. sole \in [pc : {"idle", "selecting", "claiming", "working"}, picked : SUBSET Jobs,
                    batch : SUBSET Copy]
      BY <1>1, <2>1, SoleType DEF Worker
    <3> QED
      BY <3>1, <3>2 DEF IdleWorker
  <2>3. Marking(j)' = Marking(j) /\ ~HandsOver(Poller, j)
    BY <1>1, <2>1, <2>2 DEF Marking, HandsOver, sole
  <2> QED
    BY <1>1, <1>a, <2>1, <2>3 DEF Settled
<1>5. ASSUME ClaimCandidates(Poller)
      PROVE  /\ Budget(j)' >= Budget(j) + HandedOver(j)
             /\ jobs'[j].status = "absent" => jobs'[j].attempts = 0
  <2>1. sole.pc = "claiming" /\ sole'.pc = "working"
    BY <1>1, <1>5, OutboxAssumption DEF ClaimCandidates, TypeOK, sole
  <2>2. Marking(j)' = Marking(j) /\ ~HandsOver(Poller, j)
    BY <1>1, <2>1 DEF Marking, HandsOver, sole
  <2>3. jobs'[j] = IF j \in sole.picked
                   THEN [jobs[j] EXCEPT !.status = "processing", !.lockedBy = Poller,
                                        !.stale = FALSE]
                   ELSE jobs[j]
    BY <1>5 DEF ClaimCandidates, sole
  <2>4. j \in sole.picked => jobs[j].status \in {"pending", "retryable_failure"}
    BY <2>1 DEF SoleInv, Parts, PicksAreWaiting
  <2>5. /\ jobs'[j].attempts = jobs[j].attempts /\ (Settled(j)' <=> Settled(j))
        /\ jobs'[j].status = "absent" => jobs[j].status = "absent"
    BY <1>1, <2>3, <2>4 DEF JobRow, Settled
  <2> QED
    BY <1>1, <1>a, <2>1, <2>2, <2>5
<1>6. ASSUME Send(Poller)
      PROVE  /\ Budget(j)' >= Budget(j) + HandedOver(j)
             /\ jobs'[j].status = "absent" => jobs'[j].attempts = 0
  <2>1. PICK copy \in sole.batch, outcome \in Outcomes :
          sole' = [pc |-> "marking", picked |-> {}, batch |-> sole.batch \ {copy},
                   copy |-> copy, outcome |-> outcome]
    BY <1>1, <1>6, OutboxAssumption DEF Send, sole, TypeOK
  <2>2. sole.pc = "working" /\ jobs' = jobs
    BY <1>6 DEF Send, sole
  <2>3. sole'.pc = "marking" /\ sole'.copy.job = copy.job
    BY <2>1
  <2>4. CASE j = copy.job
    <3>1. ~Settled(j) /\ ~Settled(j)'
      BY <2>2, <2>4 DEF SoleInv, Parts, CopiesAreFresh, CopyIsFresh, Settled
    <3>2. Marking(j)' = 1 /\ Marking(j) = 0 /\ HandedOver(j) = 1
      BY <1>1, <2>2, <2>3, <2>4 DEF Marking, HandedOver, HandsOver, sole
    <3> QED
      BY <1>1, <2>2, <3>1, <3>2 DEF Budget
  <2>5. CASE j # copy.job
    <3>1. Marking(j)' = Marking(j) /\ ~HandsOver(Poller, j)
      BY <1>1, <2>2, <2>3, <2>5 DEF Marking, HandsOver, sole
    <3> QED
      BY <1>1, <1>a, <2>2, <3>1 DEF Settled
  <2> QED
    BY <2>4, <2>5
<1>7. ASSUME Mark(Poller)
      PROVE  /\ Budget(j)' >= Budget(j) + HandedOver(j)
             /\ jobs'[j].status = "absent" => jobs'[j].attempts = 0
  <2> DEFINE k == sole.copy.job
             new == Marked(jobs[k], sole.outcome, sole.copy.attempts + 1)
  <2>1. /\ sole.pc = "marking" /\ jobs' = [jobs EXCEPT ![k] = new]
        /\ sole'.pc \in {"idle", "working"}
    BY <1>7, NextJobParts DEF Mark, SoleInv, Parts, sole
  <2>2. /\ k \in Jobs /\ jobs[k] \in JobRow /\ sole.outcome \in Outcomes
        /\ sole.copy.attempts = jobs[k].attempts /\ jobs[k].attempts \in Nat
        /\ jobs[k].status = "processing"
    BY <1>1, <2>1, SoleType DEF SoleInv, Parts, CopiesAreFresh, CopyIsFresh, TypeOK, JobRow
  <2>3. ~HandsOver(Poller, j) /\ Marking(j)' = 0
    BY <1>1, <2>1 DEF HandsOver, Marking, sole
  <2>4. CASE j = k
    <3>1. ~Settled(j) /\ jobs[j].attempts < MaxAttempts /\ Marking(j) = 1
      BY <2>1, <2>2, <2>4 DEF Settled, SoleInv, Parts, AttemptsAreLeft, Marking
    <3>2. jobs'[j] = new
      BY <1>1, <2>1, <2>4 DEF TypeOK
    <3>3. /\ new.status # "absent"
          /\ \/ new.status \in {"accepted", "failed"}
             \/ new.attempts = jobs[j].attempts + 1
      <4>1. /\ Unlocked(jobs[k]) \in JobRow
            /\ jobs[k].attempts + 1 \in Nat
        <5>1. \A row \in JobRow : Unlocked(row) \in JobRow
          BY DEF Unlocked, JobRow
        <5> QED
          BY <2>2, <5>1
      <4>2. new \in JobRow /\ new.status \in {"accepted", "failed", "retryable_failure"}
        BY <2>2, <4>1, MarkedType
      <4>3. \A n : [Unlocked(jobs[k]) EXCEPT !.status = "retryable_failure",
                      !.attempts = n, !.due = FALSE].attempts = n
        BY <4>1 DEF JobRow
      <4>4. /\ [Unlocked(jobs[k]) EXCEPT !.status = "accepted"].status = "accepted"
            /\ \A n : [Unlocked(jobs[k]) EXCEPT !.status = "failed", !.attempts = n].status
                         = "failed"
        BY <4>1 DEF JobRow
      <4>5. \/ new.status \in {"accepted", "failed"}
            \/ new.attempts = jobs[j].attempts + 1
        BY <2>2, <2>4, <4>3, <4>4 DEF Marked
      <4> QED
        BY <4>2, <4>5
    <3> HIDE DEF k, new
    <3>4. CASE Settled(j)'
      BY <1>1, <2>1, <2>3, <3>1, <3>2, <3>3, <3>4 DEF Budget, HandedOver
    <3>5. CASE ~Settled(j)'
      BY <1>1, <2>1, <2>3, <3>1, <3>2, <3>3, <3>5 DEF Budget, HandedOver, Settled
    <3> QED
      BY <3>2, <3>3, <3>4, <3>5
  <2>5. CASE j # k
    <3>1. jobs'[j] = jobs[j] /\ Marking(j) = 0
      BY <1>1, <2>1, <2>5 DEF Marking, TypeOK
    <3> QED
      BY <1>1, <1>a, <2>1, <2>3, <3>1 DEF Settled
  <2> QED
    BY <2>4, <2>5
<1>8. ASSUME MarkFails(Poller) \/ ContextDone(Poller) \/ Crash(Poller)
      PROVE  /\ Budget(j)' >= Budget(j) + HandedOver(j)
             /\ jobs'[j].status = "absent" => jobs'[j].attempts = 0
  <2>1. jobs' = jobs
    BY <1>8 DEF MarkFails, ContextDone, Crash
  <2>2. sole'.pc \in {"idle", "working"}
    <3>1. CASE MarkFails(Poller)
      BY <3>1, NextJobParts DEF MarkFails, SoleInv, Parts, sole
    <3>2. CASE ContextDone(Poller) \/ Crash(Poller)
      BY <1>1, <3>2, OutboxAssumption DEF ContextDone, Crash, TypeOK, sole, IdleWorker
    <3> QED
      BY <1>8, <3>1, <3>2
  <2>3. Marking(j) \in {0, 1} /\ Marking(j)' = 0 /\ HandedOver(j) = 0
    BY <1>1, <2>2 DEF Marking, HandedOver, HandsOver, sole
  <2>4. Settled(j)' <=> Settled(j)
    BY <2>1 DEF Settled
  <2>5. Marking(j) <= Forgotten(j) /\ Forgotten(j) \in {0, 1}
    BY <1>8 DEF Marking, Forgotten, Forgets, ContextDone, sole
  <2> QED
    BY <1>1, <2>1, <2>3, <2>4, <2>5 DEF Budget
<1>9. ASSUME NEW k \in Jobs, LockExpires(k) \/ BackoffElapses(k)
      PROVE  /\ Budget(j)' >= Budget(j) + HandedOver(j)
             /\ jobs'[j].status = "absent" => jobs'[j].attempts = 0
  <2>1. worker' = worker
    BY <1>9 DEF LockExpires, BackoffElapses
  <2>2. Marking(j)' = Marking(j) /\ ~HandsOver(Poller, j)
    BY <2>1 DEF Marking, sole, HandsOver
  <2>3. jobs'[j].attempts = jobs[j].attempts /\ jobs'[j].status = jobs[j].status
    BY <1>1, <1>9 DEF LockExpires, BackoffElapses, TypeOK, JobRow
  <2> QED
    BY <1>1, <1>a, <2>1, <2>2, <2>3 DEF Settled
<1>10. CASE UNCHANGED vars
  <2>1. worker' = worker /\ jobs' = jobs
    BY <1>10 DEF vars
  <2>2. Marking(j)' = Marking(j) /\ ~HandsOver(Poller, j)
    BY <2>1 DEF Marking, sole, HandsOver
  <2> QED
    BY <1>1, <1>a, <2>1, <2>2 DEF Settled
<1>11. CASE \E w \in Workers : \/ RecoverStaleLocks(w) \/ Continue(w)
                               \/ MarkFails(w) \/ ContextDone(w) \/ Crash(w)
  BY <1>3, <1>4, <1>5, <1>6, <1>7, <1>8, <1>11 DEF OneDispatcher, Continue
<1> QED
  BY <1>2, <1>9, <1>10, <1>11 DEF Next

\* A fault is counted, so it never leaves the state as it is.
LEMMA FaultCounts ==
  ASSUME TypeOK, Fault
  PROVE  faults' # faults
BY OutboxAssumption DEF TypeOK, Fault

LEMMA CountedStep ==
  ASSUME CountedInv, OneDispatcher, [CountedNext]_countedVars
  PROVE  CountedInv'
<1>1. [Next]_vars
  BY DEF CountedNext, countedVars
<1>2. SoleInv'
  BY <1>1, SoleStep DEF CountedInv
<1>3. /\ sent' \in [Jobs -> Nat] /\ unmarked' \in [Jobs -> Nat]
      /\ \A j \in Jobs : /\ sent'[j] <= sent[j] + HandedOver(j)
                         /\ unmarked'[j] = unmarked[j] + Forgotten(j)
  <2>1. CASE CountedNext
    BY <2>1 DEF CountedInv, CountedNext, OneDispatcher, HandedOver, Forgotten
  <2>2. CASE UNCHANGED countedVars
    <3>1. faults' = faults /\ TypeOK
      BY <2>2 DEF CountedInv, SoleInv, countedVars, vars
    <3>2. ~Fault
      BY <3>1, FaultCounts
    <3>3. \A j \in Jobs : ~Forgets(Poller, j)
      BY <3>2 DEF Forgets, MarkFails, Crash
    <3>4. \A j \in Jobs : HandedOver(j) \in Nat /\ Forgotten(j) = 0
      BY <3>3 DEF HandedOver, Forgotten
    <3>5. sent' = sent /\ unmarked' = unmarked
      BY <2>2 DEF countedVars
    <3>6. sent \in [Jobs -> Nat] /\ unmarked \in [Jobs -> Nat]
      BY DEF CountedInv
    <3>7. \A j \in Jobs : sent[j] \in Nat /\ unmarked[j] \in Nat
      BY <3>6
    <3> QED
      BY <3>4, <3>5, <3>6, <3>7
  <2> QED
    BY <2>1, <2>2
<1>4. ASSUME NEW j \in Jobs
      PROVE  sent'[j] <= Budget(j)' /\ (jobs'[j].status = "absent" => jobs'[j].attempts = 0)
  <2>1. /\ sent[j] \in Nat /\ sent'[j] \in Nat /\ sent[j] <= Budget(j)
        /\ sent'[j] <= sent[j] + HandedOver(j) /\ HandedOver(j) \in Nat
    BY <1>3 DEF CountedInv, HandedOver
  <2>2. /\ Budget(j)' >= Budget(j) + HandedOver(j)
        /\ jobs'[j].status = "absent" => jobs'[j].attempts = 0
    BY <1>1, <1>3, BudgetGrows DEF CountedInv
  <2>3. Budget(j) \in Int /\ Budget(j)' \in Int
    <3>1. /\ MaxAttempts \in Nat /\ unmarked[j] \in Nat /\ unmarked'[j] \in Nat
          /\ jobs[j].attempts \in Nat /\ jobs'[j].attempts \in Nat
      BY <1>2, <1>3, OutboxAssumption DEF CountedInv, SoleInv, TypeOK, JobRow
    <3>2. Marking(j) \in Nat /\ Marking(j)' \in Nat
      BY DEF Marking
    <3> QED
      BY <3>1, <3>2 DEF Budget
  <2> QED
    BY <2>1, <2>2, <2>3
<1> QED
  BY <1>2, <1>3, <1>4 DEF CountedInv

\* With one dispatcher, no notification is sent more often than MaxAttempts
\* times and once more for each outcome that never reached its row, and a row
\* that waits for a retry has an attempt left.
THEOREM AttemptsBounded ==
  ASSUME OneDispatcher
  PROVE  CountedSpec => []AttemptsWithinLimit
<1>1. CountedInit => CountedInv
  <2> SUFFICES ASSUME CountedInit PROVE CountedInv
    OBVIOUS
  <2>1. SoleInv /\ sent = [j \in Jobs |-> 0] /\ unmarked = [j \in Jobs |-> 0]
    BY InitType, InitParts DEF CountedInit, SoleInv
  <2>2. /\ unmarked = [j \in Jobs |-> 0] /\ sole.pc = "idle"
        /\ \A j \in Jobs : jobs[j].status = "absent" /\ jobs[j].attempts = 0
    BY OutboxAssumption DEF CountedInit, Init, sole, IdleWorker, Absent
  <2>3. \A j \in Jobs : Budget(j) = 0
    BY <2>2 DEF Budget, Marking, Settled
  <2> QED
    BY <2>1, <2>2, <2>3 DEF CountedInv
<1>2. CountedInv => AttemptsWithinLimit
  <2> SUFFICES ASSUME CountedInv, NEW j \in Jobs
               PROVE  /\ sent[j] <= MaxAttempts + unmarked[j]
                      /\ jobs[j].status = "retryable_failure" => jobs[j].attempts < MaxAttempts
    BY DEF AttemptsWithinLimit
  <2>1. /\ MaxAttempts \in Nat /\ unmarked[j] \in Nat /\ jobs[j].attempts \in Nat
        /\ sent[j] \in Nat /\ sent[j] <= Budget(j)
    BY OutboxAssumption DEF CountedInv, SoleInv, TypeOK, JobRow
  <2>2. ~Settled(j) => jobs[j].attempts < MaxAttempts
    BY DEF CountedInv, SoleInv, Parts, AttemptsAreLeft
  <2>3. Marking(j) \in {0, 1}
    BY DEF Marking
  <2> QED
    BY <2>1, <2>2, <2>3 DEF Budget, Settled
<1>3. CountedInv /\ [CountedNext]_countedVars => CountedInv'
  BY CountedStep
<1> QED
  BY <1>1, <1>2, <1>3, PTL DEF CountedSpec

-----------------------------------------------------------------------------
(* Device tokens                                                           *)

TokenRow == [there : BOOLEAN, owner : People \cup {NoOne}, active : BOOLEAN]
AppRequest == [kind : {"save", "resolved", "delete"}, token : Tokens, user : People]
PushState == [pc : {"idle", "send", "clean"}, tokens : SUBSET Tokens,
              invalid : SUBSET Tokens]

-----------------------------------------------------------------------------
(* Types                                                                   *)

LEMMA RowsTyped ==
  /\ NoRow \in TokenRow
  /\ \A u \in People : Registered(u) \in TokenRow
  /\ \A row \in TokenRow : [row EXCEPT !.active = FALSE] \in TokenRow
BY DEF NoRow, Registered, TokenRow

LEMMA PushesTyped ==
  /\ NoPush \in PushState
  /\ \A u : TokensOf(u) \subseteq Tokens
BY DEF NoPush, TokensOf, PushState

LEMMA TokenTypesKept ==
  ASSUME TokensTypeOK, [TokensNext]_tokenVars
  PROVE  TokensTypeOK'
<1> USE DEF TokensTypeOK
<1>1. ASSUME NEW t \in Tokens, NEW u \in People, SignIn(t, u)
      PROVE  TokensTypeOK'
  BY <1>1 DEF SignIn, Demand
<1>2. ASSUME NEW t \in Tokens, SignOut(t)
      PROVE  TokensTypeOK'
  BY <1>2 DEF SignOut, Demand
<1>3. ASSUME NEW t \in Tokens, Uninstall(t)
      PROVE  TokensTypeOK'
  BY <1>3 DEF Uninstall
<1>4. ASSUME NEW r \in inbox, LoseRequest(r)
      PROVE  TokensTypeOK'
  BY <1>4 DEF LoseRequest
<1>5. ASSUME NEW r \in inbox, SaveFCMToken(r)
      PROVE  TokensTypeOK'
  BY <1>5 DEF SaveFCMToken
<1>6. ASSUME NEW r \in inbox, SaveToken(r)
      PROVE  TokensTypeOK'
  <2>1. Registered(r.user) \in TokenRow
    BY RowsTyped
  <2> QED
    BY <1>6, <2>1 DEF SaveToken, TokenRow
<1>7. ASSUME NEW r \in inbox, DeleteToken(r)
      PROVE  TokensTypeOK'
  <2>1. [devices[r.token] EXCEPT !.active = FALSE] \in TokenRow
    BY RowsTyped DEF TokenRow
  <2>2. devices' \in [Tokens -> TokenRow]
    BY <1>7, <2>1 DEF DeleteToken, TokenRow
  <2> QED
    BY <1>7, <2>2 DEF DeleteToken, TokenRow
<1>8. ASSUME NEW s \in Senders, NEW u \in People, SendNotificationToUser(s, u)
      PROVE  TokensTypeOK'
  BY <1>8, PushesTyped DEF SendNotificationToUser
<1>9. ASSUME NEW s \in Senders, SendMulticastFCM(s)
      PROVE  TokensTypeOK'
  <2>1. PICK refused \in SUBSET push[s].tokens :
          /\ push' = [push EXCEPT ![s].pc = "clean", ![s].invalid = refused]
          /\ astray' = astray \cup (refused \ dead)
    BY <1>9 DEF SendMulticastFCM, InvalidOnes
  <2>2. push[s] \in PushState /\ refused \in SUBSET Tokens
    BY DEF PushState
  <2>3. [push[s] EXCEPT !.pc = "clean", !.invalid = refused] \in PushState
    BY <2>2 DEF PushState
  <2>4. push' = [push EXCEPT ![s] = [push[s] EXCEPT !.pc = "clean", !.invalid = refused]]
    BY <2>1
  <2> QED
    BY <1>9, <2>1, <2>2, <2>3, <2>4 DEF SendMulticastFCM, PushState
<1>10. ASSUME NEW s \in Senders, DeleteInvalidTokens(s)
       PROVE  TokensTypeOK'
  <2>1. devices' \in [Tokens -> TokenRow]
    BY <1>10, RowsTyped DEF DeleteInvalidTokens, TokenRow
  <2> QED
    BY <1>10, <2>1, PushesTyped DEF DeleteInvalidTokens, TokenRow, PushState
<1>11. ASSUME NEW u \in People, DropDevices(u)
       PROVE  TokensTypeOK'
  <2>1. devices' \in [Tokens -> TokenRow]
    BY <1>11, RowsTyped DEF DropDevices, SignedOff, TokenRow
  <2>2. late' \subseteq Tokens \X People
    BY <1>11, PushesTyped DEF DropDevices
  <2> QED
    BY <1>11, <2>1, <2>2 DEF DropDevices, TokenRow
<1>12. ASSUME NEW u \in People, RemoveOwner(u)
       PROVE  TokensTypeOK'
  BY <1>12 DEF RemoveOwner
<1>13. CASE UNCHANGED tokenVars
  BY <1>13 DEF tokenVars
<1> QED
  BY <1>1, <1>2, <1>3, <1>4, <1>5, <1>6, <1>7, <1>8, <1>9, <1>10, <1>11, <1>12, <1>13
     DEF TokensNext, App, Handle, Notify

\* The type invariant of tokens, requests and pushes.
THEOREM TokensTyped == TokensSpec => []TokensTypeOK
<1>1. TokensInit => TokensTypeOK
  BY RowsTyped, PushesTyped DEF TokensInit, TokensTypeOK, TokenRow, PushState
<1> QED
  BY <1>1, TokenTypesKept, PTL DEF TokensSpec

-----------------------------------------------------------------------------
(* No token outlives its account                                           *)

Alive(t, u) == (u \in known /\ u \notin closing) \/ <<t, u>> \in late

\* The same of requests that are about to be saved and of accounts whose
\* deletion has dropped the tokens: what is registered there came late.
Accounted ==
  /\ \A t \in Tokens : devices[t].active => Alive(t, devices[t].owner)
  /\ \A r \in inbox : r.kind = "resolved" => r.user \in known \/ <<r.token, r.user>> \in late

LEMMA AccountedKept ==
  ASSUME TokensTypeOK, Accounted, [TokensNext]_tokenVars
  PROVE  Accounted'
<1> USE DEF TokensTypeOK
<1>0. ASSUME UNCHANGED <<devices, known, closing, late>>,
             \A r \in inbox' : r \in inbox \/ r.kind # "resolved"
      PROVE  Accounted'
  BY <1>0 DEF Accounted, Alive
<1>1. ASSUME NEW t \in Tokens, NEW u \in People, SignIn(t, u)
      PROVE  Accounted'
  BY <1>0, <1>1 DEF SignIn, Demand
<1>2. ASSUME NEW t \in Tokens, SignOut(t)
      PROVE  Accounted'
  BY <1>0, <1>2 DEF SignOut, Demand
<1>3. ASSUME NEW t \in Tokens, Uninstall(t)
      PROVE  Accounted'
  BY <1>0, <1>3 DEF Uninstall
<1>4. ASSUME NEW r \in inbox, LoseRequest(r)
      PROVE  Accounted'
  BY <1>0, <1>4 DEF LoseRequest
<1>5. ASSUME NEW r \in inbox, SaveFCMToken(r)
      PROVE  Accounted'
  <2>1. \A q \in inbox' : q \in inbox \/ q.user \in known
    BY <1>5 DEF SaveFCMToken, AccountFound
  <2> QED
    BY <1>5, <2>1 DEF SaveFCMToken, Accounted, Alive
<1>6. ASSUME NEW r \in inbox, SaveToken(r)
      PROVE  Accounted'
  <2>1. r.token \in Tokens /\ late \subseteq late' /\ UNCHANGED <<known, closing>>
    BY <1>6 DEF SaveToken
  <2>2. devices'[r.token] = Registered(r.user)
        /\ \A t \in Tokens \ {r.token} : devices'[t] = devices[t]
    BY <1>6, <2>1 DEF SaveToken
  <2>3. r.user \in closing => <<r.token, r.user>> \in late'
    BY <1>6 DEF SaveToken
  <2>4. r.user \in known \/ <<r.token, r.user>> \in late'
    BY <1>6, <2>1 DEF SaveToken, Accounted
  <2>5. ASSUME NEW t \in Tokens, devices'[t].active
        PROVE  Alive(t, devices[t].owner)'
    <3>1. CASE t = r.token
      BY <2>1, <2>2, <2>3, <2>4, <3>1 DEF Registered, Alive
    <3>2. CASE t # r.token
      BY <2>1, <2>2, <2>5, <3>2 DEF Accounted, Alive
    <3> QED
      BY <3>1, <3>2
  <2>6. inbox' \subseteq inbox
    BY <1>6 DEF SaveToken
  <2> QED
    BY <2>1, <2>5, <2>6 DEF Accounted
<1>7. ASSUME NEW r \in inbox, DeleteToken(r)
      PROVE  Accounted'
  <2>1. \A t \in Tokens : devices'[t].active => devices'[t] = devices[t]
    BY <1>7 DEF DeleteToken
  <2> QED
    BY <1>7, <2>1 DEF DeleteToken, Accounted, Alive
<1>8. ASSUME NEW s \in Senders, NEW u \in People, SendNotificationToUser(s, u)
      PROVE  Accounted'
  BY <1>0, <1>8 DEF SendNotificationToUser
<1>9. ASSUME NEW s \in Senders, SendMulticastFCM(s)
      PROVE  Accounted'
  BY <1>0, <1>9 DEF SendMulticastFCM
<1>10. ASSUME NEW s \in Senders, DeleteInvalidTokens(s)
       PROVE  Accounted'
  <2>1. \A t \in Tokens : devices'[t].active => devices'[t] = devices[t]
    BY <1>10 DEF DeleteInvalidTokens, NoRow
  <2> QED
    BY <1>10, <2>1 DEF DeleteInvalidTokens, Accounted, Alive
<1>11. ASSUME NEW u \in People, DropDevices(u)
       PROVE  Accounted'
  <2>1. late \subseteq late' /\ known' = known /\ closing' = closing \cup {u} /\ inbox' = inbox
    BY <1>11 DEF DropDevices
  <2>2. ASSUME NEW t \in Tokens, devices'[t].active
        PROVE  /\ devices'[t] = devices[t]
               /\ devices[t].owner = u => <<t, u>> \in late'
    <3>1. CASE devices' = SignedOff(u)
      BY <2>2, <3>1 DEF SignedOff, OwnedBy
    <3>2. CASE late' = late \cup (TokensOf(u) \X {u}) /\ UNCHANGED devices
      BY <2>2, <3>2 DEF TokensOf
    <3> QED
      BY <1>11, <3>1, <3>2 DEF DropDevices
  <2> QED
    BY <2>1, <2>2 DEF Accounted, Alive
<1>12. ASSUME NEW u \in People, RemoveOwner(u)
       PROVE  Accounted'
  <2>1. /\ u \in closing /\ known' = known \ {u} /\ closing' = closing \ {u}
        /\ devices' = devices /\ inbox' = inbox /\ late \subseteq late'
    BY <1>12 DEF RemoveOwner
  <2>2. \A r \in inbox : r.kind = "resolved" /\ r.user = u => <<r.token, u>> \in late'
    BY <1>12 DEF RemoveOwner
  <2>3. \A t \in Tokens : devices'[t].active => Alive(t, devices[t].owner)'
    BY <2>1 DEF Accounted, Alive
  <2>4. \A r \in inbox' : r.kind = "resolved" =>
           r.user \in known' \/ <<r.token, r.user>> \in late'
    BY <2>1, <2>2 DEF Accounted
  <2> QED
    BY <2>3, <2>4 DEF Accounted
<1>13. CASE UNCHANGED tokenVars
  BY <1>0, <1>13 DEF tokenVars
<1> QED
  BY <1>1, <1>2, <1>3, <1>4, <1>5, <1>6, <1>7, <1>8, <1>9, <1>10, <1>11, <1>12, <1>13
     DEF TokensNext, App, Handle, Notify

\* No token stays registered for an account that is gone unless it was
\* registered during the deletion, or the deletion of the tokens failed.
THEOREM TokensDieWithAccounts == TokensSpec => []NoTokenOutlivesAccount
<1>1. TokensInit => Accounted
  BY DEF TokensInit, NoRow, Accounted
<1>2. Accounted => NoTokenOutlivesAccount
  BY DEF Accounted, Alive, NoTokenOutlivesAccount
<1> QED
  BY <1>1, <1>2, AccountedKept, TokensTyped, PTL DEF TokensSpec

-----------------------------------------------------------------------------
(* Tokens follow their holders                                             *)

Saves(t) == {r \in InFlight(t) : r.kind # "delete"}
SignOffs(t) == {r \in InFlight(t) : r.kind = "delete"}

\* What the requests of a device that went neither lost nor astray will do: the
\* registrations are the holder's, the deletions are not; and once no
\* registration is on its way, the row is the holder's or about to be deleted.
Settling(t) ==
  /\ \A r \in Saves(t) : r.user = holder[t]
  /\ \A r \in SignOffs(t) : r.user # holder[t]
  /\ Saves(t) = {} /\ holder[t] \in known \ closing => OwnedBy(devices[t], holder[t])
  /\ Saves(t) = {} /\ devices[t].active =>
       devices[t].owner = holder[t] \/ \E r \in SignOffs(t) : r.user = devices[t].owner

Tracked == Tokens \ (dead \cup astray)

HolderInv ==
  /\ \A t \in Tracked : Settling(t)
  /\ \A s \in Senders : push[s].invalid \subseteq dead \cup astray
  /\ \A t \in Tokens : devices[t].active => devices[t].owner \in People

\* A step that leaves a device alone leaves what is said of it.
LEMMA SettlingElsewhere ==
  ASSUME TokensTypeOK, NEW t \in Tokens, Settling(t), devices'[t] = devices[t],
         holder'[t] = holder[t], InFlight(t)' = InFlight(t),
         known' \ closing' \subseteq known \ closing
  PROVE  Settling(t)'
<1>1. Saves(t)' = Saves(t) /\ SignOffs(t)' = SignOffs(t)
  BY DEF Saves, SignOffs
<1> QED
  BY <1>1 DEF Settling, OwnedBy

LEMMA HolderInvSignIn ==
  ASSUME TokensTypeOK, HolderInv, NEW t \in Tokens, NEW u \in People, SignIn(t, u)
  PROVE  HolderInv'
<1> DEFINE new == Demand("save", t, u)
<1>1. /\ inbox' = inbox \cup {new} /\ new.token = t /\ new.kind = "save" /\ new.user = u
      /\ UNCHANGED <<devices, known, closing, push, dead, late>>
  BY DEF SignIn, Demand
<1>2. /\ holder' = [holder EXCEPT ![t] = u] /\ holder[t] \in {NoOne, u}
      /\ holder'[t] = u
  BY DEF SignIn, TokensTypeOK
<1> HIDE DEF new
<1>3. ASSUME NEW x \in Tracked', x # t
      PROVE  Settling(x)'
  <2>1. x \in Tracked
    BY <1>1, <1>3 DEF Tracked, SignIn
  <2>2. InFlight(x)' = InFlight(x) /\ holder'[x] = holder[x] /\ x \in Tokens
    BY <1>1, <1>2, <1>3 DEF InFlight, TokensTypeOK, Tracked
  <2> QED
    BY <1>1, <2>1, <2>2, SettlingElsewhere DEF HolderInv
<1>4. ASSUME t \in Tracked'
      PROVE  Settling(t)'
  <2>1. InFlight(t)' = InFlight(t) \cup {new}
    BY <1>1 DEF InFlight
  <2>2. new \in Saves(t)'
    BY <1>1, <2>1 DEF Saves
  <2>3. /\ \A r \in InFlight(t) : r.kind # "delete" => r.user = u
        /\ \A r \in InFlight(t) : r.kind = "delete" => r.user # u
    <3>1. CASE Passes(t, "save", u)
      BY <1>4, <3>1 DEF SignIn, Tracked
    <3>2. CASE ~Passes(t, "save", u)
      BY <3>2 DEF Passes
    <3> QED
      BY <3>1, <3>2
  <2> QED
    BY <1>1, <1>2, <2>1, <2>2, <2>3 DEF Settling, Saves, SignOffs
<1>5. \A s \in Senders : push'[s].invalid \subseteq dead' \cup astray'
  <2> SUFFICES ASSUME NEW s \in Senders, NEW x \in push[s].invalid
               PROVE  x \in dead \cup astray'
    BY <1>1
  <2>1. x \in dead \cup astray
    BY DEF HolderInv
  <2>2. CASE x = t
    BY <2>1, <2>2 DEF SignIn, BeingDeleted
  <2>3. CASE x # t
    BY <2>1, <2>3 DEF SignIn
  <2> QED
    BY <2>2, <2>3
<1> QED
  BY <1>1, <1>3, <1>4, <1>5 DEF HolderInv

LEMMA HolderInvSignOut ==
  ASSUME TokensTypeOK, HolderInv, NEW t \in Tokens, SignOut(t)
  PROVE  HolderInv'
<1> DEFINE h == holder[t]
           new == Demand("delete", t, h)
<1>1. /\ inbox' = inbox \cup {new} /\ new.token = t /\ new.kind = "delete" /\ new.user = h
      /\ UNCHANGED <<devices, known, closing, push, dead, late>> /\ astray \subseteq astray'
  BY DEF SignOut, Demand
<1>2. /\ holder' = [holder EXCEPT ![t] = NoOne] /\ h \in People
      /\ holder'[t] = NoOne
  BY DEF SignOut, TokensTypeOK
<1> HIDE DEF new
<1>3. ASSUME NEW x \in Tracked', x # t
      PROVE  Settling(x)'
  <2>1. x \in Tracked
    BY <1>1, <1>3 DEF Tracked
  <2>2. InFlight(x)' = InFlight(x) /\ holder'[x] = holder[x] /\ x \in Tokens
    BY <1>1, <1>2, <1>3 DEF InFlight, TokensTypeOK, Tracked
  <2> QED
    BY <1>1, <2>1, <2>2, SettlingElsewhere DEF HolderInv
<1>4. ASSUME t \in Tracked'
      PROVE  Settling(t)'
  <2>1. InFlight(t)' = InFlight(t) \cup {new}
    BY <1>1 DEF InFlight
  <2>2. \A r \in InFlight(t) : r.kind = "delete"
    <3>1. CASE Passes(t, "delete", h)
      BY <1>4, <3>1 DEF SignOut, Tracked
    <3>2. CASE ~Passes(t, "delete", h)
      BY <3>2 DEF Passes
    <3> QED
      BY <3>1, <3>2
  <2>3. Saves(t) = {} /\ Saves(t)' = {} /\ new \in SignOffs(t)'
        /\ SignOffs(t) \subseteq SignOffs(t)'
    BY <1>1, <2>1, <2>2 DEF Saves, SignOffs
  <2>4. \A r \in SignOffs(t)' : r.user # NoOne
    BY <1>1, <1>2, TokensAssumption DEF SignOffs, InFlight, TokensTypeOK
  <2>5. Settling(t)
    BY <1>1, <1>4 DEF HolderInv, Tracked
  <2>6. ASSUME devices[t].active
        PROVE  \E r \in SignOffs(t)' : r.user = devices[t].owner
    BY <1>1, <2>3, <2>5, <2>6 DEF Settling
  <2>7. NoOne \notin known
    BY TokensAssumption DEF TokensTypeOK
  <2> QED
    BY <1>1, <1>2, <2>3, <2>4, <2>6, <2>7 DEF Settling
<1>5. \A s \in Senders : push'[s].invalid \subseteq dead' \cup astray'
  BY <1>1 DEF HolderInv
<1> QED
  BY <1>1, <1>3, <1>4, <1>5 DEF HolderInv

\* Requests that are served, lost or refused.
LEMMA HolderInvRequest ==
  ASSUME TokensTypeOK, HolderInv, NEW r \in inbox, Handle(r)
  PROVE  HolderInv'
<1>0. /\ r.token \in Tokens /\ r.user \in People
      /\ UNCHANGED <<known, closing, push, holder, dead>> /\ astray \subseteq astray'
  BY DEF Handle, LoseRequest, SaveFCMToken, SaveToken, DeleteToken, TokensTypeOK
<1>1. ASSUME NEW x \in Tokens, x # r.token
      PROVE  devices'[x] = devices[x] /\ InFlight(x)' = InFlight(x)
  BY <1>0, <1>1 DEF Handle, LoseRequest, SaveFCMToken, SaveToken, DeleteToken, TokensTypeOK,
     InFlight
<1>2. ASSUME NEW x \in Tracked', x # r.token
      PROVE  Settling(x)'
  BY <1>0, <1>1, <1>2, SettlingElsewhere DEF HolderInv, Tracked
<1> DEFINE t == r.token
<1>3. ASSUME t \in Tracked', Settling(t)
      PROVE  Settling(t)'
  <2>1. CASE LoseRequest(r)
    BY <1>3, <2>1 DEF LoseRequest, Tracked
  <2>2. CASE SaveFCMToken(r)
    <3>1. CASE AccountFound(r.user)
      <4> DEFINE next == [r EXCEPT !.kind = "resolved"]
      <4>1. /\ r.kind = "save" /\ inbox' = (inbox \ {r}) \cup {next} /\ UNCHANGED devices
            /\ next.kind = "resolved" /\ next.user = r.user /\ next.token = t
        BY <2>2, <3>1 DEF SaveFCMToken, TokensTypeOK
      <4> HIDE DEF next
      <4>2. /\ SignOffs(t)' = SignOffs(t) /\ next \in Saves(t)' /\ r \in Saves(t)
            /\ Saves(t)' \subseteq Saves(t) \cup {next}
        BY <4>1 DEF SignOffs, Saves, InFlight
      <4> QED
        BY <1>0, <1>3, <4>1, <4>2 DEF Settling
    <3>2. CASE ~AccountFound(r.user)
      BY <1>3, <2>2, <3>2 DEF SaveFCMToken, Tracked
    <3> QED
      BY <3>1, <3>2
  <2>3. CASE SaveToken(r)
    <3>1. /\ r.kind = "resolved" /\ inbox' = inbox \ {r}
          /\ devices'[t] = Registered(r.user)
      BY <1>0, <2>3 DEF SaveToken, TokensTypeOK
    <3>2. SignOffs(t)' = SignOffs(t) /\ r \in Saves(t) /\ Saves(t)' \subseteq Saves(t)
      BY <3>1 DEF SignOffs, Saves, InFlight
    <3>3. r.user = holder[t]
      BY <1>3, <3>2 DEF Settling
    <3> QED
      BY <1>0, <1>3, <3>1, <3>2, <3>3 DEF Settling, Registered, OwnedBy
  <2>4. CASE DeleteToken(r)
    <3>1. r.kind = "delete" /\ inbox' = inbox \ {r}
      BY <2>4 DEF DeleteToken
    <3>2. Saves(t)' = Saves(t) /\ r \in SignOffs(t) /\ SignOffs(t)' = SignOffs(t) \ {r}
      BY <3>1 DEF SignOffs, Saves, InFlight
    <3>3. r.user # holder[t]
      BY <1>3, <3>2 DEF Settling
    <3>4. CASE OwnedBy(devices[t], r.user)
      <4>1. devices'[t].active = FALSE /\ devices[t].owner = r.user
        BY <1>0, <2>4, <3>4 DEF DeleteToken, Deletes, OwnedBy, TokensTypeOK
      <4> QED
        BY <1>0, <1>3, <3>2, <3>3, <4>1 DEF Settling, OwnedBy
    <3>5. CASE ~OwnedBy(devices[t], r.user)
      <4>1. devices'[t] = devices[t]
        BY <2>4, <3>5 DEF DeleteToken, Deletes
      <4> QED
        BY <1>0, <1>3, <3>2, <3>3, <3>5, <4>1 DEF Settling, OwnedBy
    <3> QED
      BY <3>4, <3>5
  <2> QED
    BY <2>1, <2>2, <2>3, <2>4 DEF Handle
<1>4. ASSUME NEW x \in Tokens, devices'[x].active
      PROVE  devices'[x].owner \in People
  <2>1. CASE devices'[x] = devices[x]
    BY <1>4, <2>1 DEF HolderInv
  <2>2. CASE devices'[x] # devices[x]
    <3>1. x = t
      BY <1>1, <2>2
    <3>2. CASE SaveToken(r)
      BY <1>0, <3>1, <3>2 DEF SaveToken, Registered, TokensTypeOK
    <3>3. CASE DeleteToken(r)
      BY <1>0, <1>4, <2>2, <3>1, <3>3 DEF DeleteToken, TokensTypeOK
    <3>4. CASE LoseRequest(r) \/ SaveFCMToken(r)
      BY <2>2, <3>4 DEF LoseRequest, SaveFCMToken
    <3> QED
      BY <3>2, <3>3, <3>4 DEF Handle
  <2> QED
    BY <2>1, <2>2
<1>5. \A s \in Senders : push'[s].invalid \subseteq dead' \cup astray'
  BY <1>0 DEF HolderInv
<1>6. t \in Tracked' => Settling(t)
  BY <1>0 DEF HolderInv, Tracked
<1> HIDE DEF t
<1>7. \A x \in Tracked' : Settling(x)'
  BY <1>2, <1>3, <1>6 DEF t
<1> QED
  BY <1>4, <1>5, <1>7 DEF HolderInv

LEMMA HolderInvPush ==
  ASSUME TokensTypeOK, HolderInv, NEW s \in Senders, Notify(s)
  PROVE  HolderInv'
<1>0. /\ UNCHANGED <<known, closing, inbox, holder, dead>> /\ astray \subseteq astray'
      /\ Tracked' \subseteq Tracked
  BY DEF Notify, SendNotificationToUser, SendMulticastFCM, DeleteInvalidTokens, Tracked
<1>1. ASSUME NEW x \in Tracked', devices'[x] = devices[x]
      PROVE  Settling(x)'
  <2>1. InFlight(x)' = InFlight(x) /\ x \in Tokens /\ Settling(x)
    BY <1>0 DEF InFlight, Tracked, HolderInv
  <2> QED
    BY <1>0, <1>1, <2>1, SettlingElsewhere
<1>2. ASSUME NEW x \in Tracked'
      PROVE  devices'[x] = devices[x]
  <2>1. x \notin push[s].invalid /\ x \in Tokens
    BY <1>0, <1>2 DEF HolderInv, Tracked
  <2> QED
    BY <2>1 DEF Notify, SendNotificationToUser, SendMulticastFCM, DeleteInvalidTokens
<1>3. ASSUME NEW x \in Tokens, devices'[x].active
      PROVE  devices'[x].owner \in People
  <2>1. devices'[x] = devices[x]
    BY <1>3 DEF Notify, SendNotificationToUser, SendMulticastFCM, DeleteInvalidTokens, NoRow
  <2> QED
    BY <1>3, <2>1 DEF HolderInv
<1>4. \A q \in Senders : push'[q].invalid \subseteq dead' \cup astray'
  <2>1. \A q \in Senders \ {s} : push'[q] = push[q]
    BY DEF Notify, SendNotificationToUser, SendMulticastFCM, DeleteInvalidTokens, TokensTypeOK
  <2>2. push'[s].invalid \subseteq dead \cup astray'
    <3>1. CASE \E u \in People : SendNotificationToUser(s, u)
      BY <3>1 DEF SendNotificationToUser, TokensTypeOK
    <3>2. CASE SendMulticastFCM(s)
      BY <3>2 DEF SendMulticastFCM, InvalidOnes, TokensTypeOK
    <3>3. CASE DeleteInvalidTokens(s)
      BY <3>3 DEF DeleteInvalidTokens, NoPush, TokensTypeOK
    <3> QED
      BY <3>1, <3>2, <3>3 DEF Notify
  <2> QED
    BY <1>0, <2>1, <2>2 DEF HolderInv
<1> QED
  BY <1>1, <1>2, <1>3, <1>4 DEF HolderInv

LEMMA HolderInvDeletion ==
  ASSUME TokensTypeOK, HolderInv, NEW u \in People, DropDevices(u) \/ RemoveOwner(u)
  PROVE  HolderInv'
<1>1. /\ UNCHANGED <<inbox, push, holder, dead, astray>> /\ Tracked' = Tracked
      /\ known' \ closing' \subseteq known \ closing
  BY DEF DropDevices, RemoveOwner, Tracked
<1>2. ASSUME NEW x \in Tokens, devices'[x] # devices[x]
      PROVE  devices'[x].active = FALSE /\ devices[x].owner = u /\ u \notin known' \ closing'
  <2>1. DropDevices(u) /\ devices' = SignedOff(u) /\ OwnedBy(devices[x], u)
    BY <1>2 DEF DropDevices, RemoveOwner, SignedOff
  <2> QED
    BY <1>2, <2>1 DEF DropDevices, SignedOff, OwnedBy, TokensTypeOK
<1>3. ASSUME NEW x \in Tracked
      PROVE  Settling(x)'
  <2>1. InFlight(x)' = InFlight(x) /\ x \in Tokens /\ Settling(x)
    BY <1>1, <1>3 DEF InFlight, Tracked, HolderInv
  <2>2. CASE devices'[x] = devices[x]
    BY <1>1, <2>1, <2>2, SettlingElsewhere
  <2>3. CASE devices'[x] # devices[x]
    <3>1. Saves(x)' = Saves(x) /\ SignOffs(x)' = SignOffs(x)
      BY <2>1 DEF Saves, SignOffs
    <3>2. devices'[x].active = FALSE /\ devices[x].owner = u /\ u \notin known' \ closing'
      BY <1>2, <2>1, <2>3
    <3> QED
      BY <1>1, <2>1, <3>1, <3>2 DEF Settling, OwnedBy
  <2> QED
    BY <2>2, <2>3
<1>4. \A x \in Tokens : devices'[x].active => devices'[x].owner \in People
  BY <1>2 DEF HolderInv
<1> QED
  BY <1>1, <1>3, <1>4 DEF HolderInv

LEMMA HolderInvKept ==
  ASSUME TokensTypeOK, HolderInv, [TokensNext]_tokenVars
  PROVE  HolderInv'
<1>1. ASSUME NEW t \in Tokens, Uninstall(t)
      PROVE  HolderInv'
  <2>1. /\ UNCHANGED <<devices, known, closing, inbox, push, astray>> /\ dead \subseteq dead'
        /\ Tracked' = Tracked \ {t} /\ \A x \in Tokens \ {t} : holder'[x] = holder[x]
    BY <1>1 DEF Uninstall, Tracked, TokensTypeOK
  <2>2. ASSUME NEW x \in Tracked'
        PROVE  Settling(x)'
    <3>1. InFlight(x)' = InFlight(x) /\ x \in Tokens /\ Settling(x)
      BY <2>1, <2>2 DEF InFlight, Tracked, HolderInv
    <3> QED
      BY <2>1, <2>2, <3>1, SettlingElsewhere
  <2> QED
    BY <2>1, <2>2 DEF HolderInv
<1>2. CASE UNCHANGED tokenVars
  <2>1. Tracked' = Tracked
    BY <1>2 DEF tokenVars, Tracked
  <2>2. ASSUME NEW x \in Tracked
        PROVE  Settling(x)'
    BY <1>2, SettlingElsewhere DEF tokenVars, InFlight, Tracked, HolderInv
  <2> QED
    BY <1>2, <2>1, <2>2 DEF tokenVars, HolderInv
<1> QED
  BY <1>1, <1>2, HolderInvSignIn, HolderInvSignOut, HolderInvRequest, HolderInvPush,
     HolderInvDeletion DEF TokensNext, App

\* Once the requests of a device are served, its token is registered for who is
\* signed in there, unless a request was lost, refused or passed by another, or
\* FCM refused the token.
THEOREM FollowHolders == TokensSpec => []TokensFollowHolders
<1>1. TokensInit => HolderInv
  <2> SUFFICES ASSUME TokensInit PROVE HolderInv
    OBVIOUS
  <2>1. \A t \in Tokens : InFlight(t) = {} /\ holder[t] = NoOne /\ ~devices[t].active
    BY DEF TokensInit, InFlight, NoRow
  <2>2. \A t \in Tokens : Saves(t) = {} /\ SignOffs(t) = {}
    BY <2>1 DEF Saves, SignOffs
  <2>3. NoOne \notin known
    BY TokensAssumption DEF TokensInit
  <2>4. \A t \in Tracked : Settling(t)
    BY <2>1, <2>2, <2>3 DEF Settling, Tracked
  <2>5. \A s \in Senders : push[s].invalid = {}
    BY DEF TokensInit, NoPush
  <2> QED
    BY <2>1, <2>4, <2>5 DEF HolderInv
<1>2. HolderInv => TokensFollowHolders
  <2> SUFFICES ASSUME HolderInv, NEW t \in Tokens \ (dead \cup astray), InFlight(t) = {}
               PROVE  /\ holder[t] \in known \ closing => OwnedBy(devices[t], holder[t])
                      /\ holder[t] = NoOne => ~devices[t].active
    BY DEF TokensFollowHolders
  <2>1. Settling(t) /\ Saves(t) = {} /\ SignOffs(t) = {}
    BY DEF HolderInv, Tracked, Saves, SignOffs
  <2>2. devices[t].active => devices[t].owner # NoOne
    BY TokensAssumption DEF HolderInv
  <2> QED
    BY <2>1, <2>2 DEF Settling
<1> QED
  BY <1>1, <1>2, HolderInvKept, TokensTyped, PTL DEF TokensSpec

=============================================================================
