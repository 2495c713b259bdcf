-------------------------- MODULE OutboxDispatch --------------------------
(***************************************************************************)
(* The notification outbox: services/notification_dispatcher.go over       *)
(* repositories/outbox_repository.go. A service hands an event over after  *)
(* its own commit, from a goroutine; the outbox keeps one row per          *)
(* idempotency key; dispatchers (the background poller and the goroutine   *)
(* each enqueue starts) recover, select, claim, send and mark.             *)
(*                                                                         *)
(* Time is abstract: "stale" says that a row's lock is older than the lock *)
(* timeout and "due" that next_retry_at has come. Both become true by      *)
(* actions of their own.                                                   *)
(***************************************************************************)
EXTENDS Integers, FiniteSets

CONSTANTS
  Events,       \* things that happened and should be notified
  Jobs,         \* idempotency keys
  KeyOf,        \* [Events -> Jobs]
  Workers,      \* dispatchers that may run at once
  Poller,       \* the one among them that StartBackgroundWorker runs
  BatchOf,      \* [Workers -> Nat]: the batch size each claims
  Nobody,       \* locked_by of an unlocked row
  MaxAttempts,  \* max_attempts of every row
  MaxFaults,    \* bound: crashes, time-outs, lost answers and failed marks
  SlowWorkers   \* may a lock expire while its holder is still at work

ASSUME OutboxAssumption ==
  /\ KeyOf \in [Events -> Jobs]
  /\ Poller \in Workers /\ Nobody \notin Workers
  /\ BatchOf \in [Workers -> Nat \ {0}]
  /\ MaxAttempts \in Nat \ {0} /\ MaxFaults \in Nat
  /\ SlowWorkers \in BOOLEAN

VARIABLES
  event,      \* what became of each event
  jobs,       \* the notification_outbox row of each key
  worker,     \* what each dispatcher is doing
  delivered,  \* how often FCM took the notification of each key
  faults      \* faults so far

vars == <<event, jobs, worker, delivered, faults>>

Statuses == {"absent", "pending", "processing", "retryable_failure", "accepted", "failed"}
\* What a send may come to: "no_device" is the nil error of a recipient without
\* a (valid) token, "answer_lost" a time-out of a message that FCM did take.
Outcomes == {"ok", "no_device", "transient", "terminal", "answer_lost"}
Taken == {"ok", "answer_lost"}
Retryable == {"transient", "answer_lost"}

Absent == [status |-> "absent", lockedBy |-> Nobody, stale |-> FALSE, due |-> FALSE,
           attempts |-> 0]
IdleWorker == [pc |-> "idle", picked |-> {}, batch |-> {}]
Settled(j) == jobs[j].status \in {"accepted", "failed"}

Init ==
  /\ event = [e \in Events |-> "none"]
  /\ jobs = [j \in Jobs |-> Absent]
  /\ worker = [w \in Workers |-> IdleWorker]
  /\ delivered = [j \in Jobs |-> 0]
  /\ faults = 0

Fault == faults < MaxFaults /\ faults' = faults + 1

-----------------------------------------------------------------------------
(* Producers                                                               *)

\* A service commits; its notification exists only in a goroutine so far.
Commit(e) ==
  /\ event[e] = "none"
  /\ event' = [event EXCEPT ![e] = "committed"]
  /\ UNCHANGED <<jobs, worker, delivered, faults>>

NewJob == [Absent EXCEPT !.status = "pending", !.due = TRUE]
EnqueueReplacing(row) == NewJob                             \* faulty variant
EnqueueOnce(row) == IF row.status = "absent" THEN NewJob ELSE row

\* Enqueue inserts, or does nothing when the key has a row already.
EnqueueNotification(e) ==
  /\ event[e] = "committed"
  /\ event' = [event EXCEPT ![e] = "enqueued"]
  /\ jobs' = [jobs EXCEPT ![KeyOf[e]] = EnqueueOnce(@)]
  /\ UNCHANGED <<worker, delivered, faults>>

\* The process dies before the goroutine has run.
LoseEvent(e) ==
  /\ event[e] = "committed"
  /\ Fault
  /\ event' = [event EXCEPT ![e] = "lost"]
  /\ UNCHANGED <<jobs, worker, delivered>>

-----------------------------------------------------------------------------
(* ProcessNextBatch                                                        *)

StillLocked(row) ==                                         \* faulty variant
  IF row.status = "processing" /\ row.stale
  THEN [row EXCEPT !.status = "retryable_failure", !.stale = FALSE] ELSE row
ToUnknownStatus(row) ==                                     \* faulty variant
  IF row.status = "processing" /\ row.stale
  THEN [row EXCEPT !.status = "retry", !.lockedBy = Nobody, !.stale = FALSE] ELSE row
NeverStale(row) == row                                      \* faulty variant
Recovered(row) ==
  IF row.status = "processing" /\ row.stale
  THEN [row EXCEPT !.status = "retryable_failure", !.lockedBy = Nobody, !.stale = FALSE]
  ELSE row

RecoverStaleLocks(w) ==
  /\ worker[w].pc = "idle"
  /\ jobs' = [j \in Jobs |-> Recovered(jobs[j])]
  /\ worker' = [worker EXCEPT ![w].pc = "selecting"]
  /\ UNCHANGED <<event, delivered, faults>>

DueInAnyStatus(row) == row.status # "absent" /\ row.due     \* faulty variant
Eligible(row) ==
  /\ row.status \in {"pending", "retryable_failure"}
  /\ row.due
  /\ row.lockedBy = Nobody \/ row.stale

\* ClaimPendingJobs reads candidate ids with a plain SELECT ... LIMIT.
SelectCandidates(w) ==
  /\ worker[w].pc = "selecting"
  /\ LET eligible == {j \in Jobs : Eligible(jobs[j])} IN
       \E picked \in SUBSET eligible :
         /\ \/ picked = eligible /\ Cardinality(eligible) <= BatchOf[w]
            \/ Cardinality(picked) = BatchOf[w]
         /\ worker' = [worker EXCEPT ![w] =
              IF picked = {} THEN IdleWorker
              ELSE [@ EXCEPT !.pc = "claiming", !.picked = picked]]
  /\ UNCHANGED <<event, jobs, delivered, faults>>

\* The UPDATE names the ids only, whatever became of those rows meanwhile.
\* The rows read back carry the attempts each had at that moment.
ClaimCandidates(w) ==
  /\ worker[w].pc = "claiming"
  /\ LET picked == worker[w].picked IN
       /\ jobs' = [j \in Jobs |->
            IF j \in picked
            THEN [jobs[j] EXCEPT !.status = "processing", !.lockedBy = w, !.stale = FALSE]
            ELSE jobs[j]]
       /\ worker' = [worker EXCEPT ![w] =
            [pc |-> "working", picked |-> {},
             batch |-> {[job |-> j, attempts |-> jobs[j].attempts] : j \in picked}]]
  /\ UNCHANGED <<event, delivered, faults>>

\* ProcessJob sends first and writes the outcome afterwards.
Send(w) ==
  /\ worker[w].pc = "working"
  /\ \E copy \in worker[w].batch, outcome \in Outcomes :
       /\ worker' = [worker EXCEPT ![w] =
            [pc |-> "marking", picked |-> {}, batch |-> @.batch \ {copy},
             copy |-> copy, outcome |-> outcome]]
       /\ delivered' = [delivered EXCEPT ![copy.job] =
            IF outcome \in Taken THEN @ + 1 ELSE @]
       /\ IF outcome = "answer_lost" THEN Fault ELSE UNCHANGED faults
  /\ UNCHANGED <<event, jobs>>

Unlocked(row) == [row EXCEPT !.lockedBy = Nobody, !.stale = FALSE]
GiveUpLate(attempts) == attempts > MaxAttempts              \* faulty variant
GiveUp(attempts) == attempts >= MaxAttempts

\* MarkAccepted, MarkTerminalFailure or MarkRetryableFailure.
Marked(row, outcome, newAttempts) ==
  CASE outcome \in {"ok", "no_device"} -> [Unlocked(row) EXCEPT !.status = "accepted"]
    [] outcome = "terminal" \/ (outcome \in Retryable /\ GiveUp(newAttempts)) ->
         [Unlocked(row) EXCEPT !.status = "failed", !.attempts = newAttempts]
    [] OTHER ->
         [Unlocked(row) EXCEPT !.status = "retryable_failure", !.attempts = newAttempts,
                               !.due = FALSE]

NextJob(w) ==
  worker' = [worker EXCEPT ![w] =
    IF @.batch = {} THEN IdleWorker
    ELSE [pc |-> "working", picked |-> {}, batch |-> @.batch]]

Mark(w) ==
  /\ worker[w].pc = "marking"
  /\ LET copy == worker[w].copy IN
       jobs' = [jobs EXCEPT ![copy.job] = Marked(@, worker[w].outcome, copy.attempts + 1)]
  /\ NextJob(w)
  /\ UNCHANGED <<event, delivered, faults>>

\* The error of a failed update is dropped and the batch goes on.
MarkFails(w) ==
  /\ worker[w].pc = "marking"
  /\ Fault
  /\ NextJob(w)
  /\ UNCHANGED <<event, jobs, delivered>>

\* The batch's context expires between two jobs: the others stay claimed.
ContextDone(w) ==
  /\ worker[w].pc = "working"
  /\ Fault
  /\ worker' = [worker EXCEPT ![w] = IdleWorker]
  /\ UNCHANGED <<event, jobs, delivered>>

\* The process dies, or the select or the claim returns an error.
Crash(w) ==
  /\ worker[w].pc # "idle"
  /\ Fault
  /\ worker' = [worker EXCEPT ![w] = IdleWorker]
  /\ UNCHANGED <<event, jobs, delivered>>

-----------------------------------------------------------------------------
(* Time                                                                    *)

AtWork(w, j) ==
  \/ \E copy \in worker[w].batch : copy.job = j
  \/ worker[w].pc = "marking" /\ worker[w].copy.job = j

\* Two minutes pass since the claim. A batch ends within a minute (its context
\* lasts 45 s, a send 15 s), so without SlowWorkers nobody is still at work.
LockExpires(j) ==
  /\ jobs[j].lockedBy # Nobody /\ ~jobs[j].stale
  /\ SlowWorkers \/ \A w \in Workers : ~AtWork(w, j)
  /\ jobs' = [jobs EXCEPT ![j].stale = TRUE]
  /\ UNCHANGED <<event, worker, delivered, faults>>

BackoffElapses(j) ==
  /\ jobs[j].status # "absent" /\ ~jobs[j].due
  /\ jobs' = [jobs EXCEPT ![j].due = TRUE]
  /\ UNCHANGED <<event, worker, delivered, faults>>

-----------------------------------------------------------------------------
Continue(w) == SelectCandidates(w) \/ ClaimCandidates(w) \/ Send(w) \/ Mark(w)

Next ==
  \/ \E e \in Events : Commit(e) \/ EnqueueNotification(e) \/ LoseEvent(e)
  \/ \E w \in Workers :
       \/ RecoverStaleLocks(w) \/ Continue(w)
       \/ MarkFails(w) \/ ContextDone(w) \/ Crash(w)
  \/ \E j \in Jobs : LockExpires(j) \/ BackoffElapses(j)

\* The poller's ticker fires for as long as the server runs; a batch once
\* started goes on; time passes. Nothing forces an event, a fault or a
\* goroutine's batch to happen.
Fairness ==
  /\ WF_vars(RecoverStaleLocks(Poller))
  /\ \A w \in Workers : WF_vars(Continue(w))
  /\ \A j \in Jobs : WF_vars(LockExpires(j)) /\ WF_vars(BackoffElapses(j))

Spec == Init /\ [][Next]_vars
FairSpec == Spec /\ Fairness

-----------------------------------------------------------------------------
(* Properties                                                              *)

JobRow == [status : Statuses, lockedBy : Workers \cup {Nobody}, stale : BOOLEAN,
           due : BOOLEAN, attempts : Nat]
Copy == [job : Jobs, attempts : Nat]
Worker ==
  [pc : {"idle", "selecting", "claiming", "working"}, picked : SUBSET Jobs,
   batch : SUBSET Copy]
  \cup [pc : {"marking"}, picked : SUBSET Jobs, batch : SUBSET Copy, copy : Copy,
        outcome : Outcomes]

\* The type invariant.
TypeOK ==
  /\ event \in [Events -> {"none", "committed", "enqueued", "lost"}]
  /\ jobs \in [Jobs -> JobRow]
  /\ worker \in [Workers -> Worker]
  /\ delivered \in [Jobs -> Nat]
  /\ faults \in 0..MaxFaults

\* A row is locked exactly while it is processing. A processing row without a
\* lock would never become stale and would stay in processing for good; a
\* locked row in another status would be passed over by every claim.
LockMatchesStatus ==
  \A j \in Jobs : jobs[j].status = "processing" <=> jobs[j].lockedBy # Nobody

\* One dispatcher at a time: a key is delivered twice only if something failed
\* after a delivery, and at most once more for each failure.
DuplicatesOnlyAfterFaults == \A j \in Jobs : delivered[j] <= 1 + faults

\* One dispatcher at a time: an accepted or failed row never changes again,
\* neither by another enqueue of its key nor by a later poll.
SettledIsFinal ==
  [][\A j \in Jobs : Settled(j) => jobs'[j].status = jobs[j].status]_vars

\* Every row ends up accepted or failed, whatever crashes, time-outs and lost
\* updates happen on the way, as long as they stop happening.
EveryJobSettles == \A j \in Jobs : jobs[j].status # "absent" ~> Settled(j)

\* A job that a dispatcher has claimed is not claimed by another one.
ClaimsAreExclusive ==
  \A v, w \in Workers : v # w => \A j \in Jobs : ~(AtWork(v, j) /\ AtWork(w, j))

=============================================================================
