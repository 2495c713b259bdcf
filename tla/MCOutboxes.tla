----------------------------- MODULE MCOutboxes -----------------------------
(***************************************************************************)
(* Two outboxes. One has its poller alone and three events, of which two   *)
(* share a key, and its sends are counted; in the other a goroutine shares *)
(* the rows with the poller. They share no variable, so a behaviour of one *)
(* is explored while the other stands still.                               *)
(***************************************************************************)
EXTENDS MCOutbox, OutboxAttempts

VARIABLES part, sharedEvent, sharedJobs, sharedWorker, sharedDelivered, sharedFaults

sharedVars == <<sharedEvent, sharedJobs, sharedWorker, sharedDelivered, sharedFaults>>

Shared == INSTANCE OutboxDispatch WITH
  Events <- {e1, e2}, KeyOf <- TwoEvents, Workers <- {poller, goroutine},
  BatchOf <- (poller :> 2) @@ (goroutine :> 1), MaxFaults <- 1,
  event <- sharedEvent, jobs <- sharedJobs, worker <- sharedWorker,
  delivered <- sharedDelivered, faults <- sharedFaults

PartsInit == CountedInit /\ Shared!Init /\ part \in {"alone", "shared"}

PartsNext ==
  /\ \/ part = "alone" /\ CountedNext /\ UNCHANGED sharedVars
     \/ part = "shared" /\ Shared!Next /\ UNCHANGED countedVars
  /\ UNCHANGED part

\* Only the second outbox is asked what must happen in the end; behaviours in
\* which it stands still are not fair and count for what must never happen.
PartsSpec ==
  /\ PartsInit /\ [][PartsNext]_<<countedVars, sharedVars, part>>
  /\ Shared!Fairness

\* With a goroutine beside the poller every row ends up accepted or failed,
\* whatever crashes, time-outs and lost updates happen on the way, as long as
\* they stop happening.
EveryJobSettlesShared == Shared!EveryJobSettles

=============================================================================
