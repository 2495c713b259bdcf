--------------------------- MODULE OutboxAttempts ---------------------------
(***************************************************************************)
(* OutboxDispatch with a count of how often each notification was handed   *)
(* to FCM. The code keeps no such count: the attempts column of a row      *)
(* counts the sends whose failure was written, and a send leaves no trace  *)
(* when the process dies before its outcome is written or the update       *)
(* fails. "sent" and "unmarked" are history variables: they record what    *)
(* the dispatchers do and take no part in it.                              *)
(***************************************************************************)
EXTENDS OutboxDispatch

VARIABLES
  sent,       \* how often the notification of each key was handed to FCM
  unmarked    \* how many of these sends have no outcome in the row

countedVars == <<vars, sent, unmarked>>

\* ProcessJob hands the notification of j over and waits for the outcome.
HandsOver(w, j) ==
  /\ worker[w].pc = "working"
  /\ worker'[w].pc = "marking"
  /\ worker'[w].copy.job = j

\* The outcome of a send of j is lost with the process or its failed update.
Forgets(w, j) ==
  /\ worker[w].pc = "marking" /\ worker[w].copy.job = j
  /\ MarkFails(w) \/ Crash(w)

CountedInit ==
  /\ Init
  /\ sent = [j \in Jobs |-> 0]
  /\ unmarked = [j \in Jobs |-> 0]

CountedNext ==
  /\ Next
  /\ sent' = [j \in Jobs |->
       IF \E w \in Workers : HandsOver(w, j) THEN sent[j] + 1 ELSE sent[j]]
  /\ unmarked' = [j \in Jobs |->
       IF \E w \in Workers : Forgets(w, j) THEN unmarked[j] + 1 ELSE unmarked[j]]

CountedSpec == CountedInit /\ [][CountedNext]_countedVars

-----------------------------------------------------------------------------
(* Properties                                                              *)

\* One dispatcher at a time: a notification is sent at most MaxAttempts times,
\* and once more for each of its sends whose outcome never reached the row; and
\* a row waiting for a retry has an attempt left.
AttemptsWithinLimit ==
  \A j \in Jobs :
    /\ sent[j] <= MaxAttempts + unmarked[j]
    /\ jobs[j].status = "retryable_failure" => jobs[j].attempts < MaxAttempts

=============================================================================
