--------------------------- MODULE SchedulerProofs ---------------------------
(***************************************************************************)
(* What holds of Scheduler for every set of accounts, schedules, keys,     *)
(* tasks and workers, proved with TLAPS.                                   *)
(***************************************************************************)
EXTENDS Scheduler, TLAPS

(* A submit that returned used a task id. *)
LEMMA NewTaskType == FreshTasks # {} => NewTask \in Tasks
BY DEF NewTask, FreshTasks

(* The two operations on a queue keep it a set of messages. *)
LEMMA QueueOps ==
  ASSUME NEW q \in SUBSET Message
  PROVE  /\ \A ids : Revoke(q, ids) \in SUBSET Message
         /\ \A name \in {"dispatch", "finalize"}, k \in Keys :
              FreshTasks # {} => Submit(q, name, k) \in SUBSET Message
BY NewTaskType DEF Revoke, Submit, Message

(* Tripping the breaker keeps the types of everything it writes. *)
LEMMA TripBreakerType ==
  ASSUME TypeOK, NEW a \in Accounts, TripBreaker(a), account' \in [Accounts -> AccountStatus]
  PROVE  TypeOK'
<1>1. Revoke(queue, {jobTask[k] : k \in WaitingJobs(a)}
                      \cup {schedTask[s] : s \in HeldSchedules(a)}) \in SUBSET Message
  BY QueueOps DEF TypeOK
<1>2. /\ jobStatus' \in [Keys -> JobStatus \cup {"none"}]
      /\ schedStatus' \in [Schedules -> ScheduleStatus \cup {"none"}]
      /\ schedTask' \in [Schedules -> Tasks \cup {NoTask}]
  BY DEF TypeOK, TripBreaker, JobStatus, ScheduleStatus
<1> QED BY <1>1, <1>2 DEF TypeOK, TripBreaker

(* So does a worker that applies a publish result. *)
LEMMA ApplyResultType ==
  ASSUME TypeOK, NEW k \in Keys, NEW target \in ResultTarget,
         NEW q \in SUBSET Message, ApplyResult(k, target, q)
  PROVE  /\ account' \in [Accounts -> AccountStatus]
         /\ suspended' \subseteq Accounts
         /\ schedStatus' \in [Schedules -> ScheduleStatus \cup {"none"}]
         /\ schedTask' \in [Schedules -> Tasks \cup {NoTask}]
         /\ jobOf' \in [Schedules -> Keys \cup {NoKey}]
         /\ jobStatus' \in [Keys -> JobStatus \cup {"none"}]
         /\ jobSchedule' \in [Keys -> Schedules \cup {NoSchedule}]
         /\ jobTask' \in [Keys -> Tasks \cup {NoTask}]
         /\ attempts' \in [Keys -> Nat]
         /\ overdue' \in [Keys -> BOOLEAN]
         /\ queue' \subseteq Message
<1> USE DEF TypeOK
<1>1. ASSUME NEW status \in {"published", "rejected", "failed"}, Conclude(k, status, q)
      PROVE  /\ schedStatus' \in [Schedules -> ScheduleStatus \cup {"none"}]
             /\ jobStatus' \in [Keys -> JobStatus \cup {"none"}]
             /\ UNCHANGED <<jobTask, overdue>>
             /\ queue' \subseteq Message
  BY <1>1 DEF Conclude, Advance, ScheduleFor, ScheduleStatus, JobStatus
<1>2. ASSUME NEW status \in {"retrying", "pending_finalize"},
             NEW name \in {"dispatch", "finalize"}, NEW sent \in BOOLEAN,
             Continue(k, status, name, q, sent)
      PROVE  /\ schedStatus' \in [Schedules -> ScheduleStatus \cup {"none"}]
             /\ jobStatus' \in [Keys -> JobStatus \cup {"none"}]
             /\ jobTask' \in [Keys -> Tasks \cup {NoTask}]
             /\ overdue' \in [Keys -> BOOLEAN]
             /\ queue' \subseteq Message
  <2>1. sent => NewTask \in Tasks
    BY <1>2, NewTaskType DEF Continue, Submits
  <2>2. queue' \subseteq Message
    BY <1>2, QueueOps DEF Continue, Submits
  <2>3. jobTask' \in [Keys -> Tasks \cup {NoTask}]
    BY <1>2, <2>1 DEF Continue
  <2>4. overdue' \in [Keys -> BOOLEAN]
    BY <1>2 DEF Continue
  <2>5. /\ schedStatus' \in [Schedules -> ScheduleStatus \cup {"none"}]
        /\ jobStatus' \in [Keys -> JobStatus \cup {"none"}]
    BY <1>2 DEF Continue, Advance, ScheduleStatus, JobStatus
  <2> QED BY <2>2, <2>3, <2>4, <2>5
<1>3. UNCHANGED <<account, suspended, schedTask, jobOf, jobSchedule, attempts>>
  BY DEF ApplyResult
<1>4. CASE \E status \in {"published", "rejected", "failed"} : Conclude(k, status, q)
  BY <1>1, <1>3, <1>4
<1>5. CASE \E status \in {"retrying", "pending_finalize"}, name \in {"dispatch", "finalize"},
              sent \in BOOLEAN : Continue(k, status, name, q, sent)
  BY <1>2, <1>3, <1>5
<1> QED BY <1>4, <1>5 DEF ApplyResult

LEMMA TypeInductive == TypeOK /\ [Next]_vars => TypeOK'
<1> SUFFICES ASSUME TypeOK, [Next]_vars PROVE TypeOK'
  OBVIOUS
<1> USE SchedulerAssumption
<1>1. ASSUME NEW a \in Accounts, NEW status \in AccountStatus, ChangeAccountStatus(a, status)
      PROVE  TypeOK'
  <2>1. account' \in [Accounts -> AccountStatus]
    BY <1>1 DEF ChangeAccountStatus, TypeOK
  <2>2. CASE ListenerWired /\ status # "active"
    BY <1>1, <2>1, <2>2, TripBreakerType DEF ChangeAccountStatus
  <2>3. CASE ~(ListenerWired /\ status # "active")
    BY <1>1, <2>1, <2>3 DEF ChangeAccountStatus, TypeOK, scheduleVars, jobVars
  <2> QED BY <2>2, <2>3
<1>2. ASSUME NEW a \in Accounts, DeleteCredential(a)
      PROVE  TypeOK'
  BY <1>1, <1>2 DEF DeleteCredential, AccountStatus
<1>3. ASSUME NEW s \in Schedules, CreateSchedule(s)
      PROVE  TypeOK'
  BY <1>3 DEF CreateSchedule, TypeOK, jobVars, ScheduleStatus
<1>4. ASSUME NEW s \in Schedules, RefuseInactive(s)
      PROVE  TypeOK'
  <2>1. AccountOf[s] \in Accounts /\ account' \in [Accounts -> AccountStatus]
    BY <1>4 DEF RefuseInactive, TypeOK, SchedulerAssumption
  <2> QED BY <1>4, <2>1, TripBreakerType DEF RefuseInactive
<1>5. ASSUME NEW s \in Schedules, CancelSchedule(s)
      PROVE  TypeOK'
  <2>1. queue' \subseteq Message
    BY <1>5, QueueOps DEF CancelSchedule, TypeOK
  <2>2. /\ schedStatus' \in [Schedules -> ScheduleStatus \cup {"none"}]
        /\ schedTask' \in [Schedules -> Tasks \cup {NoTask}]
        /\ jobStatus' \in [Keys -> JobStatus \cup {"none"}]
    BY <1>5 DEF CancelSchedule, TypeOK, Advance, ScheduleStatus, JobStatus
  <2> QED BY <1>5, <2>1, <2>2 DEF CancelSchedule, TypeOK
<1>6. ASSUME NEW s \in Schedules, NEW k \in Keys, NEW sent \in BOOLEAN, Enqueue(s, k, sent)
      PROVE  TypeOK'
  <2>1. sent => NewTask \in Tasks /\ Submit(queue, "dispatch", k) \in SUBSET Message
    BY <1>6, NewTaskType, QueueOps DEF Enqueue, Submits, TypeOK
  <2>2. /\ queue' \subseteq Message
        /\ jobTask' \in [Keys -> Tasks \cup {NoTask}]
        /\ schedTask' \in [Schedules -> Tasks \cup {NoTask}]
        /\ schedStatus' \in [Schedules -> ScheduleStatus \cup {"none"}]
    BY <1>6, <2>1 DEF Enqueue, TypeOK, scheduleVars, ScheduleStatus
  <2>3. /\ jobStatus' \in [Keys -> JobStatus \cup {"none"}]
        /\ jobSchedule' \in [Keys -> Schedules \cup {NoSchedule}]
        /\ jobOf' \in [Schedules -> Keys \cup {NoKey}]
    BY <1>6 DEF Enqueue, TypeOK, JobStatus
  <2> QED BY <1>6, <2>2, <2>3 DEF Enqueue, TypeOK
<1>7. ASSUME NEW s \in Schedules, NEW between \in Tasks \cup {NoTask}, NEW sent \in BOOLEAN,
             Redispatch(s, between, sent)
      PROVE  TypeOK'
  <2> DEFINE rest == Revoke(queue, {schedTask[s]})
  <2>1. jobOf[s] \in Keys
    BY <1>7 DEF Redispatch, HasLiveJob, TypeOK
  <2>2. rest \in SUBSET Message
    BY QueueOps DEF TypeOK
  <2>3. sent => NewTask \in Tasks /\ Submit(rest, "dispatch", jobOf[s]) \in SUBSET Message
    BY <1>7, <2>1, <2>2, NewTaskType, QueueOps DEF Redispatch, Submits
  <2>4. /\ queue' \subseteq Message
        /\ jobTask' \in [Keys -> Tasks \cup {NoTask}]
        /\ schedTask' \in [Schedules -> Tasks \cup {NoTask}]
        /\ schedStatus' \in [Schedules -> ScheduleStatus \cup {"none"}]
    BY <1>7, <2>2, <2>3 DEF Redispatch, TypeOK, ScheduleStatus
  <2> QED BY <1>7, <2>4 DEF Redispatch, TypeOK
<1>8. ASSUME NEW s \in Schedules, NEW sent \in BOOLEAN, Reschedule(s, sent) \/ PublishNow(s, sent)
      PROVE  TypeOK'
  <2>1. schedTask[s] \in Tasks \cup {NoTask}
    BY DEF TypeOK
  <2> QED BY <1>7, <1>8, <2>1 DEF Reschedule, PublishNow
<1>9. ASSUME NEW k \in Keys, NEW sent \in BOOLEAN, RetryJob(k, sent)
      PROVE  TypeOK'
  <2>1. sent => NewTask \in Tasks /\ Submit(queue, "dispatch", k) \in SUBSET Message
    BY <1>9, NewTaskType, QueueOps DEF RetryJob, Submits, TypeOK
  <2>2. queue' \subseteq Message /\ jobTask' \in [Keys -> Tasks \cup {NoTask}]
    BY <1>9, <2>1 DEF RetryJob, TypeOK
  <2>3. jobStatus' \in [Keys -> JobStatus \cup {"none"}] /\ attempts' \in [Keys -> Nat]
    BY <1>9 DEF RetryJob, TypeOK, JobStatus
  <2> QED BY <1>9, <2>2, <2>3 DEF RetryJob, TypeOK, scheduleVars
<1>10. ASSUME NEW k \in Keys, NEW target \in {"published", "failed"}, ResolveByHand(k, target)
       PROVE  TypeOK'
  <2>1. target \in ResultTarget /\ queue \in SUBSET Message
    BY DEF ResultTarget, TypeOK
  <2>2. ApplyResult(k, target, queue) /\ UNCHANGED calling
    BY <1>10 DEF ResolveByHand
  <2> QED BY <2>1, <2>2, ApplyResultType DEF TypeOK
<1>11. ASSUME NEW w \in Workers, NEW m \in queue, StartDispatch(w, m)
       PROVE  TypeOK'
  <2>1. m.job \in Keys /\ queue' \subseteq Message
    BY <1>11 DEF StartDispatch, Consumed, TypeOK, Message
  <2>2. /\ calling' \in [Workers -> Keys \cup {NoKey}]
        /\ jobStatus' \in [Keys -> JobStatus \cup {"none"}]
        /\ attempts' \in [Keys -> Nat]
    BY <1>11, <2>1 DEF StartDispatch, TypeOK, JobStatus
  <2> QED BY <1>11, <2>1, <2>2 DEF StartDispatch, TypeOK, scheduleVars
<1>12. ASSUME NEW w \in Workers, NEW target \in ResultTarget, FinishDispatch(w, target)
       PROVE  TypeOK'
  <2>1. calling[w] \in Keys /\ queue \in SUBSET Message
    BY <1>12 DEF FinishDispatch, TypeOK
  <2>2. calling' \in [Workers -> Keys \cup {NoKey}]
    BY <1>12 DEF FinishDispatch, TypeOK
  <2>3. CASE ApplyResult(calling[w], target, queue)
    BY <2>1, <2>2, <2>3, ApplyResultType DEF TypeOK
  <2>4. CASE UNCHANGED <<account, suspended, scheduleVars, jobVars, queue>>
    BY <2>2, <2>4 DEF TypeOK, scheduleVars, jobVars
  <2> QED BY <1>12, <2>3, <2>4 DEF FinishDispatch
<1>13. ASSUME NEW m \in queue, NEW target \in {"published", "failed"}, PollSettles(m, target)
       PROVE  TypeOK'
  <2>1. PICK q \in Consumed(m) : ApplyResult(m.job, target, q)
    BY <1>13 DEF PollSettles
  <2>2. m.job \in Keys /\ target \in ResultTarget /\ q \in SUBSET Message
    BY DEF Consumed, TypeOK, Message, ResultTarget
  <2> QED BY <1>13, <2>1, <2>2, ApplyResultType DEF TypeOK, PollSettles
<1>14. ASSUME NEW m \in queue, NEW sent \in BOOLEAN, PollAgain(m, sent)
       PROVE  TypeOK'
  <2>1. m.job \in Keys /\ \A q \in Consumed(m) : q \in SUBSET Message
    BY DEF Consumed, TypeOK, Message
  <2>2. CASE overdue[m.job]
    BY <1>14, <2>1, <2>2 DEF PollAgain, TypeOK, scheduleVars
  <2>3. CASE ~overdue[m.job]
    <3>1. PICK q \in Consumed(m) : queue' = IF sent THEN Submit(q, "finalize", m.job) ELSE q
      BY <1>14, <2>3 DEF PollAgain
    <3>2. sent => NewTask \in Tasks /\ Submit(q, "finalize", m.job) \in SUBSET Message
      BY <1>14, <2>1, <2>3, NewTaskType, QueueOps DEF PollAgain, Submits
    <3>3. queue' \subseteq Message /\ jobTask' \in [Keys -> Tasks \cup {NoTask}]
      BY <1>14, <2>1, <2>3, <3>1, <3>2 DEF PollAgain, TypeOK
    <3> QED BY <1>14, <3>3 DEF PollAgain, TypeOK, scheduleVars
  <2> QED BY <2>2, <2>3
<1>15. ASSUME NEW m \in queue, DropMessage(m) \/ LoseMessage(m)
       PROVE  TypeOK'
  BY <1>15 DEF DropMessage, LoseMessage, TypeOK, scheduleVars, jobVars
<1>16. ASSUME NEW w \in Workers, CrashCalling(w)
       PROVE  TypeOK'
  BY <1>16 DEF CrashCalling, TypeOK, scheduleVars, jobVars
<1>17. ASSUME NEW k \in Keys, DeadlinePasses(k)
       PROVE  TypeOK'
  BY <1>17 DEF DeadlinePasses, TypeOK, scheduleVars
<1>18. CASE Operate
  BY <1>18, <1>1, <1>2, <1>3, <1>4, <1>5, <1>6, <1>8, <1>9, <1>10 DEF Operate
<1>19. CASE Work
  BY <1>19, <1>11, <1>12, <1>13, <1>14, <1>15, <1>16, <1>17 DEF Work
<1>20. CASE UNCHANGED vars
  BY <1>20 DEF TypeOK, vars, scheduleVars, jobVars
<1> QED BY <1>18, <1>19, <1>20 DEF Next

(* The scheduler's variables keep their types. *)
THEOREM TypeCorrect == Spec => []TypeOK
<1>1. Init => TypeOK
  BY DEF Init, TypeOK, AccountStatus
<1>2. TypeOK /\ [Next]_vars => TypeOK'
  BY TypeInductive
<1> QED BY <1>1, <1>2, PTL DEF Spec

-----------------------------------------------------------------------------
(* How one step may change a job: it is claimed, started, cancelled, retried *)
(* by hand, or moved by a publish result of a worker that called for it or   *)
(* of a poll.                                                                *)
ResultMoves(k) ==
  /\ attempts'[k] = attempts[k]
  /\ jobStatus[k] = "pending_finalize" \/ \E w \in Workers : calling[w] = k
  /\ \E target \in ResultTarget :
        /\ ResultApplies(jobStatus[k], target)
        /\ \/ target # "retrying" /\ jobStatus'[k] = target
           \/ target = "retrying" /\ ~Exhausted(k) /\ jobStatus'[k] = "retrying"
           \/ target = "retrying" /\ jobStatus'[k] = "failed"

JobMoves(k) ==
  \/ jobStatus'[k] = jobStatus[k] /\ attempts'[k] = attempts[k]
  \/ jobStatus[k] = "none" /\ jobStatus'[k] = "queued" /\ attempts'[k] = attempts[k]
  \/ jobStatus[k] \in Waiting /\ jobStatus'[k] = "dispatching" /\ attempts'[k] = attempts[k] + 1
  \/ jobStatus[k] \notin TerminalJob /\ jobStatus'[k] = "cancelled" /\ attempts'[k] = attempts[k]
  \/ jobStatus[k] \in OperatorRetries /\ jobStatus'[k] = "retrying" /\ attempts'[k] = 0
  \/ ResultMoves(k)

(* A verdict that a poll or a person brings always applies. *)
LEMMA VerdictApplies ==
  ASSUME NEW target \in {"published", "failed"}
  PROVE  target \in ResultTarget /\ ResultApplies("pending_finalize", target)
BY DEF ResultTarget, ResultApplies, JobSuccessors

(* Applying a result moves its job only. *)
LEMMA ApplyResultMoves ==
  ASSUME TypeOK, NEW j \in Keys, NEW target \in ResultTarget, NEW q, ApplyResult(j, target, q),
         ResultApplies(jobStatus[j], target),
         jobStatus[j] = "pending_finalize" \/ \E w \in Workers : calling[w] = j,
         NEW k \in Keys
  PROVE  JobMoves(k)
<1>1. attempts' = attempts
  BY DEF ApplyResult
<1>2. CASE k # j
  BY <1>1, <1>2 DEF ApplyResult, Conclude, Continue, TypeOK, JobMoves
<1>3. CASE k = j
  <2>1. \/ target # "retrying" /\ jobStatus'[k] = target
        \/ target = "retrying" /\ ~Exhausted(k) /\ jobStatus'[k] = "retrying"
        \/ target = "retrying" /\ jobStatus'[k] = "failed"
    BY <1>3 DEF ApplyResult, Conclude, Continue, TypeOK, ResultTarget
  <2> QED BY <1>1, <1>3, <2>1 DEF JobMoves, ResultMoves
<1> QED BY <1>2, <1>3

LEMMA TripBreakerMoves ==
  ASSUME TypeOK, NEW a \in Accounts, TripBreaker(a), NEW k \in Keys
  PROVE  JobMoves(k)
BY DEF TripBreaker, TypeOK, JobMoves, WaitingJobs, Waiting, TerminalJob

LEMMA EveryJobMoves == TypeOK /\ [Next]_vars => \A k \in Keys : JobMoves(k)
<1> SUFFICES ASSUME TypeOK, [Next]_vars, NEW k \in Keys PROVE JobMoves(k)
  OBVIOUS
<1>1. ASSUME NEW a \in Accounts, NEW status \in AccountStatus, ChangeAccountStatus(a, status)
      PROVE  JobMoves(k)
  BY <1>1, TripBreakerMoves DEF ChangeAccountStatus, JobMoves, jobVars
<1>2. ASSUME NEW a \in Accounts, DeleteCredential(a)
      PROVE  JobMoves(k)
  BY <1>1, <1>2 DEF DeleteCredential, AccountStatus
<1>3. ASSUME NEW s \in Schedules, CreateSchedule(s) PROVE JobMoves(k)
  BY <1>3 DEF CreateSchedule, JobMoves, jobVars
<1>4. ASSUME NEW s \in Schedules, RefuseInactive(s) PROVE JobMoves(k)
  BY <1>4, TripBreakerMoves, SchedulerAssumption DEF RefuseInactive, SchedulerAssumption
<1>5. ASSUME NEW s \in Schedules, CancelSchedule(s) PROVE JobMoves(k)
  BY <1>5 DEF CancelSchedule, JobMoves, TypeOK, HasLiveJob
<1>6. ASSUME NEW s \in Schedules, NEW j \in Keys, NEW sent \in BOOLEAN, Enqueue(s, j, sent)
      PROVE  JobMoves(k)
  BY <1>6 DEF Enqueue, JobMoves, TypeOK
<1>7. ASSUME NEW s \in Schedules, NEW sent \in BOOLEAN, Reschedule(s, sent) \/ PublishNow(s, sent)
      PROVE  JobMoves(k)
  BY <1>7 DEF Reschedule, PublishNow, Redispatch, JobMoves
<1>8. ASSUME NEW j \in Keys, NEW sent \in BOOLEAN, RetryJob(j, sent) PROVE JobMoves(k)
  BY <1>8 DEF RetryJob, JobMoves, TypeOK
<1>9. ASSUME NEW j \in Keys, NEW target \in {"published", "failed"}, ResolveByHand(j, target)
      PROVE  JobMoves(k)
  BY <1>9, VerdictApplies, ApplyResultMoves DEF ResolveByHand
<1>10. ASSUME NEW w \in Workers, NEW m \in queue, StartDispatch(w, m) PROVE JobMoves(k)
  BY <1>10 DEF StartDispatch, JobMoves, TypeOK
<1>11. ASSUME NEW w \in Workers, NEW target \in ResultTarget, FinishDispatch(w, target)
       PROVE  JobMoves(k)
  <2>1. calling[w] \in Keys
    BY <1>11 DEF FinishDispatch, TypeOK
  <2>2. CASE ResultApplies(jobStatus[calling[w]], target)
    BY <1>11, <2>1, <2>2, ApplyResultMoves DEF FinishDispatch
  <2>3. CASE ~ResultApplies(jobStatus[calling[w]], target)
    BY <1>11, <2>3 DEF FinishDispatch, JobMoves, jobVars
  <2> QED BY <2>2, <2>3
<1>12. ASSUME NEW m \in queue, NEW target \in {"published", "failed"}, PollSettles(m, target)
       PROVE  JobMoves(k)
  <2>1. m.job \in Keys
    BY DEF TypeOK, Message
  <2> QED BY <1>12, <2>1, VerdictApplies, ApplyResultMoves DEF PollSettles
<1>13. ASSUME NEW m \in queue,
              (\E sent \in BOOLEAN : PollAgain(m, sent)) \/ DropMessage(m) \/ LoseMessage(m)
       PROVE  JobMoves(k)
  BY <1>13 DEF PollAgain, DropMessage, LoseMessage, JobMoves, jobVars
<1>14. ASSUME NEW w \in Workers, CrashCalling(w) PROVE JobMoves(k)
  BY <1>14 DEF CrashCalling, JobMoves, jobVars
<1>15. ASSUME NEW j \in Keys, DeadlinePasses(j) PROVE JobMoves(k)
  BY <1>15 DEF DeadlinePasses, JobMoves
<1>16. CASE Operate
  BY <1>16, <1>1, <1>2, <1>3, <1>4, <1>5, <1>6, <1>7, <1>8, <1>9 DEF Operate
<1>17. CASE Work
  BY <1>17, <1>10, <1>11, <1>12, <1>13, <1>14, <1>15 DEF Work
<1>18. CASE UNCHANGED vars
  BY <1>18 DEF vars, jobVars, JobMoves
<1> QED BY <1>16, <1>17, <1>18 DEF Next

-----------------------------------------------------------------------------
(* AttemptsBounded needs to know that a job not claimed yet was never tried. *)
AttemptsInv ==
  /\ AttemptsBounded
  /\ \A k \in Keys : jobStatus[k] = "none" => attempts[k] = 0

LEMMA AttemptsInductive == TypeOK /\ AttemptsInv /\ [Next]_vars => AttemptsInv'
<1> SUFFICES ASSUME TypeOK, AttemptsInv, [Next]_vars, NEW k \in Keys
             PROVE  /\ attempts'[k] <= MaxAttempts
                    /\ jobStatus'[k] \in Waiting => attempts'[k] < MaxAttempts
                    /\ jobStatus'[k] = "none" => attempts'[k] = 0
  BY DEF AttemptsInv, AttemptsBounded
<1>1. /\ attempts[k] \in Nat /\ attempts[k] <= MaxAttempts
      /\ jobStatus[k] \in Waiting => attempts[k] < MaxAttempts
      /\ jobStatus[k] = "none" => attempts[k] = 0
      /\ MaxAttempts \in Nat \ {0}
  BY SchedulerAssumption DEF AttemptsInv, AttemptsBounded, TypeOK, SchedulerAssumption
<1>2. JobMoves(k)
  BY EveryJobMoves
<1>3. CASE ResultMoves(k)
  BY <1>1, <1>3 DEF ResultMoves, ResultTarget, Waiting, Exhausted
<1> QED BY <1>1, <1>2, <1>3 DEF JobMoves, Waiting

(* No job is handed to its platform more often than MaxAttempts allows, for  *)
(* any number of workers, with lost and repeated messages and crashes.       *)
THEOREM AttemptsAreBounded == Spec => []AttemptsBounded
<1>1. Init => TypeOK /\ AttemptsInv
  BY SchedulerAssumption
  DEF Init, TypeOK, AccountStatus, AttemptsInv, AttemptsBounded, Waiting, SchedulerAssumption
<1>2. TypeOK /\ AttemptsInv /\ [Next]_vars => AttemptsInv'
  BY AttemptsInductive
<1>3. AttemptsInv => AttemptsBounded
  BY DEF AttemptsInv
<1> QED BY <1>1, <1>2, <1>3, TypeCorrect, PTL DEF Spec

-----------------------------------------------------------------------------
(* No step takes a job out of "dispatching" except to cancel it or to apply  *)
(* the result of the one worker that is calling for it.                      *)
LEMMA PublisherInductive ==
  ASSUME TypeOK, OnePublisherPerJob, [Next]_vars, OperatorRetries \subseteq {"failed"}
  PROVE  OnePublisherPerJob'
<1> USE DEF TypeOK
<1>1. ASSUME NEW w \in Workers, NEW m \in queue, StartDispatch(w, m)
      PROVE  OnePublisherPerJob'
  <2>1. /\ m.job \in Keys
        /\ calling' = [calling EXCEPT ![w] = m.job]
        /\ jobStatus' = [jobStatus EXCEPT ![m.job] = "dispatching"]
        /\ jobStatus[m.job] \in Waiting
    BY <1>1 DEF StartDispatch, Message
  <2>2. \A v \in Workers : calling[v] # m.job
    BY <2>1, SchedulerAssumption DEF OnePublisherPerJob, Waiting, SchedulerAssumption
  <2> QED BY <2>1, <2>2 DEF OnePublisherPerJob
<1>2. ASSUME NEW w \in Workers, NEW target \in ResultTarget, FinishDispatch(w, target)
      PROVE  OnePublisherPerJob'
  <2>1. /\ calling[w] \in Keys
        /\ calling' = [calling EXCEPT ![w] = NoKey]
        /\ \A j \in Keys : j # calling[w] => jobStatus'[j] = jobStatus[j]
    <3>1. calling[w] \in Keys /\ calling' = [calling EXCEPT ![w] = NoKey]
      BY <1>2 DEF FinishDispatch
    <3>2. CASE ResultApplies(jobStatus[calling[w]], target)
      BY <1>2, <3>1, <3>2 DEF FinishDispatch, ApplyResult, Conclude, Continue
    <3>3. CASE ~ResultApplies(jobStatus[calling[w]], target)
      BY <1>2, <3>1, <3>3 DEF FinishDispatch, jobVars
    <3> QED BY <3>1, <3>2, <3>3
  <2>2. \A v \in Workers : calling'[v] # NoKey => calling'[v] = calling[v] /\ calling[v] # calling[w]
    BY <2>1 DEF OnePublisherPerJob
  <2> QED BY <2>1, <2>2 DEF OnePublisherPerJob
<1>3. ASSUME NEW w \in Workers, CrashCalling(w)
      PROVE  OnePublisherPerJob'
  BY <1>3 DEF CrashCalling, OnePublisherPerJob, jobVars
<1>4. ASSUME UNCHANGED calling,
             \A k \in Keys : jobStatus[k] \in {"dispatching", "cancelled"} =>
                               jobStatus'[k] \in {"dispatching", "cancelled"}
      PROVE  OnePublisherPerJob'
  BY <1>4 DEF OnePublisherPerJob
<1>5. ASSUME NEW k \in Keys, NEW target \in {"published", "failed"}, NEW q,
             jobStatus[k] = "pending_finalize", ApplyResult(k, target, q), UNCHANGED calling
      PROVE  OnePublisherPerJob'
  <2>1. \A j \in Keys : j # k => jobStatus'[j] = jobStatus[j]
    BY <1>5 DEF ApplyResult, Conclude, Continue
  <2> QED BY <1>4, <1>5, <2>1
<1>6. ASSUME NEW a \in Accounts, TripBreaker(a)
      PROVE  OnePublisherPerJob'
  BY <1>4, <1>6 DEF TripBreaker, WaitingJobs, Waiting
<1>7. CASE Operate
  <2>1. ASSUME NEW a \in Accounts, NEW status \in AccountStatus, ChangeAccountStatus(a, status)
        PROVE  OnePublisherPerJob'
    BY <2>1, <1>4, <1>6 DEF ChangeAccountStatus, jobVars
  <2>2. ASSUME NEW a \in Accounts, DeleteCredential(a)
        PROVE  OnePublisherPerJob'
    BY <2>1, <2>2 DEF DeleteCredential, AccountStatus
  <2>3. ASSUME NEW s \in Schedules, CreateSchedule(s) \/ RefuseInactive(s)
        PROVE  OnePublisherPerJob'
    BY <2>3, <1>4, <1>6, SchedulerAssumption
    DEF CreateSchedule, RefuseInactive, jobVars, SchedulerAssumption
  <2>4. ASSUME NEW s \in Schedules, CancelSchedule(s)
        PROVE  OnePublisherPerJob'
    BY <2>4, <1>4 DEF CancelSchedule, HasLiveJob
  <2>5. ASSUME NEW s \in Schedules, NEW k \in Keys, NEW sent \in BOOLEAN, Enqueue(s, k, sent)
        PROVE  OnePublisherPerJob'
    BY <2>5, <1>4 DEF Enqueue
  <2>6. ASSUME NEW s \in Schedules, NEW sent \in BOOLEAN, Reschedule(s, sent) \/ PublishNow(s, sent)
        PROVE  OnePublisherPerJob'
    BY <2>6, <1>4 DEF Reschedule, PublishNow, Redispatch
  <2>7. ASSUME NEW k \in Keys, NEW sent \in BOOLEAN, RetryJob(k, sent)
        PROVE  OnePublisherPerJob'
    BY <2>7, <1>4 DEF RetryJob
  <2>8. ASSUME NEW k \in Keys, NEW target \in {"published", "failed"}, ResolveByHand(k, target)
        PROVE  OnePublisherPerJob'
    BY <2>8, <1>5 DEF ResolveByHand
  <2> QED BY <1>7, <2>1, <2>2, <2>3, <2>4, <2>5, <2>6, <2>7, <2>8 DEF Operate
<1>8. CASE Work
  <2>1. ASSUME NEW m \in queue, NEW target \in {"published", "failed"}, PollSettles(m, target)
        PROVE  OnePublisherPerJob'
    BY <2>1, <1>5 DEF PollSettles, Message
  <2>2. ASSUME NEW m \in queue,
               (\E sent \in BOOLEAN : PollAgain(m, sent)) \/ DropMessage(m) \/ LoseMessage(m)
        PROVE  OnePublisherPerJob'
    BY <2>2, <1>4 DEF PollAgain, DropMessage, LoseMessage, jobVars
  <2>3. ASSUME NEW k \in Keys, DeadlinePasses(k)
        PROVE  OnePublisherPerJob'
    BY <2>3, <1>4 DEF DeadlinePasses
  <2> QED BY <1>8, <1>1, <1>2, <1>3, <2>1, <2>2, <2>3 DEF Work
<1>9. CASE UNCHANGED vars
  BY <1>9, <1>4 DEF vars, jobVars
<1> QED BY <1>7, <1>8, <1>9 DEF Next

(* If operators retry by hand failed jobs only, at most one worker is inside *)
(* the gateway for a job, however many messages name it.                     *)
THEOREM OnePublisher ==
  ASSUME OperatorRetries \subseteq {"failed"}
  PROVE  Spec => []OnePublisherPerJob
<1>1. Init => OnePublisherPerJob
  BY DEF Init, OnePublisherPerJob
<1>2. TypeOK /\ OnePublisherPerJob /\ [Next]_vars => OnePublisherPerJob'
  BY PublisherInductive
<1> QED BY <1>1, <1>2, TypeCorrect, PTL DEF Spec

-----------------------------------------------------------------------------
(* ScheduleMirrorsJob is inductive as it stands.                             *)

(* A settled job has a settled schedule, and nobody's schedule is "none".    *)
LEMMA MirrorFacts ==
  /\ \A status \in TerminalJob : MirrorOf(status) \subseteq TerminalSchedule
  /\ \A status \in JobStatus \ TerminalJob : "cancelled" \notin MirrorOf(status)
                                            /\ "published" \notin MirrorOf(status)
  /\ \A status \in JobStatus : "none" \notin MirrorOf(status)
  /\ "failed" \in MirrorOf("retrying") /\ "failed" \in MirrorOf("pending_finalize")
  /\ MirrorOf("failed") = {"failed"} /\ MirrorOf("rejected") = {"failed"}
  /\ MirrorOf("published") = {"published", "failed"}
  /\ MirrorOf("cancelled") = {"cancelled", "failed"}
  /\ MirrorOf("queued") = {"pending", "scheduled"}
  /\ MirrorOf("dispatching") = {"scheduled", "publishing", "failed"}
  /\ MirrorOf("retrying") = {"publishing", "failed"}
  /\ MirrorOf("pending_finalize") = {"publishing", "failed"}
  /\ MirrorOf("publishing") = {"publishing", "failed"}
BY DEF MirrorOf, JobStatus, TerminalJob, TerminalSchedule

LEMMA MirrorTripBreaker ==
  ASSUME TypeOK, ScheduleMirrorsJob, NEW a \in Accounts, TripBreaker(a)
  PROVE  ScheduleMirrorsJob'
<1>1. /\ jobStatus' = [k \in Keys |-> IF k \in WaitingJobs(a) THEN "cancelled" ELSE jobStatus[k]]
      /\ schedStatus' = [s \in Schedules |->
                           IF s \in HeldSchedules(a) THEN "cancelled" ELSE schedStatus[s]]
      /\ UNCHANGED <<jobOf, jobSchedule>>
  BY DEF TripBreaker
<1>2. ASSUME NEW k \in Keys, jobStatus'[k] # "none"
      PROVE  JobHasSchedule(k)'
  <2> DEFINE s == jobSchedule[k]
  <2>1. jobStatus[k] \in JobStatus /\ JobHasSchedule(k) /\ s \in Schedules
    BY <1>1, <1>2 DEF WaitingJobs, Waiting, TypeOK, ScheduleMirrorsJob, JobHasSchedule
  <2>2. \A j \in Keys : jobStatus[j] # "none" /\ jobSchedule[j] = s => j = k
    BY <2>1 DEF ScheduleMirrorsJob, JobHasSchedule
  <2>3. CASE k \in WaitingJobs(a)
    <3>1. s \notin FlyingSchedules(a) /\ AccountOf[s] = a /\ jobStatus[k] \in Waiting
      BY <2>2, <2>3 DEF WaitingJobs, FlyingSchedules, JobsOf, InFlight, Waiting
    <3>2. s \in HeldSchedules(a) \/ schedStatus[s] = "failed"
      BY <2>1, <3>1, MirrorFacts DEF HeldSchedules, Open, JobHasSchedule, Waiting, TerminalSchedule
    <3> QED BY <1>1, <2>1, <2>3, <3>2, MirrorFacts DEF JobHasSchedule
  <2>4. CASE k \notin WaitingJobs(a)
    <3>1. s \notin HeldSchedules(a)
      <4> SUFFICES ASSUME s \in HeldSchedules(a) PROVE FALSE
        OBVIOUS
      <4>1. k \in JobsOf(a) /\ s \notin FlyingSchedules(a) /\ Open(s)
        BY <2>1 DEF HeldSchedules, JobsOf
      <4>2. jobStatus[k] \notin Waiting \cup InFlight
        BY <2>4, <4>1 DEF WaitingJobs, FlyingSchedules
      <4>3. jobStatus[k] \in TerminalJob
        BY <2>1, <4>2 DEF JobStatus, Waiting, InFlight, TerminalJob
      <4> QED BY <2>1, <4>1, <4>3, MirrorFacts DEF JobHasSchedule, Open
    <3> QED BY <1>1, <2>1, <2>4, <3>1 DEF JobHasSchedule
  <2> QED BY <2>3, <2>4
<1>3. ASSUME NEW s \in Schedules
      PROVE  ScheduleHasJob(s)'
  <2>1. ScheduleHasJob(s) /\ (jobOf[s] # NoKey => jobOf[s] \in Keys)
    BY DEF ScheduleMirrorsJob, TypeOK
  <2> QED BY <1>1, <2>1 DEF ScheduleHasJob
<1> QED BY <1>2, <1>3 DEF ScheduleMirrorsJob

LEMMA MirrorApplyResult ==
  ASSUME TypeOK, ScheduleMirrorsJob, NEW j \in Keys, NEW target \in ResultTarget, NEW q,
         ApplyResult(j, target, q), ResultApplies(jobStatus[j], target)
  PROVE  ScheduleMirrorsJob'
<1> DEFINE r == jobSchedule[j]
<1>1. /\ jobStatus[j] \in JobStatus \ {"published", "rejected", "cancelled"}
      /\ JobHasSchedule(j)
  <2>1. jobStatus[j] \notin {"none", "published", "rejected", "cancelled"}
    BY DEF ResultApplies, JobSuccessors
  <2> QED BY <2>1 DEF TypeOK, ScheduleMirrorsJob
<1>2. r \in Schedules
  BY <1>1 DEF JobHasSchedule
<1>3. PICK status \in {"published", "rejected", "failed", "retrying", "pending_finalize"} :
        /\ jobStatus' = [jobStatus EXCEPT ![j] = status]
        /\ Advance(r, IF status \in {"retrying", "pending_finalize"} THEN "publishing"
                      ELSE ScheduleFor(status))
  BY DEF ApplyResult, Conclude, Continue
<1>4. UNCHANGED <<jobOf, jobSchedule>>
  BY DEF ApplyResult
<1>5. schedStatus[r] = "failed" \/ Open(r)
  BY <1>1, MirrorFacts DEF JobHasSchedule, Open, TerminalSchedule, TerminalJob, JobStatus
<1>6. /\ schedStatus'[r] \in MirrorOf(status)
      /\ \A s \in Schedules : s # r => schedStatus'[s] = schedStatus[s]
  BY <1>2, <1>3, <1>5, MirrorFacts DEF Advance, ScheduleFor, TypeOK, Open, TerminalSchedule
<1>7. ASSUME NEW k \in Keys, jobStatus'[k] # "none"
      PROVE  JobHasSchedule(k)'
  <2>1. CASE k = j
    BY <1>1, <1>3, <1>4, <1>6, <2>1 DEF JobHasSchedule, TypeOK
  <2>2. CASE k # j
    <3>1. jobStatus'[k] = jobStatus[k] /\ JobHasSchedule(k)
      BY <1>3, <1>7, <2>2 DEF ScheduleMirrorsJob
    <3>2. jobSchedule[k] # r
      BY <1>1, <2>2, <3>1 DEF JobHasSchedule
    <3> QED BY <1>4, <1>6, <3>1, <3>2 DEF JobHasSchedule
  <2> QED BY <2>1, <2>2
<1>8. ASSUME NEW s \in Schedules
      PROVE  ScheduleHasJob(s)'
  <2>1. ScheduleHasJob(s) /\ (jobOf[s] # NoKey => jobOf[s] \in Keys) /\ jobOf[r] = j
    BY <1>1 DEF ScheduleMirrorsJob, TypeOK, JobHasSchedule
  <2>2. NoKey # j
    BY SchedulerAssumption DEF SchedulerAssumption
  <2> QED BY <1>3, <1>4, <1>6, <2>1, <2>2 DEF ScheduleHasJob, TypeOK
<1> QED BY <1>7, <1>8 DEF ScheduleMirrorsJob

(* ScheduleMirrorsJob says that the schedule of a job being dispatched is    *)
(* past "pending".  That rests on the queue: a claimed job whose submit      *)
(* failed has a pending schedule, but then no message names it.              *)
NamesClaimedJob(m) ==
  /\ jobStatus[m.job] # "none"
  /\ jobStatus[m.job] = "queued" => schedStatus[jobSchedule[m.job]] = "scheduled"
QueueInv == \A m \in queue : NamesClaimedJob(m)
MirrorInv == ScheduleMirrorsJob /\ QueueInv

(* Steps that change no job's status, schedule or index, and whose schedule  *)
(* moves stay in the table.                                                  *)
LEMMA MirrorFrame ==
  ASSUME TypeOK, ScheduleMirrorsJob, UNCHANGED <<jobOf, jobSchedule, jobStatus, schedStatus>>
  PROVE  ScheduleMirrorsJob'
BY DEF ScheduleMirrorsJob, JobHasSchedule, ScheduleHasJob

LEMMA MirrorCancel ==
  ASSUME TypeOK, ScheduleMirrorsJob, NEW s \in Schedules, CancelSchedule(s)
  PROVE  ScheduleMirrorsJob'
<1>1. /\ jobStatus' = IF HasLiveJob(s) THEN [jobStatus EXCEPT ![jobOf[s]] = "cancelled"]
                                       ELSE jobStatus
      /\ schedStatus' = [schedStatus EXCEPT ![s] = IF Open(s) THEN "cancelled" ELSE @]
      /\ UNCHANGED <<jobOf, jobSchedule>>
  BY DEF CancelSchedule, Advance
<1>2. ASSUME NEW k \in Keys, jobStatus'[k] # "none"
      PROVE  JobHasSchedule(k)'
  <2>1. jobStatus[k] \in JobStatus /\ JobHasSchedule(k)
    <3>1. jobStatus[k] # "none"
      BY <1>1, <1>2 DEF HasLiveJob, ScheduleMirrorsJob, ScheduleHasJob
    <3> QED BY <3>1 DEF ScheduleMirrorsJob, TypeOK
  <2>2. CASE jobSchedule[k] # s
    <3>1. jobStatus'[k] = jobStatus[k]
      BY <1>1, <2>2 DEF HasLiveJob, ScheduleMirrorsJob, ScheduleHasJob
    <3>2. schedStatus'[jobSchedule[k]] = schedStatus[jobSchedule[k]]
      BY <1>1, <2>2
    <3> QED BY <1>1, <2>1, <3>1, <3>2 DEF JobHasSchedule
  <2>3. CASE jobSchedule[k] = s /\ HasLiveJob(s)
    <3>1. jobOf[s] = k /\ jobStatus[k] \notin TerminalJob
      BY <2>1, <2>3 DEF JobHasSchedule, HasLiveJob
    <3>2. jobStatus'[k] = "cancelled"
      BY <1>1, <2>3, <3>1 DEF TypeOK
    <3>3. Open(s) \/ schedStatus[s] = "failed"
      BY <2>1, <2>3, <3>1, MirrorFacts DEF JobHasSchedule, Open, TerminalSchedule
    <3>4. schedStatus'[s] \in {"cancelled", "failed"}
      BY <1>1, <3>3 DEF TypeOK, Open, TerminalSchedule
    <3> QED BY <1>1, <2>1, <2>3, <3>2, <3>4, MirrorFacts DEF JobHasSchedule
  <2>4. CASE jobSchedule[k] = s /\ ~HasLiveJob(s)
    <3>1. jobStatus[k] \in TerminalJob
      BY <2>1, <2>4, SchedulerAssumption DEF JobHasSchedule, HasLiveJob, SchedulerAssumption
    <3>2. ~Open(s)
      BY <2>1, <2>4, <3>1, MirrorFacts DEF JobHasSchedule, Open
    <3> QED BY <1>1, <2>1, <2>4, <3>2 DEF JobHasSchedule, TypeOK
  <2> QED BY <2>2, <2>3, <2>4
<1>3. ASSUME NEW r \in Schedules
      PROVE  ScheduleHasJob(r)'
  <2>1. ScheduleHasJob(r) /\ (jobOf[r] # NoKey => jobOf[r] \in Keys)
    BY DEF ScheduleMirrorsJob, TypeOK
  <2> QED BY <1>1, <2>1 DEF ScheduleHasJob, TypeOK
<1> QED BY <1>2, <1>3 DEF ScheduleMirrorsJob

LEMMA MirrorEnqueue ==
  ASSUME TypeOK, ScheduleMirrorsJob, NEW s \in Schedules, NEW j \in Keys,
         NEW sent \in BOOLEAN, Enqueue(s, j, sent)
  PROVE  ScheduleMirrorsJob'
<1>1. jobOf[s] = NoKey
  BY DEF Enqueue, EnqueueKeys, ScheduleMirrorsJob, ScheduleHasJob
<1>2. /\ jobStatus' = [jobStatus EXCEPT ![j] = "queued"]
      /\ jobSchedule' = [jobSchedule EXCEPT ![j] = s]
      /\ jobOf' = [jobOf EXCEPT ![s] = j]
      /\ jobStatus[j] = "none"
      /\ schedStatus[s] \in {"pending", "scheduled"}
      /\ schedStatus' \in {schedStatus, [schedStatus EXCEPT ![s] = "scheduled"]}
  BY DEF Enqueue, scheduleVars
<1>3. schedStatus'[s] \in {"pending", "scheduled"}
      /\ \A r \in Schedules : r # s => schedStatus'[r] = schedStatus[r]
  BY <1>2 DEF TypeOK
<1>4. ASSUME NEW k \in Keys, jobStatus'[k] # "none"
      PROVE  JobHasSchedule(k)'
  <2>1. CASE k = j
    BY <1>2, <1>3, <2>1, MirrorFacts DEF JobHasSchedule, TypeOK
  <2>2. CASE k # j
    <3>1. JobHasSchedule(k)
      BY <1>2, <1>4, <2>2 DEF ScheduleMirrorsJob
    <3>2. jobSchedule[k] # s
      BY <1>1, <3>1, SchedulerAssumption DEF JobHasSchedule, SchedulerAssumption
    <3> QED BY <1>2, <1>3, <2>2, <3>1, <3>2 DEF JobHasSchedule
  <2> QED BY <2>1, <2>2
<1>5. ASSUME NEW r \in Schedules
      PROVE  ScheduleHasJob(r)'
  <2>1. ScheduleHasJob(r) /\ (jobOf[r] # NoKey => jobOf[r] \in Keys /\ jobOf[r] # j)
    BY <1>2 DEF ScheduleMirrorsJob, ScheduleHasJob, TypeOK
  <2>2. CASE r = s
    BY <1>2, <2>2, SchedulerAssumption DEF ScheduleHasJob, TypeOK, SchedulerAssumption
  <2>3. CASE r # s
    BY <1>2, <1>3, <2>1, <2>3 DEF ScheduleHasJob, TypeOK
  <2> QED BY <2>2, <2>3
<1> QED BY <1>4, <1>5 DEF ScheduleMirrorsJob

LEMMA MirrorRedispatch ==
  ASSUME TypeOK, ScheduleMirrorsJob, NEW s \in Schedules, NEW between,
         NEW sent \in BOOLEAN, Redispatch(s, between, sent)
  PROVE  ScheduleMirrorsJob'
<1>1. /\ UNCHANGED <<jobOf, jobStatus, jobSchedule>>
      /\ jobOf[s] # NoKey
      /\ schedStatus[s] \notin TerminalSchedule
      /\ schedStatus' = [schedStatus EXCEPT ![s] = IF sent /\ schedStatus[s] # "publishing"
                                                   THEN "scheduled" ELSE @]
      /\ jobStatus[jobOf[s]] \notin TerminalJob
  BY DEF Redispatch, HasLiveJob, Open
<1>2. ASSUME NEW k \in Keys, jobStatus'[k] # "none"
      PROVE  JobHasSchedule(k)'
  <2>1. JobHasSchedule(k) /\ jobStatus[k] \in JobStatus
    BY <1>1, <1>2 DEF ScheduleMirrorsJob, TypeOK
  <2>2. CASE jobSchedule[k] = s
    <3>1. jobStatus[k] \in JobStatus \ TerminalJob
      BY <1>1, <2>1, <2>2 DEF JobHasSchedule
    <3>2. schedStatus'[s] \in MirrorOf(jobStatus[k])
      BY <1>1, <2>1, <2>2, <3>1, MirrorFacts
      DEF JobHasSchedule, TypeOK, JobStatus, TerminalJob, TerminalSchedule
    <3> QED BY <1>1, <2>1, <2>2, <3>2 DEF JobHasSchedule
  <2>3. CASE jobSchedule[k] # s
    BY <1>1, <2>1, <2>3 DEF JobHasSchedule
  <2> QED BY <2>2, <2>3
<1>3. ASSUME NEW r \in Schedules
      PROVE  ScheduleHasJob(r)'
  BY <1>1 DEF ScheduleHasJob, ScheduleMirrorsJob, TypeOK
<1> QED BY <1>2, <1>3 DEF ScheduleMirrorsJob

(* A move of one claimed job that its present schedule status allows.        *)
LEMMA MirrorJobStep ==
  ASSUME TypeOK, ScheduleMirrorsJob, NEW j \in Keys, NEW status \in JobStatus,
         jobStatus[j] # "none", jobStatus' = [jobStatus EXCEPT ![j] = status],
         schedStatus[jobSchedule[j]] \in MirrorOf(status),
         UNCHANGED <<jobOf, jobSchedule, schedStatus>>
  PROVE  ScheduleMirrorsJob'
<1>1. \A k \in Keys : jobStatus'[k] # "none" => JobHasSchedule(k)'
  BY DEF ScheduleMirrorsJob, JobHasSchedule, TypeOK
<1>2. \A r \in Schedules : ScheduleHasJob(r)'
  BY DEF ScheduleMirrorsJob, ScheduleHasJob, TypeOK, JobStatus
<1> QED BY <1>1, <1>2 DEF ScheduleMirrorsJob

LEMMA MirrorStep ==
  ASSUME TypeOK, MirrorInv, [Next]_vars, OperatorRetries \subseteq {"failed"}
  PROVE  ScheduleMirrorsJob'
<1> USE DEF MirrorInv
<1>1. ASSUME NEW a \in Accounts, NEW status \in AccountStatus, ChangeAccountStatus(a, status)
      PROVE  ScheduleMirrorsJob'
  BY <1>1, MirrorTripBreaker, MirrorFrame DEF ChangeAccountStatus, scheduleVars, jobVars
<1>2. ASSUME NEW a \in Accounts, DeleteCredential(a) PROVE ScheduleMirrorsJob'
  BY <1>1, <1>2 DEF DeleteCredential, AccountStatus
<1>3. ASSUME NEW s \in Schedules, CreateSchedule(s) PROVE ScheduleMirrorsJob'
  <2>1. /\ schedStatus[s] = "none" /\ UNCHANGED <<jobOf, jobStatus, jobSchedule>>
        /\ schedStatus' = [schedStatus EXCEPT ![s] = "pending"]
    BY <1>3 DEF CreateSchedule, jobVars
  <2>2. ASSUME NEW k \in Keys, jobStatus'[k] # "none" PROVE JobHasSchedule(k)'
    <3>1. JobHasSchedule(k) /\ jobStatus[k] \in JobStatus
      BY <2>1, <2>2 DEF ScheduleMirrorsJob, TypeOK
    <3>2. jobSchedule[k] # s
      BY <2>1, <3>1, MirrorFacts DEF JobHasSchedule
    <3> QED BY <2>1, <3>1, <3>2 DEF JobHasSchedule
  <2>3. ASSUME NEW r \in Schedules PROVE ScheduleHasJob(r)'
    BY <2>1 DEF ScheduleMirrorsJob, ScheduleHasJob, TypeOK
  <2> QED BY <2>2, <2>3 DEF ScheduleMirrorsJob
<1>4. ASSUME NEW s \in Schedules, RefuseInactive(s) PROVE ScheduleMirrorsJob'
  BY <1>4, MirrorTripBreaker, SchedulerAssumption DEF RefuseInactive, SchedulerAssumption
<1>5. ASSUME NEW s \in Schedules, NEW sent \in BOOLEAN, Reschedule(s, sent) \/ PublishNow(s, sent)
      PROVE  ScheduleMirrorsJob'
  BY <1>5, MirrorRedispatch DEF Reschedule, PublishNow
<1>6. ASSUME NEW k \in Keys, NEW sent \in BOOLEAN, RetryJob(k, sent) PROVE ScheduleMirrorsJob'
  <2>1. /\ jobStatus[k] = "failed" /\ jobStatus' = [jobStatus EXCEPT ![k] = "retrying"]
        /\ UNCHANGED <<jobOf, jobSchedule, schedStatus>>
    BY <1>6 DEF RetryJob, scheduleVars
  <2>2. schedStatus[jobSchedule[k]] \in MirrorOf("retrying")
    BY <2>1, MirrorFacts DEF ScheduleMirrorsJob, JobHasSchedule
  <2> QED BY <2>1, <2>2, MirrorJobStep DEF JobStatus
<1>7. ASSUME NEW k \in Keys, NEW target \in {"published", "failed"}, ResolveByHand(k, target)
      PROVE  ScheduleMirrorsJob'
  BY <1>7, VerdictApplies, MirrorApplyResult DEF ResolveByHand
<1>8. ASSUME NEW w \in Workers, NEW m \in queue, StartDispatch(w, m) PROVE ScheduleMirrorsJob'
  <2>1. /\ m.job \in Keys /\ jobStatus[m.job] \in Waiting
        /\ jobStatus' = [jobStatus EXCEPT ![m.job] = "dispatching"]
        /\ UNCHANGED <<jobOf, jobSchedule, schedStatus>>
    BY <1>8 DEF StartDispatch, scheduleVars, TypeOK, Message
  <2>2. schedStatus[jobSchedule[m.job]] \in MirrorOf("dispatching")
    BY <2>1, MirrorFacts
    DEF QueueInv, NamesClaimedJob, ScheduleMirrorsJob, JobHasSchedule, Waiting
  <2> QED BY <2>1, <2>2, MirrorJobStep DEF JobStatus, Waiting
<1>9. ASSUME NEW w \in Workers, NEW target \in ResultTarget, FinishDispatch(w, target)
      PROVE  ScheduleMirrorsJob'
  <2>1. calling[w] \in Keys
    BY <1>9 DEF FinishDispatch, TypeOK
  <2>2. CASE ResultApplies(jobStatus[calling[w]], target)
    BY <1>9, <2>1, <2>2, MirrorApplyResult DEF FinishDispatch
  <2>3. CASE ~ResultApplies(jobStatus[calling[w]], target)
    BY <1>9, <2>3, MirrorFrame DEF FinishDispatch, scheduleVars, jobVars
  <2> QED BY <2>2, <2>3
<1>10. ASSUME NEW m \in queue, NEW target \in {"published", "failed"}, PollSettles(m, target)
       PROVE  ScheduleMirrorsJob'
  <2>1. m.job \in Keys
    BY DEF TypeOK, Message
  <2> QED BY <1>10, <2>1, VerdictApplies, MirrorApplyResult DEF PollSettles
<1>11. CASE Operate
  BY <1>11, <1>1, <1>2, <1>3, <1>4, <1>5, <1>6, <1>7, MirrorCancel, MirrorEnqueue DEF Operate
<1>12. ASSUME NEW m \in queue,
              (\E sent \in BOOLEAN : PollAgain(m, sent)) \/ DropMessage(m) \/ LoseMessage(m)
       PROVE  ScheduleMirrorsJob'
  BY <1>12, MirrorFrame DEF PollAgain, DropMessage, LoseMessage, scheduleVars, jobVars
<1>13. ASSUME (\E w \in Workers : CrashCalling(w)) \/ \E k \in Keys : DeadlinePasses(k)
       PROVE  ScheduleMirrorsJob'
  BY <1>13, MirrorFrame DEF CrashCalling, DeadlinePasses, scheduleVars, jobVars
<1>14. CASE Work
  BY <1>14, <1>8, <1>9, <1>10, <1>12, <1>13 DEF Work
<1>15. CASE UNCHANGED vars
  BY <1>15, MirrorFrame DEF vars, scheduleVars, jobVars
<1> QED BY <1>11, <1>14, <1>15 DEF Next

(* Rows keep what they were claimed or created with, and every new message   *)
(* names a job that is past "queued" or whose schedule is "scheduled".       *)
RowsKept ==
  /\ \A k \in Keys : jobStatus[k] # "none" => jobSchedule'[k] = jobSchedule[k]
  /\ \A s \in Schedules : schedStatus[s] = "scheduled" => schedStatus'[s] # "pending"
NewMessagesSound ==
  \A m \in queue' : m \in queue \/
    /\ m.job \in Keys /\ jobStatus'[m.job] # "none"
    /\ jobStatus'[m.job] = "queued" => schedStatus'[jobSchedule'[m.job]] = "scheduled"

LEMMA QueueFrame ==
  ASSUME TypeOK, MirrorInv, ScheduleMirrorsJob', \A k \in Keys : JobMoves(k),
         RowsKept, NewMessagesSound
  PROVE  QueueInv'
<1> SUFFICES ASSUME NEW m \in queue' PROVE NamesClaimedJob(m)'
  BY DEF QueueInv
<1>1. CASE m \notin queue
  BY <1>1 DEF NewMessagesSound, NamesClaimedJob
<1>2. CASE m \in queue
  <2> DEFINE k == m.job
  <2>1. k \in Keys /\ jobStatus[k] # "none" /\ jobSchedule'[k] = jobSchedule[k]
        /\ (jobStatus[k] = "queued" => schedStatus[jobSchedule[k]] = "scheduled")
    BY <1>2 DEF MirrorInv, QueueInv, NamesClaimedJob, RowsKept, TypeOK, Message
  <2>2. jobStatus'[k] # "none" /\ (jobStatus'[k] = "queued" => jobStatus[k] = "queued")
    <3>1. jobStatus[k] \in JobStatus /\ JobMoves(k)
      BY <2>1 DEF TypeOK
    <3> QED BY <2>1, <3>1 DEF JobMoves, ResultMoves, ResultTarget, JobStatus
  <2>3. ASSUME jobStatus'[k] = "queued"
        PROVE  schedStatus'[jobSchedule'[k]] = "scheduled"
    <3>1. schedStatus'[jobSchedule'[k]] \in {"pending", "scheduled"} /\ jobSchedule'[k] \in Schedules
      BY <2>1, <2>3, MirrorFacts DEF ScheduleMirrorsJob, JobHasSchedule
    <3> QED BY <2>1, <2>2, <2>3, <3>1 DEF RowsKept
  <2> QED BY <2>2, <2>3 DEF NamesClaimedJob
<1> QED BY <1>1, <1>2

(* A step that submits nothing and leaves the rows' links alone.             *)
LEMMA QuietStep ==
  ASSUME queue' \subseteq queue, UNCHANGED jobSchedule,
         \A r \in Schedules : schedStatus[r] = "scheduled" => schedStatus'[r] # "pending"
  PROVE  RowsKept /\ NewMessagesSound
BY DEF RowsKept, NewMessagesSound

LEMMA ApplyResultRows ==
  ASSUME TypeOK, NEW j \in Keys, NEW target \in ResultTarget, NEW q,
         q \subseteq queue, ApplyResult(j, target, q)
  PROVE  RowsKept /\ NewMessagesSound
<1>1. RowsKept
  BY DEF ApplyResult, Conclude, Continue, Advance, ScheduleFor, RowsKept, TypeOK
<1>2. ASSUME queue' \subseteq queue
      PROVE  NewMessagesSound
  BY <1>2 DEF NewMessagesSound
<1>3. ASSUME NEW status \in {"retrying", "pending_finalize"}, NEW name \in {"dispatch", "finalize"},
             NEW sent \in BOOLEAN, Continue(j, status, name, q, sent)
      PROVE  NewMessagesSound
  <2>1. jobStatus'[j] = status /\ status \notin {"none", "queued"}
    BY <1>3 DEF Continue, TypeOK
  <2>2. \A m \in queue' : m \in q \/ m.job = j
    BY <1>3 DEF Continue, Submit
  <2> QED BY <2>1, <2>2 DEF NewMessagesSound
<1>4. ASSUME NEW status \in {"published", "rejected", "failed"}, Conclude(j, status, q)
      PROVE  NewMessagesSound
  BY <1>2, <1>4 DEF Conclude
<1>5. CASE \E status \in {"published", "rejected", "failed"} : Conclude(j, status, q)
  BY <1>1, <1>4, <1>5
<1>6. CASE \E status \in {"retrying", "pending_finalize"}, name \in {"dispatch", "finalize"},
              sent \in BOOLEAN : Continue(j, status, name, q, sent)
  BY <1>1, <1>3, <1>6
<1> QED BY <1>5, <1>6 DEF ApplyResult

LEMMA RowsAndMessages ==
  ASSUME TypeOK, MirrorInv, [Next]_vars
  PROVE  RowsKept /\ NewMessagesSound
<1> USE DEF MirrorInv
<1>1. ASSUME NEW a \in Accounts, TripBreaker(a)
      PROVE  RowsKept /\ NewMessagesSound
  BY <1>1, QuietStep DEF TripBreaker, Revoke
<1>2. ASSUME NEW a \in Accounts, NEW status \in AccountStatus, ChangeAccountStatus(a, status)
      PROVE  RowsKept /\ NewMessagesSound
  BY <1>1, <1>2, QuietStep DEF ChangeAccountStatus, scheduleVars, jobVars
<1>3. ASSUME NEW a \in Accounts, DeleteCredential(a)
      PROVE  RowsKept /\ NewMessagesSound
  BY <1>2, <1>3 DEF DeleteCredential, AccountStatus
<1>4. ASSUME NEW s \in Schedules, CreateSchedule(s) \/ RefuseInactive(s) \/ CancelSchedule(s)
      PROVE  RowsKept /\ NewMessagesSound
  <2>1. CASE RefuseInactive(s)
    BY <1>1, <2>1, SchedulerAssumption DEF RefuseInactive, SchedulerAssumption
  <2>2. CASE CreateSchedule(s)
    <3>1. \A r \in Schedules : schedStatus[r] = "scheduled" => schedStatus'[r] # "pending"
      BY <2>2 DEF CreateSchedule, TypeOK
    <3> QED BY <2>2, <3>1, QuietStep DEF CreateSchedule, jobVars
  <2>3. CASE CancelSchedule(s)
    <3>1. \A r \in Schedules : schedStatus[r] = "scheduled" => schedStatus'[r] # "pending"
      BY <2>3 DEF CancelSchedule, Advance, TypeOK
    <3>2. queue' \subseteq queue /\ UNCHANGED jobSchedule
      BY <2>3 DEF CancelSchedule, Revoke
    <3> QED BY <3>1, <3>2, QuietStep
  <2> QED BY <1>4, <2>1, <2>2, <2>3
<1>5. ASSUME NEW s \in Schedules, NEW k \in Keys, NEW sent \in BOOLEAN, Enqueue(s, k, sent)
      PROVE  RowsKept /\ NewMessagesSound
  <2>1. RowsKept
    BY <1>5 DEF Enqueue, RowsKept, scheduleVars, TypeOK
  <2>2. NewMessagesSound
    BY <1>5 DEF Enqueue, NewMessagesSound, Submit, TypeOK
  <2> QED BY <2>1, <2>2
<1>6. ASSUME NEW s \in Schedules, NEW between, NEW sent \in BOOLEAN, Redispatch(s, between, sent)
      PROVE  RowsKept /\ NewMessagesSound
  <2> DEFINE k == jobOf[s]
  <2>1. k \in Keys /\ jobStatus[k] \in JobStatus /\ jobSchedule[k] = s /\ Open(s)
        /\ schedStatus[s] \in MirrorOf(jobStatus[k])
    BY <1>6 DEF Redispatch, HasLiveJob, TypeOK, ScheduleMirrorsJob, ScheduleHasJob, JobHasSchedule
  <2>2. RowsKept
    BY <1>6 DEF Redispatch, RowsKept, TypeOK
  <2>3. sent /\ jobStatus[k] = "queued" => schedStatus'[s] = "scheduled"
    BY <1>6, <2>1, MirrorFacts DEF Redispatch, TypeOK
  <2>4. \A m \in queue' : m \in queue \/ (sent /\ m.job = k)
    BY <1>6 DEF Redispatch, Submit, Revoke
  <2>5. NewMessagesSound
    BY <1>6, <2>1, <2>3, <2>4 DEF NewMessagesSound, Redispatch, JobStatus
  <2> QED BY <2>2, <2>5
<1>7. ASSUME NEW k \in Keys, NEW sent \in BOOLEAN, RetryJob(k, sent)
      PROVE  RowsKept /\ NewMessagesSound
  BY <1>7 DEF RetryJob, RowsKept, NewMessagesSound, Submit, scheduleVars, TypeOK
<1>8. ASSUME NEW k \in Keys, NEW target \in {"published", "failed"}, ResolveByHand(k, target)
      PROVE  RowsKept /\ NewMessagesSound
  BY <1>8, VerdictApplies, ApplyResultRows DEF ResolveByHand
<1>9. ASSUME NEW w \in Workers, NEW target \in ResultTarget, FinishDispatch(w, target)
      PROVE  RowsKept /\ NewMessagesSound
  <2>1. calling[w] \in Keys
    BY <1>9 DEF FinishDispatch, TypeOK
  <2>2. CASE ResultApplies(jobStatus[calling[w]], target)
    BY <1>9, <2>1, <2>2, ApplyResultRows DEF FinishDispatch
  <2>3. CASE ~ResultApplies(jobStatus[calling[w]], target)
    BY <1>9, <2>3, QuietStep DEF FinishDispatch, scheduleVars, jobVars
  <2> QED BY <2>2, <2>3
<1>10. ASSUME NEW m \in queue, NEW target \in {"published", "failed"}, PollSettles(m, target)
       PROVE  RowsKept /\ NewMessagesSound
  <2>1. m.job \in Keys /\ \A q \in Consumed(m) : q \subseteq queue
    BY DEF TypeOK, Message, Consumed
  <2> QED BY <1>10, <2>1, VerdictApplies, ApplyResultRows DEF PollSettles
<1>11. ASSUME NEW m \in queue, NEW sent \in BOOLEAN, PollAgain(m, sent)
       PROVE  RowsKept /\ NewMessagesSound
  <2>1. m.job \in Keys /\ jobStatus'[m.job] = "pending_finalize"
    BY <1>11 DEF PollAgain, TypeOK, Message
  <2>2. \A n \in queue' : n \in queue \/ n.job = m.job
    BY <1>11 DEF PollAgain, Consumed, Submit
  <2> QED BY <1>11, <2>1, <2>2 DEF PollAgain, RowsKept, NewMessagesSound, scheduleVars
<1>12. ASSUME NEW m \in queue, (\E w \in Workers : StartDispatch(w, m)) \/ DropMessage(m) \/ LoseMessage(m)
       PROVE  RowsKept /\ NewMessagesSound
  BY <1>12, QuietStep DEF StartDispatch, Consumed, DropMessage, LoseMessage, scheduleVars, jobVars
<1>13. ASSUME (\E w \in Workers : CrashCalling(w)) \/ \E k \in Keys : DeadlinePasses(k)
       PROVE  RowsKept /\ NewMessagesSound
  BY <1>13, QuietStep DEF CrashCalling, DeadlinePasses, scheduleVars, jobVars
<1>14. CASE Operate
  BY <1>14, <1>2, <1>3, <1>4, <1>5, <1>6, <1>7, <1>8 DEF Operate, Reschedule, PublishNow
<1>15. CASE Work
  BY <1>15, <1>9, <1>10, <1>11, <1>12, <1>13 DEF Work
<1>16. CASE UNCHANGED vars
  BY <1>16, QuietStep DEF vars, scheduleVars, jobVars
<1> QED BY <1>14, <1>15, <1>16 DEF Next

LEMMA MirrorInductive ==
  ASSUME OperatorRetries \subseteq {"failed"}
  PROVE  TypeOK /\ MirrorInv /\ [Next]_vars => MirrorInv'
BY MirrorStep, RowsAndMessages, EveryJobMoves, QueueFrame DEF MirrorInv

LEMMA MirrorInvariant ==
  ASSUME OperatorRetries \subseteq {"failed"}
  PROVE  Spec => []MirrorInv
<1>1. Init => MirrorInv
  BY DEF Init, MirrorInv, ScheduleMirrorsJob, ScheduleHasJob, QueueInv
<1>2. TypeOK /\ MirrorInv /\ [Next]_vars => MirrorInv'
  BY MirrorInductive
<1> QED BY <1>1, <1>2, TypeCorrect, PTL DEF Spec

(* A schedule and its job never drift apart, whatever messages are lost or   *)
(* repeated and wherever workers crash or submissions fail, if operators     *)
(* retry by hand failed jobs only.                                           *)
THEOREM ScheduleAndJobAgree ==
  ASSUME OperatorRetries \subseteq {"failed"}
  PROVE  Spec => []ScheduleMirrorsJob
<1>1. MirrorInv => ScheduleMirrorsJob
  BY DEF MirrorInv
<1> QED BY <1>1, MirrorInvariant, PTL

-----------------------------------------------------------------------------
(* Settled rows stay settled.  A result reaches a failed job only if a       *)
(* worker still calls for it, which OnePublisherPerJob excludes.             *)
LEMMA SettledJobStays ==
  ASSUME TypeOK, OnePublisherPerJob, NEW k \in Keys, JobMoves(k),
         OperatorRetries \subseteq {"failed"}, jobStatus[k] \in TerminalJob
  PROVE  \/ jobStatus'[k] = jobStatus[k]
         \/ jobStatus[k] = "failed" /\ jobStatus'[k] = "retrying" /\ attempts'[k] = 0
<1>1. CASE ResultMoves(k)
  <2>1. jobStatus[k] = "cancelled"
    <3>1. \A w \in Workers : calling[w] = k => jobStatus[k] \in {"dispatching", "cancelled"}
      BY SchedulerAssumption DEF OnePublisherPerJob, SchedulerAssumption
    <3> QED BY <1>1, <3>1 DEF ResultMoves, TerminalJob
  <2> QED BY <1>1, <2>1 DEF ResultMoves, ResultApplies, JobSuccessors, ResultTarget
<1> QED BY <1>1 DEF JobMoves, TerminalJob, Waiting

LEMMA SettledScheduleStays ==
  ASSUME TypeOK, [Next]_vars, NEW s \in Schedules, schedStatus[s] \in TerminalSchedule
  PROVE  schedStatus'[s] = schedStatus[s]
<1> USE DEF TypeOK
<1>1. ASSUME NEW a \in Accounts, TripBreaker(a) PROVE schedStatus'[s] = schedStatus[s]
  BY <1>1 DEF TripBreaker, HeldSchedules, Open
<1>2. ASSUME NEW r, NEW status, Advance(r, status) PROVE schedStatus'[s] = schedStatus[s]
  BY <1>2 DEF Advance, Open
<1>3. ASSUME NEW k, NEW target, NEW q, ApplyResult(k, target, q)
      PROVE  schedStatus'[s] = schedStatus[s]
  BY <1>2, <1>3 DEF ApplyResult, Conclude, Continue
<1>4. ASSUME NEW a \in Accounts, NEW status, ChangeAccountStatus(a, status)
      PROVE  schedStatus'[s] = schedStatus[s]
  BY <1>1, <1>4 DEF ChangeAccountStatus, scheduleVars
<1>5. ASSUME NEW r \in Schedules, CreateSchedule(r) \/ RefuseInactive(r) \/ CancelSchedule(r)
      PROVE  schedStatus'[s] = schedStatus[s]
  BY <1>1, <1>2, <1>5, SchedulerAssumption
  DEF CreateSchedule, RefuseInactive, CancelSchedule, SchedulerAssumption, TerminalSchedule
<1>6. ASSUME NEW r \in Schedules, NEW between, NEW sent \in BOOLEAN, Redispatch(r, between, sent)
      PROVE  schedStatus'[s] = schedStatus[s]
  BY <1>6 DEF Redispatch, Open
<1>7. ASSUME NEW r \in Schedules, NEW k \in Keys, NEW sent \in BOOLEAN, Enqueue(r, k, sent)
      PROVE  schedStatus'[s] = schedStatus[s]
  BY <1>7 DEF Enqueue, scheduleVars, TerminalSchedule
<1>8. CASE Operate
  BY <1>8, <1>3, <1>4, <1>5, <1>6, <1>7
  DEF Operate, DeleteCredential, Reschedule, PublishNow, RetryJob, ResolveByHand, scheduleVars
<1>9. ASSUME NEW w \in Workers, NEW target, FinishDispatch(w, target)
      PROVE  schedStatus'[s] = schedStatus[s]
  BY <1>3, <1>9 DEF FinishDispatch, scheduleVars
<1>10. CASE Work
  BY <1>10, <1>3, <1>9
  DEF Work, StartDispatch, CrashCalling, PollSettles, PollAgain, DropMessage, LoseMessage,
      DeadlinePasses, scheduleVars
<1>11. CASE UNCHANGED vars
  BY <1>11 DEF vars, scheduleVars
<1> QED BY <1>8, <1>10, <1>11 DEF Next

(* Published, rejected and cancelled jobs and settled schedules never change *)
(* again; a failed job only leaves through a manual retry, which gives it    *)
(* its attempts back.                                                        *)
THEOREM SettledIsFinal ==
  ASSUME OperatorRetries \subseteq {"failed"}
  PROVE  Spec => TerminalIsFinal
<1> DEFINE Kept ==
      /\ \A k \in Keys : jobStatus[k] \in TerminalJob =>
           \/ jobStatus'[k] = jobStatus[k]
           \/ jobStatus[k] = "failed" /\ jobStatus'[k] = "retrying" /\ attempts'[k] = 0
      /\ \A s \in Schedules : schedStatus[s] \in TerminalSchedule =>
           schedStatus'[s] = schedStatus[s]
<1>1. TypeOK /\ OnePublisherPerJob /\ [Next]_vars => [Kept]_vars
  BY EveryJobMoves, SettledJobStays, SettledScheduleStays
<1> QED BY <1>1, TypeCorrect, OnePublisher, PTL DEF Spec, TerminalIsFinal

-----------------------------------------------------------------------------
(* The two transition tables.  _advance_schedule never sees the status the   *)
(* job had, and _set_schedule_status would walk a pending schedule through   *)
(* scheduled to wherever its job went.                                       *)

(* ALLOWED_SCHEDULE_TRANSITIONS, with the creation of a row and, as one      *)
(* step, the two moves of a job that its platform publishes at once.         *)
ScheduleMoves(from) ==
  CASE from = "none"       -> {"pending"}
    [] from = "pending"    -> {"scheduled", "cancelled"}
    [] from = "scheduled"  -> {"publishing", "published", "failed", "cancelled"}
    [] from = "publishing" -> {"published", "failed", "cancelled"}
    [] OTHER               -> {}

FollowsTheTable(s) ==
  schedStatus'[s] = schedStatus[s] \/ schedStatus'[s] \in ScheduleMoves(schedStatus[s])

JobFollowsTheTable(k) ==
  \/ jobStatus'[k] = jobStatus[k]
  \/ jobStatus[k] = "none" /\ jobStatus'[k] = "queued"
  \/ jobStatus'[k] \in JobSuccessors(jobStatus[k])
  \/ jobStatus[k] = "dispatching" /\ jobStatus'[k] = "published"

(* A job that nobody claimed can only be claimed.                            *)
LEMMA UnclaimedStays ==
  ASSUME TypeOK, ScheduleMirrorsJob, [Next]_vars, NEW k \in Keys, jobStatus[k] = "none"
  PROVE  jobStatus'[k] \in {"none", "queued"}
<1> USE DEF TypeOK
<1>1. JobMoves(k)
  BY EveryJobMoves
<1>2. CASE ~(\E s \in Schedules : CancelSchedule(s))
  <2>1. ASSUME NEW a \in Accounts, TripBreaker(a) PROVE jobStatus'[k] = "none"
    BY <2>1 DEF TripBreaker, WaitingJobs, Waiting
  <2>2. jobStatus'[k] # "cancelled" \/ jobStatus'[k] = jobStatus[k]
    <3>1. ASSUME NEW a \in Accounts, NEW status, ChangeAccountStatus(a, status)
          PROVE  jobStatus'[k] = "none"
      BY <2>1, <3>1 DEF ChangeAccountStatus, jobVars
    <3>2. ASSUME NEW s \in Schedules, RefuseInactive(s)
          PROVE  jobStatus'[k] = "none"
      BY <2>1, <3>2, SchedulerAssumption DEF RefuseInactive, SchedulerAssumption
    <3>3. ASSUME NEW s \in Schedules, CreateSchedule(s) PROVE jobStatus'[k] = "none"
      BY <3>3 DEF CreateSchedule, jobVars
    <3>4. ASSUME NEW s \in Schedules, NEW j \in Keys, NEW sent, Enqueue(s, j, sent)
          PROVE  jobStatus'[k] # "cancelled"
      BY <3>4 DEF Enqueue
    <3>5. ASSUME NEW s \in Schedules, NEW between, NEW sent, Redispatch(s, between, sent)
          PROVE  jobStatus'[k] = "none"
      BY <3>5 DEF Redispatch
    <3>6. ASSUME NEW j \in Keys, NEW sent, RetryJob(j, sent)
          PROVE  jobStatus'[k] # "cancelled"
      BY <3>6 DEF RetryJob
    <3>7. ASSUME NEW j \in Keys, NEW target, NEW q, ApplyResult(j, target, q)
          PROVE  jobStatus'[k] # "cancelled"
      BY <3>7 DEF ApplyResult, Conclude, Continue
    <3>8. CASE Operate
      BY <1>2, <3>8, <3>1, <3>2, <3>3, <3>4, <3>5, <3>6, <3>7
      DEF Operate, DeleteCredential, Reschedule, PublishNow, ResolveByHand
    <3>9. CASE Work
      <4>1. ASSUME NEW w \in Workers, NEW target, FinishDispatch(w, target)
            PROVE  jobStatus'[k] # "cancelled"
        BY <3>7, <4>1, SchedulerAssumption DEF FinishDispatch, jobVars, SchedulerAssumption
      <4>2. ASSUME NEW m \in queue, NEW target, PollSettles(m, target)
            PROVE  jobStatus'[k] # "cancelled"
        BY <3>7, <4>2 DEF PollSettles, Message
      <4>3. ASSUME NEW w \in Workers, NEW m \in queue, StartDispatch(w, m)
            PROVE  jobStatus'[k] # "cancelled"
        BY <4>3 DEF StartDispatch
      <4> QED BY <3>9, <4>1, <4>2, <4>3
          DEF Work, CrashCalling, PollAgain, DropMessage, LoseMessage, DeadlinePasses, jobVars
    <3>10. CASE UNCHANGED vars
      BY <3>10 DEF vars, jobVars
    <3> QED BY <3>8, <3>9, <3>10 DEF Next
  <2>3. ~ResultMoves(k)
    BY DEF ResultMoves, ResultApplies, JobSuccessors, ResultTarget
  <2>4. jobStatus[k] \notin OperatorRetries
    BY SchedulerAssumption DEF SchedulerAssumption, JobStatus
  <2> QED BY <1>1, <2>2, <2>3, <2>4 DEF JobMoves, Waiting
<1>3. CASE \E s \in Schedules : CancelSchedule(s)
  BY <1>3, SchedulerAssumption
  DEF CancelSchedule, HasLiveJob, ScheduleMirrorsJob, ScheduleHasJob, SchedulerAssumption
<1> QED BY <1>2, <1>3

(* A result finds its job dispatching or pending, or changes nothing.        *)
LEMMA JobStepLegal ==
  ASSUME TypeOK, ScheduleMirrorsJob, [Next]_vars, NEW k \in Keys,
         OperatorRetries \subseteq {"failed"}
  PROVE  JobFollowsTheTable(k)
<1>0. JobMoves(k) /\ (jobStatus[k] = "none" => jobStatus'[k] \in {"none", "queued"})
  BY EveryJobMoves, UnclaimedStays
<1>1. CASE ResultMoves(k)
  BY <1>1 DEF ResultMoves, ResultApplies, JobFollowsTheTable, JobSuccessors, ResultTarget
<1>2. jobStatus[k] \in JobStatus \cup {"none"}
  BY DEF TypeOK
<1> QED BY <1>0, <1>1, <1>2 DEF JobMoves, JobFollowsTheTable, JobSuccessors, TerminalJob, Waiting, JobStatus

(* A job that has a result to apply has a schedule past "pending": the job   *)
(* was started by a message, and none names a job whose schedule is pending. *)
LEMMA ScheduleStepLegal ==
  ASSUME TypeOK, MirrorInv, OnePublisherPerJob, [Next]_vars, NEW s \in Schedules
  PROVE  FollowsTheTable(s)
<1> USE DEF TypeOK
<1>1. /\ schedStatus[s] \in ScheduleStatus \cup {"none"}
      /\ ScheduleMirrorsJob /\ QueueInv
  BY DEF MirrorInv
<1>2. ASSUME NEW a \in Accounts, TripBreaker(a)
      PROVE  FollowsTheTable(s)
  BY <1>1, <1>2 DEF TripBreaker, HeldSchedules, Open, FollowsTheTable, ScheduleMoves,
     ScheduleStatus, TerminalSchedule
<1>3. ASSUME NEW k \in Keys, NEW target \in ResultTarget, NEW q, ApplyResult(k, target, q),
             jobStatus[k] \in {"dispatching", "pending_finalize"}
      PROVE  FollowsTheTable(s)
  <2>1. schedStatus[jobSchedule[k]] \in {"scheduled", "publishing", "failed"}
    BY <1>1, <1>3, MirrorFacts DEF ScheduleMirrorsJob, JobHasSchedule
  <2>2. ASSUME NEW status \in {"publishing", "published", "failed"}, Advance(jobSchedule[k], status)
        PROVE  FollowsTheTable(s)
    BY <2>1, <2>2 DEF Advance, Open, TerminalSchedule, FollowsTheTable, ScheduleMoves
  <2>3. \E status \in {"publishing", "published", "failed"} : Advance(jobSchedule[k], status)
    BY <1>3 DEF ApplyResult, Conclude, Continue, ScheduleFor
  <2> QED BY <2>2, <2>3
<1>4. ASSUME NEW a \in Accounts, NEW status, ChangeAccountStatus(a, status)
      PROVE  FollowsTheTable(s)
  BY <1>2, <1>4 DEF ChangeAccountStatus, scheduleVars, FollowsTheTable
<1>5. ASSUME NEW r \in Schedules, CreateSchedule(r) \/ RefuseInactive(r)
      PROVE  FollowsTheTable(s)
  BY <1>2, <1>5, SchedulerAssumption
  DEF CreateSchedule, RefuseInactive, SchedulerAssumption, FollowsTheTable, ScheduleMoves
<1>6. ASSUME NEW r \in Schedules, CancelSchedule(r)
      PROVE  FollowsTheTable(s)
  BY <1>1, <1>6 DEF CancelSchedule, Advance, Open, FollowsTheTable, ScheduleMoves,
     ScheduleStatus, TerminalSchedule
<1>7. ASSUME NEW r \in Schedules, NEW between, NEW sent \in BOOLEAN, Redispatch(r, between, sent)
      PROVE  FollowsTheTable(s)
  BY <1>1, <1>7 DEF Redispatch, Open, FollowsTheTable, ScheduleMoves, ScheduleStatus, TerminalSchedule
<1>8. ASSUME NEW r \in Schedules, NEW k \in Keys, NEW sent \in BOOLEAN, Enqueue(r, k, sent)
      PROVE  FollowsTheTable(s)
  BY <1>8 DEF Enqueue, scheduleVars, FollowsTheTable, ScheduleMoves
<1>9. ASSUME NEW k \in Keys, NEW target \in {"published", "failed"}, ResolveByHand(k, target)
      PROVE  FollowsTheTable(s)
  BY <1>3, <1>9 DEF ResolveByHand, ResultTarget
<1>10. CASE Operate
  BY <1>10, <1>4, <1>5, <1>6, <1>7, <1>8, <1>9
  DEF Operate, DeleteCredential, Reschedule, PublishNow, RetryJob, scheduleVars, FollowsTheTable
<1>11. ASSUME NEW w \in Workers, NEW target \in ResultTarget, FinishDispatch(w, target)
       PROVE  FollowsTheTable(s)
  <2>1. calling[w] \in Keys /\ jobStatus[calling[w]] \in {"dispatching", "cancelled"}
    BY <1>11 DEF FinishDispatch, OnePublisherPerJob
  <2>2. CASE ResultApplies(jobStatus[calling[w]], target)
    <3>1. jobStatus[calling[w]] = "dispatching"
      BY <2>1, <2>2 DEF ResultApplies, JobSuccessors, ResultTarget
    <3> QED BY <1>3, <1>11, <2>1, <2>2, <3>1 DEF FinishDispatch
  <2>3. CASE ~ResultApplies(jobStatus[calling[w]], target)
    BY <1>11, <2>3 DEF FinishDispatch, scheduleVars, FollowsTheTable
  <2> QED BY <2>2, <2>3
<1>12. ASSUME NEW m \in queue, NEW target \in {"published", "failed"}, PollSettles(m, target)
       PROVE  FollowsTheTable(s)
  BY <1>3, <1>12 DEF PollSettles, ResultTarget, Message
<1>13. CASE Work
  BY <1>13, <1>11, <1>12
  DEF Work, StartDispatch, CrashCalling, PollAgain, DropMessage, LoseMessage, DeadlinePasses,
      scheduleVars, FollowsTheTable
<1>14. CASE UNCHANGED vars
  BY <1>14 DEF vars, scheduleVars, FollowsTheTable
<1> QED BY <1>10, <1>13, <1>14 DEF Next

(* Schedules and jobs only ever make the moves their two tables list,        *)
(* whatever is lost, repeated or crashes: no result drags a schedule out of  *)
(* "pending" (its job cannot have started), so the branch of                 *)
(* _set_schedule_status that walks a pending schedule on is never taken, and *)
(* no call of _advance_schedule raises InvalidTransition after the job was   *)
(* saved.                                                                    *)
THEOREM RowsFollowTheTables ==
  ASSUME OperatorRetries \subseteq {"failed"}
  PROVE  Spec => [][/\ \A s \in Schedules : FollowsTheTable(s)
                    /\ \A k \in Keys : JobFollowsTheTable(k)]_vars
<1> DEFINE Legal == /\ \A s \in Schedules : FollowsTheTable(s)
                    /\ \A k \in Keys : JobFollowsTheTable(k)
<1>1. TypeOK /\ MirrorInv /\ OnePublisherPerJob /\ [Next]_vars => [Legal]_vars
  BY ScheduleStepLegal, JobStepLegal DEF MirrorInv
<1> QED BY <1>1, TypeCorrect, OnePublisher, MirrorInvariant, PTL DEF Spec

-----------------------------------------------------------------------------
(* Nothing is queued for an account that is not active.                      *)

(* Nothing becomes pending or queued for an account that is not active.      *)
NothingNew ==
  /\ account' = account
  /\ \A s \in Schedules : schedStatus'[s] = "pending" => schedStatus[s] = "pending" \/ IsActive(s)
  /\ \A s \in Schedules : jobOf'[s] # NoKey /\ jobStatus'[jobOf'[s]] = "queued" =>
       IsActive(s) \/ (jobOf[s] # NoKey /\ jobStatus[jobOf[s]] = "queued")

(* What BreakerHolds asks of one step, for one account.                      *)
HeldOf(a) ==
  account'[a] # "active" =>
    /\ Drained(a) => Drained(a)'
    /\ Trips(a) => Drained(a)' /\ WaitingJobs(a)' = {}

LEMMA NothingNewKeeps ==
  ASSUME NothingNew, NEW a \in Accounts, account'[a] # "active", Drained(a)
  PROVE  Drained(a)'
BY DEF Drained, NothingNew, IsActive

(* A step that moves no schedule to pending and no job to queued.            *)
LEMMA QuietIsNothingNew ==
  ASSUME TypeOK, UNCHANGED <<account, jobOf>>,
         \A s \in Schedules : schedStatus'[s] = "pending" => schedStatus[s] = "pending",
         \A k \in Keys : jobStatus'[k] = "queued" => jobStatus[k] = "queued"
  PROVE  NothingNew
BY DEF NothingNew, TypeOK

LEMMA AdvanceQuiet ==
  ASSUME NEW j, NEW status, status # "pending", Advance(j, status), TypeOK,
         NEW s \in Schedules, schedStatus'[s] = "pending"
  PROVE  schedStatus[s] = "pending"
BY DEF Advance, TypeOK

LEMMA ApplyResultNothingNew ==
  ASSUME TypeOK, NEW j \in Keys, NEW target \in ResultTarget, NEW q, ApplyResult(j, target, q)
  PROVE  NothingNew
<1>1. PICK status \in {"published", "rejected", "failed", "retrying", "pending_finalize"} :
        /\ jobStatus' = [jobStatus EXCEPT ![j] = status]
        /\ Advance(jobSchedule[j], IF status \in {"retrying", "pending_finalize"} THEN "publishing"
                                   ELSE ScheduleFor(status))
  BY DEF ApplyResult, Conclude, Continue
<1>2. \A s \in Schedules : schedStatus'[s] = "pending" => schedStatus[s] = "pending"
  BY <1>1, AdvanceQuiet DEF ScheduleFor
<1>3. \A k \in Keys : jobStatus'[k] = "queued" => jobStatus[k] = "queued"
  BY <1>1 DEF TypeOK
<1>4. UNCHANGED <<account, jobOf>>
  BY DEF ApplyResult
<1> QED BY <1>2, <1>3, <1>4, QuietIsNothingNew

(* The breaker cancels what the account had waiting or pending.              *)
LEMMA TripBreakerEmpties ==
  ASSUME TypeOK, ScheduleMirrorsJob, NEW a \in Accounts, TripBreaker(a),
         NEW s \in Schedules, AccountOf[s] = a
  PROVE  /\ schedStatus'[s] # "pending"
         /\ jobOf'[s] # NoKey => jobStatus'[jobOf'[s]] # "queued"
<1>1. jobOf' = jobOf
  BY DEF TripBreaker
<1>2. ASSUME jobOf[s] # NoKey
      PROVE  /\ jobOf[s] \in Keys /\ jobOf[s] \in JobsOf(a)
             /\ jobStatus'[jobOf[s]] # "queued"
  <2>1. jobOf[s] \in Keys /\ jobSchedule[jobOf[s]] = s
    BY <1>2 DEF TypeOK, ScheduleMirrorsJob, ScheduleHasJob
  <2>2. jobOf[s] \in JobsOf(a)
    BY <2>1 DEF JobsOf
  <2> QED BY <2>1, <2>2 DEF TripBreaker, WaitingJobs, Waiting
<1>3. ASSUME schedStatus[s] = "pending"
      PROVE  s \in HeldSchedules(a)
  <2>1. ASSUME NEW k \in Keys, jobSchedule[k] = s, jobStatus[k] \in InFlight
        PROVE  FALSE
    <3>1. JobHasSchedule(k)
      BY <2>1 DEF ScheduleMirrorsJob, InFlight
    <3> QED BY <1>3, <2>1, <3>1, MirrorFacts DEF JobHasSchedule, InFlight
  <2> QED BY <1>3, <2>1 DEF HeldSchedules, FlyingSchedules, JobsOf, Open, TerminalSchedule
<1>4. schedStatus'[s] # "pending"
  BY <1>3 DEF TripBreaker
<1> QED BY <1>1, <1>2, <1>4

LEMMA TripBreakerQuiet ==
  ASSUME TypeOK, NEW a \in Accounts, TripBreaker(a)
  PROVE  /\ UNCHANGED jobOf
         /\ \A s \in Schedules : schedStatus'[s] = "pending" => schedStatus[s] = "pending"
         /\ \A k \in Keys : jobStatus'[k] = "queued" => jobStatus[k] = "queued"
BY DEF TripBreaker

LEMMA TripDrains ==
  ASSUME TypeOK, ScheduleMirrorsJob, NEW a \in Accounts, TripBreaker(a)
  PROVE  Drained(a)' /\ WaitingJobs(a)' = {}
<1>1. Drained(a)'
  BY TripBreakerEmpties DEF Drained
<1>2. JobsOf(a)' = JobsOf(a)
  BY DEF TripBreaker, JobsOf
<1>3. JobsOf(a) \subseteq Keys
  BY DEF JobsOf
<1>4. \A k \in WaitingJobs(a)' : FALSE
  BY <1>2, <1>3 DEF TripBreaker, WaitingJobs, Waiting
<1> QED BY <1>1, <1>4

LEMMA ChangeStatusHolds ==
  ASSUME TypeOK, ScheduleMirrorsJob, NEW b \in Accounts,
         NEW a \in Accounts, NEW status \in AccountStatus, ChangeAccountStatus(a, status)
  PROVE  account'[b] # "active" =>
           /\ Drained(b) => Drained(b)'
           /\ ListenerWired /\ account'[b] # account[b] => Drained(b)' /\ WaitingJobs(b)' = {}
<1>1. account' = [account EXCEPT ![a] = status]
  BY DEF ChangeAccountStatus
<1>2. CASE ListenerWired /\ status # "active"
  <2>1. TripBreaker(a)
    BY <1>2 DEF ChangeAccountStatus
  <2>2. Drained(b) => Drained(b)'
    BY <2>1, TripBreakerQuiet DEF Drained, TypeOK
  <2>3. account'[b] # account[b] => b = a
    BY <1>1 DEF TypeOK
  <2> QED BY <2>1, <2>2, <2>3, TripDrains
<1>3. CASE ~(ListenerWired /\ status # "active")
  <2>1. UNCHANGED <<schedStatus, jobOf, jobStatus>>
    BY <1>3 DEF ChangeAccountStatus, scheduleVars, jobVars
  <2>2. account'[b] # "active" /\ account'[b] # account[b] => status # "active"
    BY <1>1 DEF TypeOK
  <2> QED BY <1>3, <2>1, <2>2 DEF Drained
<1> QED BY <1>2, <1>3

(* Every step but a change of status queues nothing for it.                  *)
LEMMA OnlyActiveQueue ==
  ASSUME TypeOK, MirrorInv, [Next]_vars
  PROVE  \/ NothingNew
         \/ \E a \in Accounts, status \in AccountStatus : ChangeAccountStatus(a, status)
<1> USE DEF MirrorInv
<1>2. ASSUME NEW a \in Accounts, DeleteCredential(a)
      PROVE  \E b \in Accounts, status \in AccountStatus : ChangeAccountStatus(b, status)
  BY <1>2 DEF DeleteCredential, AccountStatus
<1>3. ASSUME NEW s \in Schedules, CreateSchedule(s) PROVE NothingNew
  BY <1>3 DEF CreateSchedule, NothingNew, jobVars, TypeOK
<1>4. ASSUME NEW s \in Schedules, RefuseInactive(s) PROVE NothingNew
  BY <1>4, TripBreakerQuiet, QuietIsNothingNew, SchedulerAssumption
  DEF RefuseInactive, SchedulerAssumption
<1>5. ASSUME NEW s \in Schedules, CancelSchedule(s) PROVE NothingNew
  <2>1. \A r \in Schedules : schedStatus'[r] = "pending" => schedStatus[r] = "pending"
    BY <1>5, AdvanceQuiet DEF CancelSchedule
  <2>2. \A k \in Keys : jobStatus'[k] = "queued" => jobStatus[k] = "queued"
    BY <1>5 DEF CancelSchedule, TypeOK
  <2> QED BY <1>5, <2>1, <2>2, QuietIsNothingNew DEF CancelSchedule
<1>6. ASSUME NEW s \in Schedules, NEW k \in Keys, NEW sent \in BOOLEAN, Enqueue(s, k, sent)
      PROVE  NothingNew
  <2>1. /\ IsActive(s) /\ account' = account
        /\ jobStatus' = [jobStatus EXCEPT ![k] = "queued"]
        /\ jobOf' = [jobOf EXCEPT ![s] = k]
        /\ jobStatus[k] = "none"
        /\ schedStatus' \in {schedStatus, [schedStatus EXCEPT ![s] = "scheduled"]}
    BY <1>6 DEF Enqueue, scheduleVars
  <2>2. \A r \in Schedules : schedStatus'[r] = "pending" => schedStatus[r] = "pending"
    BY <2>1 DEF TypeOK
  <2>3. ASSUME NEW r \in Schedules, r # s, jobOf'[r] # NoKey, jobStatus'[jobOf'[r]] = "queued"
        PROVE  jobOf[r] # NoKey /\ jobStatus[jobOf[r]] = "queued"
    <3>1. jobOf'[r] = jobOf[r] /\ jobOf[r] \in Keys /\ jobStatus[jobOf[r]] # "none"
      BY <2>1, <2>3 DEF TypeOK, ScheduleMirrorsJob, ScheduleHasJob
    <3> QED BY <2>1, <2>3, <3>1 DEF TypeOK
  <2> QED BY <2>1, <2>2, <2>3 DEF NothingNew
<1>7. ASSUME NEW s \in Schedules, NEW between, NEW sent \in BOOLEAN, Redispatch(s, between, sent)
      PROVE  NothingNew
  <2>1. \A r \in Schedules : schedStatus'[r] = "pending" => schedStatus[r] = "pending"
    BY <1>7 DEF Redispatch, TypeOK
  <2> QED BY <1>7, <2>1, QuietIsNothingNew DEF Redispatch
<1>8. ASSUME NEW k \in Keys, NEW sent \in BOOLEAN, RetryJob(k, sent) PROVE NothingNew
  <2>1. \A j \in Keys : jobStatus'[j] = "queued" => jobStatus[j] = "queued"
    BY <1>8 DEF RetryJob, TypeOK
  <2> QED BY <1>8, <2>1, QuietIsNothingNew DEF RetryJob, scheduleVars
<1>9. ASSUME NEW k \in Keys, NEW target \in {"published", "failed"}, ResolveByHand(k, target)
      PROVE  NothingNew
  BY <1>9, VerdictApplies, ApplyResultNothingNew DEF ResolveByHand
<1>10. ASSUME NEW w \in Workers, NEW m \in queue, StartDispatch(w, m) PROVE NothingNew
  <2>1. \A j \in Keys : jobStatus'[j] = "queued" => jobStatus[j] = "queued"
    BY <1>10 DEF StartDispatch, TypeOK
  <2> QED BY <1>10, <2>1, QuietIsNothingNew DEF StartDispatch, scheduleVars
<1>11. ASSUME NEW w \in Workers, NEW target \in ResultTarget, FinishDispatch(w, target)
       PROVE  NothingNew
  <2>1. calling[w] \in Keys
    BY <1>11 DEF FinishDispatch, TypeOK
  <2> QED BY <1>11, <2>1, ApplyResultNothingNew, QuietIsNothingNew
          DEF FinishDispatch, scheduleVars, jobVars
<1>12. ASSUME NEW m \in queue, NEW target \in {"published", "failed"}, PollSettles(m, target)
       PROVE  NothingNew
  <2>1. m.job \in Keys
    BY DEF TypeOK, Message
  <2> QED BY <1>12, <2>1, VerdictApplies, ApplyResultNothingNew DEF PollSettles
<1>13. ASSUME \/ \E m \in queue, sent \in BOOLEAN : PollAgain(m, sent)
              \/ \E m \in queue : DropMessage(m) \/ LoseMessage(m)
              \/ \E w \in Workers : CrashCalling(w)
              \/ \E k \in Keys : DeadlinePasses(k)
       PROVE  NothingNew
  BY <1>13, QuietIsNothingNew
  DEF PollAgain, DropMessage, LoseMessage, CrashCalling, DeadlinePasses, scheduleVars, jobVars
<1>14. CASE Operate
  BY <1>14, <1>2, <1>3, <1>4, <1>5, <1>6, <1>7, <1>8, <1>9
  DEF Operate, Reschedule, PublishNow
<1>15. CASE Work
  BY <1>15, <1>10, <1>11, <1>12, <1>13 DEF Work
<1>16. CASE UNCHANGED vars
  BY <1>16, QuietIsNothingNew DEF vars, scheduleVars, jobVars
<1> QED BY <1>14, <1>15, <1>16 DEF Next

LEMMA BreakerStep ==
  ASSUME TypeOK, MirrorInv, [Next]_vars, NEW b \in Accounts
  PROVE  HeldOf(b)
<1>1. ScheduleMirrorsJob
  BY DEF MirrorInv
<1>2. CASE \E s \in Schedules : AccountOf[s] = b /\ RefuseInactive(s)
  <2>1. TripBreaker(b)
    BY <1>2 DEF RefuseInactive
  <2> QED BY <1>1, <2>1, TripDrains DEF HeldOf
<1>3. CASE ~\E s \in Schedules : AccountOf[s] = b /\ RefuseInactive(s)
  <2>1. CASE NothingNew
    <3>1. account'[b] = account[b]
      BY <2>1 DEF NothingNew
    <3> QED BY <1>3, <2>1, <3>1, NothingNewKeeps DEF HeldOf, Trips
  <2>2. CASE \E a \in Accounts, status \in AccountStatus : ChangeAccountStatus(a, status)
    BY <1>1, <1>3, <2>2, ChangeStatusHolds DEF HeldOf, Trips
  <2> QED BY <2>1, <2>2, OnlyActiveQueue
<1> QED BY <1>2, <1>3

(* Whether or not the breaker listens to changes of status, it leaves nothing *)
(* waiting of an account it trips for, and nothing is queued again until the  *)
(* account is active, if operators retry failed jobs only.                   *)
THEOREM BreakerKeepsAccountsQuiet ==
  ASSUME OperatorRetries \subseteq {"failed"}
  PROVE  Spec => BreakerHolds
<1>1. TypeOK /\ MirrorInv /\ [Next]_vars => [\A a \in Accounts : HeldOf(a)]_vars
  BY BreakerStep
<1> QED BY <1>1, TypeCorrect, MirrorInvariant, PTL DEF Spec, BreakerHolds, HeldOf

-----------------------------------------------------------------------------
(* Jobs and their messages.  A revocation takes the message with an id that  *)
(* a row recorded, so what matters is whose id that is: a message whose id a *)
(* job holds is that job's, and one whose id a schedule holds is a dispatch  *)
(* message of its job.                                                       *)
MessageOwned(m) ==
  /\ \A s \in Schedules : schedTask[s] = m.id => jobOf[s] = m.job /\ m.name = "dispatch"
  /\ \A k \in Keys : jobTask[k] = m.id => k = m.job
IdsOwned == \A m \in queue : MessageOwned(m)

(* What a job depends on, and that it is there.                              *)
Needs(k, name) ==
  IF name = "dispatch" THEN jobStatus[k] \in Waiting
                       ELSE jobStatus[k] = "pending_finalize" /\ ~overdue[k]
Has(k, name) == \E m \in queue : m.name = name /\ m.job = k
Covered == \A k \in Keys, name \in {"dispatch", "finalize"} : Needs(k, name) => Has(k, name)

MessageInv == IdsOwned /\ Covered

LEMMA CoveredMeans == Covered <=> WaitingHasMessage /\ PendingIsPolled
BY DEF Covered, Needs, Has, WaitingHasMessage, PendingIsPolled

(* Ids stay owned when messages only leave, ids are only forgotten, and a    *)
(* schedule only gains a job.                                                *)
LEMMA OwnedFrame ==
  ASSUME TypeOK, IdsOwned, queue' \subseteq queue, jobTask' = jobTask,
         \A s \in Schedules : schedTask'[s] \in {schedTask[s], NoTask},
         \A s \in Schedules : jobOf'[s] = jobOf[s] \/ jobOf[s] = NoKey
  PROVE  IdsOwned'
<1> SUFFICES ASSUME NEW m \in queue' PROVE MessageOwned(m)'
  BY DEF IdsOwned
<1>1. m \in queue /\ MessageOwned(m) /\ m.id \in Tasks /\ m.job \in Keys
  BY DEF IdsOwned, TypeOK, Message
<1>2. m.id # NoTask /\ m.job # NoKey
  BY <1>1, SchedulerAssumption DEF SchedulerAssumption
<1> QED BY <1>1, <1>2 DEF MessageOwned

(* ... and when a message is submitted under an id that only its job, and    *)
(* for a dispatch message the schedule of its job, record.                   *)
LEMMA OwnedSubmit ==
  ASSUME TypeOK, IdsOwned, FreshTasks # {},
         NEW q, q \subseteq queue, NEW j \in Keys, NEW name \in {"dispatch", "finalize"},
         queue' = Submit(q, name, j),
         jobTask' = [jobTask EXCEPT ![j] = NewTask],
         \A s \in Schedules :
            \/ schedTask'[s] \in {schedTask[s], NoTask}
            \/ schedTask'[s] = NewTask /\ jobOf'[s] = j /\ name = "dispatch",
         \A s \in Schedules : jobOf'[s] = jobOf[s] \/ jobOf[s] = NoKey
  PROVE  IdsOwned'
<1> SUFFICES ASSUME NEW m \in queue' PROVE MessageOwned(m)'
  BY DEF IdsOwned
<1>1. /\ NewTask \in Tasks /\ NewTask # NoTask
      /\ \A n \in queue : n.id # NewTask
      /\ \A s \in Schedules : schedTask[s] # NewTask
      /\ \A k \in Keys : jobTask[k] # NewTask
  BY SchedulerAssumption DEF NewTask, FreshTasks, SchedulerAssumption
<1>2. \A k \in Keys : jobTask'[k] = IF k = j THEN NewTask ELSE jobTask[k]
  BY DEF TypeOK
<1>3. CASE m \in q
  <2>1. m \in queue /\ MessageOwned(m) /\ m.id \in Tasks /\ m.job \in Keys
    BY <1>3 DEF IdsOwned, TypeOK, Message
  <2>2. m.id # NoTask /\ m.job # NoKey /\ m.id # NewTask
    BY <1>1, <2>1, SchedulerAssumption DEF SchedulerAssumption
  <2> QED BY <1>2, <2>1, <2>2 DEF MessageOwned
<1>4. CASE m \notin q
  <2>1. m.id = NewTask /\ m.name = name /\ m.job = j
    BY <1>4 DEF Submit
  <2> QED BY <1>1, <1>2, <2>1 DEF MessageOwned
<1> QED BY <1>3, <1>4

(* A step about one job: the messages of the others stay.                    *)
LEMMA CoveredOneJob ==
  ASSUME TypeOK, Covered, NEW j,
         \A m \in queue : m \in queue' \/ m.job = j,
         \A k \in Keys : k # j => jobStatus'[k] = jobStatus[k] /\ overdue'[k] = overdue[k],
         j \in Keys => \A name \in {"dispatch", "finalize"} : Needs(j, name)' => Has(j, name)'
  PROVE  Covered'
<1> SUFFICES ASSUME NEW k \in Keys, NEW name \in {"dispatch", "finalize"}, k # j, Needs(k, name)'
             PROVE  Has(k, name)'
  BY DEF Covered
<1>1. Needs(k, name)
  BY DEF Needs
<1>2. PICK m \in queue : m.name = name /\ m.job = k
  BY <1>1 DEF Covered, Has
<1> QED BY <1>2 DEF Has

(* A message that was submitted is there.                                    *)
LEMMA SubmitHas ==
  ASSUME NEW q, NEW j, NEW name, queue' = Submit(q, name, j)
  PROVE  Has(j, name)'
<1>1. [id |-> NewTask, name |-> name, job |-> j] \in queue'
  BY DEF Submit
<1> QED BY <1>1 DEF Has

(* The breaker revokes messages of jobs it cancels, and of settled jobs.     *)
LEMMA MessagesTripBreaker ==
  ASSUME TypeOK, ScheduleMirrorsJob, MessageInv, NEW a \in Accounts, TripBreaker(a)
  PROVE  MessageInv'
<1> USE DEF MessageInv
<1>1. /\ jobStatus' = [k \in Keys |-> IF k \in WaitingJobs(a) THEN "cancelled" ELSE jobStatus[k]]
      /\ queue' = Revoke(queue, {jobTask[k] : k \in WaitingJobs(a)}
                                  \cup {schedTask[s] : s \in HeldSchedules(a)})
      /\ UNCHANGED <<jobOf, jobTask, overdue>>
      /\ \A s \in Schedules : schedTask'[s] \in {schedTask[s], NoTask}
  BY DEF TripBreaker
<1>2. IdsOwned'
  BY <1>1, OwnedFrame DEF Revoke
<1>3. ASSUME NEW k \in Keys, NEW name \in {"dispatch", "finalize"}, Needs(k, name)'
      PROVE  Has(k, name)'
  <2>1. k \notin WaitingJobs(a) /\ Needs(k, name)
    BY <1>1, <1>3 DEF Needs, Waiting
  <2>2. PICK m \in queue : m.name = name /\ m.job = k
    BY <2>1 DEF Covered, Has
  <2>3. jobStatus[k] \in Waiting \cup InFlight
    BY <2>1 DEF Needs, InFlight
  <2>4. \A j \in WaitingJobs(a) : jobTask[j] # m.id
    BY <2>1, <2>2 DEF IdsOwned, MessageOwned, WaitingJobs, JobsOf
  <2>5. ASSUME NEW s \in HeldSchedules(a), schedTask[s] = m.id PROVE FALSE
    <3>1. s \in Schedules /\ jobOf[s] = k /\ AccountOf[s] = a /\ s \notin FlyingSchedules(a)
      BY <2>2, <2>5 DEF IdsOwned, MessageOwned, HeldSchedules
    <3>2. jobSchedule[k] = s
      BY <3>1, SchedulerAssumption DEF ScheduleMirrorsJob, ScheduleHasJob, SchedulerAssumption
    <3>3. k \in JobsOf(a)
      BY <3>1, <3>2 DEF JobsOf
    <3> QED BY <2>1, <2>3, <3>1, <3>2, <3>3 DEF WaitingJobs, FlyingSchedules
  <2>6. m \in queue'
    BY <1>1, <2>4, <2>5 DEF Revoke
  <2> QED BY <2>2, <2>6 DEF Has
<1> QED BY <1>2, <1>3 DEF Covered

(* A result settles its job, or submits what the job now depends on.         *)
LEMMA MessagesApplyResult ==
  ASSUME TypeOK, MessageInv, ~BrokerMayFail, NEW j \in Keys, NEW target \in ResultTarget,
         NEW q, q \subseteq queue, \A m \in queue : m \in q \/ m.job = j, ApplyResult(j, target, q)
  PROVE  MessageInv'
<1> USE DEF MessageInv
<1>1. UNCHANGED <<schedTask, jobOf>>
  BY DEF ApplyResult
<1>2. ASSUME NEW status \in {"published", "rejected", "failed"}, Conclude(j, status, q)
      PROVE  MessageInv'
  <2>1. queue' = q /\ jobTask' = jobTask /\ overdue' = overdue
        /\ jobStatus' = [jobStatus EXCEPT ![j] = status]
    BY <1>2 DEF Conclude
  <2>2. IdsOwned'
    BY <1>1, <2>1, OwnedFrame
  <2>3. \A name \in {"dispatch", "finalize"} : ~Needs(j, name)'
    BY <2>1 DEF TypeOK, Needs, Waiting
  <2>4. \A k \in Keys : k # j => jobStatus'[k] = jobStatus[k] /\ overdue'[k] = overdue[k]
    BY <2>1 DEF TypeOK
  <2> QED BY <2>1, <2>2, <2>3, <2>4, CoveredOneJob
<1>3. ASSUME NEW status, NEW name, NEW sent \in BOOLEAN, Continue(j, status, name, q, sent),
             <<status, name>> \in {<<"retrying", "dispatch">>, <<"pending_finalize", "finalize">>}
      PROVE  MessageInv'
  <2>1. /\ FreshTasks # {}
        /\ queue' = Submit(q, name, j)
        /\ jobTask' = [jobTask EXCEPT ![j] = NewTask]
        /\ jobStatus' = [jobStatus EXCEPT ![j] = status]
        /\ \A k \in Keys : k # j => jobStatus'[k] = jobStatus[k] /\ overdue'[k] = overdue[k]
    BY <1>3 DEF Continue, Submits, TypeOK
  <2>2. IdsOwned'
    BY <1>1, <1>3, <2>1, OwnedSubmit
  <2>3. Has(j, name)'
    BY <2>1, SubmitHas
  <2>4. ASSUME NEW other \in {"dispatch", "finalize"}, Needs(j, other)' PROVE other = name
    BY <1>3, <2>1, <2>4 DEF Needs, Waiting, TypeOK
  <2>5. \A m \in queue : m \in queue' \/ m.job = j
    BY <2>1 DEF Submit
  <2>6. \A other \in {"dispatch", "finalize"} : Needs(j, other)' => Has(j, other)'
    BY <2>3, <2>4
  <2> QED BY <2>1, <2>2, <2>5, <2>6, CoveredOneJob
<1>4. CASE \E status \in {"published", "rejected", "failed"} : Conclude(j, status, q)
  BY <1>2, <1>4
<1>5. CASE \E sent \in BOOLEAN : \/ Continue(j, "retrying", "dispatch", q, sent)
                                 \/ Continue(j, "pending_finalize", "finalize", q, sent)
  BY <1>3, <1>5
<1> QED BY <1>4, <1>5 DEF ApplyResult

LEMMA MessagesEnqueue ==
  ASSUME TypeOK, ScheduleMirrorsJob, MessageInv, ~BrokerMayFail,
         NEW s \in Schedules, NEW j \in Keys, NEW sent \in BOOLEAN, Enqueue(s, j, sent)
  PROVE  MessageInv'
<1> USE DEF MessageInv
<1>1. jobOf[s] = NoKey
  BY DEF Enqueue, EnqueueKeys, ScheduleMirrorsJob, ScheduleHasJob
<1>2. /\ FreshTasks # {}
      /\ queue' = Submit(queue, "dispatch", j)
      /\ jobTask' = [jobTask EXCEPT ![j] = NewTask]
      /\ schedTask' = [schedTask EXCEPT ![s] = NewTask]
      /\ jobOf' = [jobOf EXCEPT ![s] = j]
      /\ jobStatus' = [jobStatus EXCEPT ![j] = "queued"]
      /\ overdue' = overdue
  BY DEF Enqueue, Submits
<1>3. /\ \A r \in Schedules : schedTask'[r] \in {schedTask[r], NoTask}
                              \/ (schedTask'[r] = NewTask /\ jobOf'[r] = j)
      /\ \A r \in Schedules : jobOf'[r] = jobOf[r] \/ jobOf[r] = NoKey
  BY <1>1, <1>2 DEF TypeOK
<1>4. IdsOwned'
  BY <1>2, <1>3, OwnedSubmit
<1>5. Has(j, "dispatch")' /\ ~Needs(j, "finalize")'
  BY <1>2, SubmitHas DEF Needs, TypeOK
<1>6. \A k \in Keys : k # j => jobStatus'[k] = jobStatus[k] /\ overdue'[k] = overdue[k]
  BY <1>2 DEF TypeOK
<1>7. \A m \in queue : m \in queue'
  BY <1>2 DEF Submit
<1> QED BY <1>4, <1>5, <1>6, <1>7, CoveredOneJob

(* Moving a schedule and publishing it now revoke a dispatch message of the  *)
(* job, never its poll, and submit another.                                  *)
LEMMA MessagesRedispatch ==
  ASSUME TypeOK, MessageInv, ~BrokerMayFail, NEW s \in Schedules,
         NEW between \in {schedTask[s], NoTask}, NEW sent \in BOOLEAN, Redispatch(s, between, sent)
  PROVE  MessageInv'
<1> USE DEF MessageInv
<1> DEFINE j == jobOf[s]
           q == Revoke(queue, {schedTask[s]})
<1>1. /\ FreshTasks # {}
      /\ queue' = Submit(q, "dispatch", j)
      /\ jobTask' = [jobTask EXCEPT ![j] = NewTask]
      /\ schedTask' = [schedTask EXCEPT ![s] =
                         IF sent /\ schedStatus[s] # "publishing" THEN NewTask ELSE between]
      /\ UNCHANGED <<jobOf, jobStatus, overdue>>
      /\ j # NoKey
  BY DEF Redispatch, Submits, HasLiveJob
<1>2. j \in Keys /\ q \subseteq queue
  BY <1>1 DEF TypeOK, Revoke
<1>3. \A r \in Schedules : schedTask'[r] \in {schedTask[r], NoTask}
                           \/ (schedTask'[r] = NewTask /\ jobOf'[r] = j)
  BY <1>1 DEF TypeOK
<1>4. IdsOwned'
  BY <1>1, <1>2, <1>3, OwnedSubmit
<1>5. \A m \in queue : m \in q \/ (m.job = j /\ m.name = "dispatch")
  BY DEF Revoke, IdsOwned, MessageOwned
<1>6. ASSUME Needs(j, "finalize")'
      PROVE  Has(j, "finalize")'
  <2>1. PICK m \in queue : m.name = "finalize" /\ m.job = j
    BY <1>1, <1>2, <1>6 DEF Covered, Needs, Has
  <2>2. m \in queue'
    BY <1>1, <1>5, <2>1 DEF Submit
  <2> QED BY <1>1, <2>1, <2>2 DEF Has
<1>7. Has(j, "dispatch")'
  BY <1>1, SubmitHas
<1>8. \A m \in queue : m \in queue' \/ m.job = j
  BY <1>1, <1>5 DEF Submit
<1> QED BY <1>1, <1>4, <1>6, <1>7, <1>8, CoveredOneJob

LEMMA MessagesCancel ==
  ASSUME TypeOK, ScheduleMirrorsJob, MessageInv, NEW s \in Schedules, CancelSchedule(s)
  PROVE  MessageInv'
<1> USE DEF MessageInv
<1> DEFINE j == jobOf[s]
<1>1. /\ queue' = Revoke(queue, {schedTask[s]} \cup (IF HasLiveJob(s) THEN {jobTask[j]} ELSE {}))
      /\ jobStatus' = IF HasLiveJob(s) THEN [jobStatus EXCEPT ![j] = "cancelled"] ELSE jobStatus
      /\ \A r \in Schedules : schedTask'[r] \in {schedTask[r], NoTask}
      /\ UNCHANGED <<jobOf, jobTask, overdue>>
  BY DEF CancelSchedule, TypeOK
<1>2. IdsOwned'
  BY <1>1, OwnedFrame DEF Revoke
<1>3. \A m \in queue : m \in queue' \/ m.job = j
  BY <1>1 DEF Revoke, IdsOwned, MessageOwned, HasLiveJob, TypeOK
<1>4. \A k \in Keys : k # j => jobStatus'[k] = jobStatus[k] /\ overdue'[k] = overdue[k]
  BY <1>1 DEF TypeOK
<1>5. j \in Keys => \A name \in {"dispatch", "finalize"} : ~Needs(j, name)'
  BY <1>1, SchedulerAssumption
  DEF TypeOK, HasLiveJob, Needs, Waiting, TerminalJob, SchedulerAssumption
<1> QED BY <1>1, <1>2, <1>3, <1>4, <1>5, CoveredOneJob

LEMMA MessagesStep ==
  ASSUME TypeOK, MirrorInv, MessageInv, [Next]_vars,
         ~BrokerMayFail, ~WorkersMayCrash, OperatorRetries \subseteq {"failed"}
  PROVE  MessageInv'
<1> USE DEF MirrorInv
(* Steps that touch no queue, no id and no job's need.                       *)
<1>1. ASSUME UNCHANGED <<queue, jobTask, schedTask, jobOf, jobStatus, overdue>>
      PROVE  MessageInv'
  BY <1>1 DEF MessageInv, IdsOwned, MessageOwned, Covered, Needs, Has
<1>2. ASSUME NEW a \in Accounts, NEW status \in AccountStatus, ChangeAccountStatus(a, status)
      PROVE  MessageInv'
  BY <1>1, <1>2, MessagesTripBreaker DEF ChangeAccountStatus, scheduleVars, jobVars
<1>3. ASSUME NEW a \in Accounts, DeleteCredential(a) PROVE MessageInv'
  BY <1>2, <1>3 DEF DeleteCredential, AccountStatus
<1>4. ASSUME NEW s \in Schedules, CreateSchedule(s) \/ RefuseInactive(s)
      PROVE  MessageInv'
  BY <1>1, <1>4, MessagesTripBreaker, SchedulerAssumption
  DEF CreateSchedule, RefuseInactive, jobVars, SchedulerAssumption
<1>5. ASSUME NEW s \in Schedules, NEW sent \in BOOLEAN, Reschedule(s, sent) \/ PublishNow(s, sent)
      PROVE  MessageInv'
  BY <1>5, MessagesRedispatch DEF Reschedule, PublishNow
<1>6. ASSUME NEW k \in Keys, NEW sent \in BOOLEAN, RetryJob(k, sent)
      PROVE  MessageInv'
  <2>1. /\ FreshTasks # {}
        /\ queue' = Submit(queue, "dispatch", k)
        /\ jobTask' = [jobTask EXCEPT ![k] = NewTask]
        /\ jobStatus' = [jobStatus EXCEPT ![k] = "retrying"]
        /\ UNCHANGED <<schedTask, jobOf, overdue>>
    BY <1>6 DEF RetryJob, Submits, scheduleVars
  <2>2. IdsOwned'
    BY <2>1, OwnedSubmit DEF MessageInv
  <2>3. Has(k, "dispatch")' /\ ~Needs(k, "finalize")'
    BY <2>1, SubmitHas DEF Needs, TypeOK
  <2>4. \A m \in queue : m \in queue'
    BY <2>1 DEF Submit
  <2>5. \A j \in Keys : j # k => jobStatus'[j] = jobStatus[j] /\ overdue'[j] = overdue[j]
    BY <2>1 DEF TypeOK
  <2> QED BY <2>2, <2>3, <2>4, <2>5, CoveredOneJob DEF MessageInv
<1>7. ASSUME NEW k \in Keys, NEW target \in {"published", "failed"}, ResolveByHand(k, target)
      PROVE  MessageInv'
  BY <1>7, VerdictApplies, MessagesApplyResult DEF ResolveByHand
<1>8. CASE Operate
  BY <1>8, <1>2, <1>3, <1>4, <1>5, <1>6, <1>7, MessagesCancel, MessagesEnqueue DEF Operate
<1>9. ASSUME NEW w \in Workers, NEW m \in queue, StartDispatch(w, m)
      PROVE  MessageInv'
  <2>1. /\ queue' \subseteq queue
        /\ \A n \in queue : n \in queue' \/ n.job = m.job
        /\ jobStatus' = [jobStatus EXCEPT ![m.job] = "dispatching"]
        /\ UNCHANGED <<schedTask, jobOf, jobTask, overdue>>
        /\ m.job \in Keys
    BY <1>9 DEF StartDispatch, Consumed, scheduleVars, TypeOK, Message
  <2>2. IdsOwned'
    BY <2>1, OwnedFrame DEF MessageInv
  <2>3. \A name \in {"dispatch", "finalize"} : ~Needs(m.job, name)'
    BY <2>1 DEF Needs, Waiting, TypeOK
  <2>4. \A k \in Keys : k # m.job => jobStatus'[k] = jobStatus[k] /\ overdue'[k] = overdue[k]
    BY <2>1 DEF TypeOK
  <2> QED BY <2>1, <2>2, <2>3, <2>4, CoveredOneJob DEF MessageInv
<1>10. ASSUME NEW w \in Workers, NEW target \in ResultTarget, FinishDispatch(w, target)
       PROVE  MessageInv'
  <2>1. calling[w] \in Keys
    BY <1>10 DEF FinishDispatch, TypeOK
  <2>2. CASE ResultApplies(jobStatus[calling[w]], target)
    BY <1>10, <2>1, <2>2, MessagesApplyResult DEF FinishDispatch
  <2>3. CASE ~ResultApplies(jobStatus[calling[w]], target)
    BY <1>1, <1>10, <2>3 DEF FinishDispatch, scheduleVars, jobVars
  <2> QED BY <2>2, <2>3
<1>11. ASSUME NEW m \in queue, NEW target \in {"published", "failed"}, PollSettles(m, target)
       PROVE  MessageInv'
  <2>1. m.job \in Keys
    BY DEF TypeOK, Message
  <2>2. \A q \in Consumed(m) : q \subseteq queue /\ \A n \in queue : n \in q \/ n.job = m.job
    BY DEF Consumed
  <2> QED BY <1>11, <2>1, <2>2, VerdictApplies, MessagesApplyResult DEF PollSettles
<1>12. ASSUME NEW m \in queue, NEW sent \in BOOLEAN, PollAgain(m, sent)
       PROVE  MessageInv'
  <2> DEFINE j == m.job
  <2>1. j \in Keys /\ jobStatus[j] = "pending_finalize"
        /\ UNCHANGED <<schedTask, jobOf, jobStatus, overdue>>
    BY <1>12 DEF PollAgain, scheduleVars, TypeOK, Message
  <2>2. CASE overdue[j]
    <3>1. queue' \subseteq queue /\ jobTask' = jobTask
          /\ \A n \in queue : n \in queue' \/ n.job = j
      BY <1>12, <2>2 DEF PollAgain, Consumed
    <3>2. \A name \in {"dispatch", "finalize"} : ~Needs(j, name)'
      BY <2>1, <2>2 DEF Needs, Waiting
    <3> QED BY <2>1, <3>1, <3>2, OwnedFrame, CoveredOneJob DEF MessageInv
  <2>3. CASE ~overdue[j]
    <3>1. PICK q \in Consumed(m) : queue' = Submit(q, "finalize", j)
      BY <1>12, <2>3 DEF PollAgain, Submits
    <3>2. FreshTasks # {} /\ jobTask' = [jobTask EXCEPT ![j] = NewTask]
      BY <1>12, <2>3 DEF PollAgain, Submits
    <3>3. q \subseteq queue /\ \A n \in queue : n \in q \/ n.job = j
      BY <3>1 DEF Consumed
    <3>4. IdsOwned'
      BY <2>1, <3>1, <3>2, <3>3, OwnedSubmit DEF MessageInv
    <3>5. Has(j, "finalize")' /\ ~Needs(j, "dispatch")'
      BY <2>1, <3>1, SubmitHas DEF Needs, Waiting
    <3>6. \A n \in queue : n \in queue' \/ n.job = j
      BY <3>1, <3>3 DEF Submit
    <3> QED BY <2>1, <3>4, <3>5, <3>6, CoveredOneJob DEF MessageInv
  <2> QED BY <2>2, <2>3
<1>13. ASSUME NEW m \in queue, DropMessage(m) PROVE MessageInv'
  <2>1. /\ queue' = queue \ {m} /\ m.name \in {"dispatch", "finalize"}
        /\ UNCHANGED <<schedTask, jobOf, jobTask, jobStatus, overdue>>
        /\ ~Needs(m.job, m.name)
    BY <1>13 DEF DropMessage, scheduleVars, jobVars, Needs, TypeOK, Message
  <2>2. IdsOwned'
    BY <2>1, OwnedFrame DEF MessageInv
  <2>3. Covered'
    BY <2>1 DEF MessageInv, Covered, Needs, Has
  <2> QED BY <2>2, <2>3 DEF MessageInv
<1>14. ASSUME NEW k \in Keys, DeadlinePasses(k) PROVE MessageInv'
  <2>1. \A j \in Keys, name \in {"dispatch", "finalize"} : Needs(j, name)' => Needs(j, name)
    BY <1>14 DEF DeadlinePasses, Needs, TypeOK
  <2> QED BY <1>14, <2>1
          DEF DeadlinePasses, MessageInv, IdsOwned, MessageOwned, Covered, Has, scheduleVars
<1>15. CASE Work
  BY <1>15, <1>9, <1>10, <1>11, <1>12, <1>13, <1>14 DEF Work, CrashCalling, LoseMessage
<1>16. CASE UNCHANGED vars
  BY <1>1, <1>16 DEF vars, scheduleVars, jobVars
<1> QED BY <1>8, <1>15, <1>16 DEF Next

(* If submit and the workers do not fail and operators retry failed jobs     *)
(* only, a job that waits has a dispatch message and a job that is pending   *)
(* before its deadline has a poll, whatever was moved, revoked, published    *)
(* immediately, retried or delivered twice.                                  *)
LEMMA MessagesInvariant ==
  ASSUME OperatorRetries \subseteq {"failed"}, ~BrokerMayFail, ~WorkersMayCrash
  PROVE  Spec => []MessageInv
<1>1. Init => MessageInv
  BY DEF Init, MessageInv, IdsOwned, Covered, Needs, Waiting
<1>2. TypeOK /\ MirrorInv /\ MessageInv /\ [Next]_vars => MessageInv'
  BY MessagesStep
<1> QED BY <1>1, <1>2, TypeCorrect, MirrorInvariant, PTL DEF Spec

(* A job that waits has a dispatch message: revoking one never strands it.   *)
THEOREM WaitingIsDispatched ==
  ASSUME OperatorRetries \subseteq {"failed"}, ~BrokerMayFail, ~WorkersMayCrash
  PROVE  Spec => []WaitingHasMessage
<1>1. MessageInv => WaitingHasMessage
  BY CoveredMeans DEF MessageInv
<1> QED BY <1>1, MessagesInvariant, PTL

(* A job pending finalization before its deadline has a poll in the queue.   *)
THEOREM PendingHasPoll ==
  ASSUME OperatorRetries \subseteq {"failed"}, ~BrokerMayFail, ~WorkersMayCrash
  PROVE  Spec => []PendingIsPolled
<1>1. MessageInv => PendingIsPolled
  BY CoveredMeans DEF MessageInv
<1> QED BY <1>1, MessagesInvariant, PTL
=============================================================================
