----------------------------- MODULE Scheduler -----------------------------
(***************************************************************************)
(* The publishing scheduler: the Dispatcher with its schedule and job      *)
(* stores, the task queue it submits to, the workers that run the two      *)
(* publish tasks, and the circuit breaker that an account's status trips.  *)
(*                                                                         *)
(* A handler that makes no external call is one step.  The dispatch task   *)
(* is two, because the publish call sits between them: StartDispatch       *)
(* (mark_dispatching) and FinishDispatch (apply_publish_result), and       *)
(* anything may happen in between.  A job is named by its idempotency key  *)
(* (unified_post_id), which the job store keeps unique.  A task id is free *)
(* again once no message, schedule or job holds it: the ids of the code    *)
(* are fresh uuids, so only the ids in use can be told apart.  A message   *)
(* may be delivered at any time: its eta is not modelled.                  *)
(***************************************************************************)
EXTENDS Naturals, PulseStates

CONSTANTS
  Accounts,        \* the accounts of the matrix
  Schedules,       \* the schedule rows that may be created
  Keys,            \* unified_post_ids, and so the publish jobs there can be
  Tasks,           \* queue task ids; bounds the ids in use at one time
  Workers,         \* processes that run publish tasks
  NoSchedule, NoKey, NoTask,   \* absent references
  AccountOf,       \* the account a schedule publishes to
  VariantKey,      \* the key minted upstream for the schedule's content variant
  MaxAttempts,     \* max_attempts of the dispatcher
  OperatorRetries, \* statuses of the jobs operators call retry_job on
  ListenerWired,   \* the breaker listens to the account status changes
  BrokerMayFail,   \* queue.submit may raise
  WorkersMayCrash, \* a worker may die while it runs a task
  Redelivers       \* the broker may deliver a message more than once

ASSUME SchedulerAssumption ==
  /\ NoSchedule \notin Schedules /\ NoKey \notin Keys /\ NoTask \notin Tasks
  /\ AccountOf \in [Schedules -> Accounts]
  /\ VariantKey \in [Schedules -> Keys]
  /\ MaxAttempts \in Nat \ {0}
  /\ OperatorRetries \subseteq JobStatus
  /\ {ListenerWired, BrokerMayFail, WorkersMayCrash, Redelivers} \subseteq BOOLEAN

VARIABLES
  account,      \* identity's status of each account
  suspended,    \* accounts the breaker holds for suspended
  schedStatus,  \* status of each schedule row, "none" before it is created
  schedTask,    \* its task_id
  jobOf,        \* the job store's index by schedule
  jobStatus,    \* status of the job row of each key, "none" before it is claimed
  jobSchedule,  \* its schedule_id
  jobTask,      \* its task_id
  attempts,     \* its attempts
  overdue,      \* its finalize_deadline has passed
  queue,        \* messages submitted and neither consumed nor revoked
  calling       \* the job a worker is inside the gateway for

scheduleVars == <<schedStatus, schedTask>>
jobVars == <<jobOf, jobStatus, jobSchedule, jobTask, attempts, overdue>>
vars == <<account, suspended, scheduleVars, jobVars, queue, calling>>

Message == [id : Tasks, name : {"dispatch", "finalize"}, job : Keys]

TypeOK ==
  /\ account \in [Accounts -> AccountStatus]
  /\ suspended \subseteq Accounts
  /\ schedStatus \in [Schedules -> ScheduleStatus \cup {"none"}]
  /\ schedTask \in [Schedules -> Tasks \cup {NoTask}]
  /\ jobOf \in [Schedules -> Keys \cup {NoKey}]
  /\ jobStatus \in [Keys -> JobStatus \cup {"none"}]
  /\ jobSchedule \in [Keys -> Schedules \cup {NoSchedule}]
  /\ jobTask \in [Keys -> Tasks \cup {NoTask}]
  /\ attempts \in [Keys -> Nat]
  /\ overdue \in [Keys -> BOOLEAN]
  /\ queue \subseteq Message
  /\ calling \in [Workers -> Keys \cup {NoKey}]

Init ==
  /\ account = [a \in Accounts |-> "active"]
  /\ suspended = {}
  /\ schedStatus = [s \in Schedules |-> "none"]
  /\ schedTask = [s \in Schedules |-> NoTask]
  /\ jobOf = [s \in Schedules |-> NoKey]
  /\ jobStatus = [k \in Keys |-> "none"]
  /\ jobSchedule = [k \in Keys |-> NoSchedule]
  /\ jobTask = [k \in Keys |-> NoTask]
  /\ attempts = [k \in Keys |-> 0]
  /\ overdue = [k \in Keys |-> FALSE]
  /\ queue = {}
  /\ calling = [w \in Workers |-> NoKey]

-----------------------------------------------------------------------------
(* The task queue. *)

FreshTasks ==
  {t \in Tasks : /\ \A m \in queue : m.id # t
                 /\ \A s \in Schedules : schedTask[s] # t
                 /\ \A k \in Keys : jobTask[k] # t}
NewTask == CHOOSE t \in FreshTasks : TRUE

(* Mutant: a queue that submits once per job. *)
SubmitOncePerJob(q, name, k) ==
  IF \E m \in q : m.job = k THEN q ELSE q \cup {[id |-> NewTask, name |-> name, job |-> k]}

(* What a queue becomes when one message is added, or some ids are revoked. *)
Submit(q, name, k) == q \cup {[id |-> NewTask, name |-> name, job |-> k]}
Revoke(q, ids) == {m \in q : m.id \notin ids}

(* Whether queue.submit returned; the model needs an id for the message. *)
Submits(sent) ==
  /\ sent \/ BrokerMayFail
  /\ sent => FreshTasks # {}

(* The queue after a worker took m: at-least-once brokers may keep it. *)
Consumed(m) == IF Redelivers THEN {queue \ {m}, queue} ELSE {queue \ {m}}

-----------------------------------------------------------------------------
(* Schedules and accounts. *)

Open(s) == schedStatus[s] \notin TerminalSchedule \cup {"none"}
IsActive(s) == account[AccountOf[s]] = "active"
HasLiveJob(s) == jobOf[s] # NoKey /\ jobStatus[jobOf[s]] \notin TerminalJob

(* Mutant: the schedule always follows. *)
AdvanceAlways(s, status) == schedStatus' = [schedStatus EXCEPT ![s] = status]

(* _advance_schedule: a terminal schedule no longer follows its job. *)
Advance(s, status) ==
  schedStatus' = [schedStatus EXCEPT ![s] = IF Open(s) THEN status ELSE @]

JobsOf(a) == {k \in Keys : jobSchedule[k] \in {s \in Schedules : AccountOf[s] = a}}
WaitingJobs(a) == {k \in JobsOf(a) : jobStatus[k] \in Waiting}
FlyingSchedules(a) == {jobSchedule[k] : k \in {j \in JobsOf(a) : jobStatus[j] \in InFlight}}

(* Mutants: schedules in flight are cancelled too; those not enqueued are not. *)
HeldSchedulesInFlight(a) == {s \in Schedules : AccountOf[s] = a /\ Open(s)}
HeldSchedulesEnqueued(a) ==
  {s \in Schedules \ FlyingSchedules(a) : AccountOf[s] = a /\ Open(s) /\ schedStatus[s] # "pending"}

HeldSchedules(a) == {s \in Schedules \ FlyingSchedules(a) : AccountOf[s] = a /\ Open(s)}

(* AccountCircuitBreaker.suspend_account: cancel what waits, leave what flies. *)
TripBreaker(a) ==
  /\ suspended' = suspended \cup {a}
  /\ jobStatus' = [k \in Keys |-> IF k \in WaitingJobs(a) THEN "cancelled" ELSE jobStatus[k]]
  /\ schedStatus' = [s \in Schedules |->
                       IF s \in HeldSchedules(a) THEN "cancelled" ELSE schedStatus[s]]
  /\ schedTask' = [s \in Schedules |-> IF s \in HeldSchedules(a) THEN NoTask ELSE schedTask[s]]
  /\ queue' = Revoke(queue, {jobTask[k] : k \in WaitingJobs(a)}
                              \cup {schedTask[s] : s \in HeldSchedules(a)})
  /\ UNCHANGED <<jobOf, jobSchedule, jobTask, attempts, overdue, calling>>

AccountSuccessors(status) ==
  CASE status = "active"  -> {"paused", "revoked"}
    [] status = "paused"  -> {"active", "revoked"}
    [] status = "revoked" -> {"active"}   \* reauthorisation only

(* IdentityService.set_status, its listener called before it returns. *)
ChangeAccountStatus(a, status) ==
  /\ status \in AccountSuccessors(account[a])
  /\ account' = [account EXCEPT ![a] = status]
  /\ IF ListenerWired /\ status # "active"
     THEN TripBreaker(a)
     ELSE UNCHANGED <<suspended, scheduleVars, jobVars, queue, calling>>

(* DELETE /accounts/{id}/credential: pauses the account, then calls         *)
(* suspend_account without its status argument; the TypeError is swallowed. *)
DeleteCredential(a) ==
  /\ account[a] = "active"
  /\ ChangeAccountStatus(a, "paused")

CreateSchedule(s) ==
  /\ schedStatus[s] = "none"
  /\ IsActive(s)
  /\ schedStatus' = [schedStatus EXCEPT ![s] = "pending"]
  /\ UNCHANGED <<account, suspended, schedTask, jobVars, queue, calling>>

(* Enqueueing, moving or publishing a schedule whose account is not active  *)
(* is refused, and _require_active_account trips the breaker first.         *)
RefuseInactive(s) ==
  /\ Open(s)
  /\ ~IsActive(s)
  /\ TripBreaker(AccountOf[s])
  /\ UNCHANGED account

-----------------------------------------------------------------------------
(* Operators: enqueue, move, publish now, cancel, retry. *)

(* The API enqueues with the variant's key; the enqueue task and a move of a *)
(* schedule that has no live job pass no key, and one is minted.             *)
MintedKeys == Keys \ {VariantKey[s] : s \in Schedules}
EnqueueKeys(s) == IF jobOf[s] # NoKey THEN {jobOf[s]} ELSE MintedKeys \cup {VariantKey[s]}

(* enqueue_schedule past its refusals, up to a submit that may raise and     *)
(* leave a claimed job with no message.  A refusal leaves these rows alone.  *)
Enqueue(s, k, sent) ==
  /\ schedStatus[s] \in {"pending", "scheduled"}
  /\ ~HasLiveJob(s)
  /\ IsActive(s)
  /\ k \in EnqueueKeys(s)
  /\ jobStatus[k] = "none"          \* the unique index of claim
  /\ Submits(sent)
  /\ jobStatus' = [jobStatus EXCEPT ![k] = "queued"]
  /\ jobSchedule' = [jobSchedule EXCEPT ![k] = s]
  /\ jobOf' = [jobOf EXCEPT ![s] = k]
  /\ IF sent
     THEN /\ queue' = Submit(queue, "dispatch", k)
          /\ jobTask' = [jobTask EXCEPT ![k] = NewTask]
          /\ schedTask' = [schedTask EXCEPT ![s] = NewTask]
          /\ schedStatus' = [schedStatus EXCEPT ![s] = "scheduled"]
     ELSE UNCHANGED <<queue, jobTask, scheduleVars>>
  /\ UNCHANGED <<account, suspended, attempts, overdue, calling>>

(* The part reschedule_schedule and publish_now share when a job is live:    *)
(* revoke the schedule's task, submit again, record the new id, and then     *)
(* raise if the schedule was publishing, which may not return to scheduled.  *)
(* between is the schedule's task_id from the revocation on.                 *)
Redispatch(s, between, sent) ==
  LET k == jobOf[s]
      moved == sent /\ schedStatus[s] # "publishing"
      rest == Revoke(queue, {schedTask[s]})
  IN  /\ Open(s)
      /\ HasLiveJob(s)
      /\ IsActive(s)
      /\ Submits(sent)
      /\ queue' = IF sent THEN Submit(rest, "dispatch", k) ELSE rest
      /\ jobTask' = [jobTask EXCEPT ![k] = IF sent THEN NewTask ELSE @]
      /\ schedTask' = [schedTask EXCEPT ![s] = IF moved THEN NewTask ELSE between]
      /\ schedStatus' = [schedStatus EXCEPT ![s] = IF moved THEN "scheduled" ELSE @]
      /\ UNCHANGED <<account, suspended, jobOf, jobStatus, jobSchedule, attempts,
                     overdue, calling>>

Reschedule(s, sent) == Redispatch(s, NoTask, sent)
PublishNow(s, sent) == Redispatch(s, schedTask[s], sent)

CancelSchedule(s) ==
  LET k == jobOf[s]
      tasks == {schedTask[s]} \cup (IF HasLiveJob(s) THEN {jobTask[k]} ELSE {})
  IN  /\ schedStatus[s] # "none"
      /\ queue' = Revoke(queue, tasks)
      /\ jobStatus' = IF HasLiveJob(s) THEN [jobStatus EXCEPT ![k] = "cancelled"] ELSE jobStatus
      /\ schedTask' = [schedTask EXCEPT ![s] = IF Open(s) THEN NoTask ELSE @]
      /\ Advance(s, "cancelled")
      /\ UNCHANGED <<account, suspended, jobOf, jobSchedule, jobTask, attempts, overdue, calling>>

(* retry_job: neither the account nor the schedule is looked at. *)
RetryJob(k, sent) ==
  /\ jobStatus[k] \in OperatorRetries
  /\ "retrying" \in JobSuccessors(jobStatus[k])
  /\ Submits(sent)
  /\ jobStatus' = [jobStatus EXCEPT ![k] = "retrying"]
  /\ attempts' = [attempts EXCEPT ![k] = 0]
  /\ IF sent
     THEN /\ queue' = Submit(queue, "dispatch", k)
          /\ jobTask' = [jobTask EXCEPT ![k] = NewTask]
     ELSE UNCHANGED <<queue, jobTask>>
  /\ UNCHANGED <<account, suspended, scheduleVars, jobOf, jobSchedule, overdue, calling>>

-----------------------------------------------------------------------------
(* Workers. *)

(* publish_dispatch up to the gateway call. *)
StartDispatch(w, m) ==
  /\ calling[w] = NoKey
  /\ m \in queue
  /\ m.name = "dispatch"
  /\ jobStatus[m.job] \in Waiting
  /\ queue' \in Consumed(m)
  /\ calling' = [calling EXCEPT ![w] = m.job]
  /\ jobStatus' = [jobStatus EXCEPT ![m.job] = "dispatching"]
  /\ attempts' = [attempts EXCEPT ![m.job] = @ + 1]
  /\ UNCHANGED <<account, suspended, scheduleVars, jobOf, jobSchedule, jobTask, overdue>>

(* The task raises InvalidTransition and its message is gone. *)
DropMessage(m) ==
  /\ m \in queue
  /\ IF m.name = "dispatch"
     THEN jobStatus[m.job] \notin Waiting
     ELSE jobStatus[m.job] # "pending_finalize"
  /\ queue' = queue \ {m}
  /\ UNCHANGED <<account, suspended, scheduleVars, jobVars, calling>>

(* A settled job takes its schedule along. *)
Conclude(k, status, q) ==
  /\ jobStatus' = [jobStatus EXCEPT ![k] = status]
  /\ Advance(jobSchedule[k], ScheduleFor(status))
  /\ queue' = q
  /\ UNCHANGED <<jobTask, overdue>>

(* A job that goes on gets a follow-up message, unless submit raises. *)
Continue(k, status, name, q, sent) ==
  /\ Submits(sent)
  /\ jobStatus' = [jobStatus EXCEPT ![k] = status]
  /\ Advance(jobSchedule[k], "publishing")
  /\ overdue' = [overdue EXCEPT ![k] = @ /\ status # "pending_finalize"]
  /\ queue' = IF sent THEN Submit(q, name, k) ELSE q
  /\ jobTask' = [jobTask EXCEPT ![k] = IF sent THEN NewTask ELSE @]

(* Mutant: one attempt too many. *)
ExhaustedLate(k) == attempts[k] > MaxAttempts
Exhausted(k) == attempts[k] >= MaxAttempts

(* apply_publish_result, for a result that asks for target. *)
ApplyResult(k, target, q) ==
  /\ \/ /\ target \in {"published", "rejected", "failed"}
        /\ Conclude(k, target, q)
     \/ /\ target = "retrying"
        /\ Exhausted(k)
        /\ Conclude(k, "failed", q)
     \/ /\ target = "retrying"
        /\ ~Exhausted(k)
        /\ \E sent \in BOOLEAN : Continue(k, "retrying", "dispatch", q, sent)
     \/ /\ target = "pending_finalize"
        /\ \E sent \in BOOLEAN : Continue(k, "pending_finalize", "finalize", q, sent)
  /\ UNCHANGED <<account, suspended, schedTask, jobOf, jobSchedule, attempts>>

(* The rest of publish_dispatch: a result the job's status no longer admits *)
(* (it was cancelled or retried meanwhile) raises and changes nothing.      *)
FinishDispatch(w, target) ==
  /\ calling[w] # NoKey
  /\ calling' = [calling EXCEPT ![w] = NoKey]
  /\ IF ResultApplies(jobStatus[calling[w]], target)
     THEN ApplyResult(calling[w], target, queue)
     ELSE UNCHANGED <<account, suspended, scheduleVars, jobVars, queue>>

(* publish_finalize with a verdict: finalize_pending reads the job after the *)
(* poll returned, so the poll and the rest are one step.                     *)
PollSettles(m, target) ==
  /\ m \in queue
  /\ m.name = "finalize"
  /\ jobStatus[m.job] = "pending_finalize"
  /\ \E q \in Consumed(m) : ApplyResult(m.job, target, q)
  /\ UNCHANGED calling

(* No verdict, an error or no poller at all: ask again, until the deadline. *)
PollAgain(m, sent) ==
  /\ m \in queue
  /\ m.name = "finalize"
  /\ jobStatus[m.job] = "pending_finalize"
  /\ IF overdue[m.job]
     THEN /\ queue' \in Consumed(m)
          /\ UNCHANGED jobTask
     ELSE /\ Submits(sent)
          /\ \E q \in Consumed(m) : queue' = IF sent THEN Submit(q, "finalize", m.job) ELSE q
          /\ jobTask' = [jobTask EXCEPT ![m.job] = IF sent THEN NewTask ELSE @]
  /\ UNCHANGED <<account, suspended, scheduleVars, jobOf, jobStatus, jobSchedule, attempts,
                 overdue, calling>>

(* finalize_pending with the verdict an operator found on the platform. *)
ResolveByHand(k, target) ==
  /\ jobStatus[k] = "pending_finalize"
  /\ ApplyResult(k, target, queue)
  /\ UNCHANGED calling

DeadlinePasses(k) ==
  /\ jobStatus[k] = "pending_finalize"
  /\ ~overdue[k]
  /\ overdue' = [overdue EXCEPT ![k] = TRUE]
  /\ UNCHANGED <<account, suspended, scheduleVars, jobOf, jobStatus, jobSchedule, jobTask,
                 attempts, queue, calling>>

(* A worker dies inside the gateway call, or holding a message it has not    *)
(* acted on: the app leaves acks_late off, so nothing brings it back.        *)
CrashCalling(w) ==
  /\ WorkersMayCrash
  /\ calling[w] # NoKey
  /\ calling' = [calling EXCEPT ![w] = NoKey]
  /\ UNCHANGED <<account, suspended, scheduleVars, jobVars, queue>>

LoseMessage(m) ==
  /\ WorkersMayCrash
  /\ m \in queue
  /\ queue' = queue \ {m}
  /\ UNCHANGED <<account, suspended, scheduleVars, jobVars, calling>>

-----------------------------------------------------------------------------
Operate ==
  \/ \E a \in Accounts, status \in AccountStatus : ChangeAccountStatus(a, status)
  \/ \E a \in Accounts : DeleteCredential(a)
  \/ \E s \in Schedules : CreateSchedule(s) \/ RefuseInactive(s) \/ CancelSchedule(s)
  \/ \E s \in Schedules, sent \in BOOLEAN :
        \/ \E k \in Keys : Enqueue(s, k, sent)
        \/ Reschedule(s, sent)
        \/ PublishNow(s, sent)
  \/ \E k \in Keys, sent \in BOOLEAN : RetryJob(k, sent)
  \/ \E k \in Keys, target \in {"published", "failed"} : ResolveByHand(k, target)

Work ==
  \/ \E w \in Workers :
        \/ \E m \in queue : StartDispatch(w, m)
        \/ \E target \in ResultTarget : FinishDispatch(w, target)
        \/ CrashCalling(w)
  \/ \E m \in queue :
        \/ \E target \in {"published", "failed"} : PollSettles(m, target)
        \/ \E sent \in BOOLEAN : PollAgain(m, sent)
        \/ DropMessage(m)
        \/ LoseMessage(m)
  \/ \E k \in Keys : DeadlinePasses(k)

Next == Operate \/ Work

Spec == Init /\ [][Next]_vars

(* A broker delivers in order of eta, so no message is passed over for ever  *)
(* (strong fairness per job); a gateway call returns, its adapter or its     *)
(* timeout seeing to it; time passes.  Nothing obliges an operator to act.   *)
Starts(k) == \E w \in Workers, m \in queue : m.job = k /\ StartDispatch(w, m)
Finishes(w) == \E target \in ResultTarget : FinishDispatch(w, target)
FairSpec ==
  /\ Spec
  /\ \A k \in Keys : SF_vars(Starts(k)) /\ WF_vars(DeadlinePasses(k))
  /\ \A w \in Workers : WF_vars(Finishes(w))

-----------------------------------------------------------------------------
(* Safety. *)

(* The schedule statuses a job of this status may have: the schedule follows *)
(* its job, except that a failed schedule stays failed when the job is       *)
(* retried by hand.                                                          *)
MirrorOf(status) ==
  CASE status = "queued"      -> {"pending", "scheduled"}
    [] status = "dispatching" -> {"scheduled", "publishing", "failed"}
    [] status \in {"publishing", "retrying", "pending_finalize"} -> {"publishing", "failed"}
    [] status = "published"   -> {"published", "failed"}
    [] status \in {"failed", "rejected"} -> {"failed"}
    [] status = "cancelled"   -> {"cancelled", "failed"}

(* A schedule and its job never drift apart: the job store's index by        *)
(* schedule agrees with the rows, a schedule past "pending" has a job unless *)
(* it was cancelled, and the two statuses match.  In particular a cancelled  *)
(* schedule never has a job that may still publish.                          *)
JobHasSchedule(k) ==
  /\ jobSchedule[k] \in Schedules
  /\ jobOf[jobSchedule[k]] = k
  /\ schedStatus[jobSchedule[k]] \in MirrorOf(jobStatus[k])
ScheduleHasJob(s) ==
  /\ jobOf[s] # NoKey => jobStatus[jobOf[s]] # "none" /\ jobSchedule[jobOf[s]] = s
  /\ schedStatus[s] \notin {"none", "pending", "cancelled"} => jobOf[s] # NoKey
ScheduleMirrorsJob ==
  /\ \A k \in Keys : jobStatus[k] # "none" => JobHasSchedule(k)
  /\ \A s \in Schedules : ScheduleHasJob(s)

(* At most one worker is inside the gateway for a job, whatever the number   *)
(* of messages moves, immediate publications, retries and redeliveries left  *)
(* in the queue; meanwhile the job is dispatching or was cancelled.          *)
OnePublisherPerJob ==
  \A w \in Workers : calling[w] # NoKey =>
    /\ jobStatus[calling[w]] \in {"dispatching", "cancelled"}
    /\ \A v \in Workers : calling[v] = calling[w] => v = w

(* A job is handed to the platform at most max_attempts times per manual     *)
(* retry, and one that waits still has an attempt left.                      *)
AttemptsBounded ==
  \A k \in Keys :
    /\ attempts[k] <= MaxAttempts
    /\ jobStatus[k] \in Waiting => attempts[k] < MaxAttempts

(* Published, rejected and cancelled jobs and all settled schedules stay as  *)
(* they are; a failed job leaves only through a manual retry.                *)
TerminalIsFinal ==
  [][/\ \A k \in Keys : jobStatus[k] \in TerminalJob =>
          \/ jobStatus'[k] = jobStatus[k]
          \/ jobStatus[k] = "failed" /\ jobStatus'[k] = "retrying" /\ attempts'[k] = 0
     /\ \A s \in Schedules : schedStatus[s] \in TerminalSchedule =>
          schedStatus'[s] = schedStatus[s]]_vars

(* As long as submit and the workers do not fail, a job that waits has a     *)
(* dispatch message: revoking an old one never strands it.                   *)
WaitingHasMessage ==
  \A k \in Keys : jobStatus[k] \in Waiting =>
    \E m \in queue : m.name = "dispatch" /\ m.job = k

(* ... and a job pending finalization is polled until its deadline.          *)
PendingIsPolled ==
  \A k \in Keys : jobStatus[k] = "pending_finalize" /\ ~overdue[k] =>
    \E m \in queue : m.name = "finalize" /\ m.job = k

(* What the breaker achieves, wired to the account's status changes or not:  *)
(* the first refused request for an account that is not active (and, if it   *)
(* listens, the change of status) leaves no job of the account waiting and   *)
(* no schedule that could be enqueued; and as long as the account is not     *)
(* active nothing is queued again, whatever late results and retries arrive. *)
Drained(a) ==
  \A s \in Schedules : AccountOf[s] = a =>
    /\ schedStatus[s] # "pending"
    /\ jobOf[s] # NoKey => jobStatus[jobOf[s]] # "queued"
Trips(a) ==
  \/ \E s \in Schedules : AccountOf[s] = a /\ RefuseInactive(s)
  \/ ListenerWired /\ account'[a] # account[a]
BreakerHolds ==
  [][\A a \in Accounts : account'[a] # "active" =>
       /\ Drained(a) => Drained(a)'
       /\ Trips(a) => Drained(a)' /\ WaitingJobs(a)' = {}]_vars

(* Every job that waits or is in flight settles, or waits for a person after *)
(* its finalize deadline: retries end at the attempt limit and no message a  *)
(* job depends on is revoked without another in its place.                   *)
AwaitsPerson(k) == jobStatus[k] = "pending_finalize" /\ overdue[k]
JobsSettle ==
  \A k \in Keys : jobStatus[k] \in Waiting \cup InFlight ~>
    jobStatus[k] \in TerminalJob \/ AwaitsPerson(k)

(* So does every enqueued schedule: a job never settles without it.          *)
SchedulesSettle ==
  \A s \in Schedules : schedStatus[s] \in {"scheduled", "publishing"} ~>
    schedStatus[s] \in TerminalSchedule \/ (jobOf[s] # NoKey /\ AwaitsPerson(jobOf[s]))
=============================================================================
