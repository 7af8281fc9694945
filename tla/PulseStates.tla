---------------------------- MODULE PulseStates ----------------------------
(***************************************************************************)
(* The status values of schedules and publish jobs and the moves between   *)
(* them that the scheduler's guards accept (services/scheduler/state.py,   *)
(* shared/enums.py).  "none" stands for a row that does not exist yet.     *)
(***************************************************************************)

ScheduleStatus ==
  {"pending", "scheduled", "publishing", "published", "failed", "cancelled"}

JobStatus ==
  {"queued", "dispatching", "publishing", "published", "pending_finalize",
   "failed", "rejected", "retrying", "cancelled"}

AccountStatus == {"active", "paused", "revoked"}

(* is_terminal of the two kinds of row; "failed" is terminal for is_terminal *)
(* although ALLOWED_JOB_TRANSITIONS gives it two ways out.                   *)
TerminalSchedule == {"published", "failed", "cancelled"}
TerminalJob == {"published", "failed", "rejected", "cancelled"}

(* PENDING_JOB_STATUSES and IN_FLIGHT_JOB_STATUSES of the job store. *)
(* Mutant of Waiting: a dispatch may be resumed. *)
WaitingOrInterrupted == {"queued", "retrying", "dispatching"}
Waiting == {"queued", "retrying"}
InFlight == {"dispatching", "publishing", "pending_finalize"}

(* ALLOWED_JOB_TRANSITIONS, as the set of successors of a status. *)
JobSuccessors(status) ==
  CASE status = "queued"           -> {"dispatching", "cancelled", "failed"}
    [] status = "dispatching"      -> {"publishing", "pending_finalize", "retrying",
                                       "failed", "rejected", "cancelled"}
    [] status = "publishing"       -> {"published", "pending_finalize", "retrying",
                                       "failed", "rejected", "cancelled"}
    [] status = "pending_finalize" -> {"published", "failed", "cancelled"}
    [] status = "failed"           -> {"retrying", "cancelled"}
    [] status = "retrying"         -> {"dispatching", "publishing", "failed", "cancelled"}
    [] OTHER                       -> {}

(* What a publish result can ask of a job (the range of job_status_for_result). *)
ResultTarget == {"published", "pending_finalize", "retrying", "rejected", "failed"}

(* apply_publish_result first saves "publishing" when a synchronous platform *)
(* reports "published" for a dispatching job, then checks the table.         *)
ResultApplies(status, target) ==
  LET from == IF status = "dispatching" /\ target = "published"
              THEN "publishing" ELSE status
  IN  target \in JobSuccessors(from)

(* Mutants: the job's own status; a policy rejection forgotten. *)
ScheduleForSame(target) == target
ScheduleForAccepted(target) ==
  CASE target = "published" -> "published"
    [] target = "rejected" -> "publishing"
    [] OTHER -> "failed"

(* The schedule status that goes with a settled job. *)
ScheduleFor(target) == IF target = "published" THEN "published" ELSE "failed"
=============================================================================
