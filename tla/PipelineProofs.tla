--------------------------- MODULE PipelineProofs ---------------------------
(***************************************************************************)
(* Proofs about Pipeline, for every number of schedules, keys and workers: *)
(* it takes steps of the scheduler and of the gateway only, so what is     *)
(* proved of either holds of the two together; and the two invariants that *)
(* need both, one post per key and no published job without a live post.   *)
(***************************************************************************)
EXTENDS Pipeline, SchedulerProofs

(* The theorems of the gateway, for the gateway of the pipeline. *)
GP == INSTANCE GatewayProofs WITH Callers <- Workers

-----------------------------------------------------------------------------
(* Pipeline's gateway and the one of GatewayProofs are the same.             *)

LEMMA SameGateway ==
  /\ Gateway!Init <=> GP!Init
  /\ (Gateway!TypeOK <=> GP!TypeOK) /\ (Gateway!TypeOK' <=> GP!TypeOK')
  /\ UNCHANGED Gateway!vars <=> UNCHANGED GP!vars
BY DEF Gateway!Init, GP!Init, Gateway!TypeOK, GP!TypeOK, Gateway!RecordStatus, GP!RecordStatus,
       Gateway!Settled, GP!Settled, Gateway!Reply, GP!Reply, Gateway!Call, GP!Call,
       Gateway!Idle, GP!Idle, Gateway!vars, GP!vars, Gateway!gatewayVars, GP!gatewayVars,
       Gateway!platformVars, GP!platformVars

LEMMA SameSteps == Gateway!Next <=> GP!Next
<1> USE DEF Gateway!gatewayVars, GP!gatewayVars, Gateway!platformVars, GP!platformVars,
            Gateway!Goes, GP!Goes, Gateway!Waits, GP!Waits, Gateway!Returns, GP!Returns,
            Gateway!At, GP!At, Gateway!Idle, GP!Idle, Gateway!Settled, GP!Settled,
            Gateway!Reply, GP!Reply, Gateway!Outcome, GP!Outcome
<1>1. \A c, k : Gateway!Dispatch(c, k) <=> GP!Dispatch(c, k)
  BY DEF Gateway!Dispatch, GP!Dispatch, Gateway!Duplicate, GP!Duplicate, Gateway!Refuse,
         GP!Refuse, Gateway!Claim, GP!Claim, Gateway!Unclaimed, GP!Unclaimed
<1>2. \A c, k, force : Gateway!Finalizes(c, k, force) <=> GP!Finalizes(c, k, force)
  BY DEF Gateway!Finalizes, GP!Finalizes, Gateway!FinalizeWithoutPoll, GP!FinalizeWithoutPoll,
         Gateway!Finalize, GP!Finalize, Gateway!Polled, GP!Polled
<1>3. \A c : Gateway!Underway(c) <=> GP!Underway(c)
  BY DEF Gateway!Underway, GP!Underway, Gateway!Search, GP!Search, Gateway!Existing,
         GP!Existing, Gateway!Request, GP!Request, Gateway!Accepted, GP!Accepted,
         Gateway!Answer, GP!Answer, Gateway!Raise, GP!Raise, Gateway!Poll, GP!Poll,
         Gateway!PollReply, GP!PollReply, Gateway!Planned, GP!Planned,
         Gateway!Classified, GP!Classified, Gateway!Made, GP!Made, Gateway!SavePoll, GP!SavePoll,
         Gateway!RaisePoll, GP!RaisePoll
<1>4. /\ \A c : Gateway!Collect(c) <=> GP!Collect(c)
      /\ Gateway!World <=> GP!World
  BY DEF Gateway!Collect, GP!Collect, Gateway!World, GP!World, Gateway!Crash, GP!Crash,
         Gateway!DeadlinePasses, GP!DeadlinePasses,
         Gateway!PlatformProcesses, GP!PlatformProcesses
<1> QED BY <1>1, <1>2, <1>3, <1>4 DEF Gateway!Next, GP!Next

LEMMA GatewayAssumed ==
  /\ NoKey \notin Keys
  /\ Synchronous \cup Blocked \cup Malformed \cup Seeded \subseteq Keys
  /\ FALSE \in BOOLEAN
BY SchedulerAssumption, PipelineAssumption DEF SchedulerAssumption, PipelineAssumption

LEMMA GatewayStepsAre == [Gateway!Next]_Gateway!vars <=> [GP!Next]_GP!vars
BY SameGateway, SameSteps

(* What GatewayProofs shows of its steps, for those of the pipeline.         *)
LEMMA GatewayInit == Gateway!Init => Gateway!TypeOK /\ GP!IInv
BY SameGateway, GatewayAssumed, GP!TypeInit, GP!InvInit

LEMMA GatewayInductive ==
  Gateway!TypeOK /\ GP!IInv /\ [Gateway!Next]_Gateway!vars => Gateway!TypeOK' /\ GP!IInv'
BY GatewayStepsAre, SameGateway, GatewayAssumed, GP!TypeStep, GP!InvStep

-----------------------------------------------------------------------------
(* Every step is one of the scheduler and one of the gateway, or a stutter   *)
(* of either.                                                                *)

LEMMA PollerStep ==
  ASSUME PipelineTypeOK, NEW w \in Workers, FinishPoll(w)
  PROVE  [Next]_vars
<1> DEFINE m == polling[w]
           reply == call[w].reply
<1>1. CASE reply \in {"published", "failed"} /\ PollSettles(m, reply)
  BY <1>1 DEF PollSettles, Next, Work
<1>2. CASE \E sent \in BOOLEAN : PollAgain(m, sent)
  BY <1>2 DEF PollAgain, Next, Work
<1>3. CASE DropMessage(m)
  BY <1>3 DEF DropMessage, Next, Work
<1> QED BY <1>1, <1>2, <1>3 DEF FinishPoll

LEMMA SchedulerSteps ==
  ASSUME PipelineTypeOK, [PipelineNext]_pipelineVars
  PROVE  [Next]_vars
<1>1. ASSUME NEW w \in Workers, NEW m \in queue, StartPublish(w, m) PROVE [Next]_vars
  BY <1>1 DEF StartPublish, Next, Work
<1>2. ASSUME NEW w \in Workers, EnterGateway(w) PROVE [Next]_vars
  BY <1>2 DEF EnterGateway
<1>3. ASSUME NEW w \in Workers, FinishPublish(w) PROVE [Next]_vars
  <2>1. call[w].reply \in ResultTarget
    BY <1>3 DEF FinishPublish, Gateway!At, PipelineTypeOK, Gateway!TypeOK, Gateway!Call,
                Gateway!Idle, Gateway!Reply, Gateway!Settled, ResultTarget
  <2> QED BY <1>3, <2>1 DEF FinishPublish, Next, Work
<1>4. ASSUME NEW w \in Workers, NEW m \in queue, StartPoll(w, m) PROVE [Next]_vars
  BY <1>4 DEF StartPoll
<1>5. ASSUME NEW w \in Workers, FinishPoll(w) PROVE [Next]_vars
  BY <1>5, PollerStep
<1>6. ASSUME NEW w \in Workers, CrashPublish(w) PROVE [Next]_vars
  BY <1>6 DEF CrashPublish, Next, Work
<1>7. ASSUME NEW w \in Workers, CrashPoll(w) PROVE [Next]_vars
  BY <1>7 DEF CrashPoll, LoseMessage, Next, Work
<1>8. CASE SchedulerAlone
  BY <1>8 DEF SchedulerAlone, Next, Work
<1>9. CASE GatewayAlone \/ UNCHANGED pipelineVars
  BY <1>9 DEF GatewayAlone, pipelineVars
<1> QED BY <1>1, <1>2, <1>3, <1>4, <1>5, <1>6, <1>7, <1>8, <1>9 DEF PipelineNext

LEMMA GatewayUnchanged == UNCHANGED gatewayVars => UNCHANGED Gateway!vars
BY DEF gatewayVars, Gateway!vars, Gateway!gatewayVars, Gateway!platformVars

LEMMA GatewaySteps ==
  ASSUME PipelineTypeOK, [PipelineNext]_pipelineVars
  PROVE  [Gateway!Next]_Gateway!vars
<1>1. ASSUME NEW w \in Workers, NEW m \in queue, StartPublish(w, m)
      PROVE  [Gateway!Next]_Gateway!vars
  BY <1>1, GatewayUnchanged DEF StartPublish
<1>2. ASSUME NEW w \in Workers, EnterGateway(w) PROVE [Gateway!Next]_Gateway!vars
  BY <1>2 DEF EnterGateway, PipelineTypeOK, TypeOK, Gateway!Next
<1>3. ASSUME NEW w \in Workers, FinishPublish(w) \/ FinishPoll(w)
      PROVE  [Gateway!Next]_Gateway!vars
  BY <1>3 DEF FinishPublish, FinishPoll, Gateway!Next
<1>4. ASSUME NEW w \in Workers, NEW m \in queue, StartPoll(w, m)
      PROVE  [Gateway!Next]_Gateway!vars
  <2>1. m.job \in Keys
    BY DEF PipelineTypeOK, TypeOK, Message
  <2> QED BY <1>4, <2>1 DEF StartPoll, Gateway!Next
<1>5. ASSUME NEW w \in Workers, CrashPublish(w) \/ CrashPoll(w)
      PROVE  [Gateway!Next]_Gateway!vars
  BY <1>5, GatewayUnchanged DEF CrashPublish, CrashPoll, Gateway!Next, Gateway!World
<1>6. CASE SchedulerAlone \/ UNCHANGED pipelineVars
  BY <1>6, GatewayUnchanged DEF SchedulerAlone, pipelineVars, gatewayVars
<1>7. CASE GatewayAlone
  BY <1>7 DEF GatewayAlone, Gateway!Next, Gateway!World
<1> QED BY <1>1, <1>2, <1>3, <1>4, <1>5, <1>6, <1>7 DEF PipelineNext

(* Type correctness, and with it the gateway's own invariant. *)
LEMMA PipelineTypeStep ==
  PipelineTypeOK /\ GP!IInv /\ [PipelineNext]_pipelineVars => PipelineTypeOK' /\ GP!IInv'
<1> SUFFICES ASSUME PipelineTypeOK, GP!IInv, [PipelineNext]_pipelineVars
             PROVE  PipelineTypeOK' /\ GP!IInv'
  OBVIOUS
<1>1. TypeOK'
  BY SchedulerSteps, TypeInductive DEF PipelineTypeOK
<1>2. Gateway!TypeOK' /\ GP!IInv'
  BY GatewaySteps, GatewayInductive DEF PipelineTypeOK
<1>3. polling' \in [Workers -> Message \cup {NoMessage}]
  BY DEF PipelineTypeOK, TypeOK, PipelineNext, pipelineVars, StartPublish, EnterGateway, FinishPublish,
         StartPoll, FinishPoll, CrashPublish, CrashPoll, SchedulerAlone, GatewayAlone
<1> QED BY <1>1, <1>2, <1>3 DEF PipelineTypeOK

LEMMA PipelineTypeInit == PipelineInit => PipelineTypeOK /\ GP!IInv
<1>1. Init => TypeOK
  BY DEF Init, TypeOK, AccountStatus
<1> QED BY <1>1, GatewayInit DEF PipelineInit, PipelineTypeOK

(* The variables of scheduler and gateway together keep their types. *)
THEOREM PipelineTypeCorrect == PipelineSpec => []PipelineTypeOK
BY PipelineTypeInit, PipelineTypeStep, PTL DEF PipelineSpec

(* The pipeline is a scheduler: what SchedulerProofs shows of Spec holds of  *)
(* the scheduler that calls this gateway.                                    *)
THEOREM PipelineSchedules == PipelineSpec => Spec
<1>1. PipelineTypeOK /\ [PipelineNext]_pipelineVars => [Next]_vars
  BY SchedulerSteps
<1> QED BY <1>1, PipelineTypeInit, PipelineTypeStep, PTL DEF PipelineSpec, PipelineInit, Spec

(* The pipeline is a gateway whose callers are the workers.                  *)
THEOREM PipelinePublishes == PipelineSpec => Gateway!Spec
<1>1. PipelineTypeOK /\ [PipelineNext]_pipelineVars => [Gateway!Next]_Gateway!vars
  BY GatewaySteps
<1> QED BY <1>1, PipelineTypeInit, PipelineTypeStep, PTL DEF PipelineSpec, PipelineInit, Gateway!Spec

(* However often the scheduler hands a key over, one post is made of it.     *)
THEOREM PostedOnce == PipelineSpec => []PostedAtMostOnce
<1>1. GP!IInv => PostedAtMostOnce
  BY DEF GP!IInv, GP!KeyInv, PostedAtMostOnce
<1> QED BY <1>1, PipelineTypeInit, PipelineTypeStep, PTL DEF PipelineSpec

-----------------------------------------------------------------------------
(* A published job is live.  The call of a worker belongs to the task the    *)
(* worker runs, so the reply a task applies is one about its own job; what   *)
(* the gateway replies is true, and a live post stays live until the reply   *)
(* is applied, however much later that is.                                   *)

Coupled(w) ==
  /\ polling[w] # NoMessage =>
       /\ calling[w] = NoKey
       /\ call[w].step \in {"poll", "polled", "returned"}
       /\ call[w].key = polling[w].job
  /\ polling[w] = NoMessage /\ call[w].step # "idle" =>
       /\ call[w].step \in {"search", "request", "answered", "returned"}
       /\ call[w].key = calling[w]
PipelineInv == PublishedJobIsLive /\ \A w \in Workers : Coupled(w)

(* Apart from the resolution of a pending job by hand, operators and         *)
(* deadlines publish nothing.                                                *)
LEMMA OperatePublishes ==
  ASSUME TypeOK, Operate, NEW k \in Keys, jobStatus'[k] = "published"
  PROVE  jobStatus[k] \in {"published", "pending_finalize"}
<1>1. ASSUME NEW a \in Accounts, TripBreaker(a) PROVE jobStatus[k] = "published"
  BY <1>1 DEF TripBreaker
<1>2. ASSUME NEW a \in Accounts, NEW status \in AccountStatus, ChangeAccountStatus(a, status)
      PROVE  jobStatus[k] = "published"
  BY <1>1, <1>2 DEF ChangeAccountStatus, jobVars
<1>3. ASSUME NEW a \in Accounts, DeleteCredential(a) PROVE jobStatus[k] = "published"
  BY <1>2, <1>3 DEF DeleteCredential, AccountStatus
<1>4. ASSUME NEW s \in Schedules, CreateSchedule(s) \/ RefuseInactive(s) \/ CancelSchedule(s)
      PROVE  jobStatus[k] = "published"
  <2>1. AccountOf[s] \in Accounts
    BY SchedulerAssumption DEF SchedulerAssumption
  <2> QED BY <1>1, <1>4, <2>1 DEF CreateSchedule, RefuseInactive, CancelSchedule, jobVars, TypeOK
<1>5. ASSUME NEW s \in Schedules, NEW sent \in BOOLEAN, NEW j \in Keys, Enqueue(s, j, sent)
      PROVE  jobStatus[k] = "published"
  BY <1>5 DEF Enqueue, TypeOK
<1>6. ASSUME NEW s \in Schedules, NEW sent \in BOOLEAN, Reschedule(s, sent) \/ PublishNow(s, sent)
      PROVE  jobStatus[k] = "published"
  BY <1>6 DEF Reschedule, PublishNow, Redispatch
<1>7. ASSUME NEW j \in Keys, NEW sent \in BOOLEAN, RetryJob(j, sent)
      PROVE  jobStatus[k] = "published"
  BY <1>7 DEF RetryJob, TypeOK
<1>8. ASSUME NEW j \in Keys, NEW target \in {"published", "failed"}, ResolveByHand(j, target)
      PROVE  jobStatus[k] \in {"published", "pending_finalize"}
  BY <1>8 DEF ResolveByHand, ApplyResult, Conclude, Continue, TypeOK
<1> QED BY <1>2, <1>3, <1>4, <1>5, <1>6, <1>7, <1>8 DEF Operate

(* A result publishes its own job, and only one that says "published".       *)
LEMMA ApplyPublishes ==
  ASSUME TypeOK, NEW j \in Keys, NEW target, NEW q, ApplyResult(j, target, q),
         NEW k \in Keys, jobStatus'[k] = "published"
  PROVE  jobStatus[k] = "published" \/ (k = j /\ target = "published")
BY DEF ApplyResult, Conclude, Continue, TypeOK

(* No message is handled and no call entered but by the steps of its worker. *)
LEMMA OperateCallsNothing == Operate => UNCHANGED calling
BY DEF Operate, ChangeAccountStatus, DeleteCredential, TripBreaker, CreateSchedule, RefuseInactive,
       CancelSchedule, Enqueue, Reschedule, PublishNow, Redispatch, RetryJob, ResolveByHand

LEMMA CoupledStep ==
  ASSUME PipelineTypeOK, \A w \in Workers : Coupled(w), [PipelineNext]_pipelineVars,
         NEW v \in Workers
  PROVE  Coupled(v)'
<1> USE DEF PipelineTypeOK, TypeOK, Gateway!TypeOK, Gateway!Call, Gateway!Idle, Gateway!At,
            Gateway!Goes, Gateway!Waits, Gateway!Returns
<1> USE SchedulerAssumption, PipelineAssumption DEF SchedulerAssumption, PipelineAssumption
<1>1. ASSUME NEW w \in Workers, NEW m \in queue, StartPublish(w, m) PROVE Coupled(v)'
  BY <1>1 DEF StartPublish, StartDispatch, Free, gatewayVars, Coupled
<1>2. ASSUME NEW w \in Workers, EnterGateway(w) PROVE Coupled(v)'
  BY <1>2 DEF EnterGateway, Gateway!Dispatch, Gateway!Duplicate, Gateway!Refuse, Gateway!Claim,
              vars, Coupled
<1>3. ASSUME NEW w \in Workers, FinishPublish(w) PROVE Coupled(v)'
  BY <1>3 DEF FinishPublish, FinishDispatch, Gateway!Collect, Coupled
<1>4. ASSUME NEW w \in Workers, NEW m \in queue, StartPoll(w, m) PROVE Coupled(v)'
  <2>1. /\ call'[w].step \in {"poll", "returned"} /\ call'[w].key = m.job
        /\ \A u \in Workers \ {w} : call'[u] = call[u]
    <3>1. CASE Gateway!FinalizeWithoutPoll(w, m.job, FALSE)
      BY <3>1 DEF Gateway!FinalizeWithoutPoll
    <3>2. CASE Gateway!Finalize(w, m.job, FALSE)
      BY <3>2 DEF Gateway!Finalize
    <3> QED BY <1>4, <3>1, <3>2 DEF StartPoll, Gateway!Finalizes
  <2>2. /\ calling[w] = NoKey /\ UNCHANGED calling
        /\ polling' = [polling EXCEPT ![w] = m] /\ m # NoMessage
    BY <1>4 DEF StartPoll, Free, vars
  <2> QED BY <2>1, <2>2 DEF Coupled
<1>5. ASSUME NEW w \in Workers, FinishPoll(w) PROVE Coupled(v)'
  <2>1. UNCHANGED calling
    BY <1>5 DEF FinishPoll, PollSettles, PollAgain, DropMessage, vars
  <2> QED BY <1>5, <2>1 DEF FinishPoll, Gateway!Collect, Coupled
<1>6. ASSUME NEW w \in Workers, CrashPublish(w) PROVE Coupled(v)'
  BY <1>6 DEF CrashPublish, CrashCalling, Gateway!Crash, gatewayVars, Coupled
<1>7. ASSUME NEW w \in Workers, CrashPoll(w) PROVE Coupled(v)'
  BY <1>7 DEF CrashPoll, LoseMessage, Gateway!Crash, Coupled
<1>8. CASE SchedulerAlone
  <2>1. UNCHANGED calling
    BY <1>8, OperateCallsNothing DEF SchedulerAlone, DeadlinePasses, DropMessage, LoseMessage
  <2> QED BY <1>8, <2>1 DEF SchedulerAlone, gatewayVars, Coupled
<1>9. ASSUME NEW w \in Workers, Gateway!Underway(w), UNCHANGED <<vars, polling>>
      PROVE  Coupled(v)'
  <2>1. /\ call'[w].key = call[w].key
        /\ \/ /\ call[w].step \in {"search", "request", "answered"}
              /\ call'[w].step \in {"request", "answered", "returned"}
           \/ /\ call[w].step \in {"poll", "polled"}
              /\ call'[w].step \in {"polled", "returned"}
        /\ \A u \in Workers \ {w} : call'[u] = call[u]
    BY <1>9 DEF Gateway!Underway, Gateway!Search, Gateway!Raise, Gateway!SavePoll,
                Gateway!RaisePoll, Gateway!Poll, Gateway!Request, Gateway!Answer
  <2> QED BY <1>9, <2>1 DEF vars, Coupled
<1>10. CASE GatewayAlone
  BY <1>9, <1>10 DEF GatewayAlone, Gateway!DeadlinePasses, Gateway!PlatformProcesses, vars, Coupled
<1>11. CASE UNCHANGED pipelineVars
  BY <1>11 DEF pipelineVars, vars, gatewayVars, Coupled
<1> QED
  BY <1>1, <1>2, <1>3, <1>4, <1>5, <1>6, <1>7, <1>8, <1>10, <1>11 DEF PipelineNext

(* A job that becomes published has a live post when the step begins.        *)
LEMMA PublishesLive ==
  ASSUME PipelineTypeOK, GP!IInv, PipelineInv, [PipelineNext]_pipelineVars,
         NEW k \in Keys, jobStatus'[k] = "published"
  PROVE  platform[k] = "live"
<1>1. ASSUME jobStatus[k] = "published" PROVE platform[k] = "live"
  BY <1>1 DEF PipelineInv, PublishedJobIsLive
<1>2. ASSUME NEW w \in Workers, Gateway!At(w, "returned"), call[w].key = k,
             call[w].reply = "published"
      PROVE  platform[k] = "live"
  BY <1>2 DEF Gateway!At, GP!IInv, GP!CallInv, GP!ReturnInv
<1>3. ASSUME NEW w \in Workers, NEW m \in queue, StartPublish(w, m) PROVE platform[k] = "live"
  BY <1>1, <1>3 DEF StartPublish, StartDispatch, PipelineTypeOK, TypeOK
<1>4. ASSUME NEW w \in Workers, FinishPublish(w) PROVE platform[k] = "live"
  <2>1. calling[w] \in Keys /\ calling[w] # NoKey /\ Gateway!At(w, "returned")
    BY <1>4 DEF FinishPublish, FinishDispatch, PipelineTypeOK, TypeOK
  <2>2. call[w].key = calling[w]
    BY <2>1 DEF Gateway!At, PipelineInv, Coupled
  <2>3. jobStatus[k] = "published" \/ (k = calling[w] /\ call[w].reply = "published")
    BY <1>4, <2>1, ApplyPublishes DEF FinishPublish, FinishDispatch, jobVars, PipelineTypeOK
  <2> QED BY <1>1, <1>2, <2>1, <2>2, <2>3
<1>5. ASSUME NEW w \in Workers, FinishPoll(w) PROVE platform[k] = "live"
  <2> DEFINE m == polling[w]
             reply == call[w].reply
  <2>1. m # NoMessage /\ m \in Message /\ m.job \in Keys /\ Gateway!At(w, "returned")
    BY <1>5 DEF FinishPoll, PipelineTypeOK, Message
  <2>2. call[w].key = m.job
    BY <2>1 DEF PipelineInv, Coupled
  <2>3. jobStatus[k] = "published" \/ (k = m.job /\ reply = "published")
    BY <1>5, <2>1, ApplyPublishes
       DEF FinishPoll, PollSettles, PollAgain, DropMessage, vars, jobVars, PipelineTypeOK
  <2> QED BY <1>1, <1>2, <2>1, <2>2, <2>3
<1>6. ASSUME NEW w \in Workers, CrashPublish(w) \/ CrashPoll(w) PROVE platform[k] = "live"
  BY <1>1, <1>6 DEF CrashPublish, CrashCalling, CrashPoll, LoseMessage, jobVars
<1>7. CASE SchedulerAlone
  <2>1. jobStatus[k] \in {"published", "pending_finalize"}
    BY <1>7, OperatePublishes
       DEF SchedulerAlone, DeadlinePasses, DropMessage, LoseMessage, jobVars, PipelineTypeOK
  <2> QED BY <1>1, <1>7, <2>1 DEF SchedulerAlone
<1>8. ASSUME UNCHANGED vars PROVE platform[k] = "live"
  BY <1>1, <1>8 DEF vars, jobVars
<1> QED
  BY <1>3, <1>4, <1>5, <1>6, <1>7, <1>8
     DEF PipelineNext, EnterGateway, StartPoll, GatewayAlone, pipelineVars

LEMMA PipelineInvStep ==
  PipelineTypeOK /\ GP!IInv /\ PipelineInv /\ [PipelineNext]_pipelineVars => PipelineInv'
<1> SUFFICES ASSUME PipelineTypeOK, GP!IInv, PipelineInv, [PipelineNext]_pipelineVars
             PROVE  PipelineInv'
  OBVIOUS
<1>1. GP!LiveStays
  BY GatewaySteps, GatewayStepsAre, GatewayAssumed, SameGateway, GP!LiveStaysStep
     DEF PipelineTypeOK
<1>2. ASSUME NEW k \in Keys, jobStatus'[k] = "published" PROVE platform'[k] = "live"
  BY <1>1, <1>2, PublishesLive DEF GP!LiveStays
<1>3. ASSUME NEW w \in Workers PROVE Coupled(w)'
  BY <1>3, CoupledStep DEF PipelineInv
<1> QED BY <1>2, <1>3 DEF PipelineInv, PublishedJobIsLive

(* A job is published only when its post is live, whichever task, person or  *)
(* late reply makes it so.                                                   *)
THEOREM PublishedIsLive == PipelineSpec => []PublishedJobIsLive
<1>1. PipelineInit => PipelineInv
  BY DEF PipelineInit, Init, Gateway!Init, Gateway!Idle, PipelineInv, PublishedJobIsLive, Coupled
<1>2. PipelineInv => PublishedJobIsLive
  BY DEF PipelineInv
<1> QED
  BY <1>1, <1>2, PipelineTypeInit, PipelineTypeStep, PipelineInvStep, PTL DEF PipelineSpec

-----------------------------------------------------------------------------
(* From the row an operator sees to the platform: a schedule that counts as  *)
(* published has a job, whose post is live and is the only one of its key.   *)
ScheduleShowsPost ==
  \A s \in Schedules : schedStatus[s] = "published" =>
    jobOf[s] \in Keys /\ platform[jobOf[s]] = "live" /\ posts[jobOf[s]] <= 1

LEMMA MirrorShowsPost ==
  ASSUME TypeOK, ScheduleMirrorsJob, PublishedJobIsLive, PostedAtMostOnce
  PROVE  ScheduleShowsPost
<1> SUFFICES ASSUME NEW s \in Schedules, schedStatus[s] = "published"
             PROVE  jobOf[s] \in Keys /\ platform[jobOf[s]] = "live" /\ posts[jobOf[s]] <= 1
  BY DEF ScheduleShowsPost
<1> DEFINE k == jobOf[s]
<1>1. k # NoKey /\ jobStatus[k] # "none" /\ jobSchedule[k] = s
  BY DEF ScheduleMirrorsJob, ScheduleHasJob
<1>2. k \in Keys
  BY <1>1 DEF TypeOK
<1>3. "published" \in MirrorOf(jobStatus[k])
  BY <1>1, <1>2 DEF ScheduleMirrorsJob, JobHasSchedule
<1>4. jobStatus[k] = "published"
  <2>1. jobStatus[k] \in JobStatus
    BY <1>1, <1>2 DEF TypeOK
  <2> QED BY <1>3, <2>1 DEF MirrorOf, JobStatus
<1> QED BY <1>2, <1>4 DEF PublishedJobIsLive, PostedAtMostOnce

(* What the console shows as published is published, once, if operators      *)
(* retry by hand failed jobs only.                                           *)
THEOREM SchedulesTellTheTruth ==
  ASSUME OperatorRetries \subseteq {"failed"}
  PROVE  PipelineSpec => []ScheduleShowsPost
<1>1. PipelineSpec => []ScheduleMirrorsJob
  BY PipelineSchedules, ScheduleAndJobAgree, PTL
<1>2. PipelineTypeOK /\ ScheduleMirrorsJob /\ PublishedJobIsLive /\ PostedAtMostOnce
      => ScheduleShowsPost
  BY MirrorShowsPost DEF PipelineTypeOK
<1> QED BY <1>1, <1>2, PipelineTypeCorrect, PublishedIsLive, PostedOnce, PTL
=============================================================================
