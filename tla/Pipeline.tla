------------------------------ MODULE Pipeline ------------------------------
(***************************************************************************)
(* The scheduler and the publish gateway together: the dispatch task marks *)
(* the job, enters the gateway and applies what comes back; the finalize   *)
(* task polls through the gateway and hands the verdict to the dispatcher. *)
(* A finalize message stays in the queue of the model until its task ends: *)
(* nothing but the job's own cancellation revokes it.                      *)
(***************************************************************************)
EXTENDS Scheduler

CONSTANTS NoMessage, Synchronous, Blocked, Malformed, Seeded

ASSUME PipelineAssumption ==
  /\ NoMessage \notin Message
  /\ Synchronous \cup Blocked \cup Malformed \cup Seeded \subseteq Keys

VARIABLES
  record, located, late, known, posts, platform, call,   \* the gateway's
  polling   \* the finalize message a worker is handling

Gateway == INSTANCE Gateway WITH Callers <- Workers

gatewayVars == <<record, located, late, known, posts, platform, call>>
pipelineVars == <<vars, gatewayVars, polling>>

PipelineTypeOK ==
  /\ TypeOK
  /\ Gateway!TypeOK
  /\ polling \in [Workers -> Message \cup {NoMessage}]

PipelineInit ==
  /\ Init
  /\ Gateway!Init
  /\ polling = [w \in Workers |-> NoMessage]

Free(w) == calling[w] = NoKey /\ polling[w] = NoMessage

-----------------------------------------------------------------------------
(* publish_dispatch *)

StartPublish(w, m) ==
  /\ Free(w)
  /\ StartDispatch(w, m)
  /\ UNCHANGED <<gatewayVars, polling>>

EnterGateway(w) ==
  /\ calling[w] # NoKey
  /\ Gateway!Dispatch(w, calling[w])
  /\ UNCHANGED <<vars, polling>>

FinishPublish(w) ==
  /\ Gateway!At(w, "returned")
  /\ FinishDispatch(w, call[w].reply)
  /\ Gateway!Collect(w)
  /\ UNCHANGED polling

-----------------------------------------------------------------------------
(* publish_finalize: it polls before the dispatcher looks at the job. *)

StartPoll(w, m) ==
  /\ Free(w)
  /\ m \in queue
  /\ m.name = "finalize"
  /\ Redelivers \/ \A v \in Workers : polling[v] # m
  /\ polling' = [polling EXCEPT ![w] = m]
  /\ Gateway!Finalizes(w, m.job, FALSE)
  /\ UNCHANGED vars

(* finalize_pending with what the poll returned; a job that is not pending   *)
(* any more, or a message that is gone, ends the task.                       *)
FinishPoll(w) ==
  LET m == polling[w]
      reply == call[w].reply
  IN  /\ m # NoMessage
      /\ Gateway!At(w, "returned")
      /\ Gateway!Collect(w)
      /\ polling' = [polling EXCEPT ![w] = NoMessage]
      /\ \/ /\ reply \in {"published", "failed"}
            /\ PollSettles(m, reply)
         \/ /\ reply \notin {"published", "failed"}
            /\ \E sent \in BOOLEAN : PollAgain(m, sent)
         \/ DropMessage(m)
         \/ m \notin queue /\ UNCHANGED vars

-----------------------------------------------------------------------------
(* A worker dies in either task. *)

CrashPublish(w) ==
  /\ CrashCalling(w)
  /\ Gateway!Crash(w) \/ (Gateway!At(w, "idle") /\ UNCHANGED gatewayVars)
  /\ UNCHANGED polling

CrashPoll(w) ==
  /\ polling[w] # NoMessage
  /\ LoseMessage(polling[w])
  /\ Gateway!Crash(w)
  /\ polling' = [polling EXCEPT ![w] = NoMessage]

(* What operators and time do to the scheduler's rows.  Who resolves a job   *)
(* by hand has looked at the platform.                                       *)
SchedulerAlone ==
  /\ \/ Operate
     \/ \E k \in Keys : DeadlinePasses(k)
     \/ \E m \in queue : m.name = "dispatch" /\ (DropMessage(m) \/ LoseMessage(m))
  /\ \A k \in Keys : jobStatus[k] = "pending_finalize" /\ jobStatus'[k] = "published" =>
       platform[k] = "live"
  /\ UNCHANGED <<gatewayVars, polling>>

GatewayAlone ==
  /\ \/ \E w \in Workers : Gateway!Underway(w)
     \/ \E k \in Keys : Gateway!DeadlinePasses(k) \/ Gateway!PlatformProcesses(k)
  /\ UNCHANGED <<vars, polling>>

PipelineNext ==
  \/ \E w \in Workers :
        \/ \E m \in queue : StartPublish(w, m) \/ StartPoll(w, m)
        \/ EnterGateway(w)
        \/ FinishPublish(w)
        \/ FinishPoll(w)
        \/ CrashPublish(w)
        \/ CrashPoll(w)
  \/ SchedulerAlone
  \/ GatewayAlone

PipelineSpec == PipelineInit /\ [][PipelineNext]_pipelineVars

-----------------------------------------------------------------------------
(* Whatever the scheduler does to a job, redelivered messages, retries by    *)
(* hand even of a job in flight, crashes, its post is made at most once.     *)
PostedAtMostOnce == \A k \in Keys : posts[k] <= 1

(* A job counts as published only when its platform shows the post: an       *)
(* upload that was accepted, a late result or a stale poll never does.       *)
PublishedJobIsLive ==
  \A k \in Keys : jobStatus[k] = "published" => platform[k] = "live"

-----------------------------------------------------------------------------
(* What the contract says and the code does not do.                          *)

(* A transient error is retried (contracts/INTERFACES.md:126): the retry of  *)
(* a key whose last result was transient asks the platform again.            *)
RetryAsksPlatform ==
  [][\A w \in Workers :
       /\ calling[w] # NoKey
       /\ Gateway!At(w, "idle")
       /\ record[calling[w]] = "retrying"
       => ~(call'[w].step = "returned")]_pipelineVars
=============================================================================
