------------------------------ MODULE Gateway ------------------------------
(***************************************************************************)
(* The publish gateway: PublishGateway with its record store, the adapters *)
(* it calls and the platforms behind them.  dispatch and finalize are      *)
(* coroutines that wait for the platform; a caller (a worker of the        *)
(* scheduler) takes one step up to each wait, so the calls of different    *)
(* workers interleave there.                                               *)
(*                                                                         *)
(* A record's last result is the one that gave it its status, so the       *)
(* result a caller is handed is named by the job status the scheduler      *)
(* derives from it.  The record store is the publish_jobs table and        *)
(* outlives a process; an adapter's map of published ids does not.         *)
(***************************************************************************)
EXTENDS Naturals

CONSTANTS
  Keys,      \* unified_post_ids, each a post for one platform
  Callers,   \* workers that call the gateway
  NoKey,     \* absent reference
  Synchronous,     \* keys of platforms that publish at once (LinkedIn)
  Blocked,         \* keys of posts with compliance.blocked
  Malformed,       \* keys of posts that a validation refuses
  Seeded           \* keys the adapters may be constructed with, already published

ASSUME GatewayAssumption ==
  /\ NoKey \notin Keys
  /\ Synchronous \cup Blocked \cup Malformed \cup Seeded \subseteq Keys

VARIABLES
  record,    \* status of the publish record of each key, "none" before its claim
  located,   \* keys whose record has a platform_post_id
  late,      \* keys whose finalize_deadline has passed
  known,     \* keys the adapters map to a platform post
  posts,     \* how many posts the platform holds for each key
  platform,  \* what it says of the newest one
  call       \* what each caller is doing

gatewayVars == <<record, located, late, known>>
platformVars == <<posts, platform>>
vars == <<gatewayVars, platformVars, call>>

Settled == {"published", "failed", "rejected"}
RecordStatus == {"none", "queued", "pending_finalize", "retrying"} \cup Settled
Reply == {"pending_finalize", "retrying"} \cup Settled
Idle == [step |-> "idle", key |-> NoKey, reply |-> "none"]
Call ==
  {Idle} \cup [step : {"search", "request", "poll"}, key : Keys, reply : {"none"}]
         \cup [step : {"answered", "polled", "returned"}, key : Keys, reply : Reply]

TypeOK ==
  /\ record \in [Keys -> RecordStatus]
  /\ located \subseteq Keys /\ late \subseteq Keys /\ known \subseteq Keys
  /\ posts \in [Keys -> Nat]
  /\ platform \in [Keys -> {"absent", "processing", "live", "removed"}]
  /\ call \in [Callers -> Call]

Init ==
  /\ record = [k \in Keys |-> "none"]
  /\ located = {} /\ late = {}
  /\ known \in SUBSET Seeded
  /\ posts = [k \in Keys |-> IF k \in known THEN 1 ELSE 0]
  /\ platform = [k \in Keys |-> IF k \in known THEN "live" ELSE "absent"]
  /\ call = [c \in Callers |-> Idle]

-----------------------------------------------------------------------------
(* What a call does next, and what it hands to its caller. *)

Goes(c, step, k, reply) ==
  call' = [call EXCEPT ![c] = [step |-> step, key |-> k, reply |-> reply]]
Waits(c, step, k) == Goes(c, step, k, "none")
Returns(c, k, reply) == Goes(c, "returned", k, reply)
At(c, step) == call[c].step = step

(* Mutant: the record's status whatever it is. *)
OutcomeAsStored(k) == record[k]

(* _outcome of a record: one that has no result counts as failed. *)
Outcome(k) == IF record[k] = "queued" THEN "failed" ELSE record[k]

(* Mutants: a key may be claimed again when its retry is due, or when its    *)
(* first claim has no result.                                                *)
UnclaimedOrRetrying(k) == record[k] \in {"none", "retrying"}
UnclaimedOrQueued(k) == record[k] \in {"none", "queued"}

(* claim: the unique index on unified_post_id. *)
Unclaimed(k) == record[k] = "none"

-----------------------------------------------------------------------------
(* dispatch *)

(* The unique index refuses the claim: the stored outcome is returned. *)
Duplicate(c, k) ==
  /\ At(c, "idle")
  /\ ~Unclaimed(k)
  /\ Returns(c, k, Outcome(k))
  /\ UNCHANGED <<gatewayVars, platformVars>>

(* A claimed post that compliance blocks or a validation refuses is settled. *)
Refuse(c, k) ==
  LET reply == IF k \in Blocked THEN "rejected" ELSE "failed"
  IN  /\ At(c, "idle")
      /\ Unclaimed(k)
      /\ k \in Blocked \cup Malformed
      /\ record' = [record EXCEPT ![k] = reply]
      /\ Returns(c, k, reply)
      /\ UNCHANGED <<located, late, known, platformVars>>

Claim(c, k) ==
  /\ At(c, "idle")
  /\ Unclaimed(k)
  /\ k \notin Blocked \cup Malformed
  /\ record' = [record EXCEPT ![k] = "queued"]
  /\ Waits(c, "search", k)
  /\ UNCHANGED <<located, late, known, platformVars>>

(* find_existing: the adapter's own map, no request. *)
Existing(k) == k \in known

Search(c) ==
  LET k == call[c].key
  IN  /\ At(c, "search")
      /\ IF Existing(k)
         THEN /\ record' = [record EXCEPT ![k] = "pending_finalize"]
              /\ located' = located \cup {k}
              /\ Returns(c, k, "pending_finalize")
         ELSE /\ UNCHANGED <<record, located>>
              /\ Waits(c, "request", k)
      /\ UNCHANGED <<late, known, platformVars>>

(* Mutant: a platform that processes posts answers as if it published them.  *)
AcceptedAsPublished(k) == "published"

(* job_status_for of what the platform answers when it accepts a post. *)
Accepted(k) == IF k \in Synchronous THEN "published" ELSE "pending_finalize"

(* result_status_for: what an error of the platform makes of a post, by its  *)
(* class.  One of media processing leaves it pending on any platform.        *)
Classified == {"pending_finalize", "failed", "rejected"}

(* RetryPolicy.plan: what failed may be worth another attempt. *)
Planned == Classified \cup {"retrying"}

(* What the platform has of a post right after it was made. *)
Made(k) == IF k \in Synchronous THEN "live" ELSE "processing"

(* The platform handles the request of publish: it creates the post or not,  *)
(* and an error does not prove that it did not.                              *)
Request(c, made, reply) ==
  LET k == call[c].key
  IN  /\ At(c, "request")
      /\ reply \in {Accepted(k)} \cup Planned
      /\ reply = "published" => made
      /\ made => reply \notin {"failed", "rejected"}
      /\ IF made
         THEN /\ posts' = [posts EXCEPT ![k] = @ + 1]
              /\ platform' = [platform EXCEPT ![k] = Made(k)]
         ELSE UNCHANGED platformVars
      /\ Goes(c, "answered", k, reply)
      /\ UNCHANGED gatewayVars

(* The rest of publish and of dispatch: the adapter notes the id it was      *)
(* given, if any, and the gateway saves the result.  An id comes with a post *)
(* that was made.                                                            *)
Answer(c, identified) ==
  LET k == call[c].key
      reply == call[c].reply
      noted == IF identified /\ reply = Accepted(k) /\ posts[k] > 0 THEN {k} ELSE {}
  IN  /\ At(c, "answered")
      /\ known' = known \cup noted
      /\ located' = (located \ {k}) \cup noted
      /\ record' = [record EXCEPT ![k] = reply]
      /\ Returns(c, k, reply)
      /\ UNCHANGED <<late, platformVars>>

(* The adapter or its transport raises before a result was saved; the task   *)
(* takes that for a transient error (tasks.py:72).                           *)
Raise(c) ==
  /\ call[c].step \in {"search", "request", "answered"}
  /\ Returns(c, call[c].key, "retrying")
  /\ UNCHANGED <<gatewayVars, platformVars>>

-----------------------------------------------------------------------------
(* finalize *)

(* Mutant: the status of the record is not looked at.                        *)
PolledUnlessQueued(k, force) ==
  record[k] \notin {"none", "queued"} /\ (k \in late => force) /\ k \in located

(* No record at all, a record that is not pending, one past its deadline,    *)
(* one without a platform id: the platform is not asked.                     *)
Polled(k, force) ==
  record[k] = "pending_finalize" /\ (k \in late => force) /\ k \in located

FinalizeWithoutPoll(c, k, force) ==
  /\ At(c, "idle")
  /\ ~Polled(k, force)
  /\ Returns(c, k, IF record[k] = "none" THEN "failed" ELSE Outcome(k))
  /\ UNCHANGED <<gatewayVars, platformVars>>

Finalize(c, k, force) ==
  /\ At(c, "idle")
  /\ Polled(k, force)
  /\ Waits(c, "poll", k)
  /\ UNCHANGED <<gatewayVars, platformVars>>

(* poll_finalize: a synchronous platform is not asked, another one says what *)
(* it has or reports an error of its own.                                    *)
PollReply(k) ==
  IF k \in Synchronous THEN {"published"}
  ELSE Planned \cup (IF platform[k] = "live" THEN {"published"} ELSE {})

Poll(c, reply) ==
  /\ At(c, "poll")
  /\ reply \in PollReply(call[c].key)
  /\ Goes(c, "polled", call[c].key, reply)
  /\ UNCHANGED <<gatewayVars, platformVars>>

(* What is saved is the record read before the poll, with the new result. *)
SavePoll(c) ==
  LET k == call[c].key
  IN  /\ At(c, "polled")
      /\ record' = [record EXCEPT ![k] = call[c].reply]
      /\ Returns(c, k, call[c].reply)
      /\ UNCHANGED <<located, late, known, platformVars>>

(* A poll that raises settles nothing; the task keeps polling (tasks.py:101).*)
RaisePoll(c) ==
  /\ call[c].step \in {"poll", "polled"}
  /\ Returns(c, call[c].key, "pending_finalize")
  /\ UNCHANGED <<gatewayVars, platformVars>>

(* The caller has its outcome. *)
Collect(c) ==
  /\ At(c, "returned")
  /\ call' = [call EXCEPT ![c] = Idle]
  /\ UNCHANGED <<gatewayVars, platformVars>>

-----------------------------------------------------------------------------
(* The world: time, the platforms, a process that dies. *)

DeadlinePasses(k) ==
  /\ record[k] = "pending_finalize"
  /\ k \notin late
  /\ late' = late \cup {k}
  /\ UNCHANGED <<record, located, known, platformVars, call>>

PlatformProcesses(k) ==
  /\ platform[k] = "processing"
  /\ \E status \in {"live", "removed"} : platform' = [platform EXCEPT ![k] = status]
  /\ UNCHANGED <<gatewayVars, posts, call>>

(* A caller's process dies, and with it what its adapters learnt. *)
Crash(c) ==
  /\ ~At(c, "idle")
  /\ known' \in {known, known \cap Seeded}
  /\ call' = [call EXCEPT ![c] = Idle]
  /\ UNCHANGED <<record, located, late, platformVars>>

Dispatch(c, k) == Duplicate(c, k) \/ Refuse(c, k) \/ Claim(c, k)
Finalizes(c, k, force) == FinalizeWithoutPoll(c, k, force) \/ Finalize(c, k, force)

Underway(c) ==
  \/ Search(c) \/ Raise(c) \/ SavePoll(c) \/ RaisePoll(c)
  \/ \E reply \in Reply : Poll(c, reply) \/ \E made \in BOOLEAN : Request(c, made, reply)
  \/ \E identified \in BOOLEAN : Answer(c, identified)

World ==
  \/ \E c \in Callers : Crash(c)
  \/ \E k \in Keys : DeadlinePasses(k) \/ PlatformProcesses(k)

Next ==
  \/ \E c \in Callers :
        \/ \E k \in Keys : Dispatch(c, k) \/ \E force \in BOOLEAN : Finalizes(c, k, force)
        \/ Underway(c)
        \/ Collect(c)
  \/ World

Spec == Init /\ [][Next]_vars

-----------------------------------------------------------------------------
(* "published" is recorded only when the platform shows the post: an upload  *)
(* that was merely accepted never counts as published (gateway.py:8).        *)
PublishedIsLive ==
  \A k \in Keys : record[k] = "published" => platform[k] = "live"

(* A key that is being searched for or requested is claimed by that call     *)
(* alone, and its post is not on the platform before the request is made.    *)
Requesting(c) == call[c].step \in {"search", "request", "answered"}
OneRequestPerKey ==
  \A c, d \in Callers : Requesting(c) =>
    /\ record[call[c].key] = "queued"
    /\ Requesting(d) /\ call[d].key = call[c].key => c = d

(* The gateway keeps what PublishOnce promises, with redeliveries, errors    *)
(* whose post was made all the same, crashes, and polls of one key by several *)
(* callers at once, each of which saves over what the others have saved      *)
(* (gateway.py:296): a verdict is taken back by such a poll and by no other. *)
PollsOf(k) == {c \in Callers : call[c].step \in {"poll", "polled"} /\ call[c].key = k}
Promise ==
  INSTANCE PublishOnce WITH
    Publishable <- Keys \ (Blocked \cup Malformed),
    asking <- [k \in Keys |-> PollsOf(k)],
    verdict <- [k \in Keys |-> IF record[k] \in Settled THEN record[k] ELSE "open"]
PublishesOnce == Promise!Spec
=============================================================================
