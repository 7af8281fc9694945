----------------------------- MODULE Admission -----------------------------
(***************************************************************************)
(* What enqueue_schedule asks before it claims a job: the account must be  *)
(* able to pay the post out of the day's quota of the platform, and the    *)
(* rate limiter (a cooldown and a token bucket) must let it pass.  And     *)
(* what becomes of the posts, since the quota is the platform's and is     *)
(* spent when a post is uploaded.                                          *)
(*                                                                         *)
(* One account on one platform with a quota: accounts and platforms have   *)
(* entries of their own in every table.  Time is counted in ticks.  The    *)
(* API server has a thread per request, and neither the ledger nor the     *)
(* limiter has a lock: what a thread reads of their tables and what it     *)
(* writes there are steps of their own, and the moment of its request,     *)
(* read once at the beginning, may be older than that of a thread that     *)
(* has come before it since.                                               *)
(***************************************************************************)
EXTENDS Integers, Sequences, FiniteSets

CONSTANTS
  Posts,        \* schedules of the account
  KeyOf,        \* unified_post_id of each: schedules of one variant share it
  Callers,      \* threads serving requests
  NoPost,       \* absent reference
  Cost, Limit,  \* quota units of a post and of a day
  DayLength,    \* ticks in a quota window
  Cooldown,     \* ticks
  Capacity,     \* of the bucket, in tokens
  RefillEvery,  \* ticks it takes to refill a token
  Horizon,      \* bounds the time
  DueTimes      \* the times operators schedule posts for

ASSUME AdmissionAssumption ==
  /\ NoPost \notin Posts
  /\ KeyOf \in [Posts -> Posts]
  /\ {Cost, Limit, Cooldown, Horizon} \subseteq Nat
  /\ {DayLength, Capacity, RefillEvery} \subseteq Nat \ {0}
  /\ DueTimes \subseteq 0..Horizon

VARIABLES
  now,      \* the clock
  used,     \* units debited in each window
  tokens,   \* the bucket, in ticks of refill: RefillEvery make a token
  stamp,    \* when the bucket was last refilled, or Never
  marked,   \* when the cooldown began, or Never
  request,  \* what each thread is at, and what it has read
  post,     \* state, due time, upload time of each post and whether it was forced
  \* history, for the properties:
  paid,     \* units of all the debits of each window
  intruded, \* of those that came into another thread's reservation
  slack,    \* ticks rewound by older moments, and tokens taken while another looked
  taken,    \* tokens taken, in order: the moment, and the slack by then
  setback,  \* ticks by which the cooldown was set back
  marks     \* cooldowns begun, in order: the moment, the mark it found, the setback

bucketVars == <<tokens, stamp, slack, taken>>
cooldownVars == <<marked, setback, marks>>
ledgerVars == <<used, paid, intruded>>
vars == <<now, ledgerVars, bucketVars, cooldownVars, request, post>>

Time == 0..Horizon
Never == -1
Day(t) == t \div DayLength
Days == Day(0)..Day(Horizon)
Full == Capacity * RefillEvery
Idle == [at |-> "idle", post |-> NoPost, moment |-> 0, immediate |-> FALSE, forced |-> FALSE,
         used |-> 0, tokens |-> 0, stamp |-> Never, found |-> 0]
Request ==
  [at : {"idle", "precheck", "debit", "write", "cooldown", "bucket", "take", "mark", "peek", "claim"},
   post : Posts \cup {NoPost}, moment : Time, immediate : BOOLEAN, forced : BOOLEAN,
   used : Nat, tokens : 0..Full, stamp : Time \cup {Never}, found : Nat]

TypeOK ==
  /\ now \in Time
  /\ used \in [Days -> Nat] /\ paid \in [Days -> Nat] /\ intruded \in [Days -> Nat]
  /\ tokens \in 0..Full
  /\ stamp \in Time \cup {Never} /\ marked \in Time \cup {Never}
  /\ request \in [Callers -> Request]
  /\ \A c \in Callers : request[c].at \notin {"idle", "bucket", "peek"} => request[c].post \in Posts
  /\ post \in [Posts -> [state : {"planned", "queued", "uploaded"}, due : Time,
                         uploaded : Time \cup {Never}, forced : BOOLEAN]]
  /\ slack \in Nat /\ setback \in Nat
  /\ taken \in Seq([moment : Time, slack : Nat])
  /\ marks \in Seq([moment : Time, found : Nat, setback : Nat])

Init ==
  /\ now = 0
  /\ used = [d \in Days |-> 0]
  /\ tokens = Full
  /\ stamp = Never /\ marked = Never
  /\ request = [c \in Callers |-> Idle]
  /\ post \in [Posts -> [state : {"planned"}, due : DueTimes, uploaded : {Never}, forced : {FALSE}]]
  /\ paid = used /\ intruded = used
  /\ slack = 0 /\ taken = <<>>
  /\ setback = 0 /\ marks = <<>>

-----------------------------------------------------------------------------
(* The quota ledger. *)

(* A request goes on to its next step with nothing read, or is over.           *)
Becomes(c, step) ==
  request' = [request EXCEPT ![c].at = step, ![c].used = 0, ![c].tokens = 0, ![c].stamp = Never]
Leaves(c) == request' = [request EXCEPT ![c] = Idle]

(* Mutants: the cost of the post is not counted; the window is that of the   *)
(* debit and not of the request.                                             *)
AffordableOnce(d) == used[d] <= Limit
WindowNow(c) == Day(now)

Affordable(d) == used[d] + Cost <= Limit
Window(c) == Day(request[c].moment)

(* enqueue_schedule or publish_now of a post that has no job.  An             *)
(* administrator's force skips quota and limiter.                            *)
Arrive(c, p, immediate, forced) ==
  /\ request[c] = Idle
  /\ post[p].state = "planned"
  /\ forced => immediate
  /\ request' = [request EXCEPT ![c] =
       [Idle EXCEPT !.at = IF forced THEN "claim" ELSE "precheck", !.post = p,
                    !.moment = now, !.immediate = immediate, !.forced = forced]]
  /\ UNCHANGED <<now, ledgerVars, bucketVars, cooldownVars, post>>

(* reserve is precheck, then a debit: of what the window holds by then, ...   *)
Precheck(c) ==
  /\ request[c].at = "precheck"
  /\ IF Affordable(Window(c)) THEN Becomes(c, "debit") ELSE Leaves(c)
  /\ UNCHANGED <<now, ledgerVars, bucketVars, cooldownVars, post>>

ReadDebit(c) ==
  /\ request[c].at = "debit"
  /\ request' = [request EXCEPT ![c].at = "write", ![c].used = used[Window(c)]]
  /\ UNCHANGED <<now, ledgerVars, bucketVars, cooldownVars, post>>

(* ... written back with the cost of the post on top.  It intrudes if another  *)
(* thread has prechecked this window and not written its own debit yet.      *)
Reserving(d) == {c \in Callers : request[c].at \in {"debit", "write"} /\ Window(c) = d}
Debit(c) ==
  LET d == Window(c)
  IN  /\ request[c].at = "write"
      /\ used' = [used EXCEPT ![d] = request[c].used + Cost]
      /\ paid' = [paid EXCEPT ![d] = @ + Cost]
      /\ intruded' = [intruded EXCEPT ![d] = @ + IF Reserving(d) = {c} THEN 0 ELSE Cost]
      /\ Becomes(c, "cooldown")
      /\ UNCHANGED <<now, bucketVars, cooldownVars, post>>

-----------------------------------------------------------------------------
(* The rate limiter. *)

(* Mutants: the bucket overflows; the first stamp stays; the cooldown ends a *)
(* tick early.                                                               *)
RefilledUncapped(held, since, t) == held + IF since = Never \/ t < since THEN 0 ELSE t - since
StampedOnce(since, t) == IF since = Never THEN t ELSE since
RestedEarly(t) == marked = Never \/ Cooldown - (t - marked) <= 1

Least(a, b) == IF a < b THEN a ELSE b
(* What is held at a moment of what was held at an earlier one: an older      *)
(* moment adds nothing, but leaves its stamp.                                *)
Refilled(held, since, t) ==
  IF since = Never \/ t < since THEN held ELSE Least(Full, held + (t - since))
Stamped(since, t) == t
Rested(t) == marked = Never \/ Cooldown - (t - marked) <= 0

(* acquire: the cooldown first, ...                                          *)
Cool(c) ==
  /\ request[c].at = "cooldown"
  /\ IF Rested(request[c].moment)
     THEN request' = [request EXCEPT ![c].at = "bucket", ![c].found = Len(marks)]
     ELSE Leaves(c)
  /\ UNCHANGED <<now, ledgerVars, bucketVars, cooldownVars, post>>

(* ... then the bucket, which is read ...                                    *)
Look(c) ==
  /\ request[c].at = "bucket"
  /\ request' = [request EXCEPT ![c].at = IF request[c].post = NoPost THEN "peek" ELSE "take",
                                ![c].tokens = tokens, ![c].stamp = stamp]
  /\ UNCHANGED <<now, ledgerVars, bucketVars, cooldownVars, post>>

(* ... and written, refilled and less what is taken, over whatever others     *)
(* took since the reading.  A moment older than the stamp has the time       *)
(* between refilled twice.                                                   *)
Poured(c) == Refilled(request[c].tokens, request[c].stamp, request[c].moment)
Pours(c, amount) ==
  /\ tokens' = Poured(c) - amount
  /\ stamp' = Stamped(request[c].stamp, request[c].moment)
Rewound(c) == slack + IF stamp > request[c].moment THEN stamp - request[c].moment ELSE 0

(* A refusal by the bucket has refilled it all the same, and the debit stays. *)
Looking == {c \in Callers : request[c].at \in {"take", "peek"}}
Take(c) ==
  /\ request[c].at = "take"
  /\ IF Poured(c) >= RefillEvery
     THEN /\ Pours(c, RefillEvery)
          /\ slack' = Rewound(c) + IF Looking = {c} THEN 0 ELSE RefillEvery
          /\ taken' = Append(taken, [moment |-> request[c].moment, slack |-> Rewound(c)])
          /\ Becomes(c, "mark")
     ELSE /\ Pours(c, 0)
          /\ slack' = Rewound(c)
          /\ Leaves(c)
          /\ UNCHANGED taken
  /\ UNCHANGED <<now, ledgerVars, cooldownVars, post>>

(* The cooldown of a post that passed begins at the moment of its request.    *)
Mark(c) ==
  LET t == request[c].moment
  IN  /\ request[c].at = "mark"
      /\ marked' = t
      /\ setback' = setback + IF marked > t THEN marked - t ELSE 0
      /\ marks' = Append(marks, [moment |-> t, found |-> request[c].found, setback |-> setback'])
      /\ Becomes(c, "claim")
      /\ UNCHANGED <<now, ledgerVars, bucketVars, post>>

(* quota_snapshot reads the ledger and the limiter, and refills the bucket   *)
(* unless the cooldown answers first.                                        *)
Snapshot(c) ==
  /\ request[c] = Idle
  /\ Rested(now)
  /\ request' = [request EXCEPT ![c].at = "bucket", ![c].moment = now]
  /\ UNCHANGED <<now, ledgerVars, bucketVars, cooldownVars, post>>

Peek(c) ==
  /\ request[c].at = "peek"
  /\ Pours(c, 0)
  /\ slack' = Rewound(c)
  /\ Leaves(c)
  /\ UNCHANGED <<now, ledgerVars, taken, cooldownVars, post>>

-----------------------------------------------------------------------------
(* The posts. *)

(* A post whose key has a job already is a duplicate; what it paid is gone.  *)
Claim(c) ==
  LET r == request[c]
  IN  /\ r.at = "claim"
      /\ post' = IF \A p \in Posts : KeyOf[p] = KeyOf[r.post] => post[p].state = "planned"
                 THEN [post EXCEPT ![r.post].state = "queued", ![r.post].forced = r.forced,
                                   ![r.post].due = IF r.immediate THEN r.moment ELSE @]
                 ELSE post
      /\ Leaves(c)
      /\ UNCHANGED <<now, ledgerVars, bucketVars, cooldownVars>>

(* reschedule_schedule and publish_now of a post that has a job "consume no  *)
(* quota again".                                                             *)
Move(p, due) ==
  /\ post[p].state = "queued"
  /\ post' = [post EXCEPT ![p].due = due]
  /\ UNCHANGED <<now, ledgerVars, bucketVars, cooldownVars, request>>

Upload(p) ==
  /\ post[p].state = "queued"
  /\ post[p].due <= now
  /\ post' = [post EXCEPT ![p].state = "uploaded", ![p].uploaded = now]
  /\ UNCHANGED <<now, ledgerVars, bucketVars, cooldownVars, request>>

Tick ==
  /\ now < Horizon
  /\ now' = now + 1
  /\ UNCHANGED <<ledgerVars, bucketVars, cooldownVars, request, post>>

Next ==
  \/ \E c \in Callers :
        \/ \E p \in Posts, immediate, forced \in BOOLEAN : Arrive(c, p, immediate, forced)
        \/ Precheck(c)
        \/ ReadDebit(c)
        \/ Debit(c)
        \/ Cool(c)
        \/ Look(c)
        \/ Take(c)
        \/ Mark(c)
        \/ Claim(c)
        \/ Snapshot(c)
        \/ Peek(c)
  \/ \E p \in Posts :
        \/ \E due \in DueTimes : Move(p, due)
        \/ Upload(p)
  \/ Tick

Spec == Init /\ [][Next]_vars

-----------------------------------------------------------------------------
(* What reserve is worth without a lock, however many threads and in whatever *)
(* order their moments are: the debits of a window exceed the limit of the   *)
(* day by no more than those that came into the reservation of another.     *)
OverdrawnByIntruders == \A d \in Days : paid[d] <= Limit + intruded[d]

(* A token taken is paid in the window of its request: the ledger shows the   *)
(* cost of all of them but those an intruder's debit may have overwritten.   *)
GrantsArePaid ==
  \A d \in Days :
    Cost * Cardinality({i \in DOMAIN taken : Day(taken[i].moment) = d}) <= used[d] + intruded[d]

(* The promise of a token bucket, over any stretch of time: no more posts    *)
(* than a full bucket and what was refilled meanwhile, however refusals and  *)
(* snapshots come between.  A moment older than the stamp adds the time it    *)
(* rewound, and a token taken while another thread was looking may be put    *)
(* back once; there is no more to it, however many threads there are.        *)
RateIsBounded ==
  \A i, j \in DOMAIN taken : i <= j =>
    (j - i + 1) * RefillEvery <=
      Full + (taken[j].moment - taken[i].moment) + (taken[j].slack - taken[i].slack)

(* A post that passed the limiter lies the cooldown after every post that had *)
(* been marked when it was looked at, less what overlapping requests with    *)
(* older moments set the cooldown back in between.                           *)
CooldownHolds ==
  \A j \in DOMAIN marks : LET last == marks[j].found IN
    \A i \in 1..last :
      marks[j].moment - marks[i].moment >= Cooldown - (marks[last].setback - marks[i].setback)

-----------------------------------------------------------------------------
(* "The platform's daily quota is a hard constraint" (quota.py:3): the posts *)
(* that were not forced and are uploaded in one day cost no more than the    *)
(* limit of the day.                                                         *)
DailyQuotaHolds ==
  \A d \in Days :
    Cost * Cardinality({p \in Posts : /\ post[p].state = "uploaded"
                                      /\ ~post[p].forced
                                      /\ Day(post[p].uploaded) = d}) <= Limit
=============================================================================
