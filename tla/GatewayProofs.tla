--------------------------- MODULE GatewayProofs ---------------------------
(***************************************************************************)
(* Proofs about Gateway, for any number of keys and callers: the type      *)
(* invariant, one request and one post per key, "published" only of live   *)
(* posts, what may overwrite a verdict, and that Gateway implements        *)
(* PublishOnce however many callers poll a key at once.                    *)
(***************************************************************************)
EXTENDS Gateway, TLAPS

(* The moves of a call, one name for each disjunct of Next. *)
Moves(c) ==
  \/ \E k \in Keys : Duplicate(c, k) \/ Refuse(c, k) \/ Claim(c, k)
  \/ \E k \in Keys, force \in BOOLEAN : FinalizeWithoutPoll(c, k, force) \/ Finalize(c, k, force)
  \/ Search(c) \/ Raise(c) \/ SavePoll(c) \/ RaisePoll(c) \/ Collect(c) \/ Crash(c)
  \/ \E reply \in Reply, made \in BOOLEAN : Request(c, made, reply)
  \/ \E reply \in Reply : Poll(c, reply)
  \/ \E identified \in BOOLEAN : Answer(c, identified)

(* Every step is a move of one caller, a deadline or the platform's work.    *)
LEMMA NextMoves ==
  Next => \/ \E c \in Callers : Moves(c)
          \/ \E k \in Keys : DeadlinePasses(k) \/ PlatformProcesses(k)
BY DEF Next, Moves, Dispatch, Finalizes, Underway, World

-----------------------------------------------------------------------------
(* Type correctness. *)

LEMMA TypeInit == Init => TypeOK
BY GatewayAssumption
   DEF GatewayAssumption, Init, TypeOK, RecordStatus, Call, Idle

LEMMA TypeStep == TypeOK /\ [Next]_vars => TypeOK'
<1> SUFFICES ASSUME TypeOK, [Next]_vars PROVE TypeOK'
  OBVIOUS
<1> USE GatewayAssumption DEF GatewayAssumption
<1> USE DEF TypeOK, RecordStatus, Settled, Reply, Call, Idle
<1>1. CASE UNCHANGED vars
  BY <1>1 DEF vars, gatewayVars, platformVars
<1>2. ASSUME NEW k \in Keys, DeadlinePasses(k) \/ PlatformProcesses(k) PROVE TypeOK'
  <2>1. CASE DeadlinePasses(k)
    BY <2>1 DEF DeadlinePasses, platformVars
  <2>2. CASE PlatformProcesses(k)
    BY <2>2 DEF PlatformProcesses, gatewayVars
  <2> QED BY <1>2, <2>1, <2>2
<1>3. ASSUME NEW c \in Callers, Moves(c) PROVE TypeOK'
  <2> USE DEF Goes, Waits, Returns, At, gatewayVars, platformVars
  <2>1. ASSUME NEW k \in Keys, Duplicate(c, k) PROVE TypeOK'
    BY <2>1 DEF Duplicate, Unclaimed, Outcome
  <2>2. ASSUME NEW k \in Keys, Refuse(c, k) PROVE TypeOK'
    BY <2>2 DEF Refuse
  <2>3. ASSUME NEW k \in Keys, Claim(c, k) PROVE TypeOK'
    BY <2>3 DEF Claim
  <2>4. ASSUME NEW k \in Keys, NEW force \in BOOLEAN, FinalizeWithoutPoll(c, k, force)
        PROVE TypeOK'
    BY <2>4 DEF FinalizeWithoutPoll, Outcome
  <2>5. ASSUME NEW k \in Keys, NEW force \in BOOLEAN, Finalize(c, k, force) PROVE TypeOK'
    BY <2>5 DEF Finalize
  <2>6. CASE Search(c)
    BY <2>6 DEF Search, Existing
  <2>7. CASE Raise(c)
    BY <2>7 DEF Raise
  <2>8. CASE SavePoll(c)
    BY <2>8 DEF SavePoll
  <2>9. CASE RaisePoll(c)
    BY <2>9 DEF RaisePoll
  <2>10. CASE Collect(c)
    BY <2>10 DEF Collect
  <2>11. CASE Crash(c)
    BY <2>11 DEF Crash
  <2>12. ASSUME NEW reply \in Reply, NEW made \in BOOLEAN, Request(c, made, reply) PROVE TypeOK'
    BY <2>12 DEF Request, Planned, Classified, Made
  <2>13. ASSUME NEW reply \in Reply, Poll(c, reply) PROVE TypeOK'
    BY <2>13 DEF Poll
  <2>14. ASSUME NEW identified \in BOOLEAN, Answer(c, identified) PROVE TypeOK'
    BY <2>14 DEF Answer
  <2> QED
    BY <1>3, <2>1, <2>2, <2>3, <2>4, <2>5, <2>6, <2>7, <2>8, <2>9, <2>10, <2>11, <2>12,
       <2>13, <2>14 DEF Moves
<1> QED BY <1>1, <1>2, <1>3, NextMoves

(* Every variable of the gateway keeps its type. *)
THEOREM GatewayTypeCorrect == Spec => []TypeOK
BY TypeInit, TypeStep, PTL DEF Spec

-----------------------------------------------------------------------------
(* The inductive invariant.  Per key: how the platform, the adapters' map    *)
(* and the record hang together.  Per call: what it may rely on while it     *)
(* waits, above all that the key of a request is claimed and not yet posted. *)

(* No post was made of the key, except one the adapters were constructed with. *)
Fresh(k) == posts[k] = 0 \/ k \in known \cap Seeded

KeyInv(k) ==
  /\ posts[k] \in {0, 1}
  /\ posts[k] = 0 <=> platform[k] = "absent"
  /\ record[k] = "none" => Fresh(k)
  /\ record[k] = "published" => platform[k] = "live"
  /\ k \in Synchronous /\ k \in known \cup located => platform[k] = "live"

SearchInv(c, k) ==
  call[c].step = "search" /\ call[c].key = k => Fresh(k)
RequestInv(c, k) ==
  call[c].step = "request" /\ call[c].key = k => posts[k] = 0
AnswerInv(c, k) ==
  call[c].step = "answered" /\ call[c].key = k =>
    /\ call[c].reply \in {Accepted(k), "pending_finalize", "retrying", "failed", "rejected"}
    /\ call[c].reply = "published" => platform[k] = "live"
PollInv(c, k) ==
  call[c].step \in {"poll", "polled"} /\ call[c].key = k =>
    /\ record[k] \notin {"none", "queued"}
    /\ k \in located
    /\ call[c].reply = "published" => platform[k] = "live"
ClaimInv(c, k) ==
  Requesting(c) /\ call[c].key = k =>
    record[k] = "queued" /\ k \notin Blocked \cup Malformed
ReturnInv(c, k) ==
  call[c].step = "returned" /\ call[c].key = k /\ call[c].reply = "published" =>
    platform[k] = "live"
Alone(c, d) ==
  Requesting(c) /\ Requesting(d) /\ call[c].key = call[d].key => c = d

CallInv(c, k) ==
  /\ SearchInv(c, k) /\ RequestInv(c, k) /\ AnswerInv(c, k)
  /\ PollInv(c, k) /\ ClaimInv(c, k) /\ ReturnInv(c, k)

IInv ==
  /\ \A k \in Keys : KeyInv(k)
  /\ \A c \in Callers, k \in Keys : CallInv(c, k)
  /\ \A c, d \in Callers : Alone(c, d)

LEMMA InvInit == Init => IInv
BY GatewayAssumption
   DEF GatewayAssumption, Init, Idle, IInv, KeyInv, CallInv, SearchInv, RequestInv, AnswerInv,
       PollInv, ClaimInv, ReturnInv, Alone, Requesting, Fresh

(* One step per action; in each, the keys, the calls and their pairs.        *)
LEMMA InvStep == TypeOK /\ IInv /\ [Next]_vars => IInv'
<1> SUFFICES ASSUME TypeOK, IInv, [Next]_vars PROVE IInv'
  OBVIOUS
<1> USE GatewayAssumption DEF GatewayAssumption
<1> USE DEF TypeOK, RecordStatus, Settled, Reply, Call, Idle, gatewayVars, platformVars
<1> USE DEF Goes, Waits, Returns, At
<1> USE DEF CallInv, SearchInv, RequestInv, AnswerInv, PollInv, ClaimInv, ReturnInv, Alone,
           Requesting, Accepted, Fresh
<1>a. /\ \A k \in Keys : KeyInv(k)
      /\ \A c \in Callers, k \in Keys : CallInv(c, k)
      /\ \A c, d \in Callers : Alone(c, d)
  BY DEF IInv
<1> USE <1>a
<1>1. ASSUME NEW c \in Callers, NEW k0 \in Keys, Duplicate(c, k0) PROVE IInv'
  <2> USE <1>1 DEF Duplicate, Unclaimed, Outcome
  <2>1. ASSUME NEW k \in Keys PROVE KeyInv(k)'
    BY <2>1 DEF KeyInv
  <2>2. ASSUME NEW d \in Callers, NEW k \in Keys PROVE CallInv(d, k)'
    <3>1. CASE d = c
      BY <3>1 DEF KeyInv
    <3>2. CASE d # c
      BY <3>2 DEF KeyInv
    <3> QED BY <3>1, <3>2
  <2>3. ASSUME NEW d \in Callers, NEW e \in Callers PROVE Alone(d, e)'
    OBVIOUS
  <2> QED BY <2>1, <2>2, <2>3 DEF IInv
<1>2. ASSUME NEW c \in Callers, NEW k0 \in Keys, Refuse(c, k0) PROVE IInv'
  <2> USE <1>2 DEF Refuse, Unclaimed
  <2>1. ASSUME NEW k \in Keys PROVE KeyInv(k)'
    BY <2>1 DEF KeyInv
  <2>2. ASSUME NEW d \in Callers, NEW k \in Keys PROVE CallInv(d, k)'
    <3>1. CASE d = c
      BY <3>1 DEF KeyInv
    <3>2. CASE d # c
      BY <3>2 DEF KeyInv
    <3> QED BY <3>1, <3>2
  <2>3. ASSUME NEW d \in Callers, NEW e \in Callers PROVE Alone(d, e)'
    OBVIOUS
  <2> QED BY <2>1, <2>2, <2>3 DEF IInv
<1>3. ASSUME NEW c \in Callers, NEW k0 \in Keys, Claim(c, k0) PROVE IInv'
  <2> USE <1>3 DEF Claim, Unclaimed
  <2>1. ASSUME NEW k \in Keys PROVE KeyInv(k)'
    BY <2>1 DEF KeyInv
  <2>2. ASSUME NEW d \in Callers, NEW k \in Keys PROVE CallInv(d, k)'
    <3>1. CASE d = c
      BY <3>1 DEF KeyInv
    <3>2. CASE d # c
      BY <3>2 DEF KeyInv
    <3> QED BY <3>1, <3>2
  <2>3. ASSUME NEW d \in Callers, NEW e \in Callers PROVE Alone(d, e)'
    OBVIOUS
  <2> QED BY <2>1, <2>2, <2>3 DEF IInv
<1>4. ASSUME NEW c \in Callers, NEW k0 \in Keys, NEW force \in BOOLEAN, FinalizeWithoutPoll(c, k0, force) PROVE IInv'
  <2> USE <1>4 DEF FinalizeWithoutPoll, Outcome
  <2>1. ASSUME NEW k \in Keys PROVE KeyInv(k)'
    BY <2>1 DEF KeyInv
  <2>2. ASSUME NEW d \in Callers, NEW k \in Keys PROVE CallInv(d, k)'
    <3>1. CASE d = c
      BY <3>1 DEF KeyInv
    <3>2. CASE d # c
      BY <3>2 DEF KeyInv
    <3> QED BY <3>1, <3>2
  <2>3. ASSUME NEW d \in Callers, NEW e \in Callers PROVE Alone(d, e)'
    OBVIOUS
  <2> QED BY <2>1, <2>2, <2>3 DEF IInv
<1>5. ASSUME NEW c \in Callers, NEW k0 \in Keys, NEW force \in BOOLEAN, Finalize(c, k0, force) PROVE IInv'
  <2> USE <1>5 DEF Finalize, Polled
  <2>1. ASSUME NEW k \in Keys PROVE KeyInv(k)'
    BY <2>1 DEF KeyInv
  <2>2. ASSUME NEW d \in Callers, NEW k \in Keys PROVE CallInv(d, k)'
    <3>1. CASE d = c
      BY <3>1 DEF KeyInv
    <3>2. CASE d # c
      BY <3>2 DEF KeyInv
    <3> QED BY <3>1, <3>2
  <2>3. ASSUME NEW d \in Callers, NEW e \in Callers PROVE Alone(d, e)'
    OBVIOUS
  <2> QED BY <2>1, <2>2, <2>3 DEF IInv
<1>6. ASSUME NEW c \in Callers, Search(c) PROVE IInv'
  <2> USE <1>6 DEF Search, Existing
  <2>1. ASSUME NEW k \in Keys PROVE KeyInv(k)'
    BY <2>1 DEF KeyInv
  <2>2. ASSUME NEW d \in Callers, NEW k \in Keys PROVE CallInv(d, k)'
    <3>1. CASE d = c
      BY <3>1 DEF KeyInv
    <3>2. CASE d # c
      BY <3>2 DEF KeyInv
    <3> QED BY <3>1, <3>2
  <2>3. ASSUME NEW d \in Callers, NEW e \in Callers PROVE Alone(d, e)'
    OBVIOUS
  <2> QED BY <2>1, <2>2, <2>3 DEF IInv
<1>7. ASSUME NEW c \in Callers, Raise(c) PROVE IInv'
  <2> USE <1>7 DEF Raise
  <2>1. ASSUME NEW k \in Keys PROVE KeyInv(k)'
    BY <2>1 DEF KeyInv
  <2>2. ASSUME NEW d \in Callers, NEW k \in Keys PROVE CallInv(d, k)'
    <3>1. CASE d = c
      BY <3>1 DEF KeyInv
    <3>2. CASE d # c
      BY <3>2 DEF KeyInv
    <3> QED BY <3>1, <3>2
  <2>3. ASSUME NEW d \in Callers, NEW e \in Callers PROVE Alone(d, e)'
    OBVIOUS
  <2> QED BY <2>1, <2>2, <2>3 DEF IInv
<1>8. ASSUME NEW c \in Callers, SavePoll(c) PROVE IInv'
  <2> USE <1>8 DEF SavePoll
  <2>1. ASSUME NEW k \in Keys PROVE KeyInv(k)'
    BY <2>1 DEF KeyInv
  <2>2. ASSUME NEW d \in Callers, NEW k \in Keys PROVE CallInv(d, k)'
    <3>1. CASE d = c
      BY <3>1 DEF KeyInv
    <3>2. CASE d # c
      BY <3>2 DEF KeyInv
    <3> QED BY <3>1, <3>2
  <2>3. ASSUME NEW d \in Callers, NEW e \in Callers PROVE Alone(d, e)'
    OBVIOUS
  <2> QED BY <2>1, <2>2, <2>3 DEF IInv
<1>9. ASSUME NEW c \in Callers, RaisePoll(c) PROVE IInv'
  <2> USE <1>9 DEF RaisePoll
  <2>1. ASSUME NEW k \in Keys PROVE KeyInv(k)'
    BY <2>1 DEF KeyInv
  <2>2. ASSUME NEW d \in Callers, NEW k \in Keys PROVE CallInv(d, k)'
    <3>1. CASE d = c
      BY <3>1 DEF KeyInv
    <3>2. CASE d # c
      BY <3>2 DEF KeyInv
    <3> QED BY <3>1, <3>2
  <2>3. ASSUME NEW d \in Callers, NEW e \in Callers PROVE Alone(d, e)'
    OBVIOUS
  <2> QED BY <2>1, <2>2, <2>3 DEF IInv
<1>10. ASSUME NEW c \in Callers, Collect(c) PROVE IInv'
  <2> USE <1>10 DEF Collect
  <2>1. ASSUME NEW k \in Keys PROVE KeyInv(k)'
    BY <2>1 DEF KeyInv
  <2>2. ASSUME NEW d \in Callers, NEW k \in Keys PROVE CallInv(d, k)'
    <3>1. CASE d = c
      BY <3>1 DEF KeyInv
    <3>2. CASE d # c
      BY <3>2 DEF KeyInv
    <3> QED BY <3>1, <3>2
  <2>3. ASSUME NEW d \in Callers, NEW e \in Callers PROVE Alone(d, e)'
    OBVIOUS
  <2> QED BY <2>1, <2>2, <2>3 DEF IInv
<1>11. ASSUME NEW c \in Callers, Crash(c) PROVE IInv'
  <2> USE <1>11 DEF Crash
  <2>1. ASSUME NEW k \in Keys PROVE KeyInv(k)'
    BY <2>1 DEF KeyInv
  <2>2. ASSUME NEW d \in Callers, NEW k \in Keys PROVE CallInv(d, k)'
    <3>1. CASE d = c
      BY <3>1 DEF KeyInv
    <3>2. CASE d # c
      BY <3>2 DEF KeyInv
    <3> QED BY <3>1, <3>2
  <2>3. ASSUME NEW d \in Callers, NEW e \in Callers PROVE Alone(d, e)'
    OBVIOUS
  <2> QED BY <2>1, <2>2, <2>3 DEF IInv
<1>12. ASSUME NEW c \in Callers, NEW reply \in Reply, NEW made \in BOOLEAN, Request(c, made, reply) PROVE IInv'
  <2> USE <1>12 DEF Request, Planned, Classified, Made
  <2>1. ASSUME NEW k \in Keys PROVE KeyInv(k)'
    BY <2>1 DEF KeyInv
  <2>2. ASSUME NEW d \in Callers, NEW k \in Keys PROVE CallInv(d, k)'
    <3>1. CASE d = c
      BY <3>1 DEF KeyInv
    <3>2. CASE d # c
      BY <3>2 DEF KeyInv
    <3> QED BY <3>1, <3>2
  <2>3. ASSUME NEW d \in Callers, NEW e \in Callers PROVE Alone(d, e)'
    OBVIOUS
  <2> QED BY <2>1, <2>2, <2>3 DEF IInv
<1>13. ASSUME NEW c \in Callers, NEW reply \in Reply, Poll(c, reply) PROVE IInv'
  <2> USE <1>13 DEF Poll, PollReply, Planned, Classified
  <2>1. ASSUME NEW k \in Keys PROVE KeyInv(k)'
    BY <2>1 DEF KeyInv
  <2>2. ASSUME NEW d \in Callers, NEW k \in Keys PROVE CallInv(d, k)'
    <3>1. CASE d = c
      BY <3>1 DEF KeyInv
    <3>2. CASE d # c
      BY <3>2 DEF KeyInv
    <3> QED BY <3>1, <3>2
  <2>3. ASSUME NEW d \in Callers, NEW e \in Callers PROVE Alone(d, e)'
    OBVIOUS
  <2> QED BY <2>1, <2>2, <2>3 DEF IInv
<1>14. ASSUME NEW c \in Callers, NEW identified \in BOOLEAN, Answer(c, identified) PROVE IInv'
  <2> USE <1>14 DEF Answer
  <2>1. ASSUME NEW k \in Keys PROVE KeyInv(k)'
    BY <2>1 DEF KeyInv
  <2>2. ASSUME NEW d \in Callers, NEW k \in Keys PROVE CallInv(d, k)'
    <3>1. CASE d = c
      BY <3>1 DEF KeyInv
    <3>2. CASE d # c
      BY <3>2 DEF KeyInv
    <3> QED BY <3>1, <3>2
  <2>3. ASSUME NEW d \in Callers, NEW e \in Callers PROVE Alone(d, e)'
    OBVIOUS
  <2> QED BY <2>1, <2>2, <2>3 DEF IInv
<1>15. ASSUME NEW k0 \in Keys, DeadlinePasses(k0) \/ PlatformProcesses(k0) PROVE IInv'
  <2> USE <1>15 DEF DeadlinePasses, PlatformProcesses
  <2>1. ASSUME NEW k \in Keys PROVE KeyInv(k)'
    BY <2>1 DEF KeyInv
  <2>2. ASSUME NEW d \in Callers, NEW k \in Keys PROVE CallInv(d, k)'
    BY <2>2 DEF KeyInv
  <2>3. ASSUME NEW d \in Callers, NEW e \in Callers PROVE Alone(d, e)'
    OBVIOUS
  <2> QED BY <2>1, <2>2, <2>3 DEF IInv
<1>16. CASE UNCHANGED vars
  BY <1>16 DEF vars, IInv, KeyInv
<1> QED
  BY <1>1, <1>2, <1>3, <1>4, <1>5, <1>6, <1>7, <1>8, <1>9, <1>10, <1>11, <1>12, <1>13,
     <1>14, <1>15, <1>16, NextMoves DEF Moves

LEMMA Invariance == Spec => [](TypeOK /\ IInv)
BY TypeInit, TypeStep, InvInit, InvStep, PTL DEF Spec

(* "published" is recorded only of a post the platform shows. *)
THEOREM RecordsAreTrue == Spec => []PublishedIsLive
<1>1. IInv => PublishedIsLive
  BY DEF IInv, KeyInv, PublishedIsLive
<1> QED BY <1>1, Invariance, PTL

(* A key is searched for or requested by one call at a time, under its claim.*)
THEOREM RequestsAreClaimed == Spec => []OneRequestPerKey
<1>1. TypeOK /\ IInv => OneRequestPerKey
  BY DEF TypeOK, Call, Idle, IInv, CallInv, ClaimInv, Alone, Requesting, OneRequestPerKey
<1> QED BY <1>1, Invariance, PTL

(* What a call hands back as "published" the platform shows: a duplicate, a   *)
(* poll that was not made and a poll that was late say it of live posts only.*)
RepliesTrue ==
  \A c \in Callers : At(c, "returned") /\ call[c].reply = "published" =>
    platform[call[c].key] = "live"
THEOREM RepliesAreTrue == Spec => []RepliesTrue
<1>1. TypeOK /\ IInv => RepliesTrue
  BY DEF TypeOK, Call, Idle, IInv, CallInv, ReturnInv, RepliesTrue, At
<1> QED BY <1>1, Invariance, PTL

(* A key has one post at most, also when it is polled by several callers.    *)
OnePost == \A k \in Keys : posts[k] <= 1
THEOREM OnePostPerKey == Spec => []OnePost
<1>1. ASSUME IInv, NEW k \in Keys PROVE posts[k] <= 1
  <2>1. posts[k] \in {0, 1}
    BY <1>1 DEF IInv, KeyInv
  <2> QED BY <2>1
<1>2. IInv => OnePost
  BY <1>1 DEF OnePost
<1> QED BY <1>2, Invariance, PTL

(* A live post stays live: nothing is requested of its key again.            *)
LiveStays == \A k \in Keys : platform[k] = "live" => platform'[k] = "live"
LEMMA LiveStaysStep == TypeOK /\ IInv /\ [Next]_vars => LiveStays
<1> SUFFICES ASSUME TypeOK, IInv, [Next]_vars PROVE LiveStays
  OBVIOUS
<1>1. ASSUME NEW c \in Callers, NEW reply \in Reply, NEW made \in BOOLEAN,
             Request(c, made, reply)
      PROVE  LiveStays
  <2>1. At(c, "request") /\ call[c].key \in Keys
    BY <1>1 DEF Request, Planned, Classified, Made, At, TypeOK, Call, Idle
  <2>2. platform[call[c].key] = "absent"
    BY <2>1 DEF At, IInv, KeyInv, CallInv, RequestInv
  <2> QED BY <1>1, <2>1, <2>2 DEF Request, Planned, Classified, Made, LiveStays, TypeOK, platformVars
<1>2. ASSUME NEW k \in Keys, PlatformProcesses(k) PROVE LiveStays
  BY <1>2 DEF PlatformProcesses, LiveStays, TypeOK
<1>3. ASSUME UNCHANGED platform PROVE LiveStays
  BY <1>3 DEF LiveStays
<1>4. ASSUME NEW c \in Callers, Moves(c) PROVE LiveStays
  BY <1>1, <1>3, <1>4
     DEF Moves, Duplicate, Refuse, Claim, FinalizeWithoutPoll, Finalize, Search, Raise, SavePoll,
         RaisePoll, Collect, Crash, Poll, Answer, platformVars
<1> QED
  BY <1>2, <1>3, <1>4, NextMoves DEF DeadlinePasses, platformVars, vars
THEOREM LivePostStays == Spec => [][LiveStays]_vars
BY LiveStaysStep, Invariance, PTL DEF Spec

(* A recorded verdict is overwritten by nothing but the answer to a poll that *)
(* was under way when it was recorded: no poll begins of a key that has one, *)
(* and the poll ends with what it saves.                                     *)
VerdictStep(k) ==
  record[k] \in Settled =>
    /\ PollsOf(k)' \subseteq PollsOf(k)
    /\ \/ record'[k] = record[k]
       \/ \E c \in PollsOf(k) \ PollsOf(k)' : record'[k] = call[c].reply
OnlyPollsOverwrite == \A k \in Keys : VerdictStep(k)

LEMMA OverwriteStep == TypeOK /\ IInv /\ [Next]_vars => OnlyPollsOverwrite
<1> SUFFICES ASSUME TypeOK, IInv, [Next]_vars, NEW k \in Keys, record[k] \in Settled
             PROVE  /\ PollsOf(k)' \subseteq PollsOf(k)
                    /\ \/ record'[k] = record[k]
                       \/ \E c \in PollsOf(k) \ PollsOf(k)' : record'[k] = call[c].reply
  BY DEF OnlyPollsOverwrite, VerdictStep
<1> DEFINE Kept == PollsOf(k)' \subseteq PollsOf(k)
           Same == record'[k] = record[k]
<1>1. ASSUME NEW c \in Callers, call'[c].step \notin {"poll", "polled"},
             \A d \in Callers \ {c} : call'[d] = call[d]
      PROVE  Kept
  BY <1>1 DEF PollsOf
<1>2. ASSUME NEW c \in Callers, NEW j \in Keys,
             Duplicate(c, j) \/ Refuse(c, j) \/ Claim(c, j)
               \/ \E force \in BOOLEAN : FinalizeWithoutPoll(c, j, force)
      PROVE  Kept /\ Same
  <2>1. Kept
    BY <1>1, <1>2 DEF Duplicate, Refuse, Claim, FinalizeWithoutPoll, Goes, Waits, Returns, TypeOK
  <2>2. Same
    BY <1>2 DEF Duplicate, Refuse, Claim, FinalizeWithoutPoll, Unclaimed, TypeOK, Settled, gatewayVars
  <2> QED BY <2>1, <2>2
<1>3. ASSUME NEW c \in Callers, NEW j \in Keys, NEW force \in BOOLEAN, Finalize(c, j, force)
      PROVE  Kept /\ Same
  <2>1. j # k
    BY <1>3 DEF Finalize, Polled, Settled
  <2> QED BY <1>3, <2>1 DEF Finalize, Waits, Goes, PollsOf, TypeOK, gatewayVars
<1>4. ASSUME NEW c \in Callers, NEW identified \in BOOLEAN, Search(c) \/ Answer(c, identified)
      PROVE  Kept /\ Same
  <2>1. Requesting(c) /\ call[c].key \in Keys
    BY <1>4 DEF Search, Answer, At, Requesting, TypeOK, Call, Idle
  <2>2. record[call[c].key] = "queued"
    BY <2>1 DEF IInv, CallInv, ClaimInv
  <2>3. Kept
    BY <1>1, <1>4 DEF Search, Answer, Goes, Waits, Returns, TypeOK
  <2> QED BY <1>4, <2>1, <2>2, <2>3 DEF Search, Answer, TypeOK, Settled, gatewayVars
<1>5. ASSUME NEW c \in Callers, (\E reply \in Reply, made \in BOOLEAN : Request(c, made, reply))
                                  \/ Raise(c) \/ RaisePoll(c) \/ Collect(c) \/ Crash(c)
      PROVE  Kept /\ Same
  <2>1. Kept
    BY <1>1, <1>5 DEF Request, Planned, Classified, Made, Raise, RaisePoll, Collect, Crash, Goes,
                      Waits, Returns, TypeOK, Idle
  <2> QED BY <1>5, <2>1 DEF Request, Planned, Classified, Made, Raise, RaisePoll, Collect, Crash, gatewayVars
<1>6. ASSUME NEW c \in Callers, NEW reply \in Reply, Poll(c, reply)
      PROVE  Kept /\ Same
  BY <1>6 DEF Poll, At, Goes, PollsOf, TypeOK, gatewayVars
<1>7. ASSUME NEW c \in Callers, SavePoll(c)
      PROVE  Kept /\ (Same \/ \E d \in PollsOf(k) \ PollsOf(k)' : record'[k] = call[d].reply)
  <2>1. call'[c].step = "returned" /\ \A d \in Callers \ {c} : call'[d] = call[d]
    BY <1>7 DEF SavePoll, Returns, Goes, TypeOK
  <2>2. Kept
    BY <1>1, <2>1
  <2>3. CASE call[c].key = k
    <3>1. c \in PollsOf(k) \ PollsOf(k)' /\ record'[k] = call[c].reply
      BY <1>7, <2>1, <2>3 DEF SavePoll, At, PollsOf, TypeOK
    <3> QED BY <2>2, <3>1
  <2>4. CASE call[c].key # k
    BY <1>7, <2>2, <2>4 DEF SavePoll, TypeOK
  <2> QED BY <2>3, <2>4
<1>8. ASSUME NEW c \in Callers, Moves(c)
      PROVE  Kept /\ (Same \/ \E d \in PollsOf(k) \ PollsOf(k)' : record'[k] = call[d].reply)
  BY <1>2, <1>3, <1>4, <1>5, <1>6, <1>7, <1>8 DEF Moves
<1>9. CASE UNCHANGED <<call, record>>
  BY <1>9 DEF PollsOf
<1> QED
  BY <1>8, <1>9, NextMoves DEF DeadlinePasses, PlatformProcesses, gatewayVars, vars
THEOREM VerdictsOverwritten == Spec => [][OnlyPollsOverwrite]_vars
BY OverwriteStep, Invariance, PTL DEF Spec

-----------------------------------------------------------------------------
(* The refinement.  A poll begins only of a key without a verdict, and a      *)
(* record past its claim is written by SavePoll alone, which ends a poll.    *)

LEMMA RefinesInit == Init => Promise!Init
BY GatewayAssumption DEF GatewayAssumption, Init, Idle, PollsOf, Settled, Promise!Init

(* Request is the abstract Create, or a stutter when no post was made;       *)
(* Refuse and Answer settle the key or leave it open; Finalize asks, and     *)
(* SavePoll hears.                                                           *)
LEMMA RefinesStep ==
  ASSUME TypeOK, IInv, [Next]_vars
  PROVE  [Promise!Next]_Promise!vars
<1> DEFINE verdictOf == [k \in Keys |-> IF record[k] \in Settled THEN record[k] ELSE "open"]
           askingOf == [k \in Keys |-> PollsOf(k)]
           Settles(k, v) == record' = [record EXCEPT ![k] = v] /\ UNCHANGED posts
           SamePolls == \A k \in Keys : PollsOf(k)' = PollsOf(k)
<1>a. /\ \A k \in Keys : KeyInv(k)
      /\ \A c \in Callers, k \in Keys : CallInv(c, k)
  BY DEF IInv
<1>b. ASSUME NEW c \in Callers, \A d \in Callers \ {c} : call'[d] = call[d],
             call[c].step \notin {"poll", "polled"}, call'[c].step \notin {"poll", "polled"}
      PROVE  SamePolls
  BY <1>b DEF PollsOf
<1>c. SamePolls => askingOf' = askingOf
  OBVIOUS
<1>1. ASSUME UNCHANGED <<record, posts>>, SamePolls PROVE UNCHANGED Promise!vars
  BY <1>1, <1>c DEF Promise!vars
<1>2. ASSUME NEW k \in Keys, NEW v \in RecordStatus, record[k] \notin Settled, Settles(k, v),
             v = "published" => platform[k] = "live", SamePolls
      PROVE  [Promise!Next]_Promise!vars
  <2>1. CASE v \in Settled
    <3>1. verdictOf' = [verdictOf EXCEPT ![k] = v] /\ verdictOf[k] = "open"
      BY <1>2, <2>1 DEF TypeOK, Settled
    <3>2. v = "published" => posts[k] = 1
      BY <1>a, <1>2 DEF KeyInv
    <3>3. Promise!Settle(k, v)
      BY <1>c, <1>2, <3>1, <3>2 DEF Promise!Settle
    <3> QED BY <2>1, <3>3 DEF Promise!Next, Promise!Verdict, Settled
  <2>2. CASE v \notin Settled
    <3>1. verdictOf' = verdictOf
      BY <1>2, <2>2 DEF TypeOK, Settled
    <3> QED BY <1>c, <1>2, <3>1 DEF Promise!vars
  <2> QED BY <2>1, <2>2
<1>3. ASSUME NEW c \in Callers, NEW k \in Keys, NEW v \in RecordStatus, c \in PollsOf(k),
             call' = [call EXCEPT ![c] = call'[c]], call'[c].step \notin {"poll", "polled"},
             \/ Settles(k, v) /\ (v = "published" => platform[k] = "live")
             \/ UNCHANGED <<record, posts>>
      PROVE  [Promise!Next]_Promise!vars
  <2>1. \A d \in Callers \ {c} : call'[d] = call[d]
    BY <1>3 DEF TypeOK
  <2>2. PollsOf(k)' = PollsOf(k) \ {c} /\ \A j \in Keys \ {k} : PollsOf(j)' = PollsOf(j)
    BY <1>3, <2>1 DEF PollsOf
  <2>3. askingOf' = [askingOf EXCEPT ![k] = @ \ {c}] /\ c \in askingOf[k]
    BY <1>3, <2>2
  <2>4. CASE UNCHANGED <<record, posts>>
    <3>1. Promise!GiveUp(k, c)
      BY <2>3, <2>4 DEF Promise!GiveUp
    <3> QED BY <3>1 DEF Promise!Next
  <2>5. CASE Settles(k, v) /\ (v = "published" => platform[k] = "live")
    <3> DEFINE w == IF v \in Settled THEN v ELSE "open"
    <3>1. verdictOf' = [verdictOf EXCEPT ![k] = w]
      BY <2>5 DEF TypeOK
    <3>2. w = "published" => posts[k] = 1
      BY <1>a, <2>5 DEF KeyInv
    <3>3. Promise!Hear(k, c, w)
      BY <2>3, <2>5, <3>1, <3>2 DEF Promise!Hear
    <3>4. w \in Promise!Verdict \cup {"open"}
      BY DEF Promise!Verdict, Settled
    <3> QED BY <3>3, <3>4 DEF Promise!Next
  <2> QED BY <1>3, <2>4, <2>5
<1>4. ASSUME NEW c \in Callers, Moves(c) PROVE [Promise!Next]_Promise!vars
  <2> USE DEF Goes, Waits, Returns
  <2>1. ASSUME NEW k \in Keys, Refuse(c, k) \/ Claim(c, k) \/ Duplicate(c, k)
                                 \/ \E force \in BOOLEAN : FinalizeWithoutPoll(c, k, force)
        PROVE [Promise!Next]_Promise!vars
    <3>1. SamePolls
      BY <1>b, <2>1 DEF Refuse, Claim, Duplicate, FinalizeWithoutPoll, At, TypeOK
    <3>2. CASE Refuse(c, k)
      BY <1>2, <3>1, <3>2 DEF Refuse, Unclaimed, platformVars, RecordStatus, Settled
    <3>3. CASE Claim(c, k)
      BY <1>2, <3>1, <3>3 DEF Claim, Unclaimed, platformVars, RecordStatus, Settled
    <3>4. CASE Duplicate(c, k) \/ \E force \in BOOLEAN : FinalizeWithoutPoll(c, k, force)
      <4>1. UNCHANGED <<record, posts>>
        BY <3>4 DEF Duplicate, FinalizeWithoutPoll, gatewayVars, platformVars
      <4> QED BY <1>1, <3>1, <4>1
    <3> QED BY <2>1, <3>2, <3>3, <3>4
  <2>2. ASSUME NEW k \in Keys, NEW force \in BOOLEAN, Finalize(c, k, force)
        PROVE  [Promise!Next]_Promise!vars
    <3>1. record[k] = "pending_finalize" /\ At(c, "idle")
      BY <2>2 DEF Finalize, Polled
    <3>2. PollsOf(k)' = PollsOf(k) \cup {c} /\ \A j \in Keys \ {k} : PollsOf(j)' = PollsOf(j)
      BY <2>2, <3>1 DEF Finalize, PollsOf, TypeOK, At
    <3>3. askingOf' = [askingOf EXCEPT ![k] = @ \cup {c}]
      BY <3>2
    <3>4. verdictOf' = verdictOf /\ verdictOf[k] = "open"
      BY <2>2, <3>1 DEF Finalize, gatewayVars, Settled
    <3>5. Promise!Ask(k, c)
      BY <2>2, <3>3, <3>4 DEF Promise!Ask, Finalize, platformVars
    <3> QED BY <3>5 DEF Promise!Next
  <2>3. CASE Search(c)
    <3>1. At(c, "search") /\ call[c].key \in Keys
      BY <2>3 DEF Search, At, TypeOK, Call, Idle
    <3>2. record[call[c].key] = "queued"
      BY <1>a, <3>1 DEF At, CallInv, ClaimInv, Requesting
    <3>3. SamePolls
      BY <1>b, <2>3 DEF Search, At, TypeOK
    <3>4. CASE UNCHANGED record
      BY <1>1, <2>3, <3>3, <3>4 DEF Search, platformVars
    <3>5. CASE record' = [record EXCEPT ![call[c].key] = "pending_finalize"]
      BY <1>2, <2>3, <3>1, <3>2, <3>3, <3>5 DEF Search, platformVars, RecordStatus, Settled
    <3> QED BY <2>3, <3>4, <3>5 DEF Search
  <2>4. ASSUME NEW reply \in Reply, NEW made \in BOOLEAN, Request(c, made, reply)
        PROVE  [Promise!Next]_Promise!vars
    <3> DEFINE k == call[c].key
    <3>1. At(c, "request") /\ k \in Keys
      BY <2>4 DEF Request, Planned, Classified, Made, At, TypeOK, Call, Idle
    <3>2. record[k] = "queued" /\ k \notin Blocked \cup Malformed /\ posts[k] = 0
      BY <1>a, <3>1 DEF At, CallInv, ClaimInv, RequestInv, Requesting
    <3>3. SamePolls
      BY <1>b, <2>4 DEF Request, Planned, Classified, Made, At, TypeOK
    <3>4. CASE made
      <4>1. posts' = [posts EXCEPT ![k] = 1] /\ UNCHANGED record
        BY <2>4, <3>1, <3>2, <3>4 DEF Request, Planned, Classified, Made, gatewayVars, TypeOK
      <4>2. verdictOf' = verdictOf /\ verdictOf[k] = "open"
        BY <3>1, <3>2, <4>1 DEF Settled
      <4>3. Promise!Create(k)
        BY <1>c, <3>1, <3>2, <3>3, <4>1, <4>2 DEF Promise!Create
      <4> QED BY <3>1, <4>3 DEF Promise!Next
    <3>5. CASE ~made
      BY <1>1, <2>4, <3>3, <3>5 DEF Request, Planned, Classified, Made, gatewayVars, platformVars
    <3> QED BY <3>4, <3>5
  <2>5. ASSUME NEW identified \in BOOLEAN, Answer(c, identified)
        PROVE  [Promise!Next]_Promise!vars
    <3> DEFINE k == call[c].key
    <3>1. At(c, "answered") /\ k \in Keys /\ call[c].reply \in RecordStatus
      BY <2>5 DEF Answer, At, TypeOK, Call, Idle, Reply, RecordStatus
    <3>2. record[k] = "queued" /\ (call[c].reply = "published" => platform[k] = "live")
      BY <1>a, <3>1 DEF At, CallInv, ClaimInv, AnswerInv, Requesting
    <3>3. Settles(k, call[c].reply)
      BY <2>5 DEF Answer, platformVars
    <3>4. SamePolls
      BY <1>b, <2>5 DEF Answer, At, TypeOK
    <3> QED BY <1>2, <3>1, <3>2, <3>3, <3>4 DEF Settled
  <2>6. CASE SavePoll(c)
    <3> DEFINE k == call[c].key
    <3>1. At(c, "polled") /\ k \in Keys /\ call[c].reply \in RecordStatus /\ c \in PollsOf(k)
      BY <2>6 DEF SavePoll, At, TypeOK, Call, Idle, Reply, RecordStatus, PollsOf
    <3>2. call[c].reply = "published" => platform[k] = "live"
      BY <1>a, <3>1 DEF At, CallInv, PollInv
    <3>3. Settles(k, call[c].reply)
      BY <2>6 DEF SavePoll, platformVars
    <3>4. call' = [call EXCEPT ![c] = call'[c]] /\ call'[c].step = "returned"
      BY <2>6 DEF SavePoll, TypeOK
    <3> QED BY <1>3, <3>1, <3>2, <3>3, <3>4
  <2>7. CASE Raise(c) \/ Collect(c)
    <3>1. UNCHANGED <<record, posts>> /\ SamePolls
      BY <1>b, <2>7 DEF Raise, Collect, At, Idle, TypeOK, gatewayVars, platformVars
    <3> QED BY <1>1, <3>1
  <2>8. CASE RaisePoll(c) \/ Crash(c)
    <3>1. /\ UNCHANGED <<record, posts>>
          /\ call' = [call EXCEPT ![c] = call'[c]] /\ call'[c].step \notin {"poll", "polled"}
      BY <2>8 DEF RaisePoll, Crash, Idle, TypeOK, gatewayVars, platformVars
    <3>2. CASE call[c].step \in {"poll", "polled"}
      <4>1. call[c].key \in Keys /\ c \in PollsOf(call[c].key)
        BY <3>2 DEF TypeOK, Call, Idle, PollsOf
      <4>2. "queued" \in RecordStatus
        BY DEF RecordStatus
      <4> QED BY <1>3, <3>1, <4>1, <4>2
    <3>3. CASE call[c].step \notin {"poll", "polled"}
      <4>1. SamePolls
        BY <1>b, <3>1, <3>3 DEF TypeOK
      <4> QED BY <1>1, <3>1, <4>1
    <3> QED BY <3>2, <3>3
  <2>9. ASSUME NEW reply \in Reply, Poll(c, reply) PROVE UNCHANGED <<record, posts>> /\ SamePolls
    BY <2>9 DEF Poll, At, PollsOf, TypeOK, gatewayVars, platformVars
  <2> QED
    BY <1>1, <1>4, <2>1, <2>2, <2>3, <2>4, <2>5, <2>6, <2>7, <2>8, <2>9 DEF Moves
<1>5. ASSUME NEW k \in Keys, DeadlinePasses(k) \/ PlatformProcesses(k)
      PROVE  UNCHANGED <<record, posts>> /\ SamePolls
  BY <1>5 DEF DeadlinePasses, PlatformProcesses, PollsOf, gatewayVars, platformVars
<1>6. CASE UNCHANGED vars
  BY <1>1, <1>6 DEF vars, gatewayVars, platformVars, PollsOf
<1> QED BY <1>1, <1>4, <1>5, <1>6, NextMoves

(* The gateway implements PublishOnce, also when a key is polled by several  *)
(* callers at once: one post, and a verdict that only the polls already      *)
(* under way can replace.                                                    *)
THEOREM GatewayPublishesOnce == Spec => PublishesOnce
BY RefinesInit, RefinesStep, Invariance, PTL DEF Spec, PublishesOnce, Promise!Spec
=============================================================================
