--------------------------- MODULE AdmissionProofs ---------------------------
(***************************************************************************)
(* What holds of Admission for every quota, cooldown, bucket and number of *)
(* threads, whose steps come in any order and whose moments may be older   *)
(* than what other threads have written since: proved with TLAPS.          *)
(***************************************************************************)
EXTENDS Admission, FiniteSetTheorems, TLAPS

LEMMA ConstantFacts ==
  /\ Horizon \in Nat /\ Cost \in Nat /\ Limit \in Nat /\ Cooldown \in Nat
  /\ DayLength \in Nat \ {0} /\ Capacity \in Nat \ {0} /\ RefillEvery \in Nat \ {0}
  /\ Full \in Nat /\ DueTimes \subseteq Time
BY AdmissionAssumption DEF AdmissionAssumption, Full, Time

(* A moment falls into a window of its own.                                  *)
LEMMA DayOfTime == ASSUME NEW t \in Time PROVE Day(t) \in Days
<1> DEFINE L == DayLength
<1>1. t \in Nat /\ Horizon \in Nat /\ t <= Horizon /\ L \in Nat /\ L > 0
  BY ConstantFacts DEF Time
<1>2. /\ Day(t) \in Int /\ L * Day(t) <= t /\ t < L * Day(t) + L
      /\ Day(0) \in Int /\ L * Day(0) <= 0 /\ 0 < L * Day(0) + L
      /\ Day(Horizon) \in Int /\ L * Day(Horizon) <= Horizon /\ Horizon < L * Day(Horizon) + L
  BY <1>1, SMTT(60) DEF Day
<1>3. Day(0) <= Day(t) /\ Day(t) <= Day(Horizon)
  <2> HIDE DEF L
  <2>1. \A a, b \in Int : L * a < L * b + L => a <= b
    BY <1>1, SMTT(60)
  <2> QED BY <1>1, <1>2, <2>1
<1> QED BY <1>2, <1>3 DEF Days

-----------------------------------------------------------------------------
(* Types. *)

PostRow == [state : {"planned", "queued", "uploaded"}, due : Time,
            uploaded : Time \cup {Never}, forced : BOOLEAN]
Free == {"idle", "bucket", "peek"}

(* What a step of thread c leaves of the requests, when it makes its row r.   *)
LEMMA RowStep ==
  ASSUME TypeOK, NEW c \in Callers, NEW r \in Request, request' = [request EXCEPT ![c] = r],
         r.at \notin Free => r.post \in Posts
  PROVE  /\ request' \in [Callers -> Request] /\ request'[c] = r
         /\ \A e \in Callers \ {c} : request'[e] = request[e]
         /\ \A e \in Callers : request'[e].at \notin Free => request'[e].post \in Posts
BY DEF TypeOK, Free

LEMMA RowFacts ==
  ASSUME TypeOK, NEW c \in Callers
  PROVE  /\ request[c] \in Request /\ request[c].moment \in Time /\ request[c].moment \in Nat
         /\ request[c].used \in Nat /\ request[c].tokens \in 0..Full /\ request[c].found \in Nat
         /\ request[c].tokens \in Nat /\ request[c].tokens <= Full
         /\ request[c].stamp \in Time \cup {Never} /\ Window(c) \in Days
         /\ request[c].at \notin Free => request[c].post \in Posts
<1>1. request[c] \in Request /\ (request[c].at \notin Free => request[c].post \in Posts)
  BY DEF TypeOK, Free
<1>2. request[c].moment \in Time
  BY <1>1 DEF Request
<1> QED BY <1>1, <1>2, DayOfTime, ConstantFacts DEF Request, Window, Time

LEMMA IdleFacts ==
  /\ Idle \in Request /\ Idle.at = "idle" /\ Idle.found = 0 /\ Idle.post = NoPost
  /\ Idle.stamp = Never
<1>1. 0 \in Time /\ 0 \in 0..Full
  BY ConstantFacts DEF Time
<1> QED BY <1>1 DEF Idle, Request

(* A request goes on to its next step, or is over.                           *)
LEMMA BecomesFacts ==
  ASSUME TypeOK, NEW c \in Callers, request[c].at \notin Free,
         NEW step \in {"debit", "cooldown", "mark", "claim"}, Becomes(c, step)
  PROVE  /\ request' \in [Callers -> Request]
         /\ request'[c].at = step /\ request'[c].moment = request[c].moment
         /\ request'[c].found = request[c].found /\ request'[c].post = request[c].post
         /\ \A e \in Callers \ {c} : request'[e] = request[e]
         /\ \A e \in Callers : request'[e].at \notin Free => request'[e].post \in Posts
<1> DEFINE r == [request[c] EXCEPT !.at = step, !.used = 0, !.tokens = 0, !.stamp = Never]
<1>1. request[c] \in Request /\ request[c].post \in Posts /\ 0 \in 0..Full
  BY RowFacts, ConstantFacts
<1>2. /\ r \in Request /\ r.at = step /\ r.moment = request[c].moment /\ r.found = request[c].found
      /\ r.post = request[c].post
  BY <1>1 DEF Request
<1>3. request' = [request EXCEPT ![c] = r]
  BY <1>1 DEF Becomes, TypeOK, Request
<1> HIDE DEF r
<1> QED BY <1>1, <1>2, <1>3, RowStep

LEMMA LeavesFacts ==
  ASSUME TypeOK, NEW c \in Callers, Leaves(c)
  PROVE  /\ request' \in [Callers -> Request]
         /\ request'[c] = Idle
         /\ \A e \in Callers \ {c} : request'[e] = request[e]
         /\ \A e \in Callers : request'[e].at \notin Free => request'[e].post \in Posts
BY RowStep, IdleFacts DEF Leaves, Free

LEMMA ArriveFacts ==
  ASSUME TypeOK, NEW c \in Callers, NEW p \in Posts, NEW immediate \in BOOLEAN,
         NEW forced \in BOOLEAN, Arrive(c, p, immediate, forced)
  PROVE  /\ request' \in [Callers -> Request]
         /\ request'[c].at \in {"precheck", "claim"} /\ request'[c].found = 0
         /\ \A e \in Callers \ {c} : request'[e] = request[e]
         /\ \A e \in Callers : request'[e].at \notin Free => request'[e].post \in Posts
         /\ UNCHANGED <<now, ledgerVars, bucketVars, cooldownVars, post>>
<1> DEFINE r == [Idle EXCEPT !.at = IF forced THEN "claim" ELSE "precheck", !.post = p,
                             !.moment = now, !.immediate = immediate, !.forced = forced]
<1>1. now \in Time /\ Idle \in Request
  BY IdleFacts DEF TypeOK
<1>2. r \in Request /\ r.at \in {"precheck", "claim"} /\ r.found = 0 /\ r.post = p
  BY <1>1, IdleFacts DEF Request
<1>3. request' = [request EXCEPT ![c] = r]
  BY DEF Arrive
<1> HIDE DEF r
<1> QED BY <1>2, <1>3, RowStep DEF Arrive

LEMMA PrecheckFacts ==
  ASSUME TypeOK, NEW c \in Callers, Precheck(c)
  PROVE  /\ request' \in [Callers -> Request]
         /\ \/ /\ request'[c].at = "debit" /\ request'[c].moment = request[c].moment
               /\ request'[c].found = request[c].found /\ Affordable(Window(c))
            \/ request'[c] = Idle
         /\ \A e \in Callers \ {c} : request'[e] = request[e]
         /\ \A e \in Callers : request'[e].at \notin Free => request'[e].post \in Posts
         /\ UNCHANGED <<now, ledgerVars, bucketVars, cooldownVars, post>>
<1>1. request[c].at \notin Free
  BY DEF Precheck, Free
<1>2. CASE Affordable(Window(c)) /\ Becomes(c, "debit")
  BY <1>1, <1>2, BecomesFacts DEF Precheck
<1>3. CASE Leaves(c)
  BY <1>3, LeavesFacts DEF Precheck
<1> QED BY <1>2, <1>3 DEF Precheck

LEMMA ReadDebitFacts ==
  ASSUME TypeOK, NEW c \in Callers, ReadDebit(c)
  PROVE  /\ request' \in [Callers -> Request]
         /\ request[c].at = "debit" /\ request'[c].at = "write"
         /\ request'[c].moment = request[c].moment
         /\ request'[c].found = request[c].found /\ request'[c].used = used[Window(c)]
         /\ \A e \in Callers \ {c} : request'[e] = request[e]
         /\ \A e \in Callers : request'[e].at \notin Free => request'[e].post \in Posts
         /\ UNCHANGED <<now, ledgerVars, bucketVars, cooldownVars, post>>
<1> DEFINE r == [request[c] EXCEPT !.at = "write", !.used = used[Window(c)]]
<1>1. /\ request[c] \in Request /\ request[c].post \in Posts /\ request[c].at = "debit"
      /\ used[Window(c)] \in Nat
  BY RowFacts DEF ReadDebit, TypeOK, Free
<1>2. /\ r \in Request /\ r.at = "write" /\ r.moment = request[c].moment
      /\ r.found = request[c].found /\ r.used = used[Window(c)] /\ r.post = request[c].post
  BY <1>1 DEF Request
<1>3. request' = [request EXCEPT ![c] = r]
  BY <1>1 DEF ReadDebit, TypeOK, Request
<1> HIDE DEF r
<1> QED BY <1>1, <1>2, <1>3, RowStep DEF ReadDebit

LEMMA CoolFacts ==
  ASSUME TypeOK, NEW c \in Callers, Cool(c)
  PROVE  /\ request' \in [Callers -> Request] /\ request[c].at = "cooldown"
         /\ \/ /\ request'[c].at = "bucket" /\ request'[c].moment = request[c].moment
               /\ request'[c].post = request[c].post /\ request[c].post # NoPost
               /\ request'[c].found = Len(marks) /\ Rested(request[c].moment)
            \/ request'[c] = Idle
         /\ \A e \in Callers \ {c} : request'[e] = request[e]
         /\ \A e \in Callers : request'[e].at \notin Free => request'[e].post \in Posts
         /\ UNCHANGED <<now, ledgerVars, bucketVars, cooldownVars, post>>
<1>1. CASE Leaves(c)
  BY <1>1, LeavesFacts DEF Cool
<1>2. CASE /\ Rested(request[c].moment)
           /\ request' = [request EXCEPT ![c].at = "bucket", ![c].found = Len(marks)]
  <2> DEFINE r == [request[c] EXCEPT !.at = "bucket", !.found = Len(marks)]
  <2>0. Len(marks) \in Nat
    BY DEF TypeOK
  <2>1. /\ request[c] \in Request /\ request[c].post \in Posts /\ Len(marks) \in Nat
        /\ NoPost \notin Posts
    BY <2>0, RowFacts, AdmissionAssumption DEF Cool, Free, AdmissionAssumption
  <2>2. /\ r \in Request /\ r.at = "bucket" /\ r.moment = request[c].moment
        /\ r.found = Len(marks) /\ r.post = request[c].post
    BY <2>1 DEF Request
  <2>3. request' = [request EXCEPT ![c] = r]
    BY <1>2, <2>1 DEF TypeOK, Request
  <2> HIDE DEF r
  <2> QED BY <1>2, <2>1, <2>2, <2>3, RowStep DEF Cool
<1> QED BY <1>1, <1>2 DEF Cool

LEMMA LookFacts ==
  ASSUME TypeOK, NEW c \in Callers, Look(c)
  PROVE  /\ request' \in [Callers -> Request] /\ request[c].at = "bucket"
         /\ request'[c].at = IF request[c].post = NoPost THEN "peek" ELSE "take"
         /\ request'[c].moment = request[c].moment /\ request'[c].post = request[c].post
         /\ request'[c].found = request[c].found
         /\ request'[c].tokens = tokens /\ request'[c].stamp = stamp
         /\ \A e \in Callers \ {c} : request'[e] = request[e]
         /\ \A e \in Callers : request'[e].at \notin Free => request'[e].post \in Posts
         /\ UNCHANGED <<now, ledgerVars, bucketVars, cooldownVars, post>>
<1> DEFINE step == IF request[c].post = NoPost THEN "peek" ELSE "take"
           r == [request[c] EXCEPT !.at = step, !.tokens = tokens, !.stamp = stamp]
<1>1. /\ request[c] \in Request /\ request[c].post \in Posts \cup {NoPost}
      /\ tokens \in 0..Full /\ stamp \in Time \cup {Never}
  BY RowFacts DEF TypeOK, Request
<1>2. /\ r \in Request /\ r.at = step /\ r.moment = request[c].moment
      /\ r.found = request[c].found /\ r.post = request[c].post
      /\ r.tokens = tokens /\ r.stamp = stamp
  BY <1>1 DEF Request
<1>3. request' = [request EXCEPT ![c] = r]
  BY <1>1 DEF Look, TypeOK, Request
<1>4. r.at \notin Free => r.post \in Posts
  BY <1>1, <1>2 DEF Free
<1> HIDE DEF r
<1> QED BY <1>2, <1>3, <1>4, RowStep DEF Look

LEMMA SnapshotFacts ==
  ASSUME TypeOK, NEW c \in Callers, Snapshot(c)
  PROVE  /\ request' \in [Callers -> Request]
         /\ request'[c].at = "bucket" /\ request'[c].found = 0 /\ request'[c].post = NoPost
         /\ \A e \in Callers \ {c} : request'[e] = request[e]
         /\ \A e \in Callers : request'[e].at \notin Free => request'[e].post \in Posts
         /\ UNCHANGED <<now, ledgerVars, bucketVars, cooldownVars, post>>
<1> DEFINE r == [Idle EXCEPT !.at = "bucket", !.moment = now]
<1>1. now \in Time /\ Idle \in Request /\ request[c] = Idle
  BY IdleFacts DEF TypeOK, Snapshot
<1>2. r \in Request /\ r.at = "bucket" /\ r.found = 0 /\ r.post = NoPost
  BY <1>1, IdleFacts DEF Request
<1>3. request' = [request EXCEPT ![c] = r]
  BY <1>1 DEF Snapshot, TypeOK, Request
<1>4. r.at \notin Free => r.post \in Posts
  BY <1>2 DEF Free
<1> HIDE DEF r
<1> QED BY <1>2, <1>3, <1>4, RowStep DEF Snapshot

(* The bucket stays within its capacity.                                     *)
LEMMA RefilledFacts ==
  ASSUME NEW held \in 0..Full, NEW since \in Time \cup {Never}, NEW t \in Time
  PROVE  /\ Refilled(held, since, t) \in Nat /\ Refilled(held, since, t) <= Full
         /\ since # Never /\ since <= t => Refilled(held, since, t) <= held + (t - since)
         /\ since # Never /\ t < since => Refilled(held, since, t) = held
         /\ since = Never => Refilled(held, since, t) = held
<1>1. held \in Nat /\ held <= Full /\ Full \in Nat /\ t \in Nat /\ (since = Never \/ since \in Nat)
  BY ConstantFacts DEF Time
<1> QED BY <1>1 DEF Refilled, Least, Never

LEMMA PourFacts ==
  ASSUME TypeOK, NEW c \in Callers
  PROVE  /\ Poured(c) \in Nat /\ Poured(c) <= Full
         /\ Rewound(c) \in Nat /\ Rewound(c) >= slack /\ slack \in Nat
         /\ Rewound(c) >= slack + (stamp - request[c].moment)
         /\ stamp \in Int /\ request[c].moment \in Nat
<1>1. request[c].moment \in Nat /\ slack \in Nat /\ (stamp = Never \/ stamp \in Nat)
  BY RowFacts, ConstantFacts DEF TypeOK, Time
<1>2. Poured(c) \in Nat /\ Poured(c) <= Full
  BY RowFacts, RefilledFacts DEF Poured
<1> QED BY <1>1, <1>2 DEF Rewound, Never

(* A thread takes a token, or is refused.                                    *)
LEMMA TakeFacts ==
  ASSUME TypeOK, NEW c \in Callers, Take(c)
  PROVE  /\ request' \in [Callers -> Request] /\ request[c].at = "take"
         /\ request[c].post \in Posts
         /\ \/ /\ request'[c].at = "mark" /\ request'[c].moment = request[c].moment
               /\ request'[c].found = request[c].found /\ request'[c].post = request[c].post
               /\ Poured(c) >= RefillEvery /\ tokens' = Poured(c) - RefillEvery
               /\ slack' = Rewound(c) + IF Looking = {c} THEN 0 ELSE RefillEvery
               /\ taken' = Append(taken, [moment |-> request[c].moment, slack |-> Rewound(c)])
            \/ /\ request'[c] = Idle /\ tokens' = Poured(c)
               /\ slack' = Rewound(c) /\ taken' = taken
         /\ stamp' = request[c].moment
         /\ \A e \in Callers \ {c} : request'[e] = request[e]
         /\ \A e \in Callers : request'[e].at \notin Free => request'[e].post \in Posts
         /\ UNCHANGED <<now, ledgerVars, cooldownVars, post>>
<1>1. request[c].at = "take" /\ "take" \notin Free /\ request[c].post \in Posts
  BY RowFacts DEF Take, Free
<1>2. Poured(c) - 0 = Poured(c)
  BY PourFacts
<1>3. CASE Poured(c) >= RefillEvery
  BY <1>1, <1>3, BecomesFacts DEF Take, Pours, Stamped
<1>4. CASE ~(Poured(c) >= RefillEvery)
  BY <1>1, <1>2, <1>4, LeavesFacts DEF Take, Pours, Stamped
<1> QED BY <1>3, <1>4

LEMMA PeekFacts ==
  ASSUME TypeOK, NEW c \in Callers, Peek(c)
  PROVE  /\ request' \in [Callers -> Request] /\ request[c].at = "peek"
         /\ request'[c] = Idle /\ tokens' = Poured(c) /\ slack' = Rewound(c)
         /\ stamp' = request[c].moment
         /\ \A e \in Callers \ {c} : request'[e] = request[e]
         /\ \A e \in Callers : request'[e].at \notin Free => request'[e].post \in Posts
         /\ UNCHANGED <<now, ledgerVars, taken, cooldownVars, post>>
<1>1. Poured(c) - 0 = Poured(c)
  BY PourFacts
<1> QED BY <1>1, LeavesFacts DEF Peek, Pours, Stamped

LEMMA TypeKept == TypeOK /\ [Next]_vars => TypeOK'
<1> SUFFICES ASSUME TypeOK, [Next]_vars PROVE TypeOK'
  OBVIOUS
<1> DEFINE Requests == /\ request' \in [Callers -> Request]
                       /\ \A c \in Callers : request'[c].at \notin Free => request'[c].post \in Posts
<1> USE DEF ledgerVars, bucketVars, cooldownVars
<1>1. ASSUME Requests, UNCHANGED <<now, ledgerVars, bucketVars, cooldownVars, post>> PROVE TypeOK'
  BY <1>1 DEF TypeOK, Free
<1>2. ASSUME NEW c \in Callers, Debit(c) PROVE TypeOK'
  <2>1. Requests
    BY <1>2, BecomesFacts DEF Debit, Free
  <2> DEFINE d == Window(c)
  <2>2. d \in Days /\ request[c].used \in Nat /\ Cost \in Nat
    BY RowFacts, ConstantFacts
  <2>3. /\ used' = [used EXCEPT ![d] = request[c].used + Cost]
        /\ paid' = [paid EXCEPT ![d] = @ + Cost]
        /\ intruded' = [intruded EXCEPT ![d] = @ + IF Reserving(d) = {c} THEN 0 ELSE Cost]
    BY <1>2 DEF Debit
  <2> HIDE DEF d
  <2>4. used' \in [Days -> Nat] /\ paid' \in [Days -> Nat]
    BY <2>2, <2>3 DEF TypeOK
  <2>5. intruded' \in [Days -> Nat]
    BY <2>2, <2>3 DEF TypeOK
  <2> QED BY <1>2, <2>1, <2>4, <2>5 DEF Debit, TypeOK, Free
<1>3. ASSUME NEW c \in Callers, Take(c) PROVE TypeOK'
  <2> DEFINE token == [moment |-> request[c].moment, slack |-> Rewound(c)]
  <2>1. /\ Requests /\ UNCHANGED <<now, ledgerVars, cooldownVars, post>>
        /\ stamp' = request[c].moment
        /\ tokens' \in {Poured(c) - RefillEvery, Poured(c)}
        /\ tokens' = Poured(c) - RefillEvery => Poured(c) >= RefillEvery
        /\ slack' \in {Rewound(c), Rewound(c) + 0, Rewound(c) + RefillEvery}
        /\ taken' = Append(taken, token) \/ taken' = taken
    BY <1>3, TakeFacts, PourFacts, ConstantFacts
  <2>2. Poured(c) \in Nat /\ Poured(c) <= Full /\ Rewound(c) \in Nat /\ request[c].moment \in Time
    BY PourFacts, RowFacts
  <2>3. tokens' \in 0..Full /\ slack' \in Nat
    BY <2>1, <2>2, ConstantFacts
  <2>4. taken' \in Seq([moment : Time, slack : Nat])
    <3>1. taken \in Seq([moment : Time, slack : Nat]) /\ token \in [moment : Time, slack : Nat]
      BY <2>2 DEF TypeOK
    <3>2. taken' = Append(taken, token) \/ taken' = taken
      BY <2>1
    <3> HIDE DEF token
    <3>3. CASE taken' = Append(taken, token)
      BY <3>1, <3>3
    <3>4. CASE taken' = taken
      BY <3>1, <3>4
    <3> QED BY <3>2, <3>3, <3>4
  <2> QED BY <2>1, <2>2, <2>3, <2>4 DEF TypeOK, Free
<1>4. ASSUME NEW c \in Callers, Peek(c) PROVE TypeOK'
  <2>1. /\ Requests /\ UNCHANGED <<now, ledgerVars, taken, cooldownVars, post>>
        /\ stamp' = request[c].moment /\ tokens' = Poured(c) /\ slack' = Rewound(c)
    BY <1>4, PeekFacts
  <2>2. Poured(c) \in Nat /\ Poured(c) <= Full /\ Rewound(c) \in Nat /\ request[c].moment \in Time
    BY PourFacts, RowFacts
  <2>3. tokens' \in 0..Full
    BY <2>1, <2>2, ConstantFacts
  <2> QED BY <2>1, <2>2, <2>3 DEF TypeOK, Free
<1>5. ASSUME NEW c \in Callers, Mark(c) PROVE TypeOK'
  <2> DEFINE t == request[c].moment
             mark == [moment |-> t, found |-> request[c].found, setback |-> setback']
  <2>1. Requests
    BY <1>5, BecomesFacts DEF Mark, Free
  <2>2. /\ marked' = t /\ marks' = Append(marks, mark)
        /\ setback' = setback + IF marked > t THEN marked - t ELSE 0
        /\ UNCHANGED <<now, ledgerVars, bucketVars, post>>
    BY <1>5 DEF Mark
  <2>3. t \in Time /\ t \in Nat /\ request[c].found \in Nat /\ setback \in Nat
        /\ (marked = Never \/ marked \in Nat)
    BY RowFacts, ConstantFacts DEF TypeOK, Time
  <2>4. setback' \in Nat
    <3> HIDE DEF t
    <3> QED BY <2>2, <2>3 DEF Never
  <2>5. marks' \in Seq([moment : Time, found : Nat, setback : Nat])
    <3>1. /\ marks \in Seq([moment : Time, found : Nat, setback : Nat])
          /\ mark \in [moment : Time, found : Nat, setback : Nat]
      BY <2>3, <2>4 DEF TypeOK
    <3> HIDE DEF mark
    <3> QED BY <2>2, <3>1
  <2> QED BY <2>1, <2>2, <2>3, <2>4, <2>5 DEF TypeOK, Free
<1>6. ASSUME NEW c \in Callers, Claim(c) PROVE TypeOK'
  <2> DEFINE r == request[c]
             row == [post[r.post] EXCEPT !.state = "queued", !.forced = r.forced,
                                         !.due = IF r.immediate THEN r.moment ELSE @]
  <2>1. r \in Request /\ r.post \in Posts /\ Leaves(c)
    BY <1>6, RowFacts DEF Claim, Free
  <2>2. Requests
    BY <2>1, LeavesFacts
  <2>3. post \in [Posts -> PostRow] /\ r.post \in Posts /\ r.forced \in BOOLEAN
        /\ r.moment \in Time /\ r.immediate \in BOOLEAN
    BY <2>1 DEF TypeOK, PostRow, Request
  <2>4. row \in PostRow
    BY <2>3 DEF PostRow
  <2>5. post' = [post EXCEPT ![r.post] = row] \/ post' = post
    BY <1>6, <2>3 DEF Claim
  <2>6. post' \in [Posts -> PostRow]
    <3> HIDE DEF row, r
    <3> QED BY <2>3, <2>4, <2>5
  <2>7. UNCHANGED <<now, ledgerVars, bucketVars, cooldownVars>>
    BY <1>6 DEF Claim
  <2> QED BY <2>2, <2>6, <2>7 DEF TypeOK, PostRow, Free
<1>7. ASSUME NEW p \in Posts, NEW due \in DueTimes, Move(p, due) PROVE TypeOK'
  <2>1. post \in [Posts -> PostRow] /\ due \in Time
    BY ConstantFacts DEF TypeOK, PostRow
  <2>2. [post[p] EXCEPT !.due = due] \in PostRow
    BY <2>1 DEF PostRow
  <2>3. post' \in [Posts -> PostRow]
    BY <1>7, <2>1, <2>2 DEF Move
  <2> QED BY <1>7, <2>3 DEF Move, TypeOK, PostRow
<1>8. ASSUME NEW p \in Posts, Upload(p) PROVE TypeOK'
  <2>1. post \in [Posts -> PostRow] /\ now \in Time
    BY DEF TypeOK, PostRow
  <2>2. [post[p] EXCEPT !.state = "uploaded", !.uploaded = now] \in PostRow
    BY <2>1 DEF PostRow
  <2>3. post' \in [Posts -> PostRow]
    BY <1>8, <2>1, <2>2 DEF Upload
  <2> QED BY <1>8, <2>3 DEF Upload, TypeOK, PostRow
<1>9. CASE Tick
  BY <1>9, ConstantFacts DEF Tick, TypeOK, Time
<1>10. CASE UNCHANGED vars
  BY <1>10 DEF vars, TypeOK
<1>11. ASSUME NEW c \in Callers, NEW p \in Posts, NEW immediate \in BOOLEAN,
              NEW forced \in BOOLEAN, Arrive(c, p, immediate, forced)
       PROVE  TypeOK'
  BY <1>1, <1>11, ArriveFacts
<1>12. ASSUME NEW c \in Callers,
              Precheck(c) \/ ReadDebit(c) \/ Cool(c) \/ Look(c) \/ Snapshot(c)
       PROVE  TypeOK'
  BY <1>1, <1>12, PrecheckFacts, ReadDebitFacts, CoolFacts, LookFacts, SnapshotFacts
<1> QED BY <1>2, <1>3, <1>4, <1>5, <1>6, <1>7, <1>8, <1>9, <1>10, <1>11, <1>12 DEF Next

LEMMA InitType == Init => TypeOK
<1> SUFFICES ASSUME Init PROVE TypeOK
  OBVIOUS
<1>1. post \in [Posts -> PostRow]
  BY ConstantFacts DEF Init, PostRow
<1>2. 0 \in Time /\ Full \in 0..Full
  BY ConstantFacts DEF Time
<1>3. request \in [Callers -> Request] /\ \A c \in Callers : request[c].at = "idle"
  BY IdleFacts DEF Init
<1> QED BY <1>1, <1>2, <1>3 DEF Init, TypeOK, PostRow

(* Every variable keeps its type: the bucket never overflows, whatever threads *)
(* write over one another.                                                   *)
THEOREM TypeCorrect == Spec => []TypeOK
BY InitType, TypeKept, PTL DEF Spec

-----------------------------------------------------------------------------
(* The ledger.  What the debits of a window come to is what the ledger shows  *)
(* of them, or a thread about to write has read of them, but for intruders;  *)
(* and one more may come from each thread that has passed its precheck.      *)

LedgerInv ==
  /\ TypeOK
  /\ \A d \in Days : paid[d] <= used[d] + intruded[d] /\ paid[d] <= Limit + intruded[d]
  /\ \A c \in Callers : LET d == Window(c) IN
       /\ request[c].at = "write" => paid[d] <= request[c].used + intruded[d]
       /\ request[c].at \in {"debit", "write"} => paid[d] + Cost <= Limit + intruded[d]

LEMMA LedgerTypes ==
  ASSUME TypeOK
  PROVE  /\ \A d \in Days : used[d] \in Nat /\ paid[d] \in Nat /\ intruded[d] \in Nat
         /\ Cost \in Nat /\ Limit \in Nat
         /\ \A c \in Callers : Window(c) \in Days /\ request[c].used \in Nat
BY RowFacts, ConstantFacts DEF TypeOK

LEMMA LedgerKept == LedgerInv /\ [Next]_vars => LedgerInv'
<1> SUFFICES ASSUME LedgerInv, [Next]_vars PROVE LedgerInv'
  OBVIOUS
<1>1. TypeOK /\ TypeOK'
  BY TypeKept DEF LedgerInv
<1>2. ASSUME NEW c \in Callers, Debit(c) PROVE LedgerInv'
  <2> DEFINE w == Window(c)
  <2>1. /\ request[c].at = "write" /\ w \in Days
        /\ used' = [used EXCEPT ![w] = request[c].used + Cost]
        /\ paid' = [paid EXCEPT ![w] = @ + Cost]
        /\ intruded' = [intruded EXCEPT ![w] = @ + IF Reserving(w) = {c} THEN 0 ELSE Cost]
    BY <1>1, <1>2, LedgerTypes DEF Debit
  <2>2. /\ request'[c].at = "cooldown"
        /\ \A e \in Callers \ {c} : request'[e] = request[e]
    BY <1>1, <1>2, BecomesFacts DEF Debit, Free
  <2>3. paid[w] <= request[c].used + intruded[w] /\ paid[w] + Cost <= Limit + intruded[w]
    BY <2>1 DEF LedgerInv
  <2>4. \A e \in Callers \ {c} : Window(e)' = Window(e)
    BY <2>2 DEF Window
  <2>5. ASSUME NEW e \in Callers \ {c}, request[e].at \in {"debit", "write"}, Window(e) = w
        PROVE  intruded'[w] = intruded[w] + Cost
    <3>1. e \in Reserving(w) /\ e # c
      BY <2>5 DEF Reserving
    <3>2. Reserving(w) # {c}
      BY <3>1
    <3> QED BY <1>1, <2>1, <3>2 DEF TypeOK
  <2> HIDE DEF w
  <2>6. /\ used'[w] = request[c].used + Cost /\ paid'[w] = paid[w] + Cost
        /\ intruded'[w] \in {intruded[w] + 0, intruded[w] + Cost}
        /\ \A d \in Days \ {w} : used'[d] = used[d] /\ paid'[d] = paid[d] /\ intruded'[d] = intruded[d]
    BY <1>1, <2>1 DEF TypeOK
  <2>7. \A d \in Days : paid'[d] <= used'[d] + intruded'[d] /\ paid'[d] <= Limit + intruded'[d]
    <3> SUFFICES ASSUME NEW d \in Days
                 PROVE  paid'[d] <= used'[d] + intruded'[d] /\ paid'[d] <= Limit + intruded'[d]
      OBVIOUS
    <3>1. CASE d = w
      BY <1>1, <2>1, <2>3, <2>6, <3>1, LedgerTypes
    <3>2. CASE d # w
      BY <2>6, <3>2 DEF LedgerInv
    <3> QED BY <3>1, <3>2
  <2>8. ASSUME NEW e \in Callers
        PROVE  /\ request'[e].at = "write" =>
                    paid'[Window(e)'] <= request'[e].used + intruded'[Window(e)']
               /\ request'[e].at \in {"debit", "write"} =>
                    paid'[Window(e)'] + Cost <= Limit + intruded'[Window(e)']
    <3>1. CASE e = c
      BY <2>2, <3>1
    <3>2. CASE e # c /\ Window(e) # w
      BY <1>1, <2>2, <2>4, <2>6, <3>2, LedgerTypes DEF LedgerInv
    <3>3. CASE e # c /\ Window(e) = w
      <4>1. /\ request[e].at = "write" => paid[w] <= request[e].used + intruded[w]
            /\ request[e].at \in {"debit", "write"} => paid[w] + Cost <= Limit + intruded[w]
        BY <3>3 DEF LedgerInv
      <4>2. /\ paid[w] \in Nat /\ intruded[w] \in Nat /\ request[e].used \in Nat
            /\ Cost \in Nat /\ Limit \in Nat
        BY <1>1, <2>1, LedgerTypes
      <4> QED BY <2>2, <2>4, <2>5, <2>6, <3>3, <4>1, <4>2
    <3> QED BY <3>1, <3>2, <3>3
  <2> QED BY <1>1, <2>7, <2>8 DEF LedgerInv
<1>3. ASSUME NEW c \in Callers, UNCHANGED ledgerVars,
             \A e \in Callers \ {c} : request'[e] = request[e],
             \/ request'[c].at \notin {"debit", "write"}
             \/ /\ request'[c].at = "debit" /\ request'[c].moment = request[c].moment
                /\ Affordable(Window(c))
             \/ /\ request[c].at = "debit" /\ request'[c].at = "write"
                /\ request'[c].moment = request[c].moment /\ request'[c].used = used[Window(c)]
      PROVE  LedgerInv'
  <2> DEFINE w == Window(c)
  <2>1. /\ w \in Days /\ used[w] \in Nat /\ paid[w] \in Nat /\ intruded[w] \in Nat
        /\ Cost \in Nat /\ Limit \in Nat
        /\ paid[w] <= used[w] + intruded[w]
    BY <1>1, LedgerTypes DEF LedgerInv
  <2>2. request'[c].moment = request[c].moment => Window(c)' = w
    BY DEF Window
  <2>3. \A e \in Callers \ {c} : Window(e)' = Window(e)
    BY <1>3 DEF Window
  <2>4. Affordable(w) => paid[w] + Cost <= Limit + intruded[w]
    BY <2>1 DEF Affordable
  <2>5. request[c].at = "debit" => paid[w] + Cost <= Limit + intruded[w]
    BY DEF LedgerInv
  <2> HIDE DEF w
  <2>6. /\ request'[c].at = "write" =>
             paid'[Window(c)'] <= request'[c].used + intruded'[Window(c)']
        /\ request'[c].at \in {"debit", "write"} =>
             paid'[Window(c)'] + Cost <= Limit + intruded'[Window(c)']
    BY <1>3, <2>1, <2>2, <2>4, <2>5 DEF w, ledgerVars
  <2>7. \A e \in Callers \ {c} :
          /\ request'[e].at = "write" =>
               paid'[Window(e)'] <= request'[e].used + intruded'[Window(e)']
          /\ request'[e].at \in {"debit", "write"} =>
               paid'[Window(e)'] + Cost <= Limit + intruded'[Window(e)']
    BY <1>3, <2>3 DEF LedgerInv, ledgerVars
  <2> QED BY <1>1, <1>3, <2>6, <2>7 DEF LedgerInv, ledgerVars
<1>4. ASSUME NEW c \in Callers, NEW p \in Posts, NEW immediate \in BOOLEAN,
             NEW forced \in BOOLEAN, Arrive(c, p, immediate, forced)
      PROVE  LedgerInv'
  BY <1>1, <1>3, <1>4, ArriveFacts
<1>5. ASSUME NEW c \in Callers, Precheck(c) PROVE LedgerInv'
  BY <1>1, <1>3, <1>5, PrecheckFacts, IdleFacts
<1>6. ASSUME NEW c \in Callers, ReadDebit(c) PROVE LedgerInv'
  BY <1>1, <1>3, <1>6, ReadDebitFacts
<1>7. ASSUME NEW c \in Callers, Cool(c) \/ Look(c) \/ Snapshot(c) \/ Take(c) \/ Peek(c)
      PROVE  LedgerInv'
  BY <1>1, <1>3, <1>7, CoolFacts, LookFacts, SnapshotFacts, TakeFacts, PeekFacts, IdleFacts
<1>8. ASSUME NEW c \in Callers, Mark(c) PROVE LedgerInv'
  <2>1. /\ request'[c].at = "claim" /\ UNCHANGED ledgerVars
        /\ \A e \in Callers \ {c} : request'[e] = request[e]
    BY <1>1, <1>8, BecomesFacts DEF Mark, Free
  <2> QED BY <1>3, <2>1
<1>9. ASSUME NEW c \in Callers, Claim(c) PROVE LedgerInv'
  <2>1. /\ request'[c] = Idle /\ UNCHANGED ledgerVars
        /\ \A e \in Callers \ {c} : request'[e] = request[e]
    BY <1>1, <1>9, LeavesFacts DEF Claim
  <2> QED BY <1>3, <2>1, IdleFacts
<1>10. CASE UNCHANGED <<ledgerVars, request>>
  BY <1>1, <1>10 DEF LedgerInv, Window, ledgerVars
<1> QED BY <1>2, <1>4, <1>5, <1>6, <1>7, <1>8, <1>9, <1>10 DEF Next, vars, Move, Upload, Tick

LEMMA LedgerInit == Init => LedgerInv
<1> SUFFICES ASSUME Init PROVE LedgerInv
  OBVIOUS
<1>1. \A d \in Days : used[d] = 0 /\ paid[d] = 0 /\ intruded[d] = 0
  BY DEF Init
<1>2. \A c \in Callers : request[c].at = "idle"
  BY IdleFacts DEF Init
<1> QED BY <1>1, <1>2, InitType, ConstantFacts DEF LedgerInv

(* Whatever number of threads reserve quota at the same time, a window is     *)
(* overdrawn by no more than the debits that came into the reservation of    *)
(* another thread; if none did, it is not overdrawn.                         *)
THEOREM OverdraftIsBounded == Spec => []OverdrawnByIntruders
<1>1. LedgerInv => OverdrawnByIntruders
  BY DEF LedgerInv, OverdrawnByIntruders
<1> QED BY <1>1, LedgerInit, LedgerKept, PTL DEF Spec

-----------------------------------------------------------------------------
(* Every token is paid.  The debits of a window pay the tokens taken by       *)
(* requests of the window and, still, the requests that were debited and     *)
(* have not taken theirs.                                                    *)

TakenIn(d) == {i \in DOMAIN taken : Day(taken[i].moment) = d}
Debited(d) == {c \in Callers : /\ request[c].at \in {"cooldown", "bucket", "take"}
                               /\ request[c].post # NoPost
                               /\ Window(c) = d}
Paid(d) == Cost * (Cardinality(TakenIn(d)) + Cardinality(Debited(d))) <= paid[d]
PaidInv == TypeOK /\ \A d \in Days : Paid(d)

LEMMA SizesAreNumbers ==
  ASSUME TypeOK, IsFiniteSet(Callers), NEW d
  PROVE  /\ IsFiniteSet(TakenIn(d)) /\ Cardinality(TakenIn(d)) \in Nat
         /\ IsFiniteSet(Debited(d)) /\ Cardinality(Debited(d)) \in Nat
<1>1. DOMAIN taken = 1..Len(taken) /\ Len(taken) \in Nat
  BY DEF TypeOK
<1>2. IsFiniteSet(1..Len(taken))
  BY <1>1, FS_Interval
<1>3. IsFiniteSet(TakenIn(d)) /\ IsFiniteSet(Debited(d))
  BY <1>1, <1>2, FS_Subset DEF TakenIn, Debited
<1> QED BY <1>3, FS_CardinalityType

LEMMA PaidKept == IsFiniteSet(Callers) /\ PaidInv /\ [Next]_vars => PaidInv'
<1> SUFFICES ASSUME IsFiniteSet(Callers), PaidInv, [Next]_vars PROVE PaidInv'
  OBVIOUS
<1>1. TypeOK /\ TypeOK'
  BY TypeKept DEF PaidInv
<1>2. ASSUME NEW d \in Days, Debited(d)' \subseteq Debited(d), UNCHANGED <<paid, taken>>
      PROVE  Paid(d)'
  <2>1. TakenIn(d)' = TakenIn(d)
    BY <1>2 DEF TakenIn
  <2>2. Cardinality(Debited(d)') <= Cardinality(Debited(d)) /\ Cardinality(Debited(d)') \in Nat
    BY <1>1, <1>2, SizesAreNumbers, FS_Subset, FS_CardinalityType
  <2> DEFINE x == Cardinality(TakenIn(d)) + Cardinality(Debited(d))
             y == Cardinality(TakenIn(d)') + Cardinality(Debited(d)')
  <2>3. x \in Nat /\ y \in Nat /\ y <= x
    BY <1>1, <2>1, <2>2, SizesAreNumbers
  <2>4. Cost * x <= paid[d] /\ paid[d] \in Nat
    BY <1>1 DEF PaidInv, Paid, TypeOK
  <2>5. Cost * y <= Cost * x /\ Cost * x \in Nat /\ Cost * y \in Nat
    <3> HIDE DEF x, y
    <3> QED BY <2>3, ConstantFacts
  <2>6. Cost * y <= paid'[d]
    <3> HIDE DEF x, y
    <3> QED BY <1>2, <2>4, <2>5
  <2> QED BY <2>6 DEF Paid
<1>3. ASSUME NEW c \in Callers, Debit(c) PROVE PaidInv'
  <2> DEFINE w == Window(c)
  <2>1. /\ request[c].at = "write" /\ UNCHANGED taken
        /\ paid' = [paid EXCEPT ![w] = @ + Cost] /\ w \in Days
        /\ request[c].post # NoPost
    BY <1>1, <1>3, RowFacts, AdmissionAssumption DEF Debit, bucketVars, Free, AdmissionAssumption
  <2>2. /\ request'[c].at = "cooldown" /\ request'[c].post = request[c].post /\ Window(c)' = w
        /\ \A e \in Callers \ {c} : request'[e] = request[e]
    BY <1>1, <1>3, BecomesFacts DEF Window, Debit, Free
  <2> HIDE DEF w
  <2>3. ASSUME NEW d \in Days PROVE Paid(d)'
    <3>1. CASE d # w
      <4>1. Debited(d)' = Debited(d) /\ TakenIn(d)' = TakenIn(d)
        BY <2>1, <2>2, <3>1 DEF Debited, TakenIn, Window
      <4>2. paid'[d] = paid[d]
        BY <1>1, <2>1, <3>1 DEF TypeOK
      <4> QED BY <4>1, <4>2 DEF PaidInv, Paid
    <3>2. CASE d = w
      <4>1. Debited(d)' = Debited(d) \cup {c} /\ c \notin Debited(d) /\ TakenIn(d)' = TakenIn(d)
        BY <2>1, <2>2, <3>2 DEF Debited, TakenIn, Window
      <4>2. Cardinality(Debited(d)') = Cardinality(Debited(d)) + 1
        BY <1>1, <4>1, SizesAreNumbers, FS_AddElement
      <4>3. paid'[d] = paid[d] + Cost /\ paid[d] \in Nat
        BY <1>1, <2>1, <3>2 DEF TypeOK
      <4> DEFINE x == Cardinality(TakenIn(d)) + Cardinality(Debited(d))
                 y == Cardinality(TakenIn(d)') + Cardinality(Debited(d)')
      <4>4. x \in Nat /\ y = x + 1
        BY <1>1, <4>1, <4>2, SizesAreNumbers
      <4>5. Cost * x <= paid[d]
        BY DEF PaidInv, Paid
      <4>6. Cost * y = Cost * x + Cost /\ Cost * x \in Nat
        <5> HIDE DEF x, y
        <5> QED BY <4>4, ConstantFacts
      <4>7. Cost * y <= paid'[d]
        <5> HIDE DEF x, y
        <5> QED BY <4>3, <4>5, <4>6, ConstantFacts
      <4> QED BY <4>7 DEF Paid
    <3> QED BY <3>1, <3>2
  <2> QED BY <1>1, <2>3 DEF PaidInv
<1>4. ASSUME NEW c \in Callers, Take(c) PROVE PaidInv'
  <2> DEFINE t == request[c].moment
             token == [moment |-> t, slack |-> Rewound(c)]
  <2>1. /\ request[c].at = "take" /\ request[c].post # NoPost /\ UNCHANGED paid
        /\ \A e \in Callers \ {c} : request'[e] = request[e]
        /\ request'[c].at \in {"mark", "idle"}
        /\ taken' = Append(taken, token) \/ taken' = taken
    BY <1>1, <1>4, TakeFacts, IdleFacts, AdmissionAssumption DEF ledgerVars, AdmissionAssumption
  <2>2. \A d : Debited(d)' = Debited(d) \ {c}
    BY <2>1 DEF Debited, Window
  <2>3. CASE UNCHANGED taken
    BY <1>1, <1>2, <2>1, <2>2, <2>3 DEF PaidInv
  <2>4. CASE taken' = Append(taken, token)
    <3> DEFINE n == Len(taken) + 1
    <3>1. n \in Nat /\ n \notin DOMAIN taken /\ DOMAIN taken' = DOMAIN taken \cup {n}
          /\ taken'[n] = token /\ \A i \in DOMAIN taken : taken'[i] = taken[i]
      <4> HIDE DEF token
      <4> QED BY <1>1, <2>4 DEF TypeOK
    <3>2. token.moment = t /\ c \in Debited(Day(t))
      BY <2>1 DEF Debited, Window
    <3> HIDE DEF t, token, n
    <3>3. ASSUME NEW d \in Days PROVE Paid(d)'
      <4>1. CASE d # Day(t)
        <5>1. TakenIn(d)' = TakenIn(d)
          BY <3>1, <3>2, <4>1 DEF TakenIn
        <5>2. Debited(d)' = Debited(d)
          BY <2>2, <4>1 DEF Debited, Window, t
        <5> QED BY <2>1, <5>1, <5>2 DEF PaidInv, Paid
      <4>2. CASE d = Day(t)
        <5>1. TakenIn(d)' = TakenIn(d) \cup {n} /\ n \notin TakenIn(d)
          BY <3>1, <3>2, <4>2 DEF TakenIn
        <5>2. Cardinality(TakenIn(d)') = Cardinality(TakenIn(d)) + 1
          BY <1>1, <5>1, SizesAreNumbers, FS_AddElement
        <5>3. Cardinality(Debited(d)') = Cardinality(Debited(d)) - 1
          BY <1>1, <2>2, <3>2, <4>2, SizesAreNumbers, FS_RemoveElement
        <5>4. Cardinality(TakenIn(d)') + Cardinality(Debited(d)')
              = Cardinality(TakenIn(d)) + Cardinality(Debited(d))
          BY <1>1, <5>2, <5>3, SizesAreNumbers
        <5> QED BY <2>1, <5>4 DEF PaidInv, Paid
      <4> QED BY <4>1, <4>2
    <3> QED BY <1>1, <3>3 DEF PaidInv
  <2> QED BY <2>1, <2>3, <2>4
<1>5. ASSUME NEW c \in Callers, UNCHANGED <<paid, taken>>,
             \/ request'[c].at \notin {"cooldown", "bucket", "take"} \/ request'[c].post = NoPost
             \/ /\ request[c].at \in {"cooldown", "bucket"}
                /\ request'[c].post = request[c].post /\ request'[c].moment = request[c].moment,
             \A e \in Callers \ {c} : request'[e] = request[e]
      PROVE  PaidInv'
  <2>1. \A d : Debited(d)' \subseteq Debited(d)
    BY <1>5 DEF Debited, Window
  <2> QED BY <1>1, <1>2, <1>5, <2>1 DEF PaidInv
<1> USE DEF ledgerVars, bucketVars
<1>6. ASSUME NEW c \in Callers, NEW p \in Posts, NEW immediate \in BOOLEAN,
             NEW forced \in BOOLEAN, Arrive(c, p, immediate, forced)
      PROVE  PaidInv'
  BY <1>1, <1>5, <1>6, ArriveFacts
<1>7. ASSUME NEW c \in Callers, Precheck(c) \/ ReadDebit(c) \/ Peek(c) \/ Snapshot(c) PROVE PaidInv'
  BY <1>1, <1>5, <1>7, PrecheckFacts, ReadDebitFacts, PeekFacts, SnapshotFacts, IdleFacts
<1>8. ASSUME NEW c \in Callers, Cool(c) \/ Look(c) PROVE PaidInv'
  BY <1>1, <1>5, <1>8, CoolFacts, LookFacts, IdleFacts
<1>9. ASSUME NEW c \in Callers, Mark(c) PROVE PaidInv'
  <2>1. /\ request'[c].at = "claim" /\ UNCHANGED <<paid, taken>>
        /\ \A e \in Callers \ {c} : request'[e] = request[e]
    BY <1>1, <1>9, BecomesFacts DEF Mark, Free
  <2> QED BY <1>5, <2>1
<1>10. ASSUME NEW c \in Callers, Claim(c) PROVE PaidInv'
  <2>1. /\ request'[c] = Idle /\ UNCHANGED <<paid, taken>>
        /\ \A e \in Callers \ {c} : request'[e] = request[e]
    BY <1>1, <1>10, LeavesFacts DEF Claim
  <2> QED BY <1>5, <2>1, IdleFacts
<1>11. CASE UNCHANGED <<paid, taken, request>>
  <2>1. \A d : Debited(d)' \subseteq Debited(d)
    BY <1>11 DEF Debited, Window
  <2> QED BY <1>1, <1>2, <1>11, <2>1 DEF PaidInv
<1> QED BY <1>3, <1>4, <1>6, <1>7, <1>8, <1>9, <1>10, <1>11 DEF Next, vars, Move, Upload, Tick

LEMMA PaidInit == IsFiniteSet(Callers) /\ Init => PaidInv
<1> SUFFICES ASSUME Init PROVE PaidInv
  OBVIOUS
<1>1. taken = <<>> /\ \A c \in Callers : request[c].at = "idle"
  BY IdleFacts DEF Init
<1>2. \A d : TakenIn(d) = {} /\ Debited(d) = {}
  BY <1>1 DEF TakenIn, Debited
<1>3. Cardinality({}) = 0
  BY FS_EmptySet
<1>4. \A d \in Days : Paid(d)
  <2> SUFFICES ASSUME NEW d \in Days PROVE Paid(d)
    OBVIOUS
  <2>1. Cardinality(TakenIn(d)) + Cardinality(Debited(d)) = 0
    BY <1>2, <1>3
  <2>2. paid[d] = 0 /\ Cost * 0 = 0
    BY ConstantFacts DEF Init
  <2> QED BY <2>1, <2>2 DEF Paid
<1> QED BY <1>4, InitType DEF PaidInv

(* Whatever number of threads serve requests: the ledger shows every token    *)
(* that was taken in the window of its request, but for what the debits of   *)
(* intruders may have overwritten.                                           *)
THEOREM GrantsPaid ==
  ASSUME IsFiniteSet(Callers) PROVE Spec => []GrantsArePaid
<1>1. IsFiniteSet(Callers) /\ PaidInv /\ LedgerInv => GrantsArePaid
  <2> SUFFICES ASSUME IsFiniteSet(Callers), PaidInv, LedgerInv, NEW d \in Days
               PROVE  Cost * Cardinality(TakenIn(d)) <= used[d] + intruded[d]
    BY DEF GrantsArePaid, TakenIn
  <2> DEFINE x == Cardinality(TakenIn(d))
             y == Cardinality(Debited(d))
  <2>1. x \in Nat /\ y \in Nat /\ Cost * (x + y) <= paid[d]
    BY SizesAreNumbers DEF PaidInv, Paid
  <2>2. /\ used[d] \in Nat /\ paid[d] \in Nat /\ intruded[d] \in Nat
        /\ paid[d] <= used[d] + intruded[d]
    BY LedgerTypes DEF LedgerInv
  <2> HIDE DEF x, y
  <2>3. Cost * x <= Cost * (x + y) /\ Cost * x \in Nat /\ Cost * (x + y) \in Nat
    BY <2>1, ConstantFacts
  <2>4. Cost * x <= used[d] + intruded[d]
    BY <2>1, <2>2, <2>3
  <2> QED BY <2>4 DEF x
<1> QED BY <1>1, PaidInit, PaidKept, LedgerInit, LedgerKept, PTL DEF Spec

-----------------------------------------------------------------------------
(* The bucket.  The tokens taken since one was taken, and those held in the   *)
(* bucket or by a thread's reading of it, come out of a full bucket, of the   *)
(* time that passed until the stamp, and of the slack that came about since. *)
(* A reading as old as the token is covered by the slack alone, which has     *)
(* grown by each token taken since.                                          *)

Since(i) == (Len(taken) - i + 1) * RefillEvery
Bound(held, since, i) ==
  Since(i) + held <= Full + (since - taken[i].moment) + (slack - taken[i].slack)
Held(c, i) ==
  \/ Since(i) + taken[i].moment + taken[i].slack <= stamp + slack
  \/ /\ request[c].stamp # Never
     /\ Bound(request[c].tokens, request[c].stamp, i)
     /\ Bound(request[c].tokens, stamp, i)
RateInv ==
  /\ TypeOK
  /\ stamp = Never => taken = <<>>
  /\ \A i \in DOMAIN taken : Bound(tokens, stamp, i)
  /\ \A c \in Looking, i \in DOMAIN taken : Held(c, i)
  /\ RateIsBounded

LEMMA TakenFacts ==
  ASSUME TypeOK
  PROVE  /\ Len(taken) \in Nat /\ DOMAIN taken = 1..Len(taken)
         /\ \A i \in DOMAIN taken : /\ taken[i].moment \in Nat /\ taken[i].slack \in Nat
                                    /\ Since(i) \in Nat
         /\ slack \in Nat /\ stamp \in Int /\ tokens \in Nat /\ tokens <= Full
         /\ Full \in Nat /\ RefillEvery \in Nat
<1>1. /\ Len(taken) \in Nat /\ DOMAIN taken = 1..Len(taken)
      /\ \A i \in DOMAIN taken : taken[i] \in [moment : Time, slack : Nat]
  <2>1. taken \in Seq([moment : Time, slack : Nat])
    BY DEF TypeOK
  <2>2. ASSUME NEW S, NEW s \in Seq(S)
        PROVE  Len(s) \in Nat /\ DOMAIN s = 1..Len(s) /\ \A i \in DOMAIN s : s[i] \in S
    BY <2>2
  <2> QED BY <2>1, <2>2
<1>2. \A n \in Nat : n * RefillEvery \in Nat
  BY ConstantFacts
<1>3. \A i \in DOMAIN taken : Len(taken) - i + 1 \in Nat
  BY <1>1
<1>4. slack \in Nat /\ stamp \in Int /\ tokens \in Nat /\ tokens <= Full
  BY ConstantFacts DEF TypeOK, Time, Never
<1> QED BY <1>1, <1>2, <1>3, <1>4, ConstantFacts DEF Since, Time

(* What a thread writes keeps the bound, whatever it has read.               *)
LEMMA PourKeeps ==
  ASSUME RateInv, NEW c \in Looking, NEW i \in DOMAIN taken
  PROVE  Since(i) + Poured(c) <=
           Full + (request[c].moment - taken[i].moment) + (Rewound(c) - taken[i].slack)
<1> DEFINE t == request[c].moment
           x == Since(i)
           h == request[c].tokens
           s == request[c].stamp
           m == taken[i].moment
           k == taken[i].slack
           p == Poured(c)
           w == Rewound(c)
<1>1. TypeOK /\ c \in Callers
  BY DEF RateInv, Looking
<1>2. /\ x \in Nat /\ m \in Nat /\ k \in Nat /\ slack \in Nat /\ stamp \in Int /\ Full \in Nat
      /\ t \in Nat /\ t \in Time /\ h \in Nat /\ h \in 0..Full /\ s \in Time \cup {Never}
  BY <1>1, TakenFacts, RowFacts
<1>3. p \in Nat /\ p <= Full /\ w \in Nat /\ w >= slack /\ w >= slack + (stamp - t)
  BY <1>1, PourFacts
<1>4. Held(c, i)
  BY DEF RateInv
<1>5. CASE x + m + k <= stamp + slack
  <2>1. x + p <= Full + (t - m) + (w - k)
    <3> HIDE DEF t, x, m, k, p, w
    <3> QED BY <1>2, <1>3, <1>5
  <2> QED BY <2>1
<1>6. CASE /\ s # Never
           /\ x + h <= Full + (s - m) + (slack - k)
           /\ x + h <= Full + (stamp - m) + (slack - k)
  <2>1. s \in Nat
    BY <1>2, <1>6, ConstantFacts DEF Time
  <2>2. /\ s <= t => p <= h + (t - s)
        /\ t < s => p = h
    BY <1>2, <1>6, RefilledFacts DEF Poured
  <2>3. x + p <= Full + (t - m) + (w - k)
    <3> HIDE DEF t, x, h, s, m, k, p, w
    <3> QED BY <1>2, <1>3, <1>6, <2>1, <2>2
  <2> QED BY <2>3
<1> QED BY <1>4, <1>5, <1>6 DEF Held, Bound

LEMMA Arithmetic ==
  /\ \A f, p, r, t, w, z \in Int : r <= f /\ p <= f /\ z >= w =>
        /\ r + (p - r) <= f + (t - t) + (z - w)
        /\ r <= f + (t - t) + (w - w)
  /\ \A f, p, r, t, w, z, x, m, k \in Int :
        x + p <= f + (t - m) + (w - k) /\ z >= w =>
          (x + r) + (p - r) <= f + (t - m) + (z - k)
  OBVIOUS

LEMMA RateKept == RateInv /\ [Next]_vars => RateInv'
<1> SUFFICES ASSUME RateInv, [Next]_vars PROVE RateInv'
  OBVIOUS
<1>1. TypeOK /\ TypeOK'
  BY TypeKept DEF RateInv
<1>2. ASSUME NEW c \in Callers, UNCHANGED bucketVars,
             \A e \in Callers \ {c} : request'[e] = request[e],
             \/ request'[c].at \notin {"take", "peek"}
             \/ request'[c].tokens = tokens /\ request'[c].stamp = stamp
      PROVE  RateInv'
  <2>1. \A i \in DOMAIN taken : Since(i)' = Since(i)
    BY <1>2 DEF Since, bucketVars
  <2>2. ASSUME NEW e \in Looking', NEW i \in DOMAIN taken PROVE Held(e, i)'
    <3>1. CASE e # c
      <4>1. e \in Looking /\ request'[e] = request[e]
        BY <1>2, <2>2, <3>1 DEF Looking
      <4> QED BY <1>2, <2>1, <4>1 DEF RateInv, Held, Bound, bucketVars
    <3>2. CASE e = c
      <4>1. stamp # Never
        BY <1>1 DEF RateInv
      <4>2. request'[e].tokens = tokens /\ request'[e].stamp = stamp
        BY <1>2, <2>2, <3>2 DEF Looking
      <4>3. Bound(tokens, stamp, i)
        BY DEF RateInv
      <4> QED BY <1>2, <2>1, <4>1, <4>2, <4>3 DEF Held, Bound, bucketVars
    <3> QED BY <3>1, <3>2
  <2>3. \A i \in DOMAIN taken' : Bound(tokens, stamp, i)'
    BY <1>2, <2>1 DEF RateInv, Bound, bucketVars
  <2>4. RateIsBounded'
    BY <1>2 DEF RateInv, RateIsBounded, bucketVars
  <2> QED BY <1>1, <1>2, <2>2, <2>3, <2>4 DEF RateInv, bucketVars
(* A thread writes the bucket and takes nothing. *)
<1>3. ASSUME NEW c \in Looking, request'[c] = Idle, tokens' = Poured(c), slack' = Rewound(c),
             taken' = taken, stamp' = request[c].moment,
             \A e \in Callers \ {c} : request'[e] = request[e]
      PROVE  RateInv'
  <2>1. c \in Callers /\ \A i \in DOMAIN taken : Since(i)' = Since(i)
    BY <1>3 DEF Since, Looking
  <2>2. /\ Rewound(c) \in Nat /\ Rewound(c) >= slack /\ stamp' \in Nat
        /\ stamp' + slack' >= stamp + slack /\ stamp \in Int /\ slack \in Nat
    BY <1>1, <1>3, <2>1, PourFacts
  <2>3. \A i \in DOMAIN taken' : Bound(tokens, stamp, i)'
    BY <1>3, <2>1, PourKeeps DEF Bound
  <2>4. ASSUME NEW e \in Looking', NEW i \in DOMAIN taken PROVE Held(e, i)'
    <3>1. e # c /\ e \in Looking /\ request'[e] = request[e] /\ e \in Callers
      BY <1>3, <2>4, IdleFacts DEF Looking
    <3> DEFINE x == Since(i)
               h == request[e].tokens
               s == request[e].stamp
               m == taken[i].moment
               k == taken[i].slack
    <3>2. x \in Nat /\ m \in Nat /\ k \in Nat /\ h \in Nat /\ s \in Int /\ Full \in Nat
      BY <1>1, <3>1, TakenFacts, RowFacts, ConstantFacts DEF Time, Never
    <3>3. \/ x + m + k <= stamp + slack
          \/ /\ s # Never
             /\ x + h <= Full + (s - m) + (slack - k)
             /\ x + h <= Full + (stamp - m) + (slack - k)
      BY <3>1 DEF RateInv, Held, Bound
    <3>4. \/ x + m + k <= stamp' + slack'
          \/ /\ s # Never
             /\ x + h <= Full + (s - m) + (slack' - k)
             /\ x + h <= Full + (stamp' - m) + (slack' - k)
      <4> HIDE DEF x, h, s, m, k
      <4> QED BY <1>3, <2>2, <3>2, <3>3
    <3> QED BY <1>3, <2>1, <3>1, <3>4 DEF Held, Bound
  <2>5. RateIsBounded' /\ stamp' # Never
    BY <1>3, <2>2 DEF RateInv, RateIsBounded, Never
  <2> QED BY <1>1, <1>3, <2>3, <2>4, <2>5 DEF RateInv
(* A thread takes a token. *)
<1>4. ASSUME NEW c \in Looking, request'[c].at = "mark", Poured(c) >= RefillEvery,
             tokens' = Poured(c) - RefillEvery,
             slack' = Rewound(c) + IF Looking = {c} THEN 0 ELSE RefillEvery,
             taken' = Append(taken, [moment |-> request[c].moment, slack |-> Rewound(c)]),
             stamp' = request[c].moment,
             \A e \in Callers \ {c} : request'[e] = request[e]
      PROVE  RateInv'
  <2>0. PICK n, t, w, p, R : /\ n = Len(taken) /\ t = request[c].moment /\ w = Rewound(c)
                             /\ p = Poured(c) /\ R = RefillEvery
    OBVIOUS
  <2>1. /\ c \in Callers /\ w \in Nat /\ w >= slack /\ t \in Nat /\ t + w >= stamp + slack
        /\ stamp \in Int /\ slack \in Nat /\ p \in Nat /\ p <= Full /\ Full \in Nat
        /\ R \in Nat /\ n \in Nat
    <3>1. c \in Callers
      BY <1>4 DEF Looking
    <3>2. /\ Rewound(c) \in Nat /\ Rewound(c) >= slack /\ request[c].moment \in Nat
          /\ Rewound(c) >= slack + (stamp - request[c].moment)
          /\ Poured(c) \in Nat /\ Poured(c) <= Full
      BY <1>1, <3>1, PourFacts, RowFacts
    <3>3. /\ stamp \in Int /\ slack \in Nat /\ Full \in Nat /\ RefillEvery \in Nat
          /\ Len(taken) \in Nat
      BY <1>1, TakenFacts
    <3>4. w \in Nat /\ w >= slack /\ t \in Nat /\ w >= slack + (stamp - t) /\ p \in Nat /\ p <= Full
      BY <2>0, <3>2
    <3>5. R \in Nat /\ n \in Nat
      BY <2>0, <3>3
    <3>6. t + w >= stamp + slack
      BY <3>3, <3>4
    <3> QED BY <3>1, <3>3, <3>4, <3>5, <3>6
  <2>2. /\ DOMAIN taken = 1..n /\ DOMAIN taken' = 1..(n + 1) /\ Len(taken') = n + 1
        /\ taken'[n + 1] = [moment |-> t, slack |-> w]
        /\ \A i \in 1..n : taken'[i] = taken[i]
    BY <1>1, <1>4, <2>0 DEF TypeOK
  <2>3. taken'[n + 1].moment = t /\ taken'[n + 1].slack = w
    BY <2>2
  <2>4. slack' >= w /\ slack' \in Nat /\ (Looking # {c} => slack' = w + R)
    BY <1>4, <2>0, <2>1
  <2>r. R <= p /\ R <= Full /\ slack' >= w /\ {R, p, Full, t, w, slack'} \subseteq Int
    <3>1. R <= p /\ R <= Full
      BY <1>4, <2>0, <2>1
    <3>2. slack' >= w /\ {R, p, Full, t, w, slack'} \subseteq Int
      BY <2>1, <2>4
    <3> QED BY <3>1, <3>2
  <2>5. ASSUME NEW i \in 1..n
        PROVE  /\ Since(i)' = Since(i) + R /\ Since(i) \in Nat /\ (n + 1 - i + 1) * R = Since(i) + R
               /\ Since(i) + p <= Full + (t - taken[i].moment) + (w - taken[i].slack)
    <3>1. Since(i) + p <= Full + (t - taken[i].moment) + (w - taken[i].slack)
      BY <1>4, <2>0, <2>2, PourKeeps
    <3>2. Since(i) \in Nat
      BY <1>1, <2>2, TakenFacts
    <3>3. n - i + 1 \in Nat /\ n + 1 - i + 1 = (n - i + 1) + 1
      BY <2>1
    <3>4. \A y \in Nat : (y + 1) * R = y * R + R
      BY <2>1
    <3>5. (n + 1 - i + 1) * R = Since(i) + R
      BY <2>0, <3>3, <3>4 DEF Since
    <3> QED BY <2>0, <2>2, <3>1, <3>2, <3>5 DEF Since
  <2>6. Since(n + 1)' = R /\ (n + 1 - (n + 1) + 1) * R = R
    <3>1. n + 1 - (n + 1) + 1 = 1 /\ 1 * R = R
      BY <2>1
    <3>2. (n + 1 - (n + 1) + 1) * R = R
      BY <3>1
    <3>3. Since(n + 1)' = (n + 1 - (n + 1) + 1) * R
      BY <2>0, <2>2 DEF Since
    <3> QED BY <3>2, <3>3
  <2>7. ASSUME NEW i \in 1..(n + 1) PROVE Bound(tokens, stamp, i)'
    <3>1. CASE i = n + 1
      <4>1. R + (p - R) <= Full + (t - t) + (slack' - w)
        BY <2>r, <2>1, Arithmetic
      <4> QED BY <1>4, <2>0, <2>3, <2>6, <3>1, <4>1 DEF Bound
    <3>2. CASE i \in 1..n
      <4> DEFINE x == Since(i)
                 m == taken[i].moment
                 k == taken[i].slack
      <4>1. x \in Nat /\ m \in Nat /\ k \in Nat
        BY <1>1, <2>2, <3>2, TakenFacts
      <4>2. x + p <= Full + (t - m) + (w - k)
        BY <2>5, <3>2
      <4>3. (x + R) + (p - R) <= Full + (t - m) + (slack' - k)
        <5> HIDE DEF x, m, k
        <5> QED BY <2>1, <2>r, <4>1, <4>2, Arithmetic
      <4> QED BY <1>4, <2>0, <2>2, <2>5, <3>2, <4>3 DEF Bound
    <3> QED BY <2>1, <3>1, <3>2
  <2>8. ASSUME NEW e \in Looking', NEW i \in 1..(n + 1) PROVE Held(e, i)'
    <3>1. e # c /\ e \in Looking /\ request'[e] = request[e] /\ e \in Callers
      BY <1>4, <2>8 DEF Looking
    <3>2. slack' = w + R
      BY <2>4, <3>1
    <3>3. CASE i = n + 1
      <4>1. R + t + w <= t + slack'
        BY <2>1, <3>2
      <4> QED BY <1>4, <2>0, <2>3, <2>6, <3>3, <4>1 DEF Held
    <3>4. CASE i \in 1..n
      <4> DEFINE x == Since(i)
                 h == request[e].tokens
                 s == request[e].stamp
                 m == taken[i].moment
                 k == taken[i].slack
      <4>1. x \in Nat /\ m \in Nat /\ k \in Nat /\ h \in Nat /\ s \in Int
        BY <1>1, <2>2, <3>1, <3>4, TakenFacts, RowFacts, ConstantFacts DEF Time, Never
      <4>2. \/ x + m + k <= stamp + slack
            \/ /\ s # Never
               /\ x + h <= Full + (s - m) + (slack - k)
               /\ x + h <= Full + (stamp - m) + (slack - k)
        BY <2>2, <3>1, <3>4 DEF RateInv, Held, Bound
      <4>3. \/ (x + R) + m + k <= t + slack'
            \/ /\ s # Never
               /\ (x + R) + h <= Full + (s - m) + (slack' - k)
               /\ (x + R) + h <= Full + (t - m) + (slack' - k)
        <5> HIDE DEF x, h, s, m, k
        <5> QED BY <2>1, <3>2, <4>1, <4>2
      <4> QED BY <1>4, <2>0, <2>2, <2>5, <3>1, <3>4, <4>3 DEF Held, Bound
    <3> QED BY <2>1, <3>3, <3>4
  <2>9. RateIsBounded'
    <3> SUFFICES ASSUME NEW i \in 1..(n + 1), NEW j \in 1..(n + 1), i <= j
                 PROVE  (j - i + 1) * RefillEvery <=
                          Full + (taken'[j].moment - taken'[i].moment) + (taken'[j].slack - taken'[i].slack)
      BY <2>2 DEF RateIsBounded
    <3>1. CASE i = n + 1
      <4>0. j = n + 1
        BY <2>1, <3>1
      <4>1. R <= Full + (t - t) + (w - w)
        BY <2>1, <2>r, Arithmetic
      <4> QED BY <2>0, <2>3, <2>6, <3>1, <4>0, <4>1
    <3>2. CASE i \in 1..n /\ j = n + 1
      <4> DEFINE x == Since(i)
                 m == taken[i].moment
                 k == taken[i].slack
      <4>1. x \in Nat /\ m \in Nat /\ k \in Nat /\ p >= R
        BY <1>1, <1>4, <2>0, <2>2, <3>2, TakenFacts
      <4>2. x + p <= Full + (t - m) + (w - k) /\ (n + 1 - i + 1) * R = x + R
        BY <2>5, <3>2
      <4>3. x + R <= Full + (t - m) + (w - k)
        <5> HIDE DEF x, m, k
        <5> QED BY <2>1, <4>1, <4>2
      <4> QED BY <2>0, <2>2, <2>3, <3>2, <4>2, <4>3
    <3>3. CASE i \in 1..n /\ j \in 1..n
      BY <2>2, <3>3 DEF RateInv, RateIsBounded
    <3> QED BY <2>1, <3>1, <3>2, <3>3
  <2>10. stamp' # Never
    BY <1>4, <2>0, <2>1 DEF Never
  <2> QED BY <1>1, <2>2, <2>7, <2>8, <2>9, <2>10 DEF RateInv
<1>5. ASSUME NEW c \in Callers, Take(c) PROVE RateInv'
  <2>1. c \in Looking
    BY <1>5 DEF Take, Looking
  <2> QED BY <1>1, <1>3, <1>4, <1>5, <2>1, TakeFacts
<1>6. ASSUME NEW c \in Callers, Peek(c) PROVE RateInv'
  <2>1. c \in Looking
    BY <1>6 DEF Peek, Looking
  <2> QED BY <1>1, <1>3, <1>6, <2>1, PeekFacts
<1>7. ASSUME NEW c \in Callers, NEW p \in Posts, NEW immediate \in BOOLEAN,
             NEW forced \in BOOLEAN, Arrive(c, p, immediate, forced)
      PROVE  RateInv'
  BY <1>1, <1>2, <1>7, ArriveFacts
<1>8. ASSUME NEW c \in Callers,
             Precheck(c) \/ ReadDebit(c) \/ Cool(c) \/ Snapshot(c)
      PROVE  RateInv'
  BY <1>1, <1>2, <1>8, PrecheckFacts, ReadDebitFacts, CoolFacts, SnapshotFacts, IdleFacts
<1>9. ASSUME NEW c \in Callers, Look(c) PROVE RateInv'
  BY <1>1, <1>2, <1>9, LookFacts
<1>10. ASSUME NEW c \in Callers, Debit(c) \/ Mark(c) \/ Claim(c) PROVE RateInv'
  <2>1. /\ request'[c].at \in {"cooldown", "claim", "idle"} /\ UNCHANGED bucketVars
        /\ \A e \in Callers \ {c} : request'[e] = request[e]
    BY <1>1, <1>10, BecomesFacts, LeavesFacts, IdleFacts DEF Debit, Mark, Claim, Free
  <2> QED BY <1>2, <2>1
<1>11. CASE UNCHANGED <<bucketVars, request>>
  <2>1. \A i \in DOMAIN taken : Since(i)' = Since(i)
    BY <1>11 DEF Since, bucketVars
  <2> QED BY <1>1, <1>11, <2>1 DEF RateInv, RateIsBounded, Bound, Held, Looking, bucketVars
<1> QED BY <1>5, <1>6, <1>7, <1>8, <1>9, <1>10, <1>11 DEF Next, vars, Move, Upload, Tick

(* A token bucket without a lock, asked by any number of threads with         *)
(* moments of any age: over any stretch of time no more posts pass than a    *)
(* full bucket, the refill of that time, what older moments rewound, and one *)
(* for each that was taken while another thread was looking.                 *)
THEOREM RateBounded == Spec => []RateIsBounded
<1>1. Init => RateInv
  <2> SUFFICES ASSUME Init PROVE RateInv
    OBVIOUS
  <2>1. taken = <<>> /\ DOMAIN taken = {}
    BY DEF Init
  <2> QED BY <2>1, InitType DEF RateInv, RateIsBounded
<1>2. RateInv => RateIsBounded
  BY DEF RateInv
<1> QED BY <1>1, <1>2, RateKept, PTL DEF Spec

-----------------------------------------------------------------------------
(* The cooldown.  What a post found marked lies the cooldown before it; what  *)
(* had been marked before that may lie later by what the mark was set back.  *)

After(t, found) ==
  found <= Len(marks) /\ (found # 0 => t - marks[found].moment >= Cooldown)
CoolInv ==
  /\ TypeOK
  /\ marks = <<>> => marked = Never
  /\ marks # <<>> => marked = marks[Len(marks)].moment /\ setback = marks[Len(marks)].setback
  /\ \A i, k \in DOMAIN marks : i <= k =>
       marks[i].moment + marks[i].setback <= marks[k].moment + marks[k].setback
  /\ \A c \in Callers : After(request[c].moment, request[c].found)
  /\ \A j \in DOMAIN marks : After(marks[j].moment, marks[j].found)

LEMMA MarksFacts ==
  ASSUME TypeOK
  PROVE  /\ Len(marks) \in Nat /\ DOMAIN marks = 1..Len(marks)
         /\ \A i \in DOMAIN marks : /\ marks[i].moment \in Nat /\ marks[i].found \in Nat
                                    /\ marks[i].setback \in Nat
         /\ setback \in Nat /\ (marked = Never \/ marked \in Nat)
<1>1. /\ Len(marks) \in Nat /\ DOMAIN marks = 1..Len(marks)
      /\ \A i \in DOMAIN marks : marks[i] \in [moment : Time, found : Nat, setback : Nat]
  <2>1. marks \in Seq([moment : Time, found : Nat, setback : Nat])
    BY DEF TypeOK
  <2>2. ASSUME NEW S, NEW s \in Seq(S)
        PROVE  Len(s) \in Nat /\ DOMAIN s = 1..Len(s) /\ \A i \in DOMAIN s : s[i] \in S
    BY <2>2
  <2> QED BY <2>1, <2>2
<1> QED BY <1>1, ConstantFacts DEF TypeOK, Time

LEMMA CoolKept == CoolInv /\ [Next]_vars => CoolInv'
<1> SUFFICES ASSUME CoolInv, [Next]_vars PROVE CoolInv'
  OBVIOUS
<1> USE DEF cooldownVars
<1>1. TypeOK /\ TypeOK'
  BY TypeKept DEF CoolInv
(* A thread whose reading of the marks stays as it was, or is none. *)
<1>2. ASSUME NEW c \in Callers, UNCHANGED cooldownVars,
             \/ request'[c].found = 0
             \/ request'[c].found = request[c].found /\ request'[c].moment = request[c].moment,
             \A e \in Callers \ {c} : request'[e] = request[e]
      PROVE  CoolInv'
  <2>1. \A e \in Callers : After(request[e].moment, request[e].found)'
    <3> SUFFICES ASSUME NEW e \in Callers PROVE After(request[e].moment, request[e].found)'
      OBVIOUS
    <3>1. After(request[e].moment, request[e].found)
      BY DEF CoolInv
    <3>2. CASE e = c /\ request'[c].found = 0
      BY <1>1, <1>2, <3>2, MarksFacts DEF After
    <3>3. CASE request'[e].found = request[e].found /\ request'[e].moment = request[e].moment
      BY <1>2, <3>1, <3>3 DEF After
    <3> QED BY <1>2, <3>2, <3>3
  <2> QED BY <1>1, <1>2, <2>1 DEF CoolInv, After
<1>3. ASSUME NEW c \in Callers, Cool(c) PROVE CoolInv'
  <2>1. /\ UNCHANGED cooldownVars /\ \A e \in Callers \ {c} : request'[e] = request[e]
        /\ \/ /\ request'[c].moment = request[c].moment /\ request'[c].found = Len(marks)
              /\ Rested(request[c].moment)
           \/ request'[c] = Idle
    BY <1>1, <1>3, CoolFacts
  <2>2. CASE request'[c] = Idle
    BY <1>2, <2>1, <2>2, IdleFacts
  <2>3. CASE /\ request'[c].moment = request[c].moment /\ request'[c].found = Len(marks)
             /\ Rested(request[c].moment)
    <3>1. \A e \in Callers \ {c} : After(request[e].moment, request[e].found)'
      BY <2>1 DEF CoolInv, After
    <3>2. Len(marks) # 0 => request[c].moment - marks[Len(marks)].moment >= Cooldown
      <4> SUFFICES ASSUME Len(marks) # 0
                   PROVE  request[c].moment - marks[Len(marks)].moment >= Cooldown
        OBVIOUS
      <4>1. marks # <<>> /\ marked = marks[Len(marks)].moment
        BY <1>1, MarksFacts DEF CoolInv
      <4>2. Len(marks) \in DOMAIN marks
        BY <1>1, MarksFacts
      <4>3. marked \in Nat /\ request[c].moment \in Nat /\ Cooldown \in Nat
        BY <1>1, <4>1, <4>2, MarksFacts, RowFacts, ConstantFacts
      <4>4. Cooldown - (request[c].moment - marked) <= 0
        BY <2>3, <4>3 DEF Rested, Never
      <4> QED BY <4>1, <4>3, <4>4
    <3>3. After(request[c].moment, request[c].found)'
      BY <1>1, <2>1, <2>3, <3>2, MarksFacts DEF After
    <3> QED BY <1>1, <2>1, <3>1, <3>3 DEF CoolInv, After
  <2> QED BY <2>1, <2>2, <2>3
<1>4. ASSUME NEW c \in Callers, Mark(c) PROVE CoolInv'
  <2>0. PICK n, t, s : n = Len(marks) /\ t = request[c].moment /\ s = setback'
    OBVIOUS
  <2>1. /\ request'[c].moment = t /\ request'[c].found = request[c].found
        /\ \A e \in Callers \ {c} : request'[e] = request[e]
        /\ marked' = t /\ s = setback + (IF marked > t THEN marked - t ELSE 0)
        /\ marks' = Append(marks, [moment |-> t, found |-> request[c].found, setback |-> s])
    BY <1>1, <1>4, <2>0, BecomesFacts DEF Mark, Free
  <2>2. n \in Nat /\ t \in Nat /\ s \in Nat /\ setback \in Nat /\ (marked = Never \/ marked \in Nat)
    <3>1. setback' \in Nat
      BY <1>1 DEF TypeOK
    <3> QED BY <1>1, <2>0, <3>1, MarksFacts, RowFacts
  <2>3. /\ DOMAIN marks = 1..n /\ DOMAIN marks' = 1..(n + 1) /\ Len(marks') = n + 1
        /\ marks'[n + 1] = [moment |-> t, found |-> request[c].found, setback |-> s]
        /\ \A i \in 1..n : marks'[i] = marks[i]
    BY <1>1, <2>0, <2>1 DEF TypeOK
  <2>4. /\ marks'[n + 1].moment = t /\ marks'[n + 1].setback = s
        /\ marks'[n + 1].found = request[c].found
    BY <2>3
  <2>5. \A e \in Callers : After(request[e].moment, request[e].found)'
    <3> SUFFICES ASSUME NEW e \in Callers PROVE After(request[e].moment, request[e].found)'
      OBVIOUS
    <3>1. /\ request'[e].moment = request[e].moment /\ request'[e].found = request[e].found
          /\ request[e].found \in Nat
      BY <1>1, <2>0, <2>1, RowFacts
    <3>2. After(request[e].moment, request[e].found)
      BY DEF CoolInv
    <3> QED BY <2>0, <2>2, <2>3, <3>1, <3>2 DEF After
  <2>6. \A j \in 1..(n + 1) : After(marks[j].moment, marks[j].found)'
    <3> SUFFICES ASSUME NEW j \in 1..(n + 1) PROVE After(marks[j].moment, marks[j].found)'
      OBVIOUS
    <3>1. PICK m, f : m = marks'[j].moment /\ f = marks'[j].found
      OBVIOUS
    <3>2. f \in Nat /\ After(m, f)
      <4>1. CASE j = n + 1
        BY <1>1, <2>0, <2>4, <3>1, <4>1, RowFacts DEF CoolInv
      <4>2. CASE j \in 1..n
        BY <1>1, <2>3, <3>1, <4>2, MarksFacts DEF CoolInv
      <4> QED BY <2>2, <4>1, <4>2
    <3> QED BY <2>0, <2>2, <2>3, <3>1, <3>2 DEF After
  <2>7. \A i, k \in 1..(n + 1) : i <= k =>
          marks'[i].moment + marks'[i].setback <= marks'[k].moment + marks'[k].setback
    <3> SUFFICES ASSUME NEW i \in 1..(n + 1), NEW k \in 1..(n + 1), i <= k
                 PROVE  marks'[i].moment + marks'[i].setback <= marks'[k].moment + marks'[k].setback
      OBVIOUS
    <3>1. CASE i = n + 1
      BY <2>2, <2>4, <3>1
    <3>2. CASE i \in 1..n /\ k \in 1..n
      BY <2>3, <3>2 DEF CoolInv
    <3>3. CASE i \in 1..n /\ k = n + 1
      <4>1. /\ n \in 1..n /\ marks # <<>>
        BY <1>1, <2>0, <2>2, <2>3, <3>3, MarksFacts
      <4>2. marked = marks[n].moment /\ setback = marks[n].setback
        BY <2>0, <4>1 DEF CoolInv
      <4>3. /\ marks[i].moment + marks[i].setback <= marked + setback
            /\ marks[i].moment \in Nat /\ marks[i].setback \in Nat /\ marked \in Nat
        BY <1>1, <2>3, <3>3, <4>1, <4>2, MarksFacts DEF CoolInv
      <4>4. marked + setback <= t + s
        BY <2>1, <2>2, <4>3
      <4>5. marks[i].moment + marks[i].setback <= t + s
        BY <2>2, <4>3, <4>4
      <4> QED BY <2>3, <2>4, <3>3, <4>5
    <3> QED BY <2>2, <3>1, <3>2, <3>3
  <2>8. marks' # <<>> /\ marked' = marks'[Len(marks')].moment /\ setback' = marks'[Len(marks')].setback
    BY <2>0, <2>1, <2>2, <2>3, <2>4
  <2> QED BY <1>1, <2>3, <2>5, <2>6, <2>7, <2>8 DEF CoolInv
<1>5. ASSUME NEW c \in Callers, NEW p \in Posts, NEW immediate \in BOOLEAN,
             NEW forced \in BOOLEAN, Arrive(c, p, immediate, forced)
      PROVE  CoolInv'
  BY <1>1, <1>2, <1>5, ArriveFacts
<1>6. ASSUME NEW c \in Callers,
             Precheck(c) \/ ReadDebit(c) \/ Look(c) \/ Take(c) \/ Snapshot(c) \/ Peek(c)
      PROVE  CoolInv'
  BY <1>1, <1>2, <1>6, PrecheckFacts, ReadDebitFacts, LookFacts, TakeFacts, SnapshotFacts,
     PeekFacts, IdleFacts
<1>7. ASSUME NEW c \in Callers, Debit(c) \/ Claim(c) PROVE CoolInv'
  <2>1. /\ \/ request'[c].found = 0
           \/ request'[c].found = request[c].found /\ request'[c].moment = request[c].moment
        /\ UNCHANGED cooldownVars
        /\ \A e \in Callers \ {c} : request'[e] = request[e]
    BY <1>1, <1>7, BecomesFacts, LeavesFacts, IdleFacts DEF Debit, Claim, Free
  <2> QED BY <1>2, <2>1
<1>8. CASE UNCHANGED <<cooldownVars, request>>
  BY <1>1, <1>8 DEF CoolInv, After
<1> QED BY <1>3, <1>4, <1>5, <1>6, <1>7, <1>8 DEF Next, vars, Move, Upload, Tick

(* The cooldown has no lock either: a post that passed lies the cooldown      *)
(* after every post that had been marked when it was looked at, but for what *)
(* older moments, marked since, set the mark back.                           *)
THEOREM CooldownIsKept == Spec => []CooldownHolds
<1>1. Init => CoolInv
  <2> SUFFICES ASSUME Init PROVE CoolInv
    OBVIOUS
  <2>1. marks = <<>> /\ DOMAIN marks = {} /\ Len(marks) = 0 /\ marked = Never
    BY DEF Init
  <2>2. \A c \in Callers : request[c].found = 0
    BY IdleFacts DEF Init
  <2> QED BY <2>1, <2>2, InitType DEF CoolInv, After
<1>2. CoolInv => CooldownHolds
  <2> SUFFICES ASSUME CoolInv, NEW j \in DOMAIN marks, NEW i \in 1..marks[j].found
               PROVE  LET last == marks[j].found
                      IN  marks[j].moment - marks[i].moment
                            >= Cooldown - (marks[last].setback - marks[i].setback)
    BY DEF CooldownHolds
  <2> DEFINE last == marks[j].found
  <2>1. TypeOK /\ last \in Nat /\ last <= Len(marks)
    BY MarksFacts DEF CoolInv, After
  <2>2. i \in DOMAIN marks /\ last \in DOMAIN marks /\ i <= last /\ last # 0
    BY <2>1, MarksFacts
  <2>3. /\ marks[j].moment - marks[last].moment >= Cooldown
        /\ marks[i].moment + marks[i].setback <= marks[last].moment + marks[last].setback
    BY <2>2 DEF CoolInv, After
  <2>4. /\ marks[j].moment \in Nat /\ marks[i].moment \in Nat /\ marks[last].moment \in Nat
        /\ marks[i].setback \in Nat /\ marks[last].setback \in Nat /\ Cooldown \in Nat
    BY <2>1, <2>2, MarksFacts, ConstantFacts
  <2> HIDE DEF last
  <2>5. marks[j].moment - marks[i].moment >= Cooldown - (marks[last].setback - marks[i].setback)
    BY <2>3, <2>4
  <2> QED BY <2>5 DEF last
<1> QED BY <1>1, <1>2, CoolKept, PTL DEF Spec

=============================================================================
