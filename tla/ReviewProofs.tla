---------------------------- MODULE ReviewProofs ----------------------------
(***************************************************************************)
(* What holds of Review for every set of variants, requests, findings and  *)
(* reviewers, proved with TLAPS.                                           *)
(***************************************************************************)
EXTENDS Review, FiniteSetTheorems, SequenceTheorems, WellFoundedInduction, TLAPS

-----------------------------------------------------------------------------
(* The budget: what is left of the present one is not charged yet.           *)

BudgetInv ==
  /\ submitted \in Nat /\ used \in 0..Budget /\ charged \in Nat
  /\ submitted = 0 => charged = 0
  /\ submitted > 0 => charged + (Budget - used) <= Budget * submitted

LEMMA ChargeKeeps ==
  ASSUME BudgetInv, NEW tokens \in Nat, Charge(tokens) PROVE BudgetInv'
<1>1. Budget \in Nat \ {0}
  BY ReviewAssumption DEF ReviewAssumption
<1> DEFINE all == Budget * submitted
<1>2. submitted \in Nat /\ all \in Nat
  BY <1>1 DEF BudgetInv
<1>3. charged + (Budget - used) <= all
  BY DEF BudgetInv, Charge
<1>4. UNCHANGED submitted /\ used' = used + tokens /\ charged' = charged + tokens
      /\ used + tokens <= Budget /\ submitted > 0
  BY DEF Charge, Afforded
<1> HIDE DEF all
<1>5. charged' + (Budget - used') <= all /\ used' \in 0..Budget /\ charged' \in Nat
  BY <1>1, <1>2, <1>3, <1>4 DEF BudgetInv
<1> QED BY <1>2, <1>4, <1>5 DEF BudgetInv, all

LEMMA BudgetKept == BudgetInv /\ [Next]_vars => BudgetInv'
<1> SUFFICES ASSUME BudgetInv, [Next]_vars PROVE BudgetInv'
  OBVIOUS
<1>1. Budget \in Nat \ {0} /\ Costs \subseteq Nat /\ ReviewCost \in Nat
  BY ReviewAssumption DEF ReviewAssumption
<1>2. CASE SubmitBrief
  <2>1. submitted' = submitted + 1 /\ used' = 0 /\ charged' = charged
    BY <1>2 DEF SubmitBrief
  <2> DEFINE all == Budget * submitted
  <2>2. submitted \in Nat /\ all \in Nat /\ Budget * (submitted + 1) = all + Budget
    BY <1>1 DEF BudgetInv
  <2>3. charged <= all
    BY <1>1, <2>2 DEF BudgetInv
  <2> HIDE DEF all
  <2> QED BY <1>1, <2>1, <2>2, <2>3 DEF BudgetInv
<1>3. ASSUME NEW tokens \in Costs, GenerateUnbound(tokens) PROVE BudgetInv'
  BY <1>1, <1>3, ChargeKeeps DEF GenerateUnbound
<1>4. ASSUME NEW tokens \in Costs, NEW v \in Variants, NEW name \in DOMAIN Requests,
             GenerateVariant(v, tokens, name)
      PROVE  BudgetInv'
  BY <1>1, <1>4, ChargeKeeps DEF GenerateVariant
<1>5. CASE SelfReview
  BY <1>1, <1>5, ChargeKeeps DEF SelfReview
<1>6. CASE UNCHANGED briefVars
  BY <1>6 DEF briefVars, BudgetInv
<1> QED BY <1>2, <1>3, <1>4, <1>5, <1>6
        DEF Next, vars, Check, Waive, Submit, Decide, ScheduleVariant, SaveStatus, Log

(* Whatever is charged, and whether or not anything is generated for it: no   *)
(* submission of the brief is charged beyond its budget.                     *)
THEOREM ChargesAreBounded == Spec => []ChargesBounded
<1>1. Init => BudgetInv
  BY ReviewAssumption DEF Init, BudgetInv, ReviewAssumption
<1>2. BudgetInv => ChargesBounded
  <2> SUFFICES ASSUME BudgetInv PROVE charged <= Budget * submitted
    BY DEF ChargesBounded
  <2>1. Budget \in Nat \ {0} /\ submitted \in Nat /\ Budget * submitted \in Nat
    BY ReviewAssumption DEF ReviewAssumption, BudgetInv
  <2> QED BY <2>1 DEF BudgetInv
<1> QED BY <1>1, <1>2, BudgetKept, PTL DEF Spec

-----------------------------------------------------------------------------
(* Decisions. *)

Rows == [status : VariantStatus, request : DOMAIN Requests \cup {NoRequest}]
Entries == [action : Action, admin : BOOLEAN, informed : BOOLEAN, round : Nat]
Sessions == [variant : Variants \cup {NoVariant}, action : Action \cup {"submit"},
             admin : BOOLEAN, informed : BOOLEAN, round : Nat, saved : BOOLEAN]

Shape ==
  /\ variant \in [Variants -> Rows]
  /\ approvals \in [Variants -> Seq(Entries)]
  /\ session \in [Reviewers -> Sessions]
  /\ found \in [Variants -> SUBSET Finds] /\ waived \in [Variants -> SUBSET Finds]
  /\ checked \subseteq Variants /\ adminWaived \subseteq Variants \X Finds
  /\ pool \subseteq Variants
  /\ rounds \in [Variants -> Nat]
  /\ \A v \in Variants : waived[v] \subseteq found[v]

(* A variant that was generated has a request; its findings are the rules',   *)
(* once it is checked; and a block is waived by an administrator.            *)
Sound ==
  /\ \A v \in Variants : variant[v] # Unmade =>
       variant[v].status # "none" /\ variant[v].request \in DOMAIN Requests
  /\ \A v \in checked : variant[v] # Unmade /\ found[v] = Findings[variant[v].request]
  /\ \A v \in Variants : \A f \in waived[v] : f.severity = "block" => <<v, f>> \in adminWaived

(* A session is about a variant that exists, and decides in a round of it.   *)
Busy(s, row, n) ==
  /\ row # Unmade
  /\ s.action = "submit" => ~s.saved /\ s.round = 0
  /\ s.action # "submit" => s.round \in 1..n

(* What is submitted has a round, and until a verdict is saved nothing was    *)
(* said in its last one.                                                     *)
InRounds ==
  /\ \A r \in Reviewers : session[r] # Idle =>
       /\ session[r].variant \in Variants
       /\ Busy(session[r], variant[session[r].variant], rounds[session[r].variant])
  /\ \A v \in Variants :
       /\ rounds[v] = 0 <=> variant[v].status \in {"none", "draft"}
       /\ \A i \in DOMAIN approvals[v] : approvals[v][i].round \in 1..rounds[v]
       /\ variant[v].status = "pending_review" =>
            /\ \A i \in DOMAIN approvals[v] : approvals[v][i].round # rounds[v]
            /\ \A r \in Saved(v) : session[r].round # rounds[v]

(* What an entry of the approval log, or one that is about to be logged, was  *)
(* decided upon.                                                             *)
Cleared(v, name, byAdmin, e) ==
  /\ Verdict[e.action] = "approved" /\ e.informed /\ ~e.admin =>
       \A f \in Findings[name] : f.severity = "block" => <<v, f>> \in byAdmin
  /\ e.informed /\ Has(Findings[name], "warn") => e.action # "batch_approve"
AllCleared ==
  /\ \A r \in Reviewers : session[r] # Idle =>
       Cleared(session[r].variant, variant[session[r].variant].request, adminWaived, session[r])
  /\ \A v \in Variants : \A i \in DOMAIN approvals[v] :
       Cleared(v, variant[v].request, adminWaived, approvals[v][i])

Inv == Shape /\ Sound /\ InRounds /\ AllCleared /\ DecidedOnce /\ PoolIsApproved

LEMMA Names ==
  /\ NoVariant \notin Variants /\ NoRequest \notin DOMAIN Requests
  /\ Idle \in Sessions /\ Idle.variant = NoVariant /\ Idle.saved = FALSE /\ Idle.round = 0
  /\ Unmade \in Rows /\ Unmade.status = "none" /\ Unmade.request = NoRequest
  /\ \A a \in Action : Verdict[a] \in {"approved", "rejected", "needs_revision"}
  /\ Verdict["submit"] = "pending_review" /\ "submit" \notin Action
  /\ \A name \in DOMAIN Requests : Findings[name] \in SUBSET Finds
<1>1. NoVariant \notin Variants /\ NoRequest \notin DOMAIN Requests
  BY ReviewAssumption DEF ReviewAssumption
<1>2. Idle \in Sessions /\ Idle.variant = NoVariant /\ Idle.saved = FALSE /\ Idle.round = 0
  BY DEF Idle, Sessions, Action
<1>3. Unmade \in Rows /\ Unmade.status = "none" /\ Unmade.request = NoRequest
  BY DEF Unmade, Rows, VariantStatus
<1>4. /\ \A a \in Action : Verdict[a] \in {"approved", "rejected", "needs_revision"}
      /\ Verdict["submit"] = "pending_review" /\ "submit" \notin Action
  BY DEF Action, Verdict
<1>5. \A name \in DOMAIN Requests : Findings[name] \in SUBSET Finds
  BY DEF Finds
<1> QED BY <1>1, <1>2, <1>3, <1>4, <1>5

LEMMA SetsAreFinite ==
  ASSUME IsFiniteSet(Reviewers), NEW v, NEW k
  PROVE  /\ IsFiniteSet(Deciding(v, k)) /\ Cardinality(Deciding(v, k)) \in Nat
         /\ Cardinality(Deciding(v, k)) <= Cardinality(Reviewers)
         /\ Cardinality(Reviewers) \in Nat
         /\ IsFiniteSet(Saved(v)) /\ Cardinality(Saved(v)) \in Nat
<1>1. Deciding(v, k) \subseteq Reviewers /\ Saved(v) \subseteq Reviewers
  BY DEF Deciding, Saved
<1> QED BY <1>1, FS_Subset, FS_CardinalityType

LEMMA LoggedIsFinite ==
  ASSUME Shape, NEW v \in Variants, NEW k
  PROVE  IsFiniteSet(Logged(v, k)) /\ Cardinality(Logged(v, k)) \in Nat
<1>1. approvals[v] \in Seq(Entries)
  BY DEF Shape
<1>2. Len(approvals[v]) \in Nat /\ DOMAIN approvals[v] = 1..Len(approvals[v])
  BY <1>1
<1>3. Logged(v, k) \subseteq 1..Len(approvals[v])
  BY <1>2 DEF Logged
<1>4. IsFiniteSet(1..Len(approvals[v]))
  BY <1>2, FS_Interval
<1> QED BY <1>3, <1>4, FS_Subset, FS_CardinalityType

(* A variant with a verdict was put up for review.                           *)
LEMMA SaidInRounds ==
  ASSUME Inv, NEW v \in Variants
  PROVE  /\ \A st : Said(v, st) => rounds[v] >= 1 /\ rounds[v] \in Nat
         /\ \A r \in Saved(v) : /\ session[r] # Idle /\ session[r].action \in Action
                                /\ session[r].round \in 1..rounds[v]
         /\ approvals[v] # <<>> => variant[v] # Unmade
<1>1. rounds[v] \in Nat /\ approvals[v] \in Seq(Entries)
  BY DEF Inv, Shape
<1>2. ASSUME NEW r \in Saved(v)
      PROVE  /\ session[r] # Idle /\ session[r].action \in Action
             /\ session[r].round \in 1..rounds[v]
  <2>1. r \in Reviewers /\ session[r].saved /\ session[r].variant = v /\ session[r] \in Sessions
    BY DEF Saved, Inv, Shape
  <2>2. session[r] # Idle
    BY <2>1, Names
  <2>3. Busy(session[r], variant[v], rounds[v])
    BY <2>1, <2>2 DEF Inv, InRounds
  <2> QED BY <2>1, <2>2, <2>3 DEF Busy, Sessions
<1>3. ASSUME NEW i \in DOMAIN approvals[v] PROVE approvals[v][i].round \in 1..rounds[v]
  BY DEF Inv, InRounds
<1>4. \A st : Said(v, st) => rounds[v] >= 1
  BY <1>1, <1>2, <1>3 DEF Said
<1>5. ASSUME approvals[v] # <<>> PROVE variant[v] # Unmade
  <2>1. 1 \in DOMAIN approvals[v]
    BY <1>1, <1>5
  <2>2. rounds[v] # 0
    BY <1>1, <1>3, <2>1
  <2> QED BY <2>2, Names DEF Inv, InRounds
<1> QED BY <1>1, <1>2, <1>4, <1>5

(* What was cleared stays cleared while nobody decides.                      *)
LEMMA MoreWaiversClear ==
  ASSUME NEW v, NEW name, NEW e, NEW A, NEW B, A \subseteq B, Cleared(v, name, A, e)
  PROVE  Cleared(v, name, B, e)
BY DEF Cleared

LEMMA ClearedStays ==
  ASSUME Inv, UNCHANGED <<approvals, session>>, adminWaived \subseteq adminWaived',
         \A v \in Variants : variant[v] # Unmade => variant'[v].request = variant[v].request
  PROVE  AllCleared'
<1>1. ASSUME NEW r \in Reviewers, session[r] # Idle
      PROVE  Cleared(session[r].variant, variant'[session[r].variant].request, adminWaived', session[r])
  <2> DEFINE v == session[r].variant
  <2>1. /\ v \in Variants /\ Cleared(v, variant[v].request, adminWaived, session[r])
        /\ variant[v] # Unmade
    BY <1>1 DEF Inv, InRounds, AllCleared, Busy
  <2>2. variant'[v].request = variant[v].request
    BY <2>1
  <2> QED BY <2>1, <2>2, MoreWaiversClear
<1>2. ASSUME NEW v \in Variants, NEW i \in DOMAIN approvals[v]
      PROVE  Cleared(v, variant'[v].request, adminWaived', approvals[v][i])
  <2>1. approvals[v] # <<>> /\ Cleared(v, variant[v].request, adminWaived, approvals[v][i])
    BY <1>2 DEF Inv, AllCleared
  <2>2. variant'[v].request = variant[v].request
    BY <2>1, SaidInRounds
  <2> QED BY <2>1, <2>2, MoreWaiversClear
<1> QED BY <1>1, <1>2 DEF AllCleared

(* Rounds and log are judged by approvals, session and the status only.      *)
LEMMA LogStays ==
  ASSUME Inv, UNCHANGED <<approvals, session, rounds>>,
         \A v \in Variants : \/ variant'[v] = variant[v]
                             \/ variant[v] = Unmade /\ variant'[v].status = "draft"
  PROVE  /\ InRounds' /\ DecidedOnce'
         /\ UNCHANGED pool => PoolIsApproved'
<1>1. \A v \in Variants : Saved(v)' = Saved(v) /\ \A st : Said(v, st)' <=> Said(v, st)
  BY DEF Saved, Said
<1>2. \A v \in Variants : \A k : Logged(v, k)' = Logged(v, k) /\ Deciding(v, k)' = Deciding(v, k)
  BY DEF Logged, Deciding
<1>3. \A v \in Variants : variant[v] = Unmade =>
         rounds[v] = 0 /\ variant[v].status = "none"
  BY Names DEF Inv, InRounds
<1>4. InRounds'
  <2>1. ASSUME NEW r \in Reviewers, session[r] # Idle
        PROVE  /\ session[r].variant \in Variants
               /\ Busy(session[r], variant'[session[r].variant], rounds[session[r].variant])
    <3>1. /\ session[r].variant \in Variants
          /\ Busy(session[r], variant[session[r].variant], rounds[session[r].variant])
      BY <2>1 DEF Inv, InRounds
    <3> QED BY <3>1 DEF Busy
  <2>2. ASSUME NEW v \in Variants
        PROVE  /\ rounds[v] = 0 <=> variant'[v].status \in {"none", "draft"}
               /\ \A i \in DOMAIN approvals[v] : approvals[v][i].round \in 1..rounds[v]
               /\ variant'[v].status = "pending_review" =>
                    /\ \A i \in DOMAIN approvals[v] : approvals[v][i].round # rounds[v]
                    /\ \A r \in Saved(v) : session[r].round # rounds[v]
    BY <1>3 DEF Inv, InRounds
  <2> QED BY <1>1, <2>1, <2>2 DEF InRounds
<1>5. DecidedOnce'
  BY <1>1, <1>2, <1>3 DEF Inv, DecidedOnce
<1>6. ASSUME UNCHANGED pool PROVE PoolIsApproved'
  <2>1. ASSUME NEW v \in pool PROVE v \in Variants /\ variant[v] # Unmade
    <3>1. v \in Variants /\ Said(v, "approved")
      BY DEF Inv, Shape, PoolIsApproved
    <3>2. rounds[v] >= 1
      BY <3>1, SaidInRounds
    <3> QED BY <1>3, <3>1, <3>2
  <2> QED BY <1>1, <1>6, <2>1 DEF Inv, PoolIsApproved
<1> QED BY <1>4, <1>5, <1>6

LEMMA GenerateKeeps ==
  ASSUME Inv, NEW v \in Variants, NEW tokens, NEW name \in DOMAIN Requests,
         GenerateVariant(v, tokens, name)
  PROVE  Inv'
<1> DEFINE row == [status |-> "draft", request |-> name]
<1>1. /\ variant[v] = Unmade /\ variant' = [variant EXCEPT ![v] = row]
      /\ UNCHANGED <<checked, found, waived, adminWaived, approvals, session, pool, rounds>>
  BY DEF GenerateVariant, findingVars
<1>2. row \in Rows /\ row.status = "draft" /\ row.request = name
  BY DEF Rows, VariantStatus
<1>3. variant \in [Variants -> Rows]
  BY DEF Inv, Shape
<1> HIDE DEF row
<1>4. variant'[v] = row /\ \A w \in Variants \ {v} : variant'[w] = variant[w]
  BY <1>1, <1>3
<1>5. row # Unmade /\ v \notin checked
  BY <1>1, <1>2, Names DEF Inv, Sound
<1>6. Shape'
  BY <1>1, <1>2, <1>3 DEF Inv, Shape
<1>7. Sound'
  <2>1. \A w \in checked : w \in Variants
    BY DEF Inv, Shape
  <2> QED BY <1>1, <1>2, <1>4, <1>5, <2>1 DEF Inv, Sound
<1>8. AllCleared'
  BY <1>1, <1>4, ClearedStays
<1>9. InRounds' /\ DecidedOnce' /\ PoolIsApproved'
  BY <1>1, <1>2, <1>4, LogStays
<1> QED BY <1>6, <1>7, <1>8, <1>9 DEF Inv

LEMMA CheckKeeps == ASSUME Inv, NEW v \in Variants, Check(v) PROVE Inv'
<1>1. /\ variant[v] # Unmade /\ checked' = checked \cup {v}
      /\ found' = [found EXCEPT ![v] = Findings[variant[v].request]]
      /\ waived' = [waived EXCEPT ![v] = {}]
      /\ UNCHANGED <<variant, adminWaived, approvals, session, pool, rounds>>
  BY DEF Check
<1>2. Findings[variant[v].request] \in SUBSET Finds
  BY <1>1, Names DEF Inv, Sound
<1>3. /\ found \in [Variants -> SUBSET Finds] /\ waived \in [Variants -> SUBSET Finds]
      /\ \A w \in checked : w \in Variants
  BY DEF Inv, Shape
<1>4. /\ found'[v] = Findings[variant[v].request] /\ waived'[v] = {}
      /\ \A w \in Variants \ {v} : found'[w] = found[w] /\ waived'[w] = waived[w]
  BY <1>1, <1>3
<1>5. Shape'
  BY <1>1, <1>2, <1>3, <1>4 DEF Inv, Shape
<1>6. Sound'
  BY <1>1, <1>3, <1>4 DEF Inv, Sound
<1>7. AllCleared' /\ InRounds' /\ DecidedOnce' /\ PoolIsApproved'
  BY <1>1, ClearedStays, LogStays
<1> QED BY <1>5, <1>6, <1>7 DEF Inv

LEMMA WaiveKeeps ==
  ASSUME Inv, NEW v \in Variants, NEW finding \in found[v], NEW admin \in BOOLEAN,
         Waive(v, finding, admin)
  PROVE  Inv'
<1>1. /\ finding.severity = "block" => admin
      /\ waived' = [waived EXCEPT ![v] = @ \cup {finding}]
      /\ adminWaived' = IF admin /\ finding.severity = "block"
                        THEN adminWaived \cup {<<v, finding>>} ELSE adminWaived
      /\ UNCHANGED <<variant, checked, found, approvals, session, pool, rounds>>
  BY DEF Waive, MayWaive
<1>2. /\ found \in [Variants -> SUBSET Finds] /\ waived \in [Variants -> SUBSET Finds]
      /\ finding \in Finds
  BY DEF Inv, Shape
<1>3. /\ waived'[v] = waived[v] \cup {finding}
      /\ \A w \in Variants \ {v} : waived'[w] = waived[w]
  BY <1>1, <1>2
<1>4. Shape'
  BY <1>1, <1>2, <1>3 DEF Inv, Shape
<1>5. Sound'
  BY <1>1, <1>3 DEF Inv, Sound
<1>6. AllCleared' /\ InRounds' /\ DecidedOnce' /\ PoolIsApproved'
  BY <1>1, ClearedStays, LogStays
<1> QED BY <1>4, <1>5, <1>6 DEF Inv

LEMMA ScheduleKeeps == ASSUME Inv, NEW v \in Variants, ScheduleVariant(v) PROVE Inv'
<1>1. /\ variant[v].status = "approved" /\ pool' = pool \cup {v}
      /\ UNCHANGED <<variant, checked, found, waived, adminWaived, approvals, session, rounds>>
  BY DEF ScheduleVariant, Schedulable, findingVars
<1>2. Shape' /\ Sound'
  BY <1>1 DEF Inv, Shape, Sound
<1>3. AllCleared' /\ InRounds' /\ DecidedOnce'
  BY <1>1, ClearedStays, LogStays
<1>4. Said(v, "approved")
  BY <1>1 DEF Inv, DecidedOnce
<1>5. \A w \in Variants : Saved(w)' = Saved(w) /\ \A st : Said(w, st)' <=> Said(w, st)
  BY <1>1 DEF Saved, Said
<1>6. PoolIsApproved'
  <2>1. \A w \in pool : w \in Variants
    BY DEF Inv, Shape
  <2> QED BY <1>1, <1>4, <1>5, <2>1 DEF Inv, PoolIsApproved
<1> QED BY <1>2, <1>3, <1>6 DEF Inv

LEMMA SubmitKeeps ==
  ASSUME Inv, NEW v \in Variants, NEW r \in Reviewers, Submit(r, v)
  PROVE  Inv'
<1> DEFINE s == [Idle EXCEPT !.variant = v]
<1>1. /\ session[r] = Idle /\ variant[v].status = "draft"
      /\ UNCHANGED <<variant, checked, found, waived, adminWaived, approvals, pool, rounds>>
  BY DEF Submit, findingVars
<1>2. session \in [Reviewers -> Sessions]
  BY DEF Inv, Shape
<1>3. session' = [session EXCEPT ![r] = s]
  BY <1>1, <1>2 DEF Submit
<1>4. /\ s \in Sessions /\ s.variant = v /\ s.action = "submit" /\ s.round = 0
      /\ ~s.saved /\ ~s.informed
  BY DEF Idle, Sessions
<1> HIDE DEF s
<1>5. session'[r] = s /\ \A q \in Reviewers \ {r} : session'[q] = session[q]
  BY <1>2, <1>3
<1>6. /\ ~session[r].saved /\ session[r].round = 0 /\ variant[v] # Unmade
  BY <1>1, Names
<1>7. Shape'
  BY <1>1, <1>3, <1>4 DEF Inv, Shape
<1>8. Sound'
  BY <1>1 DEF Inv, Sound
<1>9. \A w \in Variants : /\ Saved(w)' = Saved(w)
                          /\ \A q \in Saved(w) : session'[q] = session[q]
                          /\ \A st : Said(w, st)' <=> Said(w, st)
  BY <1>1, <1>4, <1>5, <1>6 DEF Saved, Said
<1>10. InRounds'
  <2>1. ASSUME NEW q \in Reviewers, session'[q] # Idle
        PROVE  /\ session'[q].variant \in Variants
               /\ Busy(session'[q], variant[session'[q].variant], rounds[session'[q].variant])
    <3>1. CASE q = r
      BY <1>4, <1>5, <1>6, <3>1 DEF Busy
    <3>2. CASE q # r
      BY <1>5, <2>1, <3>2 DEF Inv, InRounds
    <3> QED BY <3>1, <3>2
  <2> QED BY <1>1, <1>9, <2>1 DEF Inv, InRounds
<1>11. AllCleared'
  <2>1. Cleared(v, variant[v].request, adminWaived, s)
    BY <1>4, Names DEF Cleared
  <2>2. ASSUME NEW q \in Reviewers, session'[q] # Idle
        PROVE  Cleared(session'[q].variant, variant[session'[q].variant].request, adminWaived, session'[q])
    <3>1. CASE q = r
      BY <1>4, <1>5, <2>1, <3>1
    <3>2. CASE q # r
      BY <1>5, <2>2, <3>2 DEF Inv, AllCleared
    <3> QED BY <3>1, <3>2
  <2> QED BY <1>1, <2>2 DEF Inv, AllCleared
<1>12. DecidedOnce'
  <2>1. \A w \in Variants : \A k \in 1..rounds[w] :
          Logged(w, k)' = Logged(w, k) /\ Deciding(w, k)' = Deciding(w, k)
    BY <1>1, <1>4, <1>5, <1>6 DEF Logged, Deciding
  <2> QED BY <1>1, <1>9, <2>1 DEF Inv, DecidedOnce
<1>13. PoolIsApproved'
  <2>1. \A w \in pool : w \in Variants
    BY DEF Inv, Shape
  <2> QED BY <1>1, <1>9, <2>1 DEF Inv, PoolIsApproved
<1> QED BY <1>7, <1>8, <1>10, <1>11, <1>12, <1>13 DEF Inv

(* Whoever may decide has what the entry will say.                           *)
LEMMA MayDecideClears ==
  ASSUME Inv, NEW v \in Variants, NEW action \in Action, NEW admin \in BOOLEAN,
         NEW guideChanged \in BOOLEAN, MayDecide(v, action, admin, guideChanged),
         NEW e, e.action = action, Verdict[action] = "approved" => e.admin = admin,
         e.informed => v \in checked
  PROVE  Cleared(v, variant[v].request, adminWaived, e)
<1>1. CASE ~e.informed
  BY <1>1 DEF Cleared
<1>2. CASE e.informed
  <2>1. found[v] = Findings[variant[v].request]
    BY <1>2 DEF Inv, Sound
  <2>2. ASSUME Verdict[action] = "approved", ~admin
        PROVE  \A f \in found[v] : f.severity = "block" => <<v, f>> \in adminWaived
    <3>1. action \in {"approve", "batch_approve"}
      BY <2>2 DEF Action, Verdict
    <3>2. ~Blocked(v)
      BY <2>2, <3>1 DEF MayDecide
    <3> QED BY <3>2 DEF Blocked, Has, Inv, Sound
  <2>3. ASSUME action = "batch_approve" PROVE ~Has(found[v], "warn")
    BY <2>3 DEF MayDecide, Flagged
  <2> QED BY <1>2, <2>1, <2>2, <2>3 DEF Cleared
<1> QED BY <1>1, <1>2

LEMMA DecideKeeps ==
  ASSUME Inv, IsFiniteSet(Reviewers), NEW v \in Variants, NEW r \in Reviewers,
         NEW action \in Action, NEW admin \in BOOLEAN, NEW guideChanged \in BOOLEAN,
         Decide(r, v, action, admin, guideChanged)
  PROVE  Inv'
<1> DEFINE approving == Verdict[action] = "approved"
           s == [variant |-> v, action |-> action, admin |-> approving /\ admin,
                 informed |-> approving /\ v \in checked, round |-> rounds[v], saved |-> FALSE]
<1>1. /\ session[r] = Idle /\ MayDecide(v, action, admin, guideChanged)
      /\ session' = [session EXCEPT ![r] = s]
      /\ UNCHANGED <<variant, checked, found, waived, adminWaived, approvals, pool, rounds>>
  BY DEF Decide, findingVars
<1>2. session \in [Reviewers -> Sessions] /\ rounds[v] \in Nat
  BY DEF Inv, Shape
<1>3. /\ s.variant = v /\ s.action = action /\ s.round = rounds[v] /\ ~s.saved
      /\ Verdict[action] = "approved" => s.admin = admin
      /\ s.informed => v \in checked
      /\ s \in Sessions
  BY <1>2 DEF Sessions
<1> HIDE DEF s
<1>4. session'[r] = s /\ \A q \in Reviewers \ {r} : session'[q] = session[q]
  BY <1>1, <1>2
<1>5. /\ ~session[r].saved /\ session[r].variant = NoVariant /\ variant[v] # Unmade
      /\ variant[v].status = "pending_review"
  BY <1>1, Names DEF MayDecide, Reviewable
<1>6. rounds[v] \in 1..rounds[v]
  BY <1>2, <1>5 DEF Inv, InRounds
<1>7. Shape'
  BY <1>1, <1>3 DEF Inv, Shape
<1>8. Sound'
  BY <1>1 DEF Inv, Sound
<1>9. \A w \in Variants : /\ Saved(w)' = Saved(w)
                          /\ \A q \in Saved(w) : session'[q] = session[q]
                          /\ \A st : Said(w, st)' <=> Said(w, st)
  BY <1>1, <1>3, <1>4, <1>5 DEF Saved, Said
<1>10. InRounds'
  <2>1. ASSUME NEW q \in Reviewers, session'[q] # Idle
        PROVE  /\ session'[q].variant \in Variants
               /\ Busy(session'[q], variant[session'[q].variant], rounds[session'[q].variant])
    <3>1. CASE q = r
      BY <1>3, <1>4, <1>5, <1>6, <3>1, Names DEF Busy
    <3>2. CASE q # r
      BY <1>4, <2>1, <3>2 DEF Inv, InRounds
    <3> QED BY <3>1, <3>2
  <2> QED BY <1>1, <1>9, <2>1 DEF Inv, InRounds
<1>11. AllCleared'
  <2>1. Cleared(v, variant[v].request, adminWaived, s)
    BY <1>1, <1>3, MayDecideClears
  <2>2. ASSUME NEW q \in Reviewers, session'[q] # Idle
        PROVE  Cleared(session'[q].variant, variant[session'[q].variant].request, adminWaived, session'[q])
    <3>1. CASE q = r
      BY <1>3, <1>4, <2>1, <3>1
    <3>2. CASE q # r
      BY <1>4, <2>2, <3>2 DEF Inv, AllCleared
    <3> QED BY <3>1, <3>2
  <2> QED BY <1>1, <2>2 DEF Inv, AllCleared
<1>12. DecidedOnce'
  <2>1. ASSUME NEW w \in Variants, NEW k \in 1..rounds[w]
        PROVE  Cardinality(Logged(w, k)') + Cardinality(Deciding(w, k)') <= Cardinality(Reviewers)
    <3>1. Logged(w, k)' = Logged(w, k)
      BY <1>1 DEF Logged
    <3>2. CASE w = v /\ k = rounds[v]
      <4>1. Logged(w, k) = {}
        BY <1>5, <3>2 DEF Inv, InRounds, Logged
      <4>2. Deciding(w, k)' \subseteq Reviewers
        BY DEF Deciding
      <4>3. /\ Cardinality(Deciding(w, k)') <= Cardinality(Reviewers)
            /\ Cardinality(Deciding(w, k)') \in Nat /\ Cardinality(Reviewers) \in Nat
        BY <4>2, FS_Subset, FS_CardinalityType
      <4> QED BY <3>1, <4>1, <4>3, FS_EmptySet
    <3>3. CASE ~(w = v /\ k = rounds[v])
      <4>1. Deciding(w, k)' = Deciding(w, k)
        BY <1>3, <1>4, <1>5, <3>3, Names DEF Deciding
      <4> QED BY <3>1, <4>1 DEF Inv, DecidedOnce
    <3> QED BY <3>2, <3>3
  <2> QED BY <1>1, <1>9, <2>1 DEF Inv, DecidedOnce
<1>13. PoolIsApproved'
  <2>1. \A w \in pool : w \in Variants
    BY DEF Inv, Shape
  <2> QED BY <1>1, <1>9, <2>1 DEF Inv, PoolIsApproved
<1> QED BY <1>7, <1>8, <1>10, <1>11, <1>12, <1>13 DEF Inv

(* What a status becomes, when a thread saves one.                           *)
LEMMA SavedStatus ==
  ASSUME Inv, NEW r \in Reviewers, SaveStatus(r)
  PROVE  LET s == session[r]
             v == s.variant
         IN  /\ s # Idle /\ ~s.saved /\ s \in Sessions /\ v \in Variants
             /\ Busy(s, variant[v], rounds[v])
             /\ variant' \in [Variants -> Rows]
             /\ variant'[v].status = Verdict[s.action]
             /\ \A w \in Variants \ {v} : variant'[w] = variant[w]
             /\ \A w \in Variants : /\ variant'[w].request = variant[w].request
                                    /\ variant[w] # Unmade => variant'[w] # Unmade
             /\ Sound'
             /\ UNCHANGED <<checked, found, waived, adminWaived, approvals, pool>>
<1> DEFINE s == session[r]
           v == s.variant
           row == [variant[v] EXCEPT !.status = Verdict[s.action]]
<1>1. /\ s # Idle /\ ~s.saved
      /\ UNCHANGED <<checked, found, waived, adminWaived, approvals, pool>>
  BY DEF SaveStatus, findingVars
<1>2. /\ s \in Sessions /\ v \in Variants /\ Busy(s, variant[v], rounds[v])
      /\ variant \in [Variants -> Rows]
  BY <1>1 DEF Inv, Shape, InRounds
<1>3. variant' = [variant EXCEPT ![v] = row]
  BY <1>2 DEF SaveStatus
<1>4. Verdict[s.action] \in VariantStatus \ {"none", "draft"}
  <2>1. s.action \in Action \cup {"submit"}
    BY <1>2 DEF Sessions
  <2> QED BY <2>1, Names DEF VariantStatus
<1>5. row \in Rows /\ row.status = Verdict[s.action] /\ row.request = variant[v].request
  <2>1. variant[v] \in Rows
    BY <1>2
  <2>2. \A x \in Rows, st \in VariantStatus :
          /\ [x EXCEPT !.status = st] \in Rows /\ [x EXCEPT !.status = st].status = st
          /\ [x EXCEPT !.status = st].request = x.request
    BY DEF Rows
  <2> HIDE DEF s, v
  <2> QED BY <1>4, <2>1, <2>2
<1> HIDE DEF s, v, row
<1>6. variant'[v] = row /\ \A w \in Variants \ {v} : variant'[w] = variant[w]
  BY <1>2, <1>3
<1>7. row # Unmade /\ variant[v] # Unmade
  BY <1>2, <1>4, <1>5, Names DEF Busy
<1>8. variant' \in [Variants -> Rows]
  BY <1>2, <1>3, <1>5
<1>9. Sound'
  <2>1. ASSUME NEW w \in Variants, variant'[w] # Unmade
        PROVE  variant'[w].status # "none" /\ variant'[w].request \in DOMAIN Requests
    <3>1. variant[w] # Unmade
      BY <1>6, <1>7, <2>1
    <3>2. variant[w].status # "none" /\ variant[w].request \in DOMAIN Requests
      BY <3>1 DEF Inv, Sound
    <3> QED BY <1>4, <1>5, <1>6, <3>2
  <2>2. ASSUME NEW w \in checked
        PROVE  variant'[w] # Unmade /\ found[w] = Findings[variant'[w].request]
    <3>1. w \in Variants /\ variant[w] # Unmade /\ found[w] = Findings[variant[w].request]
      BY DEF Inv, Sound, Shape
    <3> QED BY <1>5, <1>6, <1>7, <3>1
  <2> QED BY <1>1, <2>1, <2>2 DEF Inv, Sound
<1>10. \A w \in Variants : /\ variant'[w].request = variant[w].request
                           /\ variant[w] # Unmade => variant'[w] # Unmade
  BY <1>5, <1>6, <1>7
<1>11. variant'[v].status = Verdict[s.action]
  BY <1>5, <1>6
<1> QED BY <1>1, <1>2, <1>6, <1>8, <1>9, <1>10, <1>11 DEF s, v

(* A submission that is saved puts the variant up for review once more.      *)
LEMMA SaveSubmissionKeeps ==
  ASSUME Inv, IsFiniteSet(Reviewers), NEW r \in Reviewers, SaveStatus(r),
         session[r].action = "submit"
  PROVE  Inv'
<1> DEFINE s == session[r]
           v == s.variant
<1>1. /\ s # Idle /\ ~s.saved /\ s.round = 0 /\ s \in Sessions /\ v \in Variants
      /\ variant[v] # Unmade /\ variant'[v].status = "pending_review" /\ Sound'
      /\ variant' \in [Variants -> Rows]
      /\ \A w \in Variants \ {v} : variant'[w] = variant[w]
      /\ \A w \in Variants : /\ variant'[w].request = variant[w].request
                             /\ variant[w] # Unmade => variant'[w] # Unmade
      /\ UNCHANGED <<checked, found, waived, adminWaived, approvals, pool>>
  BY SavedStatus, Names DEF Busy
<1>2. /\ session' = [session EXCEPT ![r] = Idle]
      /\ rounds' = [rounds EXCEPT ![v] = @ + 1]
  BY DEF SaveStatus
<1>3. session \in [Reviewers -> Sessions] /\ rounds \in [Variants -> Nat]
  BY DEF Inv, Shape
<1> HIDE DEF s, v
<1>4. /\ session'[r] = Idle /\ \A q \in Reviewers \ {r} : session'[q] = session[q]
      /\ rounds'[v] = rounds[v] + 1 /\ rounds[v] \in Nat
      /\ \A w \in Variants \ {v} : rounds'[w] = rounds[w]
  BY <1>1, <1>2, <1>3
<1>5. Shape'
  <2>1. session' \in [Reviewers -> Sessions] /\ rounds' \in [Variants -> Nat]
    BY <1>1, <1>2, <1>3, Names
  <2> QED BY <1>1, <2>1 DEF Inv, Shape
<1>6. \A w \in Variants : /\ Saved(w)' = Saved(w)
                          /\ \A q \in Saved(w) : session'[q] = session[q]
                          /\ \A st : Said(w, st)' <=> Said(w, st)
  BY <1>1, <1>4, Names DEF Saved, Said, s
<1>7. \A w \in Variants : rounds[w] \in Nat /\ rounds'[w] \in Nat /\ rounds'[w] >= rounds[w]
  BY <1>3, <1>4
<1>8. InRounds'
  <2>1. ASSUME NEW q \in Reviewers, session'[q] # Idle
        PROVE  /\ session'[q].variant \in Variants
               /\ Busy(session'[q], variant'[session'[q].variant], rounds'[session'[q].variant])
    <3>1. session'[q] = session[q] /\ session[q] # Idle
      BY <1>4, <2>1
    <3>2. /\ session[q].variant \in Variants
          /\ Busy(session[q], variant[session[q].variant], rounds[session[q].variant])
      BY <3>1 DEF Inv, InRounds
    <3> DEFINE w == session[q].variant
    <3>3. w \in Variants /\ variant'[w] # Unmade
      BY <1>1, <3>2 DEF Busy
    <3>4. session[q].action # "submit" => session[q].round \in 1..rounds'[w]
      BY <1>7, <3>2 DEF Busy
    <3> QED BY <3>1, <3>2, <3>3, <3>4 DEF Busy
  <2>2. ASSUME NEW w \in Variants
        PROVE  /\ rounds'[w] = 0 <=> variant'[w].status \in {"none", "draft"}
               /\ \A i \in DOMAIN approvals[w] : approvals[w][i].round \in 1..rounds'[w]
               /\ variant'[w].status = "pending_review" =>
                    /\ \A i \in DOMAIN approvals[w] : approvals[w][i].round # rounds'[w]
                    /\ \A q \in Saved(w) : session[q].round # rounds'[w]
    <3>1. CASE w = v
      <4>1. /\ \A i \in DOMAIN approvals[v] : approvals[v][i].round \in 1..rounds[v]
            /\ \A q \in Saved(v) : session[q].round \in 1..rounds[v]
        BY <1>1, SaidInRounds DEF Inv, InRounds
      <4> QED BY <1>1, <1>4, <3>1, <4>1
    <3>2. CASE w # v
      BY <1>1, <1>4, <3>2 DEF Inv, InRounds
    <3> QED BY <3>1, <3>2
  <2> QED BY <1>1, <1>6, <2>1, <2>2 DEF InRounds
<1>9. AllCleared'
  <2>1. ASSUME NEW q \in Reviewers, session'[q] # Idle
        PROVE  Cleared(session'[q].variant, variant'[session'[q].variant].request, adminWaived, session'[q])
    <3>1. session'[q] = session[q] /\ session[q] # Idle
      BY <1>4, <2>1
    <3>2. session[q].variant \in Variants
      BY <3>1 DEF Inv, InRounds
    <3> QED BY <1>1, <3>1, <3>2 DEF Inv, AllCleared
  <2> QED BY <1>1, <2>1 DEF Inv, AllCleared
<1>10. DecidedOnce'
  <2>1. ASSUME NEW w \in Variants, NEW k \in 1..rounds'[w]
        PROVE  Cardinality(Logged(w, k)') + Cardinality(Deciding(w, k)') <= Cardinality(Reviewers)
    <3>1. Logged(w, k)' = Logged(w, k)
      BY <1>1 DEF Logged
    <3>2. Deciding(w, k)' = Deciding(w, k)
      BY <1>1, <1>4, Names DEF Deciding, s
    <3>3. CASE k \in 1..rounds[w]
      BY <3>1, <3>2, <3>3 DEF Inv, DecidedOnce
    <3>4. CASE k \notin 1..rounds[w]
      <4>1. Logged(w, k) = {}
        BY <3>4 DEF Inv, InRounds, Logged
      <4>2. Cardinality(Logged(w, k)) = 0
        BY <4>1, FS_EmptySet
      <4> QED BY <3>1, <3>2, <4>2, SetsAreFinite
    <3> QED BY <3>3, <3>4
  <2>2. ASSUME NEW w \in Variants
        PROVE  (variant[w].status \in {"none", "draft", "pending_review"} \/ Said(w, variant[w].status))'
    <3>1. PICK st : st = variant'[w].status
      OBVIOUS
    <3>2. CASE w = v
      BY <1>1, <3>2
    <3>3. CASE w # v
      BY <1>1, <1>6, <3>1, <3>3 DEF Inv, DecidedOnce
    <3> QED BY <3>2, <3>3
  <2> QED BY <2>1, <2>2 DEF DecidedOnce
<1>11. PoolIsApproved'
  <2>1. ASSUME NEW w \in pool
        PROVE  /\ Said(w, "approved")'
               /\ \/ variant'[w].status = "approved"
                  \/ Len(approvals'[w]) + Cardinality(Saved(w)') > 1
                  \/ rounds'[w] > 1
    <3>1. w \in Variants /\ Said(w, "approved")
      BY DEF Inv, Shape, PoolIsApproved
    <3>2. rounds[w] >= 1 /\ rounds[w] \in Nat
      BY <3>1, SaidInRounds
    <3>3. CASE w = v
      BY <1>4, <1>6, <3>1, <3>2, <3>3
    <3>4. CASE w # v
      <4>1. \/ variant[w].status = "approved"
            \/ Len(approvals[w]) + Cardinality(Saved(w)) > 1
            \/ rounds[w] > 1
        BY DEF Inv, PoolIsApproved
      <4> QED BY <1>1, <1>4, <1>6, <3>1, <3>4, <4>1
    <3> QED BY <3>3, <3>4
  <2> QED BY <1>1, <2>1 DEF PoolIsApproved
<1> QED BY <1>1, <1>5, <1>8, <1>9, <1>10, <1>11 DEF Inv

LEMMA SessionSaved ==
  ASSUME NEW x \in Sessions
  PROVE  LET y == [x EXCEPT !.saved = TRUE]
         IN  /\ y \in Sessions /\ y.variant = x.variant /\ y.action = x.action
             /\ y.round = x.round /\ y.saved /\ y.admin = x.admin /\ y.informed = x.informed
BY DEF Sessions

(* Who saves a verdict says it, and what others said stays said.             *)
LEMMA SaveVerdictKeeps ==
  ASSUME Inv, IsFiniteSet(Reviewers), NEW r \in Reviewers, SaveStatus(r),
         session[r].action # "submit"
  PROVE  Inv'
<1>0. PICK s, v : s = session[r] /\ v = s.variant
  OBVIOUS
<1> DEFINE t == [s EXCEPT !.saved = TRUE]
<1>1. /\ s # Idle /\ ~s.saved /\ s \in Sessions /\ v \in Variants
      /\ s.round \in 1..rounds[v]
      /\ variant[v] # Unmade /\ variant'[v].status = Verdict[s.action] /\ Sound'
      /\ variant' \in [Variants -> Rows]
      /\ \A w \in Variants \ {v} : variant'[w] = variant[w]
      /\ \A w \in Variants : /\ variant'[w].request = variant[w].request
                             /\ variant[w] # Unmade => variant'[w] # Unmade
      /\ UNCHANGED <<checked, found, waived, adminWaived, approvals, pool>>
  BY <1>0, SavedStatus DEF Busy
<1>2. UNCHANGED rounds
  BY DEF SaveStatus
<1>3. session \in [Reviewers -> Sessions] /\ rounds \in [Variants -> Nat]
  BY DEF Inv, Shape
<1>4. session' = [session EXCEPT ![r] = t]
  BY <1>0, <1>3 DEF SaveStatus
<1>5. /\ t \in Sessions /\ t.variant = v /\ t.action = s.action /\ t.round = s.round
      /\ t.saved /\ t.admin = s.admin /\ t.informed = s.informed
  BY <1>0, <1>1, SessionSaved
<1>6. s.action \in Action /\ s.action # "submit"
  BY <1>0, <1>1 DEF Sessions
<1> HIDE DEF t
<1>7. session'[r] = t /\ \A q \in Reviewers \ {r} : session'[q] = session[q]
  BY <1>3, <1>4
<1>8. Shape'
  BY <1>1, <1>2, <1>3, <1>4, <1>5 DEF Inv, Shape
<1>9. /\ Saved(v)' = Saved(v) \cup {r} /\ r \notin Saved(v)
      /\ \A w \in Variants \ {v} : Saved(w)' = Saved(w)
      /\ \A w \in Variants : \A q \in Saved(w) : session'[q] = session[q]
      /\ session[r] = s
  BY <1>0, <1>1, <1>5, <1>7 DEF Saved
<1>10. /\ \A w \in Variants : \A st : Said(w, st) => Said(w, st)'
       /\ Said(v, Verdict[s.action])'
       /\ \A w \in Variants \ {v} : \A st : Said(w, st)' <=> Said(w, st)
  <2>1. r \in Saved(v)'
    BY <1>9
  <2>2. Said(v, Verdict[s.action])'
    BY <1>5, <1>7, <2>1 DEF Said
  <2> QED BY <1>1, <1>9, <2>2 DEF Said
<1>11. Verdict[s.action] \in {"approved", "rejected", "needs_revision"}
  BY <1>6, Names
<1>12. InRounds'
  <2>1. ASSUME NEW q \in Reviewers, session'[q] # Idle
        PROVE  /\ session'[q].variant \in Variants
               /\ Busy(session'[q], variant'[session'[q].variant], rounds[session'[q].variant])
    <3>1. CASE q = r
      BY <1>1, <1>5, <1>6, <1>7, <3>1 DEF Busy
    <3>2. CASE q # r
      <4>1. session'[q] = session[q] /\ session[q] # Idle
        BY <1>7, <2>1, <3>2
      <4>2. /\ session[q].variant \in Variants
            /\ Busy(session[q], variant[session[q].variant], rounds[session[q].variant])
        BY <4>1 DEF Inv, InRounds
      <4> QED BY <1>1, <4>1, <4>2 DEF Busy
    <3> QED BY <3>1, <3>2
  <2>2. ASSUME NEW w \in Variants
        PROVE  /\ rounds[w] = 0 <=> variant'[w].status \in {"none", "draft"}
               /\ \A i \in DOMAIN approvals[w] : approvals[w][i].round \in 1..rounds[w]
               /\ variant'[w].status = "pending_review" =>
                    /\ \A i \in DOMAIN approvals[w] : approvals[w][i].round # rounds[w]
                    /\ \A q \in Saved(w)' : session'[q].round # rounds[w]
    <3>1. CASE w = v
      <4>1. rounds[v] # 0
        BY <1>1, <1>3
      <4> QED BY <1>1, <1>11, <3>1, <4>1 DEF Inv, InRounds
    <3>2. CASE w # v
      BY <1>1, <1>9, <3>2 DEF Inv, InRounds
    <3> QED BY <3>1, <3>2
  <2> QED BY <1>1, <1>2, <2>1, <2>2 DEF InRounds
<1>13. AllCleared'
  <2>1. ASSUME NEW q \in Reviewers, session'[q] # Idle
        PROVE  Cleared(session'[q].variant, variant'[session'[q].variant].request, adminWaived, session'[q])
    <3>1. CASE q = r
      <4>1. Cleared(v, variant[v].request, adminWaived, s)
        BY <1>0, <1>1 DEF Inv, AllCleared
      <4>2. Cleared(v, variant[v].request, adminWaived, t)
        BY <1>5, <4>1 DEF Cleared
      <4> QED BY <1>1, <1>5, <1>7, <3>1, <4>2
    <3>2. CASE q # r
      <4>1. session'[q] = session[q] /\ session[q] # Idle
        BY <1>7, <2>1, <3>2
      <4>2. session[q].variant \in Variants
        BY <4>1 DEF Inv, InRounds
      <4> QED BY <1>1, <4>1, <4>2 DEF Inv, AllCleared
    <3> QED BY <3>1, <3>2
  <2> QED BY <1>1, <2>1 DEF Inv, AllCleared
<1>14. DecidedOnce'
  <2>1. \A w \in Variants : \A k : Logged(w, k)' = Logged(w, k) /\ Deciding(w, k)' = Deciding(w, k)
    BY <1>0, <1>1, <1>5, <1>7 DEF Logged, Deciding
  <2>2. ASSUME NEW w \in Variants
        PROVE  (variant[w].status \in {"none", "draft", "pending_review"} \/ Said(w, variant[w].status))'
    <3>1. PICK st : st = variant'[w].status
      OBVIOUS
    <3>2. CASE w = v
      BY <1>1, <1>10, <3>2
    <3>3. CASE w # v
      BY <1>1, <1>10, <3>1, <3>3 DEF Inv, DecidedOnce
    <3> QED BY <3>2, <3>3
  <2> QED BY <1>2, <2>1, <2>2 DEF Inv, DecidedOnce
<1>15. PoolIsApproved'
  <2>1. ASSUME NEW w \in pool
        PROVE  /\ Said(w, "approved")'
               /\ \/ variant'[w].status = "approved"
                  \/ Len(approvals'[w]) + Cardinality(Saved(w)') > 1
                  \/ rounds'[w] > 1
    <3>1. w \in Variants /\ Said(w, "approved")
      BY DEF Inv, Shape, PoolIsApproved
    <3>2. Said(w, "approved")'
      BY <1>10, <3>1
    <3>3. CASE w = v
      <4>1. /\ Len(approvals[v]) \in Nat /\ DOMAIN approvals[v] = 1..Len(approvals[v])
            /\ Cardinality(Saved(v)) \in Nat /\ IsFiniteSet(Saved(v))
        <5>1. approvals[v] \in Seq(Entries)
          BY <1>1 DEF Inv, Shape
        <5> QED BY <5>1, SetsAreFinite
      <4>2. Len(approvals[v]) + Cardinality(Saved(v)) >= 1
        <5>1. CASE DOMAIN approvals[v] # {}
          <6>1. Len(approvals[v]) >= 1
            BY <4>1, <5>1
          <6> QED BY <4>1, <6>1
        <5>2. CASE Saved(v) # {}
          <6>1. Cardinality(Saved(v)) # 0
            BY <4>1, <5>2, FS_EmptySet
          <6> QED BY <4>1, <6>1
        <5> QED BY <3>1, <3>3, <5>1, <5>2 DEF Said
      <4>3. Cardinality(Saved(v)') = Cardinality(Saved(v)) + 1
        BY <1>9, <4>1, FS_AddElement
      <4> QED BY <1>1, <3>2, <3>3, <4>1, <4>2, <4>3
    <3>4. CASE w # v
      BY <1>1, <1>2, <1>9, <3>1, <3>2, <3>4 DEF Inv, PoolIsApproved
    <3> QED BY <3>3, <3>4
  <2> QED BY <1>1, <2>1 DEF PoolIsApproved
<1> QED BY <1>1, <1>8, <1>12, <1>13, <1>14, <1>15 DEF Inv

(* A verdict that was saved becomes the next entry of the log.               *)
LEMMA LogKeeps ==
  ASSUME Inv, IsFiniteSet(Reviewers), NEW r \in Reviewers, Log(r)
  PROVE  Inv'
<1>0. PICK s, v : s = session[r] /\ v = s.variant
  OBVIOUS
<1> DEFINE e == [action |-> s.action, admin |-> s.admin, informed |-> s.informed,
                 round |-> s.round]
<1>1. /\ s.saved /\ session' = [session EXCEPT ![r] = Idle]
      /\ UNCHANGED <<variant, checked, found, waived, adminWaived, pool, rounds>>
      /\ approvals' = [approvals EXCEPT ![v] = Append(@, e)]
  BY <1>0 DEF Log, findingVars
<1>2. /\ s # Idle /\ s \in Sessions /\ session \in [Reviewers -> Sessions]
      /\ approvals \in [Variants -> Seq(Entries)] /\ rounds \in [Variants -> Nat]
  BY <1>0, <1>1, Names DEF Inv, Shape
<1>3. v \in Variants /\ Busy(s, variant[v], rounds[v])
  BY <1>0, <1>2 DEF Inv, InRounds
<1>4. s.action \in Action /\ s.round \in 1..rounds[v] /\ variant[v] # Unmade
  BY <1>1, <1>2, <1>3 DEF Busy, Sessions
<1>5. /\ e \in Entries /\ e.action = s.action /\ e.admin = s.admin /\ e.informed = s.informed
      /\ e.round = s.round
  BY <1>2, <1>4 DEF Sessions, Entries
<1> HIDE DEF e
<1>6. /\ session'[r] = Idle /\ \A q \in Reviewers \ {r} : session'[q] = session[q]
      /\ \A w \in Variants \ {v} : approvals'[w] = approvals[w]
      /\ approvals'[v] = Append(approvals[v], e)
  BY <1>1, <1>2, <1>3
<1>7. PICK n \in Nat :
        /\ n = Len(approvals[v]) /\ Len(approvals'[v]) = n + 1
        /\ DOMAIN approvals'[v] = 1..(n + 1) /\ DOMAIN approvals[v] = 1..n
        /\ \A i \in 1..n : approvals'[v][i] = approvals[v][i]
        /\ approvals'[v][n + 1] = e
  <2>1. approvals[v] \in Seq(Entries)
    BY <1>2, <1>3
  <2> QED BY <1>5, <1>6, <2>1
<1>8. Shape'
  <2>1. approvals' \in [Variants -> Seq(Entries)] /\ session' \in [Reviewers -> Sessions]
    BY <1>1, <1>2, <1>3, <1>5, Names
  <2> QED BY <1>1, <2>1 DEF Inv, Shape
<1>9. Sound'
  BY <1>1 DEF Inv, Sound
<1>10. /\ Saved(v)' = Saved(v) \ {r} /\ r \in Saved(v)
       /\ \A w \in Variants \ {v} : Saved(w)' = Saved(w)
       /\ \A w \in Variants : \A q \in Saved(w)' : session'[q] = session[q] /\ q \in Saved(w)
       /\ session[r] = s
  BY <1>0, <1>1, <1>3, <1>6, Names DEF Saved
<1>11. \A w \in Variants : \A st : Said(w, st) => Said(w, st)'
  <2> SUFFICES ASSUME NEW w \in Variants, NEW st, Said(w, st) PROVE Said(w, st)'
    OBVIOUS
  <2>1. CASE w # v
    BY <1>6, <1>10, <2>1 DEF Said
  <2>2. ASSUME w = v, NEW i \in DOMAIN approvals[v], Verdict[approvals[v][i].action] = st
        PROVE  Said(w, st)'
    BY <1>7, <2>2 DEF Said
  <2>3. ASSUME w = v, NEW q \in Saved(v), Verdict[session[q].action] = st, q # r
        PROVE  Said(w, st)'
    <3>1. q \in Saved(w)' /\ session'[q] = session[q]
      BY <1>10, <2>3
    <3> QED BY <2>3, <3>1 DEF Said
  <2>4. ASSUME w = v, Verdict[s.action] = st PROVE Said(w, st)'
    <3>1. n + 1 \in DOMAIN approvals'[w] /\ Verdict[approvals'[w][n + 1].action] = st
      BY <1>5, <1>7, <2>4
    <3> QED BY <3>1 DEF Said
  <2> QED BY <1>10, <2>1, <2>2, <2>3, <2>4 DEF Said
<1>12. InRounds'
  <2>1. ASSUME NEW q \in Reviewers, session'[q] # Idle
        PROVE  /\ session'[q].variant \in Variants
               /\ Busy(session'[q], variant[session'[q].variant], rounds[session'[q].variant])
    BY <1>6, <2>1 DEF Inv, InRounds
  <2>2. ASSUME NEW w \in Variants
        PROVE  /\ rounds[w] = 0 <=> variant[w].status \in {"none", "draft"}
               /\ \A i \in DOMAIN approvals'[w] : approvals'[w][i].round \in 1..rounds[w]
               /\ variant[w].status = "pending_review" =>
                    /\ \A i \in DOMAIN approvals'[w] : approvals'[w][i].round # rounds[w]
                    /\ \A q \in Saved(w)' : session'[q].round # rounds[w]
    <3>1. CASE w = v
      <4>1. /\ \A i \in 1..n : approvals[v][i].round \in 1..rounds[v]
            /\ rounds[v] = 0 <=> variant[v].status \in {"none", "draft"}
            /\ variant[v].status = "pending_review" =>
                 /\ \A i \in 1..n : approvals[v][i].round # rounds[v]
                 /\ \A q \in Saved(v) : session[q].round # rounds[v]
        BY <1>3, <1>7 DEF Inv, InRounds
      <4>2. \A i \in DOMAIN approvals'[v] : i \in 1..n \/ i = n + 1
        BY <1>7
      <4>3. \A i \in DOMAIN approvals'[v] : approvals'[v][i].round \in 1..rounds[v]
        BY <1>4, <1>5, <1>7, <4>1, <4>2
      <4>4. ASSUME variant[v].status = "pending_review"
            PROVE  /\ \A i \in DOMAIN approvals'[v] : approvals'[v][i].round # rounds[v]
                   /\ \A q \in Saved(v)' : session'[q].round # rounds[v]
        <5>1. e.round # rounds[v]
          BY <1>5, <1>10, <4>1, <4>4
        <5>2. \A q \in Saved(v)' : session'[q].round # rounds[v]
          BY <1>3, <1>10, <4>1, <4>4
        <5> QED BY <1>7, <4>1, <4>2, <4>4, <5>1, <5>2
      <4> QED BY <3>1, <4>1, <4>3, <4>4
    <3>2. CASE w # v
      BY <1>6, <1>10, <3>2 DEF Inv, InRounds
    <3> QED BY <3>1, <3>2
  <2> QED BY <1>1, <2>1, <2>2 DEF InRounds
<1>13. AllCleared'
  <2>1. Cleared(v, variant[v].request, adminWaived, s)
    BY <1>0, <1>2 DEF Inv, AllCleared
  <2>2. Cleared(v, variant[v].request, adminWaived, e)
    BY <1>5, <2>1 DEF Cleared
  <2>3. ASSUME NEW q \in Reviewers, session'[q] # Idle
        PROVE  Cleared(session'[q].variant, variant[session'[q].variant].request, adminWaived, session'[q])
    BY <1>6, <2>3 DEF Inv, AllCleared
  <2>4. ASSUME NEW w \in Variants, NEW i \in DOMAIN approvals'[w]
        PROVE  Cleared(w, variant[w].request, adminWaived, approvals'[w][i])
    <3>1. CASE w # v
      BY <1>6, <2>4, <3>1 DEF Inv, AllCleared
    <3>2. CASE w = v /\ i \in 1..n
      BY <1>3, <1>7, <3>2 DEF Inv, AllCleared
    <3>3. CASE w = v /\ i = n + 1
      BY <1>7, <2>2, <3>3
    <3> QED BY <1>7, <2>4, <3>1, <3>2, <3>3
  <2> QED BY <1>1, <2>3, <2>4 DEF AllCleared
<1>14. DecidedOnce'
  <2>1. ASSUME NEW w \in Variants, NEW k \in 1..rounds[w]
        PROVE  Cardinality(Logged(w, k)') + Cardinality(Deciding(w, k)') <= Cardinality(Reviewers)
    <3>0. Cardinality(Logged(w, k)) + Cardinality(Deciding(w, k)) <= Cardinality(Reviewers)
      BY DEF Inv, DecidedOnce
    <3>1. CASE w = v /\ k = s.round
      <4>1. Logged(w, k)' = Logged(w, k) \cup {n + 1} /\ n + 1 \notin Logged(w, k)
        BY <1>5, <1>7, <3>1 DEF Logged
      <4>2. Deciding(w, k)' = Deciding(w, k) \ {r} /\ r \in Deciding(w, k)
        BY <1>0, <1>3, <1>6, <3>1, Names DEF Deciding
      <4>3. Cardinality(Logged(w, k)') = Cardinality(Logged(w, k)) + 1
        BY <4>1, LoggedIsFinite, FS_AddElement DEF Inv
      <4>4. Cardinality(Deciding(w, k)') = Cardinality(Deciding(w, k)) - 1
        BY <4>2, SetsAreFinite, FS_RemoveElement
      <4>5. Cardinality(Logged(w, k)) \in Nat /\ Cardinality(Deciding(w, k)) \in Nat
            /\ Cardinality(Reviewers) \in Nat
        BY LoggedIsFinite, SetsAreFinite DEF Inv
      <4> QED BY <3>0, <4>3, <4>4, <4>5
    <3>2. CASE w = v /\ k # s.round
      <4>1. Logged(w, k)' = Logged(w, k)
        <5>1. \A i \in 1..(n + 1) : i \in 1..n \/ i = n + 1
          OBVIOUS
        <5>2. \A i \in 1..n : i \in 1..(n + 1)
          OBVIOUS
        <5> QED BY <1>5, <1>7, <3>2, <5>1, <5>2 DEF Logged
      <4>2. Deciding(w, k)' = Deciding(w, k)
        BY <1>0, <1>3, <1>6, <3>2, Names DEF Deciding
      <4> QED BY <3>0, <4>1, <4>2
    <3>3. CASE w # v
      <4>1. Logged(w, k)' = Logged(w, k) /\ Deciding(w, k)' = Deciding(w, k)
        BY <1>0, <1>6, <3>3, Names DEF Logged, Deciding
      <4> QED BY <3>0, <4>1
    <3> QED BY <3>1, <3>2, <3>3
  <2>2. ASSUME NEW w \in Variants
        PROVE  (variant[w].status \in {"none", "draft", "pending_review"} \/ Said(w, variant[w].status))'
    <3>1. PICK st : st = variant[w].status
      OBVIOUS
    <3> QED BY <1>1, <1>11, <3>1 DEF Inv, DecidedOnce
  <2> QED BY <1>1, <2>1, <2>2 DEF DecidedOnce
<1>15. PoolIsApproved'
  <2>1. ASSUME NEW w \in pool
        PROVE  /\ Said(w, "approved")'
               /\ \/ variant[w].status = "approved"
                  \/ Len(approvals'[w]) + Cardinality(Saved(w)') > 1
                  \/ rounds[w] > 1
    <3>1. /\ w \in Variants /\ Said(w, "approved")
          /\ \/ variant[w].status = "approved"
             \/ Len(approvals[w]) + Cardinality(Saved(w)) > 1
             \/ rounds[w] > 1
      BY DEF Inv, Shape, PoolIsApproved
    <3>2. CASE w = v
      <4>0. Saved(w)' = Saved(w) \ {r} /\ r \in Saved(w)
        BY <1>10, <3>2
      <4>1. Cardinality(Saved(w)') = Cardinality(Saved(w)) - 1
        BY <4>0, SetsAreFinite, FS_RemoveElement
      <4>2. Cardinality(Saved(w)) \in Nat
        BY SetsAreFinite
      <4>3. Len(approvals'[w]) + Cardinality(Saved(w)') = Len(approvals[w]) + Cardinality(Saved(w))
        <5>1. PICK b : b = Cardinality(Saved(w)) /\ b \in Nat
          BY <4>2
        <5>2. Cardinality(Saved(w)') = b - 1
          BY <4>1, <5>1
        <5>3. Len(approvals'[w]) = n + 1 /\ Len(approvals[w]) = n
          BY <1>7, <3>2
        <5> QED BY <5>1, <5>2, <5>3
      <4> QED BY <1>11, <3>1, <4>3
    <3>3. CASE w # v
      BY <1>6, <1>10, <1>11, <3>1, <3>3
    <3> QED BY <3>2, <3>3
  <2> QED BY <1>1, <2>1 DEF PoolIsApproved
<1> QED BY <1>8, <1>9, <1>12, <1>13, <1>14, <1>15 DEF Inv

LEMMA InvInit == IsFiniteSet(Reviewers) /\ Init => Inv
<1> SUFFICES ASSUME IsFiniteSet(Reviewers), Init PROVE Inv
  OBVIOUS
<1>1. /\ \A v \in Variants : variant[v] = Unmade /\ approvals[v] = <<>> /\ waived[v] = {}
      /\ \A v \in Variants : rounds[v] = 0
      /\ \A r \in Reviewers : session[r] = Idle
      /\ checked = {} /\ pool = {}
  BY DEF Init
<1>2. Shape
  <2>1. <<>> \in Seq(Entries)
    OBVIOUS
  <2>2. /\ approvals \in [Variants -> Seq(Entries)] /\ variant \in [Variants -> Rows]
        /\ session \in [Reviewers -> Sessions]
    BY <2>1, Names DEF Init
  <2> QED BY <2>2 DEF Init, Shape
<1>3. Sound
  BY <1>1 DEF Sound
<1>4. AllCleared
  BY <1>1 DEF AllCleared
<1>5. InRounds
  BY <1>1, Names DEF InRounds, Saved
<1>6. DecidedOnce
  BY <1>1, Names DEF DecidedOnce
<1>7. PoolIsApproved
  BY <1>1 DEF PoolIsApproved
<1> QED BY <1>2, <1>3, <1>4, <1>5, <1>6, <1>7 DEF Inv

LEMMA InvKept == IsFiniteSet(Reviewers) /\ Inv /\ [Next]_vars => Inv'
<1> SUFFICES ASSUME IsFiniteSet(Reviewers), Inv, [Next]_vars PROVE Inv'
  OBVIOUS
<1>1. ASSUME NEW tokens \in Costs, NEW v \in Variants, NEW name \in DOMAIN Requests,
             GenerateVariant(v, tokens, name)
      PROVE  Inv'
  BY <1>1, GenerateKeeps
<1>2. ASSUME NEW v \in Variants, Check(v) PROVE Inv'
  BY <1>2, CheckKeeps
<1>3. ASSUME NEW v \in Variants, NEW finding \in found[v], NEW admin \in BOOLEAN,
             Waive(v, finding, admin)
      PROVE  Inv'
  BY <1>3, WaiveKeeps
<1>4. ASSUME NEW v \in Variants, NEW r \in Reviewers, Submit(r, v) PROVE Inv'
  BY <1>4, SubmitKeeps
<1>5. ASSUME NEW v \in Variants, NEW r \in Reviewers, NEW action \in Action,
             NEW admin \in BOOLEAN, NEW guideChanged \in BOOLEAN,
             Decide(r, v, action, admin, guideChanged)
      PROVE  Inv'
  BY <1>5, DecideKeeps
<1>6. ASSUME NEW v \in Variants, ScheduleVariant(v) PROVE Inv'
  BY <1>6, ScheduleKeeps
<1>7. ASSUME NEW r \in Reviewers, SaveStatus(r) PROVE Inv'
  BY <1>7, SaveSubmissionKeeps, SaveVerdictKeeps
<1>8. ASSUME NEW r \in Reviewers, Log(r) PROVE Inv'
  BY <1>8, LogKeeps
<1>9. CASE UNCHANGED <<variant, checked, found, waived, adminWaived, approvals, session, pool, rounds>>
  <2>1. Shape' /\ Sound'
    BY <1>9 DEF Inv, Shape, Sound
  <2> QED BY <1>9, <2>1, ClearedStays, LogStays DEF Inv
<1> QED BY <1>1, <1>2, <1>3, <1>4, <1>5, <1>6, <1>7, <1>8, <1>9
        DEF Next, vars, findingVars, SubmitBrief, GenerateUnbound, SelfReview

LEMMA InvHolds == ASSUME IsFiniteSet(Reviewers) PROVE Spec => []Inv
BY InvInit, InvKept, PTL DEF Spec

(* Each time a variant is put up for review, only decisions that overlap      *)
(* decide upon it more than once, and the verdict it has was said by one.    *)
THEOREM DecidedByOverlap ==
  ASSUME IsFiniteSet(Reviewers) PROVE Spec => []DecidedOnce
<1>1. Inv => DecidedOnce
  BY DEF Inv
<1> QED BY <1>1, InvHolds, PTL

(* What was scheduled was approved by a decision that is logged or about to  *)
(* be.                                                                       *)
THEOREM PoolWasApproved ==
  ASSUME IsFiniteSet(Reviewers) PROVE Spec => []PoolIsApproved
<1>1. Inv => PoolIsApproved
  BY DEF Inv
<1> QED BY <1>1, InvHolds, PTL

(* A block that a decision could see is approved or waived by an              *)
(* administrator, whatever checks and waivers came before or between.        *)
THEOREM BlocksNeedAdmin ==
  ASSUME IsFiniteSet(Reviewers) PROVE Spec => []BlockedNeedsAdmin
<1>1. Inv => BlockedNeedsAdmin
  BY DEF Inv, AllCleared, Cleared, BlockedNeedsAdmin
<1> QED BY <1>1, InvHolds, PTL

(* A batch approves nothing that was checked and on which the rules have a    *)
(* warning; of what was never checked, which a batch approves just as well,  *)
(* it says nothing.                                                          *)
THEOREM CheckedWarningsReviewedAlone ==
  ASSUME IsFiniteSet(Reviewers) PROVE Spec => []FlaggedReviewedAlone
<1>1. Inv => FlaggedReviewedAlone
  BY DEF Inv, AllCleared, Cleared, FlaggedReviewedAlone
<1> QED BY <1>1, InvHolds, PTL

-----------------------------------------------------------------------------
(* The hashtags.  FoldLeft is defined by a function on the sets of indices   *)
(* that CHOOSE picks: that there is one is shown first, by induction (a set  *)
(* of numbers has a least one, so there is no first index that goes wrong).  *)

(* The maximum is the last index.                                            *)
LEMMA LastIsMax == ASSUME NEW m \in Nat \ {0}, NEW s \in SUBSET (1..m), m \in s PROVE Max(s) = m
<1>1. \A y \in s : y \in Int /\ m >= y
  OBVIOUS
<1>2. m \in s /\ \A y \in s : m >= y
  BY <1>1
<1>3. \A x \in s : (\A y \in s : x >= y) => x = m
  BY <1>1, <1>2
<1>4. Max(s) = CHOOSE x \in s : \A y \in s : x >= y
  BY DEF Max
<1> QED BY <1>2, <1>3, <1>4, Zenon

(* A set of numbers has a least one.                                         *)
LEMMA LeastNumber ==
  ASSUME NEW B \in SUBSET Nat, B # {} PROVE \E m \in B : \A k \in B : m <= k
<1> DEFINE Less == {ss \in Nat \X Nat : ss[1] < ss[2]}
<1>1. IsWellFoundedOn(Less, Nat)
  BY NatLessThanWellFounded DEF OpToRel
<1>2. PICK m \in B : \A k \in B : ~ (<<k, m>> \in Less)
  <2> HIDE DEF Less
  <2> QED BY <1>1, WFMin
<1>3. \A k \in B : ~ (k < m)
  BY <1>2
<1> QED BY <1>2, <1>3

(* What a fold from the left is defined by has a solution.                   *)
SolvesFold(F, base, n, g) ==
  g = [s \in SUBSET (1..n) |-> IF s = {} THEN base ELSE F[Max(s)][g[s \ {Max(s)}]]]

LEMMA FoldExists ==
  ASSUME NEW n \in Nat, NEW T, NEW base \in T, NEW F \in [1..n -> [T -> T]]
  PROVE  \E g \in [SUBSET (1..n) -> T] : SolvesFold(F, base, n, g)
<1> DEFINE Bad == {m \in 0..n : ~ \E g \in [SUBSET (1..m) -> T] : SolvesFold(F, base, m, g)}
<1>1. SUFFICES Bad = {}
  <2>1. n \in 0..n
    OBVIOUS
  <2>2. n \notin Bad
    <3> HIDE DEF Bad
    <3> QED BY <1>1
  <2> QED BY <2>1, <2>2
<1>2. SUFFICES ASSUME Bad # {} PROVE FALSE
  OBVIOUS
<1>3. PICK m \in Bad : \A k \in Bad : m <= k
  <2>1. Bad \in SUBSET Nat
    OBVIOUS
  <2> QED BY <1>2, <2>1, LeastNumber
<1>4. m \in 0..n
  OBVIOUS
<1>5. m # 0
  <2>1. ASSUME m = 0 PROVE \E g \in [SUBSET (1..m) -> T] : SolvesFold(F, base, m, g)
    <3> DEFINE g == [s \in SUBSET (1..m) |-> base]
    <3>1. \A s \in SUBSET (1..m) : s = {}
      BY <2>1
    <3>2. g \in [SUBSET (1..m) -> T]
      OBVIOUS
    <3>3. SolvesFold(F, base, m, g)
      BY <3>1 DEF SolvesFold
    <3> QED BY <3>2, <3>3
  <2> QED BY <2>1
<1>6. m - 1 \in 0..n /\ m - 1 \notin Bad /\ m \in Nat \ {0} /\ m \in 1..n
  <2> HIDE DEF Bad
  <2> QED BY <1>3, <1>4, <1>5
<1>7. PICK h \in [SUBSET (1..(m-1)) -> T] : SolvesFold(F, base, m - 1, h)
  BY <1>6
<1> DEFINE g == [s \in SUBSET (1..m) |-> IF m \in s THEN F[m][h[s \ {m}]] ELSE h[s]]
<1>8. \A s \in SUBSET (1..m) : s \ {m} \in SUBSET (1..(m-1)) /\ (m \notin s => s \in SUBSET (1..(m-1)))
  BY <1>6
<1>9. F[m] \in [T -> T]
  BY <1>6
<1>10. g \in [SUBSET (1..m) -> T]
  BY <1>8, <1>9
<1>11. ASSUME NEW s \in SUBSET (1..m)
       PROVE  g[s] = IF s = {} THEN base ELSE F[Max(s)][g[s \ {Max(s)}]]
  <2>1. CASE m \in s
    <3>1. Max(s) = m
      BY <1>6, <2>1, LastIsMax
    <3>2. s # {} /\ s \ {m} \in SUBSET (1..m) /\ m \notin s \ {m}
      BY <2>1
    <3>3. g[s] = F[m][h[s \ {m}]] /\ g[s \ {m}] = h[s \ {m}]
      BY <2>1, <3>2
    <3> QED BY <3>1, <3>2, <3>3
  <2>2. CASE m \notin s
    <3>1. s \in SUBSET (1..(m-1)) /\ g[s] = h[s]
      BY <1>8, <2>2
    <3>2. h[s] = IF s = {} THEN base ELSE F[Max(s)][h[s \ {Max(s)}]]
      BY <1>7, <3>1 DEF SolvesFold
    <3>3. s \ {Max(s)} \in SUBSET (1..m) /\ m \notin s \ {Max(s)}
      BY <2>2
    <3>4. g[s \ {Max(s)}] = h[s \ {Max(s)}]
      BY <3>3
    <3> QED BY <3>1, <3>2, <3>4
  <2> QED BY <2>1, <2>2
<1>12. SolvesFold(F, base, m, g)
  <2> HIDE DEF g
  <2> SUFFICES g = [s \in SUBSET (1..m) |-> IF s = {} THEN base ELSE F[Max(s)][g[s \ {Max(s)}]]]
    BY DEF SolvesFold
  <2> QED BY <1>10, <1>11, Zenon
<1> QED
  <2> HIDE DEF g
  <2> QED BY <1>10, <1>12

(* The segment before an index.                                              *)
LEMMA Segment == ASSUME NEW k \in Nat \ {0} PROVE (1..k) \ {k} = 1..(k-1) /\ 1..k # {}
<1>1. k \in 1..k
  OBVIOUS
<1>2. ASSUME NEW x PROVE x \in (1..k) \ {k} <=> x \in 1..(k-1)
  OBVIOUS
<1> QED BY <1>1, <1>2

(* Whatever solves it walks along the initial segments.                      *)
Walks(F, base, n, T, last) ==
  \E h \in [0..n -> T] :
     /\ h[0] = base /\ h[n] = last
     /\ \A k \in 1..n : h[k] = F[k][h[k-1]]

LEMMA FoldWalks ==
  ASSUME NEW n \in Nat, NEW T, NEW base \in T, NEW F \in [1..n -> [T -> T]],
         NEW g, g[{}] = base,
         \A s \in SUBSET (1..n) : s # {} /\ g[s \ {Max(s)}] \in T =>
            g[s] = F[Max(s)][g[s \ {Max(s)}]]
  PROVE  Walks(F, base, n, T, g[1..n])
<1>1. 1..0 = {}
  OBVIOUS
<1>2. ASSUME NEW k \in 1..n, g[1..(k-1)] \in T
      PROVE  g[1..k] = F[k][g[1..(k-1)]] /\ g[1..k] \in T
  <2>1. k \in Nat \ {0} /\ 1..k \in SUBSET (1..n) /\ k \in 1..k
    OBVIOUS
  <2>2. Max(1..k) = k
    BY <2>1, LastIsMax
  <2>3. (1..k) \ {k} = 1..(k-1) /\ 1..k # {}
    BY <2>1, Segment
  <2>4. g[1..k] = F[k][g[1..(k-1)]]
    BY <1>2, <2>1, <2>2, <2>3
  <2> QED BY <1>2, <2>4
<1> DEFINE Bad == {k \in 0..n : g[1..k] \notin T}
<1>3. Bad = {}
  <2> SUFFICES ASSUME Bad # {} PROVE FALSE
    OBVIOUS
  <2>1. PICK k \in Bad : \A j \in Bad : k <= j
    <3>1. Bad \in SUBSET Nat
      OBVIOUS
    <3> QED BY <3>1, LeastNumber
  <2>2. k \in 1..n /\ k - 1 \in 0..n
    BY <1>1
  <2>3. k - 1 \notin Bad
    <3> HIDE DEF Bad
    <3> QED BY <2>1, <2>2
  <2> QED BY <1>2, <2>2, <2>3
<1> DEFINE h == [k \in 0..n |-> g[1..k]]
<1>4. h \in [0..n -> T]
  BY <1>3
<1>5. h[0] = base /\ h[n] = g[1..n]
  BY <1>1
<1>6. ASSUME NEW k \in 1..n PROVE h[k] = F[k][h[k-1]]
  <2>1. k \in 0..n /\ k - 1 \in 0..n
    OBVIOUS
  <2> QED BY <1>2, <1>3, <2>1
<1> QED
  <2> HIDE DEF h
  <2> QED BY <1>4, <1>5, <1>6 DEF Walks

(* There is a last index.                                                   *)
LEMMA MaxIsIn == ASSUME NEW n \in Nat, NEW s \in SUBSET (1..n), s # {} PROVE Max(s) \in s
<1> DEFINE B == {n - x : x \in s}
<1>1. B \in SUBSET Nat /\ B # {}
  OBVIOUS
<1>2. PICK b \in B : \A c \in B : b <= c
  BY <1>1, LeastNumber
<1>3. PICK m \in s : b = n - m
  OBVIOUS
<1>4. \A x \in s : n - m <= n - x
  BY <1>2, <1>3
<1>5. \A x \in s : m >= x
  BY <1>4
<1> QED BY <1>5, Zenon DEF Max

(* The terms of a brief and the tags that are put to them.                   *)
Tag == STRING \cup ALLOWED_TAGS

(* compose_hashtags, tag by tag.                                             *)
Added(tags, tag, max_count) ==
  IF Full(tags, max_count) \/ Contains(tags, tag) THEN tags ELSE Append(tags, tag)

TagsOf(terms, max_count) ==
  FoldLeft(LAMBDA tags, tag : Added(tags, tag, max_count), <<>>, terms)

LEMMA TagsFold ==
  ASSUME NEW terms \in Seq(Tag), NEW max_count
  PROVE  \E h \in [0..Len(terms) -> Seq(Tag)] :
            /\ h[0] = <<>> /\ h[Len(terms)] = TagsOf(terms, max_count)
            /\ \A k \in 1..Len(terms) : h[k] = Added(h[k-1], terms[k], max_count)
<1> DEFINE n == Len(terms)
           T == Seq(Tag)
           F == [i \in 1..n |-> [tags \in T |-> Added(tags, terms[i], max_count)]]
           Sol(g) == g = [s \in SUBSET (1..n) |->
                            IF s = {} THEN <<>> ELSE Added(g[s \ {Max(s)}], terms[Max(s)], max_count)]
           it == CHOOSE g : Sol(g)
<1>1. n \in Nat /\ DOMAIN terms = 1..n /\ <<>> \in T
  OBVIOUS
<1>2. ASSUME NEW i \in 1..n, NEW tags \in T PROVE Added(tags, terms[i], max_count) \in T
  <2>1. terms[i] \in Tag
    BY <1>1
  <2>2. Append(tags, terms[i]) \in T
    BY <2>1
  <2> QED BY <2>2 DEF Added
<1>3. F \in [1..n -> [T -> T]]
  BY <1>2
<1>4. \A i \in 1..n, tags \in T : F[i][tags] = Added(tags, terms[i], max_count)
  OBVIOUS
<1>5. it[{}] = <<>> /\ \A s \in SUBSET (1..n) : s # {} =>
        it[s] = Added(it[s \ {Max(s)}], terms[Max(s)], max_count)
  <2>1. PICK g \in [SUBSET (1..n) -> T] : SolvesFold(F, <<>>, n, g)
    <3> HIDE DEF F, T, n
    <3> QED BY <1>1, <1>3, FoldExists
  <2>2. ASSUME NEW s \in SUBSET (1..n), s # {}
        PROVE  F[Max(s)][g[s \ {Max(s)}]] = Added(g[s \ {Max(s)}], terms[Max(s)], max_count)
    <3>1. Max(s) \in 1..n
      <4> HIDE DEF n
      <4> QED BY <1>1, <2>2, MaxIsIn
    <3> HIDE DEF F, n
    <3> QED BY <1>4, <3>1
  <2>3. Sol(g)
    <3> HIDE DEF F, n
    <3> QED BY <2>1, <2>2 DEF SolvesFold
  <2>4. Sol(it)
    BY <2>3, Zenon
  <2> QED BY <2>4
<1>6. it[1..n] = TagsOf(terms, max_count)
  BY <1>1 DEF TagsOf, FoldLeft, MapThenFoldSet
<1> QED
  <2>1. \A s \in SUBSET (1..n) : s # {} /\ it[s \ {Max(s)}] \in T =>
            it[s] = F[Max(s)][it[s \ {Max(s)}]]
    <3> TAKE s \in SUBSET (1..n)
    <3> HAVE s # {} /\ it[s \ {Max(s)}] \in T
    <3>1. Max(s) \in 1..n
      <4> HIDE DEF n
      <4> QED BY <1>1, MaxIsIn
    <3> HIDE DEF F, n, it, T
    <3> QED BY <1>4, <1>5, <3>1
  <2> HIDE DEF it, F
  <2>2. PICK h \in [0..n -> T] :
            /\ h[0] = <<>> /\ h[n] = it[1..n]
            /\ \A k \in 1..n : h[k] = F[k][h[k-1]]
    <3> HIDE DEF n, T
    <3>1. it[{}] = <<>>
      BY <1>5
    <3>2. Walks(F, <<>>, n, T, it[1..n])
      BY <1>1, <1>3, <3>1, <2>1, FoldWalks
    <3> QED BY <3>2 DEF Walks
  <2>3. \A k \in 1..n : h[k] = Added(h[k-1], terms[k], max_count)
    <3> TAKE k \in 1..n
    <3>1. h[k-1] \in T
      BY <1>1
    <3> QED BY <1>4, <2>2, <3>1
  <2> QED BY <1>6, <2>2, <2>3

LEMMA CategoryLists ==
  /\ DOMAIN CATEGORY_TAGS = {"casting", "machining", "machine_tools", "quality"}
  /\ CATEGORY_TAGS["casting"] =
       <<"#casting", "#foundry", "#ironcasting", "#lostfoam", "#greyiron", "#ductileiron">>
  /\ CATEGORY_TAGS["machining"] = <<"#machining", "#cncmachining", "#machinedparts", "#boringmilling">>
  /\ \A c \in DOMAIN CATEGORY_TAGS : CATEGORY_TAGS[c] \in Seq(Tag)
<1>1. DOMAIN CATEGORY_TAGS = {"casting", "machining", "machine_tools", "quality"}
  BY DEF CATEGORY_TAGS
<1>2. CATEGORY_TAGS["casting"] =
       <<"#casting", "#foundry", "#ironcasting", "#lostfoam", "#greyiron", "#ductileiron">>
  BY DEF CATEGORY_TAGS
<1>3. CATEGORY_TAGS["machining"] = <<"#machining", "#cncmachining", "#machinedparts", "#boringmilling">>
  BY DEF CATEGORY_TAGS
<1>4. CATEGORY_TAGS["machine_tools"] = <<"#machinetools", "#machinetool", "#machinebed", "#cnc">>
  BY DEF CATEGORY_TAGS
<1>5. CATEGORY_TAGS["quality"] = <<"#qualitycontrol", "#ndt", "#cmminspection", "#inspection">>
  BY DEF CATEGORY_TAGS
<1>6. \A c \in DOMAIN CATEGORY_TAGS : CATEGORY_TAGS[c] \in Seq(ToSet(CATEGORY_TAGS[c]))
  BY <1>1, <1>2, <1>3, <1>4, <1>5 DEF ToSet
<1>7. \A c \in DOMAIN CATEGORY_TAGS : ToSet(CATEGORY_TAGS[c]) \subseteq Tag
  BY DEF Tag, ALLOWED_TAGS
<1>8. ASSUME NEW c \in DOMAIN CATEGORY_TAGS PROVE CATEGORY_TAGS[c] \in Seq(Tag)
  BY <1>6, <1>7, SeqMonotonic
<1> QED BY <1>1, <1>2, <1>3, <1>8

(* The tags of the categories, list by list.                                 *)
TagsOfAll(names) == FoldLeft(LAMBDA tags, c : tags \o CATEGORY_TAGS[c], <<>>, names)

LEMMA CategoriesFold ==
  ASSUME NEW names \in Seq(DOMAIN CATEGORY_TAGS)
  PROVE  \E h \in [0..Len(names) -> Seq(Tag)] :
            /\ h[0] = <<>>
            /\ h[Len(names)] = TagsOfAll(names)
            /\ \A k \in 1..Len(names) : h[k] = h[k-1] \o CATEGORY_TAGS[names[k]]
<1> DEFINE n == Len(names)
           T == Seq(Tag)
           F == [i \in 1..n |-> [tags \in T |-> tags \o CATEGORY_TAGS[names[i]]]]
           Sol(g) == g = [s \in SUBSET (1..n) |->
                            IF s = {} THEN <<>> ELSE g[s \ {Max(s)}] \o CATEGORY_TAGS[names[Max(s)]]]
           it == CHOOSE g : Sol(g)
<1>1. n \in Nat /\ DOMAIN names = 1..n /\ <<>> \in T
  OBVIOUS
<1>2. ASSUME NEW i \in 1..n, NEW tags \in T PROVE tags \o CATEGORY_TAGS[names[i]] \in T
  <2>1. names[i] \in DOMAIN CATEGORY_TAGS
    BY <1>1
  <2>2. CATEGORY_TAGS[names[i]] \in T
    BY <2>1, CategoryLists
  <2> QED BY <2>2
<1>3. F \in [1..n -> [T -> T]]
  BY <1>2
<1>4. \A i \in 1..n, tags \in T : F[i][tags] = tags \o CATEGORY_TAGS[names[i]]
  OBVIOUS
<1>5. it[{}] = <<>> /\ \A s \in SUBSET (1..n) : s # {} =>
        it[s] = it[s \ {Max(s)}] \o CATEGORY_TAGS[names[Max(s)]]
  <2>1. PICK g \in [SUBSET (1..n) -> T] : SolvesFold(F, <<>>, n, g)
    <3> HIDE DEF F, T, n
    <3> QED BY <1>1, <1>3, FoldExists
  <2>2. ASSUME NEW s \in SUBSET (1..n), s # {}
        PROVE  F[Max(s)][g[s \ {Max(s)}]] = g[s \ {Max(s)}] \o CATEGORY_TAGS[names[Max(s)]]
    <3>1. Max(s) \in 1..n
      <4> HIDE DEF n
      <4> QED BY <1>1, <2>2, MaxIsIn
    <3> HIDE DEF F, n
    <3> QED BY <1>4, <3>1
  <2>3. Sol(g)
    <3> HIDE DEF F, n
    <3> QED BY <2>1, <2>2 DEF SolvesFold
  <2>4. Sol(it)
    BY <2>3, Zenon
  <2> QED BY <2>4
<1>6. it[1..n] = TagsOfAll(names)
  BY <1>1 DEF TagsOfAll, FoldLeft, MapThenFoldSet
<1> QED
  <2>1. \A s \in SUBSET (1..n) : s # {} /\ it[s \ {Max(s)}] \in T =>
            it[s] = F[Max(s)][it[s \ {Max(s)}]]
    <3> TAKE s \in SUBSET (1..n)
    <3> HAVE s # {} /\ it[s \ {Max(s)}] \in T
    <3>1. Max(s) \in 1..n
      <4> HIDE DEF n
      <4> QED BY <1>1, MaxIsIn
    <3> HIDE DEF F, n, it, T
    <3> QED BY <1>4, <1>5, <3>1
  <2> HIDE DEF it, F
  <2>2. PICK h \in [0..n -> T] :
            /\ h[0] = <<>> /\ h[n] = it[1..n]
            /\ \A k \in 1..n : h[k] = F[k][h[k-1]]
    <3> HIDE DEF n, T
    <3>1. it[{}] = <<>>
      BY <1>5
    <3>2. Walks(F, <<>>, n, T, it[1..n])
      BY <1>1, <1>3, <3>1, <2>1, FoldWalks
    <3> QED BY <3>2 DEF Walks
  <2>3. \A k \in 1..n : h[k] = h[k-1] \o CATEGORY_TAGS[names[k]]
    <3> TAKE k \in 1..n
    <3>1. h[k-1] \in T
      BY <1>1
    <3> QED BY <1>4, <2>2, <3>1
  <2> QED BY <1>6, <2>2, <2>3

(* If the first terms are all different, the post takes just as many of them *)
(* as its platform has room for.                                             *)
LEMMA TagsFill ==
  ASSUME NEW terms \in Seq(Tag), NEW m \in 1..Len(terms),
         \A i, j \in 1..m : i # j => terms[i] # terms[j],
         NEW h \in [0..Len(terms) -> Seq(Tag)], h[0] = <<>>,
         \A k \in 1..Len(terms) : h[k] = Added(h[k-1], terms[k], m)
  PROVE  Len(h[Len(terms)]) = m
<1> DEFINE n == Len(terms)
           Good(k) == /\ Len(h[k]) = IF k <= m THEN k ELSE m
                      /\ \A i \in 1..Len(h[k]) : h[k][i] = terms[i]
           Bad == {k \in 0..n : ~Good(k)}
<1>1. n \in Nat /\ m \in 1..n /\ \A k \in 0..n : h[k] \in Seq(Tag) /\ Len(h[k]) \in Nat
  OBVIOUS
<1>2. Good(0)
  OBVIOUS
<1>3. ASSUME NEW k \in 1..n, Good(k-1) PROVE Good(k)
  <2>1. h[k] = Added(h[k-1], terms[k], m) /\ k - 1 \in 0..n /\ terms[k] \in Tag
    BY <1>1
  <2>2. CASE k > m
    <3>1. Len(h[k-1]) = m /\ h[k-1] # <<>>
      BY <1>1, <1>3, <2>1, <2>2
    <3>2. h[k] = h[k-1]
      BY <1>1, <2>1, <3>1 DEF Added, Full
    <3> QED BY <1>3, <2>2, <3>1, <3>2
  <2>3. CASE k <= m
    <3>1. Len(h[k-1]) = k - 1 /\ h[k-1] \in Seq(Tag)
      BY <1>1, <1>3, <2>1, <2>3
    <3>2. ~Full(h[k-1], m)
      BY <1>1, <2>3, <3>1 DEF Full
    <3>3. ~Contains(h[k-1], terms[k])
      <4>1. ASSUME NEW i \in 1..Len(h[k-1]) PROVE h[k-1][i] # terms[k]
        <5>1. i \in 1..m /\ k \in 1..m /\ i # k
          BY <1>1, <2>3, <3>1
        <5>2. h[k-1][i] = terms[i]
          BY <1>3
        <5> QED BY <5>1, <5>2
      <4> QED BY <4>1 DEF Contains
    <3>4. h[k] = Append(h[k-1], terms[k])
      BY <2>1, <3>2, <3>3 DEF Added
    <3>5. Len(h[k]) = k
      BY <3>1, <3>4
    <3>6. ASSUME NEW i \in 1..Len(h[k]) PROVE h[k][i] = terms[i]
      BY <1>3, <2>1, <3>1, <3>4, <3>5
    <3> QED BY <2>3, <3>5, <3>6
  <2> QED BY <1>1, <2>2, <2>3
<1>4. Bad = {}
  <2> SUFFICES ASSUME Bad # {} PROVE FALSE
    OBVIOUS
  <2>1. PICK k \in Bad : \A j \in Bad : k <= j
    <3>1. Bad \in SUBSET Nat
      OBVIOUS
    <3> HIDE DEF Bad
    <3> QED BY <3>1, LeastNumber
  <2>2. k \in 1..n /\ k - 1 \in 0..n
    <3>1. k # 0
      BY <1>2
    <3> QED BY <3>1
  <2>3. k - 1 \notin Bad
    <3> HIDE DEF Bad
    <3> QED BY <2>1, <2>2
  <2>4. Good(k-1) /\ ~Good(k)
    <3> HIDE DEF Good
    <3> QED BY <2>2, <2>3
  <2> HIDE DEF Good
  <2> QED BY <1>3, <2>2, <2>4
<1>5. Good(n)
  <2> HIDE DEF Good
  <2> QED BY <1>1, <1>4
<1> QED BY <1>1, <1>5

(* Six tags of casting come first for all who have categories, and those of  *)
(* machining next for all but facebook.                                      *)
LEMMA CategoriesBegin ==
  ASSUME NEW names \in Seq(DOMAIN CATEGORY_TAGS), Len(names) > 0, names[1] = "casting",
         Len(names) > 1 => names[2] = "machining",
         NEW all, all = TagsOfAll(names)
  PROVE  /\ all \in Seq(Tag) /\ Len(all) >= 6
         /\ \A i \in 1..6 : all[i] = CATEGORY_TAGS["casting"][i]
         /\ Len(names) > 1 => /\ Len(all) >= 8
                             /\ all[7] = "#machining" /\ all[8] = "#cncmachining"
<1> DEFINE n == Len(names)
           cast == CATEGORY_TAGS["casting"]
           mach == CATEGORY_TAGS["machining"]
<1>1. PICK h \in [0..n -> Seq(Tag)] :
            /\ h[0] = <<>>
            /\ h[n] = TagsOfAll(names)
            /\ \A k \in 1..n : h[k] = h[k-1] \o CATEGORY_TAGS[names[k]]
  BY CategoriesFold
<1>2. n \in Nat /\ \A k \in 1..n : names[k] \in DOMAIN CATEGORY_TAGS
  OBVIOUS
<1>3. cast \in Seq(Tag) /\ mach \in Seq(Tag)
  <2>1. "casting" \in DOMAIN CATEGORY_TAGS /\ "machining" \in DOMAIN CATEGORY_TAGS
    BY CategoryLists
  <2> QED BY <2>1, CategoryLists
<1>4. Len(cast) = 6 /\ Len(mach) = 4 /\ mach[1] = "#machining" /\ mach[2] = "#cncmachining"
  <2>1. Len(cast) = 6
    BY CategoryLists
  <2>2. mach = <<"#machining", "#cncmachining", "#machinedparts", "#boringmilling">>
    BY CategoryLists
  <2> HIDE DEF mach
  <2> QED BY <2>1, <2>2
<1>5. ASSUME NEW k \in 1..n
       PROVE  /\ k - 1 \in 0..n /\ h[k-1] \in Seq(Tag) /\ CATEGORY_TAGS[names[k]] \in Seq(Tag)
              /\ h[k] = h[k-1] \o CATEGORY_TAGS[names[k]]
  <2>1. k - 1 \in 0..n
    BY <1>2
  <2>2. names[k] \in DOMAIN CATEGORY_TAGS
    BY <1>2
  <2>3. CATEGORY_TAGS[names[k]] \in Seq(Tag)
    BY <2>2, CategoryLists
  <2> QED BY <1>1, <2>1, <2>3
<1> HIDE DEF cast, mach
<1> DEFINE Kept(k, s) == /\ Len(h[k]) >= Len(s) /\ \A i \in 1..Len(s) : h[k][i] = s[i]
<1>6. ASSUME NEW s \in Seq(Tag), NEW j \in 1..n, Kept(j, s) PROVE Kept(n, s)
  <2> DEFINE Bad == {k \in j..n : ~Kept(k, s)}
  <2>1. ASSUME NEW k \in j..n, k # j, Kept(k-1, s) PROVE Kept(k, s)
    <3> DEFINE more == CATEGORY_TAGS[names[k]]
    <3>1. k \in 1..n
      BY <1>2
    <3>2. h[k-1] \in Seq(Tag) /\ more \in Seq(Tag) /\ h[k] = h[k-1] \o more
      BY <1>5, <3>1
    <3> HIDE DEF more
    <3> QED BY <2>1, <3>2
  <2>2. Bad = {}
    <3> SUFFICES ASSUME Bad # {} PROVE FALSE
      OBVIOUS
    <3>1. PICK k \in Bad : \A i \in Bad : k <= i
      <4>1. Bad \in SUBSET Nat
        BY <1>2
      <4> HIDE DEF Bad
      <4> QED BY <4>1, LeastNumber
    <3>2. k \in j..n /\ k # j /\ k - 1 \in j..n
      <4> HIDE DEF Kept
      <4>1. k \in j..n /\ k # j
        BY <1>6
      <4> QED BY <1>2, <4>1
    <3>3. k - 1 \notin Bad
      <4> HIDE DEF Bad
      <4> QED BY <1>2, <3>1, <3>2
    <3>4. Kept(k-1, s) /\ ~Kept(k, s)
      <4> HIDE DEF Kept
      <4> QED BY <3>2, <3>3
    <3> HIDE DEF Kept
    <3> QED BY <2>1, <3>2, <3>4
  <2> HIDE DEF Kept
  <2> QED BY <1>2, <2>2
<1>7. h[1] = cast
  <2>1. 1 \in 1..n
    BY <1>2
  <2>2. h[1] = <<>> \o cast
    BY <1>1, <1>5, <2>1 DEF cast
  <2> QED BY <1>3, <2>2
<1>8. Kept(n, cast)
  <2>1. Kept(1, cast)
    BY <1>3, <1>7
  <2> HIDE DEF Kept
  <2> QED BY <1>2, <1>3, <1>6, <2>1
<1>9. CASE n > 1
  <2>1. 2 \in 1..n
    BY <1>2, <1>9
  <2>2. h[2] = cast \o mach
    <3>1. h[2] = h[2-1] \o CATEGORY_TAGS[names[2]]
      BY <1>5, <2>1
    <3>2. names[2] = "machining" /\ 2 - 1 = 1
      BY <1>9
    <3> QED BY <1>7, <3>1, <3>2 DEF mach
  <2> DEFINE both == cast \o mach
  <2>3. both \in Seq(Tag) /\ Kept(2, both)
    BY <1>3, <2>2
  <2>4. Kept(n, both)
    <3> HIDE DEF Kept, both
    <3> QED BY <1>6, <2>1, <2>3
  <2>5. Len(both) = 10 /\ both[7] = mach[1] /\ both[8] = mach[2]
    <3>1. Len(both) = Len(cast) + Len(mach)
      BY <1>3, ConcatProperties
    <3>2. \A i \in 7..8 : both[i] = mach[i - 6]
      BY <1>3, <1>4, ConcatProperties
    <3> HIDE DEF both
    <3> QED BY <1>4, <3>1, <3>2
  <2>6. Len(h[n]) >= 8 /\ h[n][7] = "#machining" /\ h[n][8] = "#cncmachining"
    <3> HIDE DEF both
    <3> QED BY <1>1, <1>2, <1>4, <2>4, <2>5
  <2>7. Len(h[n]) >= 6 /\ \A i \in 1..6 : h[n][i] = cast[i]
    BY <1>8, <1>4
  <2>8. all = h[n] /\ h[n] \in Seq(Tag)
    BY <1>1, <1>2
  <2> HIDE DEF Kept, both
  <2> QED BY <2>6, <2>7, <2>8 DEF cast
<1>10. CASE ~(n > 1)
  BY <1>1, <1>2, <1>3, <1>8, <1>10, <1>4 DEF cast
<1> QED BY <1>9, <1>10

LEMMA FirstTagsDiffer ==
  ASSUME NEW all, NEW m \in 1..8,
         \A i \in 1..6 : all[i] = CATEGORY_TAGS["casting"][i],
         m > 6 => all[7] = "#machining" /\ all[8] = "#cncmachining"
  PROVE  \A i, j \in 1..m : i # j => all[i] # all[j]
<1>1. /\ all[1] = "#casting" /\ all[2] = "#foundry" /\ all[3] = "#ironcasting"
      /\ all[4] = "#lostfoam" /\ all[5] = "#greyiron" /\ all[6] = "#ductileiron"
  BY CategoryLists
<1>2. \A i \in 1..m : i \in {1, 2, 3, 4, 5, 6} \/ (m > 6 /\ i \in {7, 8})
  OBVIOUS
<1> QED BY <1>1, <1>2

(* Whatever terms a brief adds: a platform's limit is met exactly.           *)
LEMMA HashtagsFill ==
  ASSUME NEW platform \in Platform \ {"reddit"}, NEW extra \in Seq(STRING)
  PROVE  Len(compose_hashtags(platform, extra)) = PROMPT_TEMPLATES[platform].hashtag_max
<1> DEFINE names == PLATFORM_HASHTAG_CATEGORIES[platform]
           m == PROMPT_TEMPLATES[platform].hashtag_max
           all == TagsOfAll(names)
           rest == FALLBACK_TAGS \o <<BRAND_TAG>>
           terms == all \o extra \o FALLBACK_TAGS \o <<BRAND_TAG>>
<1>1. /\ names \in Seq(DOMAIN CATEGORY_TAGS) /\ Len(names) > 0 /\ names[1] = "casting"
      /\ Len(names) > 1 => names[2] = "machining"
      /\ m \in 1..8 /\ (m > 6 => Len(names) > 1)
  <2>1. DOMAIN CATEGORY_TAGS = {"casting", "machining", "machine_tools", "quality"}
    BY CategoryLists
  <2>2. CASE platform = "linkedin"
    <3>1. m = 5 /\ names = <<"casting", "machining", "machine_tools", "quality">>
      BY <2>2 DEF PROMPT_TEMPLATES, PLATFORM_HASHTAG_CATEGORIES
    <3> HIDE DEF names, m
    <3> QED BY <2>1, <3>1
  <2>3. CASE platform = "youtube"
    <3>1. m = 5 /\ names = <<"casting", "machining", "machine_tools">>
      BY <2>3 DEF PROMPT_TEMPLATES, PLATFORM_HASHTAG_CATEGORIES
    <3> HIDE DEF names, m
    <3> QED BY <2>1, <3>1
  <2>4. CASE platform = "facebook"
    <3>1. m = 2 /\ names = <<"casting">>
      BY <2>4 DEF PROMPT_TEMPLATES, PLATFORM_HASHTAG_CATEGORIES
    <3> HIDE DEF names, m
    <3> QED BY <2>1, <3>1
  <2>5. CASE platform = "vk"
    <3>1. m = 5 /\ names = <<"casting", "machining">>
      BY <2>5 DEF PROMPT_TEMPLATES, PLATFORM_HASHTAG_CATEGORIES
    <3> HIDE DEF names, m
    <3> QED BY <2>1, <3>1
  <2>6. CASE platform = "instagram"
    <3>1. m = 8 /\ names = <<"casting", "machining">>
      BY <2>6 DEF PROMPT_TEMPLATES, PLATFORM_HASHTAG_CATEGORIES
    <3> HIDE DEF names, m
    <3> QED BY <2>1, <3>1
  <2> QED BY <2>2, <2>3, <2>4, <2>5, <2>6 DEF Platform
<1>2. /\ all \in Seq(Tag) /\ Len(all) >= 6
      /\ \A i \in 1..6 : all[i] = CATEGORY_TAGS["casting"][i]
      /\ m > 6 => Len(all) >= 8 /\ all[7] = "#machining" /\ all[8] = "#cncmachining"
  <2> HIDE DEF names, m
  <2> QED BY <1>1, CategoriesBegin
<1>3. extra \in Seq(Tag) /\ FALLBACK_TAGS \in Seq(Tag) /\ <<BRAND_TAG>> \in Seq(Tag)
  <2>1. extra \in Seq(Tag)
    BY SeqMonotonic DEF Tag
  <2>2. FALLBACK_TAGS \in Seq(ToSet(FALLBACK_TAGS))
    BY DEF FALLBACK_TAGS, ToSet
  <2>3. ToSet(FALLBACK_TAGS) \subseteq Tag
    BY DEF Tag, ALLOWED_TAGS
  <2>4. BRAND_TAG \in Tag
    BY DEF Tag, ALLOWED_TAGS
  <2>5. <<BRAND_TAG>> \in Seq(Tag)
    BY <2>4
  <2> QED BY <2>1, <2>2, <2>3, <2>5, SeqMonotonic
<1>4. terms \in Seq(Tag) /\ Len(terms) >= Len(all) /\ \A i \in 1..Len(all) : terms[i] = all[i]
  <2> HIDE DEF all
  <2>1. /\ all \o extra \in Seq(Tag) /\ Len(all \o extra) >= Len(all)
        /\ \A i \in 1..Len(all) : (all \o extra)[i] = all[i]
    BY <1>2, <1>3, ConcatProperties
  <2> DEFINE front == all \o extra
             middle == front \o FALLBACK_TAGS
  <2>2. /\ middle \in Seq(Tag) /\ Len(middle) >= Len(all)
        /\ \A i \in 1..Len(all) : middle[i] = all[i]
    <3> HIDE DEF front
    <3> QED BY <1>2, <1>3, <2>1, ConcatProperties DEF front
  <2> HIDE DEF middle
  <2>3. /\ middle \o <<BRAND_TAG>> \in Seq(Tag) /\ Len(middle \o <<BRAND_TAG>>) >= Len(all)
        /\ \A i \in 1..Len(all) : (middle \o <<BRAND_TAG>>)[i] = all[i]
    BY <1>2, <1>3, <2>2, ConcatProperties
  <2> QED BY <2>3 DEF middle
<1>5. m \in 1..Len(terms) /\ \A i, j \in 1..m : i # j => terms[i] # terms[j]
  <2> HIDE DEF names, m, all, terms
  <2>1. m \in 1..Len(all)
    BY <1>1, <1>2
  <2>2. \A i, j \in 1..m : i # j => all[i] # all[j]
    BY <1>1, <1>2, FirstTagsDiffer
  <2> QED BY <1>2, <1>4, <2>1, <2>2
<1>6. Len(TagsOf(terms, m)) = m
  <2> HIDE DEF m, terms
  <2>1. PICK h \in [0..Len(terms) -> Seq(Tag)] :
            /\ h[0] = <<>> /\ h[Len(terms)] = TagsOf(terms, m)
            /\ \A k \in 1..Len(terms) : h[k] = Added(h[k-1], terms[k], m)
    BY <1>4, TagsFold
  <2> QED BY <1>4, <1>5, <2>1, TagsFill
<1> QED BY <1>6 DEF compose_hashtags, TagsOf, TagsOfAll, Added

(* A view whose media are licensed and whose hashtags are as many as its     *)
(* policy asks for has no finding in either field.                           *)
LEMMA NothingFound ==
  ASSUME NEW view, ToSet(view.media) \subseteq {"owned", "licensed"},
         Policy[view.platform].hashtag_min <= Len(view.tags),
         Len(view.tags) <= Policy[view.platform].hashtag_max,
         Len(view.tags) \in Int,
         Policy[view.platform].hashtag_min \in Int, Policy[view.platform].hashtag_max \in Int
  PROVE  {f \in evaluate(view) : f.field \in {"media", "hashtags"}} = {}
<1>1. rule_media_license(view) = {}
  BY DEF rule_media_license
<1>2. \A f \in rule_sensitive_words(view) \cup rule_banned_phrases(view) : f.field \in {"text", "title"}
  BY DEF rule_sensitive_words, rule_banned_phrases, rule_terms, Finding
<1>3. \A f \in rule_unverified_specs(view) \cup rule_machine_flavor(view) : f.field = "text"
  BY DEF rule_unverified_specs, rule_machine_flavor, Finding
<1>4. \A f \in rule_platform_quality(view) : f.field = "text"
  BY DEF rule_platform_quality, Finding
<1>5. \A f \in evaluate(view) : f.field \in {"text", "title"}
  BY <1>1, <1>2, <1>3, <1>4 DEF evaluate
<1> QED BY <1>5

LEMMA BuiltIsClean ==
  ASSUME NEW name \in Built
  PROVE  Faults[name] = {}
<1> DEFINE request == Requests[name]
           post == Post(request)
           licenses == [i \in DOMAIN post.media |-> post.media[i].license]
           full == [View[name] EXCEPT !.media = licenses]
<1>1. /\ name \in DOMAIN Requests /\ Valid(post, request.options)
      /\ request.platform \in Platform /\ request.extra \in Seq(STRING)
  BY ReviewAssumption DEF Built, ReviewAssumption
<1>2. View[name] = [platform |-> post.platform, text |-> post.text, chars |-> post.chars,
                    title |-> post.title, tags |-> post.tags, media |-> <<>>]
  BY <1>1 DEF View
<1>3. /\ post.platform = request.platform /\ post.tags = compose_hashtags(request.platform, request.extra)
      /\ post.titled = (PROMPT_TEMPLATES[request.platform].content_type = "video")
  BY DEF Post
<1>4. full.platform = request.platform /\ full.tags = post.tags /\ full.media = licenses
  <2> HIDE DEF licenses, post
  <2> QED BY <1>2, <1>3
<1>5. request.platform # "reddit"
  <2> SUFFICES ASSUME request.platform = "reddit" PROVE FALSE
    OBVIOUS
  <2>1. post.titled
    <3> HIDE DEF post
    <3> QED BY <1>1, <1>3 DEF Valid
  <2>2. PROMPT_TEMPLATES["reddit"].content_type = "image"
    BY DEF PROMPT_TEMPLATES
  <2> HIDE DEF post
  <2> QED BY <1>3, <2>1, <2>2
<1>6. Len(full.tags) = PROMPT_TEMPLATES[request.platform].hashtag_max
  <2> HIDE DEF full, post
  <2> QED BY <1>1, <1>3, <1>4, <1>5, HashtagsFill
<1>7. LET p == request.platform
      IN  /\ Policy[p].hashtag_min \in Int /\ Policy[p].hashtag_max \in Int
          /\ PROMPT_TEMPLATES[p].hashtag_max \in Int
          /\ Policy[p].hashtag_min <= PROMPT_TEMPLATES[p].hashtag_max
          /\ PROMPT_TEMPLATES[p].hashtag_max <= Policy[p].hashtag_max
  BY <1>1, <1>5 DEF Platform, Policy, PROMPT_TEMPLATES
<1>8. ToSet(full.media) \subseteq {"owned", "licensed"}
  <2>1. \A i \in DOMAIN post.media : post.media[i].license \in {"owned", "licensed"}
    <3> HIDE DEF post
    <3> QED BY <1>1 DEF Valid, Publishable, ToSet
  <2> HIDE DEF full, post
  <2> QED BY <1>4, <2>1 DEF ToSet
<1>9. {f \in evaluate(full) : f.field \in {"media", "hashtags"}} = {}
  <2> HIDE DEF full, post
  <2> QED BY <1>4, <1>6, <1>7, <1>8, NothingFound
<1>10. Faults[name] = {f \in evaluate(full) : f.field \in {"media", "hashtags"}}
  BY DEF Faults
<1> QED BY <1>9, <1>10

(* A post that was built is licensed and has as many hashtags as its         *)
(* platform asks for: the generator never works against the rules, whatever  *)
(* a brief adds.                                                             *)
THEOREM BuiltPostsMeetPolicy == Spec => []BuiltMeetsPolicy
<1>1. BuiltMeetsPolicy
  BY BuiltIsClean DEF BuiltMeetsPolicy
<1> QED BY <1>1, PTL
=============================================================================
