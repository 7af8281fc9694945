------------------------------- MODULE Review -------------------------------
(***************************************************************************)
(* From a brief to the publishing pool: variants are generated within the  *)
(* token budget of their brief (Drafts says what comes out), checked       *)
(* against the compliance rules (Compliance), submitted, decided upon and  *)
(* scheduled.                                                              *)
(*                                                                         *)
(* Every store is a dictionary without locks and the API server has a      *)
(* thread per request.  A submission reads the status of the variant and   *)
(* saves another later; a decision reads the variant and its findings,     *)
(* saves the status later and appends to the log later still.  The other   *)
(* requests are one step each.  Nothing edits a generated variant, so a    *)
(* variant is known by the request it was generated from.                  *)
(***************************************************************************)
EXTENDS Compliance, Drafts

CONSTANTS
  Variants,
  Reviewers,     \* threads that may be submitting or deciding
  NoVariant,     \* absent reference
  Requests,      \* what variants are generated from, by name
  NoRequest,     \* absent name
  Budget,        \* token budget of the brief
  Costs,         \* what the generation of a variant can cost
  ReviewCost,    \* what a self review costs
  MaxSubmitted   \* bounds how often the brief is submitted

ASSUME ReviewAssumption ==
  /\ NoVariant \notin Variants /\ NoRequest \notin DOMAIN Requests
  /\ \A name \in DOMAIN Requests :
       Requests[name].platform \in Platform /\ Requests[name].extra \in Seq(STRING)
  /\ Budget \in Nat \ {0}
  /\ Costs \subseteq Nat /\ ReviewCost \in Nat /\ MaxSubmitted \in Nat

VARIABLES
  submitted,    \* how often the brief was submitted
  used,         \* tokens used of its present budget
  charged,      \* tokens ever charged to it
  variant,      \* status of each variant and the request it comes from
  checked,      \* variants whose findings were computed
  found,        \* findings of the last check of each variant
  waived,       \* those of them that are waived
  adminWaived,  \* history: <<variant, block>> an administrator ever waived
  approvals,    \* the approval log of each variant
  session,      \* what each reviewer is about to save, or has saved and not logged
  pool,         \* variants that were scheduled
  rounds        \* history: how often each variant was put up for review

briefVars == <<submitted, used, charged>>
findingVars == <<checked, found, waived, adminWaived>>
vars == <<briefVars, variant, findingVars, approvals, session, pool, rounds>>

Action == {"approve", "reject", "needs_revision", "batch_approve"}
Verdict == [approve |-> "approved", batch_approve |-> "approved",
            reject |-> "rejected", needs_revision |-> "needs_revision",
            submit |-> "pending_review"]
VariantStatus ==
  {"none", "draft", "pending_review", "approved", "rejected", "needs_revision"}

Unmade == [status |-> "none", request |-> NoRequest]
Idle == [variant |-> NoVariant, action |-> "submit", admin |-> FALSE, informed |-> FALSE,
         round |-> 0, saved |-> FALSE]

(* The post is built: the others leave a row without fields behind. *)
Built == {name \in DOMAIN Requests : Valid(Post(Requests[name]), Requests[name].options)}

(* VariantView.from_variant_record.  The row holds how many media there are, *)
(* not which: no license is seen through it.                                 *)
View ==
  [name \in DOMAIN Requests |->
     LET post == Post(Requests[name])
     IN  IF name \in Built
         THEN [platform |-> post.platform, text |-> post.text, chars |-> post.chars,
               title |-> post.title, tags |-> post.tags, media |-> <<>>]
         ELSE [platform |-> post.platform, text |-> {}, chars |-> 0,
               title |-> {}, tags |-> <<>>, media |-> <<>>]]

Findings == [name \in DOMAIN Requests |-> evaluate(View[name])]
Finds == UNION {Findings[name] : name \in DOMAIN Requests}

TypeOK ==
  /\ submitted \in 0..MaxSubmitted
  /\ used \in 0..Budget
  /\ charged \in Nat
  /\ variant \in [Variants -> [status : VariantStatus, request : DOMAIN Requests \cup {NoRequest}]]
  /\ checked \subseteq Variants
  /\ \A v \in Variants : found[v] \subseteq Finds /\ waived[v] \subseteq found[v]
  /\ adminWaived \subseteq Variants \X Finds
  /\ approvals \in [Variants -> Seq([action : Action, admin : BOOLEAN, informed : BOOLEAN,
                                     round : Nat])]
  /\ session \in [Reviewers -> [variant : Variants \cup {NoVariant}, action : Action \cup {"submit"},
                                admin : BOOLEAN, informed : BOOLEAN, round : Nat, saved : BOOLEAN]]
  /\ pool \subseteq Variants
  /\ rounds \in [Variants -> Nat]

Init ==
  /\ submitted = 0 /\ used = 0 /\ charged = 0
  /\ variant = [v \in Variants |-> Unmade]
  /\ checked = {} /\ adminWaived = {}
  /\ found = [v \in Variants |-> {}]
  /\ waived = [v \in Variants |-> {}]
  /\ approvals = [v \in Variants |-> <<>>]
  /\ session = [r \in Reviewers |-> Idle]
  /\ pool = {}
  /\ rounds = [v \in Variants |-> 0]

-----------------------------------------------------------------------------
(* The brief and its budget. *)

(* Submitting a brief again gives it a new router with a new budget. *)
SubmitBrief ==
  /\ submitted < MaxSubmitted
  /\ submitted' = submitted + 1
  /\ used' = 0
  /\ UNCHANGED <<charged, variant, findingVars, approvals, session, pool, rounds>>

(* Mutant: only the tokens used before are compared. *)
AffordedBefore(tokens) == used < Budget
Afforded(tokens) == used + tokens <= Budget

Charge(tokens) ==
  /\ submitted > 0
  /\ Afforded(tokens)
  /\ used' = used + tokens
  /\ charged' = charged + tokens
  /\ UNCHANGED submitted

(* generate_variant charges what the copywriter used, and may then find no   *)
(* account bound to the platform, or no size for the media it chose.         *)
GenerateUnbound(tokens) ==
  /\ Charge(tokens)
  /\ UNCHANGED <<variant, findingVars, approvals, session, pool, rounds>>

(* The row stays even if building its post fails. *)
GenerateVariant(v, tokens, name) ==
  /\ variant[v] = Unmade
  /\ Writable(Requests[name])
  /\ Charge(tokens)
  /\ variant' = [variant EXCEPT ![v] = [status |-> "draft", request |-> name]]
  /\ UNCHANGED <<findingVars, approvals, session, pool, rounds>>

SelfReview ==
  /\ Charge(ReviewCost)
  /\ UNCHANGED <<variant, findingVars, approvals, session, pool, rounds>>

-----------------------------------------------------------------------------
(* Compliance. *)

(* A check replaces the findings of the variant, and the waivers go with     *)
(* the ones it replaces.                                                     *)
Check(v) ==
  /\ variant[v] # Unmade
  /\ checked' = checked \cup {v}
  /\ found' = [found EXCEPT ![v] = Findings[variant[v].request]]
  /\ waived' = [waived EXCEPT ![v] = {}]
  /\ UNCHANGED <<briefVars, variant, adminWaived, approvals, session, pool, rounds>>

(* Mutant: anybody waives anything. *)
AnybodyWaives(finding, admin) == TRUE
MayWaive(finding, admin) == finding.severity = "block" => admin

Waive(v, finding, admin) ==
  /\ finding \in found[v]
  /\ MayWaive(finding, admin)
  /\ waived' = [waived EXCEPT ![v] = @ \cup {finding}]
  /\ adminWaived' = IF admin /\ finding.severity = "block"
                    THEN adminWaived \cup {<<v, finding>>} ELSE adminWaived
  /\ UNCHANGED <<briefVars, variant, checked, found, approvals, session, pool, rounds>>

Has(findings, severity) == \E f \in findings : f.severity = severity

(* ComplianceOutcome.blocked. *)
Blocked(v) == Has(found[v] \ waived[v], "block")

(* Mutant: a waived warning is forgotten. *)
FlaggedOpen(v) == found[v] \ waived[v] # {}

(* must_review_individually counts a waived warning, but no waived block.    *)
(* No caller tells it that an account is used for the first time.            *)
Flagged(v) == Has(found[v], "warn") \/ Blocked(v)

-----------------------------------------------------------------------------
(* Approvals. *)

(* submit of a draft. *)
Submit(r, v) ==
  /\ session[r] = Idle
  /\ variant[v].status = "draft"
  /\ session' = [session EXCEPT ![r].variant = v]
  /\ UNCHANGED <<briefVars, variant, findingVars, approvals, pool, rounds>>

(* Mutant: a verdict may be revised. *)
ReviewableAgain(v) == variant[v].status \notin {"none", "draft"}
Reviewable(v) == variant[v].status = "pending_review"

(* What decide and batch_approve look at before they save. *)
MayDecide(v, action, admin, guideChanged) ==
  /\ Reviewable(v)
  /\ action \in {"approve", "batch_approve"} => ~Blocked(v) \/ admin
  /\ action = "batch_approve" => ~Flagged(v) /\ ~guideChanged

(* Who approves, and whether the findings were there, is noted of approvals. *)
Decide(r, v, action, admin, guideChanged) ==
  /\ session[r] = Idle
  /\ MayDecide(v, action, admin, guideChanged)
  /\ session' = [session EXCEPT ![r] =
       LET approving == Verdict[action] = "approved"
       IN  [variant |-> v, action |-> action, admin |-> approving /\ admin,
            informed |-> approving /\ v \in checked, round |-> rounds[v], saved |-> FALSE]]
  /\ UNCHANGED <<briefVars, variant, findingVars, approvals, pool, rounds>>

(* set_variant_status, over whatever the status has become.                  *)
SaveStatus(r) ==
  LET s == session[r]
  IN  /\ s # Idle /\ ~s.saved
      /\ variant' = [variant EXCEPT ![s.variant].status = Verdict[s.action]]
      /\ IF s.action = "submit"
         THEN /\ session' = [session EXCEPT ![r] = Idle]
              /\ rounds' = [rounds EXCEPT ![s.variant] = @ + 1]
         ELSE /\ session' = [session EXCEPT ![r].saved = TRUE]
              /\ UNCHANGED rounds
      /\ UNCHANGED <<briefVars, findingVars, approvals, pool>>

(* _record: a verdict is logged after its status was saved.                   *)
Log(r) ==
  LET s == session[r]
  IN  /\ s.saved
      /\ approvals' = [approvals EXCEPT ![s.variant] =
                         Append(@, [action |-> s.action, admin |-> s.admin,
                                    informed |-> s.informed, round |-> s.round])]
      /\ session' = [session EXCEPT ![r] = Idle]
      /\ UNCHANGED <<briefVars, variant, findingVars, pool, rounds>>

-----------------------------------------------------------------------------
(* post_variant_schedule: from here on the variant is Scheduler's.  Its      *)
(* schedule stays even if quota, limiter or a missing post refuse the job.   *)

(* Mutant: a variant may be scheduled as soon as it is in review.            *)
SchedulableInReview(v) == variant[v].status \in {"pending_review", "approved"}
Schedulable(v) == variant[v].status = "approved"

ScheduleVariant(v) ==
  /\ Schedulable(v)
  /\ pool' = pool \cup {v}
  /\ UNCHANGED <<briefVars, variant, findingVars, approvals, session, rounds>>

Next ==
  \/ SubmitBrief
  \/ SelfReview
  \/ \E tokens \in Costs :
        \/ GenerateUnbound(tokens)
        \/ \E v \in Variants, name \in DOMAIN Requests : GenerateVariant(v, tokens, name)
  \/ \E v \in Variants :
        \/ Check(v)
        \/ \E finding \in found[v], admin \in BOOLEAN : Waive(v, finding, admin)
        \/ \E r \in Reviewers : Submit(r, v)
        \/ \E r \in Reviewers, action \in Action, admin, guideChanged \in BOOLEAN :
              Decide(r, v, action, admin, guideChanged)
        \/ ScheduleVariant(v)
  \/ \E r \in Reviewers : SaveStatus(r) \/ Log(r)

Spec == Init /\ [][Next]_vars

-----------------------------------------------------------------------------
(* Whatever is generated, refused for want of an account or reviewed, the    *)
(* tokens charged to a brief stay within its budget once per submission.     *)
ChargesBounded == charged <= Budget * submitted

(* A verdict is said by the log, or by a thread that has saved its status and *)
(* is about to log it.                                                       *)
Saved(v) == {r \in Reviewers : session[r].variant = v /\ session[r].saved}
Said(v, status) ==
  \/ \E i \in DOMAIN approvals[v] : Verdict[approvals[v][i].action] = status
  \/ \E r \in Saved(v) : Verdict[session[r].action] = status

(* Each time a variant is put up for review, only decisions that overlap      *)
(* decide upon it more than once; and a verdict it has is one that was said, *)
(* though not always the last.                                               *)
Logged(v, round) == {i \in DOMAIN approvals[v] : approvals[v][i].round = round}
Deciding(v, round) == {r \in Reviewers : session[r].variant = v /\ session[r].round = round}
DecidedOnce ==
  \A v \in Variants :
    /\ \A k \in 1..rounds[v] :
         Cardinality(Logged(v, k)) + Cardinality(Deciding(v, k)) <= Cardinality(Reviewers)
    /\ \/ variant[v].status \in {"none", "draft", "pending_review"}
       \/ Said(v, variant[v].status)

(* FR-4: every variant that was scheduled has an approval that is logged or   *)
(* about to be, and is still approved unless another decision was saved      *)
(* after it or another submission put it up for review again.                *)
PoolIsApproved ==
  \A v \in pool :
    /\ Said(v, "approved")
    /\ \/ variant[v].status = "approved"
       \/ Len(approvals[v]) + Cardinality(Saved(v)) > 1
       \/ rounds[v] > 1

(* A decision that finds a block approves only if an administrator takes it, *)
(* or if one has waived every block there is, whatever checks and waivers    *)
(* come between.                                                             *)
BlockedNeedsAdmin ==
  \A v \in Variants : \A i \in DOMAIN approvals[v] :
    LET entry == approvals[v][i]
    IN  /\ Verdict[entry.action] = "approved"
        /\ entry.informed /\ ~entry.admin
        => \A f \in Findings[variant[v].request] : f.severity = "block" => <<v, f>> \in adminWaived

(* A variant on which the rules have a warning is never approved in a batch  *)
(* once it was checked, not even when the warning was waived.                *)
FlaggedReviewedAlone ==
  \A v \in Variants :
    approvals[v] # <<>> /\ Has(Findings[variant[v].request], "warn") =>
      \A i \in DOMAIN approvals[v] : approvals[v][i].informed => approvals[v][i].action # "batch_approve"

(* A variant whose post was built has nothing wrong with it that a generator *)
(* can help, looked at as a whole: its media are licensed and its hashtags   *)
(* within what its platform asks for, whatever terms the brief adds.         *)
Faults ==
  [name \in Built |->
     LET post == Post(Requests[name])
         full == [View[name] EXCEPT
                    !.media = [i \in DOMAIN post.media |-> post.media[i].license]]
     IN  {f \in evaluate(full) : f.field \in {"media", "hashtags"}}]
BuiltMeetsPolicy ==
  \A v \in Variants : variant[v].request \in Built => Faults[variant[v].request] = {}
=============================================================================
