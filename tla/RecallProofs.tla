---------------------------- MODULE RecallProofs ----------------------------
(***************************************************************************)
(* What holds of Recall for every library, platform and number of pages,   *)
(* proved with TLAPS.                                                      *)
(***************************************************************************)
EXTENDS Recall, FiniteSetTheorems, TLAPS

Pages == [day : 0..Horizon, apart : BOOLEAN, picks : [Slots -> SUBSET Assets],
          levels : [Slots -> SUBSET Levels]]
Jobs == [step : {"idle", "recalling", "selecting", "naming", "charging"}, level : 0..4,
         slot : Slots \cup {0}, folder : Directories \cup {NoDirectory}, due : SUBSET Assets]

(* A recall is at a slot and a level, an export has a folder.                *)
Placed(j) ==
  /\ j.step \in {"recalling", "selecting"} => j.slot \in Slots
  /\ j.step = "recalling" => j.level \in Levels
  /\ j.step \in {"naming", "charging"} => j.folder \in Directories
TypeInv == TypeOK /\ \A u \in Users : Placed(job[u])

LEMMA SlotFacts ==
  /\ Len(Slot) \in Nat /\ Slots = 1..Len(Slot) /\ 1 \in Slots
  /\ Horizon \in Nat /\ NoDirectory \notin Directories /\ Cooldown \in Nat
<1>1. Len(Slot) \in Nat /\ Slots = 1..Len(Slot)
  BY RecallAssumption DEF RecallAssumption, Slots
<1>2. Len(Slot) # 0
  BY RecallAssumption DEF RecallAssumption
<1> QED BY <1>1, <1>2, RecallAssumption DEF RecallAssumption

LEMMA IdleIsJob == Idle \in Jobs /\ Placed(Idle) /\ Idle.step = "idle" /\ Idle.due = {}
BY DEF Idle, Jobs, Placed

LEMMA BlankIsPage ==
  ASSUME NEW d \in 0..Horizon
  PROVE  /\ [Blank EXCEPT !.day = d] \in Pages
         /\ [Blank EXCEPT !.day = d, !.apart = FALSE] \in Pages
         /\ Blank \in Pages
<1>1. [i \in Slots |-> {}] \in [Slots -> SUBSET Assets]
      /\ [i \in Slots |-> {}] \in [Slots -> SUBSET Levels] /\ 0 \in 0..Horizon
  BY SlotFacts
<1>2. Blank \in Pages
  BY <1>1 DEF Blank, Pages
<1>3. \A p \in Pages : [p EXCEPT !.day = d] \in Pages /\ [p EXCEPT !.day = d, !.apart = FALSE] \in Pages
  BY DEF Pages
<1> QED BY <1>2, <1>3

LEMMA PoolIsAssets ==
  ASSUME NEW i \in Slots, NEW level \in Levels
  PROVE  Pool(i, level) \subseteq Assets
<1>1. \A p \in SUBSET Assets : prefer_media_kind(i, p) \subseteq Assets /\ top_tier(i, p) \subseteq Assets
  BY DEF prefer_media_kind, top_tier
<1>2. /\ {a \in Assets : InCategory(i, a)} \subseteq Assets
      /\ {a \in Assets : slot_score(i, a) > 0} \subseteq Assets
  OBVIOUS
<1>3. /\ prefer_media_kind(i, top_tier(i, {a \in Assets : slot_score(i, a) > 0})) \subseteq Assets
      /\ prefer_media_kind(i, {a \in Assets : slot_score(i, a) > 0}) \subseteq Assets
      /\ prefer_media_kind(i, {a \in Assets : InCategory(i, a)}) \subseteq Assets
      /\ prefer_media_kind(i, Assets) \subseteq Assets
  BY <1>1, <1>2
<1> QED BY <1>3 DEF Pool, slot_pools, Levels

(* A sample is of the pool, and nothing in it cools.                         *)
LEMMA SamplesAreFree ==
  ASSUME NEW pool \in SUBSET Assets, NEW wanted, NEW got \in Samples(pool, wanted)
  PROVE  got \subseteq pool /\ \A a \in got : ~Cooling(a, now)
BY DEF Samples

LEMMA MarkedType ==
  ASSUME TypeOK, NEW a \in Assets, NEW by \in Directories \cup {NoDirectory}
  PROVE  Marked(a, by) \subseteq Uses
BY DEF TypeOK, Marked, Uses

(* A recall that is still going on has been to slot i at this level; one that *)
(* is over has been everywhere.                                              *)
Behind(j, i, level) ==
  j.step = "recalling" => level < j.level \/ (level = j.level /\ i < j.slot)

(* The step after a slot's: it leaves this slot at this level behind, and     *)
(* nothing else that was not behind already.                                 *)
LEMMA OnwardType ==
  ASSUME TypeInv, NEW u \in Users, job[u].step = "recalling", Onward(u)
  PROVE  \E j \in Jobs :
           /\ Placed(j) /\ job' = [job EXCEPT ![u] = j]
           /\ j.step \in {"idle", "recalling"}
           /\ j.step = "recalling" => j.level >= job[u].level
           /\ \A i \in Slots, l \in Levels : Behind(j, i, l) =>
                Behind(job[u], i, l) \/ (i = job[u].slot /\ l = job[u].level)
<1>1. job[u] \in Jobs /\ job[u].slot \in 1..Len(Slot) /\ job[u].level \in 1..4
  BY SlotFacts DEF TypeInv, TypeOK, Jobs, Placed, Levels
<1>2. ASSUME NEW l \in 0..4, NEW s \in Slots
      PROVE  /\ [job[u] EXCEPT !.level = l, !.slot = s] \in Jobs
             /\ [job[u] EXCEPT !.slot = s] \in Jobs
  BY <1>1 DEF Jobs
<1>3. CASE LastSlot(u)
  <2>1. \A i \in Slots, l \in Levels :
          Behind(job[u], i, l) \/ (i = job[u].slot /\ l = job[u].level)
    BY <1>1, <1>3, SlotFacts DEF LastSlot, Behind, Levels
  <2> QED BY <1>3, <2>1, IdleIsJob DEF Onward
<1>4. CASE ~LastSlot(u)
  <2> DEFINE j == Further(job[u])
  <2>1. job' = [job EXCEPT ![u] = j]
    BY <1>4 DEF Onward
  <2>2. CASE job[u].slot = Len(Slot)
    <3>1. job[u].level + 1 \in 1..4
      BY <1>1, <1>4, <2>2 DEF LastSlot
    <3>2. j = [job[u] EXCEPT !.level = job[u].level + 1, !.slot = 1]
      BY <2>2 DEF Further
    <3>3. j \in Jobs
      <4>1. job[u].level + 1 \in 0..4 /\ 1 \in Slots
        BY <3>1, SlotFacts
      <4>2. [job[u] EXCEPT !.level = job[u].level + 1, !.slot = 1] \in Jobs
        BY <4>1, <1>2
      <4> HIDE DEF j
      <4> QED BY <3>2, <4>2
    <3>4. j.step = "recalling" /\ j.slot = 1 /\ j.level = job[u].level + 1
      BY <1>1, <3>2 DEF Jobs
    <3> HIDE DEF j
    <3>5. \A i \in Slots, l \in Levels : Behind(j, i, l) =>
            Behind(job[u], i, l) \/ (i = job[u].slot /\ l = job[u].level)
      BY <1>1, <2>2, <3>4, SlotFacts DEF Behind, Levels
    <3>6. j.level >= job[u].level
      BY <1>1, <3>4
    <3>7. Placed(j)
      BY <3>1, <3>4, SlotFacts DEF Placed, Levels
    <3> QED BY <2>1, <3>3, <3>4, <3>5, <3>6, <3>7
  <2>3. CASE job[u].slot # Len(Slot)
    <3>1. job[u].slot + 1 \in Slots
      BY <1>1, <2>3, SlotFacts
    <3>2. j = [job[u] EXCEPT !.slot = job[u].slot + 1]
      BY <2>3 DEF Further
    <3>3. j \in Jobs
      <4>1. [job[u] EXCEPT !.slot = job[u].slot + 1] \in Jobs
        BY <1>1, <3>1 DEF Jobs
      <4> HIDE DEF j
      <4> QED BY <3>2, <4>1
    <3>4. j.step = "recalling" /\ j.slot = job[u].slot + 1 /\ j.level = job[u].level
      BY <1>1, <3>2 DEF Jobs
    <3> HIDE DEF j
    <3>5. \A i \in Slots, l \in Levels : Behind(j, i, l) =>
            Behind(job[u], i, l) \/ (i = job[u].slot /\ l = job[u].level)
      BY <1>1, <3>4, SlotFacts DEF Behind, Levels
    <3>6. j.level >= job[u].level
      BY <1>1, <3>4
    <3>7. Placed(j)
      BY <1>1, <3>1, <3>4 DEF Placed, Levels
    <3> QED BY <2>1, <3>3, <3>4, <3>5, <3>6, <3>7
  <2> QED BY <2>2, <2>3
<1> QED BY <1>3, <1>4

(* What one slot of a recall puts on its page.                               *)
Draws(u, got, p) ==
  LET i == job[u].slot
      level == job[u].level
  IN  /\ got \cap Taken(u) = {} /\ \A a \in got : ~Cooling(a, now)
      /\ got \in Samples(Pool(i, level) \ Taken(u), TopK - Cardinality(page[u].picks[i]))
      /\ page' = [page EXCEPT ![u] = p]
      /\ before' = [before EXCEPT ![u] = @ \cup {r \in ledger : r.asset \in got}]
      /\ p.day = page[u].day /\ p.apart = page[u].apart
      /\ p.picks = [page[u].picks EXCEPT ![i] = @ \cup got]
      /\ \A k \in Slots : p.levels[k] = IF k = i /\ got # {} THEN page[u].levels[k] \cup {level}
                                                             ELSE page[u].levels[k]

LEMMA RecallSlotPage ==
  ASSUME TypeInv, NEW u \in Users, RecallSlot(u)
  PROVE  \E got \in SUBSET Assets, p \in Pages : Draws(u, got, p)
<1> DEFINE i == job[u].slot
           level == job[u].level
<1>1. page[u] \in Pages /\ page \in [Users -> Pages] /\ i \in Slots /\ level \in Levels
  BY DEF RecallSlot, TypeInv, TypeOK, Pages, Placed
<1>2. PICK got \in Samples(Pool(i, level) \ Taken(u), TopK - Cardinality(page[u].picks[i])) :
        /\ page' = IF got = {} THEN page
                   ELSE [page EXCEPT ![u].picks[i] = @ \cup got, ![u].levels[i] = @ \cup {level}]
        /\ before' = [before EXCEPT ![u] = @ \cup {r \in ledger : r.asset \in got}]
  BY DEF RecallSlot, Drawn
<1>3. got \in SUBSET Assets /\ got \cap Taken(u) = {} /\ \A a \in got : ~Cooling(a, now)
  <2>1. Pool(i, level) \ Taken(u) \in SUBSET Assets
    BY <1>1, PoolIsAssets
  <2>2. got \subseteq Pool(i, level) \ Taken(u) /\ \A a \in got : ~Cooling(a, now)
    BY <2>1, SamplesAreFree
  <2> QED BY <2>1, <2>2
<1>4. CASE got = {}
  <2>1. page[u].picks \in [Slots -> SUBSET Assets]
    BY <1>1 DEF Pages
  <2>2. page[u].picks = [page[u].picks EXCEPT ![i] = @ \cup got]
    BY <1>1, <1>4, <2>1
  <2>3. page' = [page EXCEPT ![u] = page[u]]
    BY <1>1, <1>2, <1>4
  <2>4. Draws(u, got, page[u])
    BY <1>2, <1>3, <1>4, <2>2, <2>3 DEF Draws
  <2> QED BY <1>1, <1>3, <2>4
<1>5. CASE got # {}
  <2> DEFINE picks == [page[u].picks EXCEPT ![i] = @ \cup got]
             levels == [page[u].levels EXCEPT ![i] = @ \cup {level}]
             p == [page[u] EXCEPT !.picks = picks, !.levels = levels]
  <2>1. page[u].picks \in [Slots -> SUBSET Assets] /\ page[u].levels \in [Slots -> SUBSET Levels]
    BY <1>1 DEF Pages
  <2>2. picks \in [Slots -> SUBSET Assets]
    BY <1>1, <1>3, <2>1
  <2>3. levels \in [Slots -> SUBSET Levels]
    BY <1>1, <2>1
  <2>4. page' = [page EXCEPT ![u] = p]
    BY <1>1, <1>2, <1>5, <2>1 DEF Pages
  <2>5. p.day = page[u].day /\ p.apart = page[u].apart /\ p.picks = picks
    BY <1>1 DEF Pages
  <2>6. p \in Pages /\ p.levels = levels
    <3> HIDE DEF picks, levels
    <3> QED BY <1>1, <2>2, <2>3 DEF Pages
  <2>7. \A k \in Slots : levels[k] = IF k = i THEN page[u].levels[k] \cup {level}
                                                ELSE page[u].levels[k]
    BY <1>1, <2>1
  <2> HIDE DEF p, levels
  <2>8. Draws(u, got, p)
    BY <1>2, <1>3, <1>5, <2>4, <2>5, <2>6, <2>7 DEF Draws
  <2> QED BY <1>3, <2>6, <2>8
<1> QED BY <1>4, <1>5

(* ... and of a selection.                                                   *)
LEMMA SelectSlotPage ==
  ASSUME TypeInv, NEW u \in Users, SelectSlot(u)
  PROVE  \E got \in SUBSET Assets, p \in Pages :
           /\ \A a \in got : ~Cooling(a, now)
           /\ page' = [page EXCEPT ![u] = p]
           /\ p.day = page[u].day /\ p.apart = page[u].apart
           /\ \/ p.picks = page[u].picks
              \/ p.picks = [page[u].picks EXCEPT ![job[u].slot] = got]
           /\ before' = [before EXCEPT ![u] = @ \cup {r \in ledger : r.asset \in got}]
<1> DEFINE i == job[u].slot
<1>1. page[u] \in Pages /\ page \in [Users -> Pages] /\ i \in Slots
  BY DEF SelectSlot, TypeInv, TypeOK, Pages, Placed
<1>0. before \in [Users -> SUBSET Uses]
  BY DEF TypeInv, TypeOK
<1>2. CASE UNCHANGED <<page, before>>
  <2>1. page' = [page EXCEPT ![u] = page[u]]
        /\ before' = [before EXCEPT ![u] = @ \cup {r \in ledger : r.asset \in {}}]
    BY <1>0, <1>1, <1>2
  <2>2. {} \in SUBSET Assets /\ \A a \in {} : ~Cooling(a, now)
    OBVIOUS
  <2> page[u] \in Pages
    BY <1>1
  <2> WITNESS {} \in SUBSET Assets, page[u] \in Pages
  <2> QED BY <2>1, <2>2
<1>3. CASE ~UNCHANGED <<page, before>>
  <2>0. PICK level \in Levels : \E got \in Samples(Pool(i, level), TopK) :
          /\ page' = [page EXCEPT ![u].picks[i] = got, ![u].levels[i] = {level}]
          /\ before' = [before EXCEPT ![u] = @ \cup {r \in ledger : r.asset \in got}]
    BY <1>3 DEF SelectSlot, Drawn
  <2>1. PICK got \in Samples(Pool(i, level), TopK) :
          /\ page' = [page EXCEPT ![u].picks[i] = got, ![u].levels[i] = {level}]
          /\ before' = [before EXCEPT ![u] = @ \cup {r \in ledger : r.asset \in got}]
    BY <2>0
  <2>2. got \in SUBSET Assets /\ \A a \in got : ~Cooling(a, now)
    <3>1. Pool(i, level) \in SUBSET Assets
      BY <1>1, PoolIsAssets
    <3>2. got \subseteq Pool(i, level) /\ \A a \in got : ~Cooling(a, now)
      BY <3>1, SamplesAreFree
    <3> QED BY <3>1, <3>2
  <2> DEFINE picks == [page[u].picks EXCEPT ![i] = got]
             levels == [page[u].levels EXCEPT ![i] = {level}]
             p == [page[u] EXCEPT !.picks = picks, !.levels = levels]
  <2>3. page[u].picks \in [Slots -> SUBSET Assets] /\ page[u].levels \in [Slots -> SUBSET Levels]
    BY <1>1 DEF Pages
  <2>4. picks \in [Slots -> SUBSET Assets] /\ levels \in [Slots -> SUBSET Levels]
    BY <1>1, <2>2, <2>3
  <2>5. page' = [page EXCEPT ![u] = p]
    BY <1>1, <2>1, <2>3 DEF Pages
  <2>6. p.day = page[u].day /\ p.apart = page[u].apart /\ p.picks = picks
    BY <1>1 DEF Pages
  <2>7. p \in Pages
    <3> HIDE DEF picks, levels
    <3> QED BY <1>1, <2>4 DEF Pages
  <2> HIDE DEF p
  <2> QED BY <2>1, <2>2, <2>5, <2>6, <2>7
<1> QED BY <1>2, <1>3

(* The invariant: besides the types, a selection is of a page that is not     *)
(* a recall's; pages are not of the future, and one being filled is of        *)
(* today; slots are apart; the two properties; and what is still due is in    *)
(* the package.                                                              *)
Filling ==
  \A u \in Users :
    /\ job[u].step = "selecting" => ~page[u].apart
    /\ page[u].day <= now
    /\ Choosing(u) => page[u].day = now
SlotsApart ==
  \A u \in Users : page[u].apart =>
    \A i, j \in Slots : i # j => page[u].picks[i] \cap page[u].picks[j] = {}
OfLedger == \A u \in Users : before[u] \subseteq ledger
DueIsCopied == \A u \in Users : job[u].step = "charging" => job[u].due \subseteq package[job[u].folder]
Inv ==
  /\ TypeInv /\ Filling /\ SlotsApart /\ OfLedger /\ PicksAreRested
  /\ DueIsCopied /\ OnlyCopiedCharged

(* An outcome of the steps of one page: page and job change at one user, and *)
(* the new page keeps the properties, with b the uses from before.           *)
Fresh(p, b) ==
  /\ p.day <= now
  /\ p.apart => \A i, j \in Slots : i # j => p.picks[i] \cap p.picks[j] = {}
  /\ b \subseteq ledger
  /\ \A i \in Slots, r \in b : r.asset \in p.picks[i] => p.day - r.day >= Cooldown
Becomes(u, p, j) == page' = [page EXCEPT ![u] = p] /\ job' = [job EXCEPT ![u] = j]

(* Such a step keeps the invariant.                                          *)
LEMMA PageStep ==
  ASSUME Inv, NEW u \in Users, NEW p \in Pages, NEW j \in Jobs, Becomes(u, p, j),
         NEW b \in SUBSET Uses, before' = [before EXCEPT ![u] = b],
         Fresh(p, b), Placed(j), UNCHANGED <<now, ledger, folders, package>>,
         j.step = "selecting" => ~p.apart,
         j.step \in {"recalling", "selecting"} => p.day = now,
         j.step = "charging" => j.due \subseteq package[j.folder]
  PROVE  Inv'
<1> USE DEF Becomes
<1>1. /\ page \in [Users -> Pages] /\ job \in [Users -> Jobs]
      /\ page' \in [Users -> Pages] /\ job' \in [Users -> Jobs]
      /\ before \in [Users -> SUBSET Uses] /\ before' \in [Users -> SUBSET Uses]
  <2>1. page \in [Users -> Pages] /\ job \in [Users -> Jobs] /\ before \in [Users -> SUBSET Uses]
    BY DEF Inv, TypeInv, TypeOK, Pages, Jobs
  <2> QED BY <2>1
<1>2. /\ page'[u] = p /\ job'[u] = j /\ before'[u] = b
      /\ \A v \in Users \ {u} : page'[v] = page[v] /\ job'[v] = job[v] /\ before'[v] = before[v]
  BY <1>1
<1>3. TypeInv'
  <2>1. TypeOK'
    BY <1>1 DEF Inv, TypeInv, TypeOK, Pages, Jobs
  <2>2. \A v \in Users : Placed(job'[v])
    BY <1>2 DEF Inv, TypeInv
  <2>3. \A v \in Users : Placed(job'[v]) <=> Placed(job[v])'
    BY DEF Placed
  <2> QED BY <2>1, <2>2, <2>3 DEF TypeInv
<1>4. Filling'
  BY <1>2 DEF Inv, Filling, Choosing, Fresh
<1>5. SlotsApart'
  BY <1>2 DEF Inv, SlotsApart, Fresh
<1>6. PicksAreRested' /\ OfLedger'
  BY <1>2 DEF Inv, PicksAreRested, OfLedger, Fresh
<1>7. DueIsCopied'
  BY <1>2 DEF Inv, DueIsCopied
<1>8. OnlyCopiedCharged'
  BY DEF Inv, OnlyCopiedCharged
<1> QED BY <1>3, <1>4, <1>5, <1>6, <1>7, <1>8 DEF Inv

(* What pages and jobs are before a step.                                    *)
LEMMA BeforeFacts ==
  ASSUME Inv, NEW u \in Users
  PROVE  /\ page[u] \in Pages /\ job[u] \in Jobs /\ Placed(job[u])
         /\ page \in [Users -> Pages] /\ job \in [Users -> Jobs]
         /\ page = [page EXCEPT ![u] = page[u]]
         /\ before[u] \in SUBSET Uses /\ before = [before EXCEPT ![u] = before[u]]
         /\ now \in 0..Horizon /\ Fresh(page[u], before[u])
<1>1. /\ page \in [Users -> Pages] /\ job \in [Users -> Jobs] /\ Placed(job[u]) /\ now \in 0..Horizon
      /\ before \in [Users -> SUBSET Uses]
  BY DEF Inv, TypeInv, TypeOK, Pages, Jobs
<1>2. Fresh(page[u], before[u])
  BY DEF Inv, Fresh, Filling, SlotsApart, PicksAreRested, OfLedger
<1> QED BY <1>1, <1>2

(* Nothing is picked on a blank page.                                        *)
LEMMA StartFacts ==
  ASSUME Inv
  PROVE  LET p == [Blank EXCEPT !.day = now]
             q == [Blank EXCEPT !.day = now, !.apart = FALSE]
         IN  /\ p \in Pages /\ p.day = now /\ Fresh(p, {})
             /\ q \in Pages /\ q.day = now /\ ~q.apart /\ Fresh(q, {})
             /\ Blank \in Pages /\ Fresh(Blank, {})
<1>1. now \in 0..Horizon
  BY DEF Inv, TypeInv, TypeOK
<1>2. /\ [Blank EXCEPT !.day = now] \in Pages
      /\ [Blank EXCEPT !.day = now, !.apart = FALSE] \in Pages /\ Blank \in Pages
  BY <1>1, BlankIsPage
<1>3. Blank.day = 0 /\ \A i \in Slots : Blank.picks[i] = {}
  BY DEF Blank
<1>4. /\ [Blank EXCEPT !.day = now].day = now
      /\ [Blank EXCEPT !.day = now].picks = Blank.picks
      /\ [Blank EXCEPT !.day = now, !.apart = FALSE].day = now
      /\ [Blank EXCEPT !.day = now, !.apart = FALSE].apart = FALSE
      /\ [Blank EXCEPT !.day = now, !.apart = FALSE].picks = Blank.picks
  BY DEF Blank
<1>5. ASSUME NEW p, p.day <= now, p.picks = Blank.picks
      PROVE  Fresh(p, {})
  BY <1>3, <1>5 DEF Fresh
<1>6. 0 <= now /\ now <= now
  BY <1>1
<1> QED BY <1>2, <1>3, <1>4, <1>5, <1>6

(* The jobs that begin are jobs.                                             *)
LEMMA ARecall ==
  ASSUME NEW k \in Jobs, NEW s \in Slots
  PROVE  LET j == [k EXCEPT !.step = "recalling", !.level = Strict, !.slot = s]
         IN  j \in Jobs /\ j.step = "recalling" /\ j.level = Strict /\ j.slot = s
<1> DEFINE j == [k EXCEPT !.step = "recalling", !.level = Strict, !.slot = s]
<1>1. Strict \in 0..4
  BY DEF Strict
<1>2. \A l \in 0..4 : [k EXCEPT !.step = "recalling", !.level = l, !.slot = s] \in Jobs
  BY DEF Jobs
<1>3. j.step = "recalling" /\ j.level = Strict /\ j.slot = s
  BY DEF Jobs
<1>4. j \in Jobs
  BY <1>1, <1>2
<1> QED BY <1>3, <1>4

LEMMA ASelection ==
  ASSUME NEW k \in Jobs, NEW s \in Slots
  PROVE  LET j == [k EXCEPT !.step = "selecting", !.slot = s]
         IN  j \in Jobs /\ j.step = "selecting" /\ j.slot = s
BY DEF Jobs

LEMMA AnExport ==
  ASSUME NEW k \in Jobs, NEW d \in Directories
  PROVE  LET j == [k EXCEPT !.step = "naming", !.folder = d]
         IN  j \in Jobs /\ j.step = "naming" /\ j.folder = d
BY DEF Jobs

LEMMA StartRecallKeeps == ASSUME Inv, NEW u \in Users, StartRecall(u) PROVE Inv'
<1> DEFINE p == [Blank EXCEPT !.day = now]
           j == [Idle EXCEPT !.step = "recalling", !.level = Strict, !.slot = 1]
<1>1. j \in Jobs /\ Placed(j) /\ j.step = "recalling"
  <2>1. Idle \in Jobs /\ 1 \in Slots /\ Strict \in Levels
    BY IdleIsJob, SlotFacts DEF Strict, Levels
  <2>2. j \in Jobs /\ j.step = "recalling" /\ j.level = Strict /\ j.slot = 1
    BY <2>1, ARecall
  <2> HIDE DEF j
  <2> QED BY <2>1, <2>2 DEF Placed
<1>2. p \in Pages /\ p.day = now /\ Fresh(p, {})
  BY StartFacts
<1>3. /\ Becomes(u, p, j) /\ UNCHANGED <<now, ledger, folders, package>>
      /\ before' = [before EXCEPT ![u] = {}]
  BY DEF StartRecall, Becomes
<1> HIDE DEF p, j
<1> QED BY <1>1, <1>2, <1>3, PageStep

LEMMA StartSelectionKeeps == ASSUME Inv, NEW u \in Users, StartSelection(u) PROVE Inv'
<1> DEFINE p == [Blank EXCEPT !.day = now, !.apart = FALSE]
           j == [Idle EXCEPT !.step = "selecting", !.slot = 1]
<1>1. j \in Jobs /\ Placed(j) /\ j.step = "selecting"
  <2>1. Idle \in Jobs /\ 1 \in Slots
    BY IdleIsJob, SlotFacts
  <2>2. j \in Jobs /\ j.step = "selecting" /\ j.slot = 1
    BY <2>1, ASelection
  <2> HIDE DEF j
  <2> QED BY <2>1, <2>2 DEF Placed
<1>2. p \in Pages /\ p.day = now /\ Fresh(p, {}) /\ ~p.apart
  BY StartFacts
<1>3. /\ Becomes(u, p, j) /\ UNCHANGED <<now, ledger, folders, package>>
      /\ before' = [before EXCEPT ![u] = {}]
  BY DEF StartSelection, Becomes
<1> HIDE DEF p, j
<1> QED BY <1>1, <1>2, <1>3, PageStep

(* What had not cooled when it was picked had rested.                        *)
LEMMA PickedIsFresh ==
  ASSUME Inv, NEW u \in Users, page[u].day = now, NEW p \in Pages, NEW got \in SUBSET Assets,
         p.day = now, \A a \in got : ~Cooling(a, now),
         \A k \in Slots : p.picks[k] \subseteq page[u].picks[k] \cup got,
         p.apart => \A k, l \in Slots : k # l => p.picks[k] \cap p.picks[l] = {},
         NEW b, \A r : r \in b <=> r \in before[u] \/ (r \in ledger /\ r.asset \in got)
  PROVE  b \in SUBSET Uses /\ Fresh(p, b)
<1>1. /\ now \in Nat /\ Cooldown \in Nat /\ \A r \in ledger : r.day \in Nat
      /\ ledger \subseteq Uses /\ before[u] \subseteq ledger /\ before[u] \subseteq Uses
  BY SlotFacts DEF Inv, TypeInv, TypeOK, Uses, OfLedger
<1>2. ASSUME NEW k \in Slots, NEW r \in b, r.asset \in p.picks[k]
      PROVE  p.day - r.day >= Cooldown
  <2>1. CASE r.asset \in got
    BY <1>1, <1>2, <2>1 DEF Cooling
  <2>2. CASE r.asset \notin got
    BY <1>2, <2>2 DEF Inv, PicksAreRested
  <2> QED BY <2>1, <2>2
<1>3. b \in SUBSET Uses
  BY <1>1
<1>4. p.day <= now /\ b \subseteq ledger
  BY <1>1
<1>5. Fresh(p, b)
  BY <1>2, <1>4 DEF Fresh
<1> QED BY <1>3, <1>5

LEMMA RecallSlotKeeps == ASSUME Inv, NEW u \in Users, RecallSlot(u) PROVE Inv'
<1>1. TypeInv /\ job[u].step = "recalling" /\ Onward(u) /\ UNCHANGED <<now, ledger, folders, package>>
  BY DEF Inv, RecallSlot
<1>2. page[u].day = now /\ job[u].slot \in Slots /\ page[u] \in Pages
      /\ page[u].picks \in [Slots -> SUBSET Assets]
  BY <1>1, BeforeFacts DEF Inv, Filling, Choosing, Placed, Pages
<1>3. PICK j \in Jobs : /\ Placed(j) /\ job' = [job EXCEPT ![u] = j]
                        /\ j.step \in {"idle", "recalling"}
  BY <1>1, OnwardType
<1>4. PICK got \in SUBSET Assets, p \in Pages : Draws(u, got, p)
  BY <1>1, RecallSlotPage
<1>5. \A k \in Slots : p.picks[k] = IF k = job[u].slot THEN page[u].picks[k] \cup got
                                                     ELSE page[u].picks[k]
  BY <1>2, <1>4 DEF Draws
<1>6. ASSUME p.apart, NEW k \in Slots, NEW l \in Slots, k # l
      PROVE  p.picks[k] \cap p.picks[l] = {}
  <2>1. page[u].picks[k] \cap page[u].picks[l] = {}
    BY <1>4, <1>6 DEF Inv, SlotsApart, Draws
  <2>2. got \cap page[u].picks[k] = {} /\ got \cap page[u].picks[l] = {}
    BY <1>4 DEF Taken, Draws
  <2> QED BY <1>5, <1>6, <2>1, <2>2
<1>7. /\ \A k \in Slots : p.picks[k] \subseteq page[u].picks[k] \cup got
      /\ p.apart => \A k, l \in Slots : k # l => p.picks[k] \cap p.picks[l] = {}
      /\ p.day = now
  BY <1>2, <1>4, <1>5, <1>6 DEF Draws
<1>8. PICK b : b = before[u] \cup {r \in ledger : r.asset \in got}
  OBVIOUS
<1>9. b \in SUBSET Uses /\ Fresh(p, b)
  <2>1. page[u].day = now /\ \A a \in got : ~Cooling(a, now)
    BY <1>2, <1>4 DEF Draws
  <2>2. \A r : r \in b <=> r \in before[u] \/ (r \in ledger /\ r.asset \in got)
    BY <1>8
  <2> QED BY <1>7, <2>1, <2>2, PickedIsFresh
<1>10. before' = [before EXCEPT ![u] = b] /\ Becomes(u, p, j)
  BY <1>3, <1>4, <1>8 DEF Draws, Becomes
<1> QED BY <1>1, <1>3, <1>7, <1>9, <1>10, PageStep

LEMMA SelectSlotKeeps == ASSUME Inv, NEW u \in Users, SelectSlot(u) PROVE Inv'
<1>1. TypeInv /\ job[u].step = "selecting" /\ UNCHANGED <<now, ledger, folders, package>>
  BY DEF Inv, SelectSlot
<1>2. page[u].day = now /\ ~page[u].apart /\ job[u].slot \in Slots /\ page[u] \in Pages
      /\ page[u].picks \in [Slots -> SUBSET Assets] /\ job[u] \in Jobs
  BY <1>1, BeforeFacts DEF Inv, Filling, Choosing, Placed, Pages
<1>3. PICK j \in Jobs : /\ Placed(j) /\ job' = [job EXCEPT ![u] = j]
                        /\ j.step \in {"idle", "selecting"}
  <2> DEFINE j == IF job[u].slot = Len(Slot) THEN Idle ELSE [job[u] EXCEPT !.slot = job[u].slot + 1]
  <2>1. job' = [job EXCEPT ![u] = j]
    BY DEF SelectSlot
  <2>2. CASE job[u].slot = Len(Slot)
    BY <2>1, <2>2, IdleIsJob
  <2>3. CASE job[u].slot # Len(Slot)
    <3>1. job[u].slot + 1 \in Slots
      BY <1>2, <2>3, SlotFacts
    <3>2. j = [job[u] EXCEPT !.slot = job[u].slot + 1]
      BY <2>3
    <3>3. [job[u] EXCEPT !.slot = job[u].slot + 1] \in Jobs
      BY <1>2, <3>1 DEF Jobs
    <3>4. j.step = "selecting" /\ j.slot = job[u].slot + 1
      BY <1>1, <1>2, <3>2 DEF Jobs
    <3>5. Placed(j)
      BY <3>1, <3>4 DEF Placed
    <3> HIDE DEF j
    <3> QED BY <2>1, <3>2, <3>3, <3>4, <3>5
  <2> QED BY <2>2, <2>3
<1>4. PICK got \in SUBSET Assets, p \in Pages :
        /\ \A a \in got : ~Cooling(a, now)
        /\ page' = [page EXCEPT ![u] = p]
        /\ p.day = page[u].day /\ p.apart = page[u].apart
        /\ \/ p.picks = page[u].picks
           \/ p.picks = [page[u].picks EXCEPT ![job[u].slot] = got]
        /\ before' = [before EXCEPT ![u] = @ \cup {r \in ledger : r.asset \in got}]
  BY <1>1, SelectSlotPage
<1>5. \A k \in Slots : p.picks[k] \subseteq page[u].picks[k] \cup got
  BY <1>2, <1>4
<1>6. PICK b : b = before[u] \cup {r \in ledger : r.asset \in got}
  OBVIOUS
<1>7. b \in SUBSET Uses /\ Fresh(p, b)
  <2>1. page[u].day = now /\ p.day = now /\ ~p.apart /\ \A a \in got : ~Cooling(a, now)
    BY <1>2, <1>4
  <2>2. \A r : r \in b <=> r \in before[u] \/ (r \in ledger /\ r.asset \in got)
    BY <1>6
  <2> QED BY <1>5, <2>1, <2>2, PickedIsFresh
<1>8. before' = [before EXCEPT ![u] = b] /\ Becomes(u, p, j)
  BY <1>3, <1>4, <1>6 DEF Becomes
<1> QED BY <1>1, <1>2, <1>3, <1>4, <1>7, <1>8, PageStep

LEMMA StartExportKeeps ==
  ASSUME Inv, NEW u \in Users, NEW d \in Directories, StartExport(u, d) PROVE Inv'
<1> DEFINE j == [Idle EXCEPT !.step = "naming", !.folder = d]
<1>1. j \in Jobs /\ Placed(j) /\ j.step = "naming"
  <2>1. j \in Jobs /\ j.step = "naming" /\ j.folder = d
    BY IdleIsJob, AnExport
  <2> HIDE DEF j
  <2> QED BY <2>1 DEF Placed
<1>2. Becomes(u, page[u], j) /\ UNCHANGED <<now, ledger, folders, package, before>>
  BY BeforeFacts DEF StartExport, Becomes
<1> HIDE DEF j
<1> QED BY <1>1, <1>2, BeforeFacts, PageStep

LEMMA FinishExportKeeps == ASSUME Inv, NEW u \in Users, FinishExport(u) PROVE Inv'
<1>1. Becomes(u, page[u], Idle) /\ UNCHANGED <<now, ledger, folders, package, before>>
  BY BeforeFacts DEF FinishExport, Becomes
<1> QED BY <1>1, IdleIsJob, BeforeFacts, PageStep

LEMMA AbortKeeps == ASSUME Inv, NEW u \in Users, Abort(u) PROVE Inv'
<1>1. CASE Choosing(u)
  <2>1. /\ Becomes(u, Blank, Idle) /\ UNCHANGED <<now, ledger, folders, package>>
        /\ before' = [before EXCEPT ![u] = {}]
    BY <1>1 DEF Abort, Becomes
  <2> QED BY <2>1, IdleIsJob, StartFacts, PageStep
<1>2. CASE ~Choosing(u)
  <2>1. Becomes(u, page[u], Idle) /\ UNCHANGED <<now, ledger, folders, package, before>>
    BY <1>2, BeforeFacts DEF Abort, Becomes
  <2> QED BY <2>1, IdleIsJob, BeforeFacts, PageStep
<1> QED BY <1>1, <1>2

(* A use entered by hand or by an export is of today, and no page is newer.   *)
LEMMA MarkKeeps ==
  ASSUME Inv, NEW a \in Assets, NEW by \in Directories \cup {NoDirectory},
         ledger' = Marked(a, by), UNCHANGED <<now, package, page, before>>,
         by # NoDirectory => a \in package[by]
  PROVE  /\ ledger' \subseteq Uses
         /\ OfLedger' /\ PicksAreRested' /\ OnlyCopiedCharged'
<1>1. ledger' \subseteq Uses
  BY MarkedType DEF Inv, TypeInv
<1>2. ledger' \subseteq ledger \cup {[asset |-> a, by |-> by, day |-> now]}
  BY DEF Marked
<1>4. PicksAreRested' /\ OfLedger'
  BY DEF Inv, PicksAreRested, OfLedger, Marked
<1>5. OnlyCopiedCharged'
  BY <1>2 DEF Inv, OnlyCopiedCharged
<1> QED BY <1>1, <1>4, <1>5

LEMMA MarkUsedKeeps == ASSUME Inv, NEW a \in Assets, MarkUsed(a) PROVE Inv'
<1>1. ledger' = Marked(a, NoDirectory) /\ UNCHANGED <<now, folders, package, page, job, before>>
  BY DEF MarkUsed
<1>2. /\ ledger' \subseteq Uses
      /\ OfLedger' /\ PicksAreRested' /\ OnlyCopiedCharged'
  BY <1>1, MarkKeeps
<1>3. TypeInv'
  BY <1>1, <1>2 DEF Inv, TypeInv, TypeOK, Placed
<1>4. Filling' /\ SlotsApart' /\ DueIsCopied'
  BY <1>1 DEF Inv, Filling, Choosing, SlotsApart, DueIsCopied
<1> QED BY <1>2, <1>3, <1>4 DEF Inv

(* One thread goes on with its export; its page stays.                       *)
LEMMA ExportStep ==
  ASSUME Inv, NEW u \in Users, NEW j \in Jobs, Placed(j), job' = [job EXCEPT ![u] = j],
         j.step = "charging", UNCHANGED <<now, page>>
  PROVE  /\ job' \in [Users -> Jobs] /\ \A v \in Users : Placed(job'[v])
         /\ Filling' /\ SlotsApart'
<1>1. job \in [Users -> Jobs] /\ \A v \in Users : Placed(job[v])
  BY DEF Inv, TypeInv, TypeOK, Jobs
<1>2. job' \in [Users -> Jobs] /\ job'[u] = j /\ \A v \in Users \ {u} : job'[v] = job[v]
  BY <1>1
<1>3. \A v \in Users : Placed(job'[v])
  BY <1>1, <1>2
<1>4. Filling'
  BY <1>2 DEF Inv, Filling, Choosing
<1>5. SlotsApart'
  BY DEF Inv, SlotsApart
<1> QED BY <1>2, <1>3, <1>4, <1>5

LEMMA CopyEntriesKeeps == ASSUME Inv, NEW u \in Users, CopyEntries(u) PROVE Inv'
<1> DEFINE d == job[u].folder
<1>1. job[u] \in Jobs /\ d \in Directories /\ job \in [Users -> Jobs]
      /\ package \in [Directories -> SUBSET Assets] /\ UNCHANGED <<now, ledger, page, before>>
      /\ folders' \subseteq Directories
  BY DEF CopyEntries, Inv, TypeInv, TypeOK, Placed, Jobs
<1>2. Taken(u) \subseteq Assets
  BY DEF Inv, TypeInv, TypeOK, Taken
<1>3. PICK copied \in SUBSET Taken(u) :
        /\ package' = [package EXCEPT ![d] = @ \cup copied]
        /\ job' = [job EXCEPT ![u].step = "charging", ![u].due = copied]
  BY DEF CopyEntries, Due
<1> DEFINE j == [job[u] EXCEPT !.step = "charging", !.due = copied]
<1>4. job' = [job EXCEPT ![u] = j]
  BY <1>1, <1>3
<1>5. j \in Jobs
  BY <1>1, <1>2, <1>3 DEF Jobs
<1>6. j.step = "charging" /\ j.due = copied /\ j.folder = d
  BY <1>1 DEF Jobs
<1> HIDE DEF j, d
<1>7. Placed(j)
  BY <1>1, <1>6 DEF Placed
<1>8. /\ job' \in [Users -> Jobs] /\ \A v \in Users : Placed(job'[v])
      /\ Filling' /\ SlotsApart'
  BY <1>1, <1>4, <1>5, <1>6, <1>7, ExportStep
<1>9. package' \in [Directories -> SUBSET Assets] /\ copied \subseteq package'[d]
      /\ \A e \in Directories : package[e] \subseteq package'[e]
  BY <1>1, <1>2, <1>3
<1>10. TypeInv'
  <2>1. TypeOK'
    BY <1>1, <1>8, <1>9 DEF Inv, TypeInv, TypeOK, Jobs
  <2> QED BY <1>8, <2>1 DEF TypeInv, Placed
<1>11. DueIsCopied'
  <2>1. job'[u] = j /\ \A v \in Users \ {u} : job'[v] = job[v]
    BY <1>1, <1>4
  <2>2. \A v \in Users : job[v].step = "charging" => job[v].folder \in Directories
    BY DEF Inv, TypeInv, Placed
  <2> QED BY <1>6, <1>9, <2>1, <2>2 DEF Inv, DueIsCopied
<1>12. OnlyCopiedCharged'
  BY <1>1, <1>9 DEF Inv, OnlyCopiedCharged, TypeInv, TypeOK, Uses
<1>13. PicksAreRested' /\ OfLedger'
  BY <1>1 DEF Inv, PicksAreRested, OfLedger
<1> QED BY <1>8, <1>10, <1>11, <1>12, <1>13 DEF Inv

LEMMA ChargeKeeps == ASSUME Inv, NEW u \in Users, NEW a \in Assets, Charge(u, a) PROVE Inv'
<1> DEFINE d == job[u].folder
           j == [job[u] EXCEPT !.due = @ \ {a}]
<1>1. job[u] \in Jobs /\ d \in Directories /\ job \in [Users -> Jobs] /\ Placed(job[u])
  BY DEF Charge, Inv, TypeInv, TypeOK, Placed, Jobs
<1>2. /\ job[u].step = "charging" /\ a \in job[u].due /\ ledger' = Marked(a, d)
      /\ UNCHANGED <<now, folders, package, page, before>>
  BY DEF Charge
<1>3. job' = [job EXCEPT ![u] = j]
  BY <1>1 DEF Charge
<1>4. j \in Jobs
  BY <1>1 DEF Jobs
<1>5. j.step = "charging" /\ j.due = job[u].due \ {a} /\ j.folder = d
  BY <1>1, <1>2 DEF Jobs
<1> HIDE DEF j, d
<1>6. Placed(j)
  BY <1>1, <1>5 DEF Placed
<1>7. /\ job' \in [Users -> Jobs] /\ \A v \in Users : Placed(job'[v])
      /\ Filling' /\ SlotsApart'
  BY <1>2, <1>3, <1>4, <1>5, <1>6, ExportStep
<1>8. a \in package[d]
  BY <1>2 DEF Inv, DueIsCopied, d
<1>9. /\ ledger' \subseteq Uses
      /\ OfLedger' /\ PicksAreRested' /\ OnlyCopiedCharged'
  BY <1>1, <1>2, <1>8, MarkKeeps
<1>10. TypeInv'
  <2>1. TypeOK'
    BY <1>2, <1>7, <1>9 DEF Inv, TypeInv, TypeOK, Jobs
  <2> QED BY <1>7, <2>1 DEF TypeInv, Placed
<1>11. DueIsCopied'
  <2>1. job'[u] = j /\ \A v \in Users \ {u} : job'[v] = job[v]
    BY <1>1, <1>3
  <2> QED BY <1>2, <1>5, <2>1 DEF Inv, DueIsCopied, d
<1> QED BY <1>7, <1>9, <1>10, <1>11 DEF Inv

LEMMA TickKeeps == ASSUME Inv, Tick PROVE Inv'
<1>1. now \in 0..Horizon /\ Horizon \in Nat /\ now < Horizon /\ now' = now + 1
      /\ UNCHANGED <<ledger, folders, package, page, job, before>> /\ \A u \in Users : ~Choosing(u)
  BY SlotFacts DEF Tick, Inv, TypeInv, TypeOK
<1>2. TypeInv'
  BY <1>1 DEF Inv, TypeInv, TypeOK, Placed
<1>3. Filling'
  <2>1. \A u \in Users : page[u].day \in Nat
    BY SlotFacts DEF Inv, TypeInv, TypeOK
  <2>2. \A u \in Users : page[u].day <= now'
    BY <1>1, <2>1 DEF Inv, Filling
  <2> QED BY <1>1, <2>2 DEF Inv, Filling, Choosing
<1>4. SlotsApart' /\ OfLedger' /\ PicksAreRested' /\ DueIsCopied' /\ OnlyCopiedCharged'
  BY <1>1 DEF Inv, SlotsApart, OfLedger, PicksAreRested, DueIsCopied, OnlyCopiedCharged
<1> QED BY <1>2, <1>3, <1>4 DEF Inv

LEMMA InitHolds == Init => Inv
<1> SUFFICES ASSUME Init PROVE Inv
  OBVIOUS
<1>0. 0 \in 0..Horizon
  BY SlotFacts
<1>1. Blank \in Pages /\ 0 \in 0..Horizon
  BY <1>0, BlankIsPage
<1>2. TypeOK
  BY <1>1, IdleIsJob DEF Init, TypeOK, Pages, Jobs
<1>3. TypeInv
  BY <1>2, IdleIsJob DEF Init, TypeInv
<1>4. Filling /\ DueIsCopied
  BY <1>1, IdleIsJob DEF Init, Filling, Choosing, DueIsCopied, Blank
<1>5. SlotsApart /\ OfLedger /\ PicksAreRested /\ OnlyCopiedCharged
  BY DEF Init, SlotsApart, OfLedger, PicksAreRested, OnlyCopiedCharged, Blank
<1> QED BY <1>3, <1>4, <1>5 DEF Inv

LEMMA NextKeeps == Inv /\ [Next]_vars => Inv'
<1> SUFFICES ASSUME Inv, [Next]_vars PROVE Inv'
  OBVIOUS
<1>1. ASSUME NEW u \in Users, StartRecall(u) PROVE Inv'
  BY <1>1, StartRecallKeeps
<1>2. ASSUME NEW u \in Users, RecallSlot(u) PROVE Inv'
  BY <1>2, RecallSlotKeeps
<1>3. ASSUME NEW u \in Users, StartSelection(u) PROVE Inv'
  BY <1>3, StartSelectionKeeps
<1>4. ASSUME NEW u \in Users, SelectSlot(u) PROVE Inv'
  BY <1>4, SelectSlotKeeps
<1>5. ASSUME NEW u \in Users, NEW d \in Directories, StartExport(u, d) PROVE Inv'
  BY <1>5, StartExportKeeps
<1>6. ASSUME NEW u \in Users, CopyEntries(u) PROVE Inv'
  BY <1>6, CopyEntriesKeeps
<1>7. ASSUME NEW u \in Users, NEW a \in Assets, Charge(u, a) PROVE Inv'
  BY <1>7, ChargeKeeps
<1>8. ASSUME NEW u \in Users, FinishExport(u) PROVE Inv'
  BY <1>8, FinishExportKeeps
<1>9. ASSUME NEW u \in Users, Abort(u) PROVE Inv'
  BY <1>9, AbortKeeps
<1>10. ASSUME NEW a \in Assets, MarkUsed(a) PROVE Inv'
  BY <1>10, MarkUsedKeeps
<1>11. CASE Tick
  BY <1>11, TickKeeps
<1>12. CASE UNCHANGED vars
  BY <1>12 DEF vars, Inv, TypeInv, TypeOK, Placed, Filling, Choosing, SlotsApart,
               OfLedger, PicksAreRested, DueIsCopied, OnlyCopiedCharged
<1> QED BY <1>1, <1>2, <1>3, <1>4, <1>5, <1>6, <1>7, <1>8, <1>9, <1>10, <1>11, <1>12 DEF Next

LEMMA InvHolds == Spec => []Inv
BY InitHolds, NextKeeps, PTL DEF Spec

-----------------------------------------------------------------------------
(* Every variable keeps its type.                                            *)
THEOREM TypeCorrect == Spec => []TypeOK
<1>1. Inv => TypeOK
  BY DEF Inv, TypeInv
<1> QED BY <1>1, InvHolds, PTL

(* No picture is drawn within the cooldown of a use that the ledger holds,    *)
(* however many exports and uses are entered while a recall goes through its  *)
(* slots, and on whatever day.                                               *)
THEOREM PicksHaveRested == Spec => []PicksAreRested
<1>1. Inv => PicksAreRested
  BY DEF Inv
<1> QED BY <1>1, InvHolds, PTL

(* A package is charged for nothing it does not hold, also when two exports   *)
(* of one minute share it or one of them dies half-way.                       *)
THEOREM ChargesAreCopied == Spec => []OnlyCopiedCharged
<1>1. Inv => OnlyCopiedCharged
  BY DEF Inv
<1> QED BY <1>1, InvHolds, PTL

-----------------------------------------------------------------------------
(* The ladder.  A slot that was left at some level is full, and from no wider *)
(* level, or it has nothing left to take there: a use entered meanwhile only  *)
(* makes more cool, and what another slot took is on the page.  A page is of  *)
(* one day, so when the recall is over this holds of every level until the    *)
(* day ends.  What a slot takes on a wider level can therefore not be what a  *)
(* slot that is not full was left without.                                   *)

OnPage(p) == UNION {p.picks[i] : i \in Slots}
Spent(p, i, level) == \A a \in Pool(i, level) : Cooling(a, now) \/ a \in OnPage(p)
Counts(p, j) == j.step = "recalling" \/ (p.day = now /\ OnPage(p) # {})
Filled(p, i, level) == Cardinality(p.picks[i]) = TopK /\ \A m \in p.levels[i] : m <= level
Rung(p, j, i) ==
  /\ Cardinality(p.picks[i]) <= TopK
  /\ p.picks[i] \subseteq UNION {Pool(i, level) : level \in p.levels[i]}
  /\ j.step = "recalling" => \A m \in p.levels[i] : m <= j.level
  /\ \A level \in Levels : Behind(j, i, level) /\ Counts(p, j) =>
       Filled(p, i, level) \/ Spent(p, i, level)
Fair(p) ==
  \A i, k \in Slots, level \in Levels :
    /\ i # k
    /\ p.picks[k] \cap Pool(i, level) # {}
    /\ \A m \in p.levels[k] : m > level
    => Filled(p, i, level)
Ladder(p, j) == p.apart => Fair(p) /\ \A i \in Slots : Rung(p, j, i)
LadderInv == \A u \in Users : Ladder(page[u], job[u])

LEMMA PicksAreFinite ==
  ASSUME NEW S \in SUBSET Assets
  PROVE  IsFiniteSet(S) /\ Cardinality(S) \in Nat
BY RecallAssumption, FS_Subset, FS_CardinalityType DEF RecallAssumption

(* A sample is as large as it was wanted, or it is all there was.            *)
LEMMA SampleSize ==
  ASSUME NEW pool \in SUBSET Assets, NEW wanted \in Nat, NEW got \in Samples(pool, wanted)
  PROVE  /\ Cardinality(got) \in Nat /\ Cardinality(got) <= wanted
         /\ Cardinality(got) = wanted \/ \A a \in pool : Cooling(a, now) \/ a \in got
<1> DEFINE free == {a \in pool : ~Cooling(a, now)}
<1>1. got \subseteq free /\ Cardinality(got) = Min({wanted, Cardinality(free)})
  BY DEF Samples
<1>2. IsFiniteSet(free) /\ Cardinality(free) \in Nat /\ Cardinality(got) \in Nat
  BY <1>1, PicksAreFinite
<1> HIDE DEF free
<1>3. /\ Min({wanted, Cardinality(free)}) \in {wanted, Cardinality(free)}
      /\ Min({wanted, Cardinality(free)}) <= wanted
  BY <1>2 DEF Min
<1>4. Cardinality(got) = Cardinality(free) => got = free
  BY <1>1, <1>2, FS_Subset
<1> QED BY <1>1, <1>2, <1>3, <1>4 DEF free

(* A blank page is at the foot of the ladder. *)
LEMMA BlankLadder ==
  ASSUME NEW p, NEW j, p.picks = Blank.picks, p.levels = Blank.levels,
         j.step = "recalling" => j.level = Strict /\ j.slot = 1
  PROVE  Ladder(p, j)
<1>1. OnPage(p) = {} /\ \A i \in Slots : p.picks[i] = {} /\ p.levels[i] = {}
  BY DEF Blank, OnPage
<1>2. ASSUME NEW i \in Slots PROVE Rung(p, j, i)
  <2>1. Cardinality(p.picks[i]) = 0 /\ TopK \in Nat
    BY <1>1, FS_EmptySet, RecallAssumption DEF RecallAssumption
  <2>2. \A level \in Levels : ~(Behind(j, i, level) /\ Counts(p, j))
    BY <1>1, SlotFacts DEF Behind, Counts, Levels, Strict
  <2> QED BY <1>1, <2>1, <2>2 DEF Rung
<1> QED BY <1>1, <1>2 DEF Ladder, Fair

(* The slot a recall is at: it takes what it still wants, or all there is.   *)
LEMMA RecallSlotLadder ==
  ASSUME Inv, LadderInv, NEW u \in Users, RecallSlot(u)
  PROVE  \E p \in Pages, j \in Jobs : Becomes(u, p, j) /\ Ladder(p, j)
<1>1. TypeInv /\ job[u].step = "recalling" /\ Onward(u)
  BY DEF Inv, RecallSlot
<1>2. PICK q \in Pages, n \in Jobs : q = page[u] /\ n = job[u]
  BY BeforeFacts
<1>3. PICK i \in Slots, level \in Levels : i = n.slot /\ level = n.level
  BY <1>1, <1>2, BeforeFacts DEF Placed
<1>4. PICK j \in Jobs :
        /\ Placed(j) /\ job' = [job EXCEPT ![u] = j] /\ j.step \in {"idle", "recalling"}
        /\ j.step = "recalling" => j.level >= level
        /\ \A k \in Slots, l \in Levels : Behind(j, k, l) => Behind(n, k, l) \/ (k = i /\ l = level)
  BY <1>1, <1>2, <1>3, OnwardType
<1>5. PICK got \in SUBSET Assets, p \in Pages :
        /\ got \cap Taken(u) = {} /\ \A a \in got : ~Cooling(a, now)
        /\ page' = [page EXCEPT ![u] = p]
        /\ p.day = q.day /\ p.apart = q.apart
        /\ p.picks = [q.picks EXCEPT ![i] = @ \cup got]
        /\ got \in Samples(Pool(i, level) \ Taken(u), TopK - Cardinality(q.picks[i]))
        /\ \A k \in Slots : p.levels[k] = IF k = i /\ got # {} THEN q.levels[k] \cup {level}
                                                               ELSE q.levels[k]
  <2>1. PICK got \in SUBSET Assets, p \in Pages : Draws(u, got, p)
    BY <1>1, RecallSlotPage
  <2> WITNESS got \in SUBSET Assets, p \in Pages
  <2> QED BY <1>2, <1>3, <2>1 DEF Draws
<1>6. /\ \A k \in Slots : p.picks[k] = IF k = i THEN q.picks[k] \cup got ELSE q.picks[k]
      /\ \A k \in Slots : p.levels[k] \in SUBSET Levels /\ q.levels[k] \in SUBSET Levels
      /\ \A k \in Slots : p.picks[k] \in SUBSET Assets /\ q.picks[k] \in SUBSET Assets
      /\ TopK \in Nat /\ Levels \subseteq Nat
  <2>1. /\ q.picks \in [Slots -> SUBSET Assets] /\ p.picks \in [Slots -> SUBSET Assets]
        /\ q.levels \in [Slots -> SUBSET Levels] /\ p.levels \in [Slots -> SUBSET Levels]
    BY DEF Pages
  <2>2. TopK \in Nat /\ Levels \subseteq Nat
    BY RecallAssumption DEF RecallAssumption, Levels
  <2>3. \A k \in Slots : p.picks[k] = IF k = i THEN q.picks[k] \cup got ELSE q.picks[k]
    BY <1>5, <2>1
  <2> QED BY <2>1, <2>2, <2>3
<1>7. Taken(u) = OnPage(q) /\ OnPage(p) = OnPage(q) \cup got
  <2>1. Taken(u) = OnPage(q)
    BY <1>2 DEF Taken, OnPage
  <2>2. \A a : a \in OnPage(p) <=> \E k \in Slots : a \in p.picks[k]
    BY DEF OnPage
  <2>3. \A a : a \in OnPage(q) <=> \E k \in Slots : a \in q.picks[k]
    BY DEF OnPage
  <2>4. \A a : a \in OnPage(p) <=> a \in OnPage(q) \/ a \in got
    BY <1>6, <2>2, <2>3
  <2> QED BY <2>1, <2>4
<1>8. ASSUME p.apart PROVE Ladder(p, j)
  <2>1. Fair(q) /\ n.step = "recalling" /\ \A k \in Slots : Rung(q, n, k)
    BY <1>1, <1>2, <1>5, <1>8 DEF LadderInv, Ladder
  <2>0. ASSUME NEW k \in Slots PROVE \A m \in p.levels[k] : m <= level
    <3>1. \A m \in q.levels[k] : m <= level
      BY <1>3, <2>1 DEF Rung
    <3>2. p.levels[k] \subseteq q.levels[k] \cup {level}
      BY <1>5
    <3> QED BY <1>6, <3>1, <3>2
  <2>2. \A k \in Slots : /\ Cardinality(q.picks[k]) \in Nat /\ Cardinality(p.picks[k]) \in Nat
                         /\ Cardinality(q.picks[k]) <= TopK
    BY <1>6, <2>1, PicksAreFinite DEF Rung
  <2>3. /\ Cardinality(got) \in Nat /\ Cardinality(got) <= TopK - Cardinality(q.picks[i])
        /\ \/ Cardinality(got) = TopK - Cardinality(q.picks[i])
           \/ \A a \in Pool(i, level) \ Taken(u) : Cooling(a, now) \/ a \in got
    <3>1. TopK - Cardinality(q.picks[i]) \in Nat
      BY <1>6, <2>2
    <3>2. Pool(i, level) \ Taken(u) \in SUBSET Assets
      BY PoolIsAssets
    <3> QED BY <1>5, <3>1, <3>2, SampleSize
  <2>4. Cardinality(p.picks[i]) = Cardinality(q.picks[i]) + Cardinality(got)
    <3>1. q.picks[i] \cap got = {}
      BY <1>5, <1>7 DEF OnPage
    <3>2. IsFiniteSet(got) /\ IsFiniteSet(q.picks[i])
      BY <1>6, PicksAreFinite
    <3>3. Cardinality(q.picks[i] \cap got) = 0
      BY <3>1, FS_EmptySet
    <3>4. Cardinality(q.picks[i] \cup got) =
            Cardinality(q.picks[i]) + Cardinality(got) - Cardinality(q.picks[i] \cap got)
      BY <3>2, FS_Union
    <3>5. p.picks[i] = q.picks[i] \cup got
      BY <1>6
    <3> QED BY <2>2, <2>3, <3>3, <3>4, <3>5
  <2>5. ASSUME NEW k \in Slots, NEW l \in Levels, Filled(q, k, l) PROVE Filled(p, k, l)
    <3>1. CASE k # i
      BY <1>5, <1>6, <2>5, <3>1 DEF Filled
    <3>2. CASE k = i
      <4>1. Cardinality(got) = 0
        BY <1>6, <2>3, <2>5, <3>2 DEF Filled
      <4>2. got = {}
        BY <1>6, <4>1, PicksAreFinite, FS_EmptySet
      <4> QED BY <1>5, <1>6, <2>5, <4>2 DEF Filled
    <3> QED BY <3>1, <3>2
  <2>6. ASSUME NEW k \in Slots, NEW l \in Levels, Spent(q, k, l) PROVE Spent(p, k, l)
    BY <1>7, <2>6 DEF Spent
  <2>7. ASSUME NEW k \in Slots, NEW l \in Levels, Behind(n, k, l)
        PROVE  Filled(q, k, l) \/ Spent(q, k, l)
    BY <2>1, <2>7 DEF Rung, Counts
  <2>8. Filled(p, i, level) \/ Spent(p, i, level)
    <3>1. CASE Cardinality(got) = TopK - Cardinality(q.picks[i])
      <4>1. Cardinality(p.picks[i]) = TopK
        BY <1>6, <2>2, <2>3, <2>4, <3>1
      <4>3. \A m \in p.levels[i] : m <= level
        BY <1>6, <2>0
      <4> QED BY <4>1, <4>3 DEF Filled
    <3>2. CASE \A a \in Pool(i, level) \ Taken(u) : Cooling(a, now) \/ a \in got
      BY <1>7, <3>2 DEF Spent
    <3> QED BY <2>3, <3>1, <3>2
  <2>9. ASSUME NEW k \in Slots PROVE Rung(p, j, k)
    <3>1. Cardinality(p.picks[k]) <= TopK
      <4>1. CASE k = i
        BY <1>6, <2>2, <2>3, <2>4, <4>1
      <4>2. CASE k # i
        BY <1>6, <2>2, <4>2
      <4> QED BY <4>1, <4>2
    <3>2. p.picks[k] \subseteq UNION {Pool(k, l) : l \in p.levels[k]}
      <4>0. q.levels[k] \subseteq p.levels[k]
        BY <1>5
      <4>1. q.picks[k] \subseteq UNION {Pool(k, l) : l \in p.levels[k]}
        BY <2>1, <4>0 DEF Rung
      <4>2. got \subseteq Pool(i, level)
        BY <1>5 DEF Samples
      <4>3. k = i /\ got # {} => level \in p.levels[k]
        BY <1>5
      <4> QED BY <1>6, <4>1, <4>2, <4>3
    <3>3. j.step = "recalling" => \A m \in p.levels[k] : m <= j.level
      <4>1. \A m \in p.levels[k] : m <= level
        BY <2>0
      <4>2. j.level \in Nat
        BY DEF Jobs
      <4>3. level \in Nat /\ p.levels[k] \subseteq Nat
        BY <1>6
      <4>4. j.step = "recalling" => level <= j.level
        BY <1>4
      <4> QED BY <4>1, <4>2, <4>3, <4>4
    <3>4. ASSUME NEW l \in Levels, Behind(j, k, l) PROVE Filled(p, k, l) \/ Spent(p, k, l)
      BY <1>4, <2>5, <2>6, <2>7, <2>8, <3>4
    <3> QED BY <3>1, <3>2, <3>3, <3>4 DEF Rung
  <2>10. ASSUME NEW k \in Slots, NEW t \in Slots, NEW l \in Levels, k # t,
                p.picks[t] \cap Pool(k, l) # {}, \A m \in p.levels[t] : m > l
         PROVE  Filled(p, k, l)
    <3>1. \A m \in q.levels[t] : m > l
      BY <1>5, <2>10
    <3>2. CASE q.picks[t] \cap Pool(k, l) # {}
      <4>1. Filled(q, k, l)
        BY <2>1, <2>10, <3>1, <3>2 DEF Fair
      <4> QED BY <2>5, <4>1
    <3>3. CASE q.picks[t] \cap Pool(k, l) = {}
      <4>1. PICK a \in got : a \in Pool(k, l) /\ t = i
        BY <1>6, <2>10, <3>3
      <4>2. level \in p.levels[i] /\ level > l
        BY <1>5, <2>10, <4>1
      <4>3. Behind(n, k, l)
        BY <1>3, <4>2 DEF Behind
      <4>4. ~Spent(q, k, l)
        BY <1>5, <1>7, <4>1 DEF Spent
      <4> QED BY <2>5, <2>7, <4>3, <4>4
    <3> QED BY <3>2, <3>3
  <2>11. Fair(p)
    BY <2>10 DEF Fair
  <2> QED BY <2>9, <2>11 DEF Ladder
<1>9. Ladder(p, j)
  BY <1>8 DEF Ladder
<1> QED BY <1>4, <1>5, <1>9 DEF Becomes

(* More uses of the day and the steps of exports leave a page where it is.   *)
LEMMA LadderFrame ==
  ASSUME UNCHANGED now, ledger \subseteq ledger', NEW p, NEW j, NEW k, Ladder(p, j),
         j = k \/ (j.step # "recalling" /\ k.step # "recalling")
  PROVE  Ladder(p, k)'
<1>1. \A a : Cooling(a, now) => Cooling(a, now)'
  BY DEF Cooling
<1> QED BY <1>1 DEF Ladder, Fair, Filled, Rung, Spent, Counts, Behind, OnPage

(* What LadderInv says of one page after a step. *)
LEMMA LadderAfter ==
  ASSUME NEW v \in Users, NEW p, NEW j, page'[v] = p, job'[v] = j, Ladder(p, j)'
  PROVE  Ladder(page[v], job[v])'
BY DEF Ladder, Fair, Filled, Rung, Spent, Counts, Behind, OnPage

(* A step of one page that leaves its new page on the ladder.                *)
LEMMA LadderBecomes ==
  ASSUME Inv, LadderInv, NEW u \in Users, NEW p, NEW j, Becomes(u, p, j), Ladder(p, j),
         UNCHANGED <<now, ledger>>
  PROVE  LadderInv'
<1>1. page \in [Users -> Pages] /\ job \in [Users -> Jobs]
  BY DEF Inv, TypeInv, TypeOK, Pages, Jobs
<1>2. ASSUME NEW v \in Users PROVE Ladder(page[v], job[v])'
  <2>1. CASE v = u
    <3>1. page'[v] = p /\ job'[v] = j
      BY <1>1, <2>1 DEF Becomes
    <3>2. Ladder(p, j)'
      BY LadderFrame
    <3> QED BY <3>1, <3>2, LadderAfter
  <2>2. CASE v # u
    <3> DEFINE q == page[v]
               k == job[v]
    <3>1. page'[v] = q /\ job'[v] = k
      BY <1>1, <2>2 DEF Becomes
    <3>2. PICK r, l : r = q /\ l = k
      OBVIOUS
    <3>3. Ladder(r, l)
      BY <3>2 DEF LadderInv
    <3>4. Ladder(r, l)'
      BY <3>3, LadderFrame
    <3> QED BY <3>1, <3>2, <3>4, LadderAfter
  <2> QED BY <2>1, <2>2
<1> QED BY <1>2 DEF LadderInv

(* A step that leaves the pages alone, and who is recalling.                 *)
LEMMA LadderQuiet ==
  ASSUME Inv, LadderInv, UNCHANGED <<now, page>>, ledger \subseteq ledger',
         \A v \in Users : \/ job'[v] = job[v]
                          \/ job[v].step # "recalling" /\ job'[v].step # "recalling"
  PROVE  LadderInv'
<1>1. ASSUME NEW v \in Users PROVE Ladder(page[v], job[v])'
  <2>1. PICK p, j, k : p = page[v] /\ j = job[v] /\ k = job'[v]
    OBVIOUS
  <2>2. Ladder(p, j) /\ (j = k \/ (j.step # "recalling" /\ k.step # "recalling"))
    BY <2>1 DEF LadderInv
  <2>3. Ladder(p, k)'
    BY <2>2, LadderFrame
  <2> QED BY <2>1, <2>3, LadderAfter
<1> QED BY <1>1 DEF LadderInv

LEMMA LadderStep == Inv /\ LadderInv /\ [Next]_vars => LadderInv'
<1> SUFFICES ASSUME Inv, LadderInv, [Next]_vars PROVE LadderInv'
  OBVIOUS
<1>0. page \in [Users -> Pages] /\ job \in [Users -> Jobs]
  BY DEF Inv, TypeInv, TypeOK, Pages, Jobs
<1>1. ASSUME NEW u \in Users, StartRecall(u) PROVE LadderInv'
  <2> DEFINE p == [Blank EXCEPT !.day = now]
             j == [Idle EXCEPT !.step = "recalling", !.level = Strict, !.slot = 1]
  <2>1. p.picks = Blank.picks /\ p.levels = Blank.levels /\ j.level = Strict /\ j.slot = 1
    BY DEF Blank, Idle
  <2>2. Becomes(u, p, j) /\ UNCHANGED <<now, ledger>>
    BY <1>1 DEF StartRecall, Becomes
  <2> HIDE DEF p, j
  <2> QED BY <2>1, <2>2, BlankLadder, LadderBecomes
<1>2. ASSUME NEW u \in Users, RecallSlot(u) PROVE LadderInv'
  <2>1. PICK p \in Pages, j \in Jobs : Becomes(u, p, j) /\ Ladder(p, j)
    BY <1>2, RecallSlotLadder
  <2> QED BY <1>2, <2>1, LadderBecomes DEF RecallSlot
<1>3. ASSUME NEW u \in Users, StartSelection(u) PROVE LadderInv'
  <2> DEFINE p == [Blank EXCEPT !.day = now, !.apart = FALSE]
             j == [Idle EXCEPT !.step = "selecting", !.slot = 1]
  <2>1. Ladder(p, j)
    BY DEF Blank, Ladder
  <2>2. Becomes(u, p, j) /\ UNCHANGED <<now, ledger>>
    BY <1>3 DEF StartSelection, Becomes
  <2> HIDE DEF p, j
  <2> QED BY <2>1, <2>2, LadderBecomes
<1>4. ASSUME NEW u \in Users, SelectSlot(u) PROVE LadderInv'
  <2>1. TypeInv /\ ~page[u].apart
    BY <1>4 DEF Inv, Filling, SelectSlot
  <2>2. PICK p \in Pages : page' = [page EXCEPT ![u] = p] /\ p.apart = page[u].apart
    BY <1>4, <2>1, SelectSlotPage
  <2>3. PICK j : job' = [job EXCEPT ![u] = j]
    BY <1>4 DEF SelectSlot
  <2>4. Ladder(p, j)
    BY <2>1, <2>2 DEF Ladder
  <2> QED BY <1>4, <2>2, <2>3, <2>4, LadderBecomes DEF Becomes, SelectSlot
<1>5. ASSUME NEW u \in Users, NEW d \in Directories, StartExport(u, d) PROVE LadderInv'
  <2>1. job[u].step # "recalling" /\ job'[u].step # "recalling"
    BY <1>0, <1>5 DEF StartExport, Idle
  <2> QED BY <1>0, <1>5, <2>1, LadderQuiet DEF StartExport
<1>6. ASSUME NEW u \in Users, CopyEntries(u) \/ FinishExport(u) PROVE LadderInv'
  <2>1. job[u].step # "recalling"
    BY <1>6 DEF CopyEntries, FinishExport
  <2>2. job'[u].step # "recalling" /\ \A v \in Users \ {u} : job'[v] = job[v]
    BY <1>0, <1>6 DEF CopyEntries, FinishExport, Idle, Jobs
  <2> QED BY <1>6, <2>1, <2>2, LadderQuiet DEF CopyEntries, FinishExport
<1>7. ASSUME NEW u \in Users, NEW a \in Assets, Charge(u, a) PROVE LadderInv'
  <2>1. job[u].step = "charging" /\ UNCHANGED <<now, page>> /\ ledger \subseteq ledger'
    BY <1>7 DEF Charge, Marked
  <2>2. job'[u].step = "charging" /\ \A v \in Users \ {u} : job'[v] = job[v]
    BY <1>0, <1>7, <2>1 DEF Charge, Jobs
  <2> QED BY <2>1, <2>2, LadderQuiet
<1>8. ASSUME NEW u \in Users, Abort(u) PROVE LadderInv'
  <2>1. CASE Choosing(u)
    <3>1. Becomes(u, Blank, Idle) /\ UNCHANGED <<now, ledger>>
      BY <1>8, <2>1 DEF Abort, Becomes
    <3>2. Ladder(Blank, Idle)
      BY IdleIsJob, BlankLadder
    <3> QED BY <3>1, <3>2, LadderBecomes
  <2>2. CASE ~Choosing(u)
    <3>1. job[u].step # "recalling" /\ job'[u].step # "recalling"
          /\ \A v \in Users \ {u} : job'[v] = job[v]
      BY <1>0, <1>8, <2>2, IdleIsJob DEF Abort, Choosing
    <3> QED BY <1>8, <2>2, <3>1, LadderQuiet DEF Abort
  <2> QED BY <2>1, <2>2
<1>9. ASSUME NEW a \in Assets, MarkUsed(a) PROVE LadderInv'
  BY <1>9, LadderQuiet DEF MarkUsed, Marked
<1>10. CASE Tick
  <2>1. ASSUME NEW v \in Users PROVE Ladder(page[v], job[v])'
    <3>1. now \in Nat /\ page[v].day \in Nat /\ page[v].day <= now /\ job[v].step # "recalling"
      BY <1>10, SlotFacts DEF Inv, Filling, TypeInv, TypeOK, Tick, Choosing
    <3>2. page'[v].day # now' /\ job'[v].step # "recalling"
      BY <1>10, <3>1 DEF Tick
    <3>3. Ladder(page[v], job[v])
      BY DEF LadderInv
    <3> QED BY <1>10, <3>2, <3>3 DEF Tick, Ladder, Fair, Filled, Rung, Counts
  <2> QED BY <2>1 DEF LadderInv
<1>11. CASE UNCHANGED vars
  BY <1>11, LadderQuiet DEF vars
<1> QED BY <1>1, <1>2, <1>3, <1>4, <1>5, <1>6, <1>7, <1>8, <1>9, <1>10, <1>11 DEF Next

(* A slot whose weakest level is the strict one was filled from that only.   *)
LEMMA WeakestIsOnly ==
  ASSUME NEW S \in SUBSET Levels, S # {}, Max(S) = Strict
  PROVE  S = {Strict}
<1>1. \A n \in S : n \in {1, 2, 3, 4}
  BY DEF Levels
<1>2. \E m \in S : \A n \in S : m >= n
  <2>1. CASE 4 \in S
    BY <1>1, <2>1
  <2>2. CASE 4 \notin S /\ 3 \in S
    BY <1>1, <2>2
  <2>3. CASE 4 \notin S /\ 3 \notin S /\ 2 \in S
    BY <1>1, <2>3
  <2>4. CASE 4 \notin S /\ 3 \notin S /\ 2 \notin S
    <3>1. \A n \in S : n = 1
      BY <1>1, <2>4
    <3>2. PICK m \in S : TRUE
      OBVIOUS
    <3> QED BY <3>1, <3>2
  <2> QED BY <1>1, <2>1, <2>2, <2>3, <2>4
<1>3. Max(S) \in S /\ \A n \in S : Max(S) >= n
  BY <1>2 DEF Max
<1>4. \A n \in S : n = 1
  BY <1>1, <1>3 DEF Strict
<1> QED BY <1>4 DEF Strict

LEMMA LadderHolds == Spec => [](Inv /\ LadderInv)
<1>1. Init => LadderInv
  <2>1. Blank.picks = Blank.picks /\ Idle.step # "recalling"
    BY IdleIsJob
  <2>2. Ladder(Blank, Idle)
    BY <2>1, BlankLadder
  <2> QED BY <2>2 DEF Init, LadderInv
<1> QED BY <1>1, LadderStep, InvHolds, PTL DEF Spec

(* The slots of a recalled page share no picture, whatever level it came      *)
(* from, and none takes on a wider level what one that is not full was left   *)
(* without on a narrower.                                                    *)
THEOREM SlotsAreFair == Spec => []SlotsShareFairly
<1>1. Inv /\ LadderInv => SlotsShareFairly
  BY DEF Inv, SlotsApart, LadderInv, Ladder, Fair, Filled, SlotsShareFairly
<1> QED BY <1>1, LadderHolds, PTL

(* The last level has all there is of the medium a slot asks for, and all     *)
(* there is if the library has nothing of it.                                *)
LEMMA LastPool ==
  ASSUME NEW i \in Slots, NEW a \in Assets,
         Info[a].kind = Slot[i].kind \/ \A b \in Assets : Info[b].kind # Slot[i].kind
  PROVE  a \in Pool(i, 4)
<1>1. Pool(i, 4) = prefer_media_kind(i, Assets)
  BY DEF Pool, slot_pools
<1> QED BY <1>1 DEF prefer_media_kind

(* A slot is short only when nothing in its pools was left to take, nor       *)
(* anything of its medium in the library, and what it calls a strict match    *)
(* is one.                                                                   *)
THEOREM LadderIsComplete == Spec => []LadderComplete
<1>1. ASSUME Inv, LadderInv PROVE LadderComplete
  <2> SUFFICES ASSUME NEW u \in Users, NEW i \in Slots, page[u].apart, ~Choosing(u)
               PROVE  /\ Weakest(u, i) = Strict => page[u].picks[i] \subseteq Pool(i, Strict)
                      /\ page[u].day = now /\ Taken(u) # {} /\ Cardinality(page[u].picks[i]) < TopK =>
                           \A a \in Assets :
                             \/ Cooling(a, now) \/ a \in Taken(u)
                             \/ /\ \A level \in Levels : a \notin Pool(i, level)
                                /\ Info[a].kind # Slot[i].kind
                                /\ \E b \in Assets : Info[b].kind = Slot[i].kind
    BY DEF LadderComplete
  <2>1. Rung(page[u], job[u], i) /\ job[u].step # "recalling" /\ OnPage(page[u]) = Taken(u)
    BY <1>1 DEF LadderInv, Ladder, Choosing, OnPage, Taken
  <2>2. page[u].picks[i] \in SUBSET Assets /\ page[u].levels[i] \in SUBSET Levels
    BY <1>1 DEF Inv, TypeInv, TypeOK
  <2>3. ASSUME Weakest(u, i) = Strict PROVE page[u].picks[i] \subseteq Pool(i, Strict)
    <3>1. page[u].levels[i] = {Strict}
      BY <2>2, <2>3, WeakestIsOnly DEF Weakest, Strict
    <3> QED BY <2>1, <3>1 DEF Rung
  <2>4. ASSUME page[u].day = now, Taken(u) # {}, Cardinality(page[u].picks[i]) < TopK,
               NEW level \in Levels
        PROVE  Spent(page[u], i, level)
    <3>1. TopK \in Nat /\ Cardinality(page[u].picks[i]) \in Nat
      BY <2>2, PicksAreFinite, RecallAssumption DEF RecallAssumption
    <3> QED BY <2>1, <2>4, <3>1 DEF Rung, Behind, Counts, Filled
  <2>5. 4 \in Levels
    BY DEF Levels
  <2> QED BY <2>1, <2>3, <2>4, <2>5, LastPool DEF Spent
<1> QED BY <1>1, LadderHolds, PTL
=============================================================================
