------------------------------- MODULE Recall -------------------------------
(***************************************************************************)
(* How the pictures of a post are chosen and charged: a recall fills the   *)
(* slots of a platform from pools that widen step by step, leaving out the *)
(* assets whose cooldown runs; an export copies what the page shows into a *)
(* package and enters every copied asset into the usage ledger.            *)
(*                                                                         *)
(* The ledger is a table of its own and each reading of it and writing to  *)
(* it is a call of its own, on a server with a thread per request.  Sizes  *)
(* of a score are in ten-thousandths.  The sampling is weighted, but every *)
(* outcome has a chance, which is all that matters here.  The ledger is    *)
(* one brand's, and time is counted in days.                               *)
(***************************************************************************)
EXTENDS Integers, Sequences, FiniteSetsExt

CONSTANTS
  Assets,
  Info,         \* process, kind, keywords and text of each asset
  Slot,         \* the platform's slots in order: processes, keywords, kind
  Users,        \* threads of the console, one per page
  Directories,  \* names of export folders: label and minute
  NoDirectory,
  TopK,         \* pictures wanted per slot
  Cooldown,     \* days
  Horizon,      \* bounds the time
  MaxByHand     \* bounds the uses entered by hand

Kind == {"image", "video"}

ASSUME RecallAssumption ==
  /\ IsFiniteSet(Assets)
  /\ NoDirectory \notin Directories
  /\ \A a \in Assets : Info[a].kind \in Kind
  /\ Slot \in Seq([processes : SUBSET {Info[a].process : a \in Assets},
                   keywords : SUBSET UNION {Info[a].keywords \cup Info[a].text : a \in Assets},
                   kind : Kind \cup {"any"}])
  /\ Slot # <<>>
  /\ {TopK, Cooldown, Horizon, MaxByHand} \subseteq Nat

VARIABLES
  now,
  ledger,     \* uses: asset, the package or NoDirectory for a use entered by hand, day
  folders,    \* export folders that exist
  package,    \* assets copied into each export folder
  page,       \* what each page shows: day, picks and pools they came from, per slot
  job,        \* what each thread is at
  before      \* history: the uses of what a page shows from before it was drawn

vars == <<now, ledger, folders, package, page, job, before>>

Slots == DOMAIN Slot
Levels == 1..4
Strict == 1

Blank == [day |-> 0, apart |-> TRUE, picks |-> [i \in Slots |-> {}], levels |-> [i \in Slots |-> {}]]
Idle == [step |-> "idle", level |-> 0, slot |-> 0, folder |-> NoDirectory, due |-> {}]

Uses == [asset : Assets, by : Directories \cup {NoDirectory}, day : 0..Horizon]

TypeOK ==
  /\ now \in 0..Horizon
  /\ ledger \subseteq Uses
  /\ before \in [Users -> SUBSET Uses]
  /\ folders \subseteq Directories
  /\ package \in [Directories -> SUBSET Assets]
  /\ page \in [Users -> [day : 0..Horizon, apart : BOOLEAN, picks : [Slots -> SUBSET Assets],
                         levels : [Slots -> SUBSET Levels]]]
  /\ job \in [Users ->
       [step : {"idle", "recalling", "selecting", "naming", "charging"}, level : 0..4,
        slot : Slots \cup {0}, folder : Directories \cup {NoDirectory}, due : SUBSET Assets]]

Init ==
  /\ now = 0
  /\ ledger = {}
  /\ folders = {}
  /\ package = [d \in Directories |-> {}]
  /\ page = [u \in Users |-> Blank]
  /\ job = [u \in Users |-> Idle]
  /\ before = [u \in Users |-> {}]

-----------------------------------------------------------------------------
(* The pools of a slot. *)

InCategory(i, a) == Slot[i].processes = {} \/ Info[a].process \in Slot[i].processes

(* A keyword counts 10, a word of the text 4, and 30 are enough. *)
Strength(i, a) ==
  10 * Cardinality(Slot[i].keywords \cap Info[a].keywords)
  + 4 * Cardinality((Slot[i].keywords \ Info[a].keywords) \cap Info[a].text)

slot_score(i, a) ==
  IF ~InCategory(i, a) THEN 0
  ELSE IF Slot[i].keywords = {} THEN 5000
  ELSE IF Strength(i, a) = 0 THEN 0
  ELSE 5000 + (5000 * Min({30, Strength(i, a)}) + 15) \div 30

top_tier(i, pool) ==
  {a \in pool : \A b \in pool : 100 * slot_score(i, a) >= 95 * slot_score(i, b)}

prefer_media_kind(i, pool) ==
  LET preferred == {a \in pool : Info[a].kind = Slot[i].kind}
  IN  IF preferred = {} THEN pool ELSE preferred

(* slot_pools, from the strict one to the whole library. *)
slot_pools ==
  [i \in Slots |->
    LET category == {a \in Assets : InCategory(i, a)}
        hits == {a \in Assets : slot_score(i, a) > 0}
    IN  << prefer_media_kind(i, top_tier(i, hits)),
           prefer_media_kind(i, hits),
           prefer_media_kind(i, category),
           prefer_media_kind(i, Assets) >>]

Pool(i, level) == slot_pools[i][level]

-----------------------------------------------------------------------------
(* The ledger and the policy. *)

(* Mutant: the cooldown counts from the first use. *)
CoolingSinceFirst(a, day) ==
  \E r \in ledger : r.asset = a /\ \A q \in ledger : q.asset = a => day - q.day < Cooldown

(* is_cooling: less than the cooldown has passed since the last use. *)
Cooling(a, day) == \E r \in ledger : r.asset = a /\ day - r.day < Cooldown

(* RecallPolicy.recall: a sample of what does not cool. *)
Samples(pool, wanted) ==
  LET free == {a \in pool : ~Cooling(a, now)}
  IN  {s \in SUBSET free : Cardinality(s) = Min({wanted, Cardinality(free)})}

(* For the history: every use so far of what is drawn for a page.            *)
Drawn(u, got) == before' = [before EXCEPT ![u] = @ \cup {r \in ledger : r.asset \in got}]

(* RecallLedger.mark_used: one row per asset and package; a use without a    *)
(* package is always a row.                                                  *)
Marked(a, by) ==
  IF by # NoDirectory /\ \E r \in ledger : r.asset = a /\ r.by = by
  THEN ledger
  ELSE ledger \cup {[asset |-> a, by |-> by, day |-> now]}

MarkUsed(a) ==
  /\ Cardinality({r \in ledger : r.by = NoDirectory}) < MaxByHand
  /\ ledger' = Marked(a, NoDirectory)
  /\ UNCHANGED <<now, folders, package, page, job, before>>

-----------------------------------------------------------------------------
(* A recall only reads the ledger, so that two of them need not be           *)
(* interleaved; exports and uses entered by hand come between their steps.   *)
Choosing(u) == job[u].step \in {"recalling", "selecting"}
Alone(u) == job[u] = Idle /\ \A v \in Users : ~Choosing(v)

(* Recall for the console: level by level, and at each level slot by slot.   *)

StartRecall(u) ==
  /\ Alone(u)
  /\ page' = [page EXCEPT ![u] = [Blank EXCEPT !.day = now]]
  /\ before' = [before EXCEPT ![u] = {}]
  /\ job' = [job EXCEPT ![u] = [Idle EXCEPT !.step = "recalling", !.level = Strict, !.slot = 1]]
  /\ UNCHANGED <<now, ledger, folders, package>>

Taken(u) == UNION {page[u].picks[i] : i \in Slots}

(* Mutants: the ladder ends before the whole library; it ends after it.      *)
LastSlotEarly(u) == job[u].slot = Len(Slot) /\ job[u].level = 3
LastSlotLate(u) == job[u].slot = Len(Slot) /\ job[u].level > 4
LastSlot(u) == job[u].slot = Len(Slot) /\ job[u].level = 4

(* Mutant: a slot goes through all its levels before the next slot begins.   *)
FurtherSlotFirst(j) ==
  IF j.level = 4 THEN [j EXCEPT !.level = Strict, !.slot = j.slot + 1]
                 ELSE [j EXCEPT !.level = j.level + 1]
Further(j) ==
  IF j.slot = Len(Slot) THEN [j EXCEPT !.level = j.level + 1, !.slot = 1]
                        ELSE [j EXCEPT !.slot = j.slot + 1]
Onward(u) == job' = [job EXCEPT ![u] = IF LastSlot(u) THEN Idle ELSE Further(job[u])]

RecallSlot(u) ==
  LET i == job[u].slot
      level == job[u].level
      wanted == TopK - Cardinality(page[u].picks[i])
  IN  /\ job[u].step = "recalling"
      /\ \E got \in Samples(Pool(i, level) \ Taken(u), wanted) :
           /\ Drawn(u, got)
           /\ page' = IF got = {} THEN page
                      ELSE [page EXCEPT ![u].picks[i] = @ \cup got,
                                        ![u].levels[i] = @ \cup {level}]
      /\ Onward(u)
      /\ UNCHANGED <<now, ledger, folders, package>>

(* weakest_level: what the page says of a slot, 0 if it has no picture. *)
Weakest(u, i) == IF page[u].levels[i] = {} THEN 0 ELSE Max(page[u].levels[i])

(* select_media, for the generator: every slot on its own, from the first    *)
(* pool that yields a picture.  Nothing enters these into the ledger.        *)
StartSelection(u) ==
  /\ Alone(u)
  /\ page' = [page EXCEPT ![u] = [Blank EXCEPT !.day = now, !.apart = FALSE]]
  /\ before' = [before EXCEPT ![u] = {}]
  /\ job' = [job EXCEPT ![u] = [Idle EXCEPT !.step = "selecting", !.slot = 1]]
  /\ UNCHANGED <<now, ledger, folders, package>>

Yields(i, level) == \E a \in Pool(i, level) : ~Cooling(a, now)

SelectSlot(u) ==
  LET i == job[u].slot
  IN  /\ job[u].step = "selecting"
      /\ \/ /\ \A level \in Levels : ~Yields(i, level)
            /\ UNCHANGED <<page, before>>
         \/ \E level \in Levels :
              /\ Yields(i, level)
              /\ \A l \in 1..(level - 1) : ~Yields(i, l)
              /\ \E got \in Samples(Pool(i, level), TopK) :
                   /\ Drawn(u, got)
                   /\ page' = [page EXCEPT ![u].picks[i] = got, ![u].levels[i] = {level}]
      /\ job' = [job EXCEPT ![u] = IF i = Len(Slot) THEN Idle ELSE [@ EXCEPT !.slot = i + 1]]
      /\ UNCHANGED <<now, ledger, folders, package>>

-----------------------------------------------------------------------------
(* Export. *)

(* make_export_dir looks for a name that is free. *)
StartExport(u, d) ==
  /\ job[u] = Idle
  /\ page[u].apart /\ Taken(u) # {}
  /\ d \notin folders
  /\ job' = [job EXCEPT ![u] = [Idle EXCEPT !.step = "naming", !.folder = d]]
  /\ UNCHANGED <<now, ledger, folders, package, page, before>>

(* Mutant: what could not be copied is charged with the rest.                *)
AllDue(u, copied) == Taken(u)
Due(u, copied) == copied

(* The folder is made, unless another thread has just done so; any file may   *)
(* be missing or fail to be copied.                                          *)
CopyEntries(u) ==
  /\ job[u].step = "naming"
  /\ folders' = folders \cup {job[u].folder}
  /\ \E copied \in SUBSET Taken(u) :
       /\ package' = [package EXCEPT ![job[u].folder] = @ \cup copied]
       /\ job' = [job EXCEPT ![u].step = "charging", ![u].due = Due(u, copied)]
  /\ UNCHANGED <<now, ledger, page, before>>

(* mark_exported_used *)
Charge(u, a) ==
  /\ job[u].step = "charging"
  /\ a \in job[u].due
  /\ ledger' = Marked(a, job[u].folder)
  /\ job' = [job EXCEPT ![u].due = @ \ {a}]
  /\ UNCHANGED <<now, folders, package, page, before>>

FinishExport(u) ==
  /\ job[u].step = "charging"
  /\ job[u].due = {}
  /\ job' = [job EXCEPT ![u] = Idle]
  /\ UNCHANGED <<now, ledger, folders, package, page, before>>

(* The console dies or an exception ends the request; the page stays. *)
Abort(u) ==
  /\ job[u] # Idle
  /\ job' = [job EXCEPT ![u] = Idle]
  /\ page' = IF Choosing(u) THEN [page EXCEPT ![u] = Blank] ELSE page
  /\ before' = IF Choosing(u) THEN [before EXCEPT ![u] = {}] ELSE before
  /\ UNCHANGED <<now, ledger, folders, package>>

(* A recall takes no time on the scale of days. *)
Tick ==
  /\ now < Horizon
  /\ \A u \in Users : ~Choosing(u)
  /\ now' = now + 1
  /\ UNCHANGED <<ledger, folders, package, page, job, before>>

Next ==
  \/ \E u \in Users :
        \/ StartRecall(u)
        \/ RecallSlot(u)
        \/ StartSelection(u)
        \/ SelectSlot(u)
        \/ \E d \in Directories : StartExport(u, d)
        \/ CopyEntries(u)
        \/ \E a \in Assets : Charge(u, a)
        \/ FinishExport(u)
        \/ Abort(u)
  \/ \E a \in Assets : MarkUsed(a)
  \/ Tick

Spec == Init /\ [][Next]_vars

-----------------------------------------------------------------------------
(* Contract B9.1: the slots of a recalled page never share a picture, though *)
(* each may be filled from several levels; and none takes with a wide level  *)
(* what another was short of on a narrower one: that one is full by then.    *)
SlotsShareFairly ==
  \A u \in Users, i, j \in Slots : page[u].apart /\ i # j =>
    /\ page[u].picks[i] \cap page[u].picks[j] = {}
    /\ \A level \in Levels :
         page[u].picks[j] \cap Pool(i, level) # {} /\ (\A m \in page[u].levels[j] : m > level)
         => Cardinality(page[u].picks[i]) = TopK /\ (\A m \in page[u].levels[i] : m <= level)

(* Contract B1/B12: what a page or the generator was given had rested for    *)
(* the cooldown after every use that the ledger held when it was drawn, uses *)
(* of the same day and of the same minute among them.  A use entered later   *)
(* may follow, as nothing keeps two pages from showing one picture; and what *)
(* the generator was given is no use.                                        *)
PicksAreRested ==
  \A u \in Users, i \in Slots : \A r \in before[u] :
    r.asset \in page[u].picks[i] => page[u].day - r.day >= Cooldown

(* A slot that is short of pictures has exhausted the library: on the day of *)
(* the recall everything in its pools cools or is on the page already, and   *)
(* so does all there is of the medium it asks for, or all there is if the    *)
(* library has nothing of it.  A slot that claims a strict match has one.    *)
LadderComplete ==
  \A u \in Users, i \in Slots : page[u].apart /\ ~Choosing(u) =>
    /\ Weakest(u, i) = Strict => page[u].picks[i] \subseteq Pool(i, Strict)
    /\ page[u].day = now /\ Taken(u) # {} /\ Cardinality(page[u].picks[i]) < TopK =>
         \A a \in Assets :
           \/ Cooling(a, now) \/ a \in Taken(u)
           \/ /\ \A level \in Levels : a \notin Pool(i, level)
              /\ Info[a].kind # Slot[i].kind
              /\ \E b \in Assets : Info[b].kind = Slot[i].kind

(* Only what was copied into a package is charged to it, also when two       *)
(* exports of one minute end in the same folder.                             *)
OnlyCopiedCharged ==
  \A r \in ledger : r.by # NoDirectory => r.asset \in package[r.by]
=============================================================================
