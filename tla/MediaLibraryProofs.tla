------------------------- MODULE MediaLibraryProofs -------------------------
(***************************************************************************)
(* What holds of MediaLibrary for every set of names, contents and threads,*)
(* proved with TLAPS.                                                      *)
(***************************************************************************)
EXTENDS MediaLibrary, TLAPS

Jobs == [step : Step, name : Names \cup {NoName}, content : Contents \cup {NoContent},
         retried : BOOLEAN, widened : BOOLEAN, seen : SUBSET Assets,
         entries : [Assets -> Contents \cup {NoContent}], before : SUBSET Assets,
         outrun : BOOLEAN]

(* A request for the model has a content, one to be stored a name as well.   *)
Named(j) ==
  /\ j.step = "asking" => j.content \in Contents
  /\ j.step \in StoreStep \cup {"admitted"} => j.name \in Names /\ j.content \in Contents
TypeInv == TypeOK /\ \A u \in Uploaders : Named(job[u])

(* How the job of one thread moves in a step; the others' stay.              *)
LEMMA GoesMoves ==
  ASSUME TypeInv, NEW u \in Uploaders, NEW step \in Step, Goes(u, step)
  PROVE  /\ job' = [job EXCEPT ![u] = [job[u] EXCEPT !.step = step]]
         /\ job[u] \in Jobs /\ job'[u] \in Jobs /\ job'[u].step = step
         /\ job'[u].name = job[u].name /\ job'[u].content = job[u].content
         /\ job'[u].entries = job[u].entries /\ job'[u].seen = job[u].seen
         /\ job'[u].before = job[u].before /\ job'[u].outrun = job[u].outrun
         /\ \A v \in Uploaders : v # u => job'[v] = job[v]
BY DEF TypeInv, TypeOK, Goes, Jobs

LEMMA IdleIsJob == Idle \in Jobs /\ Idle.step = "idle" /\ Named(Idle)
                   /\ NoEntries \in [Assets -> Contents \cup {NoContent}]
BY DEF Idle, Jobs, Step, StoreStep, Named, NoEntries

LEMMA LeavesMoves ==
  ASSUME TypeInv, NEW u \in Uploaders, Leaves(u)
  PROVE  /\ job' \in [Uploaders -> Jobs] /\ job'[u] = Idle
         /\ \A v \in Uploaders : v # u => job'[v] = job[v]
BY IdleIsJob DEF TypeInv, TypeOK, Leaves, Jobs

LEMMA StepFacts ==
  /\ {"idle", "asking", "admitted"} \subseteq Step
  /\ {"writing", "checking", "describing", "listing", "indexing", "loading", "registering"}
       \subseteq Step
BY DEF Step, StoreStep

(* Types. *)
TypeStep(u) ==
  /\ job' \in [Uploaders -> Jobs]
  /\ \A v \in Uploaders : Named(job'[v])

LEMMA GoesType ==
  ASSUME TypeInv, NEW u \in Uploaders, NEW step \in Step, Goes(u, step),
         step # "asking", step = "idle" \/ Named([job[u] EXCEPT !.step = step])
  PROVE  TypeStep(u)
<1>1. job' = [job EXCEPT ![u] = [job[u] EXCEPT !.step = step]] /\ job'[u] \in Jobs
  BY GoesMoves
<1>2. job \in [Uploaders -> Jobs] /\ \A v \in Uploaders : Named(job[v])
  BY DEF TypeInv, TypeOK, Jobs
<1>3. step = "idle" => Named(job'[u])
  BY <1>1, GoesMoves DEF Named, StoreStep
<1> QED BY <1>1, <1>2, <1>3 DEF TypeStep

LEMMA OneJobType ==
  ASSUME TypeInv, NEW u \in Uploaders, NEW j \in Jobs, Named(j), job' = [job EXCEPT ![u] = j]
  PROVE  TypeStep(u)
BY DEF TypeInv, TypeOK, TypeStep, Jobs

(* Fields of a job that its name and content do not depend on.               *)
LEMMA FieldChange ==
  ASSUME NEW j \in Jobs, Named(j)
  PROVE  /\ [j EXCEPT !.retried = TRUE] \in Jobs
         /\ Named([j EXCEPT !.retried = TRUE])
         /\ [j EXCEPT !.retried = FALSE, !.widened = TRUE] \in Jobs
         /\ Named([j EXCEPT !.retried = FALSE, !.widened = TRUE])
         /\ \A seen \in SUBSET Assets, step \in StoreStep :
               [j EXCEPT !.seen = seen, !.step = step] \in Jobs
         /\ \A entries \in [Assets -> Contents \cup {NoContent}], step \in StoreStep :
               [j EXCEPT !.entries = entries, !.step = step] \in Jobs
<1>1. [j EXCEPT !.retried = TRUE] \in Jobs
  BY DEF Jobs
<1>2. Named([j EXCEPT !.retried = TRUE])
  BY DEF Jobs, Named
<1>3. [j EXCEPT !.retried = FALSE, !.widened = TRUE] \in Jobs
  BY DEF Jobs
<1>4. Named([j EXCEPT !.retried = FALSE, !.widened = TRUE])
  BY DEF Jobs, Named
<1>5. ASSUME NEW seen \in SUBSET Assets, NEW step \in StoreStep
      PROVE  [j EXCEPT !.seen = seen, !.step = step] \in Jobs
  BY DEF Jobs, Step
<1>6. ASSUME NEW entries \in [Assets -> Contents \cup {NoContent}], NEW step \in StoreStep
      PROVE  [j EXCEPT !.entries = entries, !.step = step] \in Jobs
  BY DEF Jobs, Step
<1> QED BY <1>1, <1>2, <1>3, <1>4, <1>5, <1>6

LEMMA LeavesType ==
  ASSUME TypeInv, NEW u \in Uploaders, Leaves(u)
  PROVE  TypeStep(u)
BY LeavesMoves, IdleIsJob DEF TypeInv, TypeStep

(* An upload that is let in has a name and a content and nothing else yet.   *)
LEMMA AdmittedMoves ==
  ASSUME TypeInv, NEW u \in Uploaders, NEW n \in Names, NEW c \in Contents,
         job' = [job EXCEPT ![u] = Admitted(n, c)]
  PROVE  /\ Admitted(n, c) \in Jobs /\ Named(Admitted(n, c)) /\ job'[u] = Admitted(n, c)
         /\ job'[u].step = "admitted" /\ job'[u].name = n /\ job'[u].content = c
         /\ job'[u].entries = NoEntries /\ job'[u].before = {} /\ job'[u].seen = {}
         /\ ~job'[u].outrun
         /\ \A v \in Uploaders : v # u => job'[v] = job[v]
<1>1. Admitted(n, c) \in Jobs /\ Named(Admitted(n, c))
  BY IdleIsJob, StepFacts DEF Admitted, Idle, Jobs, Named, StoreStep
<1>2. job'[u] = Admitted(n, c) /\ \A v \in Uploaders : v # u => job'[v] = job[v]
  BY DEF TypeInv, TypeOK
<1>3. LET j == Admitted(n, c)
      IN  /\ j.step = "admitted" /\ j.name = n /\ j.content = c /\ j.entries = NoEntries
          /\ j.before = {} /\ j.seen = {} /\ ~j.outrun
  BY DEF Admitted, Idle
<1> QED BY <1>1, <1>2, <1>3

LEMMA AdmittedType ==
  ASSUME TypeInv, NEW u \in Uploaders, NEW n \in Names, NEW c \in Contents,
         job' = [job EXCEPT ![u] = Admitted(n, c)]
  PROVE  TypeStep(u)
BY AdmittedMoves, OneJobType

(* Who writes the registry leaves, and overtakes those who will read it.     *)
LEMMA RegisteredMoves ==
  ASSUME TypeInv, NEW u \in Uploaders, WriteRegistry(u)
  PROVE  /\ job' \in [Uploaders -> Jobs] /\ job'[u] = Idle
         /\ \A v \in Uploaders \ {u} :
              LET j == job[v]
                  k == job'[v]
              IN  /\ k.step = j.step /\ k.name = j.name /\ k.content = j.content
                  /\ k.seen = j.seen /\ k.entries = j.entries /\ k.before = j.before
                  /\ k.outrun <=> j.outrun \/ (j.step \in StoreStep /\ j.step # "registering")
<1>1. job \in [Uploaders -> Jobs]
  BY DEF TypeInv, TypeOK, Jobs
<1>2. job' = [v \in Uploaders |->
        CASE v = u -> Idle
          [] v # u /\ Storing(v) /\ job[v].step # "registering" -> [job[v] EXCEPT !.outrun = TRUE]
          [] OTHER -> job[v]]
  BY DEF WriteRegistry
<1>3. job'[u] = Idle
  BY <1>2
<1>4. ASSUME NEW v \in Uploaders \ {u}
      PROVE  job'[v] = IF Storing(v) /\ job[v].step # "registering"
                       THEN [job[v] EXCEPT !.outrun = TRUE] ELSE job[v]
  BY <1>2
<1>5. \A j \in Jobs : LET k == [j EXCEPT !.outrun = TRUE]
                      IN  /\ k \in Jobs /\ k.step = j.step /\ k.name = j.name
                          /\ k.content = j.content /\ k.seen = j.seen
                          /\ k.entries = j.entries /\ k.before = j.before /\ k.outrun
  BY DEF Jobs
<1>6. \A v \in Uploaders \ {u} : job'[v] \in Jobs
  BY <1>1, <1>4, <1>5
<1>7. job' \in [Uploaders -> Jobs]
  BY <1>2, <1>3, <1>6, IdleIsJob
<1>8. ASSUME NEW v \in Uploaders \ {u}
      PROVE  LET j == job[v]
                 k == job'[v]
             IN  /\ k.step = j.step /\ k.name = j.name /\ k.content = j.content
                 /\ k.seen = j.seen /\ k.entries = j.entries /\ k.before = j.before
                 /\ k.outrun <=> j.outrun \/ (j.step \in StoreStep /\ j.step # "registering")
  BY <1>1, <1>4, <1>5 DEF Storing
<1> QED BY <1>3, <1>7, <1>8

(* An upload that passes the hash check notes what is described.             *)
LEMMA LetInMoves ==
  ASSUME TypeInv, NEW u \in Uploaders, job[u].step = "admitted",
         job' = [job EXCEPT ![u].before = Described, ![u].step = "writing"]
  PROVE  /\ TypeStep(u) /\ job'[u].step = "writing" /\ job'[u].name = job[u].name
         /\ job'[u].content = job[u].content /\ job'[u].before = Described
         /\ job'[u].entries = job[u].entries /\ job'[u].outrun = job[u].outrun
         /\ \A v \in Uploaders : v # u => job'[v] = job[v]
<1> DEFINE j == [job[u] EXCEPT !.before = Described, !.step = "writing"]
<1>1. job \in [Uploaders -> Jobs] /\ Named(job[u])
  BY DEF TypeInv, TypeOK, Jobs
<1>2. job' = [job EXCEPT ![u] = j]
  BY <1>1 DEF Jobs
<1>3. /\ j.step = "writing" /\ j.name = job[u].name /\ j.content = job[u].content
      /\ j.before = Described /\ j.entries = job[u].entries /\ j.outrun = job[u].outrun
  BY <1>1 DEF Jobs
<1>4. j \in Jobs /\ Named(j)
  <2>1. Described \subseteq Assets /\ "writing" \in Step
    BY StepFacts DEF Described
  <2>2. j \in Jobs
    BY <1>1, <2>1 DEF Jobs
  <2>3. Named(j)
    BY <1>1, <1>3 DEF Named
  <2> QED BY <2>2, <2>3
<1> HIDE DEF j
<1>5. job'[u] = j /\ \A v \in Uploaders : v # u => job'[v] = job[v]
  BY <1>1, <1>2
<1> QED BY <1>2, <1>3, <1>4, <1>5, OneJobType

(* The index is written: what was read for it is forgotten.                  *)
LEMMA IndexedMoves ==
  ASSUME TypeInv, NEW u \in Uploaders, job[u].step = "indexing",
         job' = [job EXCEPT ![u].seen = {}, ![u].before = {}, ![u].step = "loading"]
  PROVE  /\ TypeStep(u) /\ job'[u].step = "loading" /\ job'[u].name = job[u].name
         /\ job'[u].content = job[u].content /\ job'[u].before = {}
         /\ job'[u].entries = job[u].entries /\ job'[u].outrun = job[u].outrun
         /\ \A v \in Uploaders : v # u => job'[v] = job[v]
<1> DEFINE j == [job[u] EXCEPT !.seen = {}, !.before = {}, !.step = "loading"]
<1>1. job \in [Uploaders -> Jobs] /\ Named(job[u])
  BY DEF TypeInv, TypeOK, Jobs
<1>2. job' = [job EXCEPT ![u] = j]
  BY <1>1 DEF Jobs
<1>3. /\ j.step = "loading" /\ j.name = job[u].name /\ j.content = job[u].content
      /\ j.before = {} /\ j.entries = job[u].entries /\ j.outrun = job[u].outrun
  BY <1>1 DEF Jobs
<1>4. j \in Jobs /\ Named(j)
  <2>1. "loading" \in Step
    BY StepFacts
  <2>2. j \in Jobs
    BY <1>1, <2>1 DEF Jobs
  <2>3. Named(j)
    BY <1>1, <1>3 DEF Named, StoreStep
  <2> QED BY <2>2, <2>3
<1> HIDE DEF j
<1>5. job'[u] = j /\ \A v \in Uploaders : v # u => job'[v] = job[v]
  BY <1>1, <1>2
<1> QED BY <1>2, <1>3, <1>4, <1>5, OneJobType

LEMMA TypeInductive == TypeInv /\ [Next]_vars => TypeInv'
<1> SUFFICES ASSUME TypeInv, [Next]_vars PROVE TypeInv'
  OBVIOUS
<1> USE LibraryAssumption DEF LibraryAssumption
<1>1. job \in [Uploaders -> Jobs] /\ \A v \in Uploaders : Named(job[v])
  BY DEF TypeInv, TypeOK, Jobs
<1>2. ASSUME NEW u \in Uploaders, TypeStep(u),
             image' \in [Names -> Contents \cup {NoContent}],
             description' \in [Assets -> [file : Names, content : Contents] \cup {Undescribed}],
             index' \subseteq Assets, registry' \in [Assets -> Contents \cup {NoContent}],
             tickets' \subseteq [content : Contents, fresh : BOOLEAN],
             recognized' \subseteq Contents, added' \in [Assets -> Contents \cup {NoContent}],
             raced' \subseteq Assets
      PROVE  TypeInv'
  BY <1>2 DEF TypeInv, TypeOK, TypeStep, Jobs
<1>3. ASSUME NEW u \in Uploaders, TypeStep(u), UNCHANGED <<files, tickets, history>>
      PROVE  TypeInv'
  BY <1>2, <1>3 DEF TypeInv, TypeOK, files, history
<1>4. ASSUME NEW u \in Uploaders, NEW c \in Contents, NEW n \in Names \cup {NoName}, Describe(u, n, c)
      PROVE  TypeInv'
  <2>1. TypeStep(u)
    BY <1>1, <1>4, IdleIsJob, StepFacts DEF Describe, TypeStep, Named, Jobs, Idle, StoreStep
  <2> QED BY <1>3, <1>4, <2>1 DEF Describe
<1>5. ASSUME NEW u \in Uploaders, NEW c \in Contents, NEW n \in Names, Upload(u, n, c)
      PROVE  TypeInv'
  <2>1. TypeStep(u)
    BY <1>5, AdmittedType DEF Upload
  <2> QED BY <1>3, <1>5, <2>1 DEF Upload
<1>6. ASSUME NEW u \in Uploaders, Transient(u) \/ Truncated(u)
      PROVE  TypeInv'
  <2>1. CASE Transient(u)
    <3>1. job' = [job EXCEPT ![u] = [job[u] EXCEPT !.retried = TRUE]]
      BY <2>1 DEF Transient
    <3>2. [job[u] EXCEPT !.retried = TRUE] \in Jobs /\ Named([job[u] EXCEPT !.retried = TRUE])
      BY <1>1, FieldChange
    <3>3. TypeStep(u)
      BY <3>1, <3>2, OneJobType
    <3> QED BY <1>3, <2>1, <3>3 DEF Transient
  <2>2. CASE Truncated(u)
    <3> DEFINE j == [job[u] EXCEPT !.retried = FALSE, !.widened = TRUE]
    <3>1. job' = [job EXCEPT ![u] = j]
      BY <1>1, <2>2 DEF Truncated, Jobs
    <3>2. j \in Jobs /\ Named(j)
      BY <1>1, FieldChange
    <3>3. TypeStep(u)
      BY <3>1, <3>2, OneJobType
    <3> QED BY <1>3, <2>2, <3>3 DEF Truncated
  <2> QED BY <1>6, <2>1, <2>2
<1>7. ASSUME NEW u \in Uploaders, Leaves(u) PROVE TypeStep(u)
  BY <1>7, LeavesType
<1>8. ASSUME NEW u \in Uploaders, NEW step \in StoreStep \cup {"admitted"}, Goes(u, step),
             job[u].name \in Names, job[u].content \in Contents
      PROVE  TypeStep(u)
  <2>1. job[u] \in Jobs
    BY <1>1
  <2>2. Named([job[u] EXCEPT !.step = step])
    BY <1>8, <2>1 DEF Named, Jobs, StoreStep
  <2>3. step \in Step /\ step # "asking"
    BY DEF Step, StoreStep
  <2> QED BY <1>8, <2>2, <2>3, GoesType
<1>9. ASSUME NEW u \in Uploaders, Answered(u) \/ Unanswered(u)
      PROVE  TypeInv'
  <2>1. job[u].content \in Contents /\ job[u].name \in Names \cup {NoName}
    BY <1>1, <1>9 DEF Answered, Unanswered, Named, Jobs
  <2>2. TypeStep(u)
    BY <1>7, <1>9, <2>1, AdmittedType DEF Answered, Unanswered
  <2>3. CASE Unanswered(u)
    BY <1>3, <2>2, <2>3 DEF Unanswered
  <2>4. CASE Answered(u)
    <3>1. /\ tickets' = Unexpired(tickets) \cup {[content |-> job[u].content, fresh |-> TRUE]}
          /\ recognized' = recognized \cup {job[u].content}
      BY <2>4 DEF Answered
    <3>2. [content |-> job[u].content, fresh |-> TRUE] \in [content : Contents, fresh : BOOLEAN]
      BY <2>1
    <3>3. Unexpired(tickets) \subseteq [content : Contents, fresh : BOOLEAN]
      BY DEF Unexpired, TypeInv, TypeOK
    <3>4. recognized' \subseteq Contents
      BY <2>1, <3>1 DEF TypeInv, TypeOK
    <3>5. tickets' \subseteq [content : Contents, fresh : BOOLEAN]
      BY <3>1, <3>2, <3>3
    <3> QED BY <1>2, <2>2, <2>4, <3>4, <3>5 DEF Answered, TypeInv, TypeOK, files
  <2> QED BY <1>9, <2>3, <2>4
<1>10. ASSUME NEW u \in Uploaders, job[u].step \in StoreStep \cup {"admitted"}
       PROVE  /\ job[u].name \in Names /\ job[u].content \in Contents /\ Asset(u) \in Assets
              /\ \A step \in StoreStep : Goes(u, step) => TypeStep(u)
  BY <1>1, <1>8, <1>10 DEF Named, Asset
<1>11. ASSUME NEW u \in Uploaders, CheckHash(u) PROVE TypeInv'
  <2>1. TypeStep(u)
    BY <1>7, <1>11, LetInMoves DEF CheckHash
  <2> QED BY <1>3, <1>11, <2>1 DEF CheckHash
<1>12. ASSUME NEW u \in Uploaders, WriteImage(u) PROVE TypeInv'
  <2>1. TypeStep(u) /\ image' \in [Names -> Contents \cup {NoContent}]
    BY <1>10, <1>12 DEF WriteImage, StoreStep, TypeInv, TypeOK
  <2> QED BY <1>2, <1>12, <2>1 DEF WriteImage, TypeInv, TypeOK, history
<1>13. ASSUME NEW u \in Uploaders, CheckDescription(u) PROVE TypeInv'
  <2>1. TypeStep(u)
    BY <1>7, <1>10, <1>13 DEF CheckDescription, StoreStep
  <2> QED BY <1>3, <1>13, <2>1 DEF CheckDescription
<1>14. ASSUME NEW u \in Uploaders, WriteDescription(u) PROVE TypeInv'
  <2>1. TypeStep(u)
    BY <1>10, <1>14 DEF WriteDescription, StoreStep
  <2>2. description' \in [Assets -> [file : Names, content : Contents] \cup {Undescribed}]
    BY <1>10, <1>14 DEF WriteDescription, StoreStep, TypeInv, TypeOK
  <2> QED BY <1>2, <1>14, <2>1, <2>2 DEF WriteDescription, TypeInv, TypeOK, history
<1>15. ASSUME NEW u \in Uploaders, ReadFolder(u) PROVE TypeInv'
  <2> DEFINE j == [job[u] EXCEPT !.seen = Listed(u), !.step = "indexing"]
  <2>1. job' = [job EXCEPT ![u] = j]
    BY <1>1, <1>15 DEF ReadFolder, Jobs
  <2>2. job[u].name \in Names /\ job[u].content \in Contents /\ Listed(u) \subseteq Assets
    BY <1>10, <1>15 DEF ReadFolder, StoreStep, Listed, Described
  <2>3. j \in Jobs
    BY <1>1, <2>2, FieldChange DEF StoreStep
  <2>4. j.step = "indexing" /\ j.name = job[u].name /\ j.content = job[u].content
    BY <1>1 DEF Jobs
  <2>5. TypeStep(u)
    BY <2>1, <2>2, <2>3, <2>4, OneJobType DEF Named
  <2> QED BY <1>3, <1>15, <2>5 DEF ReadFolder
<1>16. ASSUME NEW u \in Uploaders, WriteIndex(u) PROVE TypeInv'
  <2>1. TypeStep(u) /\ index' \subseteq Assets
    BY <1>1, <1>16, IndexedMoves DEF WriteIndex, Jobs
  <2> QED BY <1>2, <1>16, <2>1 DEF WriteIndex, TypeInv, TypeOK, history
<1>17. ASSUME NEW u \in Uploaders, LoadRegistry(u) PROVE TypeInv'
  <2>1. job[u].name \in Names /\ job[u].content \in Contents
    BY <1>10, <1>17 DEF LoadRegistry, StoreStep
  <2>2. CASE Leaves(u)
    BY <1>3, <1>7, <1>17, <2>2 DEF LoadRegistry
  <2>3. CASE job' = [job EXCEPT ![u].entries = registry, ![u].step = "registering"]
    <3>1. registry \in [Assets -> Contents \cup {NoContent}]
      BY DEF TypeInv, TypeOK
    <3> DEFINE j == [job[u] EXCEPT !.entries = registry, !.step = "registering"]
    <3>2. job' = [job EXCEPT ![u] = j]
      BY <1>1, <2>3 DEF Jobs
    <3>3. j \in Jobs
      BY <1>1, <3>1, FieldChange DEF StoreStep
    <3>4. j.step = "registering" /\ j.name = job[u].name /\ j.content = job[u].content
      BY <1>1 DEF Jobs
    <3>5. TypeStep(u)
      BY <2>1, <3>2, <3>3, <3>4, OneJobType DEF Named
    <3> QED BY <1>3, <1>17, <3>5 DEF LoadRegistry
  <2> QED BY <1>17, <2>2, <2>3 DEF LoadRegistry
<1>18. ASSUME NEW u \in Uploaders, WriteRegistry(u) PROVE TypeInv'
  <2>1. TypeStep(u) /\ registry' \in [Assets -> Contents \cup {NoContent}]
    <3>1. \A v \in Uploaders : Named(job'[v])
      BY <1>1, <1>18, IdleIsJob, RegisteredMoves DEF Named
    <3>2. registry' \in [Assets -> Contents \cup {NoContent}]
      BY <1>1, <1>10, <1>18 DEF WriteRegistry, WithEntry, StoreStep, Jobs
    <3> QED BY <1>18, <3>1, <3>2, RegisteredMoves DEF TypeStep
  <2>2. Asset(u) \in Assets /\ job[u].content \in Contents
    BY <1>10, <1>18 DEF WriteRegistry, StoreStep
  <2>3. /\ added' \in [Assets -> Contents \cup {NoContent}] /\ raced' \subseteq Assets
        /\ UNCHANGED <<image, description, index, tickets, recognized>>
    BY <1>18, <2>2 DEF WriteRegistry, TypeInv, TypeOK
  <2> QED BY <1>2, <2>1, <2>3 DEF TypeInv, TypeOK
<1>19. ASSUME NEW u \in Uploaders, Fail(u) PROVE TypeInv'
  BY <1>3, <1>7, <1>19 DEF Fail
<1>20. ASSUME NEW t \in tickets, TicketExpires(t) \/ PresentExpired(t) PROVE TypeInv'
  <2>1. t \in [content : Contents, fresh : BOOLEAN]
        /\ tickets \subseteq [content : Contents, fresh : BOOLEAN]
    BY DEF TypeInv, TypeOK
  <2>2. [t EXCEPT !.fresh = FALSE] \in [content : Contents, fresh : BOOLEAN]
    BY <2>1
  <2>3. tickets' \subseteq [content : Contents, fresh : BOOLEAN]
    BY <1>20, <2>1, <2>2 DEF TicketExpires, PresentExpired
  <2> QED BY <1>20, <2>3 DEF TicketExpires, PresentExpired, TypeInv, TypeOK, files, history
<1>21. ASSUME Restart PROVE TypeInv'
  BY <1>21, IdleIsJob DEF Restart, TypeInv, TypeOK, Jobs, files, history
<1>22. CASE UNCHANGED vars
  BY <1>22 DEF vars, files, history, TypeInv, TypeOK
<1> QED BY <1>4, <1>5, <1>6, <1>9, <1>11, <1>12, <1>13, <1>14, <1>15, <1>16, <1>17, <1>18, <1>19,
           <1>20, <1>21, <1>22 DEF Next

LEMMA TypeInitially == Init => TypeInv
<1>1. ASSUME NEW a \in Assets
      PROVE  LegacyDescription(a) \in [file : Names, content : Contents] \cup {Undescribed}
  BY LibraryAssumption DEF LegacyDescription, LibraryAssumption
<1>2. \A n \in Names : Original(n) \in Contents \cup {NoContent}
  BY LibraryAssumption DEF Original, LibraryAssumption
<1>3. ASSUME Init PROVE TypeInv
  <2>1. job \in [Uploaders -> Jobs] /\ \A u \in Uploaders : Named(job[u])
    BY <1>3, IdleIsJob DEF Init
  <2>2. image \in [Names -> Contents \cup {NoContent}]
    BY <1>2, <1>3 DEF Init
  <2>3. description \in [Assets -> [file : Names, content : Contents] \cup {Undescribed}]
    BY <1>1, <1>3 DEF Init
  <2> QED BY <1>3, <2>1, <2>2, <2>3, IdleIsJob DEF Init, TypeInv, TypeOK, Jobs, Described
<1> QED BY <1>3

LEMMA TypeInvariant == Spec => []TypeInv
<1>1. Init => TypeInv
  BY TypeInitially
<1>2. TypeInv /\ [Next]_vars => TypeInv'
  BY TypeInductive
<1> QED BY <1>1, <1>2, PTL DEF Spec

(* Every variable of the library keeps its type.                             *)
THEOREM TypeCorrect == Spec => []TypeOK
<1>1. TypeInv => TypeOK
  BY DEF TypeInv
<1> QED BY <1>1, TypeInvariant, PTL


-----------------------------------------------------------------------------
(* The registry names described pictures.                                    *)

(* What each thread that is storing an upload has already written.           *)
Safe(u) ==
  /\ job[u].step \in {"checking", "describing"} => image[job[u].name] # NoContent
  /\ job[u].step \in {"listing", "indexing", "loading", "registering"} => Asset(u) \in Described
  /\ \A a \in Assets : job[u].entries[a] # NoContent => a \in Described
DescribedInv ==
  /\ \A a \in Described : image[description[a].file] # NoContent
  /\ \A a \in Assets : registry[a] # NoContent => a \in Described
  /\ \A u \in Uploaders : Safe(u)

(* Pictures and descriptions are overwritten and never removed.              *)
Grows ==
  /\ Described \subseteq Described'
  /\ \A n \in Names : image[n] # NoContent => image'[n] # NoContent

LEMMA OthersSafe ==
  ASSUME TypeInv, Grows, NEW v \in Uploaders, Safe(v), job'[v] = job[v]
  PROVE  Safe(v)'
<1>1. job[v].step \in {"checking", "describing"} => job[v].name \in Names
  BY DEF TypeInv, Named, StoreStep
<1> QED BY <1>1 DEF Safe, Grows, Asset

LEMMA IdleSafe ==
  ASSUME NEW u \in Uploaders, job'[u] = Idle
  PROVE  Safe(u)'
BY DEF Safe, Idle, NoEntries

(* A step of u that writes no file.                                          *)
LEMMA QuietSafe ==
  ASSUME TypeInv, DescribedInv, UNCHANGED files, NEW u \in Uploaders, Safe(u)',
         \A v \in Uploaders : v # u => job'[v] = job[v]
  PROVE  DescribedInv'
<1>1. Grows
  BY DEF Grows, files, Described
<1>2. \A v \in Uploaders : Safe(v)'
  BY <1>1, OthersSafe DEF DescribedInv
<1>3. Described' = Described
  BY DEF files, Described
<1> QED BY <1>2, <1>3 DEF DescribedInv, files

LEMMA LeavesSafe ==
  ASSUME TypeInv, DescribedInv, UNCHANGED files, NEW u \in Uploaders, Leaves(u)
  PROVE  DescribedInv'
BY LeavesMoves, IdleSafe, QuietSafe

(* Starting a request, or a retry of one, has written nothing.               *)
LEMMA WaitingSafe ==
  ASSUME TypeInv, DescribedInv, UNCHANGED files, NEW u \in Uploaders,
         NEW j, job' = [job EXCEPT ![u] = j],
         j.step \in {"idle", "asking", "admitted", "writing"},
         \A a \in Assets : j.entries[a] # NoContent => a \in Described
  PROVE  DescribedInv'
<1>1. job'[u] = j /\ \A v \in Uploaders : v # u => job'[v] = job[v]
  BY DEF TypeInv, TypeOK
<1>2. Safe(u)'
  BY <1>1 DEF Safe, files, Described
<1> QED BY <1>1, <1>2, QuietSafe

LEMMA DescribedInductive == TypeInv /\ DescribedInv /\ [Next]_vars => DescribedInv'
<1> SUFFICES ASSUME TypeInv, DescribedInv, [Next]_vars PROVE DescribedInv'
  OBVIOUS
<1> USE LibraryAssumption DEF LibraryAssumption
<1>1. ASSUME NEW u \in Uploaders
      PROVE  /\ job[u] \in Jobs /\ Named(job[u]) /\ Safe(u)
             /\ \A a \in Assets : job[u].entries[a] # NoContent => a \in Described
  BY DEF TypeInv, TypeOK, Jobs, DescribedInv, Safe
<1>2. \A a \in Assets : Idle.entries[a] = NoContent
  BY DEF Idle, NoEntries
<1>3. ASSUME NEW u \in Uploaders, NEW step \in {"idle", "asking", "admitted", "writing"},
             Goes(u, step), UNCHANGED files
      PROVE  DescribedInv'
  <2>1. step \in Step /\ job' = [job EXCEPT ![u] = [job[u] EXCEPT !.step = step]]
    BY <1>3 DEF Step, StoreStep, Goes
  <2>2. [job[u] EXCEPT !.step = step].step = step
        /\ [job[u] EXCEPT !.step = step].entries = job[u].entries
    BY <1>1 DEF Jobs
  <2> QED BY <1>1, <1>3, <2>1, <2>2, WaitingSafe
<1>4. ASSUME NEW u \in Uploaders, NEW c, NEW n, NEW step \in {"asking", "admitted"},
             job' = [job EXCEPT ![u] = [Idle EXCEPT !.step = step, !.name = n, !.content = c]],
             UNCHANGED files
      PROVE  DescribedInv'
  <2> DEFINE j == [Idle EXCEPT !.step = step, !.name = n, !.content = c]
  <2>1. j.step \in {"idle", "asking", "admitted", "writing"}
    BY DEF Idle
  <2>2. \A a \in Assets : j.entries[a] # NoContent => a \in Described
    BY DEF Idle, NoEntries
  <2>3. job' = [job EXCEPT ![u] = j]
    BY <1>4
  <2> HIDE DEF j
  <2> QED BY <1>4, <2>1, <2>2, <2>3, WaitingSafe
<1>5. ASSUME NEW u \in Uploaders, Transient(u) \/ Truncated(u) PROVE DescribedInv'
  <2>1. UNCHANGED files /\ job[u].step = "asking"
    BY <1>5 DEF Transient, Truncated
  <2>2. PICK j : job' = [job EXCEPT ![u] = j] /\ j.step = "asking" /\ j.entries = job[u].entries
    <3>1. [job[u] EXCEPT !.retried = TRUE].step = "asking"
          /\ [job[u] EXCEPT !.retried = TRUE].entries = job[u].entries
      BY <1>1, <2>1 DEF Jobs
    <3>2. [job[u] EXCEPT !.retried = FALSE, !.widened = TRUE].step = "asking"
          /\ [job[u] EXCEPT !.retried = FALSE, !.widened = TRUE].entries = job[u].entries
      BY <1>1, <2>1 DEF Jobs
    <3>3. job \in [Uploaders -> Jobs]
      BY <1>1 DEF TypeInv, TypeOK, Jobs
    <3>4. Truncated(u) => job' = [job EXCEPT ![u] = [job[u] EXCEPT !.retried = FALSE, !.widened = TRUE]]
      BY <3>3 DEF Truncated
    <3> QED BY <1>5, <3>1, <3>2, <3>4 DEF Transient
  <2> QED BY <1>1, <2>1, <2>2, WaitingSafe
<1>6. ASSUME NEW u \in Uploaders, Answered(u) \/ Unanswered(u) \/ CheckHash(u) \/ Fail(u)
      PROVE  DescribedInv'
  <2>1. UNCHANGED files
    BY <1>6 DEF Answered, Unanswered, CheckHash, Fail
  <2>2. CASE Leaves(u)
    BY <2>1, <2>2, LeavesSafe
  <2>3. CASE job' = [job EXCEPT ![u] = Admitted(job[u].name, job[u].content)]
    BY <1>4, <2>1, <2>3 DEF Admitted
  <2>4. CASE job[u].step = "admitted" /\ job' = [job EXCEPT ![u].before = Described, ![u].step = "writing"]
    <3>1. job'[u].step = "writing" /\ job'[u].entries = job[u].entries
          /\ \A v \in Uploaders : v # u => job'[v] = job[v]
      BY <2>4, LetInMoves
    <3>2. Safe(u)'
      BY <1>1, <2>1, <3>1 DEF Safe, files, Described
    <3> QED BY <2>1, <3>1, <3>2, QuietSafe
  <2> QED BY <1>6, <2>2, <2>3, <2>4 DEF Answered, Unanswered, CheckHash, Fail
(* A step that writes files: the others' stay safe since files only grow.    *)
<1>7. ASSUME NEW u \in Uploaders, Grows, Safe(u)',
             \A v \in Uploaders : v # u => job'[v] = job[v],
             \A a \in Described' : image'[description'[a].file] # NoContent,
             \A a \in Assets : registry'[a] # NoContent => a \in Described'
      PROVE  DescribedInv'
  BY <1>1, <1>7, OthersSafe DEF DescribedInv
<1>8. ASSUME NEW u \in Uploaders, WriteImage(u) PROVE DescribedInv'
  <2>1. job[u].name \in Names /\ job[u].content \in Contents /\ Goes(u, "checking")
    BY <1>1, <1>8 DEF WriteImage, Named, StoreStep
  <2>2. \A n \in Names : image'[n] # NoContent <=> image[n] # NoContent \/ n = job[u].name
    BY <1>8, <2>1 DEF WriteImage, TypeInv, TypeOK
  <2>3. Grows /\ Described' = Described
    BY <1>8, <2>2 DEF WriteImage, Grows, Described
  <2>4. Safe(u)'
    BY <1>1, <2>1, <2>2, <2>3, GoesMoves, StepFacts DEF Safe
  <2>5. \A a \in Described : description[a].file \in Names
    BY DEF Described, TypeInv, TypeOK
  <2> QED BY <1>7, <1>8, <2>1, <2>2, <2>3, <2>4, <2>5, GoesMoves, StepFacts
          DEF WriteImage, DescribedInv
<1>9. ASSUME NEW u \in Uploaders, CheckDescription(u) PROVE DescribedInv'
  <2>1. CASE Leaves(u)
    BY <1>9, <2>1, LeavesSafe DEF CheckDescription
  <2>2. CASE Goes(u, "describing")
    <3>1. Safe(u)'
      BY <1>1, <1>9, <2>2, GoesMoves, StepFacts DEF CheckDescription, Safe, files, Described
    <3> QED BY <1>9, <2>2, <3>1, GoesMoves, StepFacts, QuietSafe DEF CheckDescription
  <2> QED BY <1>9, <2>1, <2>2 DEF CheckDescription
<1>10. ASSUME NEW u \in Uploaders, WriteDescription(u) PROVE DescribedInv'
  <2>1. /\ job[u].name \in Names /\ job[u].content \in Contents /\ Goes(u, "listing")
        /\ Asset(u) \in Assets /\ image[job[u].name] # NoContent
    BY <1>1, <1>10 DEF WriteDescription, Named, StoreStep, Asset, Safe
  <2>2. /\ description'[Asset(u)] = [file |-> job[u].name, content |-> job[u].content]
        /\ \A a \in Assets : a # Asset(u) => description'[a] = description[a]
        /\ UNCHANGED <<image, registry>>
    BY <1>10, <2>1 DEF WriteDescription, TypeInv, TypeOK
  <2>3. [file |-> job[u].name, content |-> job[u].content] # Undescribed
    BY <2>1 DEF Undescribed
  <2>4. Described' = Described \cup {Asset(u)}
    BY <2>1, <2>2, <2>3 DEF Described
  <2>5. Grows
    BY <2>2, <2>4 DEF Grows
  <2>6. Asset(u)' = Asset(u)
    BY <2>1, GoesMoves, StepFacts DEF Asset
  <2>7. Safe(u)'
    BY <1>1, <2>1, <2>4, <2>6, GoesMoves, StepFacts DEF Safe
  <2>8. ASSUME NEW a \in Described' PROVE image'[description'[a].file] # NoContent
    <3>1. CASE a = Asset(u)
      BY <2>1, <2>2, <3>1
    <3>2. CASE a # Asset(u)
      BY <2>2, <2>4, <3>2 DEF Described, DescribedInv
    <3> QED BY <3>1, <3>2
  <2> QED BY <1>7, <2>1, <2>2, <2>4, <2>5, <2>7, <2>8, GoesMoves, StepFacts DEF DescribedInv
<1>11. ASSUME NEW u \in Uploaders, ReadFolder(u) PROVE DescribedInv'
  <2> DEFINE j == [job[u] EXCEPT !.seen = Listed(u), !.step = "indexing"]
  <2>1. job' = [job EXCEPT ![u] = j] /\ job \in [Uploaders -> Jobs]
    BY <1>1, <1>11 DEF ReadFolder, TypeInv, TypeOK, Jobs
  <2>2. j.step = "indexing" /\ j.name = job[u].name /\ j.entries = job[u].entries
    BY <1>1 DEF Jobs
  <2>3. job'[u] = j /\ \A v \in Uploaders : v # u => job'[v] = job[v]
    BY <2>1
  <2>4. Safe(u)'
    <3>1. Asset(u)' = Asset(u) /\ Asset(u) \in Described /\ UNCHANGED Described
      BY <1>1, <1>11, <2>2, <2>3 DEF ReadFolder, Safe, Asset, files, Described
    <3>2. job'[u].step = "indexing" /\ job'[u].entries = job[u].entries
      BY <2>2, <2>3
    <3> HIDE DEF j
    <3> QED BY <1>1, <3>1, <3>2 DEF Safe
  <2> QED BY <1>11, <2>3, <2>4, QuietSafe DEF ReadFolder
<1>12. ASSUME NEW u \in Uploaders, WriteIndex(u) PROVE DescribedInv'
  <2>1. UNCHANGED <<image, description, registry>> /\ job[u].step = "indexing"
    BY <1>12 DEF WriteIndex
  <2>2. Grows /\ Described' = Described
    BY <2>1 DEF Grows, Described
  <2>3. /\ job'[u].step = "loading" /\ job'[u].name = job[u].name
        /\ job'[u].entries = job[u].entries
        /\ \A v \in Uploaders : v # u => job'[v] = job[v]
    BY <1>12, IndexedMoves DEF WriteIndex
  <2>4. Safe(u)'
    BY <1>1, <2>1, <2>2, <2>3 DEF Safe, Asset
  <2> QED BY <1>7, <2>1, <2>2, <2>3, <2>4 DEF DescribedInv
<1>13. ASSUME NEW u \in Uploaders, LoadRegistry(u) PROVE DescribedInv'
  <2>1. CASE Leaves(u)
    BY <1>13, <2>1, LeavesSafe DEF LoadRegistry
  <2>2. CASE job' = [job EXCEPT ![u].entries = registry, ![u].step = "registering"]
    <3> DEFINE j == [job[u] EXCEPT !.entries = registry, !.step = "registering"]
    <3>1. job' = [job EXCEPT ![u] = j] /\ job \in [Uploaders -> Jobs]
      BY <1>1, <2>2 DEF TypeInv, TypeOK, Jobs
    <3>2. j.step = "registering" /\ j.name = job[u].name /\ j.entries = registry
      BY <1>1 DEF Jobs
    <3>3. job'[u] = j /\ \A v \in Uploaders : v # u => job'[v] = job[v]
      BY <3>1
    <3>4. Safe(u)'
      <4>1. Asset(u)' = Asset(u) /\ Asset(u) \in Described /\ UNCHANGED Described
        BY <1>1, <1>13, <3>2, <3>3 DEF LoadRegistry, Safe, Asset, files, Described
      <4>2. \A a \in Assets : registry[a] # NoContent => a \in Described
        BY DEF DescribedInv
      <4> HIDE DEF j
      <4> QED BY <3>2, <3>3, <4>1, <4>2 DEF Safe
    <3> QED BY <1>13, <3>3, <3>4, QuietSafe DEF LoadRegistry
  <2> QED BY <1>13, <2>1, <2>2 DEF LoadRegistry
<1>14. ASSUME NEW u \in Uploaders, WriteRegistry(u) PROVE DescribedInv'
  <2>1. Asset(u) \in Assets /\ Asset(u) \in Described
    BY <1>1, <1>14 DEF WriteRegistry, Named, StoreStep, Asset, Safe
  <2>2. \A a \in Assets : registry'[a] # NoContent => a \in Described
    BY <1>1, <1>14, <2>1 DEF WriteRegistry, WithEntry, Jobs
  <2>3. Grows /\ Described' = Described
    BY <1>14 DEF WriteRegistry, Grows, Described
  <2>4. ASSUME NEW v \in Uploaders PROVE Safe(v)'
    <3>1. CASE v = u
      BY <1>14, <3>1, RegisteredMoves, IdleSafe
    <3>2. CASE v # u
      <4>1. /\ job'[v].step = job[v].step /\ job'[v].name = job[v].name
            /\ job'[v].entries = job[v].entries
        BY <1>14, <3>2, RegisteredMoves
      <4>2. UNCHANGED <<image, description>>
        BY <1>14 DEF WriteRegistry
      <4> QED BY <1>1, <2>3, <4>1, <4>2 DEF Safe, Asset
    <3> QED BY <3>1, <3>2
  <2>5. UNCHANGED <<image, description>>
    BY <1>14 DEF WriteRegistry
  <2> QED BY <2>2, <2>3, <2>4, <2>5 DEF DescribedInv
<1>15. ASSUME NEW t \in tickets, TicketExpires(t) \/ PresentExpired(t) PROVE DescribedInv'
  BY <1>15 DEF TicketExpires, PresentExpired, DescribedInv, Safe, Asset, Described, files
<1>16. ASSUME Restart PROVE DescribedInv'
  BY <1>16, IdleSafe DEF Restart, DescribedInv, Described, files
<1>17. CASE UNCHANGED vars
  BY <1>17 DEF vars, files, DescribedInv, Safe, Asset, Described
<1> QED BY <1>4, <1>5, <1>6, <1>8, <1>9, <1>10, <1>11, <1>12, <1>13, <1>14, <1>15, <1>16, <1>17
       DEF Next, Describe, Upload, Admitted

LEMMA DescribedInitially == Init => DescribedInv
<1> SUFFICES ASSUME Init PROVE DescribedInv
  OBVIOUS
<1>1. ASSUME NEW a \in Described PROVE image[description[a].file] # NoContent
  <2>1. \E n \in DOMAIN Legacy : AssetOf[n] = a
    BY <1>1 DEF Init, Described, LegacyDescription
  <2>2. PICK n \in DOMAIN Legacy : description[a] = [file |-> n, content |-> Legacy[n]]
    BY <1>1, <2>1 DEF Init, Described, LegacyDescription
  <2> QED BY <2>2, LibraryAssumption DEF Init, Original, LibraryAssumption
<1> QED BY <1>1 DEF Init, DescribedInv, Safe, Idle, NoEntries

LEMMA DescribedInvariant == Spec => []DescribedInv
BY DescribedInitially, DescribedInductive, TypeInvariant, PTL DEF Spec

(* Wherever an upload fails or the console stops, and however many uploads   *)
(* run at a time, the registry names only assets that have a description and *)
(* a picture.                                                                *)
THEOREM RegistryIsDescribed == Spec => []RegisteredIsDescribed
<1>1. DescribedInv => RegisteredIsDescribed
  BY DEF DescribedInv, RegisteredIsDescribed
<1> QED BY <1>1, DescribedInvariant, PTL

-----------------------------------------------------------------------------
(* Nothing is stored that the vision model did not describe: a ticket is of  *)
(* a content that it described, and an upload that was admitted showed one.  *)
RecognizedInv ==
  /\ \A t \in tickets : t.content \in recognized
  /\ \A u \in Uploaders : job[u].step \in StoreStep \cup {"admitted"} => job[u].content \in recognized
  /\ \A n \in Names : image[n] \in recognized \cup {Original(n)}

LEMMA RecognizedInductive ==
  ASSUME TypeInv, RecognizedInv, [Next]_vars, RequireVision
  PROVE  RecognizedInv'
<1>1. ASSUME NEW u \in Uploaders
      PROVE  job[u] \in Jobs /\ Named(job[u])
  BY DEF TypeInv, TypeOK, Jobs
<1>2. job \in [Uploaders -> Jobs]
  BY DEF TypeInv, TypeOK, Jobs
(* A step of u that describes nothing and stores nothing.                    *)
<1>3. ASSUME NEW u \in Uploaders, UNCHANGED <<image, recognized>>, tickets' \subseteq tickets,
             \A v \in Uploaders : v # u => job'[v] = job[v],
             job'[u].step \in StoreStep \cup {"admitted"} => job'[u].content \in recognized
      PROVE  RecognizedInv'
  BY <1>3 DEF RecognizedInv
<1>4. ASSUME NEW u \in Uploaders, Leaves(u), UNCHANGED <<image, recognized>>, tickets' = tickets
      PROVE  RecognizedInv'
  <2>1. job'[u].step = "idle"
    BY <1>4, LeavesMoves, IdleIsJob
  <2> QED BY <1>3, <1>4, <2>1, LeavesMoves DEF StoreStep
<1>5. ASSUME NEW u \in Uploaders, NEW step \in StoreStep, Goes(u, step),
             job[u].step \in StoreStep \cup {"admitted"},
             UNCHANGED <<image, recognized>>, tickets' = tickets
      PROVE  RecognizedInv'
  BY <1>3, <1>5, GoesMoves DEF RecognizedInv, Step
<1>6. ASSUME NEW u \in Uploaders, NEW c, NEW n, Describe(u, n, c) PROVE RecognizedInv'
  <2>1. job'[u].step = "asking" /\ \A v \in Uploaders : v # u => job'[v] = job[v]
    BY <1>2, <1>6 DEF Describe, Idle
  <2> QED BY <1>3, <1>6, <2>1 DEF Describe, StoreStep, files, history
<1>7. ASSUME NEW u \in Uploaders, NEW c \in Contents, NEW n, Upload(u, n, c) PROVE RecognizedInv'
  <2>1. job'[u].content = c /\ \A v \in Uploaders : v # u => job'[v] = job[v]
    BY <1>2, <1>7 DEF Upload, Admitted, Idle
  <2>2. c \in recognized
    BY <1>7 DEF Upload, HasTicket, RecognizedInv
  <2> QED BY <1>3, <1>7, <2>1, <2>2 DEF Upload, files, history
<1>8. ASSUME NEW u \in Uploaders, Transient(u) \/ Truncated(u) PROVE RecognizedInv'
  <2>1. job'[u].step = "asking" /\ \A v \in Uploaders : v # u => job'[v] = job[v]
    <3>1. CASE Transient(u)
      BY <1>1, <1>2, <3>1 DEF Transient, Jobs
    <3>2. CASE Truncated(u)
      BY <1>1, <1>2, <3>2 DEF Truncated, Jobs
    <3> QED BY <1>8, <3>1, <3>2
  <2> QED BY <1>3, <1>8, <2>1 DEF Transient, Truncated, StoreStep, files, history
<1>9. ASSUME NEW u \in Uploaders, Answered(u) PROVE RecognizedInv'
  <2> DEFINE c == job[u].content
  <2>1. /\ recognized' = recognized \cup {c}
        /\ tickets' = Unexpired(tickets) \cup {[content |-> c, fresh |-> TRUE]}
        /\ image' = image
    BY <1>9 DEF Answered, files, history
  <2>2. \A t \in tickets' : t.content \in recognized'
    BY <2>1 DEF Unexpired, RecognizedInv
  <2>3. /\ \A v \in Uploaders : v # u => job'[v] = job[v]
        /\ job'[u].step \in StoreStep \cup {"admitted"} => job'[u].content = c
    <3>1. CASE Leaves(u)
      BY <3>1, LeavesMoves, IdleIsJob DEF StoreStep
    <3>2. CASE job' = [job EXCEPT ![u] = Admitted(job[u].name, c)]
      BY <1>2, <3>2 DEF Admitted, Idle
    <3> QED BY <1>9, <3>1, <3>2 DEF Answered
  <2> QED BY <2>1, <2>2, <2>3 DEF RecognizedInv
<1>10. ASSUME NEW u \in Uploaders, Unanswered(u) PROVE RecognizedInv'
  <2>1. CASE Leaves(u)
    BY <1>4, <1>10, <2>1 DEF Unanswered, files, history
  <2>2. CASE ~RequireVision
    BY <2>2
  <2> QED BY <1>10, <2>1, <2>2 DEF Unanswered
<1>11. ASSUME NEW u \in Uploaders, CheckDescription(u) \/ Fail(u) PROVE RecognizedInv'
  BY <1>4, <1>5, <1>11 DEF CheckDescription, Fail, StoreStep, files, history
<1>11a. ASSUME NEW u \in Uploaders, CheckHash(u) PROVE RecognizedInv'
  <2>1. CASE Leaves(u)
    BY <1>4, <1>11a, <2>1 DEF CheckHash, files, history
  <2>2. CASE job' = [job EXCEPT ![u].before = Described, ![u].step = "writing"]
    <3>1. job'[u].content = job[u].content /\ \A v \in Uploaders : v # u => job'[v] = job[v]
      BY <1>11a, <2>2, LetInMoves DEF CheckHash
    <3>2. job[u].content \in recognized
      BY <1>11a DEF CheckHash, RecognizedInv
    <3> QED BY <1>3, <1>11a, <3>1, <3>2 DEF CheckHash, files, history
  <2> QED BY <1>11a, <2>1, <2>2 DEF CheckHash
<1>12. ASSUME NEW u \in Uploaders, WriteImage(u) PROVE RecognizedInv'
  <2>1. Goes(u, "checking") /\ job[u].content \in recognized /\ UNCHANGED <<recognized, tickets>>
        /\ image' = [image EXCEPT ![job[u].name] = job[u].content]
    BY <1>12 DEF WriteImage, RecognizedInv, StoreStep, history
  <2>2. \A n \in Names : image'[n] \in recognized \cup {Original(n)}
    BY <2>1 DEF RecognizedInv, TypeInv, TypeOK
  <2>3. \A v \in Uploaders : job'[v].step \in StoreStep \cup {"admitted"} => job'[v].content \in recognized
    BY <2>1, GoesMoves, StepFacts DEF RecognizedInv
  <2> QED BY <2>1, <2>2, <2>3 DEF RecognizedInv
<1>13. ASSUME NEW u \in Uploaders, WriteDescription(u) PROVE RecognizedInv'
  BY <1>5, <1>13 DEF WriteDescription, StoreStep, history
<1>13a. ASSUME NEW u \in Uploaders, WriteIndex(u) PROVE RecognizedInv'
  <2>1. job'[u].content = job[u].content /\ \A v \in Uploaders : v # u => job'[v] = job[v]
    BY <1>13a, IndexedMoves DEF WriteIndex
  <2>2. job[u].content \in recognized
    BY <1>13a DEF WriteIndex, StoreStep, RecognizedInv
  <2> QED BY <1>3, <1>13a, <2>1, <2>2 DEF WriteIndex, history
<1>14. ASSUME NEW u \in Uploaders, ReadFolder(u) PROVE RecognizedInv'
  <2>1. job'[u].content = job[u].content /\ \A v \in Uploaders : v # u => job'[v] = job[v]
    BY <1>1, <1>2, <1>14 DEF ReadFolder, Jobs
  <2>2. job[u].content \in recognized
    BY <1>14 DEF ReadFolder, StoreStep, RecognizedInv
  <2> QED BY <1>3, <1>14, <2>1, <2>2 DEF ReadFolder, files, history
<1>15. ASSUME NEW u \in Uploaders, LoadRegistry(u) PROVE RecognizedInv'
  <2>1. CASE Leaves(u)
    BY <1>4, <1>15, <2>1 DEF LoadRegistry, files, history
  <2>2. CASE job' = [job EXCEPT ![u].entries = registry, ![u].step = "registering"]
    <3>1. job'[u].content = job[u].content /\ \A v \in Uploaders : v # u => job'[v] = job[v]
      BY <1>1, <1>2, <2>2 DEF Jobs
    <3>2. job[u].content \in recognized
      BY <1>15 DEF LoadRegistry, StoreStep, RecognizedInv
    <3> QED BY <1>3, <1>15, <3>1, <3>2 DEF LoadRegistry, files, history
  <2> QED BY <1>15, <2>1, <2>2 DEF LoadRegistry
<1>16. ASSUME NEW u \in Uploaders, WriteRegistry(u) PROVE RecognizedInv'
  <2>1. UNCHANGED <<image, tickets, recognized>>
    BY <1>16 DEF WriteRegistry
  <2>2. ASSUME NEW v \in Uploaders, job'[v].step \in StoreStep \cup {"admitted"}
        PROVE  job'[v].content \in recognized
    <3>1. v # u
      BY <1>16, <2>2, RegisteredMoves, IdleIsJob DEF StoreStep
    <3>2. job'[v].step = job[v].step /\ job'[v].content = job[v].content
      BY <1>16, <3>1, RegisteredMoves
    <3> QED BY <2>2, <3>2 DEF RecognizedInv
  <2> QED BY <2>1, <2>2 DEF RecognizedInv
<1>17. ASSUME NEW t \in tickets, TicketExpires(t) \/ PresentExpired(t) PROVE RecognizedInv'
  <2>1. t \in [content : Contents, fresh : BOOLEAN] /\ t.content \in recognized
    BY DEF TypeInv, TypeOK, RecognizedInv
  <2>2. [t EXCEPT !.fresh = FALSE].content = t.content
    BY <2>1
  <2>3. \A s \in tickets' : s.content \in recognized
    BY <1>17, <2>1, <2>2 DEF TicketExpires, PresentExpired, RecognizedInv
  <2> QED BY <1>17, <2>3 DEF TicketExpires, PresentExpired, RecognizedInv, files, history
<1>18. ASSUME Restart PROVE RecognizedInv'
  <2>1. \A u \in Uploaders : job'[u].step = "idle"
    BY <1>18, IdleIsJob DEF Restart
  <2> QED BY <1>18, <2>1 DEF Restart, RecognizedInv, StoreStep, files, history
<1>19. CASE UNCHANGED vars
  BY <1>19 DEF vars, files, history, RecognizedInv
<1> QED BY <1>6, <1>7, <1>8, <1>9, <1>10, <1>11, <1>11a, <1>12, <1>13, <1>13a, <1>14, <1>15,
           <1>16, <1>17, <1>18, <1>19 DEF Next

(* While recognition is required, a file changes only to a content that the  *)
(* vision model described, for any number of pages, tickets and restarts.    *)
THEOREM OnlyRecognizedStored == Spec => []StoredWasRecognized
<1>1. CASE RequireVision
  <2>1. Init => RecognizedInv
    BY DEF Init, RecognizedInv, Idle, StoreStep
  <2>2. TypeInv /\ RecognizedInv /\ [Next]_vars => RecognizedInv'
    BY <1>1, RecognizedInductive
  <2>3. RecognizedInv => StoredWasRecognized
    BY DEF RecognizedInv, StoredWasRecognized
  <2> QED BY <2>1, <2>2, <2>3, TypeInvariant, PTL DEF Spec
<1>2. CASE ~RequireVision
  <2>1. StoredWasRecognized
    BY <1>2 DEF StoredWasRecognized
  <2> QED BY <2>1, PTL
<1> QED BY <1>1, <1>2

-----------------------------------------------------------------------------
(* What overlapping uploads do to the index and to the registry.  An entry    *)
(* that was not raced is in every table a thread has read and will write, and*)
(* a thread that was not outrun brings a content that nobody has registered. *)
Each(u) ==
  /\ job[u].before \subseteq Described
  /\ job[u].step = "indexing" => (job[u].before \cup {Asset(u)}) \ Hidden \subseteq job[u].seen
  /\ job[u].step = "registering" =>
       /\ job[u].entries[Asset(u)] = NoContent
       /\ \A a \in Assets \ raced : job[u].entries[a] = registry[a]
       /\ ~job[u].outrun => \A a \in Assets : job[u].entries[a] # job[u].content
  /\ Storing(u) /\ job[u].step # "registering" /\ ~job[u].outrun => ~Registered(job[u].content)
OverlapInv == RegistryKept /\ \A u \in Uploaders : Each(u)

(* A step of u that does not write the registry.                             *)
LEMMA ThreadStep ==
  ASSUME OverlapInv, NEW u \in Uploaders, UNCHANGED <<registry, added, raced>>,
         Described \subseteq Described', \A v \in Uploaders : v # u => job'[v] = job[v], Each(u)'
  PROVE  OverlapInv'
<1>1. RegistryKept'
  BY DEF OverlapInv, RegistryKept
<1>2. ASSUME NEW v \in Uploaders, v # u PROVE Each(v)'
  <2>1. job'[v] = job[v] /\ Each(v)
    BY <1>2 DEF OverlapInv
  <2> QED BY <2>1 DEF Each, Asset, Storing, Registered
<1> QED BY <1>1, <1>2 DEF OverlapInv

LEMMA NothingStored ==
  ASSUME OverlapInv, NEW u \in Uploaders, UNCHANGED files, UNCHANGED <<added, raced>>,
         \A v \in Uploaders : v # u => job'[v] = job[v],
         ~Storing(u)', job'[u].before \subseteq Described
  PROVE  OverlapInv'
<1>1. Described' = Described /\ UNCHANGED registry
  BY DEF files, Described
<1>2. Each(u)'
  BY <1>1 DEF Each, Storing, StoreStep
<1> QED BY <1>1, <1>2, ThreadStep

LEMMA LeavesKeeps ==
  ASSUME TypeInv, OverlapInv, NEW u \in Uploaders, UNCHANGED files, UNCHANGED <<added, raced>>,
         Leaves(u)
  PROVE  OverlapInv'
<1>1. job'[u] = Idle /\ \A v \in Uploaders : v # u => job'[v] = job[v]
  BY LeavesMoves
<1>2. ~Storing(u)' /\ job'[u].before \subseteq Described
  BY <1>1 DEF Idle, Storing, StoreStep
<1> QED BY <1>1, <1>2, NothingStored

(* From one step of storing to the next.                                     *)
LEMMA GoesKeeps ==
  ASSUME TypeInv, OverlapInv, NEW u \in Uploaders,
         NEW step \in {"checking", "describing", "listing"}, Goes(u, step), Storing(u),
         job[u].step # "registering", UNCHANGED <<registry, added, raced>>,
         Described \subseteq Described'
  PROVE  OverlapInv'
<1>1. step \in Step
  BY StepFacts
<1>2. /\ job'[u].step = step /\ job'[u].content = job[u].content
      /\ job'[u].before = job[u].before /\ job'[u].outrun = job[u].outrun
      /\ \A v \in Uploaders : v # u => job'[v] = job[v]
  BY <1>1, GoesMoves
<1>3. Each(u)
  BY DEF OverlapInv
<1>4. Each(u)'
  BY <1>2, <1>3 DEF Each, Registered, Storing, StoreStep
<1> QED BY <1>2, <1>4, ThreadStep

LEMMA RegistryWritten ==
  ASSUME TypeInv, OverlapInv, NEW u \in Uploaders, WriteRegistry(u)
  PROVE  OverlapInv'
<1>1. PICK a, c, e : a = Asset(u) /\ c = job[u].content /\ e = job[u].entries
  OBVIOUS
<1>2. /\ job[u].step = "registering" /\ a \in Assets /\ c \in Contents /\ c # NoContent
      /\ e \in [Assets -> Contents \cup {NoContent}]
  <2>1. job[u] \in Jobs /\ Named(job[u]) /\ job[u].step = "registering"
    BY DEF TypeInv, TypeOK, Jobs, WriteRegistry
  <2>2. job[u].name \in Names /\ job[u].content \in Contents
    BY <2>1 DEF Named, StoreStep
  <2> QED BY <1>1, <2>1, <2>2, LibraryAssumption DEF LibraryAssumption, Asset, Jobs
<1>3. /\ e[a] = NoContent /\ \A b \in Assets \ raced : e[b] = registry[b]
      /\ ~job[u].outrun => \A b \in Assets : e[b] # c
  BY <1>1, <1>2 DEF OverlapInv, Each
<1>4. /\ registry' = [e EXCEPT ![a] = c] /\ added' = [added EXCEPT ![a] = c]
      /\ UNCHANGED description
      /\ raced' = IF job[u].outrun \/ \E v \in Uploaders \ {u} : job[v].step = "registering"
                  THEN raced \cup {a} ELSE raced
  BY <1>1 DEF WriteRegistry, WithEntry
<1>5. /\ registry'[a] = c /\ added'[a] = c
      /\ \A b \in Assets \ {a} : registry'[b] = e[b] /\ added'[b] = added[b]
      /\ raced \subseteq raced' /\ Described' = Described
  BY <1>2, <1>4 DEF TypeInv, TypeOK, Described
<1>6. RegistryKept'
  <2>1. ASSUME NEW b \in Assets \ raced' PROVE registry'[b] = added'[b]
    BY <1>3, <1>5 DEF OverlapInv, RegistryKept
  <2>2. ASSUME NEW b \in Assets \ raced', NEW d \in Assets \ raced', registry'[b] = registry'[d], b # d
        PROVE  registry'[b] = NoContent
    <3>1. ASSUME NEW x \in Assets \ raced', x # a, a \notin raced' PROVE registry'[x] # c
      <4>1. ~job[u].outrun
        BY <1>4, <3>1
      <4> QED BY <1>3, <1>5, <3>1, <4>1
    <3>2. CASE b # a /\ d # a
      BY <1>3, <1>5, <2>2, <3>2 DEF OverlapInv, RegistryKept
    <3>3. CASE b = a \/ d = a
      BY <1>5, <2>2, <3>1, <3>3
    <3> QED BY <3>2, <3>3
  <2> QED BY <2>1, <2>2 DEF RegistryKept
<1>7. ASSUME NEW v \in Uploaders PROVE Each(v)'
  <2>1. CASE v = u
    <3>1. job'[v] = Idle
      BY <2>1, RegisteredMoves
    <3> QED BY <3>1 DEF Each, Storing, StoreStep, Idle
  <2>2. CASE v # u
    <3>1. /\ job'[v].step = job[v].step /\ job'[v].name = job[v].name
          /\ job'[v].content = job[v].content /\ job'[v].seen = job[v].seen
          /\ job'[v].entries = job[v].entries /\ job'[v].before = job[v].before
          /\ job'[v].outrun <=> job[v].outrun \/ (job[v].step \in StoreStep /\ job[v].step # "registering")
      BY <2>2, RegisteredMoves
    <3>2. Each(v) /\ Asset(v)' = Asset(v)
      BY <3>1 DEF OverlapInv, Asset
    <3>3. ASSUME job[v].step = "registering"
          PROVE  /\ job[v].entries[Asset(v)] = NoContent
                 /\ \A b \in Assets \ raced' : job[v].entries[b] = registry'[b]
                 /\ ~job[v].outrun => \A b \in Assets : job[v].entries[b] # job[v].content
      <4>1. a \in raced'
        BY <1>4, <2>2, <3>3
      <4>2. \A b \in Assets \ raced' : job[v].entries[b] = registry[b] /\ b # a /\ b \notin raced
        BY <1>5, <3>2, <3>3, <4>1 DEF Each
      <4> QED BY <1>3, <1>5, <3>2, <3>3, <4>2 DEF Each
    <3>4. ~(Storing(v)' /\ job'[v].step # "registering" /\ ~job'[v].outrun)
      BY <3>1 DEF Storing
    <3> QED BY <1>5, <3>1, <3>2, <3>3, <3>4 DEF Each
  <2> QED BY <2>1, <2>2
<1> QED BY <1>6, <1>7 DEF OverlapInv

LEMMA OverlapInductive == TypeInv /\ DescribedInv /\ OverlapInv /\ [Next]_vars => OverlapInv'
<1> SUFFICES ASSUME TypeInv, DescribedInv, OverlapInv, [Next]_vars PROVE OverlapInv'
  OBVIOUS
<1>1. /\ job \in [Uploaders -> Jobs]
      /\ \A u \in Uploaders : Named(job[u]) /\ job[u] \in Jobs /\ Each(u)
  BY DEF TypeInv, TypeOK, Jobs, OverlapInv
<1>2. ASSUME NEW u \in Uploaders, NEW c, NEW n, Describe(u, n, c) \/ Upload(u, n, c)
      PROVE  OverlapInv'
  <2>1. PICK step \in {"asking", "admitted"} :
          job' = [job EXCEPT ![u] = [Idle EXCEPT !.step = step, !.name = n, !.content = c]]
    BY <1>2 DEF Describe, Upload, Admitted
  <2>2. /\ job'[u].step = step /\ job'[u].before = {}
        /\ \A v \in Uploaders : v # u => job'[v] = job[v]
    BY <1>1, <2>1 DEF Idle
  <2>3. ~Storing(u)'
    BY <2>2 DEF Storing, StoreStep
  <2> QED BY <1>2, <2>2, <2>3, NothingStored DEF Describe, Upload, history
<1>3. ASSUME NEW u \in Uploaders, Transient(u) \/ Truncated(u) PROVE OverlapInv'
  <2>1. /\ job'[u].step = "asking" /\ job'[u].before = job[u].before
        /\ \A v \in Uploaders : v # u => job'[v] = job[v]
    <3>1. CASE Transient(u)
      BY <1>1, <3>1 DEF Transient, Jobs
    <3>2. CASE Truncated(u)
      BY <1>1, <3>2 DEF Truncated, Jobs
    <3> QED BY <1>3, <3>1, <3>2
  <2>2. ~Storing(u)' /\ job'[u].before \subseteq Described
    BY <1>1, <2>1 DEF Storing, StoreStep, Each
  <2> QED BY <1>3, <2>1, <2>2, NothingStored DEF Transient, Truncated, history
<1>4. ASSUME NEW u \in Uploaders, Answered(u) \/ Unanswered(u) PROVE OverlapInv'
  <2>1. UNCHANGED files /\ UNCHANGED <<added, raced>>
    BY <1>4 DEF Answered, Unanswered, history
  <2>2. CASE Leaves(u)
    BY <2>1, <2>2, LeavesKeeps
  <2>3. CASE job' = [job EXCEPT ![u] = Admitted(job[u].name, job[u].content)]
    <3>1. /\ job'[u].step = "admitted" /\ job'[u].before = {}
          /\ \A v \in Uploaders : v # u => job'[v] = job[v]
      BY <1>1, <2>3 DEF Admitted, Idle
    <3>2. ~Storing(u)'
      BY <3>1 DEF Storing, StoreStep
    <3> QED BY <2>1, <3>1, <3>2, NothingStored
  <2> QED BY <1>4, <2>2, <2>3 DEF Answered, Unanswered
<1>5. ASSUME NEW u \in Uploaders, CheckHash(u) PROVE OverlapInv'
  <2>1. UNCHANGED files /\ UNCHANGED <<added, raced>> /\ job[u].step = "admitted"
    BY <1>5 DEF CheckHash, history
  <2>2. CASE Leaves(u)
    BY <2>1, <2>2, LeavesKeeps
  <2>3. CASE /\ ~Registered(job[u].content)
             /\ job' = [job EXCEPT ![u].before = Described, ![u].step = "writing"]
    <3>1. /\ job'[u].step = "writing" /\ job'[u].before = Described
          /\ job'[u].content = job[u].content
          /\ \A v \in Uploaders : v # u => job'[v] = job[v]
      BY <2>1, <2>3, LetInMoves
    <3>2. Described' = Described /\ UNCHANGED registry
      BY <2>1 DEF files, Described
    <3>3. Each(u)'
      BY <2>3, <3>1, <3>2 DEF Each, Registered
    <3> QED BY <2>1, <3>1, <3>2, <3>3, ThreadStep
  <2> QED BY <1>5, <2>2, <2>3 DEF CheckHash
<1>6. ASSUME NEW u \in Uploaders, WriteImage(u) PROVE OverlapInv'
  BY <1>6, GoesKeeps DEF WriteImage, Storing, StoreStep, Described, history
<1>7. ASSUME NEW u \in Uploaders, CheckDescription(u) PROVE OverlapInv'
  <2>1. CASE Leaves(u)
    BY <1>7, <2>1, LeavesKeeps DEF CheckDescription, history
  <2>2. CASE Goes(u, "describing")
    BY <1>7, <2>2, GoesKeeps DEF CheckDescription, Storing, StoreStep, Described, files, history
  <2> QED BY <1>7, <2>1, <2>2 DEF CheckDescription
<1>8. ASSUME NEW u \in Uploaders, WriteDescription(u) PROVE OverlapInv'
  <2>1. job[u].name \in Names /\ job[u].step = "describing"
    BY <1>1, <1>8 DEF WriteDescription, Named, StoreStep
  <2>2. /\ Asset(u) \in Assets
        /\ description' = [description EXCEPT ![Asset(u)] =
                             [file |-> job[u].name, content |-> job[u].content]]
    BY <1>8, <2>1, LibraryAssumption DEF WriteDescription, Asset, LibraryAssumption
  <2>3. [file |-> job[u].name, content |-> job[u].content] # Undescribed
    BY <2>1, LibraryAssumption DEF Undescribed, LibraryAssumption
  <2>4. Described \subseteq Described'
    BY <2>2, <2>3 DEF Described, TypeInv, TypeOK
  <2> QED BY <1>8, <2>1, <2>4, GoesKeeps DEF WriteDescription, Storing, StoreStep, history
<1>9. ASSUME NEW u \in Uploaders, ReadFolder(u) PROVE OverlapInv'
  <2>1. job[u].step = "listing" /\ UNCHANGED files /\ UNCHANGED <<added, raced>>
    BY <1>9 DEF ReadFolder, history
  <2> DEFINE j == [job[u] EXCEPT !.seen = Listed(u), !.step = "indexing"]
  <2>2. job' = [job EXCEPT ![u] = j]
    BY <1>1, <1>9 DEF ReadFolder, Jobs
  <2>3. /\ j.step = "indexing" /\ j.seen = Listed(u) /\ j.content = job[u].content
        /\ j.before = job[u].before /\ j.outrun = job[u].outrun /\ j.name = job[u].name
    BY <1>1 DEF Jobs
  <2> HIDE DEF j
  <2>4. job'[u] = j /\ \A v \in Uploaders : v # u => job'[v] = job[v]
    BY <1>1, <2>2
  <2>5. Described' = Described /\ UNCHANGED registry
    BY <2>1 DEF files, Described
  <2>6. Asset(u) \in Described /\ Asset(u)' = Asset(u)
    BY <2>1, <2>3, <2>4 DEF DescribedInv, Safe, Asset
  <2>7. job[u].before \subseteq Described /\ (~job[u].outrun => ~Registered(job[u].content))
    BY <1>1, <2>1 DEF Each, Storing, StoreStep
  <2>8. Each(u)'
    BY <2>3, <2>4, <2>5, <2>6, <2>7 DEF Each, Listed, Registered
  <2> QED BY <2>1, <2>4, <2>5, <2>8, ThreadStep
<1>10. ASSUME NEW u \in Uploaders, WriteIndex(u) PROVE OverlapInv'
  <2>1. /\ job[u].step = "indexing" /\ Described' = Described
        /\ UNCHANGED <<registry, added, raced>>
    BY <1>10 DEF WriteIndex, Described, history
  <2>2. /\ job'[u].step = "loading" /\ job'[u].content = job[u].content
        /\ job'[u].before = {} /\ job'[u].outrun = job[u].outrun
        /\ \A v \in Uploaders : v # u => job'[v] = job[v]
    BY <1>10, IndexedMoves DEF WriteIndex
  <2>3. ~job[u].outrun => ~Registered(job[u].content)
    BY <1>1, <2>1 DEF Each, Storing, StoreStep
  <2>4. Each(u)'
    BY <2>1, <2>2, <2>3 DEF Each, Registered
  <2> QED BY <2>1, <2>2, <2>4, ThreadStep
<1>11. ASSUME NEW u \in Uploaders, LoadRegistry(u) PROVE OverlapInv'
  <2>1. job[u].step = "loading" /\ UNCHANGED files /\ UNCHANGED <<added, raced>>
    BY <1>11 DEF LoadRegistry, history
  <2>2. CASE Leaves(u)
    BY <2>1, <2>2, LeavesKeeps
  <2>3. CASE /\ registry[Asset(u)] = NoContent
             /\ job' = [job EXCEPT ![u].entries = registry, ![u].step = "registering"]
    <3>1. /\ job'[u].step = "registering" /\ job'[u].entries = registry
          /\ job'[u].content = job[u].content /\ job'[u].name = job[u].name
          /\ job'[u].before = job[u].before /\ job'[u].outrun = job[u].outrun
          /\ \A v \in Uploaders : v # u => job'[v] = job[v]
      BY <1>1, <2>3 DEF Jobs
    <3>2. Described' = Described /\ UNCHANGED registry /\ Asset(u)' = Asset(u)
      BY <2>1, <3>1 DEF files, Described, Asset
    <3>3. job[u].before \subseteq Described /\ (~job[u].outrun => ~Registered(job[u].content))
      BY <1>1, <2>1 DEF Each, Storing, StoreStep
    <3>4. Each(u)'
      BY <2>1, <2>3, <3>1, <3>2, <3>3 DEF Each, Registered
    <3> QED BY <2>1, <3>1, <3>2, <3>4, ThreadStep
  <2> QED BY <1>11, <2>2, <2>3 DEF LoadRegistry
<1>12. ASSUME NEW u \in Uploaders, Fail(u) PROVE OverlapInv'
  BY <1>12, LeavesKeeps DEF Fail, history
<1>13. ASSUME NEW t \in tickets, TicketExpires(t) \/ PresentExpired(t) PROVE OverlapInv'
  BY <1>13 DEF TicketExpires, PresentExpired, OverlapInv, RegistryKept, Each, Storing, Registered,
               Asset, Described, files, history
<1>14. ASSUME Restart PROVE OverlapInv'
  <2>1. \A u \in Uploaders : job'[u] = Idle
    BY <1>14 DEF Restart
  <2>2. \A u \in Uploaders : Each(u)'
    BY <2>1 DEF Each, Storing, StoreStep, Idle
  <2> QED BY <1>14, <2>2 DEF Restart, OverlapInv, RegistryKept, files, history
<1>15. CASE UNCHANGED vars
  BY <1>15 DEF vars, files, history, OverlapInv, RegistryKept, Each, Storing, Registered, Asset,
               Described
<1> QED BY <1>2, <1>3, <1>4, <1>5, <1>6, <1>7, <1>8, <1>9, <1>10, <1>11, <1>12, <1>13, <1>14, <1>15,
           RegistryWritten DEF Next

(* Only the thread itself moves its job from one step of storing to another. *)
LEMMA WhoIndexes ==
  ASSUME TypeInv, [Next]_vars, NEW u \in Uploaders, job[u].step = "indexing", job'[u].step = "loading"
  PROVE  WriteIndex(u)
<1>1. ASSUME NEW v \in Uploaders, v # u,
             \/ \E c \in Contents : \/ \E n \in Names \cup {NoName} : Describe(v, n, c)
                                    \/ \E n \in Names : Upload(v, n, c)
             \/ Transient(v) \/ Truncated(v) \/ Answered(v) \/ Unanswered(v) \/ CheckHash(v)
             \/ WriteImage(v) \/ CheckDescription(v) \/ WriteDescription(v) \/ ReadFolder(v)
             \/ WriteIndex(v) \/ LoadRegistry(v) \/ Fail(v)
      PROVE  job'[u] = job[u]
  BY <1>1 DEF TypeInv, TypeOK, Describe, Upload, Transient, Truncated, Answered, Unanswered,
              CheckHash, WriteImage, CheckDescription, WriteDescription, ReadFolder, WriteIndex,
              LoadRegistry, Fail, Leaves, Goes
<1>2. ASSUME NEW v \in Uploaders, v # u, WriteRegistry(v) PROVE job'[u].step = job[u].step
  BY <1>2, RegisteredMoves
<1>3. /\ \A c \in Contents : /\ \A n \in Names \cup {NoName} : ~Describe(u, n, c)
                           /\ \A n \in Names : ~Upload(u, n, c)
      /\ ~Transient(u) /\ ~Truncated(u) /\ ~Answered(u) /\ ~Unanswered(u) /\ ~CheckHash(u)
      /\ ~WriteImage(u) /\ ~CheckDescription(u) /\ ~WriteDescription(u) /\ ~ReadFolder(u)
      /\ ~LoadRegistry(u) /\ ~WriteRegistry(u)
  <2>1. \A c \in Contents : /\ \A n \in Names \cup {NoName} : ~Describe(u, n, c)
                          /\ \A n \in Names : ~Upload(u, n, c)
    <3>1. job[u] # Idle
      BY DEF Idle
    <3> QED BY <3>1 DEF Describe, Upload
  <2>2. ~Transient(u) /\ ~Truncated(u)
    BY DEF Transient, Truncated
  <2>3. ~Answered(u) /\ ~Unanswered(u)
    BY DEF Answered, Unanswered
  <2>4. ~CheckHash(u) /\ ~WriteImage(u)
    BY DEF CheckHash, WriteImage
  <2>5. ~CheckDescription(u) /\ ~WriteDescription(u)
    BY DEF CheckDescription, WriteDescription
  <2>6. ~ReadFolder(u) /\ ~LoadRegistry(u)
    BY DEF ReadFolder, LoadRegistry
  <2>7. ~WriteRegistry(u)
    BY DEF WriteRegistry
  <2> QED BY <2>1, <2>2, <2>3, <2>4, <2>5, <2>6, <2>7
<1>4. ~Fail(u)
  BY LeavesMoves, IdleIsJob DEF Fail
<1>5. \A t \in tickets : ~(TicketExpires(t) \/ PresentExpired(t))
  BY DEF TicketExpires, PresentExpired
<1>6. ~Restart
  BY IdleIsJob DEF Restart
<1>7. ~UNCHANGED vars
  BY DEF vars
<1> QED BY <1>1, <1>2, <1>3, <1>4, <1>5, <1>6, <1>7 DEF Next

LEMMA OverlapInvariant == Spec => []OverlapInv
<1>1. Init => OverlapInv
  BY DEF Init, OverlapInv, RegistryKept, Each, Storing, StoreStep, Idle, NoEntries
<1> QED BY <1>1, OverlapInductive, TypeInvariant, DescribedInvariant, PTL DEF Spec

(* Whatever uploads overlap, fail or are interrupted: one that has written    *)
(* the index leaves everything in it that was described when it was let in.  *)
THEOREM IndexIsComplete == Spec => IndexComplete
<1> DEFINE Lists ==
      \A u \in Uploaders : job[u].step = "indexing" /\ job'[u].step = "loading" =>
        (job[u].before \cup {Asset(u)}) \ Hidden \subseteq index'
<1>1. ASSUME TypeInv, OverlapInv, [Next]_vars PROVE Lists
  <2> SUFFICES ASSUME NEW u \in Uploaders, job[u].step = "indexing", job'[u].step = "loading"
               PROVE  (job[u].before \cup {Asset(u)}) \ Hidden \subseteq index'
    OBVIOUS
  <2>1. WriteIndex(u) => index' = job[u].seen
    BY DEF WriteIndex
  <2>2. WriteIndex(u)
    BY <1>1, WhoIndexes
  <2> QED BY <2>1, <2>2, <1>1 DEF OverlapInv, Each
<1>2. TypeInv /\ OverlapInv /\ [Next]_vars => [Lists]_vars
  BY <1>1
<1> QED BY <1>2, TypeInvariant, OverlapInvariant, PTL DEF Spec, IndexComplete

(* The registry loses an entry, or takes a content twice, only when threads  *)
(* register next to each other, for any number of them.                      *)
THEOREM RegistryIsKept == Spec => []RegistryKept
<1>1. OverlapInv => RegistryKept
  BY DEF OverlapInv
<1> QED BY <1>1, OverlapInvariant, PTL
=============================================================================
