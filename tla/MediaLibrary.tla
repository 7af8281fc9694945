---------------------------- MODULE MediaLibrary ----------------------------
(***************************************************************************)
(* How a picture gets into the media library: the console describes it     *)
(* with the vision model, hands out a ticket, and stores the upload that   *)
(* presents one.  An upload writes four files one after the other, the     *)
(* picture, its description, the index of its folder and the registry, and *)
(* locks none of them; the console has a thread per request.               *)
(*                                                                         *)
(* A content stands for a file's bytes and for their hash.  All names are  *)
(* of one folder.  A description belongs to the stem of a file name, so    *)
(* that two names may share one; it is the asset of the catalog.  A name   *)
(* that begins with 00_ is accepted like any other, but its description is *)
(* taken for an index: these are the Hidden ones, of which the name of the *)
(* folder's own index is left out.  Requests refused for their format,     *)
(* size or category change nothing.  A file is written whole or not at all.*)
(***************************************************************************)
CONSTANTS
  Names,           \* file names
  Assets,          \* descriptions
  AssetOf,         \* the description of each file name
  Hidden,          \* descriptions whose name begins with 00_
  Contents,
  Uploaders,       \* threads of the console
  NoName, NoContent,
  Legacy,          \* pictures described before the registry existed: name -> content
  RequireVision    \* PULSE_MEDIA_REQUIRE_VISION

ASSUME LibraryAssumption ==
  /\ NoName \notin Names /\ NoContent \notin Contents
  /\ AssetOf \in [Names -> Assets]
  /\ Hidden \subseteq Assets
  /\ DOMAIN Legacy \subseteq Names
  /\ \A n \in DOMAIN Legacy : Legacy[n] \in Contents
  /\ \A m, n \in DOMAIN Legacy : AssetOf[m] = AssetOf[n] => m = n
  /\ RequireVision \in BOOLEAN

VARIABLES
  image,        \* what each file holds
  description,  \* file name in each description's header, and the content it describes
  index,        \* assets the folder's index lists
  registry,     \* content hash of each registered asset
  tickets,      \* vision tickets, in memory
  job,          \* what each thread is at
  recognized,   \* contents the vision model has described (history)
  added,        \* what the registry was ever told of each asset (history)
  raced         \* assets registered next to another thread's registering (history)

files == <<image, description, index, registry>>
history == <<recognized, added, raced>>
vars == <<files, tickets, job, history>>

Undescribed == [file |-> NoName, content |-> NoContent]
NoEntries == [a \in Assets |-> NoContent]

(* History: before is what was described when an upload was let in, outrun   *)
(* whether another one has written the registry since, and before it reads it.*)
Idle == [step |-> "idle", name |-> NoName, content |-> NoContent, retried |-> FALSE,
         widened |-> FALSE, seen |-> {}, entries |-> NoEntries, before |-> {}, outrun |-> FALSE]

StoreStep == {"writing", "checking", "describing", "listing", "indexing", "loading", "registering"}
Step == {"idle", "asking", "admitted"} \cup StoreStep

TypeOK ==
  /\ image \in [Names -> Contents \cup {NoContent}]
  /\ description \in [Assets -> [file : Names, content : Contents] \cup {Undescribed}]
  /\ index \subseteq Assets
  /\ registry \in [Assets -> Contents \cup {NoContent}]
  /\ tickets \subseteq [content : Contents, fresh : BOOLEAN]
  /\ job \in [Uploaders ->
       [step : Step, name : Names \cup {NoName}, content : Contents \cup {NoContent},
        retried : BOOLEAN, widened : BOOLEAN, seen : SUBSET Assets,
        entries : [Assets -> Contents \cup {NoContent}], before : SUBSET Assets,
        outrun : BOOLEAN]]
  /\ recognized \subseteq Contents
  /\ added \in [Assets -> Contents \cup {NoContent}]
  /\ raced \subseteq Assets

Original(n) == IF n \in DOMAIN Legacy THEN Legacy[n] ELSE NoContent
LegacyDescription(a) ==
  IF \E n \in DOMAIN Legacy : AssetOf[n] = a
  THEN LET n == CHOOSE n \in DOMAIN Legacy : AssetOf[n] = a
       IN  [file |-> n, content |-> Legacy[n]]
  ELSE Undescribed

Described == {a \in Assets : description[a] # Undescribed}

Init ==
  /\ image = [n \in Names |-> Original(n)]
  /\ description = [a \in Assets |-> LegacyDescription(a)]
  /\ index = Described \ Hidden
  /\ registry = NoEntries
  /\ tickets = {}
  /\ job = [u \in Uploaders |-> Idle]
  /\ recognized = {}
  /\ added = NoEntries
  /\ raced = {}

-----------------------------------------------------------------------------
(* Recognition. *)

Goes(u, step) == job' = [job EXCEPT ![u].step = step]
Leaves(u) == job' = [job EXCEPT ![u] = Idle]
Admitted(n, c) == [Idle EXCEPT !.step = "admitted", !.name = n, !.content = c]

Registered(c) == \E a \in Assets : registry[a] = c

(* find_duplicate: the registry, then every file of the media folder, those  *)
(* without a description included.                                           *)
Known(c) == Registered(c) \/ \E n \in Names : image[n] = c

(* describe, for the page's preview (NoName) or inside an upload that has no *)
(* description: no model is asked about a content that is there.             *)
Describe(u, n, c) ==
  /\ job[u] = Idle
  /\ ~Known(c)
  /\ job' = [job EXCEPT ![u] = [Idle EXCEPT !.step = "asking", !.name = n, !.content = c]]
  /\ UNCHANGED <<files, tickets, history>>

(* post_json tries once more after a transport error or a busy server. *)
Transient(u) ==
  /\ job[u].step = "asking"
  /\ ~job[u].retried
  /\ job' = [job EXCEPT ![u].retried = TRUE]
  /\ UNCHANGED <<files, tickets, history>>

(* The answer was cut off at the token limit: one more request, with its own *)
(* retry, and a wider limit.                                                 *)
Truncated(u) ==
  /\ job[u].step = "asking"
  /\ ~job[u].widened
  /\ job' = [job EXCEPT ![u].retried = FALSE, ![u].widened = TRUE]
  /\ UNCHANGED <<files, tickets, history>>

(* _purge_expired_tickets *)
Unexpired(ts) == {t \in ts : t.fresh}

(* A complete answer earns the content a ticket; the expired ones are purged.*)
Answered(u) ==
  /\ job[u].step = "asking"
  /\ recognized' = recognized \cup {job[u].content}
  /\ tickets' = Unexpired(tickets) \cup {[content |-> job[u].content, fresh |-> TRUE]}
  /\ IF job[u].name = NoName THEN Leaves(u)
     ELSE job' = [job EXCEPT ![u] = Admitted(job[u].name, job[u].content)]
  /\ UNCHANGED <<files, added, raced>>

(* Any other end leaves the heuristic description, which earns no ticket and *)
(* lets an upload pass only when recognition is not required.                *)
Unanswered(u) ==
  /\ job[u].step = "asking"
  /\ IF job[u].name = NoName \/ RequireVision THEN Leaves(u)
     ELSE job' = [job EXCEPT ![u] = Admitted(job[u].name, job[u].content)]
  /\ UNCHANGED <<files, tickets, history>>

TicketExpires(t) ==
  /\ t.fresh
  /\ tickets' = (tickets \ {t}) \cup {[t EXCEPT !.fresh = FALSE]}
  /\ UNCHANGED <<files, job, history>>

(* An upload that presents an expired ticket is refused, and the ticket goes.*)
PresentExpired(t) ==
  /\ ~t.fresh
  /\ tickets' = tickets \ {t}
  /\ UNCHANGED <<files, job, history>>

-----------------------------------------------------------------------------
(* Storing. *)

(* Mutant: any ticket will do.                                               *)
AnyTicket(c) == \E t \in tickets : t.fresh

(* _assert_vision_ticket: it does not use the ticket up.                     *)
HasTicket(c) == \E t \in tickets : t.fresh /\ t.content = c

(* upload of a picture with a description of the page. *)
Upload(u, n, c) ==
  /\ job[u] = Idle
  /\ RequireVision => HasTicket(c)
  /\ job' = [job EXCEPT ![u] = Admitted(n, c)]
  /\ UNCHANGED <<files, tickets, history>>

Storing(u) == job[u].step \in StoreStep
Asset(u) == AssetOf[job[u].name]

(* find_by_hash *)
CheckHash(u) ==
  /\ job[u].step = "admitted"
  /\ IF Registered(job[u].content)
     THEN Leaves(u)
     ELSE job' = [job EXCEPT ![u].before = Described, ![u].step = "writing"]
  /\ UNCHANGED <<files, tickets, history>>

WriteImage(u) ==
  /\ job[u].step = "writing"
  /\ image' = [image EXCEPT ![job[u].name] = job[u].content]
  /\ Goes(u, "checking")
  /\ UNCHANGED <<description, index, registry, tickets, history>>

(* Mutant: the asset is registered before it is described.                   *)
CheckThenRegister(u) ==
  /\ job[u].step = "checking"
  /\ IF Asset(u) \in Described THEN Leaves(u) ELSE Goes(u, "loading")
  /\ UNCHANGED <<files, tickets, history>>

(* The description's name is taken: the upload is refused, its picture stays.*)
CheckDescription(u) ==
  /\ job[u].step = "checking"
  /\ IF Asset(u) \in Described THEN Leaves(u) ELSE Goes(u, "describing")
  /\ UNCHANGED <<files, tickets, history>>

WriteDescription(u) ==
  /\ job[u].step = "describing"
  /\ description' = [description EXCEPT ![Asset(u)] =
                       [file |-> job[u].name, content |-> job[u].content]]
  /\ Goes(u, "listing")
  /\ UNCHANGED <<image, index, registry, tickets, history>>

(* Mutant: the index is extended and not rebuilt.                            *)
ListedBefore(u) == index \cup {Asset(u)}
Listed(u) == Described \ Hidden

(* rebuild_index reads the folder, then writes the index. *)
ReadFolder(u) ==
  /\ job[u].step = "listing"
  /\ job' = [job EXCEPT ![u].seen = Listed(u), ![u].step = "indexing"]
  /\ UNCHANGED <<files, tickets, history>>

WriteIndex(u) ==
  /\ job[u].step = "indexing"
  /\ index' = job[u].seen
  /\ job' = [job EXCEPT ![u].seen = {}, ![u].before = {}, ![u].step = "loading"]
  /\ UNCHANGED <<image, description, registry, tickets, history>>

(* registry.add reads the whole table, then replaces the file. *)
LoadRegistry(u) ==
  /\ job[u].step = "loading"
  /\ IF registry[Asset(u)] # NoContent
     THEN Leaves(u)
     ELSE job' = [job EXCEPT ![u].entries = registry, ![u].step = "registering"]
  /\ UNCHANGED <<files, tickets, history>>

(* Mutants: the table is written without the entries that were read; the     *)
(* name is registered and not the hash.                                      *)
WithEntryOnly(u) == [NoEntries EXCEPT ![Asset(u)] = job[u].content]
WithName(u) == [job[u].entries EXCEPT ![Asset(u)] = job[u].name]
WithEntry(u) == [job[u].entries EXCEPT ![Asset(u)] = job[u].content]

WriteRegistry(u) ==
  /\ job[u].step = "registering"
  /\ registry' = WithEntry(u)
  /\ job' = [v \in Uploaders |->
       CASE v = u -> Idle
         [] v # u /\ Storing(v) /\ job[v].step # "registering" -> [job[v] EXCEPT !.outrun = TRUE]
         [] OTHER -> job[v]]
  /\ added' = [added EXCEPT ![Asset(u)] = job[u].content]
  /\ raced' = IF job[u].outrun \/ \E v \in Uploaders \ {u} : job[v].step = "registering"
              THEN raced \cup {Asset(u)} ELSE raced
  /\ UNCHANGED <<image, description, index, tickets, recognized>>

(* A file cannot be written: what was written before it stays. *)
Fail(u) ==
  /\ Storing(u)
  /\ Leaves(u)
  /\ UNCHANGED <<files, tickets, history>>

(* The console is closed, whatever its threads are at, and started again. *)
Restart ==
  /\ job' = [u \in Uploaders |-> Idle]
  /\ tickets' = {}
  /\ UNCHANGED <<files, history>>

Next ==
  \/ \E u \in Uploaders :
        \/ \E c \in Contents :
              \/ \E n \in Names \cup {NoName} : Describe(u, n, c)
              \/ \E n \in Names : Upload(u, n, c)
        \/ Transient(u)
        \/ Truncated(u)
        \/ Answered(u)
        \/ Unanswered(u)
        \/ CheckHash(u)
        \/ WriteImage(u)
        \/ CheckDescription(u)
        \/ WriteDescription(u)
        \/ ReadFolder(u)
        \/ WriteIndex(u)
        \/ LoadRegistry(u)
        \/ WriteRegistry(u)
        \/ Fail(u)
  \/ \E t \in tickets : TicketExpires(t) \/ PresentExpired(t)
  \/ Restart

Spec == Init /\ [][Next]_vars

-----------------------------------------------------------------------------
(* Every entry of the registry is of a described asset whose picture exists, *)
(* wherever an upload fails or the console stops, and however many uploads   *)
(* run at a time: the registry comes last.                                   *)
RegisteredIsDescribed ==
  \A a \in Assets : registry[a] # NoContent =>
    a \in Described /\ image[description[a].file] # NoContent

(* While recognition is required, no file's content changes but to one that  *)
(* the vision model described, whatever tickets expire or are used again.    *)
StoredWasRecognized ==
  RequireVision => \A n \in Names : image[n] \in recognized \cup {Original(n)}

(* An entry is lost, and a content gets a second one, only by registering     *)
(* next to another thread: every asset that nobody registered between another*)
(* thread's reading and writing of the table, or after a table that was      *)
(* written behind its back, is registered with what it was, and its content  *)
(* but once.  Other overlaps, failures and restarts do no harm.              *)
RegistryKept ==
  \A a \in Assets \ raced :
    /\ registry[a] = added[a]
    /\ \A b \in Assets \ raced : registry[a] = registry[b] /\ a # b => registry[a] = NoContent

(* When an upload has written the index, it lists, but for the hidden ones,  *)
(* its own description and all that were there when it was let in: those of  *)
(* uploads that failed before they came to the index too, and those that     *)
(* overlapping uploads have dropped from it.                                 *)
IndexComplete ==
  [][\A u \in Uploaders : job[u].step = "indexing" /\ job'[u].step = "loading" =>
       (job[u].before \cup {Asset(u)}) \ Hidden \subseteq index']_vars

-----------------------------------------------------------------------------
(* What a comment of the code says and the code does not do.                 *)

(* Once no upload is under way, every description is that of its picture: a  *)
(* name that is taken is refused because overwriting what it has would be    *)
(* "an irreversible loss of data" (ingest.py:126).                           *)
DescriptionMatchesImage ==
  (\A u \in Uploaders : job[u] = Idle) =>
    \A a \in Described : image[description[a].file] = description[a].content
=============================================================================
