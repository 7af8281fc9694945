# A verification model of Pulse

Pulse publishes social-media content for a B2B company: content variants are
generated, reviewed, scheduled, handed to a publish gateway and put on YouTube or
LinkedIn. This directory holds TLA+ modules translated from `src/pulse`, TLC
configurations that check them on small instances, and theorems about them that
TLAPS checks for all values of the constants. `PROJECT.json` lists every run, the
source lines behind each definition, a mutant of the code for each property, the
places where the code departs from its documents, and the hazards the properties
are for.

    tlc -config MCScheduler_safety.cfg MCScheduler    # check one instance
    tlapm SchedulerProofs.tla                         # check the proofs of a module

## The system

Statuses shared by all parts are enumerations in `shared/enums.py`.

**Scheduler** (`services/scheduler`). State: schedule rows (status, task id), job
rows (status, schedule, task id, attempts, finalize deadline) unique by
`unified_post_id`, an index of jobs by schedule, the breaker's set of suspended
accounts, and the task queue. Operations: create, enqueue, reschedule, publish now,
cancel, retry a job; the two Celery tasks `publish_dispatch` (mark the job
dispatching, call the gateway, apply the result) and `publish_finalize` (poll the
gateway, settle or poll again); suspension of an account. Hard: Celery delivers at
least once, operators act while a worker is inside the gateway, rows and queue are
separate stores, and several messages of one job may be in the queue. Correct when
a schedule and its job agree, a job has one publisher at a time, retries end, what
waits has a message, settled rows stay, everything enqueued settles.

**Account status** (`services/identity/accounts.py`). A small state machine whose
changes are announced to listeners; the scheduler's breaker is meant to be one.

**Publish gateway** (`services/publish`). State: one publish record per
`unified_post_id` (status, platform id, deadline, last result); each adapter's map of
published ids. Operations: `dispatch` and `finalize`, coroutines that await the
platform. Hard: redelivered and concurrent calls, an answer that is lost after the
post was made, a crash between claim and save, two polls of one key, a restart that
empties the adapters' maps. Correct when a key is posted at most once, a verdict
stays, and nothing that was merely accepted counts as published.

**Identity** (`services/identity`). Accounts, their sealed credentials, token refresh
through a provider, key rotation and revocation, an audit trail. Hard: every operation
reads a row and puts it back later, and a refresh waits for its provider between, while the
credential may be revoked or replaced; listeners that raise. Correct when nothing that begins
after a revocation undoes it, and every stored envelope can be opened.

**Quota and rate limits** (`services/scheduler/quota.py`, `ratelimit.py`). Debits per
platform, account and day, a token bucket, a cooldown between posts, asked by
`enqueue_schedule` in this order. Hard: tables that every thread reads and later writes
without a lock, charges that are made before another check refuses, moments of requests that
come in another order. Correct when a window is overdrawn, a debit lost, the rate exceeded or
the cooldown set back by no more than the requests that overlapped account for.

**Content generation** (`services/content`). Briefs and their variants; a model
router with a token budget per brief; the hashtags and the contract of a generated post.
Hard: every use of a model is charged, also those that fail afterwards; a brief that is
submitted again; a count of hashtags that is compared after one was added. Correct when
charges stay within the budget and what is built meets the policy of its platform.

**Review** (`services/compliance`, `api/approvals.py`, `api/app.py`). Compliance
findings and waivers of a variant, its approval log, and the schedule endpoint that
requires the approval. Hard: a decision that overlaps a check, a waiver or another
decision, each of which saves a status and logs it later; an approval of a text that was never checked. Correct when only approved
variants are scheduled, a block is passed by administrators only, and what is flagged
is looked at on its own.

**Media library** (`services/media`, `console/media_console.py`). State: pictures,
their descriptions, an index per folder and a registry file of content hashes, all on
disk; tickets of the vision model, in memory. An upload that presents a ticket writes the
four files one after the other. Hard: whole-file writes without locks on a threading
server, uploads that end halfway, tickets that expire or are used again. Correct when
nothing is stored that the model has not seen, and the registry names only what is there.

**Recall and export** (`services/media/platforms.py`, `policy.py`, `ledger.py`, `exporter.py`,
the console). State: a usage ledger with the day of each use, the page each thread shows, and
export folders. A recall fills the slots of a platform from pools that widen in four levels
and leaves out what was used within the cooldown; an export copies the page's pictures and
charges the ledger. Hard: ledger reads and writes are separate calls, slots compete
for pictures, files may be missing at the export. Correct when what is chosen has rested,
slots share nothing, and only what was delivered is charged.

The parts meet as follows. The API creates and enqueues schedules for approved
variants; the scheduler submits messages to the queue; workers consume them and call
the gateway; the gateway calls an adapter; what it returns changes the job and
through it the schedule. Identity's status changes are meant to reach the scheduler's
breaker through a listener.

## Modules

| module | models | composed of |
| --- | --- | --- |
| `PulseStates` | status enumerations and transition tables, what a publish result means for a job and a job for its schedule | |
| `Scheduler` | dispatcher, both row stores, queue, workers, breaker, account status | `PulseStates` |
| `SchedulerProofs` | its theorems: rows, publishers, attempts, suspension, messages | `Scheduler` |
| `PublishOnce` | what the gateway promises, abstractly | |
| `Gateway` | gateway, record store, adapters, platforms | `PublishOnce` as an instance |
| `GatewayProofs` | its theorems, among them that `Gateway` implements `PublishOnce` | `Gateway` |
| `Pipeline` | scheduler and gateway together | `Scheduler`, an instance of `Gateway` |
| `PipelineProofs` | its theorems, end to end | `Pipeline`, `SchedulerProofs`, an instance of `GatewayProofs` |
| `Admission` | quota ledger, rate limiter and their calls from `enqueue_schedule`, with a clock | |
| `AdmissionProofs` | its theorems | `Admission` |
| `Identity` | account status, credential records, refresh | `PulseStates` |
| `IdentityProofs` | its theorems | `Identity` |
| `Drafts` | what a generated post is made of and the contract it must meet (operators) | |
| `Compliance` | the rules, evaluated on the view of a variant (operators) | |
| `Review` | briefs and budgets, variants, findings and waivers, approvals, the pool | `Compliance`, `Drafts` |
| `ReviewProofs` | its theorems | `Review` |
| `MediaLibrary` | recognition, tickets, the four files of an upload | |
| `MediaLibraryProofs` | its theorems | `MediaLibrary` |
| `Recall` | pools and slots, recall and selection, ledger, export | |
| `RecallProofs` | its theorems | `Recall` |
| `MC*` | instances for TLC | |

### Scheduler

A handler of the dispatcher that makes no external call is one action, named as in
the code: `CreateSchedule`, `Enqueue` (`enqueue_schedule`), `Reschedule`,
`PublishNow`, `CancelSchedule`, `RetryJob`, `ResolveByHand` (`finalize_pending` with
an operator's verdict). Every store call and queue call the handler makes is in the
action. `sent = FALSE` is the branch in which `submit` raises, and leaves exactly the
rows the code has saved by then. The dispatch task is two actions, because the
gateway call separates them: `StartDispatch` is `mark_dispatching` and
`FinishDispatch` is `apply_publish_result`; `calling[w]` remembers the job between
them. `PollSettles` and `PollAgain` are `finalize_pending` with and without a
verdict. `DropMessage` is a task that ends in a refused transition,
`CrashCalling` and `LoseMessage` are workers that die with and without a call in
flight. `RefuseInactive` is a refused request for an account that is not active, which calls
`TripBreaker` (`suspend_account`). `ChangeAccountStatus` and `DeleteCredential` change an
account, and call it when `ListenerWired`. The wiring in `api/wiring.py` does not register the
listener: `live` runs without it, as the code is wired, and `safety` with it.

A job is named by its key, which the store keeps unique. Messages carry a task id, a
name and a job; their eta is abstracted, so a message may be delivered at any time.
Quota and rate refusals leave the modelled rows alone.

### Gateway

`dispatch` and `finalize` are cut at each wait for the platform: `Claim`, `Search`
(`find_existing`), `Request` (the platform handles the request), `Answer` (the rest
of `publish` and the save); `Finalize`, `Poll`, `SavePoll`. `call[c]` is where caller
`c` is and with what. `Duplicate`, `Refuse` and `FinalizeWithoutPoll` are the paths
that return without a wait. `Request` lets a platform answer success, a retryable
error with or without having made the post, a failure, a policy rejection, or an error of
media processing, which leaves a post pending on any platform, made or not (`errors.py:31`).
YouTube's opening of an upload and the upload are one request. `Raise` and
`RaisePoll` are exceptions of the adapter, which the tasks take for a transient error and for "still
pending". `Crash` ends a call anywhere and may empty the adapters' maps (`known`
falls back to what the adapters are constructed with). A record's last result always
gives the status it is saved with, except right after the claim, where `_outcome`
reports a failure: `Outcome`.

`posts` and `platform` are the world behind the adapters: how many posts a platform
holds for a key and what it says of the newest. They are external and modelled from
the answers the adapters handle.

### Pipeline

A worker handles a dispatch message through `StartPublish`, `EnterGateway`, the
gateway's own steps and `FinishPublish`, and a finalize message through `StartPoll`
and `FinishPoll`. The actions are conjunctions of the two modules' actions, as the
test-suite's `GatewaySink` joins them. Whoever resolves a job by hand is assumed to
have looked at the platform.

### Admission

A request (`enqueue_schedule`, or `publish_now` of a post without a job) reads the
time once in `Arrive` and then goes step by step through what `QuotaLedger.reserve` and
`RateLimiter.acquire` do: `Precheck` looks at the ledger, `ReadDebit` reads it again and
`Debit` writes what was read with the cost on top; `Cool` looks at the cooldown, `Look`
reads the bucket, `Take` writes it refilled and less a token, `Mark` begins the cooldown,
and `Claim` makes the job, or finds a duplicate of its key. Threads have no lock, so any
other request comes in between, and its moment may be older than the stamp it finds. A
refusal leaves behind what was debited before it. `Snapshot` and `Peek` are
`quota_snapshot`, which refills the bucket as it looks. `Move` and `Upload` follow the
post to the day in which the platform charges it. The bucket is counted in ticks of refill,
so that its arithmetic stays in the integers. The refill and the taking that follows it are
one write; the closing look of `acquire` at the tokens left, which refills once more with
the same moment, is left out.

History variables say what the overlaps amount to: `intruded`, the units of debits made while
another thread was between its precheck and its debit; `slack`, the ticks older moments
have refilled twice and the tokens taken while another thread held a reading of the bucket;
`setback`, by how much older moments have set the cooldown back.

### Identity

Every operation reads rows in its first step (`SetStatus`, `Authorize`, `Rotate`, `Revoke`,
`MarkExpired`, `StartRefresh`) and `doing[w]` holds what thread `w` is about to write. `Put`
puts a credential record and `SaveStatus` the status of an account, over whatever they have
become. A revocation goes on from its put to the account (`Pause`), a new authorization
to an account it saw revoked. A refresh waits for its provider in between (`StartRefresh`,
`Refreshed` or `RefreshFails`, `Put`). A set of tokens is named by its order of issue and has
one of the four ages that `refresh_decision` distinguishes (`TokensAge` moves it on).
`cred[a].version` is the key version the record names and `cred[a].sealed` the one its envelope
was sealed under.

### Drafts, Compliance and Review

`Drafts` and `Compliance` are pure: the composition of hashtags over the code's tables,
`build_unified_post` with `UnifiedPost.validate`, and the rules over a `VariantView`. A
text is the set of its marks, a mark being what one of the rules' word lists finds in
it. Nothing edits a generated variant, so a variant is known by the request it was
generated from: `Built` are the requests whose post could be built, `View` what
`from_variant_record` shows the rules of each, `Findings` what they find.

`Charge` is what `ModelRouter.charge` does for a generation or a self review; a
generation may fail after it (`GenerateUnbound`). `Check` replaces findings and
waivers, `Waive` and `ScheduleVariant` are one request each. `submit` is `Submit` (it looks at
the status) and `SaveStatus`; `decide` and `batch_approve` are `Decide` (everything they look
at), `SaveStatus` and `Log`. Other requests, also other submissions and decisions, come in between. `found[v]` and
`waived[v]` are what the stores hold, `adminWaived` remembers which blocks an
administrator has ever waived, and an entry of the log remembers whether the decision
found the variant checked. `rounds[v]` counts how often the variant was put up for review; a
second time only by a submission that had read the draft before the first was saved.

### MediaLibrary

`Describe`, `Transient`, `Truncated`, `Answered` and `Unanswered` are the vision
request with the retries of `post_json` and of a truncated answer; a complete answer
earns the content a ticket. An upload is admitted with a ticket (`Upload`), or by a
description of its own, and goes through `CheckHash`, `WriteImage`, `CheckDescription`,
`WriteDescription`, `ReadFolder`, `WriteIndex`, `LoadRegistry` and `WriteRegistry`: a
step per file that is read or written, in the order of `add_media` and the console's
upload. `Fail` ends it between any two, `Restart` ends everything and loses the tickets.
`Legacy` are pictures described before the registry existed, `Hidden` the names that begin with
`00_`: an upload under such a name is accepted, and `rebuild_index` passes over it as it does over
the indexes of folders (`ingest.py:242`). History only: `recognized`, what the model has ever
described; `added`, what the registry was ever told; `raced`, the assets registered next to another
thread's registering, for which `job[u].outrun` remembers that somebody wrote the registry since the
upload was let in; and `job[u].before`, what was described at that moment.

### Recall

`slot_pools` gives the four pools of each slot, `Samples` the possible samples of a pool
without what cools. `StartRecall` and `RecallSlot` are the console's recall, which goes
round all slots at each level; `StartSelection` and `SelectSlot` are `select_media` for
the generator, which takes the slots one by one. An export is `StartExport` (a name that is
free), `CopyEntries` (any file may be missing), `Charge` per copied asset and
`FinishExport`; other threads come between. `MarkUsed` is a use entered by hand, `Abort` a request that ends
anywhere. Time is counted in days, and only what the ledger compares is left of it.
`before[u]` is history: the uses of what a page shows that the ledger held when it was drawn,
those of the same day included.

## Runs

| run | question | bounds |
| --- | --- | --- |
| `safety` | rows agree, one publisher, attempts bounded, finality, when `submit` raises, messages are redelivered or lost and workers die | 2 schedules of one variant, 2 keys, 2 task ids, 2 workers, 2 attempts |
| `live` | every job and every schedule settles; what waits has a message, what is polled a poll, and the first refused request for an account that is not active empties it for good | 2 schedules, 1 key, 3 task ids, redelivery, the listener not wired, no failures of the broker or workers |
| `gateway_once` | the gateway's own invariants, and that it implements `PublishOnce` | 3 keys (a video, a text its adapter may already know, a blocked one), 2 callers |
| `pipeline_posts` | at most one post and no false "published", with redelivery, crashes and retries even of jobs in flight | 1 job, 2 workers, 2 task ids |
| `limits` | what threads without a lock can overdraw, lose, give back or set back, over two days with refusals, duplicates, forced posts and snapshots | 1 schedule, 2 threads, 4 moments, 2 to a day, a bucket of 1, 2 posts a day and a unit left over |
| `credentials` | revocation and envelopes under overlapping refreshes, expiries, rotations and new authorizations | 1 account, 2 threads, 3 key versions, 3 sets of tokens |
| `approval` | budget, verdicts, pool, blocks, flags, and that what is built meets its platform's policy | 1 variant of one of five requests, 2 threads that submit and decide, a budget of 2, a brief submitted twice |
| `library` | nothing unrecognized stored, registry and index kept | 2 uploading threads, 2 names with descriptions of their own, one of them hidden, 2 contents |
| `recall` | slots share fairly, cooldown kept, ladder exhausted, charges for what was copied | 2 pages, 2 slots, 3 assets that fit them differently, 3 days, a cooldown of 2, one folder name, 2 uses by hand |
| `pipeline_retry`, `quota_day`, `overwritten` | one disagreement of code and documents each (below) | smallest that shows it |

Two schedules of one variant are the smallest instance in which a key is contested;
two workers the smallest in which messages of one job overlap. Two task ids, each of which
is given out again once no message and no row names it, let the messages of a row and of a
move overlap; the third of `live` is that of a retry beside both. Two attempts
make the first failure retryable and the second final. Two callers of the gateway
are one that holds the claim, polls or crashes and one that repeats what it does at the same
time. One schedule is requested any number of times until it has a job, so that two threads
overlap in ledger, bucket and cooldown; four moments are two days, and enough for a
request that straddles them, for a moment that is older than the stamp and for a
refill between two tokens. Three sets of tokens are those of an authorization, of a refresh and
of a new authorization; three key versions reach the last one, where a rotation must refuse.
The five requests of
`approval` are one with blocks, one with nothing, one with a warning, one whose post
cannot be built for want of a title and one with media that may not be published; a single variant is enough, since only
the budget is shared, and two threads are the smallest that overlap. Two uploads
and two names make uploads that race for one name and others that race for the registry
only. One picture wanted per slot, three assets and two slots make one slot take the other's
match and one stay short; three days put a use inside the cooldown and one outside; one folder name is
what two exports of one minute share. A bigger instance adds copies of these roles. The proofs remove these bounds for the properties they cover.

`CHECK_DEADLOCK FALSE` is set where the system really may stop: when all schedules are
settled and no operator acts, when the variant is decided upon and the budget is spent, or
when a bound (task ids, submissions) is used up. Callers, threads, variants and the like are
declared symmetric where no definition tells them apart.

### What the properties assume

Constants name the circumstances under which a property holds, so that the opposite
can be tried by changing one line of a `.cfg`.

- `OperatorRetries = {"failed"}` in `safety` and `live`: the transition table also lets
  an operator retry a job that is dispatching (`state.py:51`), and TLC then
  finds two workers in the gateway for one job. `pipeline_posts` allows it, and the
  gateway's claim still keeps the post single.
- `ListenerWired` is no assumption of a property. `api/wiring.py` does not register the breaker
  with the account service, and `api/app.py:526` calls it without an argument it requires and
  swallows the error. `BreakerHolds` says what is left: from the first refused request for an
  account that is not active (or, with the listener, from the change of status), nothing of it waits
  or can be enqueued. What was queued before is posted until then.
- `BlockedNeedsAdmin` and `FlaggedReviewedAlone` are about decisions that found the variant
  checked. Nothing in `src` runs the compliance check between a brief and an approval, so
  a text that the rules would block may be approved unchecked, by anybody.
- `RequireVision = TRUE` in `library`, the setting in which the code claims anything about
  what was recognized.

Where threads without locks break what a sequential reading of the code suggests, no run
excludes the overlap; the property says what is lost by it and that nothing else is:

- `OverdrawnByIntruders`: two threads can both be granted the last units of a day, but a
  window is overdrawn only by the debits that came into another's reservation.
- `GrantsArePaid`: a debit can be overwritten (`quota.py:283`), but only such a one.
- `RateIsBounded`: an older moment has time refilled twice (`ratelimit.py:120`), and a
  token taken while another thread holds its reading of the bucket may be put back, once.
- `CooldownHolds`: of posts that overlap neither finds the other marked; after all that were
  found marked the cooldown is kept, less what older moments set it back.
- `OnlyEarlierReadsRevive`: a refresh, a rotation or an expiry that had read a record before it
  was revoked puts its own over it (`service.py:378`, `445`, `470`); nobody else does.
- `PublishesOnce`: of two polls of one key, the slower one saves over the verdict of the other
  (`gateway.py:296`). `PublishOnce` admits that for polls that were under way when the
  verdict fell. No second post comes of it.
- `DecidedOnce` and `PoolIsApproved`: overlapping decisions may all be saved, and the status
  may be that of one and the last entry of the log that of another; each is saved before it is logged.
- `RegistryKept`: an entry is lost, or a content registered twice, only by registering next to another
  thread. `IndexComplete` holds whatever overlaps, for uploads that come to write the index; one
  that fails before leaves its description to the next, and hidden names are never listed.
- `PicksAreRested` is about the uses the ledger held at the moment of drawing. Two pages that are drawn
  before either is exported may show, and charge, the same picture.

### Fairness

`FairSpec` assumes what the environment provides: a message is not passed
over for ever although a worker could take it (strong fairness per job, since redelivery and
other messages may disable a particular delivery), a call of the gateway returns (the HTTP
client has a timeout), and the finalize deadline passes. Nothing is assumed of
operators, accounts or platforms: a job whose platform never answers waits for a
person after its deadline, and `JobsSettle` says so. Liveness is checked without
broker and worker failures, since after those nothing in the code looks for the job
again.

### What the violated properties show

Each such run states what a document, a comment or a test says, and TLC finds the
behaviour of the code that contradicts it.

- `pipeline_retry`: a scheduled retry is handed the stored transient result and never
  reaches the platform. (A transient error of a poll is stored the same way, and later polls
  return it without asking.)
- `quota_day`: posts are charged to the day of the request. Posts enqueued today for
  tomorrow come on top of those enqueued tomorrow.
- `overwritten`: an upload whose description exists is refused to keep that description from
  being overwritten, but its picture is written first, over the one the description is of.

## Proofs

All theorems hold for every value of the constants that satisfies the named
assumptions of the modules. Every invariant and every action property that a passing run
checks is proved; where a theorem has a hypothesis, it is named below.

`SchedulerProofs`
- `TypeCorrect`: the type invariant, which is inductive.
- `AttemptsAreBounded`: with the conjunct that a job that was never claimed has no
  attempts, `AttemptsBounded` is inductive.
- `OnePublisher` and `ScheduleAndJobAgree` assume that operators retry failed jobs
  only (`OperatorRetries \subseteq {"failed"}`), without which TLC refutes the first. The first is inductive over the types. The second needs
  `MirrorInv`: a message in the queue names a claimed job, since a result may only
  be applied to one.
- `SettledIsFinal`: the action property `TerminalIsFinal`, from a table of the moves a step makes
  of one job (`JobMoves`) and one schedule.
- `RowsFollowTheTables`, under the same hypothesis: rows only make the moves of the two
  transition tables of `state.py`. It takes `MirrorInv`: the result of a job is applied to a
  schedule that `_advance_schedule` does not compare with it, and that is never pending by
  then, so the branch of `_set_schedule_status` for pending schedules is not taken. (The two
  saves of a job or schedule that a synchronous platform publishes are one step here.)
- `BreakerKeepsAccountsQuiet`, for operators who retry failed jobs only, with the listener wired
  or not: over `MirrorInv`, `TripBreaker` leaves nothing (rows that agree leave it none to miss),
  and no other step makes a schedule pending or a job queued for an account that is not active
  (`NothingNew`).
- `WaitingIsDispatched` and `PendingHasPoll` assume that neither broker nor workers
  fail, since a lost message is not missed by anybody. `MessageInv` is the invariant: every job that
  waits has the message it waits for (`Covered`), and the task id in a row is never that
  of another job's message (`IdsOwned`). Without the latter, revoking a recorded id could
  take a message away that another job depends on.

`GatewayProofs`
- `GatewayTypeCorrect`, `RecordsAreTrue`, `RequestsAreClaimed` follow from one
  invariant, `IInv`: besides the last two properties it says what each place of a call knows of the
  record, the posts and the platform (an answer in hand that says "published" is of
  a post that is live; a call before its request has no post). Without it neither
  property survives `Answer` or `SavePoll`.
- `GatewayPublishesOnce`: initial states and steps of `Gateway` map to those of `PublishOnce`,
  for any number of callers and with overlapping polls of one key. A poll begins only of a key without a
  verdict, so `Finalize` is `Ask`, and `SavePoll`, which writes over whatever is recorded,
  is `Hear`; everything else settles open keys only.
- No run's properties: `OnePostPerKey`, `RepliesAreTrue` (what a call hands to its caller as
  published is live), and the action properties `LivePostStays` and `VerdictsOverwritten`: a
  recorded verdict is overwritten only by the answer to a poll that was under way when it was recorded.

`PipelineProofs`
- `PipelineSchedules` and `PipelinePublishes`: the composition takes steps of the scheduler
  and of the gateway only, so that every theorem about either holds of both together. The
  second instantiates `GatewayProofs` with the workers for callers (`SameSteps` says that this instance's actions are those of `Pipeline`'s gateway);
  `PipelineTypeCorrect` is needed for both.
- `PostedOnce`: the invariant `IInv` of the gateway, carried over. It holds whatever the
  scheduler asks for, so also when operators retry jobs in flight.
- `PublishedIsLive`: `PipelineInv` adds `Coupled`, what a worker that is calling for a job has
  to do with the call of the gateway it waits for. What the scheduler applies is what the
  gateway handed back (`PublishesLive`), and a live post stays live.
- `SchedulesTellTheTruth`, for operators who retry failed jobs only: a schedule that says
  published has a job whose post is live and the only one. It combines
  `ScheduleAndJobAgree` with the two before it.

`IdentityProofs`
- `IdentityTypeCorrect`: the type invariant is inductive. `RecordsOpen`: so is `StoredTokensOpen`
  once it is said of what threads are about to put, too (`HeldOpen`).
- `RevivedByEarlierReads`: the action property `OnlyEarlierReadsRevive`, from the types alone. It is
  a matter of going through every operation: which of them may begin of a revoked record,
  and what each puts.
- `RevokedAccountsReturn`: `RevokedAccountStays`, the same for the status of the account, from the
  invariant that an account is reopened as active.

`AdmissionProofs`, for threads that look, read and write in turns and with moments in any order
- `TypeCorrect`.
- `OverdraftIsBounded`: `LedgerInv` says of a thread between its precheck and its debit that
  what has been debited, and what it has read, leaves room for its cost but for what intruded
  since.
- `GrantsPaid`, for finitely many threads: `PaidInv` counts the requests that have paid and are not
  yet granted along with the grants, against what was ever debited, and `LedgerInv` says what the
  ledger shows of that.
- `RateBounded`: `RateInv` bounds, for every token taken, what was taken since and what is in the
  bucket (`Bound`), and the same of what each thread has read of it (`Held`), unless the
  slack that came about since the reading covers it.
- `CooldownIsKept`: `CoolInv` says that the mark is the last one, that moment and setback together never
  decrease from mark to mark, and that each post lies the cooldown after the mark it found.

`ReviewProofs`
- `ChargesAreBounded`: `BudgetInv` adds what is left of the present budget to what was charged.
- `DecidedByOverlap`, `PoolWasApproved`, `BlocksNeedAdmin` and `CheckedWarningsReviewedAlone`, for
  finitely many threads, from one invariant: what a decision in hand was made upon is already
  true of the variant (`AllCleared`, over open sessions and the log), a decision belongs to a round
  that has begun and none was saved in the last round while the variant waits for one (`InRounds`), the
  findings stored of a checked variant are those of its request, and a waived block was waived by
  an administrator (`Sound`). A check that withdraws waivers between a decision and its
  verdict does no harm because `adminWaived` only grows.
- `BuiltPostsMeetPolicy`, for every request and extra terms of any number: what is hard is that
  `compose_hashtags` returns exactly as many tags as the platform asks for (`HashtagsFill`).
  It is a fold over the categories of a fold over each category's tags. Folds are recursive
  functions, and the induction over them is done with least counterexamples
  (`LeastNumber`, from the well-foundedness of `<`): `FoldExists` shows that the function the
  fold chooses exists, `FoldWalks` that it goes through the sequence one by one, and
  `TagsFill` and `CategoriesBegin` what is in the list after each tag and each category.
  Reddit asks for no tags and is excluded there; no reddit post is ever built. The module's
  assumption says that requests name a platform and a sequence of strings.

`MediaLibraryProofs`
- `TypeCorrect` and `RegistryIsDescribed`, for overlapping uploads: `DescribedInv` says what each
  step of an upload has already written, and that the registry a thread has read names described assets only.
- `OnlyRecognizedStored`: a content that is admitted, and every ticket, was recognized.
- `IndexIsComplete` and `RegistryIsKept`, for overlapping uploads: `OverlapInv` says of each thread that
  it lists at least what was described when it was let in (descriptions are never removed), that
  the table it is about to write has every entry that was not raced, and that its content is
  registered by nobody unless it was outrun.

`RecallProofs`
- `TypeCorrect`, `PicksHaveRested` and `ChargesAreCopied`, from one invariant: no page is older than
  a day that has begun, one that is being chosen is of today (`Filling`), what is remembered of the
  ledger is in it (`OfLedger`), slots are apart, since a sample is taken from what no slot of
  the page has, and what an export is about to charge is in its package (`DueIsCopied`).
- `LadderIsComplete`, for a finite library: `LadderInv` says of every level that a recall has
  been through for a slot (`Behind`) that the slot is full or the level's pool is spent, each
  picture cooling or on the page, and that a slot lists every level it took from. What
  cools does so until the day ends, so this outlives the recall.
- `SlotsAreFair`, from both: what a slot takes on a wider level cannot be what another one that is not
  full was left without on a narrower one, because that one has spent its pool (`Behind`).

Only model-checked:

- `JobsSettle` and `SchedulesSettle`: liveness is out of the prover's reach;
- that a hypothesis is needed, where the text says so: TLC's counterexamples show it;
- the properties that are violated.

## Not modelled

Request payloads, HTTP, JSON routing, HTML, image, PSD and video processing, captions,
prompts, cryptography and the formatting of alerts are I/O or data that no property is
about. The best publishing time is a lookup over slots whose difficulty is the time zone
database; the semi-automatic export formats text. Inside the modelled components these are
left out:

- in a variant's generation, the moment in which its row exists without its fields;
- what else the copywriter refuses: `Writable` keeps the table of allowed tags, and the table is
  narrowed to the tags the instances use;
- files that are left partly written (`write_bytes` and `write_text` are not atomic);
- the two requests of a YouTube upload, which are one;
- the link from a use to a content that `/api/usage` may carry, and recalls without a platform;
- the listener that raises in `set_status`: the breaker is called in one step;
- saves of whole rows by two handlers at once (each handler of the scheduler is one step);
- the resets of ledger and limiter, and their loss with the process that holds them;
- the backoff delays of retries;
- the audit trail and the ciphers of the identity service;
- the matching of words, the warnings about emoji, exclamation marks and the shape of
  hashtags, and the sanctions screening, which no other code of `src` calls;
- the media capacity report and the layout of descriptions.

Some behaviours are in the models, or follow from what they show, and no run is devoted to
them. A reader of the code may want to know of them:

- `api/app.py:516` says that revoking a credential suspends everything the account has waiting.
  As wired it does not: the call of the breaker raises, and the error is swallowed. The breaker
  acts when the next request for the account is refused;
- `quota.py:7` and `ratelimit.py:262` call their operations atomic. On a server with a thread per
  request they are not (`limits` says what that costs);
- a revocation can be undone by a refresh, a rotation or an expiry that had read the record before;
- of two polls of one key the slower one can take a verdict back;
- a submission that read the draft before another one was saved puts an approved variant up for
  review again, and of overlapping decisions the status may be one's and the last word of the log another's;
- an upload named `00_...` is accepted, and no index ever lists it;
- `MEDIA_LIBRARY.md` 2.9.1 calls the last level of the ladder the whole library and says that a slot
  stays short only if that is too small or cools. `platforms.py:409` keeps the medium of the slot as a
  filter there too, as 2.9 says of the medium, so a slot for pictures stays short beside a rested
  video. `LadderComplete` states what the code does;

- moving a schedule that has no job mints a second key for a variant that has one
  (`dispatcher.py:462`);
- nothing in `src` but tests calls the breaker's `resume_account` (`circuit.py:158`): its mark survives the account's resumption;
- `compose_hashtags` compares its count after adding, so a platform that wants no tag gets
  one; no reddit post is ever built, since the copywriter gives titles to videos only, but each attempt is charged;
- `VariantView.from_variant_record` knows how many media a variant has and none of their
  licenses, and never sets `first_time_account`: the rules about both never fire there. The
  contract of the post refuses unlicensed media;
- a vision ticket is not used up by the upload that presents it (`media_console.py:737`
  calls it one-off);
- a picture whose upload ended before its description is found as a duplicate by every later
  recognition and can never be described;
- an export does not look at the ledger: two pages that show one asset may both export it, and
  a later export of one page to a new folder charges it again;
- `select_media` enters nothing into the ledger, so that two generations may choose the same
  pictures, and the ledger's cooldown does not see what they chose.

The components that are modelled partly or not at all, with the reason, are in
`PROJECT.json`, and so are the hazards that no property covers.

## Plan

In the order of their worth:

1. EnqueueRace: `enqueue_schedule`, `suspend_account` and the task handlers with one step per store
   call, for stores that several processes share. The stores in `src` are dictionaries of one
   process, so this waits for the database the repository plans.
2. A theorem that says which moves of a variant's status `Review` admits, as `RowsFollowTheTables` does for
   the scheduler.
3. Best publishing time and sanctions screening as operators over bounded inputs.
