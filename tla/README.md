# Verification of the teaching-group selection service

This directory holds TLA+ models of the service in `server/`, the TLC
configurations that model-check them on small instances and TLAPS proofs of
their main theorems. Paths and line numbers are those of the repository; the
table of definitions and the lines they translate is `map` in `PROJECT.json`.

    tlc -workers 2 -config ledger_capacity.cfg MCSeatLedger.tla
    tlapm SeatLedgerProofs.tla

## 1. Inventory

One process (`Dockerfile`: `--workers 1`) serves a single college: one event
loop, FastAPI's worker threads, one writer thread, a status executor, and one
SQLite database that holds the only authoritative state.

| Component | Code | State it keeps | Operations | What is hard | What makes it correct |
| --- | --- | --- | --- | --- | --- |
| Seat ledger | `main.py` handlers, `database.py` tables and triggers | majors, groups, quota matrix, students, selections, activity row | structure and quota edits, import, countdown, close, new activity, claim, back-fill, revoke | claims and edits in any order; quotas counted by the student's *current* major; rounding; two time columns shared by several rounds | no overselling, one selection per student, selections keep what they rest on, fixed terms in a round, nobody stranded, restart accepts the database |
| Batch writer | `write_batch.py` | priority heap, active batch, futures, thread handle | enqueue, displace, batch, commit, resolve, close, open | full queue, reserve, partial failure, crash between commit and answer, close timeout | truthful answers, arrival order, claims never displaced, everything admitted answered |
| Public status | `main.py:2112-2171` | 50 ms cache, shared future | read cache, start, join, resume, fail, cancel | cancellation and late resumption around one shared projection | single flight, answers never go back, every waiter answered |
| Student sessions | `main.py:106-150`, `1240-1339`, `2355-2580`, `2679-2688` | session rows, response gate, logins under way | login in phases, heartbeat, logout, expiry; import and new activity, which delete sessions | logins of several devices replace each other while answers are under way; roster changed while a login is queued; cancelled requests | one session per student, for the credentials of now; no dead cookie; the gate returned |
| Administrator sessions | `main.py:1340-1356`, `2690-2820` | session rows, password hash | login, password change, logout | hashing happens outside the transaction | sessions bounded, none of an old password, oldest evicted |
| Selection service | `main.py:1840-2065` on the writer | jobs whose callback is a claim; the open transaction | claim, back-fill, repeat, lost answer | a job waits while the round, the roster or the activity changes; several claims in one transaction; answer lost after the commit | served in order, only in the page's activity, at most one seat, repeats agree, receipts only of committed rows |
| Activity archive | `main.py:1124-1238`, `3161-3442`, `database.py:915-967` | archived activities, titles | create activity, retitle, delete archive | triggers that copy titles between two tables in the middle of the switch; verification moves from the tables to the archive | what verification says of a receipt survives the switch |
| Receipts | `main.py:894-1122`, `2173-2353` | none (signed claims) | sign, verify, QR | verification against current rows or archive | a receipt is valid exactly while its selection stands |
| Rate limiters | `main.py:519-660` | event lists per key | check, record, evict, clear | the key limit; clocks read before the lock; lazy cleanup | limits hold in every window, a refusal has a cause |
| Upload gate | `main.py:172-332` | two counters | admit, receive, time out, release | stall, disconnect, refusal | slots bounded and always returned |
| Roster parsing, identity contracts | `roster.py`, `student_identity.py`, `current_contract.py` | none | parse, normalise | text forms | (pure functions) |
| Security and configuration | `security.py`, `config.py` | none | hash, sign, encrypt | cryptography | (primitives) |
| Start-up checks, backup | `database.py:426-876`, `maintenance.py` | database file | initialise, validate, back up | a state the handlers write and the check refuses | every reachable state passes |
| Exports, dashboard | `export_workbook.py`, `main.py:2822-2982`, `4377-4540` | none | project | layout | (read only) |
| Release script | `deploy/update.sh` | checkout, `.env`, image tags, containers, tunnel, timer, backup | check, back up, replace, verify, roll back | any step fails or is interrupted; the recovery fails too; the public writes meanwhile | no write lost, image and database together, production as before or new throughout |
| Installation scripts | `deploy/bootstrap.sh`, `install-cloudflared.sh` | none in production | install | - | (run once, nothing beside them) |
| Web clients | `web/*.js` | page state, clock offset | poll, heartbeat, select | clock offset, retries | never opens early |

How they interact: a handler either opens its own `BEGIN IMMEDIATE`
transaction on the ledger (administrator's edits, in a worker thread) or hands
a callback to the batch writer, which runs it in the writer's transaction
(claims and back-fills with priority 0, logins 5, heartbeats 10) and resolves
an asyncio future through `call_soon_threadsafe`. The status projection reads
the ledger in its own executor. The application lifespan opens and closes the
writer and drops the status cache.

The hazards of this code, each at its line, are listed under `hazards` in
`PROJECT.json` with the properties that cover them or the reason none does yet.

## 2. Modules

### SeatLedger

The business tables of the current activity. SQLite runs one write transaction
at a time and every handler commits or rolls back as a whole, so a handler is
one action: its guard conjoins every check of the handler, its effect is every
row it writes. A refused request is no step.

| Variables | Tables |
| --- | --- |
| `majors`, `activeMajors` | `majors`, `majors.active` |
| `groups`, `activeGroups`, `capacity` | `teaching_groups` |
| `quota` | `quotas`, with `NoRow` where there is no row |
| `majorOf`, `activeStudents` | `students` |
| `live`, `revoked` | `selections` with `revoked_at` NULL or set |
| `status`, `opensIn`, `openedIn` | `activities.status`, `selection_opens_at`, `opened_at` |
| `origin` | `settings.public_base_url` is set |
| `ran` | history variable: a round of this activity has been open |

Times are kept relative to now (ticks until the instant, 0 once it has passed);
the handlers only ever compare an instant with `utc_now()` or two stored
instants with each other. `Tick` is the passing of time. The largest-remainder
rule of `rebalance_group_quotas` breaks ties by `sort_order` and id; since
`sort_order` is data, `Shares` allows every way of breaking a tie. Names and
codes are the identities of majors and groups; a duplicate name is the guard
`m \notin majors`. A student's replay of the group already held writes nothing
and is not a step. `update_major` and `update_group` also rename and reorder,
which no property reads. Import re-activates a disabled major it names and
creates missing ones with a row of zero quotas, as `import_students` does.

Quotas and totals are rewritten row by row under triggers that look at each row
as it is written. A handler stays one action; `RebalanceFits` and
`QuotaRowsFit` say of every prefix of its rows, in every order it may write
them, that no trigger would refuse one (`update_quotas` writes the cells it
lowers first, `rebalance_group_quotas` lowers all cells to what is held, then
changes the total, then raises them).

### SeatAllocation

The abstract specification that `SeatLedger` implements
(`INSTANCE SeatAllocation WITH held <- live, past <- revoked, ...`): a seat is
taken by somebody without one while group and class have one left, withdrawn by
name and then kept on record, and reshaping limits, shares and classes goes
around the seats taken. It knows no rounds, no structure and no order of
requests.

### BatchWriter

`SQLiteBatchWriter`. Each action is one critical section under
`self._condition` or one step of `_process_batch` that no other thread can see
into. The heap is a set with the order `Before` (priority, then sequence). The
batch window releases the lock and ends at an arbitrary moment, so `TakeBatch`
may happen whenever jobs are queued. Callbacks return or raise freely.
`FailBatch` stands for any exception of connect, `BEGIN IMMEDIATE`, a savepoint
statement or the commit; all of them lead to the same answers. `Crash` is the
death of the process: memory is lost, what was committed stays.

| Variables | Code |
| --- | --- |
| `accepting`, `handle`, `sequence`, `queue` | `_accepting`, `_thread is not None`, `_sequence`, `_queue` |
| `writer` | where the thread is (absent, waiting, working, resolving, exited) |
| `active`, `run`, `good`, `failed` | `_active_jobs` and the locals `batch`, `outcomes`, `batch_error` |
| `durable` | effects in the database |
| `result`, `reply` | the job's future, and what the awaiting request was told |
| `closing` | `close` waits in `join` |

### PublicStatus

`GET /api/public/status`. Requests, executor threads and the event loop
interleave; a projection is described by the number of commits its snapshot
includes. The `await` is two actions, with the completion of the future before
the resumption of the waiter and cancellations in between. The server has one
event loop, which runs callbacks in the order they were scheduled: waiters of
an earlier projection are resumed before those of a later one (`Foremost`).
Cache expiry may happen at any time, which covers every value of the 50 ms.

### StudentSessions

The login of a student is not atomic, and the model keeps its steps: it reads
and verifies the student's row (`ReadCandidate`), acquires the response gate
and queues its write (`EnterGate`), the writer verifies the row again and
inserts the session (`WriteLogin`, or `RejectLogin`, or `LoseWrite` when a
claim displaces the job or its transaction fails), the handler checks that the
session survived (`ProjectLogin`), and the outer send hands out the cookie
(`SendLogin`); then the finaliser releases the gate. Between any two of these
steps the request may be cancelled (`Abandon`), the administrator may import a
roster or create an activity, other devices log in, and the process may die.

| Variables | Code |
| --- | --- |
| `activity`, `card`, `activeStudents` | current activity; name and code of each row; `students.active` |
| `sessions`, `expired`, `age` | rows of `sessions`, `expires_at` passed, time since `last_seen_at` |
| `phase`, `candidate` | where a login request is, and the activity of the row it read |
| `gate` | `PrincipalResponseGate._active` |
| `queue`, `ahead`, `beating` | logins and heartbeats waiting for the writer, in order of arrival |
| `replaced` | history variable: live sessions deleted by a later login |

A session is named by the login that created it, and a student's row by
(student, activity): ids are AUTOINCREMENT and rows are kept until the next
activity. Jobs run one by one, because a shared transaction only hides the
states between them. Rate limits and a full queue may turn any login away.
Imports are not restricted by the round here, which only adds behaviours. The
writer itself is `BatchWriter`; here its queue is the arrival order of logins.

### AdminSessions

Login and change of password verify a password against a row read outside the
transaction and compare the hash again inside it; each is two actions. Hashes
are salted and never repeat, so the hash is its version number. `created_at` is
read before the transaction, so the rows may be inserted in another order than
their times; `MakesRoom` is the `DELETE … ORDER BY created_at DESC … OFFSET`
with any choice among equal times, since the tokens that break them are random.

### ActivityArchive

Activities, their titles, the archive and receipts. A receipt is the record of
ids and texts its HMAC covers; two HMACs agree iff the records do. `label`
stands for all names in the working tables. `CreateActivity` is the whole
switch: snapshot, new row, the `UPDATE` of `settings` with the trigger that
copies the title to the activity of the new id, emptied tables. `Verdict` is
`verify_selection_receipt` with its early returns, from the working tables
while the activity is current and from the archive afterwards.

| Variables | Code |
| --- | --- |
| `title`, `lastActivity` | `activities.title`, `sqlite_sequence` |
| `archive` | the archived snapshot: title, label, rows |
| `current`, `label` | `settings.current_activity_id`, names in the tables |
| `rows`, `lastRow` | `selections`, `sqlite_sequence` |
| `receipts` | history variable: receipts that left the server |

It is also an abstract specification: it says what a committed transaction may
add and which receipts may leave, and not how they come about.

### SelectionService

The composition: `Writer == INSTANCE BatchWriter` with requests as jobs, all of
priority 0, over the tables of `ActivityArchive`. `RunClaim` conjoins
`Writer!RunJob` with `persist_selection`, whose checks are made in the order of
the code against `View`, the committed rows and those the open transaction has
inserted (`pending`). `CommitClaims`, `FailClaims` and `CrashServer` conjoin the
writer's steps with what becomes of `pending`. `SendClaim` may name any page the
server has shown. Administrators' transactions need the database's write lock
and so happen outside a batch, at any other point. The receipt is built inside
the transaction and leaves only when the writer has delivered the result, as in
`choose_group`. A group has a number of seats here; majors and quotas are
`SeatLedger`'s.

Whatever asks for a receipt needs a public address (`Addressed`): a claim, the
repetition of a claim and the receipt page answer 409 without one. `origin` is
whether the settings hold an address; `UpdateSettings` changes the title, the
address or both, in every phase, and may empty the address. `ConfigOrigin` is
the fallback of the configuration, `PUBLIC_BASE_URL`. The order of checks in
`persist_selection` matters and is kept in `Refusal`: a repetition meets the
address before the round is looked at, a first claim after.

| Variables | Code |
| --- | --- |
| those of `BatchWriter`, `ActivityArchive` | as there |
| `roster`, `phase`, `origin` | active students, `activity_phase`, `settings.public_base_url` |
| `claim`, `pending` | the request's page and group, rows of the open transaction |
| `refusal`, `built` | what the callback raised or the receipt it returned |
| `builtAt` | history variable: how many edits of names preceded that receipt |

### Release

`deploy/update.sh` step by step, as a program counter over the host. `Step`
lets each of them succeed, or fail or be interrupted with or without its effect;
the EXIT trap then recovers by `PHASE`, and each step of the recovery may fail
too (`Undo`). `Die` is SIGKILL, or any signal once the trap is running. The
public writes whenever tunnel and application are up, and may open the round.
An image is known by the commit it was built from. Phases the trap
treats alike are taken as one (`ENV_MUTATING` with `ENV_READY`, `ROLLBACK_READY`
and `DB_VALIDATED` with `VALIDATING`), and `PREFLIGHT_OK`, which the script
leaves in its next line, is left out.

| Variables | Code |
| --- | --- |
| `pc`, `phase` | the next command, `PHASE` |
| `host` | checkout, `.env`, image tags, running image, tunnel, timer, database |
| `saved` | `OLD_COMMIT`, `env.before`, timer state, `pre-upgrade.db` |
| `accepted`, `found`, `disturbed`, `faults`, `updates` | history variables and bounds |

### RateLimiters, ImportGate, FrontDoor

The guards a request meets in memory. `RateLimiters` has both classes, in three
kinds (evicting, refusing, distinct values). A call reads the clock in one step
and is decided under the lock in another, so calls overtake each other. The
list of a key is the set of the calls recorded in it, each knowing those it was
appended to (`behind`), which is all that its order matters for: the eviction
compares the last one. `Cleaned` is the lazy `_cleanup`.

| Variables | Code |
| --- | --- |
| `kind`, `clock` | the limiter's class and arguments, `time.monotonic()` |
| `table`, `lastCleanup` | `_events`, `_last_cleanup` |
| `call` | each call's arguments, clock reading and verdict |
| `late`, `latest` | history variables: calls decided out of the order of their times |

`ImportGate` is `ImportBodyLimitMiddleware`: `Enter` takes a slot or answers 429,
`Message` reads the body, `TimeOut` is the deadline over the whole body, and all
the ways out (`Disconnect`, `Replied`, `Handled`, `Cancelled`) pass `Leave`, the
`finally`. `active` is the pair of counters. The two parts share nothing;
`FrontDoor` puts them side by side for one configuration, and a behaviour
exercises one of them.

The `MC*` modules define the small sets, the priorities, the owners of logins
and the symmetry for TLC. `*Proofs` hold the theorems.

Definitions commented "Slip, for the runs on mutated code" are plausible
mistakes in the definition that follows them. No specification uses one; each
is substituted for its original to see that a property notices.

## 3. Runs

| Run | Instance | What it shows |
| --- | --- | --- |
| `ledger_structure` | 2 students, 2 majors, 2 groups, capacities 0..1 (seed 2), countdown 1 | `SelectionsStand`: an active selection keeps its active student, major, group and quota cell, a revoked one its student and group; `NobodyStranded`: once the readiness check passed, every student without a seat can still be seated until the round closes; `ImplementsAllocation` |
| `ledger_capacity` | 3 students, 2 majors, 1 group, capacities 0..3, countdown 2 | `NoOversell`; `RowUpdatesFit`: no order of rows a handler may write makes a trigger refuse one; `RebalanceSellsEverySeat`: a changed total is shared out to the last seat; `StartupValid`; `RoundTermsFixed` |
| `ledger_waiting` | 1 student, 1 major, 1 group | violated: `WaitingMeansNotStarted` (finding 1) |
| `writer_limits` | a claim and a login with a second claim (and a crash) or a heartbeat; batch 1, queue 2; the login's caller may vanish | `RepliesAreTrue`: success only of what is committed, refusal never of it; `ClaimsInOrder`; `ReserveKept`: low-priority work, running batch included, leaves a whole batch of slots to claims; `ClaimsYieldOnlyToClaims`: a claim is refused only by a queue of claims, and one admitted is never displaced; `AdmittedIsAnswered`; `CloseDrains` |
| `writer_reopen` | 2 claims, login; batch 1, queue 2 | violated: `StoppedWriterReopens` (finding 2) |
| `selection_service` | 2 students, 1 group of 1 seat, 2 requests (claims or back-fills), batch 2, 2 activities, 2 edits of names, address set and emptied, 1 crash | `SeatsFit`, inside transactions too; `NoStaleWrite`; `FirstCome`: nobody who was told "full" is overtaken; `RepeatsAgree`: a lost answer is found again, with the same receipt unless a name was edited, and refused only without an address, in a new activity or after the seat was given up; `ValidReceiptsAgree` and `VerdictsSettle`; `ImplementsArchive`: batches, failures and crashes only do what the archive allows |
| `status_shared` | 3 requests, 2 commits, cancellation | `SingleFlight`; `MonotonicAnswers`: no answer older than one already given; `StaleOnlyAfterCancel`; `EveryWaiterIsAnswered` |
| `status_stale` | 2 requests, 1 commit, cancellation | violated: `AloneSeesCommitted` (finding 3) |
| `sessions_student` | 3 logins of one student, 2 cards, 2 activities, 2 concurrent heartbeats, interval 2; crashes | `SessionsMatchRoster`: no session for a code, name or activity of the past; `GateExact` and `GateIsReturned`: the gate is held by exactly the logins past it, and each gives it back; `NoReplacedCookieSent`; `PresenceThrottled` |
| `sessions_admin` | 4 devices, limit 2, 2 password changes, 3 clock values | `OnlyCurrentPassword`; `OldestDeviceYields` |
| `release` | 2 runs of the script, 2 public writes, 2 faults (failed recovery steps, edits, kills) | `WritesKept`: the public never meets a database without a write it was told of; `Paired`: the old image never runs on a file the new release opened; `Recovered`: a script that ends undisturbed leaves production as it was, or new throughout; `OnlyCheckedServed` |
| `front_door` | 3 calls, 2 keys, table of 1 key, limit 2, window 1, cleanup 3, clock +5; 3 uploads, 2 slots a class, deadline 2 | `WindowBounded`; `RefusesForCause`: a refusal has a limit reached, or a table filled by others lately; `SlotsExact`; `GateReopens` |

The types (`TypeOK`), `OneSelectionEach`, `OneSessionEach`,
`ClaimsNeverEvicted` and `DevicesBounded` are stated and proved (section 4) and
in no run: each is a part of what the runs check or close to it. That an
admitted claim is never displaced, for one, is also a conjunct of
`ClaimsYieldOnlyToClaims`.

Bounds, and why they are enough. The ledger's conflicts are between two
students for one seat, two majors for one group, two groups for one student and
an edit against a selection; three students make a group of two seats
oversubscribed. Capacities up to three give largest-remainder shares with a
real remainder and a tie. `MaxCapacity`, `Countdown`, `MaxCrashes`,
`MaxCommits`, `Impatient`, `Tabs`, `MaxActivities`, `MaxRenames`, `MaxWrites`,
`MaxUpdates`, `MaxFaults`, `MaxCalls` and `MaxClock` are the bounds; where time
is counted down it needs none, since an instant that has passed stays at 0.
`SeedCapacity` exceeds `MaxCapacity` in `ledger_structure` so that a total can be
lowered there. The writer's limits matter when the queue is full: a queue of two
with batches of one is filled by every pair of jobs. One of its slots is reserved,
so `ReserveKept` needs two jobs of low priority to be at stake: a heartbeat that
arrives while the login occupies the other slot, queued or in the running batch,
must be turned away. `SecondClaimOrHeartbeat` keeps the instance small: the
heartbeat comes where the second claim and the crash do not. Each job is submitted once;
a retry of the same request is another job. In `selection_service`, two requests
for one seat meet in one batch or in two, as rivals, as a repeat, or as claims of
two pages. `FewEdits` leaves names and address alone while two requests that ask
different things are under way: texts enter no check of a claim, and a receipt's
fate involves one claim. It follows one request through two edits of names or an
emptied address, and a claim with its repetition through one such edit in the
first activity, which is where a repetition can differ from the first answer;
what a new activity does to repetitions is seen without edits. Students and requests are
symmetric; the liveness runs use no symmetry. In `status_shared`, three requests
give a starter, a joiner and a latecomer; two commits distinguish an old, a
middle and a new snapshot. Three logins of one student give one that is
abandoned in the queue, one that follows it through the gate and one with the
other card; students share nothing but the deletion of expired rows, so one
suffices, and the proofs cover many. Four devices overflow a limit of two twice,
and two changes invalidate each other. Two runs of `update.sh` let a second one
start from whatever the first left behind, and the two commits are where it
starts from and where it goes. Three calls fill a limit of two and overtake; a
table of one key is full with any; the clock passes a window, a cleanup interval
and an expired key that the lazy cleanup has left in place. Three uploads
overflow the two slots of a class.

Deadlock is checked for the ledger, where an administrator can always act. The
other models end when every request has been made (every script run, every call
decided), so their configurations turn the check off; that they do not get stuck
earlier is what their liveness properties say, and `Recovered` for `release`.

Fairness. `BatchWriter!FairSpec` assumes that the writer thread keeps running
(its steps are ordinary code between lock acquisitions, SQLite calls are
bounded by `busy_timeout`) and that the event loop runs the callbacks scheduled
with `call_soon_threadsafe`. Nothing is assumed of submissions, cancellations,
`close` or `open`. A crash counts as an end of the requests it kills: their
callers are gone. `PublicStatus!FairSpec` assumes that a submitted projection
ends, by a result or an exception, and that the loop resumes a task whose
future is done; not that any request, commit or expiry happens.
`StudentSessions!FairSpec` assumes that the writer thread keeps running, that a
login past the gate is resumed when the result of its job is there, and that a
send ends, by returning or raising; a crash, which empties the gate, may happen
at any time. `ImportGate!GateFairness` assumes that time passes, that
`asyncio.wait_for` raises when its time is over, that a short answer is taken by
the server's buffer and that the application returns; nothing makes a client
send, and a client may send empty messages without end.

## 4. Proofs

TLAPS checks these for every value of the constants that satisfies the
modules' assumptions (`LedgerAssumption`: finite sets, a seed structure whose
quotas fit; `WriterAssumption`: what the constructor checks;
`StatusAssumption`; `SessionAssumption` and `AdminAssumption`: finitely many
requests, a limit of at least one device; `ServiceAssumption`;
`ReleaseAssumption`: two different commits; `LimiterAssumption` and
`GateAssumption`: finite sets, limits of at least one). They hold for any number
of students, groups, jobs, requests, calls or runs.

* `SeatLedgerProofs`: `TypeOK`, `OneSelectionEach`, `SelectionsStand`,
  `NoOversell`, `StartupValid`, `RoundTermsFixed`, `ImplementsAllocation`,
  `RowUpdatesFit`, `RebalanceSellsEverySeat`, `NobodyStranded`.
  `NoOversell` is not inductive alone. The invariant is
  `TypeOK /\ IsFiniteSet(live) /\ SelectionsStand /\ NoOversell`: a claim needs
  finite counts; an import may not move the major of a student with a seat
  (`SelectionsStand` ties the seat to the major); rebalancing sets a quota to the
  seats held plus a share, and the share is a natural number (`ShareIsNatural`)
  because the total is not below the seats held. The refinement adds `QuotaRows`
  and shows that every handler is a step of `SeatAllocation` or a stutter.

  The last three are about sums of quotas. The library proves nothing about
  `SumFunctionOnSet`, and its induction theorems take an operator, so the module
  proves its own: `SubsetInduction` speaks of a set of subsets ("Good") instead
  of a predicate, and is proved from a smallest subset outside it. With it the
  recursive function behind the sum is shown to exist and to be unique where it
  matters (`PartialExists`, `PartialsAgree`), and from `SumFirst` follow the
  laws used: taking out any element, adding, comparing and splitting sums, and
  counting by classes (`SumOfCounts`: the seats the majors hold add up to those
  the group has given). `SharesSum` is the largest-remainder division: floors
  plus extra ones add up to exactly what is shared out. `QuotasFit` (a group's
  quotas never exceed its total) is inductive with `QuotaRows` and
  `SelectionsStand`: a rebalance fills the new total, an accepted quota request
  was checked, and rows that come with a new major or group are zeros.
  `RowUpdatesFit` then follows for every intermediate state of the row updates:
  the cells written so far are at most what was there or at most what is wanted.
  `NobodyStranded` needs in addition `RoundReady`, the readiness check of
  `start_countdown` as an invariant of the open round, and counts: were every
  group in use closed to a student, the student's major would hold as many seats
  as it has active students, although this one holds none.
* `BatchWriterProofs`: `TypeOK`, `ClaimsNeverEvicted`, `RepliesAreTrue`,
  `ClaimsInOrder`, `ReserveKept`, `ClaimsYieldOnlyToClaims`. `RepliesAreTrue`
  needs `AnswerInv`, which follows a job from queue through batch to future: what is queued or running
  before the commit is not durable, and a result "ok" is. `ClaimsInOrder` needs
  distinct arrival numbers below `sequence` (`OrderInv`). `ReserveKept` counts
  the union of queue and batch and uses `ReserveAtLeastBatch`, the fact about
  the constructor's arithmetic. `ClaimsYieldOnlyToClaims` needs that heap order
  is total on the queue and that a batch is bounded (`QueueInv`): the queue then
  has a last job (`QueueHasLast`), and if that one is no victim, all are claims.
  That no claim is displaced is `ClaimsNeverEvicted`.
* `PublicStatusProofs`: every safety and action property of the module.
  `FlightInv` says that a running projection is the current refresh: this is
  where withdrawing only a finished refresh matters. `MonotonicAnswers` adds that
  snapshots grow with the flights and that nothing answered so far is newer than
  the cache, the current refresh or what a waiter is about to answer
  (`ReadInv`, `CacheInv`, `AnswersInv`). `StaleOnlyAfterCancel` follows a waiter
  that started or joined a refresh to the cancelled one it must share it with
  (`DueInv`).
* `StudentSessionsProofs`: every safety and action property of the module.
  `OneSessionEach` follows from `SessionsMatchRoster` (all sessions belong to
  rows of the current activity) and from the deletion in `persist_session`.
  `NoReplacedCookieSent` needs more than the gate: a cancelled login has
  returned the gate while its job is still queued, so the invariant adds that
  such a job is ahead of every later one (`GateProtects`, `QueuedIsNew`): the
  queue's arrival order keeps an abandoned write from replacing the session of
  the login that came after it.
* `AdminSessionsProofs`: every property of the module. `OnlyCurrentPassword` is
  inductive with the types: the comparison inside the transaction equates the
  verified and the stored version.
* `SelectionServiceProofs`: every property of the run `selection_service`. The invariant `ServiceInv` joins the
  writer's state to the tables: `pending` is empty outside the writer's
  transaction and its rows are numbered on from `lastRow` (`WriterInv`,
  `RowsInv`); the receipt of a request that succeeded matches a row of the view
  until the commit, and of the records afterwards (`ReceiptInv`). With it every
  step of the service is one of `ArchiveSpec` or a stutter, and the two
  properties of receipts are proved with what is known of the archives
  (`ArchivesInv`). `RepeatsAgree` and `FirstCome` compare two requests and need
  what the service remembers of the past (`HistoryInv`): a callback still to be
  called belongs to a request that arrived after all whose callback was called
  (`OrderInv`); rows come from requests (`OriginInv`); and the verdict of a
  claim is justified from the moment its callback runs: a repeated claim found
  the row of the first, or no address, or another activity (`RepeatInv`); a
  refused one found a group whose rows are all of
  earlier requests and as many as its seats (`FullInv`). Such a group cannot
  get another row (`NoRoomToGrow`), so the justification outlives the batch, the
  commit and the archiving of the activity, until a seat is given up. That two
  receipts of one selection are equal when no name was edited between them needs
  `WordingInv`: a receipt built since the last edit of names shows the names on
  record, so one built now with no edit in between has the same texts.
* `ReleaseProofs`: `TypeOK`, `WritesKept`, `Paired`, `Recovered`,
  `OnlyCheckedServed`: every property of the module. `ReleaseInv` says, step by
  step of script and recovery, which phase they are in (`PhaseInv`), where the
  accepted writes are (in the database, or in the backup behind a closed tunnel:
  `WritesInv`) and what the tags and the running image may be (`ImagesInv`).
  `Recovered` follows the host as the script found it through every phase.
  `FoundInv` holds whatever happens: until the tunnel is closed the image, the
  tunnel and the database are as found; the rollback tag is the image found; the
  database, or its backup, has been opened by the releases that had opened it
  before. `UndisturbedInv` holds while no disturbance has hit the run: a changed
  tree is still the old commit (so restoring it is never refused), the timer runs
  or is noted as having run, and each step of the recovery has put back its
  part. `OnlyCheckedServed` counts disturbances over all runs (`AtMostOnceInv`):
  before the first one, `.env` names the image that runs, so after it one of the
  two ways back to the image found is left.
* `FrontDoorProofs`: `SlotsExact`, `WindowBounded`, `RefusesForCause`.
  `WindowBounded` needs to know what the table has forgotten: an event pruned
  from a key is older than the latest time decided less the window
  (`PrunedInv`). `RefusesForCause` needs the age of what an expired key may
  keep since the last cleanup (`CleanInv`).

So every invariant and every action property of the passing runs is proved; the
strengthenings (`QuotasFit` as a conjunct of `RowUpdatesFit`, the parts of the
others on the constants of the runs) were model-checked before they were proved.
Model-checked only: the liveness properties `AdmittedIsAnswered`, `CloseDrains`,
`EveryWaiterIsAnswered`, `GateIsReturned` and `GateReopens`, since neither
fairness nor ENABLED is in the prover's reach; and the three runs that expect a
violation, whose counterexample is their result.

## 5. Findings

1. `ledger_waiting`. `start_countdown` overwrites `opened_at` of an earlier
   round with the new target; cancelling that countdown (`main.py:3050`) then
   sees `opened_at = selection_opens_at` in the future and stores NULL. An
   activity that has been open, and may hold selections, shows "抢选尚未开始".
2. `writer_reopen`. If `close` times out, `_thread` stays set although the
   thread exits later; `open` (`write_batch.py:234`) then refuses for ever,
   against its docstring.
3. `status_stale`. If every waiter of a refresh is cancelled before it
   completes, the done future stays in `public_status_refresh`
   (`main.py:2152`), and the next request answers from it whatever its age.
   `StaleOnlyAfterCancel` shows that nothing else makes an answer stale. The
   same cancellation may also make a fellow waiter answer from the expired
   cache (`main.py:2164-2168`).

A promise of the documentation that `RepeatsAgree` restates with its exceptions.
`docs/architecture.md:43-46` says that a student who repeats a selection after a
lost answer gets "既有选择和同一签名凭证", even when the round has been closed
meanwhile. The code gives the same selection, and a receipt rebuilt from the
names of now (`main.py:1955`, `1905`, `1015`): it is another one if the title
was changed, which `update_settings` (`main.py:2984-3027`) allows in every
phase, or a label, in a closed round. And the repetition is answered 409 if
`update_settings` emptied the public address in between and no `PUBLIC_BASE_URL`
is configured (`main.py:953-964`); claims in an open round are then refused too.
`selection_service` reaches all of these states. `RepeatsAgree` says that there
is no other exception than these, a new activity and a seat given up.

Observations without a property: with `synchronous=NORMAL` a power failure, unlike the process crash
modelled here, may lose the last commits. The survival check of
`project_committed_login` never meets a session replaced by another login (gate
and queue exclude it, as `NoReplacedCookieSent` shows); what it does meet is a
session that an import or a new activity removed, and one removed right after
the check still leaves the browser with a dead cookie. The answer of a
heartbeat checks the activity and reads its phase in separate statements, so it
may mix two activities; the next request is then refused.

`deploy/update.sh`: `OnlyCheckedServed` allows one disturbance, and needs to. In
`QUIESCING`, if the recovery can restore neither `env.before` nor the version
(`set_env` may fail unnoticed, `|| true`), it starts the image `.env` now names,
the new one, and reopens the tunnel before any local check, against
`docs/deployment.md:81-82`; `Paired` still holds, since that database was opened
by the new release only. It takes two failures of file operations at once.

A limiter's bound does not count a call that read the clock before another and
was decided after it: pruning for the later one may have made room for it. The
error is one call for each such overtaking.

## 6. Not modelled, and the plan

Left out for good: cryptography and token formats (`security.py`), text
normalisation and spreadsheet parsing (`roster.py`, `student_identity.py`),
rendering and layout (`export_workbook.py`, the pages under `web/`), audit rows,
the installation scripts; they are functions of their input or run with nothing
beside them. `initialize_database` and `maintenance.py` are modelled where
other parts depend on them: `StartupValid` is the agreement a start demands,
release check and backup are steps of `Release`. A receipt's signature is taken
to be good; what verification then answers is `Verdict`.

Planned:

1. `StudentClient`: `web/student.js`, the clock offset, polling and the
   selection button, against the phases of the server.
2. An abstract specification of the roster upload (gate, parsing pool, import
   transaction) that `ImportGate` and the import of `SeatLedger` both implement.
