# Verification of the cat-game backend

TLA+ models of the backend (a FastAPI modular monolith over PostgreSQL), the
TLC configurations that check them on small instances, and TLAPS proofs about
them. Paths are relative to `src/`. `PROJECT.json` maps each definition to the
lines it translates and lists runs, mutants, findings, hazards and theorems.

## 1. The system

API processes serve requests; grading worker processes
(`app/modules/grading/worker.py`) poll the database. They share nothing but
PostgreSQL, run READ COMMITTED, and coordinate with `SELECT ... FOR UPDATE`,
`SKIP LOCKED`, unique keys and `INSERT ... ON CONFLICT DO NOTHING`. There are
two transaction idioms:

* *unit of work* (`db/unit_of_work.py`): a fresh session; `users.get_for_update`
  locks the player's row **and refreshes** the copy (`populate_existing`);
* *direct* (`game/commands.py`, `daily_mission/service.py`): the session that
  authenticated the request (`api/dependencies.py`) locks the row again, but the
  identity map keeps the copy loaded **before** the lock.

### Inventory

| Component (code) | State | Operations | What is hard | What makes it correct |
|---|---|---|---|---|
| Grading (`grading/service.py`, `router.py`, `worker.py`) | `task_attempts` with lease token and start, `task_completions`, balance, `learning_reset_at`, `attendance_tasks.is_completed` | submit, replay, claim (worker or inline), grade, persist, reset | leases that expire under a running grader, crashes, request_id races, resets and midnight between submission and verdict | one grader persists; one reward per task and day; verdicts final; no right answer lost; every attempt decided |
| Sandboxes (`grading/sandbox/runner.py`, `sql_sandbox.py`, `runners.py`, `infra/docker/grader/runner.py`) | slots of a process, containers, schemas, two connections a case | run Python, run SQL | limits inside and outside, clean-up that fails or races the daemon, `DROP SCHEMA` against the submission's own locks | slots bound containers; no schema stays; every call ends |
| Player row (`game/commands.py`, `daily_mission/service.py`, `models/user.py`) | balance, `state_version`, settings, active cat, day's claims | select/hide cat, settings, attendance, daily reward, mission reward, reset, every unit-of-work command | copies older than the lock | coins equal ledgers; version advances with the state; patches merge |
| Battle (`battle/service.py`, battle part of `grading/service.py`) | room status, participants, readiness, scores, room tasks, answers | create, join, ready, start, answer, grade, finish | statements under different locks; write skew at the end | scores count a task once; the room ends exactly when complete |
| Executions (`shop/`, `game/gacha.py`, `executions.claim/complete`) | `gacha_executions`, assets, balance | buy, use, draw | same request_id twice at once, lock order, refusal after partial work | executed exactly once; answers to one request_id agree; no lock-out |
| Housing (`housing/`, `game/router.py`, triggers of the migrations) | `placed_objects`, wallpaper and floor of the user, assets | place, move, remove, apply and clear surfaces | re-delivered placements, rotation and edges, a starter pack granted meanwhile | nothing placed that is not owned, overlaps or lies outside; answers tell how things stand |
| Starter pack and snapshot (`game/bootstrap.py`, `game/service.py`) | first rows of a user | grant, read | no lock before the grant; two statements read one room | granted once; the room stays consistent |
| Daily mission and attendance (`daily_mission/service.py`, `claim_attendance`) | `attendances`, `attendance_tasks` | open the sheet, complete a task, claim, attend | two features insert the same row; opposite lock orders; midnight | one sheet and one payment a day; streaks stand on rows |
| Learning (`learning/tier.py`, `proficiency.py`, `presentation.py`) | tier, stored level, presented tasks | read tier, start, submit, grade, reset, retire tasks | sessions with autoflush off; late gradings | a tier is reached when its requirement is met, and not before |
| Recommendations (`learning/proficiency.py`) | none | choose a page of tasks | four overlapping lists, variants of one problem | full, ordered, nothing twice |
| Cat chat and memory (`cats/`) | `cat_memories` | chat, add, delete, delete all | the AI call lies between two transactions; order by the start of transactions | bounded, distinct, newest kept |
| Login and rate limit (`identity/router.py`, `rate_limit.py`, pruning script) | `auth_rate_limits` | log in, prune | two buckets a login, rows deleted between find and lock | failures are limited; every login answered |
| Accounts (`identity/router.py`, `api/dependencies.py`) | `users` | register, sign in from the host system, development session | one e-mail twice at once, counting after a roll-back | one row each; registrations limited |
| Browser sessions (`identity/router.py`, `api/dependencies.py`) | `auth_sessions`, cookies | log in, log out, `/session/me`, any command | answers that overtake each other or are lost | logged out stays out; cookies stay paired |
| Cat gacha without a policy (`gacha/service.py`) | — | draw_cats | — | unreachable: its policy dependency answers 503 |
| Statistics, tasks, health, AI and platform clients, schemas, configuration, migrations, scripts | none of their own, or an append-only log | reads, catalogue upkeep, HTTP calls | — | see "Not modelled" |

### How they meet

All of them meet in the `users` row: balance, version and reset boundary are
written by grading, executions, housing, cats and commands. A battle answer is a
task attempt; its grading updates the room in the same transaction. A daily
answer marks a row of the daily sheet in the same transaction. A reset moves the
boundary that grading compares submissions with. Executions change the assets
that housing counts placements against. A grader's verdict comes from a sandbox,
whose calls always end (`EveryGradeEnds`), which is what `Grading` assumes of it
with the weak fairness of a grader.

## 2. The modules

Each module is the projection of the handlers on one component's state: an
action is a whole transaction (or the part of it between two points where others
can interfere), restricted to that state. Operators named `Faulty...`, and
`UnboundedPays` and `LeakyHoldsSlot`, stand before the definition they imitate;
they are plausible bugs no specification uses, and each property is violated by
one of them.

### `Grading` and `AttemptLedger`

`attempt` is the table by request_id. Every grader (worker or handler) has a
`job`: the lease it believes it has. `form` is what a handler is doing.

| Action | Code |
|---|---|
| `BeginSubmit`, `CommitSubmit` | `create_attempt` before and after the user lock; the second half looks the request_id up again |
| `ClaimNext` | `claim_next_attempt`: the oldest claimable attempt that no one holds (`SKIP LOCKED`: any of the first `Cardinality(Graders)`) |
| `ClaimAttempt` | `claim_attempt` by the handler, for a LEARNING option |
| `Grade` | load under the lease, run outside a transaction |
| `PersistResult` | `_persist_result`: lease check, verdict, completion, coins, daily task |
| `Crash` | the process dies or its transaction rolls back |
| `Reset`, `Tick` | `reset_learning_progress`; time |

`AttemptLedger` is what the rest of the game may rely on: an attempt is accepted
once and decided once, and the deciding step pays at once if the answer is the
first right one of its day and was given after the last reset. `Grading`
implements it (`ImplementsLedger`): an open attempt is one PENDING or RUNNING,
whoever holds it, and leases, tokens, crashes and replays are stuttering. That a
verdict is final and a request_id bound to its first payload follows from it.

### `Sandbox`

One process: its threads, the slots of its two sandboxes, and what a call leaves
behind. SQL goes `case` (slot taken, `validate_sql`), `setup` (schema),
`connect`, `run`, `close`, `drop`, for each case; Python goes `launch`, `docker`,
`remove`. `SessionEnds`, `ContainerStarts` and `ContainerEnds` are the server's
and the daemon's own time: a closed connection keeps its locks until the server
notices, `docker rm` may come before the container exists. `Crash` empties the
process and leaves schemas and containers (`left`). The lexer of `validate_sql`,
the comparison of rows and what a submission does are a choice over outcomes;
`HostTimeout`, `OutputCapped` and `RunnerVerdict` are the ways a run of Python
ends.

### `PlayerRow`

One user's row and the requests in flight, each with its copy. `Load` is
authentication. `LockUnit` refreshes the copy, `LockDirect` does not. `Flush` is
SQLAlchemy's UPDATE: columns that differ from the copy, with absolute values.
Each command of `game/commands.py` is an action; purchases, draws, grading and
the like are `UnitOfWork(s, d)`, which moves `d` coins. `ledger` sums what the
reward tables and executions recorded. Surfaces and the starter pack are in
`Housing`.

### `Battle`

One room. `JoinRoom`, `BeginStart`/`CommitStart` hold the room lock; `ReadReady`
and `WriteReady` do not and so are two statements. `CheckAnswer` sees the room
running, `InsertAnswer` comes after the user lock. A grading is `Judge` (looks
for an earlier right answer), `CountAnswers` (`finish_if_complete`) and
`CommitGrade`; gradings of one user exclude each other, those of two overlap.

### `Executions` and `CommandBook`

A transaction's `pc` says what it holds and what it waits for: `lock` (wants the
user), `claim` (wants to insert the request_id), `share` (inserted, wants the
foreign key's KEY SHARE on the user), `upgrade` (has it, wants FOR UPDATE),
`apply`. Purchases and consumption go lock, claim, apply; draws go claim, share,
upgrade, apply. `Blockers` and `Deadlocked` describe PostgreSQL, which aborts one
transaction of a cycle (`BreakDeadlock`). `Apply` is the rest of the command and
its commit, `Refuse` an error and its rollback. `CommandBook` is the promise: one
page for each request_id, written at most once, in one step with what the command
changes and at its price, and only told again afterwards (`CarriedOutOnce`).

### `Housing`

One room. `PlaceFurniture`, `MoveFurniture`, `RemoveFurniture`, `ApplySurface`
and `ClearWallpaper` are whole commands under the player's lock, through `/game`
or the legacy `/housing` router, whose statuses `GameStatus` and `HousingStatus`
give; `InventoryTrigger` and `SurfaceTrigger` are the two triggers of migration
`bedc36be83e2`. A snapshot request takes no lock: `OpenSnapshot`,
`LookForAssets`, `LookForPlacements`, `GrantStarter`, then `ReadAssets`,
`ReadPlacements`, `ShowSnapshot`, each of which sees what has been committed by
then. `ObtainItem` is whatever adds to the inventory. Furniture is never
consumed, so its quantity does not shrink.

### `DailyMission` and `DayBook`

The attendances of one player. `BeginOpen`, `FindSheet`, `InsertSheet`,
`SharePlayer`, `AssignTasks` are `get_or_create_daily`; `BeginReward`,
`CheckSheet`, `PaySheet` are `claim_reward`; `BeginAttend`, `LockPlayer`,
`LockLatest`, `Attend` are `claim_attendance`. Between them lie the waits: for
the player, for a row, for an uncommitted insert of the same day (`WaitsFor`). A
request keeps the day it began on while `Midnight` passes. `CompleteTask` is the
daily part of `_persist_result`, `ReopenTasks` that of the reset. `DayBook` is
the promise: each day has one page, opened at most once and paid at most once,
by whichever feature. `DailyMission` implements it (`OnePaymentADay`).

### `LearningProgress` and `Recommendations`

One learner in one domain. `attempts` is the history, `since` the reset. Commands
take the learner's lock first and are one step each: `ReadTier`, `Start`,
`Submit`, `GradeAnswer`, `Reset`; `Deactivate` and `Activate` are the authors'.
`Advanced` is `get_or_advance_tier`. The session of a grading has autoflush off,
so `GradeAnswer` computes level and tier from the history **without** the answer
it persists, unless it has to insert the tier's row, which flushes.
`Recommendations` has the algorithms: `Rounded` (banker's rounding), `LevelOf`,
`WeakConcepts`, and `Page` with its four candidate lists; hashes are constant
orders, and `Sorted` is sorting: an element's place is the number of those before
it. `Filled` and `Ordered` say what a page promises, without the passes.

### `CatMemory`

One cat. `OpenChat` is the first transaction (the policy decides by `Category`
whether the provider is asked), `ProviderReplies`/`ProviderFails` its answer,
`StoreMemory` the second transaction. `born` is `created_at`: the start of the
transaction, which is before the wait for the player's row. `Distinct`,
`Retained` and `StoredRows` are `_store_bounded_cat_memory`.

### `RateLimit`, `Accounts`, `BrowserSessions`

`RateLimit`: `BeginLogin`, `FindBucket`, `LockBucket` (for the IP, then for the
account), `VerifyFails`/`VerifySucceeds`; `BucketGone` is the RuntimeError of
`lock_rate_buckets` when `PruneRow`/`PruneCommit` deleted the row in between;
`BreakCycle` the deadlock detector. Times are ages (all the code compares), and
a login takes no time on the scale of a window: `Tick` waits for it.

`Accounts`: `Register`, `Insert`, `CommitUser`, and `Recount` after the e-mail
turned out to be taken; `BeginHost`/`Provision` are `resolve_current_user` for a
user of the host system. `WindowEnds` abstracts the clock.

`BrowserSessions`: `Send` puts the browser's cookies into a call; `LetIn`,
`Refuse` are `get_current_user`, `Login` and `CarryOut` what the call does,
`Deliver` or `Lose` what becomes of its answer. `IsLocal` allows the development
header.

### Support

`MCGrading`, `MCPlayerRow`, `MCBattle`, `MCExecutions` and `MCDaily` hold the
values for TLC. `MCPlayerUnits`, `MCPlayerMixed`, `MCRoomStudy` and `MCRequests`
put components side by side that share no state: `part` says in which of them a
behaviour takes place, so their state spaces add up instead of multiplying.
The proofs are in `GradingProofs`, `PlayerRowProofs`, `BattleProofs`,
`ExecutionsProofs`, `DailyMissionProofs`, in `AccessProofs` (`Sandbox`,
`BrowserSessions`, `Accounts`) and in `RequestsProofs` (`Housing`,
`LearningProgress`, `Recommendations`, `CatMemory`, `RateLimit`); `SetSums` has the
lemmas about sums over a finite set.

## 3. The runs

| Run | Checks |
|---|---|
| `GradingSafety` | one worker and two request slots, two request_ids, an option and a daily task, over a day boundary: all safety of grading and the refinement |
| `GradingLive` | `EveryAttemptDecided`, two workers and a handler |
| `PlayerUnits` | unit-of-work commands alone keep coins exact and advance the version; registrations are limited though roll-backs undo their count; containers fit the slots, schemas are dropped; every registration, sign-in and grading ends |
| `PlayerMixed` | all commands, two overlapping requests: what stale copies cannot do (inflate or overdraw the balance, touch two columns), and what commands do when their copy is current; a browser with or without the host system, whose calls overtake each other and whose answers are lost |
| `BattleRoom` | three users at two seats, three answers, two gradings at once |
| `Executions` | two players, two request slots, two request_ids, every kind of command, crashes and deadlocks: the refinement of `CommandBook`, and every command ends |
| `RoomStudy` | a room while two snapshots grant the starter pack; a learner's tier, level, presentations and page over late gradings, resets and retired tasks |
| `Daily` | three days, two requests: one page and one payment a day (refinement), streaks, no sheet that can never be paid, every request ends |
| `Requests` | two chats of one cat over any old list; two logins at two accounts from one IP with the pruning script; all of them end |

Runs that show a disagreement between code and documents:

| Run | What TLC finds |
|---|---|
| `GradingDaily` | an answer submitted before a reset and graded after it completes the daily task (`grading/service.py:479`) |
| `PlayerLostCoins` | a direct claim overwrites coins that moved after its authentication (`game/commands.py:107`) |
| `BattleStuck` | the last two gradings miss each other and the room stays RUNNING (`battle/service.py:130`) |

The stale copy behind `PlayerLostCoins` has more consequences: a settings patch
restores the other keys' old values, a hidden cat is replaced by what used to be
at home, and the version can go back. `SettingsMerge` and `HiddenCatIsReplaced`
therefore speak of steps whose writer's copy is current (`FreshWriters`), which
is what the commands achieve, and `OneColumnAtATime` and `BalanceNeverInflated`
bound the damage otherwise. `StandingIsEarned` likewise says what the code
achieves: a stored level lags one answer behind.

### Other divergences met while modelling

Each is a behaviour of the modules, without a run of its own.

* A worker may lease the option first, and the request is answered ungraded; an
  inline answer may also be left to a worker (`grading/router.py:64`).
* `claim_reward` pays without advancing `state_version`
  (`daily_mission/service.py:91`, against `docs/architecture/overview.md:9`), and does not look
  at the tasks again after a reset between check and payment.
* Readiness may be withdrawn between the host's check and the commit of the start
  (`battle/service.py:80`).
* The snapshot reads assets and placements in two statements, while its docstring
  (`game/service.py:37`) calls it consistent. It clamps the difference (line 175).
* The legacy `/housing` router answers 500 where
  `docs/architecture/part3-integration-contract.md:636` lists reasons.
* `_refresh_window` (`rate_limit.py:133`) ends a block with the window it was
  counted in, so a late block is shorter than `docs/features/production-authentication.md:34`
  says.
* `get_or_create_daily` asks for recommendations without the reset boundary
  (against `docs/features/authoritative-learning-rewards.md:32`).
* An active presentation of a SILVER task survives a reset although the task is
  locked; returning it does not commit the tier, so `run_code_test` may refuse it.
* A chat message that is blank once normalised raises KeyError
  (`cats/chat_policy.py:83`).
* An SQL failure of the infrastructure is reported as RUNTIME_ERROR
  (`sql_sandbox.py:277`, against
  `docs/features/verified-grading-checklist.md:59`); containers whose output was
  capped are removed after their slot is given back (against
  `docs/features/part2-integration-contract.md:360`).
* A login leaves earlier sessions alive although its docstring says "rotate"
  (`identity/router.py:133`); a host user whose e-mail is another row's is
  answered 500 (`api/dependencies.py:144`).

### Bounds

* `Grading`. `MaxTime`: the clock stops. With `Lease` 1 and a day of 2 ticks the
  safety run has a lease that runs out and is taken over, a day boundary, and a
  reset before and after every submission and verdict. In the live run a stopped
  clock says that from some moment on a grading ends within its lease; without
  that, leases could expire for ever. `CrashHorizon`: no grader dies from this
  time on, likewise. Safety needs one death and one take-over; the proofs have no
  such limit. Two request_ids and one user suffice for one-reward-per-day and for
  a replay racing an insert; three processes for a holder, a usurper and a
  bystander.
* `PlayerRow`. `MaxVersion`, `MaxFlow`: no request takes the lock beyond them.
  Seven coins are any two rewards; the bonus (4) comes after the reward it waits
  for.
* `Battle`. `Attempts` and `Workers`: a repeated answer of one member and the
  other's; two gradings at once is where write skew starts.
* `Executions`. Two transactions already deadlock, conflict and replay; 2 coins
  pay for one command or the other; `snack` can be used up and bought again.
* `Housing`. A room of 2 by 2 cells and a sofa of 2 by 1 has every case of turned,
  touching, overlapping and outside; one placement by id beside the starter's;
  `MaxOwned` 1 makes a second placement too many; two overlapping snapshots.
* `LearningProgress`. Four tasks of two concepts, two of them variants of one
  problem, in two difficulties; `MaxAttempts` 3 is a promotion, a reset and a late
  answer; `MaxPresentations` 2 an old and a new one; two days for the rotation.
* `DailyMission`. Two requests, three days: a gap, a yesterday and a today. One
  task is open or completed, as two would be.
* `CatMemory`. A limit of 2, three summaries, any of the four old rows (more than
  the limit, one summary twice); `MaxClock` leaves room for three stores more.
* `RateLimit`. Window, block, limit and retention of 2: a window may end before,
  with or after a block. One IP and two accounts, so that one is guessed at and
  the other one's own.
* `Accounts`. Two IPs with a limit of 1, two e-mails, one of them the development
  user's, and a user of the host system who may ask for either.
* `BrowserSessions`. Two calls and two tokens: a login over a login; a browser of
  the host system and one without.
* `Sandbox`. Two threads at one slot, two cases, four kinds of failure
  (the submission's, a time limit, a memory limit, the system's); `MaxLeft`
  bounds what crashes leave.

Symmetry is used only in runs without liveness, over sets that no definition
distinguishes. `Battle` disables deadlock checking: a finished room with all its
answers given really stops.

### Fairness

* `Grading`: weak fairness of every worker's claim (the loop in `worker.py` polls
  for ever), of a request in flight, of a grader that is not dead, and of time.
  Clients, resets and crashes owe nothing.
* `Executions`, `DailyMission`, `Accounts`, `RateLimit`: strong fairness of a
  transaction's next step (PostgreSQL queues the waiters of a row, so one that
  can proceed again and again does), weak fairness of the deadlock detector; the
  pruning script, once it has begun to delete, goes on.
* `CatMemory`: weak fairness of the provider's failure or the store, for the
  client has a timeout (`integrations/ai/gemini.py`) and the row's waiters queue.
  That the provider answers is not assumed.
* `Sandbox`: strong fairness of a thread's next step: semaphores queue, statements
  and containers have time limits, and a server notices a closed connection.

## 4. The proofs

`tlapm` proves, for every value of the constants allowed by the named `ASSUME`:

* `GradingProofs`. `TypeCorrect` first. `VerdictsAreFinal` and `RequestsBindOnce`
  follow from it and from what each action can do to a row (`RowNext`).
  `LeasesAreExclusive` needs `LeaseInv`: tokens in use lie below `nextToken` and
  no two busy graders share one, since a fresh token invalidates the last one
  (exclusiveness alone is not inductive). `RewardsAreUnique` and
  `CorrectAnswersAreKept` need `LedgerInv` (each completion is that of a decided
  right attempt, keys are unique, only the first attempt of a key has coins) and
  `NothingLost`. `GradingImplementsLedger` maps each step to `Accept`, `Decide...`,
  `Forget` or a stutter, under these invariants. `BalancesAreLedgers` is inductive
  with the type invariant: only an attempt not paid yet changes, and its coins and
  its user's balance change together (`LedgerPays`).
* `PlayerRowProofs`. `TypeCorrect` includes mutual exclusion of the lock.
  `CoinsAreBounded` strengthens the bound to every copy in flight (`CoinInv`): a
  stale copy has at most the rewards recorded by then, so writing it back plus
  the new reward stays below the sum. `UnitsKeepBalance` and `UnitsAdvanceVersion`
  need `FreshInv`: who holds the lock has the row. `StaleCopiesReachOneColumn`,
  `FreshPatchesMerge` and `ActiveCatIsReplaced` are about a single step from any
  typed state, the last two a step of a writer whose copy is current.
* `BattleProofs`. `TypeCorrect` needs that the room has no answers while it waits.
  `ScoresCountOnce` needs `GainInv`: gradings of one member exclude each other (the
  user lock), so the points a grading found out about are still right when it
  commits. `FinishedBattlesAreComplete` needs `EndInv`: a grading that will end the
  battle has counted an answer for every member and task. That counting as many
  answers as members times tasks means having them all is a cardinality argument
  (`CountedIsCovered`); that the count stays valid until the commit needs that
  members and tasks are settled and answers are never taken back.
* `ExecutionsProofs`. `TypeCorrect` includes non-negative balances and quantities
  and one holder for each lock. `RequestsHaveOneAnswer` needs `AnswersInv` (an
  answer is the one stored with the completed execution) and `NewCatsAreNew` needs
  `CatsInv` (cats given are still owned). `EffectsAreExact` says that
  each player's coins and items are the start's plus the effects of the completed
  executions: a row completes in the step that applies its effect, and once
  completed never changes. `ExecutionsImplementBook` maps `Apply` to `Write` and the
  claim that finds its own completed row to `Tell`; all else stutters. That the
  page is still blank when a command is applied, long after its claim, is the part
  of `TypeCorrect` about locks on a request_id; that the player can bear the
  effect is `EffectTypes`. `AnswersAgree` follows from the book alone
  (`BookAnswersAgree`), so no run of its own checks it. `DeadlockNeedsADraw` follows a waits-for chain: who has
  both locks waits for nobody, so who waits for a request_id, and then who waits
  for the player, waits for somebody outside the cycle.
* `DailyMissionProofs`. `DailyInv` adds to the type invariant what a request may
  count on at each stage (`PhaseOK`: a sheet about to be paid is locked and not
  paid; `StreakOK`: the streak about to be written stands on the row before it),
  for `SheetsCanBePaid` and `StreakNeverInflated` are not inductive alone. What
  others write keeps these facts because rows are never deleted, streaks never
  change (`SheetsStay`), and nobody else inserts the same day or holds the same
  row (`Apart`). `AttendancesImplementTheBook` maps each write to `Open` or `Pay`.

* `AccessProofs`, about what lets calls in.
  `SandboxInv` has, for each thread, which of schema, transaction and container
  exist in which phase (`ThreadOK`), and that no domain has more holders of a slot
  than slots. `ContainersFit` follows because a container exists only in phases
  that hold a slot. `SchemasDropped` is about a step: what a phase leaves behind.
  `SessionsInv` has who may know a token: one browser and the calls it sent
  (`TokensHaveOneBrowser`), or, before the login's answer arrives, that answer alone
  (`NewTokensAreSecret`); that a dead session stays dead (`DeadStaysDead`); and that
  a jar with a revoked session waits for the answer that clears it or has lost it.
  `CookiesStayPaired` and `LogoutIsFinal` follow; neither is inductive alone, for an
  answer in flight may overwrite the jar with what nobody has looked at yet.
  `AccountsInv` has what a request knows of the row it found (`ProvisionsOK`), and
  that each registration let through is counted or about to be, by a request that
  found room in the bucket and still has it locked (`BucketsHaveRoom`), from which
  `RegistrationLimit` follows.
* `RequestsProofs`, about what requests leave behind. `HousingInv` is
  the types, `RoomIsConsistent` and `AnswersAreTrue` together: the trigger of a
  write needs what is placed to be owned, and answers need the rows.
  `CellsApart` compares the cells of each pair of objects across a step.
  `LearningInv` is stronger than `StandingIsEarned`: the tier stands on tasks solved
  since the reset (`TierExplained`), and a stored level is the one the history gives
  with one judged answer of the concept taken as pending (`LevelExplained`). Both
  must survive what happens to other answers, which is what the lemmas on the
  newest answers to a concept are for (`SameAnswers`). `PageDue` has no induction over steps (it holds in each typed state)
  but a long way from the four passes to `Filled` and `Ordered`. `SortedIsSorted`:
  ranks by a strict order are a bijection with 0 .. n - 1, so `Sorted` lists each
  element once. `QueueRepresents`: a concept's queue has each of its problems once.
  `DiversifiedIsDiverse`: no concept comes twice in a list before each has come
  once. `Joined` and `Assembled` give each task of the four lists in a row its list
  and its place there. Of an element `OncePerProblem` keeps, the class is the number
  of its list (`KeptFromItsList`), and each problem of a better class is kept before it
  (`BetterIsEarlier`): hence the order, what is kept off the page, and the turns
  (`ConceptsTakeTurns`). `PageIsFilled` counts problems by a bijection.
  `StoringIsRight` proves, for every
  limit and list, that what `Distinct` and `Retained` keep is bounded, distinct and
  newest. `RateInv` relates the failures of an IP to its bucket
  (`FailuresAreCovered`): its newest failures are counted in the window that is
  open, and those from before are at most the limit. `FailureLimit` follows for blocks no shorter
  than the window.
* `SetSums`. That a sum is an integer, depends on the values alone, and changes by
  what changes. The community modules define it by recursion over the set; since an
  induction theorem cannot be instantiated here, the proofs take a smallest subset
  for which a fact fails (`SmallestSet`).

The assumptions on constants beyond types are what the code has. Sets of
requests, threads, rows and tasks are finite. `HousingAssumption`: a starter
placement of an item with a size lies inside the room,
as those of `app/modules/game/catalog.py:352-358` do; the grant does not look.
`LearningAssumption`: percentages lie in 0..100 and requirements are natural
(`PROMOTION_POLICY` of `app/modules/learning/tier.py`). `RateLimitAssumption`: limits of at least two
(`app/core/config.py:25`), and rows that are not pruned while a window or a block
lasts (`scripts/prune_auth_rate_limits.py:13`). `NoRow`, `NoBucket`, `None` and
`NoOne` are no value of what they stand beside. `RecommendationsAssumption`: the
orders hashes induce have no ties. Among the tasks of a group the stable sort of
`app/modules/learning/proficiency.py:297` breaks a tie by id, the order of the rows,
which makes the order strict; two concepts whose 8-byte hashes of the day agree
are left out. Ranks are natural numbers, for each day the clock reaches.
`WithinWindow`, `RecentAnswersTo`, `LevelOf`, `OncePerProblem` and `Sorted` are written
with positions of a sequence and with cardinalities instead of `SelectSeq`,
`SortSeq` and folds, of which the provers know nothing; the runs check them in
this form. `FlattenSeq` is the library's: its recursive function is unfolded for
the three and the four lists there are.

Only model-checked: everything under fairness (`EveryAttemptDecided`,
`EveryCommandEnds`, `EveryDailyRequestEnds`, `EveryRequestEnds`), which the provers
cannot reason about, and the runs that find a violation.

## 5. Not modelled

* `gacha/service.py` cannot run (its policy answers 503); `grading/lifecycle.py`
  is called from nowhere.
* Statistics and the activity log only count or append committed rows; the health
  report is a function of the clock; the task catalogue validates one row at a
  time (retiring and restoring tasks are in `LearningProgress`).
* The AI, AX platform and host clients are external: the modules have their
  outcomes. Schemas, configuration, migrations, seed scripts and infrastructure
  have no state at run time; the tables, unique keys and triggers the handlers
  meet are modelled with them.
* The tokens of `validate_sql`, the regular expressions of the chat policy and the
  hashes of the recommendations are abstracted to their outcomes.
* Processes of the sandbox do not share slots with one another: one is modelled.

## 6. Plan

Done: all components of section 2, model-checked; and, proved, the type invariant
of every component with state, every safety invariant and action property the
passing runs check, and the three refinements.

Left: shorter proofs where two actions share a shape.
