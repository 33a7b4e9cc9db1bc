# Verification of buju-agent-orchestrator

TLA+ modules, TLC configurations and TLAPS proofs for the orchestrator: the
deterministic worker of `src/`, and the live strategy runner, its daemon and the
activity fetcher with its probe log of `scripts/`.  `PROJECT.json` lists the components, the runs,
the mutants that show each property to be breakable, the source lines behind
every definition (`map`), the hazards and the theorems.  Paths below are those
of the repository.

## 1. The system

### 1.1 The worker (`src/`)

| component | state | operations | what makes it correct |
|---|---|---|---|
| lock (`worker/fs-lock.js`) | one file and its mtime, shared by all processes | acquire (two attempts: open `wx`, stat, unlink), touch, release | at most one loop runs; the file at the path is its own; a file left by a crash is taken over |
| loop (`worker/loop.js`) | tick number, lock handle, the promise of the current tick | tick under a timeout, heartbeat with retries, sleep, release | it ends whatever the transport does; each tick is closed in the log |
| action executor (`client/action-executor.js`) | map from action to time of its success | prune, look up, call up to `maxAttempts` times with backoff | nothing that succeeded within the window is sent again |
| cooldown guard (`engine/action-cooldown-guard.js`) | map from action to time of its last attempt | checkAndMark, prune | an action is not tried twice within its cooldown |
| circuit breaker (`engine/execution-failure-circuit-breaker.js`) | streak, `openUntilMs` | evaluate, recordExecutionStatus | opens exactly at the threshold, blocks for one cooldown, never for good |
| gates and rules (`engine/safety-gates.js`, `engine/fsm-rules.js`) | none | one decision per snapshot | overlapping rules and absent fields lead to a safe action |
| event log (`ops/jsonl-logger.js`) | a chain of promises, a file | append | records in the order of the appends; one failed write rejects the rest |
| replay analyzer (`ops/replay-analyzer.js`) | a state per tick id | reads a log, reports order errors | what the loop writes passes it |

A tick asks gates and breaker, appends `tick_started`, `safety_evaluated` and
either `tick_blocked` or `decision_made`, calls guard, executor and transport,
reports to the breaker, appends `action_executed` and `tick_finished`.  Every
append is awaited.  JavaScript has one thread, but the timeout of a tick does
not cancel it: it goes on between the steps of the ticks that follow, shares
their breaker, maps and log, and reports with the time of its own start.
Processes meet at the lock file only.

### 1.2 The live runner (`scripts/`)

| component | state | operations | what makes it correct |
|---|---|---|---|
| daemon (`live-runner-daemon.sh`) | PID file | test, read, probe and write of the file, trap, loop | one daemon; a start is refused only while one runs |
| runner (`live-strategy-runner.js`) | stall table, outcomes, danger surrenders, 429 streak, forced-hunt limit, all in module variables | `step()`: status, inventory, then stages of which the first to succeed ends the tick | a refused call rests; one fight per tick; dressed before it fights; it does come to fight |
| liquidation (same file) | a local copy of the bag, an estimate of used slots | sells worse gear, then ordinary gear, down to a goal | worn pieces stay; not more is sold than needed; it stops for a reason |
| monster choice (same file) | the last fights and the last danger surrenders | `chooseMonsterPlan`, the danger gate | whom it takes it does not give up at once; the easiest under pressure; no risk for nothing |
| fetcher (`lib/activity/fetch-activity-kpis.js`) | none but the probe log | ask endpoints in order, fall back on the worker's log, add a line, report | what it reports is its own run |
| probe log (`lib/activity/probe-log.js`) | a file with a size limit | stat, read, write, append | within its limit, in order, newest lines kept, whenever it is killed |
| probe summary (`lib/activity/probe-summary.js`) | none | read the log, take a window, sort, count failures at the end | a streak is one of failures that followed each other, whatever the log has lost |
| director, one-shot tick, cycle script | files they read and write | see section 6 | not modelled |

The daemon starts the runner again and again; the runner's memory lives as long
as its process.  The game server is external: it may refuse (400), limit (429),
drop or deprecate a call.  A run of the fetcher reads what the worker's logger
has written (only when no endpoint helps) and what earlier runs of its own have
left in the probe log.

### 1.3 What is hard

Ticks that answer after their timeout; a look at a file and the call that relies
on it; crashes between two file operations; refusals and limits in any order
over several ticks; stages that end a tick and so may starve the last one, the
fight; two judgements of one thing with thresholds of their own; what can be said
from a log that was cut, half written or written by a clock that went back;
numbers at their boundary (age equal to the TTL, count equal to the threshold,
absent fields).  `PROJECT.json` lists them as `hazards`, each at its
line and with the properties aimed at it.

## 2. Modules

| module | models | composed from |
|---|---|---|
| `SingleHolder` | abstract: what the worker lock promises | |
| `WorkerLock`, `MCWorkerLock` | `fs-lock.js` and the loop's use of it | implements `SingleHolder` (INSTANCE) |
| `WorkerLock_proof` | proofs | `WorkerLock` |
| `CircuitBreaker` | the breaker as operators on a record | |
| `BreakerClient`, `BreakerClient_proof` | the breaker with one caller and a clock; proofs | `CircuitBreaker` |
| `ReplayAnalyzer` | the analyzer's order rules as predicates on a log | |
| `WorkerLoop`, `WorkerLoop_proof` | `loop.js` with guard, executor, logger; proofs | `CircuitBreaker`, `ReplayAnalyzer` |
| `Decision` | gates, rules and target check over snapshots | |
| `Targeting` | `chooseMonsterPlan`, the danger gate and what passes between them | |
| `MCChoices`, `Choices_proof` | the instance of the two choices; proofs | `Decision`, `Targeting` |
| `DaemonLock`, `DaemonLock_proof` | `live-runner-daemon.sh`; proofs | |
| `Liquidation`, `MCLiquidation`, `Liquidation_proof` | `liquidateInventoryRisk`; proofs | |
| `LiveRunner`, `MCLiveRunner`, `LiveRunner_proof` | `step()` and `main()`; proofs | |
| `ProbeLog` | `appendActivityProbeLog`, a step per file operation | |
| `ProbeSummary` | `buildActivityProbeSummary` as operators on the lines of a log | |
| `Fetcher`, `MCFetcher`, `Fetcher_proof` | `fetchActivityKpis` and its main: runs one after the other; proofs | `ProbeLog`, `ProbeSummary` |

### Correspondence to the code

* **WorkerLock.** `file` is the file with its creator and its mtime; `pc[p]`
  names the call a process awaits.  Each awaited file-system call is a step:
  `Create`/`OpenExists` (open with `wx`), `WriteRecord`, `StatFresh`/`StatStale`,
  `Unlink`, `Touch`, `Release`.  `IsStale` compares as `isLockStale` does (`>`,
  and a missing file is stale).  `touch` and `release` act on whatever file is
  at the path, as in the code.  Regime constants: `Overlap` (starts may race),
  `Leaves` (holders may finish or crash), `Stalls` (holders may be late with the
  heartbeat).  Timing assumption: `Beat <= TTL`; the defaults give a heartbeat
  per interval plus timeout and a TTL of three intervals.
* **WorkerLoop.** `tick[k].pc` is the await of tick k, `loop.pc` that of the
  loop.  `queue` is the logger's chain; an append and the resumption of its
  caller are one step because the promise of the write resumes them in order.
  `StartTick` is all that runs up to the first await, `Skip`/`Send` all from
  `decision_made` to the next await, including the guard's mark and the
  executor's prune.  `Report` gives the breaker the tick's start as its time;
  the loop's own report after a timeout gives the present.  Switches: `Hangs`,
  `Late`, `HeartbeatFails`, `DiskFails`.  `blamed`, `sends` and `delivered` are
  history variables for the properties.  A crash needs no action: what holds in
  every state holds wherever the process is killed.
* **DaemonLock.** Every command of the script is a step, `echo $$ >` two (open
  and write).  The trap removes the file and returns, so `Signal` leaves the
  loop running; `Exit` is a signal that also kills `sleep`, which `set -e` turns
  into an exit.  A pid may be given out again, to a daemon or to another program
  (`Foreign`).  `incidents` records races, survived signals and reused pids.
* **Liquidation.** The candidates and their order are CHOOSE over the sort keys
  of the code; `slots` is `currentSlots`, the code's estimate; the shop may take
  the sale, refuse it or fail.  `UsedSlots` is what the server would count.
* **LiveRunner.** One action per stage of `step()`, in the code's order; a stage
  whose guard is false passes to the next.  `Stage` is the common shape: call,
  record the result, end the tick on 200.  `seen` is the snapshot read at the
  start of the tick, which later stages go on using; `world` is what the server
  has.  `Noted` is `recordActionResult` (`Recorded`
  for one key), `Skipped` is `shouldSkipAction`.
  Abstractions: health, levels, areas and the bag are small enumerations
  (`hp` "fine" is at or above the potion and rest thresholds; `risky` is any of
  the reasons to give a fight up; `crowd` says whether the bag is at its trigger
  and what can be sold; upgrades are in `spare`); an accessory is always worn; a
  missing smith is a missing budget for enhancing; the sales of one clean-up
  are two at most here, `Liquidation` has them all.  `setting`, chosen at the
  start, is the configuration of a process and what the game may do to it.
* **BreakerClient.** The breaker with a caller whose clock does not go back;
  `history` is what was recorded since the breaker last reopened, and `Trailing`
  the failures in it that no success follows.
* **Decision.** A snapshot is a record of boundary values and absent fields;
  `Or` is `??`, with the default each place in the code gives.
* **Targeting.** `Choose` is `chooseMonsterPlan` and the call of `/combat/start`,
  `Answer` what that call tells of the fight, `Meanwhile` an answer of another
  call that is noted while the fight is on, `GiveUp` the danger gate of a later
  tick, `FightEnds` any other end.  `Passes` is the filter, `TooStrong` the
  gate; both read the two windows, `outcomes` and `surrenders`.  Numbers are
  scaled integers (dangers in tenths, efficiencies in hundredths); the score and
  the id break ties only and are a free choice among the tied.  `choice` keeps
  the list, the player and the pressure of the moment, for the properties.
* **Fetcher, ProbeLog, ProbeSummary.** `ProbeApi` and `ProbeNothing` stand for
  everything up to the last answer: nothing but the answers is remembered of
  it.  `ReadReplay`, the file operations of `ProbeLog` (stat, read, the two
  halves of writeFile, append) and `Summarise` are the awaits that follow; each
  may fail (`Fail`), the append may be cut short (`FailHalfWritten`), and the
  run may be killed at any of them (`Kill`).  A line is its size, time, entries,
  and whether it is readable (`whole`) and has its line end (`ended`).  An
  answer is useful, empty, garbled (a payload the summary stumbles over, so
  that its endpoint is noted twice), refused or lost.  `added` is the history of
  all readable lines.  `NewestTail` is the scan of `takeNewestJsonlTail` from the
  end of the file: `WithLine` takes a line, passes it over or stops, and `Ended`
  is the line end the code gives to every line it keeps.  The events of a
  summary are a set under the order `Before`, which is the order the code sorts
  them in: it is total, so the set says as much as the sequence, and a streak is
  the number of failures that come after every ok.  One run at a time: nothing
  in the repository starts two.

## 3. Runs

Each run answers one question; sizes are of a run with two workers.

| run | instance | shows |
|---|---|---|
| `lock_serial` | 3 processes, TTL 2, time to 5, one start at a time, crash and finish anywhere; symmetric | `TypeOK`, `MutualExclusion`, `HolderOwnsFile`, implements `SingleHolder` (`ImplementsSingleHolder`; 1.4M states) |
| `lock_live` | 2 processes, racing starts, crashes up to time 1 | `AlwaysTakenOver`, `AcquireEnds` |
| `lock_race` | 2 processes, racing starts on a stale file | **violation** of `MutualExclusion` |
| `breaker` | threshold 2, cooldown 2, time to 6, four calls | streak against the history of calls (`StreakIsHistory`), length of the block (`BlocksForOneCooldown`, `OpenIsTemporary`) |
| `loop_hung` | 3 ticks, 2 actions, calls that never return | `TypeOK`, log order (`LogIsOrderly`), one failure per tick (`StreakCountsTicks`), `NoDuplicateDelivery`, `NoCallWhileOpen` (1.1M) |
| `loop_live` | 2 ticks, late answers, failing disk and heartbeat | `DecisionIsLogged` before the call, `TicksAreClosed` even while late ticks are still writing, `TicksWeighTwoAtMost`, `ReopensInTime`, `LoopEnds` (1.4M) |
| `daemon` | 3 pids, signals, kills, reuse, races | when the guard holds (`SingleDaemon`, `LockNamesDaemon`), and when a start is skipped (`SkipsOnlyDuplicates`; 1.5M) |
| `sell` | 4 items of 2 slots, 2 places, up to 2 pieces each, any answers | worn pieces stay (`KeepsWorn`), `AllWorseSold`, `NeverOversells`, `StopsForAReason` (40k) |
| `runner` | three settings: six ticks with refusals, 429s and drops; hunt mode with other troubles; daemon with every call answered | `StallsHonoured`, `AdaptiveBackoff`, `OneFightPerTick`, `FightsDressed`, `FightsAgain` (0.5M) |
| `runner_armour` | a level-2 character without armour | **violation** of `WaitsForArmour` |
| `choices` | the worker's: 8 x 7 x 7 x 4 values and four flags; the runner's: lists of up to two of 44 monsters, with and without armour | `ShieldedUnderPressure`, more energy never makes it more timid (`EnergyEmboldens`); gate against filter (`NoNeedlessSurrender`), `EasiestUnderPressure`, `NoRiskForNothing` (1.6M) |
| `fetch` | three settings: two endpoints and two windows; four runs and a disk that cuts a line; lines as large as the limit | `SizeBounded`, `KeepsNewest`; the report against the run (`ReportShowsRun`) and against the whole history (`StreakIsReal`) (1.2M) |

### The bounds and why they are enough

* Locks: three processes let one hold, one judge and one take over; two suffice
  for the race, and the proofs lift the safe regimes to any number.  The clock
  passes the TTL twice.
* Loop: threshold 2, window 3 and cooldown 2 with three ticks one time unit
  apart let the breaker open, block and reopen, an action be suppressed and
  forgotten, and a retry happen.  In `loop_live` the threshold is 4, above the
  two failures a tick can weigh, so that one that weighed three would show.
* Runner: six ticks let a streak of two 429s, the forced hunt that follows and
  the cooldown after it all end before the process does; the daemon setting has
  no bound on the number of processes.
* Sell: two places of one slot, two pieces of an item and one slot more than
  the trigger give every relation of worn, reserved and spare pieces.
* Choices: the monsters lie on both sides of every limit a player of level 5 and
  defence 20 gives: attacks around 115, 135, 145 and 160 per cent, levels up to
  three above, and no level; two experiences put efficiencies in and out of the
  band.  Two monsters are enough to prefer the wrong one.  The windows are 4, 3
  and 2 long (12, 8 and 4 in the code) so that they fill and forget; the proofs
  are for any lengths and any lists.
* Fetch: four runs let a line be cut off, another be glued to half a line and a
  third report from the rest; times 0 to 2 with a lookback of 1 put runs inside
  and outside the window and let the clock go back.
* `MaxClock`, `MaxCalls`, `MaxAge`, `LastCrash` and the `runs`, `cuts` of a
  setting are named bounds;
  at its bound the clock counts every timer as due, so nothing waits for ever
  because of the bound.  `CHECK_DEADLOCK FALSE` is given where the system stops:
  the loop when it is down, a clean-up when it is through, a process that is not
  started again, the fetcher after its last run, a choice of the worker.

### Fairness

* `WorkerLock`: awaited calls return, time passes, a loop that is not running is
  started again (the supervisor).  Nothing makes a holder finish.
* `WorkerLoop`: timers fire, a tick whose await is a write or a sleep goes on,
  a broken log goes on rejecting.  The transport is under no fairness: it may
  never answer, and `LoopEnds` holds regardless, by the timeout.
* `LiveRunner`: every call comes back (`req` has an abort timer) and the
  daemon's `while true` goes on: weak fairness of the next-state relation.  The
  choice of what a fight brings is free.
* `DaemonLock`, `Liquidation`, `Decision`, `Targeting`, `Fetcher`: safety only, no
  fairness.

## 4. What disagrees with the documents

Two are runs, with the finding in `PROJECT.json`:

* **`lock_race`** (`src/worker/fs-lock.js:98`): `unlink` does not look at the
  file again.  Of two starts that judged the same stale file, the slower removes
  what the faster has created, and two loops run.
* **`runner_armour`** (`scripts/live-strategy-runner.js:890`): the armour
  override is null in area 1, so a character without armour and past the level
  threshold moves out, back, and out again.  Each move ends its tick: it does
  not fight until it has armour.  `FightsAgain` excepts exactly this.

The models show others, which the properties state as conditions:

* A signal makes a daemon drop its lock and go on; two starts at once both see
  no lock; a reused pid makes a start be skipped without a daemon
  (`scripts/live-runner-daemon.sh:10-20`).  `SingleDaemon`, `LockNamesDaemon`
  and `SkipsOnlyDuplicates` name these incidents as their only exceptions.
* The executor remembers an action when its call has returned
  (`src/client/action-executor.js:64`): with late ticks two ticks may deliver
  it, so `NoDuplicateDelivery` is checked where a timed-out tick stays silent.
* A tick that times out and then fails counts twice (`src/worker/loop.js:291`
  and `:405`): `StreakCountsTicks` without late answers, `TicksWeighTwoAtMost`
  with them.
* After a finished tick a failing heartbeat logs `tick_error` for that tick, and
  a restarted worker numbers its ticks from 1 in the same file: both logs fail
  the validator (`src/ops/replay-analyzer.js:125`, `:233`).
* The lock is released when the loop is down, though a tick that timed out may
  still be calling (`src/worker/loop.js:437`): a successor may call at the same
  time.
* Stall cooldowns end with the process, and `config/strategy.env` has one
  action per process: `AdaptiveBackoff` holds within a process.
* The emergency equip does not ask whether its key is stalled
  (`live-strategy-runner.js:823`); it is not among the `Guarded` keys.
* A tick that surrendered to tidy the bag and sold nothing goes on with its old
  snapshot and may surrender again (`:745`).
* The window of danger surrenders is one of surrenders, not of ticks (`:426`).
* Spares sold of a worn item free no slot but lower `currentSlots` (`:310`): a
  clean-up may stop above its goal.  `NeverOversells` is the side that holds.
* Ordinary sales come before equipping and reserve worn pieces only: an upgrade
  that is rare enough may be sold before it is worn (`:762`).
* For the same reason the clamp to the least dangerous monster after two
  surrenders is not temporary, as its comment says (`:496`), but lasts until the
  process ends; so does the safety retreat.  `EasiestUnderPressure` states what
  the clamp does while it lasts.
* The band of .985 under pressure (`:543`) has no effect: one monster is left by
  then.
* Danger is weighed 1.5/5 by the filter, 1.6/6 by the fallback, 1.4/5 by the
  ranking (`:452`, `:505`, `:481`).  They may disagree: where no monster is safe,
  the one the fallback takes may be given up by the gate while another would not
  be.  `NoNeedlessSurrender` is about lists with a safe monster.
* The gate grows stricter with a defeat heard of in another fight while one is
  on (`:786`): `NoNeedlessSurrender` excepts these fights (`later`).
* Between `lowHpRatio` (.35), above which the character does not rest, and .4,
  below which the gate gives a fight up (`:791`, `:831`), fights are begun and
  given up again unless something else heals it.
* `docs/DECISIONS.md:2031` says the probe log is written "exactly once per
  `activity:fetch` run": a run whose fallback cannot be read throws before its
  line is written (`fetch-activity-kpis.js`); nor is a killed one in it.
* Streaks are of endpoints with the hours put into them: the same template asked
  with other `--hours` has a streak of its own, and runs that ask nothing count
  for `hours=1`.  `materializeEndpoint` also rewrites the `hours=1` that begins
  `hours=12` (`common.js:11`).
* A line of more than half the limit may be passed over while older ones are kept
  (`probe-log.js:86`): `KeepsNewest` and `StreakIsReal` assume lines of half the
  limit at most (`Roomy`); by default it is 256 KiB.
* `README.md:117` calls the log `activity-probe-log.jsonl`, the code
  `activity-probe.jsonl` (`constants.js:8`).

Where a listed behaviour has no run of its own, the property that comes closest
names it as its exception, so that a change of the code in either direction
shows.

## 5. Proofs

Eight modules are proved from the named assumptions of the modules they extend;
there are no bounds on processes, ticks, thresholds, bags, monsters or time.

* **`WorkerLock_proof`** (assumptions: constants are numbers, `Beat <= TTL`).
  `TypeCorrect`: `Spec => []TypeOK`.  `MutualExclusion` is not inductive: that
  nobody unlinks under a holder depends on the age of the file.  `IInv` adds
  `HolderFresh` (a holder's file is there, carries the mtime the holder gave it
  and is at most `Beat` old), `TouchOrdered` (the time a heartbeat has read is
  not before the mtime), `NoUnlinkWhileHeld`, and what each regime gives
  (`AcquiresApart`, `HeldForEver`).  `StaleMeansFree` is the heart: a file
  judged stale has no holder.  Under `Safe` (holders are never late, and either
  starts do not race or holders do not leave) it follows that `LockExcludes`,
  `LockKept` and, step by step, `LockRefines`: the lock implements
  `SingleHolder`.  `lock_race` shows that `Safe` cannot be dropped.
* **`WorkerLoop_proof`** (numbers are positive where the code makes them so).
  Every safety property of the loop, in layers that rest on each other.
  `Typed` is the type, also of what the histories keep.  `OInv` is the logger's
  chain: each waiting tick has one record in it, which fits the await, so that
  the write of a record resumes the tick that waits for it and no other.  `LInv`
  says the same of the loop's own records.  On these rest, whatever goes wrong:
  `DecisionLogged` (`SInv`: what was sent has its decision in the log),
  `OpensForOneCooldown` (`RInv`: the times ticks report are not in the future),
  `TicksWeighTwo` (`FInv`: a blamed tick that may still weigh another failure
  has weighed one so far) and `EveryTickClosed` (`GInv`: all ticks behind the
  loop are terminated in the log, those ahead have no record).  If ticks that
  timed out stay silent, `NothingSentWhileOpen` (`CInv`: the breaker lets the
  awaited tick through until it is executed), `NothingSentTwice` (`DInv`: what
  succeeded within the window is in the executor's map) and `StreakIsTicks`
  (`EInv`).  If besides no heartbeat fails for good, `LogOrderly` (`HInv`: what
  the log tells of the awaited tick is what its await says).  The runs with
  late ticks show what each of the conditions is for.
* **`BreakerClient_proof`** (threshold positive, cooldown a natural): `BInv`
  ties the breaker to `openedAt`; `OneCooldown` and `NeverShutForGood`.
  `StreakCountsFailures`: the counter is the number of failures of the history
  that no success follows, skipped calls between them or not.  `StreakIsHistory`
  is inductive together with `BInv`; `TrailingAppend` says what a record adds to
  that set.
* **`Choices_proof`** (thresholds are numbers of the code, fields any numbers or
  absent; levels, attacks and experience are naturals, lists finite, windows
  longer than 1).  The worker's choice: `FirstRule` and `Decisions` turn the
  minimum over the rules that apply into cases; `PressureShields` and
  `MoreEnergyAttacks`.  The runner's: `IInv` adds `Agreed`, which is
  `NoNeedlessSurrender` from the choice on, before the fight is known to be on.
  `ThresholdsAgree` compares the limits of filter and gate with and without
  pressure, `GateNotStricter` shows that an answer without a defeat leaves the
  gate as it was: `GateAgreesWithFilter` and `PressureTakesEasiest`.
  `TakesNoRiskForNothing` is about numbers: quotients rounded to the nearest keep
  the order (`RoundingKeepsOrder`) and the floor of the band is a number
  (`BandIsNumber`, with `GreatestNumber` for the maximum over the pool), so an
  easier monster that is as efficient by exact numbers is in the band whenever
  the target is, and would have been preferred (`BestTakesNoRisk`).
* **`DaemonLock_proof`** (pids are not the other values of a file): `IInv` says
  that a start past its probe is alone (`Alone`) and one before it has read the
  daemon's pid (`Warned`), unless starts raced or a daemon outlived its trap.
  `LockIsTheDaemons`, `OneDaemonOnly`; `SkipsForADaemon` needs only that no pid
  was reused (`Truthful`).
* **`Liquidation_proof`** (finite items and places, scores are naturals, names
  tell items apart, no item is called as the empty place is): `IInv`
  adds `Floor`, that the estimate of used slots never exceeds their number, by
  `OneSlotAtMost` (emptying one entry frees one slot at most).  `WornIsKept` and
  `SellsNoMoreThanNeeded`, whatever the shop answers; `EndsWithReason` from
  `Ended`, what is true of a clean-up that is over.  `WorseIsSoldOff` counts
  iterations: while something worse is left and the shop has refused nothing,
  each of them has emptied one entry of the bag (`Paced`), so that the loop does
  not run out of iterations before it runs out of entries.  A worse item is not
  worn then and its reserve is 0 (`WorseIsSpare`); with two places of one slot
  it may be, which is why the property asks for one (`OnePlaceEach`).
* **`LiveRunner_proof`**: `OneFight`, for every configuration and every behaviour
  of the game.  `IInv` says which calls of a fight may have been made by the
  stage a tick is in: none before the stages of the fight, a refused one only
  when the fallback to `/hunt` is next.
  `StallsKept` and `BackoffAdapts`: the invariant `Remembered` ties the runner's
  `stall` to what the game has answered: for each key, a stall that is not over
  reaches as far as the last answer demands, the streak of 429s is the one heard,
  and past the test of `/combat/start` its stall is over.  Stalls are in memory
  only, so the theorems ask that the process is not started again, or that the
  game answers every call (`Remembering`).  The second case is not empty: that
  nothing is refused then, a surrender included, needs `Serving` below and that
  only a character in a fight gets to the stage "stuck" (`UInv`).
  `NobodyFightsUndressed` is about settings in which, if every call is answered,
  no budget is used up either (`InBudget`); what fights bring, and the bag, are free.  Its
  invariant `Serving` says that such a tick's snapshot is the world until a call
  ends the tick, so that a character that lacks a piece it owns has given up
  the fight after stage "undress" and is dressed after the emergency equip.

* **`Fetcher_proof`** (`FetcherAssumption`: the settings are of their types, each
  run starts from a log within its limit whose lines are whole and numbered, as
  earlier runs leave it).  For any number of runs, of lines of any size, and of
  failures, cuts and kills between any two file operations.
  `LogInv` is what holds of the log.  `SizeInv` follows the size through a run:
  what was read fits together with the line to come (`RoomFor`) until that line
  is there; `LogIsBounded`.  `KeepInv` says that each readable line of the file,
  and of the tail a run holds in memory while the file is empty, is one of the
  history, in its order; `NewestInv`, that with lines of half the limit at most
  nothing newer is missing than what is there; `NewestAreKept`.  That rests on
  `TailKeepsNewest`, which carries an invariant along the scan of `NewestTail`
  (`ScanKeeps`, `ScanStep`), and on `NoMoreThanBudget`.
  `RunInv` says that a run that is about to report has its line at the end of
  the file, or glued to half a line, and that the line holds what was asked.
  `ReportsShowTheirRun`: that line is in the window and its entries are the last
  of the order, by `LastIsShown`, whatever the clock did before.
  `StreaksAreReal` maps the failures a report counts, one to one, to places of
  the history (`StreakInHistory`): an ok that the log has lost is older than all
  it still has, by `NewestInv`, so it cannot have come between them.

Sums and scans are recursive functions (`Bytes`, `NewestTail`, `Asked`).  Their
lemmas start from two facts: a set with 0 and with each successor holds every
natural number (`Counting`), and a function given by a first value and a step
exists (`Recursion`); both come from the well-foundedness of the naturals.

Every invariant and action property that a passing run checks is stated by a
theorem; where the theorem has a condition (`Safe`, `~Late`, `~HeartbeatFails`,
`Remembering`, `InBudget`) the text above says why, and the settings of the runs
meet it.  Only model-checked: liveness (`AlwaysTakenOver`, `AcquireEnds`,
`LoopEnds`, `FightsAgain`), since ENABLED and fairness are out of the prover's
reach.

## 6. Not modelled, and simplifications

* The choice of skill, potion and fight strategy, scores of gear beyond their
  order, wording of reports: no control beyond the one call the model makes.
* Masking of secrets in the log and in reports, parsing of options and of the
  environment, `api-client.js`'s reading of its configuration, the figures the
  summaries count out of JSON payloads, the counters and schema checks of the
  replay analyzer: text and data, straight through.
* The runner's artifact and `build-strategy-director-artifact.js`: a report from
  files, written in one synchronous call; nothing is read back.
* `live-action-tick.js`: a line of calls without memory.
* `automation/cycle-30m.sh`: git and an external agent.
* The `verify-*.js` scripts are the repository's tests; they were read as a
  statement of what the code promises.
* In the probe log a write of the kept tail is two steps, the emptied file and the
  whole tail; a write of the tail that stops halfway is left out, as is an append
  that stops exactly before its line end.  Runs of the fetcher follow each
  other.
* Numbers with decimals are scaled integers.  Errors of floating point at an
  exact limit, and ties of `toFixed`, are left out.
* In `Targeting` a player keeps level and defence while a fight is on.
* The maps of executor and guard, and the runner's windows and stalls, are in
  memory: a restart forgets them, by design of the code.  The worker's model is
  one process; records of two processes in one file, and a late tick after the
  release of the lock, are named in section 4 and in the hazards.
