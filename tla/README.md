# Verification of banknifty-observatory

The observatory polls the BankNifty spot index, India VIX and the option chain of a
few expiries every few seconds of the trading day, and appends one JSON record per
poll to a file of the day.  Its value is the archive: nothing can be fetched again.
So the questions asked here are about what the archive holds after failures,
interruptions, restarts and bad answers of the broker, and about whether the values
derived from it can be trusted.

- `*.tla`, `*.cfg`: the specifications, and the instances TLC checks (`MC*`).
- `*Proofs.tla`: theorems checked by TLAPS, for every value of the constants.
- `PROJECT.json`: the parts of the system, the runs, the source lines each definition
  models, the mutants that show that a property can fail, hazards and findings.

Check one instance with `tlc -config MCCollector.cfg MCCollector`, the proofs of one
component with `tlapm ControllerProofs.tla`.

## 1. The system

One process per trading day, `scripts/discovery_run.py`, started by hand or by a
systemd unit which restarts it when it fails.  It has one thread; every call is
synchronous, with a timeout.  The concurrency is with the operating system: signals
at any statement, kills, host stops, the wall clock, other processes on the same
files, the broker.

| Component (under `src/`) | State it keeps | Operations | Interacts with |
|---|---|---|---|
| Archiver, `lib/discovery/archiver.py` | open file, its IST date, line count | open, write (flush, fsync), rotate at the change of date, close | the file of the day; called by the controller, twice when the quality stream is wired |
| Controller, `lib/discovery/controller.py` | state machine, tick counters, continuity cursor, prior open interest | run: startup, loop, poll, persist, shutdown | every other component, by calls |
| Scheduler, `lib/discovery/scheduler.py` | `t0` of the tick | the generator `ticks()` | drives the loop of run() by yielding; wall and monotonic clock |
| Session, `lib/discovery/session.py` | SmartConnect object, token and its time | connect (one retry), refresh_if_needed, the properties | broker; refreshed by the controller before each poll |
| Manifest, `lib/discovery/manifest.py` | one JSON file a run | write_manifest at the start and at the end | run script; joined to the records by `run_uid` |
| Run script, `scripts/discovery_run.py` | - | main(): assemble, announce, run, finalise, exit status; SIGTERM handler | systemd through the exit status |
| Registry, `lib/discovery/instrument_registry.py` | token maps, resolved expiries | build, rebuild, token reads | broker; injected into the chain fetchers |
| Chain fetcher and ladder, `lib/discovery/fetchers/{chain,strike_ladder}.py` | - | fetch(): discovery, window, batches | registry, broker |
| Spot and VIX fetchers, `lib/discovery/fetchers/{spot,vix}.py` | - | fetch() | broker |
| Validation engine, `lib/discovery/validation.py` | - | rules R1-R6 on one record | controller's validator slot |
| Day validator and reports, `tools/data_quality/` | - | read a day's file and the manifests | the archive, offline |
| Configuration, logging, smoke test, shell scripts | - | startup and operations | - |

What is hard in each, and what makes it correct:

- **Archiver.**  A write is a chain of partial effects: bytes accepted by the stream
  object, bytes in the file, bytes on stable storage; each step can fail or be the
  last.  Correct: an acknowledged record is never lost, split or misfiled; what is on
  disk is never changed; a torn line costs at most one record.
- **Controller.**  Seven kinds of exception and a signal leave the loop anywhere,
  between effects that belong together (cursor, archive, quality stream, store,
  counters).  Correct: the archive has no hole, its links are unbroken, the result
  agrees with it, the secondary streams describe only what is in it, the file is closed.
- **The tick.**  A reply may be refused, malformed, of another instrument, NaN, infinite
  or too large; a rule, the validator or a secondary stream may raise.  Correct: only what
  must cost a snapshot does, and a verdict without a FAIL can be believed.
- **Derived values.**  Each snapshot depends on memory of earlier ones, and a fetch of
  an expiry may fail, be empty or be partial.  Correct: every change can be recomputed
  from the archive, and no interval is silently skipped, or counted twice unless the
  instrument dropped out and returned.
- **Scheduler and session.**  Two clocks, overruns, late sleeps, a token whose age is
  looked at once a tick.  Correct: cadence, market hours, one date a run, the run ends,
  no request with an expired token.
- **Run script, manifest, unit.**  Kills between and inside the two manifest writes,
  restarts into the same day's file, two places that decide the outcome.  Correct:
  records stay joinable, manifest, exit status and file tell the same story, and the
  validator's silence means something.
- **Day validator and coverage.**  They judge by links, statuses, times and counts that
  were written in another order than the one they sort by.  Correct: a file as the runs
  write it passes, a damaged one does not, and two estimates of one thing agree.
- **Registry and fetcher.**  Partial failure at every level.  Correct: a failed build
  changes nothing, a chain is whole or a failure, the window is the intended one.

## 2. Modules

| Module | Models | Built on |
|---|---|---|
| `Archiver` | `JSONLArchiver`, the stream object, page cache and disk, several processes in turn | - |
| `DurableLog` | what an archive promises (abstract) | refined by `Archiver`, in `Collector`'s run |
| `Collector` | the archiver under its clients: one run of the controller after another, or calls at will | extends `Archiver` |
| `Controller` | `DiscoveryController.run`, statement by statement | takes the archiver as "written, perhaps written, not written" |
| `Continuity` | the classification of a snapshot against the one before | used by the next four |
| `Derivation` | continuity and open-interest changes along a run | `Continuity` |
| `Observation` | one tick: spot, VIX, parsing, totals, the validation engine, persistence | `Continuity`, `StrikeLadder` |
| `Audit` | a day's file of several runs, damage to it, `validate_day` and `coverage` | `Continuity` |
| `Polling` | scheduler, session and clocks | `Continuity` |
| `Runner` | systemd, main(), manifests, the validator's join | takes run() by what `Controller` shows of it |
| `StrikeLadder` | backbone, ATM and window, as operators | - |
| `ChainFetcher` | registry, token reads, and the chains of a tick | `StrikeLadder` |
| `Universe` | what a registry promises (abstract) | refined by `ChainFetcher` |
| `ArchiverProofs`, `AuditProofs`, `ChainFetcherProofs`, `ControllerProofs`, `DerivationProofs`, `ObservationProofs`, `PollingProofs`, `RunnerProofs` | the theorems | the module named; `ArchiverProofs` is also about `Collector`, `ChainFetcherProofs` about `StrikeLadder` |
| `MC*` | constants, and symmetry where it is sound | the module named |

The operators commented "Mutant:" are used by no specification.  Each stands just
before the definition it is a plausible wrong version of; `PROJECT.json` names, for
every property of every passing run, one of them under which TLC finds it violated.

### Archiver
A line is three segments (`head`, `rest`, `nl`): with fewer, a record that is whole but
has lost its newline could not be told from one cut in the middle.  `file` is what a
reader sees, `synced` how much of it a host stop must keep, `buf` what the stream object
has accepted and not passed on: CPython keeps or drops it after a failed flush, and both
are modelled.  `open` is `Open; RotateOpen`, `write` is
`Write; [RotateClose; RotateOpen;] Flush; Sync`, with the failing steps `FlushFails`,
`WriteRefused`, `SyncFails`, and `close` is one step.  `Kill` leaves any prefix of a line
being written, `HostStop` cuts every file anywhere above `synced`.  `Midnight` may fall
between any two steps, so the date may change between the look at it in write() and the
second one in `_rotate()`.

Ghosts: `acked` (the writes that returned, with place and date) and `offered`.  Records
are distinct because each carries its `poll_id`.

Assumed: an fsync of a new file makes its directory entry stable too (the code syncs no
directory), and one process at a time writes the file.

### Collector
`client = "run"` composes the archiver with the way the controller uses it: opened once,
a write a tick, any exception the end of writing, `close` on every way out, then a new
process (`Restarts`) on the same file.  `client = "free"` calls in any order and goes on
after failures, as the quality stream does, so the archiver's properties are checked under
both.  `history` is a ghost: which process was told of which record, in order; it is what
`LosesFirstOnly` needs.

### Controller
`pc` names the statement of run(): `open connect build running` (startup),
`next refresh link fetch write quality store count tally` (the loop), `stop`, `finally`,
`return`.  Every statement that calls something has the outcomes the code lets out of it;
`Raise` holds the except clauses: a fatal error aborts, an interrupt stops, another
exception changes no state and is raised again after `finally`.  `Interrupt` is
KeyboardInterrupt inside the try block, before any statement; `Escape` is one outside it,
which leaves run().  A write that raises may have taken effect (module `Archiver` shows
how), so `archive` then grows or not.  All eight wirings of the optional collaborators
are initial states; the run script uses the one with a registry alone.

### Derivation
An open-interest value is the tick it was observed at, a change the pair of ticks; so
"recomputable", "counted twice" and "spans a gap" are statements about ticks.  `Poll` is
one whole tick of `_poll_once`, with every outcome of spot and chains: a chain may be a
success without a row that parses, as in the code.  `Listed` are the instruments an expiry
may quote.  `Gaps` lets the wall clock stand still or go back; times count from the first
tick.  `OverlapOnReturnOnly` says how far the changes of an instrument can be added up: one
that is missing from a quoted chain and comes back gets its whole open interest as a change
against 0, although earlier changes have counted it, and nothing else is counted twice.

### Observation
The tick in the order of `_poll_once` and `_persist`: `FetchSpot`, `FetchVix`, `Anchor`,
`FetchChains`, `Assemble`, `Validate`, `Archive`, `PersistQuality`.  An answer is a failure
of a kind, or a symbol and a number; a number is finite, NaN, an infinity, an integer too
large for a float, or no number at all, because the code treats these five differently.
A chain is a sequence of rows, each of a side, an open interest, a volume and a price; int()
of the first two and float() of the third may raise, and so may the division of two totals,
by zero (`Divisible` is the guard against it) or when the quotient is `TooLarge`.
`pc = "raised"` is an exception out of the tick: before the archive, out of `_poll_once`;
after it, the OSError of a rotation of the quality stream, which `_persist_quality` does not
catch.  `"aborted"` is a failed archive write.  The six rules are operators, `Evaluate` the
engine's loop, in which any set of rules may raise; `raising` is a ghost, the
ones that did.  `SelfConsistency` has its own copy of the band of `Continuity`, as the code
has.

### Audit
`written` is what the runs wrote, each run at a poll interval of its own (`every`), `file` the
lines as the tools find them: `Garble`, `Cut` and `Repeat` damage the file once the day is
over.  `StartRun` and `EndRun` write the manifest, and `WriteManifest` may fail, with the run
going on: what is left is the manifest of before, one that does not parse, which to the reader
is none at all, or the new one whole.  `EndRun` writes the count of the result, which is one
short when a signal fell between a write and its counting, or when the last write failed in
its fsync, after the line was in the file (`CountsAgree` of `Controller`).  `Ordered` is the stable
sort by time of the code, over `group_by_session`, with the place of a line counted from the
lines `Before` it; `ContinuityIssues`, `DuplicateIssues`,
`ManifestIssues` are the checks, `Estimated` and `GapsCovered`/`Expected` the two counts of
missing polls, each with Python's rounding of halves to even.  `Estimated` counts in the
interval each record carries, the other two in `ModalInterval`, the one most lines of the day
have, of several the first.

### Polling
`clock` is true time, which the monotonic clock follows; the wall clock is `clock + skew`
and may be stepped at any moment, by a bounded amount.  Time passes only in what waits.
`Sample` is the body of `ticks()` up to its next yield, return or wait.

### Runner
`Announce` and `Finalize` are the two writes of the manifest, each an open that truncates
and a write, either of which may fail.  `RunReturns` takes what `Controller`'s
`CountsAgree` proves of a result; `RunRaises` leaves the manifest alone, as the code
does.  `Interrupted` and `Killed` may strike at any step; `unit` follows
`Restart=on-failure`.  `Issues` is `check_manifest_consistency`.

### StrikeLadder, ChainFetcher
`RoundDiv` is Python's round() of a quotient, half to even.  A token stands for its
strike.  `wired` tells whether the fetchers were given the registry, as the run script
does; without, the fetch searches for itself.  `Build`, `SearchFails`, `SearchEmpty`,
`Resolve` are build and rebuild; `Tick`, `Discover`, `Select`, `BatchFails`,
`BatchAnswered`, `Complete` are the fetches of a tick, one expiry after the other.  An answer is
taken as it comes: rows of some of the batch, of instruments nobody asked for (`Strays`), and
any number reported as unfetched, since the code compares neither with the request.
The reference `WindowStrikes` defines the window by counting strikes between, where the
code slices a sorted list.

## 3. What the runs check

Passing runs:

| Run | Instance (distinct states) | Shows |
|---|---|---|
| `collector` | 3 records, 2 days, 2 stops, both clients (91,600, up to symmetry of records) | no failure, kill or host stop loses, splits or misfiles an acknowledged record; an unreadable one stands behind a torn write, and under the controller is the first of its process; stable bytes never change; the archiver implements `DurableLog` |
| `controller` | 3 ticks, 2 signals, 8 wirings (55,296) | the archive has no hole and is chained; result, quality stream and store agree with it; the state machine; run() ends with the file closed |
| `derivation` | 2 expiries, of 2 instruments and of 1, 4 ticks (1,807,121) | changes are recomputable, overlap only when an instrument dropped out and returned, and are exact between contiguous neighbours |
| `observation` | 2 expiries, 9 levels, 12 chains, 4 sets of raising rules (205,536) | what costs a snapshot and what does not; the engine agrees with the controller; a verdict without a FAIL vouches for the snapshot; a rule that raises changes no other finding |
| `audit` | 4 records, 2 runs, 1 fault, 4 steps of the clock, 2 intervals (236,263) | an undamaged file passes unless the clock went back, a manifest could not be written, or the last record of a run was not counted; a lost record shows; the two estimates of missing polls agree for runs of the modal interval, and err to a known side for the others |
| `polling` | a day of 18 units, open 3-8, 4 start times (1,146,613) | one date, market hours, cadence, contiguity of steady polling, token validity, and the run ends |
| `runner` | 2 processes, 2 records each (575,992) | manifest, exit status and records agree through kills and restarts; silence of the validator means a finished run |
| `chain_fetcher` | 8 listings, 4 levels, 2 expiries, 2 ticks, 2 builds (674,378) | the request is the window, in batches within the limit; a chain is a failure or had its whole window answered; the ATM is near; the registry implements `Universe` |

The type invariant of every component is a theorem (section 4); the runs of `ChainFetcher`
and `Audit` check theirs as well.

Violations, each of a sentence in a comment or document of the repository:

| Run | Property | Disagreement |
|---|---|---|
| `collector_torn` | `AckedReadable` | "one JSON line per record": the record written after a torn line shares that line, is acknowledged and cannot be read, also under the controller |
| `controller_sigterm` | `SigtermCompletesTick` | "complete the in-progress tick": the tick is abandoned |
| `derivation_gap` | `NoChangeSpansGap` | "never silently spans a missed interval": it does for an expiry whose chain failed, or brought no row that parses (the trace TLC finds), at the snapshot after the gap |
| `runner_killed` | `KilledRunJoinable` | "never an orphan": the second write of the manifest empties the file first |

Met while modelling, without a run (each is a finding in `PROJECT.json`, with its lines):
`smart` of the session returns an unauthenticated object after a failed connect(); the
strikes asked for lie on a grid anchored at the least listed strike, not at the record's
`resolved_atm`; an exception run() does not name leaves state and manifest at "running"
where `docs/ARCHITECTURE.md:370` says ABORTED; `_poll_once` says "Never raises"
(`controller.py:399`) and lets exceptions of conversions, of a ratio and of fetchers out;
`_persist_quality` says "Never raises and never aborts the run" (`controller.py:751`) and
lets out the OSError of a rotation; a level that is
negative, NaN or infinite counts as a success although `spot.py:165` says positive and
finite; an instrument that drops out of a chain and returns has a change against 0, not
"derived from consecutive ticks" (`_models.py:238`); `sort_by_time` raises on a record without
a time, which `_common.py:157` says sorts last.  The first and the last cannot happen to the
collector and what it writes, and are left out; the other outcomes are in the models.

### Bounds, and why they are enough
- `Records`, `LastDay`, `MaxStops` (Collector): a record lost needs a failure or stop and
  then a write next to it; two stops allow a stop during what follows the first, a third
  record one that is written after both.  A rotation needs two days; the property of one
  file does not depend on how many there are.  The proofs remove all three bounds.
- `MaxTicks`, `MaxSignals` (Controller): three ticks separate the first, which has no
  predecessor, from the steady state; the second signal hits the handling of the first,
  a third finds the run left.  The proofs remove both bounds.
- `MaxTicks`, `Gaps` (Derivation): the prior value of a change can skip one failed tick
  in the middle, which needs three ticks; an instrument that has a change, drops out and
  returns needs four.  The gaps are the lower end of the contiguous band, one beyond its
  upper end, and a step back; both ends of the band are in `observation` and `polling`.
  The proofs remove the bounds.
- Observation: levels below, on and above both bands, a half step and more from a strike,
  and every sort of number; the chains have both sides or one, calls that add up to less
  than nothing, a row that does not parse next to one that does, each sort of row that
  raises, and ratios at, and below, what is too large, of open interest and of volume.
  The proofs remove these bounds.
- Audit: four records let a run of three lose its middle one, or two runs of two
  interleave their links.  With intervals of 2 and 4, the clock set back by 1, standing still,
  or advanced by 4 or 7, there are contiguous records, missed polls, roundings of a half (7 is
  3.5 polls of 2) and a run whose gap the two tools count differently.  One fault is enough to
  lose, garble or repeat any line; several at once, and every other bound, are left to the
  proofs, which remove them all.
- Polling's units: the interval 2, so that work of 0 to 3 units is short, just an
  overrun, and beyond the contiguous band; five units of market hours hold up to four
  ticks; starts before, inside and at the end of hours and on a weekend; `Horizon`
  covers the next trading day, and `RunEnds` fails if a run could get past it.  The
  assumption that a tick is short next to a night is the model's, not the code's:
  `TicksOnOneDay` names what would happen without it.  `Cadence` also needs that a step
  of the wall clock cannot take it back to before the opening between two ticks, which
  holds with an interval of two units and steps of one.
- `MaxRuns`, `MaxTicks` (Runner): a crash and its restart, with a tick before and after.
- ChainFetcher: ladders with sub-grid strikes, off the multiples of the step, with a hole,
  of one strike, and none; batches of 2 give full, short and exactly divided requests;
  two builds give a rebuild that fails after one that succeeded; one row that is never in a
  window stands for what the broker sends unasked.

Deadlock is not checked: every one of these systems may stop, at a bound or because the
day is over.

### Fairness
`Controller!FairSpec` and `Polling!Spec` assume weak fairness of the program as a whole:
the process is scheduled and the calls it makes return or raise, which the timeouts of
the SDK's requests and the finite sleeps justify.  No fairness is put on signals, on
clock steps, or on the choice between outcomes.  That a run has finitely many ticks is
the bound `MaxTicks` in `Controller`; what it stands for, that the scheduler's loop ends,
is what `RunEnds` shows in `Polling`.

## 4. What is proved

Every theorem is for all values of the constants that satisfy the named assumptions of
its module.  `Spec => []IInv`, the inductive invariant, comes first in each; the property
follows from it.

**`ArchiverProofs`**, for every set of records, every `LastDay` and `MaxStops`, from
`ArchiverAssumption` alone:

| Theorem | Property |
|---|---|
| `TypeCorrect` | `TypeOK` |
| `AcknowledgedIsDurable` | `AckedDurable` |
| `FiledByDate` | `FiledUnderItsDay` |
| `CorpusAppendOnly` | `AppendOnly` |

`AckedDurable` is not inductive: the step that acknowledges, `Sync`, must find the line at
the end of the right day's file.  `IInv` adds that (`InCall`: what a call has reached at
each of its steps) and that no file is shorter than what is stable (`StableInFile`).  The
argument has two halves: `StepDisk` shows, action by action, that every step, host stops
included, keeps the stable bytes of every file (`Kept`), and `KeptHolds` that such a step
keeps every acknowledged record; `StepIInv` is left with `Sync`.  `LineAtEnd` is the fact
on sequences behind it: a line flushed after the leftovers of a failed write is the last
thing in the file.

Two more theorems say what stands in the files beside what is stable:

| Theorem | Property |
|---|---|
| `WrittenOnce` | `Once` (the invariant below) |
| `TearsCostOneRecord` | `LossOnlyBehindTear` |
| `ImplementsDurableLog` | `RefinesDurableLog` |

They rest on `Once`: no byte of a record is in the files twice, nor in a file and in the
stream object, and no record is acknowledged twice.  The danger is the leftover of a failed
write, which the next write or the close may still bring to the file; that it can come
only once, and never beside a second copy, takes all parts of `Once` together (`Offered`:
every byte is of a record handed over; `Unsaid`: of the record of the call in progress
there is none before the flush).  From `Once`, an acknowledged record which does not parse
has something before it on its line that is not its own, and that cannot be an
acknowledged record, which ends its line.  The log that `DurableLog` promises is read off
the files at the newlines of acknowledged records; `LogIsAcked` shows that those are
exactly the acknowledgements, `SyncAccepts` that `Sync` adds one entry at the end, and
`StepHistory` that no other step adds any.

For the collector, `UsesArchiver` shows that every behaviour of it is one of the archiver
(initial states and, step by step, `StepRefines`), so that the runs lose nothing
(`RunsLoseNothing`), file it by date (`RunsFileByDate`), only append (`RunsAppendOnly`),
make nothing unreadable but behind a tear (`RunsTearOneRecord`) and keep a log
(`RunsImplementDurableLog`).  `RunsLoseFirstOnly`: `LosesFirstOnly` is about the client as
well.  Its invariant `RInv` says that once a run has had a record acknowledged, the file
it will write to next ends with a newline (`Tidy`), through rotations too, because no file
of a day beyond the run's own has been written to (`Ahead`), so that every record but the
first of a run has its line to itself (`Behind`).

**`ControllerProofs`**, for every `MaxTicks` and `MaxSignals` in Nat, from
`ControllerAssumption` alone, that is, for any number of ticks and signals and all wirings:

| Theorem | Property |
|---|---|
| `TypeCorrect` | `TypeOK` |
| `ArchiveHasNoHoles` | `NoHoles` |
| `ArchiveIsChained` | `ChainUnbroken` |
| `RawIsFirst` | `SecondaryAfterRaw` |
| `ResultAgrees` | `CountsAgree` |
| `FollowsLifecycle` | `Lifecycle` |

None of the properties is inductive: that a write extends the archive without a hole
depends on how far the tick has come.  `IInv` adds, for every place in run(), how `tick`
compares with the length of the archive (`Position`), where the cursor is and what the
record being built says (`CursorPlace`), the archive's records by their place (`Places`),
what the secondary streams hold (`Described`), and state and pending exception
(`StateOf`).  `Counters` and `Tallied` do the same for the three counters, with the
cardinality of the successful records; the lemmas `OkUpToFinite` and `OkUpToNext` say how
that set grows with one record.  `StepIInv` has one step per statement of run().

**`DerivationProofs`** (`TypeCorrect`; `ChangesFromArchive`: `ChangesReproducible`;
`OverlapsExplained`: `OverlapOnReturnOnly`; `ChangesResume`: `ResumesAfterGap`), for any expiries,
instruments, answers, clock and number of snapshots.  The heart is `Carried`: `_prev_oi`,
the controller's memory, is for each expiry and instrument what the archive alone
determines (`Prior`), that is, the memory could be rebuilt from the file.  `HasLast` says
that the last quote of an expiry exists and is the latest; from it and the recomputed
changes `OverlapFollows` reads off when two of them overlap.

**`PollingProofs`** (`TypeCorrect`; `TicksAuthenticated`: `TokenOutlivesTick`;
`SessionKept`: `TokenKept`; `TicksKeepToOneDay`: `TicksOnOneDay`; `TicksKeepCadence`:
`Cadence`; `SteadyPollingIsContiguous`: `SteadyIsContiguous`), from `PollingAssumption`.  The
token is dated by the wall clock of its answer, the broker counts
from its own time: `Dated` bounds the difference by an authentication and a clock step, and
`Fresh` turns the look at the age in `Refresh` into a bound on the true age during the tick.

`ticks()` keeps no date, so that a run stays on one is a matter of arithmetic: `Paced` bounds
where the clock can be at each step of a tick, from which the next tick is asked for before
the night is over (`BeforeNight`) and, by the wall clock, on the same day, or on the evening
before if the clock was stepped back over midnight, when the market is closed for the day
(`Asked`).  `DayIs` is the fact on division behind it.  `Spaced` says how far the last tick
and the wait after it have brought the clock.  `Cadence` and `SteadyIsContiguous` have the
hypothesis `2 * MaxSkew <= Interval`: an interval must make up for a step of the wall clock
there and back (`NoSecondOpening`), otherwise a clock stepped back to before the opening just
after the first tick makes `ticks()` wait for the opening a second time.  With the default
interval of 5 s (`lib/config/_settings.py:75`) that is a wall clock within 2.5 s of true
time, which a host with NTP keeps; the run has it with equality.

**`RunnerProofs`** (`TypeCorrect`; `OutcomeTrue`: `OutcomeTruthful`; `OrphansKnown`:
`OrphansExplained`; `SilenceIsTrue`: `SilenceMeansFinished`; `PastIsFrozen`:
`PastRunsFrozen`), for any number of runs and records.  A kill may come at any step, so
`Progress` says for each step of main() what the manifest of the current run can be and
that the result it will write fits the records; `ToCome` that a run has left no trace
before it starts, which is what lets a restart append to the same file.  `RunStep` reduces
an action to what it does to the current run; `EndsKeeps` and `GoesOn` are its two uses.

**`ObservationProofs`** (`TypeCorrect`; `SnapshotsSurvive`: `OnlyFatalStops`;
`RulesAgree`: `EngineAgrees`; `OneFindingARule`: `VerdictPerRule`; `CleanMeansPlausible`:
`CleanVerdictVouches`), for any interval, strike step, bands, levels and rows.  The
invariant has one part per piece of the snapshot, saying what each step leaves for the
ones after it.  `AtmNear` is the arithmetic fact that rounding to a multiple of the step
moves a level by at most a step; `VerdictStays` that filing a snapshot changes no verdict
on it.  `TotalsAreRaw` shows that the totals
are the sums over the raw rows of each side, from which `RaisesIfTooLarge` has that the
division raises for a ratio that is too large and for nothing else.

**`AuditProofs`**, for any poll intervals, any steps of the clock (the negative ones included)
and any number of records, runs, failed manifest writes and damaged lines, from
`AuditAssumption`:

| Theorem | Property |
|---|---|
| `TypeCorrect` | `TypeOK` |
| `LossesReported` | `LossReported` |
| `UndamagedPasses` | `PassesWhatRunsWrite` |
| `ToolsAgree` | `EstimatesAgree` |

The invariant is short: each record names the one before it (`Linked`), the controller's
memory is of the last one (`Cursor`), and damage invents no line (`FromRuns`).  The work is in
what the readers make of such a file.
- The place of a line in the sorted session is the number of lines before it, so that
  `Ordered` holds each line once, a later one at a later place (`Places`, `OrderedIs`).
- `LossesReported`: of the lines that follow a lost record of their run take the earliest
  written.  It names a record that is not there, so that no neighbour fits, and it shows as
  a broken chain or a start in mid-run (`PreviousPresent`, `EarlierPresent`).  For a right
  count, the session has lines of fewer records than the manifest says; then the numbers
  differ, or two lines are of the same record and the duplicate check reports it
  (`LossMiscounted`).
- `UndamagedPasses`: with a clock that never went back, sorting gives what was written
  (`Neighbours`, `NoErrors`).  Conversely, when every neighbour in the sorted session is
  linked to the one before it, the records are in the order they were written, and times
  sorted are times that never fall (`NeverBack`, `UnbrokenMonotone`).
- `ToolsAgree` compares three sums.  The code's sums are folds, and a sum of naturals over a
  finite set is shown to be the size of a set of units (`SumIsSize`), as the one function
  that satisfies the fold's equation (`AddsUnique`).  A sum grows with its terms
  (`SumGrows`), and a longer interval skips no more polls of a gap than a shorter one
  (`PollsBounds`, `LongerSkipsLess`), whatever the rounding does, so that a run's two sums
  compare as its interval and the modal one do (`GapsMeasured`, `GapsCompared`).  A session's
  gaps add up along it (`MissingAlong`); there a step of the clock is a whole number of polls
  only on the grid (`WholePolls`, `OnGridIs`), which is why the count over whole sessions
  needs `OnGrid` and the other two do not.

**`ChainFetcherProofs`**, for any expiries, listings, levels, step, window, batch size and
number of ticks and builds:

| Theorem | Property |
|---|---|
| `SortedSorts`, `AtmWithinStep`, `WindowIsNearest` | what the operators of `StrikeLadder` compute |
| `TypeCorrect` | `TypeOK` |
| `RequestsTheWindow` | `RequestIsWindow` |
| `ChainsAnswerTheirExpiry` | `UnresolvedFails` |
| `WindowsCentred` | `AtmNearSpot` |
| `ChainsWhole` | `NoPartialChain` |
| `RegistryImplementsUniverse` | `RefinesUniverse` |

`WindowIsNearest` connects the slice that the code cuts out of a sorted list with the set of
strikes it is meant to be: the number of backbone strikes between two of them is the
difference of their places (`Apart`).  For the fetch, the invariant is that what was
answered and the batches still planned make up the whole request (`Requested`), whatever rows
the answers had, so that a success, which comes after the last batch, had all of it answered;
`FlattenBatches` says that cutting a sequence into batches and putting them together again
gives the sequence, `RequestIs` that the request holds each strike of the window once a
side, in order.

Every invariant and action property of the passing runs is proved.  Left to TLC are
`EndsClosed` and `RunEnds`, liveness under fairness, which the prover does not handle.
Where a proof needs an induction over data it uses that a set of numbers has a least
element (`LeastNumber`), applied to the counterexamples; the library's induction theorems
cannot be used.  `MaxTicks`, `MaxRuns` and the like are bounds of the models, but the
theorems hold for every value of them.

## 5. What is not modelled

- The embedded source of the spot fetcher as such: the controller passes it no chain, so
  it never has a level, which is modelled; its search through a chain's payload has no
  caller.
- Texts of findings and issues; schema versions and missing keys, which no record of this
  code lacks.  In `Derivation`, totals and ratios, which are in `Observation`.
- `summary`, `latency_report`, `option_chain_report`: read-only statistics, no decision.
- Configuration, logging, smoke test, shell scripts, unit installation, empty reserved
  packages: startup, output and pure I/O.  `_last_retry_count` of the registry and the
  byte counts of the archiver feed only log lines.
- The start limit of the unit (the number of runs is a bound), and two processes started
  by hand at the same time: the code has no lock; see the hazards.
- A sleep that returns late shifts all later ticks: `Cadence` bounds the shift of one.
- What the day validator cannot know: the tail of a killed run and a run whose records
  all vanished leave no trace it looks at; `LossReported` says so.  A run interrupted
  between a write and its counting, one whose last fsync failed after its line was written,
  and one whose manifest could not be written, are reported as errors although nothing is
  lost; `PassesWhatRunsWrite` says so.
- What the two tools make of a day of runs with different intervals is modelled, but nothing
  in the repository says which of them is right: with most records at 5 s, a run at 10 s and
  a gap of 20 s in it, `coverage` reports 3 missing polls and `validate_day` 1.
  `EstimatesAgree` says which of the two is the larger.
- That the rows of a chain are of the instruments asked for: the broker sees to it, the code
  takes them as they come.

## 6. Plan

Done: the archive and what feeds it, in the order of the damage a fault would do
(Archiver, Controller, Derivation, Polling, Runner, ChainFetcher); the tick with its
fetchers and rules (Observation), the readers of the corpus (Audit), the archiver under
its clients (Collector); proofs of every safety property of all of them.

1. Model next: two processes on one file.
2. Prove next: that `Audit` takes from a run no more than `Controller` gives it (its links from
   `ChainUnbroken`, its count from `CountsAgree`), as `UsesArchiver` does for the collector;
   that a run of `Runner` is one of `Controller`.
