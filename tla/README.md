# A TLA+ model of sub2api-guardian

sub2api-guardian watches the upstream accounts ("channels") of a sub2api gateway. In every
round it synchronises the catalogue, probes channels and reads their traffic, scores them,
decides which of them should receive traffic, and writes those decisions back to sub2api:
the `schedulable` flag and a handful of tuned fields. It promises never to empty a pool and
always to be able to give an account back as it found it. Beside the rounds it links price
multipliers, checks the models behind the channels, watches the upstream panels and sends
reports. This directory holds TLA+ modules for the parts where the promises are made, the
TLC runs that check them, and proofs.

Paths below are relative to `backend/internal` of the repository unless they start otherwise.

## 1. Inventory

| component | state it keeps | operations | talks to | modelled in |
|---|---|---|---|---|
| Engine lifecycle (`engine/engine.go`, `backend/cmd/guardian/main.go`) | `running`, `stopping`, `canceled`, `cancelRun`, `runDone` under `engine.mu`; the stop channel; the settings row with the switch `Enabled` | `Start`, the heartbeat's `tick`, `RunOnce`, `Cancel`, `Resume`, `saveConnection`, `Stop`, `Sync` | everything: a round calls the parts below in order | `EngineLifecycle`, `Rounds` |
| Collection (`engine/collect.go`) | samples, probe times | `collect`: probes in a bounded pool, traffic paging, `loadSamplesAndScore` | sub2api, the store, scoring | `Sampling` |
| Scoring (`scoring/`) | none (pure) | `Score`, the classification of errors, windows, consecutive counters | collection | `Sampling`, in part |
| Decision pipeline (`engine/decide.go`, `engine/round.go`) | the round: `desired` of each channel, `softFuses`; `FusedUntil` and health across rounds | exclusion, pause, recovery, multiplier breaker, hard breaker, soft breaker, weights, scaling, grading | reads evidence and policy, feeds write-back | `Decide` |
| Weights and scaling (`engine/weights.go`, `engine/scaling.go`) | none (pure) | priorities, load factors, concurrency within the bounds | decision pipeline | - |
| Write-back (`engine/apply.go`) | the baseline of each account with the `managed` values, channel states | `applyChannel`, `ensureBaseline`, `persistManagedIntent`, `restoreBaseline`, `RestoreAll`, `persist`, `persistUnmanaged` | sub2api, the store | `ChannelSync`, `Custody` |
| Manual operations (`engine/manual.go`, `api/handlers.go`) | the pause and exclusion lists of the policy | fuse, recover, pause, resume, update, exclude, restore all, probe | the same accounts and rows as a round, without its lock | `ChannelSync`, in part |
| Fatal cleanup (`engine/cleanup.go`) | since when a channel has been a candidate, the policy's pause list | pause, disable or delete a channel that keeps failing fatally | sub2api, the store, the policy | `Cleanup` |
| Multipliers (`engine/*multiplier*.go`, `policy/multiplier.go`) | the policy's linked multipliers, the remote source's settings and ownership, `linkedMultiplierMu` | sync with another Guardian, link of a local channel, change of the source, name suffixes | the policy, sub2api, channel management | `Multipliers` |
| Group aggregation (`engine/groups.go`) | status of a group, last alert | bucketing, alert on a change for the worse | decision pipeline, notifications | - |
| Policy (`policy/`) | one row, default and per-group overrides | normalise, merge, save | read and rewritten by handlers, cleanup, multipliers | in part, as constants and rows |
| Store (`store/`) | SQLite: catalogue, states, baselines, samples, events, settings | single statements and short transactions | all | the rows are variables of their users |
| Model checks (`modelcheck/`) | runs and their records, reservations, settings, the quiet period | scheduler pass, administrators' runs, challenges with retries and a fallback, start, stop, recovery of interrupted runs | sub2api, the store | `ModelCheck`, `RunLog` |
| Channel management (`channelmanager/`) | monitored upstream panels, cached groups and tokens, tasks with a cooldown, sessions | scheduler, syncs, balance queries, moves of tokens, editor of the tasks, alerts | vendor panels, notifications | `ChannelMonitor`, in part |
| Adapters and notifications (`channelmanager/adapters.go`, `wecom/`) | none | HTTP dialects, mail and chat texts | vendor panels | what they return, in `ChannelMonitor` |
| Reports (`reports/`) | configurations, run records, sources, `runMu` | usage, daily and weekly report: due times, runs by schedule and by hand, editors | the store, notifications | `Reports`, in part |
| HTTP API, SSE, authentication (`api/`, `auth/`) | sessions, login limits, subscribers | the handlers | engine, store | the handlers that change modelled state |
| Image gateway (`api/image2.go`) | encrypted links | relays requests for images | upstreams of its own | - |
| sub2api client (`upstream/`) | none | `UpdateAccount`, `SetSchedulable`, listing, probing | sub2api | outcomes of requests, in all modules |
| Frontend, configuration, embedding | none of its own | presentation, start-up | - | - |

### What is hard here

* **Concurrency.** Rounds exclude one another, but manual operations, handlers, cleanup and
  the multiplier links touch the same accounts, baselines, states and the same policy row
  without taking that lock. A round decides on copies it loaded minutes earlier. The channel
  manager, the model checks and the reports each have a lock of their own that some of their
  writers do not take.
* **Failure.** Each request to sub2api can be lost, or take effect and be reported as
  failed. Several database writes belong to one decision and no transaction spans them and
  the request. The process may stop between any two.
* **Order.** Groups are visited in the order of a Go map; a channel in several groups is
  judged once, and each verdict looks at the ones before it. A switch read before a lock is
  acted on after it. Requests served earlier are learned of later than probes.
* **Bounds.** Pool floor, switch budget, cooldown, sample windows, hours that the clocks skip
  or repeat.

For each component the property that makes it correct: the engine runs at most one round
and `Stop` returns only when none is left; a channel is taken out of the pool only for what
happened last, and one that is well comes back; the decision pipeline never empties a pool,
keeps to its budget and to the operator's lists; write-back never forgets what it has changed;
manual operations prevail; cleanup spares the last channel of a group; multipliers are never
deleted on partial knowledge; a model check ends once and rests on no answer that is known to
be unfinished; no alert comes twice and a low balance is not passed over; a report runs once per
slot, and a source that reports name is not deleted.
`PROJECT.json` lists the hazards line by line, with the properties that are about each.

## 2. Modules

| module | models | role |
|---|---|---|
| `Decide` | `engine/decide.go` and the pool arithmetic of `engine/round.go`, round after round | specification |
| `Custody` | what `engine/apply.go` promises of an account it manages | abstract specification |
| `ChannelSync` | `engine/apply.go`, `engine/manual.go` and the handlers that call it, for one account | specification; implements `Custody` |
| `Rounds` | what `engine/engine.go` promises of rounds, whoever asks for them | abstract specification |
| `EngineLifecycle` | `engine/engine.go`, the handlers that run, cancel, resume or save, and `main` | specification; implements `Rounds` |
| `Cleanup` | `engine/cleanup.go` within the rounds around it, and the handlers that rewrite the policy row | specification |
| `Sampling` | `engine/collect.go`, `scoring/`, `store/samples.go` and the tests `engine/decide.go` makes on the samples, for one channel | specification |
| `Multipliers` | `engine/multiplier_source.go`, `engine/linked_multiplier.go` and the handlers of the source | specification |
| `RunLog` | what the history of model checks promises (`store/modelcheck.go`) | abstract specification |
| `ModelCheck` | `modelcheck/`, `api/modelcheck.go` | specification; implements `RunLog` |
| `ChannelMonitor` | `channelmanager/manager.go`, `channelmanager/scheduler.go`, `api/upstream_channels.go`, for one channel | specification |
| `Reports` | `reports/`, `api/reports.go`, `store/reports.go`, `store/scheduled_source.go` | specification |
| `MC...`, one for each specification | | instances for TLC |
| `DecideProofs` | | types, pool floor, budget, survivors; pause, cooldown, rate limit, effective health |
| `EngineProofs` | | `EngineLifecycle`: types, one round, quiet after Stop, no half round, the refinement of `Rounds`; `Sampling`: types, grounded verdicts |
| `CleanupProofs` | | types, the last of a group, the observation time |
| `ChannelSyncProofs` | | types, ownership of what was written, the refinement of `Custody` |
| `MultipliersProofs` | | types, whole syncs clean up, links kept, the operator's source |
| `ReportsProofs` | | consistency of runs, records and sources; once per slot; the announced run |
| `ModelCheckProofs` | | types, verdicts, quiet period, interval; the safety of the refinement of `RunLog` |
| `ChannelMonitorProofs` | | types and one job at a time, nothing announced twice, no older reading saved |

Operators whose comment starts with "Mutant" are the same code with a plausible bug. They
belong to no behaviour of the specification; `PROJECT.json` says which property each breaks.

### Decide

The state is what persists (`up`, the flag on sub2api; `st`, health and `FusedUntil`; the
clock `now`) and what a round holds: the lists (`mode`), the observations (`ev`), `want` (the
code's `ch.desired`), the iteration over groups (`group`, `handled`) and `softFuses`.
`fusedNow`, `softFused` and `keptNow` remember this round's breaker verdicts for the
properties.

`BeginRound` is `buildRound`, collection, and the phases that judge each channel on its own
(`initDesired`, `applyExclusion`, `applyPause`, `applyRecovery`). The three breakers then take
one channel per step, since every verdict depends on those before it; `NextGroup` picks
any remaining group, as `range` over a map may. `FuseOrKeep` is the tail they share: fuse, or
keep as a survivor if any group of the channel would fall below its floor. `ApplyAndPersist`
writes the flags, each of which may fail or be held back by `AutoApply`, and persists
`effectiveHealth`. What a round sees of a channel is a record of `Evidence`: whether it has
samples, its score, which triggers fire, whether its price is over the threshold, whether
the sample conditions of recovery are met, and what the account on sub2api says. Texts,
thresholds and latencies stay behind those fields. The order in which the code visits the
members (score, then id) is kept because it decides who is fused.

The clock advances by one per round and the cooldown is counted in rounds: only the
comparison of the two matters.

### ChannelSync and Custody

One account between Guardian and sub2api: `site` (the account there), `cache` (the local
catalogue), `base` (the stored baseline with its managed values), `st` (stored health), the
operator's lists, and two workers, `proc["round"]` and `proc["manual"]`, each with the copies
it has loaded. They share the steps of `apply.go`: `EnsureBaseline`, `Intent`
(`persistManagedIntent`), `WriteTuned` (`UpdateAccount`), `WriteSched` (`SetSchedulable`),
`RestoreTuned`, `RestoreSched`, `DropBaseline`. Every request ends as "ok", "lost" or "dark"
(it took effect and was reported as failed). The round's own steps are `RoundSync`,
`RoundBuild`, `RoundDecide` (its verdicts abstracted to the ones `Decide` allows one
channel), `RoundGiveBack`, `Persist`, `RoundAbort`; a manual operation starts with
`ManualStart` (a pause changes the list before anything else), loads, writes and finishes.
The environment edits the account, changes the evidence, moves the account in and out of
scope, and crashes the process, which loses `proc` and nothing else.

`ours` and `unsure` record, for the fields in `Watched`, which values on sub2api are
Guardian's and which intents have not come true; `clean` says that no manual operation has
overlapped a round or restored from an outdated copy.

`Custody` is the promise without the workers: one account, one record of it, and the steps
`Save`, `Announce`, `Write`, `GiveBack`, `Forget` and somebody else's `Edit`. `InCustody` maps
`site`, `base`, `ours`, `unsure` and `clean` to its variables. While `clean` holds, each step
of a worker is one of these or changes none of them; of what follows the loss of it nothing is
promised. `Custody` promises no more than the code does: what is saved comes from a copy and
may be older than the account (`Save` leaves `orig` open), a restore may take back an edit made
after the copy was loaded (`GiveBack` does not look at the account), and fields whose
announced value was never sent may be left behind (`Forget`).

### EngineLifecycle and Rounds

One program counter per goroutine: the heartbeat ("loop"), any number of API goroutines, and
`main`. A critical section under `engine.mu` is one step. What another goroutine can get
between is not: reading the switch and entering `RunOnce` (`Tick`, `TickRuns`), taking
the cancel function and calling it (`RequestCancel`, `CancelFire`; `StopMark`, `StopFire`),
reading the settings row and saving it (`ReadRow`; `SaveConnection` and `SetAutoEnabled`, which
write the whole row back; `RowFails`). Of the row two things count: the switch `enabled`, and
`configured`, whether it names a sub2api and a key. A `Tick` that finds it incomplete, or cannot
read it (`TickUnread`), asks for no round and makes no catalog sync. A round passes `Prepare`,
`Collect`, `Check` (the checkpoint after collect), `Apply`, `Persist`, `Leave`. `Timeout` is the
end of the round's ten minutes or of the client's connection. `silenced` records that a
Cancel has returned and nobody has asked to resume.

`Rounds` is the protocol that comes of it: a round begins, may be spoiled while it gathers,
commits to writing only if it was not, is over and ends; a gate is open, closing once `Stop` has
begun and closed once it has returned. `OrderlyRounds` maps to it what the engine itself goes
by, `running` and `cancelRun` (`Active`), with the place the round has reached (`Stage`).
`ChannelSync` and `Cleanup` rest on it: the round of each is one worker that starts anew only
when it is idle.

### Cleanup

The state is what lasts (`site`, the accounts; `row`, the exclusion and pause lists of the
policy row; `base`, which channels have a baseline; `since`, the stored time at which a channel
became a candidate) and what a round holds: the lists and accounts it loaded (`seen`), its copy
of the times (`mem`), the candidates left (`queue`), `done` (the code's `r.cleanedUp`) and the
candidate in hand (`job`). `BeginRound` is `Sync` with `buildRound`; `Judge` is
`collectCleanupCandidates`, with what `applyAll` may do to the same channels before it;
`Pick` is the quota of `applyCleanup` and the guard of `executeCleanup`. Then each read,
save and request of the three actions is a step: `ReadRow`, `Intent`, `SaveRow`, `Send`,
`Rollback` for a pause, `Intent`, `Send` for a disable, `Predisable`, `Delete`, `Drop` for a
delete. Each of them may fail (`StoreFails`, `SendLost`, `DeleteLost`, and the branches with
`blind'`, which take effect and are reported as failed). `Persist` saves the times, all of
them or, when it fails, those of the channels before the one that failed. `RequestEdit` and
`SaveEdit` are a handler that reads the policy row and writes it back whole, as
`cleanupByPause` does too; `LoadState` and `SaveState` are a manual operation or a probe that does
so with a channel's state row.

Whether a channel fails fatally (the samples, the rate limit, the survivor) is one bit, chosen
anew each round: every one of these guards does the same, it resets the time. Time counts
rounds; age 0 stands for Go's zero time. `clear` and `okAgo` are histories: the channels that
the verdict of this round spoke for, and how many rounds ago such a verdict was stored; `stale`
holds the channels whose stored verdict a manual operation has overwritten since.

### Sampling

One channel. `served` is sub2api's record of the requests of the last units, `samples` the
table, latest first; `st` is the stored state and `mem` the round's copy of it. A round is
`Begin` (what is due: `shouldProbe`, and the pull when the stored pull is old), `Pull` (the
request of `pullTraffic`, answered or lost), a `Row` for each request in the answer, from the
latest to the oldest (its loop: known already, stored, or refused and left to the next pull;
`row` is the one at hand), `Probe` (`probeOne`: an answer, a lost
row, or the failed sample that a cancelled round stores) and `Judge` (`loadSamplesAndScore` and
the verdict, persisted or not, with pruning). `Stop` is a crash or a cancelled round. `Turn`
changes what the channel answers, `Switch` the policy's switches, `Tick` lets a unit pass. Ages
are capped where no test tells one from a greater one. `Classify`, `ScoreFor` (`Score`), the
short, long and final score, the streak, the counters of the breakers and the tests of the
recovery are operators, translated one by one; texts are sets of the words that the
classification looks for. Scores are whole numbers, rounded down where the code keeps fractions.

### Multipliers

`settings` is the stored source, with the names it owns; `linked` the multipliers in the
policy; `cache` and `site` the accounts' names here and on sub2api. A job holds
`linkedMultiplierMu` from its first step to its last: a sync with the other Guardian
(`BeginSync`, `Ask`, names one account at a time, clean-up of those no longer matched, removal,
save of the ownership), the link of a synchronised local channel, or a change of the settings.
`waiting` and `queued` are a sync and local channels that have read the mode and wait for the
lock. `editor` is a handler, or cleanup, that has read the policy and will write all of it
back. Every save may fail and the process may stop between any two. `strays` remembers
accounts whose multiplier such an outdated copy, or a job that died, left without an owner.

### ModelCheck and RunLog

`worker` holds the scheduler and the administrators' goroutines: reserve a target (`begin`),
look at its last run, record a run, ask for the credentials, then a few challenges, each a
streamed request with retries and, once, a fallback to another protocol, and save the result.
`Read` is what the stream readers make of a sequence of events: whether there was an output and
whether it was finished. `ReadBody` is what `requestOutput` makes of the complete JSON body that
a gateway sends when it ignores `stream=true`. The two differ: the stream reader wants the
model's own end, the other only refuses the reasons it knows for an end that came too early. A
missing or other reason (`tool_calls`, `pause_turn`, a Responses status `in_progress` or
`cancelled`) passes, and `stream_test.go:126` asks for the missing one to. So `VerdictsEarned`
says of streams that those which count were finished, and of bodies only that none which counts
said that it was cut, filtered, refused or broken. Settings, the quiet period and the
catalogue change at any time; any save can fail; `Stop`, a crash and `Start` with `RecoverRunning` are actions. `RunLog` says what
is promised of the table: a record that is open before the first request, one live run per
target, results that never change, and nothing left open by a start. `Log` maps the rows
and the live workers to it; the run checks `Log!LogSpec`, its fairness included.

### ChannelMonitor

One channel: `site` (its groups, the groups the user's tokens are in, whether the balance is
low), `auth` (what the site accepts of the stored session), `cache`, `snaps` (balance
snapshots), `tasks`, and two jobs that share the channel's lock: the scheduler's run of the due
tasks and an administrator's sync, balance query or move of a token. Each request and
each save is a step that may fail. `seeding` is the editor's baseline that is saved after its
update, without the lock. `gv` and `tv` are the versions of the site at which the cached
groups and tokens were read, `told` and `chg` what a task last announced and when a group last
changed: histories, for the properties.

### Reports

`rep` is the table of reports, `recorded` the latest recorded run of each, `catalogue` the
custom sources with the next number to give. Two runners, the scheduler and an administrator, try `runMu` (`Try`, `RunNow`);
a run looks at the clock (`Execute`, `ExecuteDaily`), is recorded (`Record`) and then updates
the state of its report (`Update`). An editor of the reports looks up the source it names
(`SavePeriodic`, `SaveUsage`) and saves later (`CommitSave`), without that mutex. A request for
the sources takes no lock at all: it reads the catalogue (`AddSource`, `ChangeSource`,
`DeleteSource`), a deletion then looks for users in the usage report and in the periodic ones
(`Look`, twice), and the whole catalogue is written back (`SaveSources`); `draft` is what it is
about to write. So a source can be chosen for a report behind the look, and a source just added
be lost to a copy that was read before: `overtaken` remembers the sources that this may have
happened to, and `Consistent` says that nothing else takes a source from a report. `Calendar` gives the local day and
hour of each hour of real time; `NextRun` is `nextPeriodicRun`, used both for what is due and
for what the page shows.

## 3. Runs

| run | asks | result |
|---|---|---|
| `decide` (`Decide.cfg`) | `FloorKept`, `BudgetKept`, `NoSurplusSurvivors`, `PauseWins`, `CooldownHolds`, `LimitedNeverFused`, `HealthTookEffect` | hold, about 1.3 million states |
| `sync` (`ChannelSync.cfg`) | `Ownership`, `InCustody` (the refinement of `Custody`) | hold, about 1.6 million states |
| `sync_live` (`ChannelSyncLive.cfg`) | `PauseLands`, `HandsBack`, `FusedRecovers` | hold, about 0.5 million states |
| `sync_hand_back` (`ChannelSyncHandBack.cfg`) | `RestoreAllGivesBack` | violated |
| `lifecycle` (`EngineLifecycle.cfg`) | `OneRound`, `StopMeansQuiet`, `NoHalfRound`, `OrderlyRounds` (the refinement of `Rounds`), `StopReturns`, `HeartbeatGoesOn`, `QuietInTheEnd` | hold, about 0.2 million states |
| `cleanup` (`Cleanup.cfg`) | `LastSpared`, `ObservedLongEnough`, `NobodyPassedOver` | hold, about 1.1 million states |
| `cleanup_last` (`CleanupLast.cfg`) | `LastInServiceSpared` | violated |
| `sampling` (`Sampling.cfg`) | types with no request kept twice; `Grounded`, `Returns` | hold, about 0.4 million states |
| `multipliers` (`Multipliers.cfg`) | `CompleteSyncCleans`, `SnapshotKept`, `SourceKept`, `Converges` | hold, about 0.4 million states |
| `modelcheck` (`ModelCheck.cfg`) | `VerdictsEarned`, `StopsInQuiet`, `IntervalKept`, `LogSpec` (the refinement of `RunLog`) | hold, about 0.2 million states |
| `channels` (`ChannelMonitor.cfg`) | types with one job at a time; `AtMostOnce`, `NeverBackwards`, `NagsWhileLow` | hold, about 0.3 million states |
| `reports` (`Reports.cfg`) | `Consistent`, `OncePerSlot`, `NextAgrees` | hold, about 2.6 million states |

The type invariants of `Decide`, `EngineLifecycle`, `Cleanup`, `ChannelSync`, `Multipliers` and
`ModelCheck` are proved (section 4) and no longer run.

### Where code and comments disagree

Two runs show such a disagreement:

* `RestoreAllGivesBack`. `README.md:38` of the repository promises control back with one
  click. `RestoreAll` compares the baseline with the local catalogue, which a round's writes
  do not update, and deletes the baseline without restoring. This is why `Ownership` excepts
  restores from an outdated copy.
* `LastInServiceSpared`. `README.md:548` of the repository says that with
  `keep_last_in_group` the last channel of a group is never dealt with. `survivingMembers`
  counts every member that is not excluded and not taken out in this very round, so one that
  an earlier round has paused or disabled still counts as the one that stays.
  `LastSpared` is what does hold: within a round.

The following show in the same way; they have no run of their own here. To see one, put the
property as the only `INVARIANT` or `PROPERTY` into a copy of the named configuration. They also
explain the exceptions that the checked properties make.

| property | configuration | what the code says, and does |
|---|---|---|
| `WorstIsFused` (invariant) | `Decide.cfg` | `engine/decide.go:217` says that judging the lowest score first makes the fused channels the worst. When all members of a group are below `MinPoolScore`, none counts as alive, so the first to be judged, the worst, is kept as the survivor; now it counts, and the better ones after it are fused. |
| `NothingLeftBehind` (invariant) | `ChannelSync.cfg` | `engine/apply.go:27` says the original can be restored at any time. The managed value is overwritten before the request is sent; if that request is lost, the value still on sub2api is no longer recognised, counts as a conflict, and the baseline is deleted. This is also why `Ownership` excepts fields whose last intent never took effect. |
| `ClaimIsTrue` (invariant) | `ChannelSync.cfg` | `engine/apply.go:467` says the interface never claims a channel is out while it serves. If the previous health was already fused and the channel was switched on outside Guardian, a failed write leaves that claim standing. |
| `QuietAfterCancel` (property) | `EngineLifecycle.cfg` | `engine/engine.go:421` says that after Cancel nothing is probed or written. A tick that has read the switch before Cancel enters its round after it. `QuietInTheEnd` shows that this is at most one more round. |
| `ObservedWithoutBreak` (property) | `Cleanup.cfg` | `engine/cleanup.go:126` says that the observation counts from when the channel began to meet the conditions without a break. `ProbeAccount` and the manual operations save the whole state row they loaded, so they can put back a time that a round has reset meanwhile. `ObservedLongEnough` excepts channels in `stale` and holds whatever else fails. |
| `RenameKept` (property) | `Multipliers.cfg` | `store/multiplier_source.go:15` says the generated name is kept to take off only suffixes that Guardian generated. The clean-up compares it with the local catalogue; a name the user has changed on sub2api since the last synchronisation is overwritten. |
| `Returns` (property) | `Sampling.cfg` with `Policy <- NarrowPolicy` | `README.md:32` of the repository says a fused channel comes back once its score has recovered for a while. `success_count` is not limited to the samples that are looked at (`policy/policy.go:510`; the form asks only for at least 1): a policy that wants more successes than `long_window` keeps every fused channel out for ever. |

### Bounds

* `decide`: five channels, two groups that share one channel, two rounds, up to three kinds of
  evidence per channel. The shared channel is what makes floors and budgets interact; two
  channels of its primary group are candidates beside it. In the other group a channel
  without samples is the reserve: in service it leaves only the budget between that group and
  the loss of two members, switched off it makes the floor bind. The evidence covers each
  trigger, the fatal error, the quota error with the account's window, a missing sample, an
  account disabled on sub2api, and a price over the threshold. `maxSwitch` is 2 in one group
  and 1 in the other, so the budget that binds can be that of a group which is not the
  channel's primary one. `cooldown` is 2, so a channel fused in round 1 is still cooling in
  round 2, where a recovery one round early would show. The system stops at `MaxRounds`,
  hence `CHECK_DEADLOCK FALSE`.
* `sync`: one tuned field with two values beside the flag. Fields travel together or not at
  all, so one stands for any number in `Tuned`. `MaxUpsets = 3` counts failed requests,
  crashes, edits and manual operations together: a lost write, a crash and an edit fit into
  one behaviour. Only clean states are explored further (`OnlyClean`), because neither
  `Ownership` nor `InCustody` says anything of others and a state never becomes clean again.
* `sync_live`: the flag alone and the four operations that set a health; `MaxUpsets = 2`. It
  has no state constraint, and the histories are not recorded.
* `lifecycle`: two API goroutines and three requests: a cancel, a resume and a run may all be
  on their way beside the heartbeat and `Stop`. The engine stays stopped, hence
  `CHECK_DEADLOCK FALSE`.
* `cleanup`: three channels in two groups that share channel 2, so the same candidate can be
  the last of one group and not of the other; at most two per round, so the quota binds
  before the third; one round of observation; all three actions. `MaxUpsets = 1`: each hazard
  (a failed request, a save that is refused, a crash, an edit, a handler's or
  a manual operation's read and save) shows with one upset, and the proofs of the two
  safety properties are for any number.
  `cleanup_last` needs no upset.
* `sampling`: five answers, one for each way a breaker, the recovery or the classification
  may go (among them a 429 and a 400 whose words speak of several causes at once); windows of
  three samples of which breakers look at two, a cooldown, hold and probe intervals of one or
  two units, so that old and new samples mix in each window; two settings of the switches that
  differ in all of the collection's. `MaxUpsets = 2` counts changes of the channel and the
  switches, lost answers, pulls, rows and verdicts, and stops: two of them make a stale copy
  meet a late answer.
* `multipliers`: two accounts, the second with two variants of its key, and five catalogues of
  the other Guardian: complete, a key gone, a stale channel that disagrees, two variants that
  disagree, nothing shown. `MaxUpsets = 2`: a failure inside a job and an editor that overlaps it.
* `modelcheck`: one account and model with two targets that share it, the scheduler and one
  administrator, one challenge and one retry, six streams (finished, cut by a limit, ended
  without the model's stop, refused in the middle, broken). Two recorded runs are enough for
  one to come between the look at the other and its start. Challenges are alike; a
  second one only repeats the first. The proofs are for any numbers of them, and for any streams.
* `channels`: one group with three ratios in effect (none, the default, another), a group task
  and a balance task in three plans. Tasks do not see each other and neither do groups; two
  upsets let a change of the site meet a second change, a failure, a stop, an edit or an
  administrator's job.
* `reports`: a calendar of five hours with a common day's end, a day without its second hour
  and one with its second hour twice; a week of two days. Two upsets, of which a request for
  the sources uses half of one, so that two of them overlap and meet the save of a report; they
  come in the last hour (`FirstEdit`), since no due time depends on them, and are alike
  (`Alike`, a symmetry). The proofs are for any calendar, any number of requests at any hour.

### Fairness

* `ChannelSync`: `WF(RoundStep)` and `WF(ManualStep)`. The heartbeat starts rounds for ever
  and each request to sub2api has a timeout, so what has begun ends. Nothing is assumed of the
  environment; failures end because `MaxUpsets` bounds them, that is, the liveness properties
  are about what follows once requests stop failing.
* `EngineLifecycle`: `WF` for the heartbeat, each request being served, `Start`, and the steps
  of `Stop` after the signal. Two steps are strongly fair. The heartbeat's `select` leaves by the
  closed stop channel in the end: when both channels are ready Go picks one at random, so it
  does not pass over a closed one for ever. And not every `Tick` fails to read its row from the
  local database; without it `HeartbeatGoesOn` would not hold. Nothing obliges a signal, a request or a
  timeout to come. `StopReturns` relies on each phase of a round ending by itself: the
  code's client timeouts and the context of the round justify it.
* `Cleanup`: `WF(Round)`, as for `ChannelSync`. No fairness on the environment: what it may
  stop doing is not needed.
* `HeartbeatGoesOn` speaks of rounds that come to their end, successful or not, and of settings
  that are complete: `tick` starts no round as long as the address or the key is missing. A round
  that a request asks for then still begins, and ends in `Prepare`.
* `Sampling`: `WF(Step)` and `WF(Tick)`: the heartbeat starts rounds for ever, each request
  has a timeout, and time passes. `Returns` assumes nothing of the switches except that
  recovery stays on.
* `Multipliers`: `WF` of the job in hand and of what waits for the lock, and `SF` of a sync's
  start: the timer of the sync goes off again and again, and `sync.Mutex` hands the lock to a
  waiter after a millisecond, so others cannot keep it out for ever.
* `ModelCheck`: `WF` for each worker's steps; nothing obliges an administrator, the quiet period
  or a start to come. It is what `RunLog` asks for: every live run ends.
* `ChannelMonitor`: `WF` of the minute's look and of each job's steps; `SF` that a task's
  cooldown elapses, which only happens between runs and is time passing.
* `Reports` is about safety only.

## 4. Proofs

All constants are arbitrary within the assumptions stated in the modules: any number of
channels, groups, policies, evidence, rounds, goroutines and requests.

**`DecideProofs`.** `FloorKept` is not inductive: a fuse lowers the living members of a pool,
and a later survivor or degradation changes them too. The invariant `IInv` adds that what
is in `fusedNow` is wanted as fused and what is in `keptNow` is wanted as survivor
(`FusedMarked`, `KeptMarked`), that what the soft breaker fused is fused (`SoftAreFused`), that
`softFuses[g]` is exactly the number of channels of `g` in `softFused` (`CountersTell`), and that a
round starts with all of them empty (`FreshRound`). Then: a breaker that fuses `c` takes only `c` out of the living
members of any pool, and `FuseBlocked(c)` is false; keeping a
survivor or degrading a channel takes nobody out. The budget follows from `CountersTell`. For survivors: the one that is kept was needed by its only group,
so its pool counted fewer than the floor without it, and all survivors of the group are
living members. Theorems: `TypeCorrect`, `PoolFloor`, `SwitchBudget`, `SurvivorsBounded`.

A second invariant, `Verdicts`, states for every phase of a round what the wanted value of
a channel may be, given its list, its observations and the health persisted before.
`VerdictsHold` proves it invariant on top of the types. `PauseOutranks` follows at once; the
three action properties (`CooldownKept`, `LimitedSpared`, `HealthIsEffective`) follow because
only `ApplyAndPersist` changes `st`, and it persists either the wanted health or the old one.

**`EngineProofs`, the lifecycle.** The inductive invariant is the types, `OneRound` (which ties
`running`, `cancelRun` and `runDone` to the goroutine in its round), `CutShort` (a collection
is cut short only by a cancelled context, and then the round is at its checkpoint or leaving)
and `Stopping` (from `StopMark` on nobody enters; once `Stop` has read `runDone`, a round
that is still running is the one it waits for; once it has joined the heartbeat, that is
gone). For `Rounds` one more fact is needed: what the engine says is true in the other direction
as well, `running` is set only while `cancelRun` names a goroutine in its round (`Told`; `OneRound`
says that a goroutine in its round has them set). Then `Active` and `Stage` are a function of the
one round's counter (`Viewed`), and each step of the heartbeat, a request or `Stop` moves it as
`Rounds` does, or changes nothing it sees (`RoundOrderly`, `EnterOrderly`, `NextOrderly`). That
`Commit` asks for a whole collection is where `CutShort` comes in, `Shut` where `Stopping` does.
`RoundsPromise` shows from `OrderlyRounds` alone that a round which writes has gathered everything
and that none is left once `Stop` has returned: `Rounds` promises what it is meant to.
Theorems: `TypeCorrect`, `OneRoundAtATime`, `QuietWhenStopped`, `NoHalfRoundWrites`,
`RoundsAreOrderly`, `RoundsPromise`.

**`EngineProofs`, the samples.** `Sampling` is proved about through an instance, `Ch`, because a
module cannot extend two specifications; what it assumes of its constants
(`Ch!SamplingAssumption`) is a hypothesis of each theorem. `Grounded` compares a verdict, made
on a few samples from the front of the table, with what happened last by the samples' ages.
What connects the two is `Table`: the samples are in the order of their ages, and no request
a pull may still see is in it twice (`Sorted`, `Single`). It is inductive: a row goes in after
those that are younger (`InsertFacts`: where it lands, and that all others keep their order),
a request only when it is not known (`InsertTable`), a round reads and prunes a front
(`FrontTable`), and ages grow together up to their limit, which no pull sees (`OlderTable`;
the limit is above the lookback, `AgeLimits`). `Copied` says that the health a round judges is
the stored one. Then the `i`-th sample has at most `i - 1` younger ones (`FirstHappened`), so
that the first `n` samples are among what happened at the latest `n` moments, what a breaker
counts is a subset of what happened (`Counted`, `Bad`), and a streak has a success in front
(`Good`). Nothing is assumed of the order in which pulls and probes bring the samples. Theorems:
`SamplesTyped` (`Sampling`'s `TypeOK`), `WellGrounded` (`Grounded`).

**`CleanupProofs`.** `LastSpared` speaks of what took effect (`taken`), the code counts what it
was told (`done`). `Accounted` closes the gap: without a request that was wrongly reported,
`taken` is in `done` but for the candidate in hand, and that only at the steps that cannot
end in "left" without taking the effect back. `Guarded` says that a candidate in hand has
passed the guard, `Spared` that the groups of all of `done` keep a member; adding the candidate in hand to
`done` keeps `Spared` because of `Guarded` (`SpareOne`). For the observation time, `Observing`
says that no stored or loaded time is older than the last stored verdict for the channel, and
that every candidate's time is past `MinAge`. Theorems: `TypeCorrect`, `GroupsSpared`,
`ObservedFirst`.

**`ChannelSyncProofs`.** `Ownership` says of the account what the baseline in the database
must hold, while the two workers write from copies. The invariant adds three facts, for as
long as no manual operation has overlapped a round (`clean`): at most one worker is in the
middle of its writes (`OneBusy`), a baseline is stored wherever a value of Guardian's is
(`Backed`), and the copies of the worker at work agree with the stored baseline up to the
intent it has just saved (`Fresh`). The steps of the write-back keep them: the intent is saved
before the request, so that whatever becomes of the request its value is managed; a restore
gives back only what is still managed, and the baseline goes only when nothing is left.
For `Custody` the invariant also says what a worker has made sure of when it comes to a step
(`Staged`): no operator's recovery goes through an intent, and a restore has a baseline to go by
and sends the flag only to give it back. With `Fresh`, what a worker sends is then what the stored
baseline has announced or saved, although it reads it from a copy (`SendKept`); `NextKept` goes
through the steps. `CustodyOwns` turns this round: `Ownership` follows from `InCustody` alone,
without the workers, so the promise of `Custody` is as strong as that.
Theorems: `TypeCorrect`, `WritesOwned`, `KeptInCustody`, `CustodyOwns`.

**`MultipliersProofs`.** `CompleteSyncCleans` speaks of the moment before a whole sync saves; what
makes it true happened in syncs long before. `Responsible` says who answers for every
multiplier in the policy: while nothing is at work the stored ownership of a remote source,
during a sync the one it has read and extended; a local source answers for nothing, and the
ownership is empty (`Detached`). What a dead job or an editor's outdated copy left is in
`strays`. `Sourced` says that the settings under a sync are those it read, because a change of
them takes the same mutex, so that its save brings nothing back. `Cleaning` says of a cleanup
that it has before it everything owned and not matched, and of what it does not clean that
it was matched or was given away; `Detaching` the same of a change of the settings, which
hands over to the next source what it is responsible for, or lets go of it. `Phased` ties each kind of job
to the steps it has. The assumption that there is a base name at all (`Bases # {}`: an
account has a name) is needed for the types. Theorems: `TypeCorrect`, `CleansComplete`,
`SnapshotKeeps`, `SourceKeeps`.

**`ReportsProofs`.** Consistency of four tables written without a transaction and with a mutex
that half of the writers do not take. `Exclusive` ties the mutex to whoever runs; `Settled`
says of the stored reports that what was never saved names no source, that the last run of a
report is recorded and past; `Pending` that a configuration about to be saved names a source
that exists or was deleted under it; `Spared(e)` that a deletion which has looked at a report
has not missed its source there, unless a save came behind it (`overtaken`), so that writing
the catalogue back takes no source in use without having been noted; `Fine(n)` that a run is of a report that exists, that its
record is not older than the one before, and that it was due in a local hour in which no
completed run was. `OncePerSlot` follows from the last: while a run of the schedule goes on no
other run can complete, and what is found due is found so by `nextPeriodicRun`
(`DueUnconsumed`, for any calendar, from the least element of the possible hours).
`NextAgrees` compares the search by hours that the page makes with the instant at which the
scheduler would find the report due. It holds for clocks like those of real places, which
`RealClocks` states as a hypothesis of the theorem: a local hour that comes twice comes twice in
a row (it is a clock put back), and an hour of a weekday is not left out two weeks running
(a clock is put forward once a season), so that the search, which looks that far, finds a slot if
there is one. The second conjunct says nothing of the small calendar, which is shorter
than two weeks; TLC evaluates `RealClocks` on it (`MCReports`), and
checks there what the theorem says for all others.
Theorems: `ReportsConsistent`, `NoSlotTwice`, `PageAgrees`.

**`ModelCheckProofs`.** None of the four properties is inductive: each rests on who holds what
while a run is under way. `Fit(w)` says of one worker that it has a record exactly while it is
in its challenges, that this record is its own and still running, that from `begin` to the end
it holds the reservation of its key, that it has fewer outputs than challenges behind it, and
that the scheduler about to record a run holds a key that is not fresh. `Unique` says that two
holders never share a key, hence nobody can slip a run in between the look and the record;
`Quiescent` that a process that is down has no workers, so that a start closes no live run's
record; `Earned` that the verdicts stored so far are earned; `Roomy` that those who may still
record a run fit into the bound. `OutputIsWhole` shows, for any sequence of events, that what
`Read` takes for an output is one the model finished. For `RunLog`, `Unique` makes the live run
of a key a function of the state (`HeldByRuns`); then each step is one of `Open`, `Close`, `Die`
and `Recover`, or changes neither table nor live runs. The assumptions are those of
`ModelCheck`: no key is the empty string (a target has an account and a model,
`modelcheck/manager.go`, `validateSettings`) and finitely many goroutines. Theorems:
`TypeCorrect`, `VerdictsAreEarned`, `QuietStops`, `IntervalIsKept`, `RefinesRunLog`.

**`ChannelMonitorProofs`.** `AtMostOnce` compares what a task announces with the site's own
history, across the request, the cache, the stored baseline and the alert, each of which can be
the last thing a run does. Versions (`ver`, `chg`, `told`) are the history variables that make
the comparison possible. `Ages` orders them: nothing announced is newer than the cache, nothing
cached newer than the site. `Reading(view, v)` says that a view shows every group unchanged
since version `v` as it is now; `Stands(t)` says the same of a task's baseline, for the groups
unchanged since the task named them, and that a task without a baseline has named none.
`Young` and `Honest` say of a job that what it has read and not saved is as new as the cache,
and that what it is about to announce has changed since it was last named and is in the
baseline already: the baseline is saved first, so that a failure or a stop after the message
cannot repeat it. `LookFacts` then shows that a group unchanged since the task named it is the
same in the two views the task compares, token filter included. The steps that touch neither
the site nor the cache nor a watched baseline are treated together (`Undisturbed`), as are the
changes of the site (`SiteMoves`); the saves, the evaluation and the alert have proofs of their
own. Both exceptions are needed: an edited task gets the cached groups of another moment as its
baseline, and ratios read without the user's own are not the site's. The assumptions are those
of `ChannelMonitor`, among them that there is a group at all (`Groups # {}`): without one
"nothing cached" and "no groups" could not be told apart. Theorems: `TypeCorrect`,
`NothingTwice`, `NeverOlder`.

**Only model-checked:** the liveness properties, the fairness part of the refinement included
(out of this prover's reach: `RefinesRunLog` is the safety part of `LogSpec`). All safety
properties of the passing runs are proved.

## 5. Not modelled, and why

* **Weights and scaling.** Floating-point formulas between the decisions and the write-back.
  What they yield is any tuned value in `ChannelSync`; a model of the formulas would say of
  them only what they say themselves.
* **Group aggregation.** Status buckets computed for display and an alert on their change. The
  one hazard, a status that is stored before its alert, is of the same kind as the one
  `ChannelMonitor` has for groups.
* **The composition of `Decide` with the write-back of several accounts.** Two hazards wait for
  it: a survivor that counts as alive although its flag is off, and a crash between
  `SetSchedulable(false)` and `persist`. The state space of the two together is beyond TLC even
  for two channels, since each account multiplies the copies and failures of `ChannelSync`.
* **Scoring.** Latency percentiles, and the matching of texts beyond the words that decide.
* **Multipliers.** The synchronisation with sub2api's own price pages, and the arithmetic that
  turns a multiplier into a limit (the breaker itself is in `Decide`).
* **Channel management.** Creating and deleting channels and the daily spending; vendors' HTTP
  dialects, mail and chat texts: input and output without shared state.
* **Reports.** What a report says, and how its messages fare. The default source, which stands
  for reports stored before they named one. Of the editors of reports one at a time is between
  its check and its save. A number that an outdated copy gives a second time makes a report
  which names it query the new source: the model has that behaviour, no property speaks of it.
* **Samples.** Requests that sub2api records without an id, which cannot be told apart and are
  passed over.
* **Authentication, image gateway, frontend, embedding, configuration, file permissions.** No
  state that the parts above depend on.
* **Store.** Each save is a step of the module that makes it; migrations, events and listings
  are left out.

## 6. Running

In this directory, for a run and for a module of proofs:

    tlc -workers 2 -config Decide.cfg MCDecide.tla
    tlapm DecideProofs.tla
