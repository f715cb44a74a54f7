# clousight-bench in TLA+

Specifications, model-checking runs and machine-checked proofs for
[clousight-bench](../src/README.md), a benchmark harness that provisions cloud
runtimes, measures them, and must give every one of them back. The code is
mostly sequential Python; what makes it hard is what happens *around* a line of
code: a signal, a deadline, a second process on the same file, a poller that
looks between two writes, a thread pool over an object without a lock, a disk or
a cloud call that fails half way. Those are the behaviours modelled here.

Paths below are relative to `src/src/clousight_bench/`. `PROJECT.json` maps
every definition to the lines it stands for, and lists hazards, findings,
mutants and theorems.

1. [The system](#1-the-system) – the inventory
2. [Modules](#2-modules) – what models what
3. [Runs](#3-runs) – what each run checks, bounds, fairness
4. [Findings](#4-findings) – where code and documentation part
5. [Proofs](#5-proofs) – what holds for every instance
6. [Not modelled](#6-not-modelled)

## 1. The system

| component | state it keeps | operations | talks to |
|---|---|---|---|
| **run lifecycle** `core/orchestrator.py` | stages, errors, bundle, result of one run | `execute`: gates, SETUP/EXECUTE/SEAL in a signal and deadline window, reconcile, TEARDOWN, SCORE, persist | everything below |
| **resource ledger, reconciliation** `core/resource_ledger.py`, `resource_reconcile.py`, `adapters/managed.py` | append log of created and deleted resources | book, mark deleted, residual, destroy known, verify by tag | cloud, orchestrator, reapers |
| **publish receipts** `core/publish.py`, `core/finalize.py` | `publish-receipts.jsonl` under a thread and file lock | reserve, settle, refuse | remote publishers |
| **cost budget** `core/cost_budget.py` | one JSON file per results directory | `total`, `add` | budget gate |
| **progress plane** `core/progress.py` | per run: `stream.jsonl`, `state.json`, `cancel` | writer events, snapshots, cancel; read, list, reap | console server |
| **console** `viewer/` | child processes, a summary cache, stream slots, target files | launch under a cap, list, stream, cancel; show, write and remove targets; pages | progress plane, records |
| **campaign** `core/campaign/`, `domains/agent_runtime/controller_reaper.py` | blob objects: claim, manifest, results, ledger, stop, DONE or FAILED | controller thread, watchdog, self-destruct reaper, operator's teardown | blob store, cloud |
| **result store** `core/store.py`, `core/persistence.py` | record, series sidecar, emergency copy | `persist`, degraded and emergency paths, readers | disk |
| **run plans, run-plan campaigns** `ops/runplan.py`, `core/campaign/manifest.py`, `cli/run.py` | the records are the resume state; a manifest file | `execute_plan`, resume, aggregate; tasks, marks, watcher | orchestrator, store |
| **cloud transports** `domains/agent_runtime/{aliyun,aws}/transport.py`, `reaper.py` | runtime id, endpoint, artifacts | provision (also lazily, from a pool), invoke, stop, sweep | cloud, ledger |
| **in-region probe** `domains/agent_runtime/probe/`, `carrier_base.py`, `campaign_probe_base.py` | blob objects per job, an instance | start, reset, dispatch, loop, idle out, reap | blob store, cloud |
| **data-plane probes** `probe/dataplane.py`, the transports' own versions, `mock_tools.py`, `agent_bundle/` | the mock's counters and its two configuration slots | inject faults; measure idle, rates, ceilings, scaling, load, reuse | platform |
| **suites** `core/suite_runner.py`, `suites/` | scratch and staged directories, connections, spans | prepare, run, teardown, validate; streams, refresh, ACID, retries | systems under test |
| **disruption proxy** `core/disruption.py` | tracked pairs, a timer, statistics | accept, pump, reset, stall, close | YCSB and its store |
| **scores, judges** `core/suite.py`, `core/metric_runner.py`, `core/judge.py`, `metrics/` | a judge cache file | evaluate artifacts, vote, flush | judge model |
| **traces** `suites/_tpc_official/trace.py`, `core/tracing.py`, `core/traceview.py` | spans | lay out, re-emit, draw | console |
| statistics, record types, redaction, registry, assets, credentials, pricing, other domains, web UI | – | pure functions, I/O, presentation | – |

How they interact: `execute` calls the adapter, which calls the cloud and books
in the ledger; it mirrors its stages into the progress plane; a suite or a
data-plane probe is what runs inside its EXECUTE stage; on its way out it calls
the store and, through `finalize`, the publishers. The console spawns `execute`
in child processes and knows them only by the progress plane and the records. A
run plan calls `execute` repeatedly and knows earlier runs only by their
records. A campaign runs `execute` on a controller box, and a probe runs jobs on
a carrier; both are known to the operator only by blob objects. No two of these
share memory; they share files and objects, written one at a time. Threads share
memory in five places: the pool over a transport, the TPC streams, the
disruption proxy, the mock tool server, and the console's request threads.

What is hard, by component, and what makes each correct:

- *run lifecycle*: a signal between any two lines, a one-shot alarm, an exception
  of any of three kinds at any stage. Correct when money is spent only past the
  gates, the verdict rests on evidence, one stage is blamed, teardown happens,
  what survives is named, and the row says what the record says.
- *receipts*: two processes, death after the remote call, torn lines. Correct
  when a key is never sent twice and receipts never claim more than happened.
- *budget*: read-modify-write without a lock, truncating rewrite. Correct when
  it never charges what was not spent, and closes the gate once what it can see
  reaches the budget (a run's own price it cannot see before).
- *progress*: half-written lines, stale snapshots, a dead writer, a reaper.
  Correct when events arrive once and in order, nothing is missing at `done`, a
  live run that shows itself is never swept, and dead rows go.
- *console*: a cap that counts rows which appear late; zombies; a target file
  looked up, parsed, measured and read again beside an editor; a cache shared
  without a lock. Correct when the cap holds, no credential is lost, none is shown
  of a file that parses, an answer is one file's truth, and pages agree with the
  records.
- *campaign*: objects become visible one at a time; a watchdog that races with
  the thread it guards; threads of a task create runtimes that no ledger lists;
  the box deletes itself last. Correct when markers are honest and final, and what
  is left running has a cause.
- *store*: two files that must agree, faults and death in between, shrinking of a
  bad record, readers at any moment. Correct when nothing vanishes, nothing
  private leaks, and less never looks like success.
- *run plans*: sessions cut and resumed while the environment changes; a
  manifest whose tasks repeat.
- *transports*: check-then-act on the runtime id from several threads; a failure
  between creating and booking. Correct when all that is left behind has a cause,
  and the sweep finds it.
- *in-region probe*: a prefix that outlives its campaign, claims that are no
  compare-and-swap, two idle clocks. Correct when a job runs once and every
  instance ends.
- *probes*: a mock with one slot for all, redelivered and cut invocations, noisy
  observations. Correct when a verdict that accuses is earned.
- *suites*: a stream that fails while others run, a cancel seen only at polls,
  retries, a timer that fires while the run ends. Correct when a bundle is whole
  or there is none, nothing is left on the host but what named error paths leave,
  and the numbers happened.

## 2. Modules

| module | models | notes |
|---|---|---|
| `RunLifecycle` | `execute()` with the cloud runtimes of its task | one action per step of the function and per way a step can end; the environment (signals, cancel, hang, swallowed alarm) is separate |
| `RunContract` | what a run promises | abstract: gates → window → closing → closed → recorded, or gone |
| `RunLifecycleProofs` | theorems about `RunLifecycle` | section 5 |
| `PublishReceipts` | `_publish`, `begin_publish_attempt`, `append_receipt` for several processes | the lock, the file and its torn state, the remote call |
| `AtMostOncePublish` | the promise of that protocol | abstract: a call per key at most, confirmations only of calls |
| `CostBudget`, `MCCostBudget` | the ledger and the gate, several runs | MC adds symmetry of the runs |
| `ProgressPlane` | one writer, one subscriber, one reaper | the clock is one flag: the snapshot is older than the grace period |
| `SharedFilesProofs` | theorems about `PublishReceipts` and `ProgressPlane` | the files that several processes write or read at once; section 5 |
| `ConsoleLaunch` | launch endpoint, children, the listing that collects | |
| `ConsoleRequests` | target endpoints, launch with a target, stream slots, cancel, write gates | request threads, an editor, one target file |
| `ConsoleViews` | listings with the shared cache, board, suites, usage, spans | the derived pages are operators over the rows of one listing |
| `Console` | composes the three | a behaviour is one scene, the others rest: they share no state |
| `ConsoleProofs` | theorems about `Console` | section 5 |
| `Campaign` | controller, watchdog, reaper, laptop | a runtime is its execution and a number: a task books one, and its transport may create others |
| `CampaignProofs` | theorems about `Campaign` | section 5 |
| `ResultStore` | one `persist` call and its readers | a record is the set of parts it holds; a part is fine, leaky, broken or misshapen |
| `RunPlan` | a plan over several sessions | a run is one step: `RunLifecycle` has what is inside |
| `PlanManifest` | one `run-plan` invocation, its manifest, its watcher | an `execute_plan` is one step: `RunPlan` has what is inside |
| `PlanRuns` | composes the two | |
| `PlanRunsProofs` | theorems about `PlanRuns` | section 5 |
| `InRegionProbe` | control plane, carrier instances, agent loops, runner threads | several campaigns on one prefix |
| `InRegionProbeProofs` | theorems about `InRegionProbe` and `DataPlaneProbes` | the probe jobs and what they measure; section 5 |
| `AgentRuntimes` | both transports, the managed adapter, artifacts, stop, sweep | threads of a pool |
| `AccountsProofs` | theorems about `ResultStore`, `CostBudget` and `AgentRuntimes` | what a run leaves to account for: its record, its money, its runtimes |
| `FaultProbes` | fault recovery, retry storm, head-of-line blocking, the mock server, the deployed agent | all three implementations of each |
| `LoadProbes` | idle, rate, ceiling, scaling, load, soak, curve, ttft, cancel, isolation, writes | the world is what the platform does, `seen` what the probe observed |
| `DataPlaneProbes` | composes the two | |
| `SuiteRunner` | prepare, run, teardown, staging, span validation; the sequential suites | `late` counts units begun after a cancel |
| `TpcOfficial` | power, throughput streams, refresh, maintenance, ACID | extends `SuiteRunner` |
| `DisruptedRun` | YCSB under the disruption proxy | extends `SuiteRunner` |
| `SuiteScores` | the evaluators over whole and unreadable artifacts | after the run |
| `JudgedScores` | two scorers that share a judge cache | after the run |
| `RunTrace` | steps reported live, spans laid out afterwards, replay into the run's trace | after the run, and for any foreign file of three spans |
| `SuiteRuns` | composes the six, and states what spans several | |
| `SuiteRunsProofs` | theorems about `SuiteRuns` | section 5 |

### How state and actions correspond to the code

`RunLifecycle`. `pc` is the place in `execute`; the points between two
statements that a signal can hit are points of their own (`preSetup`, `setup`,
`preExecute`, …, `leaving`). `stages`, `errors`, `bundle`, `interrupted` are the
function's locals; `req` fixes what the gates read. `alarm` is the pending
SIGALRM, `hung` a call that will not return, `cancel` the marker file, `polled`
`should_cancel`'s memory. `fate` is the truth in the cloud, `booked` the ledger
residual, `handle` the transport's own runtime id and `lazy` whether the
transport created it by itself. `inflight` says whether create calls are under
way, the task's own or lazy ones. Threads of a pool may each find no runtime and
create one: the last to return is the `handle`, the others are `displaced`. A
deadline or a signal that strikes while a pool works waits for its threads
(`NoPool`, `DeadlineWaits`); a second exception in that wait is not modelled. `record`, `row` and `costBooked` are what the run
leaves; `escaped` is where an exception left the `finally` block. `TaskFails`,
`StageCrashes`, `Cancelled`, `SignalInWindow` and `Deadline` are the except
clauses; each takes the whole clause, the choice of the blamed stage and the fate
of the bundle included (`Fail`).

`PublishReceipts`. `pc[p]` is the place of process *p* in `_publish`; the lock
holder is explicit; `receipts` is what the file's lines say, and `text` tells
whether they are whole lines, the last one lacks its newline, or a line does not
parse, which makes every later read raise. `called` is the history of remote
calls. A crash resets a process and releases the lock; nothing else of it remains.

`CostBudget`. `Load`, `Truncate`, `Fill` are the three system calls of `add`. A
file that does not parse is an empty ledger, as in `_load`. The gate sees the
caller's estimate; what a run costs is the enricher's price, any amount up to
`MaxPrice`, or the estimate when there is no price (`Realized`).

`ProgressPlane`. An append takes two steps, so that a reader can see half a
line; the snapshot replacement is one step (`os.replace`). `Look` and `Judge`
are the two halves of `read_state`. `BeginFails` is the error path of `begin`: the
plane is off and the directory may be there without a snapshot (`Dark`).

`ConsoleLaunch`. A child is alive before its row exists. A dead child is a
zombie until `subprocess.Popen` polls it or the server ends. `ConsoleRequests`:
a file's text is what parsing and redaction tell apart (plain, secret, masked,
`broken`: not YAML, so served as it is, `bytes`: not UTF-8, so the request fails);
`Find`, `Parse`, `Stat`, `Text` are the reads of `load_target`, `Open` and `Fill`
the two halves of `write_text`, `Unlink` the delete; `answer` is the answer just
given. `ConsoleViews`: a listing is `stat`, cache lookup, read, prune; a file's
version is its content.

`Campaign`. Each blob write is a step; `manifest` is the thread's copy and
`status` what is in the store; `ledger` is on the box and `synced` its last copy
in the store. `handle` is the runtime the task's transport knows, `made` how many
the task created, `displaced` those whose place there another took; `excused` are
the runtimes for which a call raised.

`ResultStore`. `Init` ranges over every assignment of qualities to parts.

`RunPlan`. `now` is the pair of fingerprints a run would get at the moment; it
may change between sessions. `existing` is what `_completed_slots` found.
`PlanManifest`: `manifest` is in memory, `onDisk` in the file, `results` what
each `execute_plan` came to; the carrier is `left` when its delete raised, which
`StopProbe` suppresses.

`InRegionProbe`. `store` is the set of objects by prefix, kind and job; a
campaign without a run id uses prefix 0. `pc`, `loop` and `probe` are the control
plane, the loop of each instance and the runner's thread of each job. A deadline
may pass whenever it is looked at.

`AgentRuntimes`. `held`, `url`, `lazy` are the transport's attributes; the check
and the write of them are separate steps of a thread (`at[t]`), since nothing
locks them. `overlaps` counts provisions that began during another one, `failures`
provider calls that failed.

`FaultProbes`. `fault` and `latency` are the mock's single slots, `counts` its
per-correlation counters; the platform may answer, cut, refuse or redeliver.
Head-of-line blocking is computed as the code does it, by medians: quick request
*i* of a session that queues takes *i* times the `pace`, the slow one stands
`ahead` of some of them (`Behind`), and `Serialized` compares the median with
twice that of the baseline, which has the queue of its own requests in it. Pace is
steady and no quick request fails. `LoadProbes`: a probe's verdict is an operator
over `seen`; `world` says what the platform really does, and whether the agent
streams; a blip is an observation that does not show it.

`SuiteRunner`. `stage` is prepare, run, teardown, …; `pos` counts finished units;
`dirs` is what exists on the host; `con` is the query set's connection and
`dropped` the connections that no code will close any more; `requests` and `spans`
are the evidence of the chat suites. `TpcOfficial`: `at[w]` is where stream *w* is; a refresh function is
two separately committed statements, so `db` counts them by table.
`DisruptedRun`: each critical section of the proxy's lock is one step; sockets are
closed outside it, one pair at a time (`cutting` by a reset, `doomed` by the end).
The suite joins the timer for five seconds: it may give up on one that is firing
(`gaveUp`). `SuiteScores`: a number is the
fraction it is published as. `JudgedScores`: `draft` is the one `.tmp` file that
every scorer renames. `RunTrace`: ids are records, times whole units.

## 3. Runs

Every property of a run has a mutant in `PROJECT.json`: a definition of the model
changed the way a plausible bug would change the code, under which TLC finds the
property violated. The mutated forms stand next to the definitions they replace,
each with a comment starting with "Mutant of". Some more mutated forms stand in
the modules for the conjuncts that the listed mutant does not break (a property
that is a conjunction has one listed mutant): `CleanupResets`,
`AwsProbeLooksAtFlag`, `ResultMissing`, `ResultUncounted`, `PublishLast`,
`HandshakeUnchecked`, `LoadedNothing`, `ReapNatEarly`, `PutRefusalOfBroken`, `ReleaseIfServed`, `SuiteKeyOfProvenance`,
`FillOnlyMine`, `FreshInclusive`, `DrainUnlessOver`, `CheckOwn`, `DegradedAsIs`,
`GroupAll`.

| run | distinct states | shows |
|---|---|---|
| `RunLifecycle` | 608 940 | One run of the orchestrator with two runtimes, every way a stage can end, a cancel, up to two signals at any point, and a deadline: nothing is spent past a gate, verdicts rest on evidence, teardown and the report of survivors happen unless a signal cuts them short, the progress row says what the record says, the run ends, and it implements RunContract. |
| `PublishReceipts` | 274 616 | Two processes publish records with two idempotency keys in three attempts, dying anywhere, lines torn: no key is sent twice, a success receipt means a call that returned, every reserved attempt ends, and the protocol implements at-most-once publication. |
| `CostBudget` | 180 299 | Three runs share a ledger that is read and rewritten without a lock: whatever interleaves or dies, the total is that of its entries; run one after the other, no finished run is lost, and all of them but one, with the estimate of that one, cost less than the budget, whatever price the enricher puts on a run. |
| `ProgressPlane` | 689 532 | One writer with split appends and a capped stream, a subscriber that reconnects, and a reaper: events arrive once and in order, done comes after everything, no live run is collected but one whose first snapshot failed, subscriptions end and dead rows go. |
| `Console` | 467 442 | Three scenes of the viewer: runs launched under a cap by children that publish before the next request; two request threads and an editor on one target file, with a launch, a stream and a cancel; two listing threads over files that are written and removed; and every page of up to two records. Caps, targets, answers and listings are what they claim to be. |
| `Campaign` | 525 264 | A controller over a plan of two executions of two task ids, of up to two runtimes each, booked or created lazily by threads of a pool, one store or cloud fault, the watchdog's timeout and an operator's teardown at any moment: results precede statuses, the marker tells the truth and is the last word, what a campaign leaves is a runtime whose call raised or whose place another thread's took, and the box removes itself. |
| `ResultStore` | 22 170 | One record of five parts, each fine, leaky, broken or misshapen, persisted with up to three disk faults and a crash at any write, and read at any moment: what is on disk names its series, holds nothing private, says failed when it is smaller, a reader sees it or says why not, and a refused or failed write leaves a copy somewhere. |
| `PlanRuns` | 378 553 | Two scenes: a plan of one warmup and two repeats over two sessions, with a cut, a degraded record and an environment that may change; and a `run-plan` campaign of up to three tasks, named twice at times, with a probe carrier, a fault or an interrupt, and a watcher. Aggregates cover each slot once and pool what compares; the manifest says what became of the tasks, and a carrier is left only by a delete that raised or a kill; resumption and watching end. |
| `InRegionProbe` | 1 033 333 | Two campaigns one after the other on the same prefix, with two jobs and one, one fault anywhere: a job is run at most once, what is reported was done, markers are the campaign's own, carriers are reaped and every loop ends. |
| `AgentRuntimes` | 2 083 106 | Three threads of a probe provision, invoke and tear down runtimes lazily on the Aliyun or the AWS transport, with up to five runtimes and three faults: every runtime left or created twice has its cause in the code, and a sweep collects what the code can recognise. |
| `DataPlaneProbes` | 3 383 140 | Two probes share one mock tool server with its single fault and latency slots, on platforms that serve a session's calls one by one or together, at two paces; and one load, ladder, idle, session or isolation probe at a time runs against each kind of platform with up to two blips: verdicts are earned by what the platform did. |
| `SuiteRuns` | 1 017 174 | Scenes of the suites: an item suite with retries and cancels, the TPC official run with two streams and a refresh thread, YCSB under disruption, evaluators over whole and broken artifacts, a shared judge cache, the traces of two suites and all three-span foreign files: a run is whole or nothing, cleans up but for the connections its error paths leave open, and what it reports happened. |

A property named in a cfg may be a conjunction; its parts are definitions with a
comment each:

| property | parts |
|---|---|
| `StreamIsFaithful` | `InOrderOnce`, `NothingSkipped`, `DoneDeliversAll` |
| `NothingOutlivesTheWriter` | `SubscriptionEnds`, `PhantomsCollected` |
| `OrderlyRunsAreCapped` | `BudgetCaps`, `EveryRunBooked` |
| `RequestsHold` | `TargetsAreKept`, `AnswersHold`, `RunsGetTheirTarget`, `SlotsComeBack` |
| `ViewsHold` | `ListingsAreTrue`, `PagesAgree` |
| `CampaignKeepsFaith` | `ResultBeforeStatus`, `MarkerIsHonest`, `DoneLeavesNothing`, `TeardownMissesOne` |
| `CampaignEnds` | `MarkerIsFinal`, `SelfDestructs` |
| `DiskIsSound` | `SeriesAreFindable`, `ReadersKeepUp`, `NothingPrivateWritten`, `SmallerMeansFailed` |
| `PlanIsSound` | `AggregateIsSound` (`AggregateIsWhole`, `PooledAgree`), `ManifestIsTrue` |
| `PlanProgress` | `ResumedSlotsRest`, `WatchEnds`, `CampaignEnds` (of `PlanManifest`) |
| `JobsAreKept` | `TypeOK`, `OneRunPerJob`, `ReportsAreTrue`, `MarkersAreOwn` |
| `EverythingEnds` | `CarrierIsReaped`, `LoopsEnd` |
| `WasteIsCaused` | `TypeOK`, `LeaksAreCaused`, `CreatesAreCaused` |
| `FaultVerdictsHold` | `TrafficKeptApart`, `ExactWhenAlone`, `VerdictsAreEarned` |
| `LoadVerdictsHold` | `IdleVerdictsHold`, `LaddersHold`, `LoadAddsUp`, `SessionVerdictsHold` |
| `WholeAndClean` | `WholeOrNothing`, `NothingLeftBehind`, `ConnectionsClosed` |
| `EvidenceIsSound` | `TraceIsHonest`, `EvidenceIsWhole`, `StreamsAreFenced` |
| `NumbersAreHonest` | `ScoresAreHonest`, `JudgeIsHonest` |
| `TraceIsFaithful` | `WaterfallsAgree`, `ReplayIsFaithful` |

What a property leaves out. Some promises hold with exceptions that are the code's,
not the model's. They are written into the property, so that the check says that
there are no others:

- `SurvivorsAreReported`: not named are a runtime whose place in the transport
  another thread's took, one whose create call did not return, one that `stop()`
  could not delete (it swallows the error), and one whose delete was accepted and
  has not been carried out; what the ledger holds is never among them.
- `DoneLeavesNothing`, `TeardownMissesOne`: runtimes for which a call raised, and
  displaced ones (`Owed`).
- `BudgetCaps`: the price of one run; the gate sees an estimate.
- `LiveNeverSwept`: a run that could not write its first snapshot (`Dark`).
- `AnswersHold`: a text that does not parse is served as it is; one that cannot be
  decoded fails the request; and requests under which the file changed.
- `ManifestIsTrue`: a carrier is left by a launch or a delete that raised, or by a
  kill of the command; the exit code does not tell.
- `ExactWhenAlone`: a queue is reported where the slow call outlasts the queue of
  the baseline (`Telling`), and is never invented.
- `SessionVerdictsHold`: the first-token probe of an agent that does not stream.
- `NothingLeftBehind`, `EvidenceIsWhole`: what a timer still does after `join` gave
  up on it.
- `ConnectionsClosed`: the five places where a DuckDB connection is open outside any
  `finally` (`LeftOpen`): the load, the query set, an official run before its `try`,
  its streams before theirs, and the second connection of the isolation probe.
- `ClaimsAreEarned`: a disruption that was carried out may have met no connection.

### Bounds, and why they are enough

- `RunLifecycle`: two runtimes (one given back and one that survives; one booked
  and one in flight; one that displaces another), two signals (one in the window and one in the closing). The
  theorems lift both bounds.
- `PublishReceipts`: two processes, two keys, three attempts: a crashed attempt,
  a concurrent one and a later one. The theorems lift them.
- `CostBudget`: three runs, so that a lost update can involve a reader between
  two writers; prices up to 3 with a budget of 4 and estimates below them, so that
  it is reached exactly and passed by an underestimated run; one run that is lost.
  The theorems lift them.
- `ProgressPlane`: two events tried and one line before the cap: one kept, one
  dropped or forced through; one fault; one reconnect. A third event adds
  length, not a new order. The theorems lift them all.
- `Console`: three runs with a cap of two, so that one is refused, and one
  handler thread (with more the cap is exceeded by the race between counting and
  spawning); two request threads and one upset over one file, since requests
  about different files do not meet; two listers over two files with two writes
  and one removal, so that one prunes what another has just found; pages of up to
  two records, which makes two of a suite, of a platform or of neither. The theorems
  lift the number of request threads, runs, upsets, listers, files, writes and
  records of a page. The cap is checked, not proved: it does not hold of a server
  whose children publish late.
- `Campaign`: two executions over two task ids, repeated ids included; up to two
  runtimes for each, so that one can displace the other; one fault. The theorems
  lift the three bounds.
- `ResultStore`: five parts of four qualities, three faults: sidecar, record and
  emergency write can all fail in one call. The theorems lift both.
- `PlanRuns`: one warmup, two repeats, two fingerprints, two sessions, one fault;
  plan files of up to three entries over three ids, so that an id can come back
  with another in between. The theorems lift them, and take any plan file.
- `InRegionProbe`: two campaigns, the first with two jobs, so that its instance
  can have one left when the second starts on the same prefix; one fault. The
  theorems lift them, and let campaigns with a prefix of their own come between
  those that share one.
- `AgentRuntimes`: three threads, five runtimes, three failed calls, on either cloud: two
  threads overlap while the third fails. The theorems lift them.
- `DataPlaneProbes`: two probes on one mock, two upsets, one warm-up attempt (6
  in the code: the others repeat it); two quick requests (20 in the code), a slow
  one that is one unit longer, and paces of 1 and 2: with the first the slow
  request outlasts the baseline's queue, with the second it does not; three workers, four calls and two blips: one
  blip spoils an observation, the second one the majority of three. The theorems
  lift the probes, upsets, warm-ups, quick requests, latency, pace, workers, calls
  and blips; the ladders, idle
  intervals and the few calls of a curve stay as listed in `LoadProbes`.
- `SuiteRuns`: three units, so that the first, a middle and the last one can
  fail; budgets of 1, 2 and 3 attempts; two streams and the refresh; three
  connections (one closing, one up, one in handshake). The theorems about
  `WholeAndClean`, `EvidenceIsSound` and `NumbersAreHonest` lift the units, streams,
  attempts and connections. `RunTrace` takes every
  official document whose durations are 0 or 1 (32 for each of the two
  suites) and all 13 824 foreign files of three spans; `JudgedScores` two scorers
  over two items, or one item and three samples.

### Fairness and timing assumptions

- `RunLifecycle`: `WF(Thread)`, the thread runs, and `WF(Deadline)`, the kernel
  delivers an armed alarm. No fairness for signals, cancels or hangs. A call that
  hangs with no alarm left is an allowed end of `RunEnds`: the code gives
  no bound there.
- `PublishReceipts`: `WF` of each process's steps. Lock handover is fair because
  an attempt takes the lock a bounded number of times.
- `ProgressPlane`: `WF(Poll)` (a subscription polls every 0.4 s),
  `WF(Reap)` (someone lists runs from time to time), `SF(GracePasses)` (the grace
  period passes between two listings). `GracePasses` is enabled only while no
  short operation is in the middle: two minutes are assumed longer than `begin`,
  than one look and drain, and than one scan.
- `Console`: `WF(List)`, the end of children, and the grace period. `Prompt`
  makes explicit what the cap needs: a child publishes before the next request is
  judged. Without it the cap is exceeded (finding).
- `Campaign`: `WF` of the main thread, the watchdog and the timeout. None for the
  controller thread (a task may hang: the stage deadline needs the main thread,
  and a campaign's tasks are not on it) nor for the laptop.
- `PlanRuns`: `execute_plan` returns or raises and the watcher wakes; nobody is
  bound to kill anything.
- `InRegionProbe`: `WF` of the control plane and of each instance, `SF(IdleOut)`,
  since the loop adds up idle time over its polls. A probe thread may run for ever.
- `AgentRuntimes`: a provision in progress goes on, the run closes, an operator
  sweeps again after a sweep that raised.
- `SuiteRuns`: `WF` of the run's thread, the streams and the proxy. This assumes
  that tools, queries and endpoint calls return: the code puts no timeout on
  them, so without it `SuiteEnds` is not to be had.

`CostBudget`, `ResultStore` and `DataPlaneProbes` state safety only.

## 4. Findings

Places where the code does something else than a comment, a docstring or a test
says, met while modelling. Each is in `PROJECT.json` with its line and its quote;
the models do what the code does, and a property that would not hold because of
one excepts exactly that case (the exception is named in its comment).

*Runs and campaigns*

1. `core/orchestrator.py:573` – a signal during reconciliation leaves the
   `finally` block before `adapter.teardown()`: no teardown, no record.
2. `viewer/server.py:757` – children that have not published a row are not
   counted, so requests in quick succession pass the cap.
3. `controller_reaper.py:35` – the reaper reads the ledger once, while the
   controller thread may be between creating a runtime and booking it.
4. `ops/runplan.py:242` – a degraded record loses the plan context
   (`core/store.py:271`): its slot is run again.
5. `core/campaign/manifest.py:100` – a plan that names a task twice takes the
   first entry back from `completed` to `running`; the second stays pending and
   the watcher never ends.
6. `cli/run.py:203` – a plan with `--probe` and no carrier, a bad `repeat`, or
   Ctrl-C leaves the manifest pending for ever.
7. `cli/run.py:250` – `run-plan` exits 0 when every repeat of a task failed.
8. `core/cost_budget.py:41` – the gate goes by an estimate that defaults to 0: one
   run may pass the budget by its whole price.

*Console*

9. `viewer/launch.py:193` – `--run-id` together with `--repeat` or `--warmup` is
   answered 202, and the child refuses it at once.
10. `viewer/data.py:135` – two listers that prune the same file: the second one's
    page is a 500.
11. `viewer/targets.py:215` – the text of a target is read after its mapping was
    judged, and may be that of another version.
12. `viewer/targets.py:215` – a text that does not parse has nothing to redact and is
    served with what it holds.
13. `viewer/launch.py:230`, `viewer/server.py:563` – a launch that never started
    is counted; a server described as read-only writes.

*Transports, probes, carriers*

14. `probe/agent_loop.py:216` – the loop on an EC2 carrier builds the Aliyun
    client. `:119` – one job that does not parse ends the loop.
15. `aliyun/reaper.py:188` – the resource's name is put where the run id is
    compared, so the cloud query of the reconciliation never sees anything.
16. `aliyun/transport.py:181`, `:1774` – a provision that raises after the create
    call leaves a runtime that neither `stop()` nor the ledger knows; two threads
    use the same name.
17. `probe/dataplane.py:607`, `:723`, `:812`, `aliyun/transport.py:842` – the
    promise window of a short timeout, a `Retry-After` date, the ceiling that was
    rejected, and writes that cannot meet.
18. `aliyun/transport.py:179` – runtimes that an invocation creates lazily are never
    booked, and a second thread's takes the place of the first one's.
19. `probe/dataplane.py:1197`, `:1147`, `:80` – fault recovery sees two attempts, not
    the three documented; the "clean" baseline of the blocking probe contains its
    own queue and can hide the platform's; an agent that does not stream is
    reported as reliably warm.

*Suites, judges, traces*

20. `core/judge.py:151`, `:154` – samples of one prompt are one reply counted
    several times; two scorers lose each other's cache entries.
21. `core/tracing.py:250` – spans with the same id become one; of a cycle only the
    first lands on the stage; a dangling one stays at its place.
22. `core/suite.py:115` – a `prepare` that raises half way is never torn down.
23. `suites/tpc_c/suite.py:169`, `suites/_tpc_official/acid.py:97`, `suites/swe_bench/suite.py:438` – a
    password file outlives a cancelled run; a probe that crashes spoils the next;
    two runs of the same instances share a run id.
24. `suites/ycsb/suite.py:333` – a reset that found no connection counts as a
    disruption that the run completed under.

Other behaviours that the models have, without a statement against them:

- An interrupted run is not booked in the cost ledger
  (`core/orchestrator.py:598-603`). Runs in parallel are admitted against the same
  total and overshoot together, and lose each other's entries. The ledger file is
  truncated before it is written; a death in between resets the total to zero.
- A create call cut between the cloud and `record_created`
  (`adapters/managed.py:298-303`) leaves a runtime known by its tags only.
- `stop()` swallows a delete that raises (`aliyun/transport.py:1590-1595`), and
  `stop_campaign_probe` one of the carrier (`campaign_probe_base.py:111-114`).
- A run whose first snapshot cannot be written goes on without its plane, and a
  reader removes its directory after the grace period (`core/progress.py:649-655`).
- A DuckDB connection opened outside any `finally` stays open when what follows it
  raises (`suites/_duckdb_tpc.py:310-317, 339-372`, `phases.py:128-129, 263`): no
  document promises otherwise, and it is gone with the process.
- `teardown.reclaimed` says a resource "is now gone"
  (`core/resource_reconcile.py:12`); an accepted delete may still be under way.
- The deadline is one SIGALRM. A broad `except` around a tool call
  (`aws/transport.py:433`, `aliyun/transport.py:432-462`) can swallow it, and
  nothing arms it again.
- `read_state` (`core/progress.py:597-611`) reads the snapshot and then probes
  the pid; a run that completes in between is reported as abandoned.
- A zombie child answers signal 0, so its row stays in flight until the console
  spawns another child or ends.
- The ledger copy of a campaign is made after each task
  (`core/campaign/controller.py:85-86`): a teardown in the middle of a task does
  not see that task's runtimes. `TeardownMissesOne` says that it misses no other task's.
- A campaign stopped between tasks is marked DONE
  (`core/campaign/controller.py:68-69, 89`), with tasks still pending.
- `live_runtimes()` is called outside the `try` of the reaper, and a blob error
  in the watchdog's poll ends the process: in both cases the box stays.
- If persisting raises, the row stays `running` and the cost is not booked.
- `invalid` records count as done on resume, and `--plan-id` without `--resume`
  adds a second record to each slot.
- An instance that outlived its campaign on the shared prefix can take, and run a
  second time, the jobs of the next one (`Haunted` in `InRegionProbe`).

## 5. Proofs

TLAPS proves, for every value of the constants that satisfies the modules' named
assumptions. These say that bounds are natural numbers, that a plan has a repeat
and an environment a fingerprint, that the cap is not zero, that a value which
stands for "none" is none of the others (`NoRuntimeAssumption`,
`NothingAssumption`, those on `NoKey` and `NoProc`), that the runs which share a
ledger, the threads of a pool and the workers of a load are finitely many
(`RunsAssumption`, `ThreadsAssumption`, `LoadAssumption`), that a platform takes
some time and a blocking probe sends a quick request (`PaceAssumption`), and that a
suite has a unit, a stream and at least one attempt (`UnitsAssumption`).

| module | theorems |
|---|---|
| `RunLifecycleProofs` | `Invariance` (`Spec => []Inv`), and from it `TypeCorrect`, `SpendingIsGated`, `VerdictsAreEarned`, `BlameIsUnique`, `TeardownIsReached`, `SurvivorsAreNamed`, `RowIsTrue` (`RowFollowsRecord`), `TeardownIsSpared`, and `ContractImplemented` (`Spec => Contract!Spec`) |
| `CampaignProofs` | `Invariance`, `FaithIsKept` (`CampaignKeepsFaith`, all four parts), and `MarkerIsTheEnd` (an action property: nothing on the store changes after the marker) |
| `InRegionProbeProofs` | of `InRegionProbe`: `Invariance`, `JobsAreSafe` (`JobsAreKept`, all four parts), and `CarriersAreReaped` (`CarrierIsReaped`); of `DataPlaneProbes`: `FaultProbesInvariant`, `FaultVerdictsEarned` (`FaultVerdictsHold`, all three parts), `LoadProbesInvariant`, `LoadVerdictsEarned` (`LoadVerdictsHold`, all four parts) |
| `SharedFilesProofs` | of `PublishReceipts`: `Invariance`, `TypeCorrect`, `PublishedAtMostOnce`, `EveryCallAnnounced`, `TrueReceipts`, `EvidenceKept` (an action property), and `BoundaryImplemented` (`Spec => Boundary!Spec`); of `ProgressPlane`: `PlaneInvariant`, `StreamFaithful` (`StreamIsFaithful`, all three parts), `LiveKept` (`LiveNeverSwept`, an action property) |
| `ConsoleProofs` | `RequestsKept` (`RequestsHold`, all four parts), `ListingsTrue` (`ListingsAreTrue`), `ViewsTrue` (`ViewsHold`: with it `PagesAgree`) |
| `PlanRunsProofs` | `PlanRunsInvariant`, `PlanSound` (`PlanIsSound`, all its parts), `SlotsRest` (`ResumedSlotsRest`, the action property in `PlanProgress`) |
| `AccountsProofs` | of `ResultStore`: `StoreInvariant`, `DiskSound` (`DiskIsSound`), `NothingIsLost` (`NothingVanishes`); of `CostBudget`: `BudgetInvariant`, `LedgerAddsUp` (`NeverOvercharges`), `BudgetIsKept` (`OrderlyRunsAreCapped`); of `AgentRuntimes`: `RuntimesInvariant`, `NothingIsWasted` (`WasteIsCaused`) |
| `SuiteRunsProofs` | `SuiteInductive`, `SuitesWholeAndClean` (`WholeAndClean`, all its parts), `SuitesEvidenceIsSound` (`EvidenceIsSound`), `SuitesScoresAreHonest` (`ScoresAreHonest`), `SuitesNumbersAreHonest` (`NumbersAreHonest`, the judge's part included) |

Every inductive invariant was checked with TLC on the instance of its run before
it was proved.

**The invariant of the run lifecycle.** None of the safety properties is
inductive. `VerdictHasEvidence` speaks of the record, which is decided from
`errors` and `result` many steps earlier, so `StageInv` and `ClosingInv` carry
what `stages`, `errors` and `bundle` agree on at each point: a run that is
closing has either all its observations or the error that cost it them.
`SurvivorsAreReported` needs to know where a live runtime is known from before
reconciliation looks (`SurvivorInv`: in the ledger, held by its own transport, or
displaced there by a later one), `GatesGuardSpending` what each gate has established for the points
after it (`GateInv`), and `TeardownUnlessCut` which points lie beyond the
teardown (`TeardownInv`). `CallInv` keeps the create call in its place. `TypeOK`
has four parts, one per group of variables. The proof has one lemma per
conjunct of `Inv` (`ControlStep`, `WatchStep`, `CloudStep`, `OutStep`,
`CallStep`, `StageStep`, …) with one step per action or group of actions that
can disturb it, and `NextInv` joins them. `FailEffect`, `DestroyedEffect` and
`StopEffect` state once what the shared operators do. The contract adds
`UsedStep`, `PhaseStep` and `SpendStep`: every step maps to a step of
`RunContract` or to a stutter.

**The invariant of the receipts.** At-most-once rests on `ReservationInv`: a
reservation is announced in the file before the lock is given up (or the file
cannot be read any more, so nobody decides) and no other process holds one for
its key. `LockInv` and `ViewInv` make the read and the write one critical
section; `CallInv` and `FailedInv` tie calls to the lines that announce them.

**The invariant of the campaign.** What a finished campaign leaves depends on
where each runtime is known from while it lives: `KnownInv` says that a runtime
that somebody owes is in the ledger or is the one the transport knows, and
`HandleInv` that the transport of a task knows one of that task and is empty between
tasks. The reaper works on a list it read once, so `ReaperInv` carries that
everything owed is on that list when it was read after the end. The operator's
teardown reads a copy of the ledger, which lacks at most the runtimes of the current
execution (`LaptopInv`), and no execution follows the one that was current when the
copy was used: this is why what it misses belongs to one task. `ManifestInv` says that nothing from the
current execution on is claimed to have ended, and that every completed
execution before it has both its files; `OrderInv` who runs when.

**The invariant of the probes.** `OneRunPerJob` cannot rest on the claims, which
are no compare-and-swap. It rests on `RunInv` (without an instance from before,
only a campaign's own instance runs its jobs), on `OnceInv` (an instance handles
a job of its own prefix once), and on `HandledInv`: the spec of a job that was
run is on the store only next to its result, or while the job is at hand. The
last holds because a reset deletes specs before results, and needs `MarkerInv`
for what a reset still has to remove. `CarrierInv` ties the instance a campaign
deletes to the one it launched, `LoopInv` each loop's point to the job it has,
and `StoreInv` every object to its campaign. All conjuncts were also checked
on three campaigns of which none, the last two, or
the first and the last have a prefix of their own, before they were proved.

**The invariant of the progress plane** (`PlaneInv`). A subscriber resumes by a
number that stands for a place in a file, so `StreamInv` says of every token what
lies before it, and `GotInv` that what was received is exactly that. What is
received twice or never would show there. `ReaderInv` says what the subscriber
believes of the run: a final snapshot is only seen when the lines before it are
in the file. `WriterInv` is about the lock and the half-written line. A live run
is not swept although the reaper decides on what it read earlier, because
nothing is past due while it still may act on that, and a run that has begun has a
snapshot or is `Dark` (`LiveInv`). Which
lines are past a token is computed by a recursive function (`Past`); what it
computes is proved by the least number for which it would fail (`Least`).

**The invariants of the console.** Requests (`RequestInv`): `ThreadInv` says what
each thread still knows of the target file if nobody changed it meanwhile; `TargetInv`
that masked text in the file came from the editor, and that a server which may
not write did not; `NotedInv` and `SlotInv` who owns a run's target and a stream
slot. Listings (`ListInv`): a cache entry that hits is the file's content even if
it was read after the file changed (`CacheInv`), and of two threads that prune
together both are marked (`PruneInv`).

**The invariants of the plans.** `SessionInv`: what a session starts from and what
it has taken stand for their slots, agree where they are pooled, and in a resumed
session a slot still to be run has no record to resume from (`ResumedInv`).
`CampaignInv`: for a plan that names no task twice, the manifest says
of each task before the current one what its `execute_plan` came to, and of
each later one that it is pending (`MarkedInv`); `LoopInv` says how far the
command has got at each of its points.

**The invariant of the store** (`StoreInv`). What `persist` promises of its end is
carried by what is about to be written at each of its steps (`PayloadInv`): the
parts are clean by the time the record is written, whichever of the degraded,
shrunk or emergency paths led there. `DiskInv` has what is on disk at each step,
`ReaderInv` that a reader's record is that one and does not change any more.

**The invariant of the ledger** (`BudgetInv`). The file *and every copy a run has
loaded* add up and list only runs that are over (`LedgerInv`): a lost update
puts back an older file, which is a copy. `SequenceInv` is for runs one after
another: all earlier costs are in the file, and all but one of them, with that
one's estimate, are below the budget: the gate that let it pass saw the others. The total is a recursive sum over a set; that it does not
depend on the order, grows by what is added and does not see what is 0 (`TotalAny`,
`TotalAdd`, `TotalZero`) is proved by the smallest set for which it would fail.

**The invariant of the runtimes** (`RuntimesInv`). `WasteIsCaused` counts: every
leftover is paid for by one failed call or one overlap. Counting needs to know of
each runtime and artifact on the way who still answers for it: `Room` is what the
failures and overlaps so far pay for, plus the one runtime of the run. Until the
close nothing is forgotten and every create has been paid for (`OpenInv`);
afterwards what is left is paid for, but for what `stop()` is about to take down
(`Accounted`); between the two both hold (`EndInv`). `PhaseInv` has that the
suite's own provision is alone, and when a lazy endpoint is flagged.

**The invariant of the suites** (`SuiteInv`). Every suite runs in the same
`execute()`, so each conjunct follows one thing through all of them. `StageInv`:
which stage goes with an environment, a pending error and an outcome. `WorkInv`:
what power run, streams, refresh and ACID probes have done by each phase;
`WholeInv` then says that a run which came through has its whole plan, which is
what a bundle needs. `LateInv`: where the run's thread can be once a unit began
after a cancel (a cancel is seen at the polls only, so up to two do begin).
`DirsInv`, `ConnsInv` and `DropInv`: which directories and connections exist at each
stage, and on which error path a connection was lost; they give what is left on the
host. `RefreshInv`: how far the two
refreshed tables are apart; only inside one statement, so an ACID probe never
reads them half done. `RelayInv` and `StatsInv`: the disruption proxy, its timer
and its counters, and that the evidence is taken after the last change, or while
the timer that `join` gave up on holds no lock.
`RequestInv` and `SpanInv`: no request id is sent twice, and the leaves of the
span tree are the requests. `LoopInv` bounds the loops.

The numbers need two more. `ScoreInv`: what is published is what the evaluator
says of the artifacts (`Graded`), of a run that is over and whole; then there is
one lemma per family of suites that computes its numbers. The judge has
`JudgeInv`: what each scorer has asked, cached and scored (`ScorerInv`), who ran
beside whom and who after whom (`MetInv`), that everything in any copy of the
cache was paid for (`SourceInv`), that a scorer nobody met loses nothing
(`AloneInv`), and that a later one finds what an earlier one scored (`AfterInv`).
The proof showed that a part of `ScoresAreHonest` was ill stated: the share of
a group of items was compared with the share of all of them, which says nothing
of a run with a single unit. It is now stated of every group (`Share`).

**The invariant of the fault probes** (`FaultInv`). `Attempts` holds of every
probe, disturbed or not: how many attempts its agent has made, how many the proxy
counted, and which of them a fault can have reached. `Undisturbed` holds of a
probe while nobody has interfered with it (`alone`): its configuration is still
in the slot until it has been used, and its attempts, status and answer at every
place are those of its own fault (`Needed`, `Final`, `Reply`). A verdict that
accuses the platform follows from the first, the exact verdict of a lone probe
from the second. `Own` says that the slot only ever holds what its owner put there.
The blocking verdict is arithmetic on the medians: with a queue each quick request
waits for those before it, so the baseline is half the queue, and the slow request
doubles it only if it outlasts that (`Telling`); without one no delay reaches the
quick requests.

**The invariant of the measuring probes** (`LoadInv`). One clause for each
measurement relates what was seen to the platform: without a blip it is the truth,
rung by rung, and with blips it still has what a blip cannot feign (a 429 is only
seen over the limit, a sentinel only on a leaky backend; one blip makes one outlier
among three repetitions). The verdicts are then lemmas about a finite sequence:
the least rung seen as rejected is the least rung over the limit, the median of
three with one outlier is the truth. The probe for the time to the first token
has no fixed length; its clause says that, undisturbed, it has seen a prefix of a
known sequence (`Script`), and otherwise counts samples against the bars that
close them. `CrewInv` is a conservation law: calls begun are the calls counted
and the calls in flight. `RanLevels` and `Median` are stated by rank rather than
with `SelectSeq` and `SortSeq`, of which the prover knows nothing.

The pages of the console (`ViewsTrue`) are made of places in a listing, which makes
a group a set of places and its newest record the extreme of a finite order: the
first of the newest on the board, the last after the suite's second, ascending sort.
Of records of one moment the two pages may therefore name different ones, and
`PagesAgree` claims the moment only. That the sums agree is a counting lemma
(`ClassesCount`): counting class by class counts each record once. It is stated for
two classes, since a page tells two platforms and two suites apart; the number of
records is arbitrary.

Only model-checked:

- Liveness (`RunEnds`, `AttemptsEnd`, `NothingOutlivesTheWriter`,
  `WaitedForIsCollected`, `CampaignEnds`, `PlanProgress` but for
  `ResumedSlotsRest`, `EverythingEnds` but for `CarrierIsReaped`, `SweptInTheEnd`,
  `SuiteEnds`): it needs fairness and ENABLED, which are outside the prover.
- `CapHolds`: it holds while children publish before the next request is judged
  (`Prompt`), which a threaded server does not guarantee, so that it says more of a
  schedule than of the code for every instance.
- `TraceIsFaithful`. The layout of a trace (`RunTrace`: paths through spans, depth,
  order on the time line) is what recursive functions and folds compute of data.
  The prover has no induction over data, and the detour by a least counterexample,
  taken above for `Past` and for sums, was not taken there.

No module declares a recursive operator; recursion is by recursive functions.

## 6. Not modelled

- *Statistics* (`core/statistics.py`: bootstrap intervals, quantiles, report
  tables): numerical code without protocol. Grouping and composition of the
  numbers are modelled.
- *Records, schema, fingerprints, canonical JSON, redaction rules*: pure
  functions. Their verdicts enter the models as outcomes: a part is leaky or not,
  a run has this fingerprint or that.
- *Registry, plugins, preflight*: discovery before anything runs; gate outcomes.
- *Workloads, assets, sandbox*: manifest parsing, downloads with digest checks,
  subprocess isolation.
- *Credentials, endpoints, clients; pricing enrichment*: lookups and thin SDK
  clients. The enricher may find any price (`Realized` in `CostBudget`). One
  assumption is made about code left outside: `os.replace` within a directory is
  atomic.
- *Other domains*: thin adapters that provision nothing.
- Within modelled components: a second exception while the first one waits for a
  pool, a write of a suite's artifact that fails, the `job_progress` mirror of a manifest, torn
  ledger lines and two runs appending to one ledger, `stage_time`, the byte cap
  and the log handler of the progress writer, the trusted-snapshot comparison of
  `finalize`, paging of the reapers, the canned answers of the local simulator,
  `measure_ttft` of the two SDK transports, the exporter of traced agents, agent
  packaging, the HTTP probe server (used in process only), `blob_sync`, the
  swe-bench harness and dataset loading (their results are outcomes), SQL texts,
  HTTP parsing, the web UI and Terraform.
