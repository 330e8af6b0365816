# Verification of ShadowScan

ShadowScan looks for AI agents and integrations that an organisation did not register. One scan
runs many *connectors* (code, cloud, identity, SaaS, gateways, ...) as concurrent jobs under
deadlines, some of them third-party plugins in processes of their own, some of them cloning git
repositories; it merges what they find, scores it and writes a report, and it caches results
between scans. This directory models the parts of it that are hard to test: the ones where
threads, processes, locks, deadlines and interrupted file operations meet.

The modules are checked with TLC on small instances. What matters most of them is proved with
TLAPS, for every value of the constants.

## 1. The system and its parts

Paths are under `src/shadowscan/`.

| part | state it keeps | operations | what is hard | what makes it correct | where |
|---|---|---|---|---|---|
| **Engine supervision** (`engine.py`: `_Supervisor`, `_ConnectorRunner`, ledgers, `Engine.run`) | a future, a deadline and a `_JobState` per job; the pool's queue; `_ExportLedger`, `_ScopeLedger`; abandoned futures | start, publish an export, return, report to a ledger; poll, settle, expire, give up the queue, stop, report, run again | a worker that was given up goes on running and reporting; locks that may not be waited for; the queue behind hanging workers | only timely results count and those count in full; the manifest and the scope vouch for nothing else; every scan ends | `ScanContract`, `IsolatedJobs`, `Supervision` |
| **Plugin process backend** (`plugin_process.py`) | a process handle and its lock, channel and child per job; `PYTHONSAFEPATH` in the one environment | start, receive, join, decode, stop, kill, deliver | a kill before, during or after the start or the close; a child deaf to SIGTERM; the scanner's own death | no partial result, no lost kill, no orphan | `IsolatedJobs`, `PluginWorker` |
| **Incremental cache: reuse** (`incremental.py` `snapshot`/`load`/`save`, `engine.py` `_collect`) | snapshots of the input; an entry per slot | hash, load, reuse, collect, verify, save | the input changes between any two reads | a result is that of one tree | `CacheReuse` |
| **Incremental cache: directory** (`incremental.py`) | lock files and entries on disk, shared by processes | load, save, maintain, evict, remove orphan locks | pathnames opened here and unlinked there; reused inode numbers; locks that must not be waited for | one writer per slot, nothing removed under anyone, the limit kept, no deadlock | `LockedSlots`, `CacheDirectory` |
| **Git clones and the end of the process** (`utils/git.py`, `utils/deadline.py`, `connectors/code/remote.py`, `cli.py`) | registries of clones and checkouts; a flag and its lock; the handlers on the main thread; the watchdog | clone under limits, stop, register, forget; terminate from a signal handler or watchdog; set up the guard | the exit skips every `finally`; a signal handler may interrupt whoever holds the lock it needs | no registered git survives; nothing is deleted under git; nobody hangs, but for that one lock | `GitClones` |
| **Connector framework** (`connectors/base.py`) | the context of a job: deadline, `cancelled`, `publication_lock`, statistics | `check_deadline`, `publish_replace`, `run` | shared with the engine | as above | steps of `Supervision`, `CacheReuse` |
| **HTTP client** (`utils/http.py`) | resolver slots, connection pool, acquisition guard and read watchdog of a request, the `seen` links or tokens of a listing | resolve, connect, redirect, retry, read, paginate | hung lookups, a socket returned to the pool under its watchdog, an end of body that a timer has made, cyclic continuations | slots return exactly once; a timer reaches only its own request; a cut body or listing never passes for whole; every listing ends | `HttpRequest`, `HttpListing` |
| **Merge, fleet, autonomy** (`merge.py`, `fleet.py`, `autonomy.py`) | what the reports read so far say of a finding | read a report, merge, decide registration, derive the interval; merge fleet reports again | the order and the grouping of the reports | the merged finding depends on the set of scans only; no scan's autonomy is hidden | `FleetMerge` |
| **Report comparison** (`comparison.py`, `connectors/base.py` scope attestation, `engine.py`) | the collection scope of a scan; a baseline and a current report | attest, compare, classify drift, renew the baseline | the estate, the settings and the credentials change between and during scans; baselines are renewed again and again | nothing is resolved or new for want of looking; passes do not add up to a change that would not pass | `ReportComparison` |
| Triage (`triage.py`) | a time and request budget | ask a model about findings, one after the other | answers late, refused, malformed | no finding is dropped, the budget is kept | not yet modelled |
| Registries and approvals (`registry.py`, `registries.py`, `mcp_registry.py`) | inventory entries | match | ambiguity, expiry | only an unambiguous live entry approves | not yet modelled |
| Correlation (`correlation.py`) | links between findings | link, prune | links to findings that were filtered out | every link resolves | not yet modelled |
| Risk, governance, controls, signatures, mappings, configuration, models, redaction, reporters, dashboard, endpoint agent, the connectors themselves | none over time | scoring, parsing, formatting, translation of provider data | volume, not behaviour | | not modelled |

How they interact:

    cli -- Engine.run -- _prepare_run, _Supervisor.run -- thread pool
            |                  |  cancelled, publication_lock, kill_process
            |                  v
            |          _ConnectorRunner._run_one (a worker thread per job)
            |             |-- connector.run --- publish_replace (export file, cache entry)
            |             |        '-- run_bounded_clone --- git
            |             |-- IncrementalCache.snapshot / load / save
            |             |-- HttpClient.paginate_* / request --- resolver threads, timers, pool
            |             '-- run_plugin_process --- child process (own watchdog)
            |          _ExportLedger, _ScopeLedger   <-- workers report, the engine reads
            '-- merge, correlate, score, write the manifest and the report
    signal handler, job-deadline watchdog -- terminate_active_clones, os._exit
    diff command -- compare_reports (a baseline, the current report) -- exit status, next baseline
    fleet command -- merge_reports (reports of scans, or of earlier merges) -- a report

The supervisor and the workers share one `_JobState` per job: the supervisor sets `cancelled`,
the worker reads it before everything it publishes. The supervisor may not wait for a worker, so
neither the publication lock nor the handle lock is one it can block on for long. Scans share the
cache directory with scans of other processes, and with nothing but `flock` between them.

`PROJECT.json` lists the hazards of this code by line, with the properties that watch each.

## 2. Modules

One module per component. Each has its state, one action per step of the code and its properties.
`MC...` modules hold the instances for TLC; `...Proofs` modules the theorems, with the inductive
invariant `IInv` and the measures that only they use. A definition marked
*Faulty variant* is not part of a specification: it is what a plausible mistake would make of the
action after it, and the property that notices is named in `PROJECT.json` under `mutants`.

Five modules are contracts: `ScanContract`, `IsolatedJobs`, `LockedSlots`, `AtomicScans` and
`PagedListing` say what a part promises, with nothing of how it does so. The modules that implement
them end with a section *Refinement* that has the mapping.

    ScanContract  <--  Supervision  -->  IsolatedJobs  <--  PluginWorker
                                         LockedSlots   <--  CacheDirectory
                                         AtomicScans   <--  CacheReuse
                                         PagedListing  <--  HttpListing

### ScanContract
What one scan promises, without threads, queues, locks or clocks: each job is decided once, only a
result delivered in time may be accepted, a job discarded before it began never begins, the report
is made once and of exactly the accepted jobs, and the next scan begins when nothing is working.

### IsolatedJobs
A plugin job that runs in a process of its own, as the engine relies on it: it begins, receives a
result or fails, sets out to deliver what it received (`Accept`) only while it is neither late nor
cancelled, and records a failure before the failure cancels it, because the ledger takes nothing from
a cancelled job. Between the last look (`plugin_process.py:455`), the entries (456-457, each with the
ledger's own look at `cancelled`, `engine.py:285-288`) and the return (458) the job may be cancelled:
then it returns its result without some or all of its entries, and that it was given up is what its
supervisor goes by. Two modules implement the contract. `Supervision` does with its steps
`collecting`, `received`, `delivering`, `failed` and `returning` of an isolated job, over all scans of an engine; `PluginWorker` does with threads,
processes and signals, for one scan. What the one takes for granted is thus what the other provides.

### LockedSlots
Cache slots with a lock each, which many may share or one may own, and an entry that only the owner
changes. There are no lock files here. `CacheDirectory` implements it: who holds which lock follows
from an operation's step alone, and needs not be known from the files on disk. Since nothing
changes while a load shares its slot, and nothing but the save itself while a save owns it, the
single steps `LoadHit` and `Save` of `CacheReuse` stand for whole operations of `CacheDirectory`.

### AtomicScans
Scans without a cache that look at their whole input at one instant. `CacheReuse` implements it: a
scan looks in the step that completes its first snapshot, and what it returns as complete, collected
or reused, is the analysis of that tree under its own setting. A scan that could take no snapshot
never looks; of its result the contract says only under which setting it was made.

### PagedListing
A walk along a provider's continuations that repeats no page, keeps to the limit, and is complete at
its end only. There are no requests. `HttpListing` implements it: all that hangs, is cut, redirected,
retried or given up beneath a page is a stutter here or the end of an incomplete listing.

### Supervision
`step[j]` is the program counter of job `j`'s worker together with its future's state. A worker of
a thread job goes through `collecting`, `locked` and `replacing` (`publish_replace`), `collected`,
`caching`, `recording`, `exporting`, `returning`; one of an isolated job through `collecting`,
`received`, then `delivering` (`IsolatedAccept`, `IsolatedDeliver`) or `failed`, `returning`. `cancelled`, `timedOut`, `completed`, `abandoned`, `exports`
and `scopes` are the code's variables. `sup` is where `_Supervisor.run` is: `Poll` is its `wait`,
`Settle` the comparison of `completed_at` with the deadline, `ExpireCancel` and `ExpireRecord` the
two halves of `_expire`, `Decide` and `AbandonQueued` are `_capacity_exhausted` and
`_abandon_queue`, one future at a time, `Stop` the `finally` clause, `Report` the rest of
`Engine.run`, `NextRun` a second call with the guard in `_prepare_run`. The module is shown to
implement `ScanContract` (`ImplementsContract`) and, for its isolated jobs, `IsolatedJobs`
(`IsolatedAsAgreed`).

Each job's clock is reduced to the three values the code can tell apart, and clocks advance
independently, which allows more than one clock would. `Interrupt` is a `KeyboardInterrupt`. That
an embedder calls `run` again after catching one is not modelled. The worker's cache load and save
appear as one step that may publish a cache entry; `CacheReuse` has the details. A scan that dumps
records does not use the cache, as in the code.

### PluginWorker
Per job: the scanner thread in `run_plugin_process` (`runner`), the state of its process object
(`handle`) and of `_WorkerHandle`'s lock (`holder`), the child (`child`, `payload`, `sent`,
`exit`), the supervisor's cancellation and kill (`CancelJob`, `EnterKill`, `Kill`). Shared: the
spawn lock and the environment variable it protects, and the scanner, which may die between any two
steps (`ScannerDies`) without cleanup. The child's watchdog acts on the deadline or on the
scanner's end. `multiprocessing` is external: a spawned child inherits the environment of the
moment, a signal to an exited child does nothing, and `close()` drops the handle before it marks
the object closed. The module implements `IsolatedJobs` (`ImplementsContract`): a job's stage is
`received` from the moment the `try` block is left with a result, and `delivering` from the last look at
deadline and cancellation (`AcceptResult`) to the return (`RecordEntry` for the entries but the last,
`Deliver` for that one and the return).

### CacheReuse
Scans hash, load, re-hash, collect, verify and save in passes that read one file per step, in any
order, while `Edit` changes files. A version stands for content, change time and inode, all of
which the fingerprint covers, so every edit is a new version; a change and its reversal within one
tick of the file system's clock is therefore not seen here. A setting stands for the rest of the
fingerprint. What locks and eviction can do to an entry is `LoseEntry` at any time.
The module implements `AtomicScans` (`ImplementsAtomicScans`); `asOf` and `hashed` are the history
that the mapping needs: which tree the first snapshot was of, and whether there was one.

### CacheDirectory
`lockFile` and `entry` are the directory. An operation opens the lock file, takes it without waiting
and looks whether the pathname still leads to it (`Acquire`); then it reads, or publishes and
maintains. Maintenance lists the directory one child at a time, removes lock files without entries
(`LockOrphan`, `LockUnused`, `UnlinkLock`), and evicts entries (`LockEntry`, `EntryUnchanged`,
`UnlinkEntry`) whose inode number is still the one it saw; inode numbers come back. Every step may
fail with an error (`Abandon`). Byte sizes, entry ages and pending temporary files are left out: any
entry may count as old.

### GitClones
A worker thread makes a checkout, records it, looks at the flag, starts git, registers it, watches
it under its limits, stops it if need be, drops it, and scans or falls back to the API. A closer (a
signal handler, the deadline watchdog, the command line leaving blocked workers) raises the flag,
lists clones and checkouts, kills, waits within its budget, and leaves the deletion to a thread it
joins within its budget. It then ends the process, or, for SIGINT, raises `KeyboardInterrupt`
(`Survive`) through the main thread and every handler it interrupted.

The flag is a `threading.Event`: `set()` and `clear()` take a lock that is not reentrant, and each is
three steps (`TakeFlagLock`, `RaiseFlag`, `FreeFlagLock`; `BeginClear`, `EndClear`). `main` is the main
thread in `terminate_clones_on_signal`, which installs the handlers and then clears the flag; `frame`
is what runs on it, its own code or the handler that came last, and only that one makes steps
(`Runs`). A handler that meets the lock in the hands of what it interrupted is `Trapped`. `erased`
records that a closer had raised the flag when the guard cleared it. Python's `set` operations are
atomic, and process identifiers are not reused. The command line leaving blocked workers is on the
main thread in the code and is here a closer beside it, after the scan, which allows the handlers more.
Locks inside `Thread.start`, which belong to the new thread alone or are reentrant, are left out. After
a `KeyboardInterrupt` while the guard is set up no scan begins (`unwound`).

### HttpRequest
`step` is where the thread inside `HttpClient.request` is. `asking`, `claimed` and `waiting` are
`_resolve_bounded`, for the check of the URL (`goal = "check"`) or for a connection; `attempting` to
`finishing` are one attempt under its `_SocketDeadline` (`guard`), `responded` what the status asks
for, `pausing` and `resuming` the wait before a retry, `reading` to `joining`
`read_response_bytes` under its `_read_watchdog`. Besides that thread act the resolver threads
(`Answer`, `EndThread`), both timers (a timer that has fired still has to get its lock, which is a
step of its own, and the watchdog's shutdown another), the end of the scan, and others that take
resolver slots and pooled connections. A budget may be spent at any step: no clock is compared,
except that nothing starts in time once the connector's deadline is over (`late`). Of urllib3 it is
assumed, as the comment in `_read_watchdog` says, that the connection is given back within the read
that ends the body. `attemptsAfter` and `resultsAfter` count, for `EndRespected`.

### HttpListing
One listing by `paginate_link` or `paginate_odata` (`kind = "link"`) or by `paginate_token`, each page
by one request of `HttpRequest`. The provider chooses each page's continuation freely, once.
`link` and `delivered` remember what was read and what was passed on. The module implements
`PagedListing` (`ImplementsPagedListing`).

### FleetMerge
One finding that up to three scans report. `ReadScan` and `ReadFleet` are an iteration of
`merge_reports`' loop together with the fold of that report in `merge`, which nothing in between can
tell apart; `Finish` is the loop over the merged findings, `RefuseCards` its error, and `Again` keeps
the result as a fleet report and merges once more. Classification of an interval (`Classify`) is
written out in full for the evidence it combines; capabilities and tags are reduced to the five
facts that it asks for. Kinds stand in the order that `_merge_classification` gives them.

### ReportComparison
Scans (`Begin` to `Finish`) of an estate (`world`) that its owners change at any time, as does the
operator with `settings` (`ChangeThing`, `ChangeSettings`). A connector reads its parts one by one:
`Look` reads one as it is at that moment, `Fail` only some of it, `TimeOut` gives up what the
connector has, `Omit` is `_retain_sanitizable`. A setting says which parts each connector covers, of
what kind it is for `_collection_scope` (static input, live, gateway, `diff_base`, third party), the
rules that decide what is reported, and the key. For a live connector the parts are what the
credentials lead to, so a change of settings is also a change at the provider. `Scope` stands for
the fingerprint, which is equal for equal material. `Comparable`, `Resolved` and `New` are
`_comparison_reasons` and the two differences in `compare_reports`; `Adverse...` are `_adverse` and
`_widens` for each drift class; `Passes` is `diff` leaving with 0. `Review` and `Accept` are how
`docs/operations/drift.md` has baselines made and renewed. `Cut` filters a report on the way. The
rank tables of autonomy are numbers. Names are equal for one thing unless they are keyed (`Keyed`): a gateway's callers, and the redacted
resources of a static export (`saas.generic`), whose scope is attested although the run has a key of
its own, so that only `Local` (`comparison.py:767-775`) keeps two such reports apart.
`steady` and `origin` are auxiliary: what each thing has been like all through the scan, and the
report that was reviewed first.

## 3. Runs

| run | instance | shows |
|---|---|---|
| `supervision_exports` | 2 jobs, 2 slots, one plugin, exports, a live scope | `AcceptedJobIsWhole`, `ManifestSound`, `ScopeSound`, `NoLateReplacement`: whatever the order of results, timeouts, reports and replacements, the accepted jobs, the manifest and the scope agree |
| `supervision_queue` | 3 jobs, 2 slots | `QueueAbandonedForCause`: the queue is given up only after as many timeouts as slots |
| `supervision_scans` | 2 jobs, 1 slot, 2 scans, fairness | `ImplementsContract` (by which no worker of one scan is left when the next begins), `IsolatedAsAgreed`, and `ScanEnds` although a connector may hang in any step |
| `plugin_worker` | 1 job deaf to SIGTERM, fairness | `VerdictSound`, `NoLostKill`, `NoKillIntoClosing`, `NoChildLeftBehind`, `ImplementsContract`, `RunnerReturns`, `OrphansEnd` |
| `plugin_worker_spawn` | 3 jobs, up to their spawns | `SpawnEnvironmentSafe` |
| `cache_reuse` | 2 scans, 2 files, 2 settings, 1 edit per file | `ImplementsAtomicScans`: no result shows that reading takes time, or that there is a cache; `EntryMatchesPrint` |
| `cache_directory` | 2 operations at a time, 2 slots, limit 1 | `LockCoversEntry`, `SlotUndisturbed`, `QuotaKept`, `NobodyWaits`, `StepsRunOut`, `ImplementsLockedSlots` |
| `git_clones` | 1 thread, 2 signals, the watchdog, fairness | `SurvivorsWereMissed`, `NotRetried`, `NoDeletionUnderGit`, `CloneCallsEnd`, `ClosersEnd` |
| `http_listing` | 2 resolver threads, 1 slot, 1 socket, 1 retry, 1 redirect, 3 pages of which 2 may be read, fairness | `SlotsReturnOnce`, `OwnShutdown`, `WholeBody`, `EndRespected`, `ImplementsPagedListing`, `ListingEnds`, `StepsRunOut` |
| `fleet_merge` | 3 scans, 16 observations, 2 merges after the first | `MergeSound`, `NothingHidden` |
| `fleet_merge_order` | the same, 1 merge after the first | violation of `OrderIndependent` (section 6) |
| `report_comparison` | 3 scans, 2 changes, 2 things, 5 settings | `DifferencesAreReal`, `NothingWidened` |

No run checks `TypeOK`: that it holds is proved for every module (the theorems `TypeCorrect`), also
where it says that registries, sockets and timers are given back (`GitClones`, the HTTP modules).
`NoOverlap`, `ResultIsOneTree` and `ListingSound` are likewise proved only (`ScansDoNotOverlap`,
`ResultsAreOfOneTree`, `ListingsAreSound`): the runs would repeat what the refinements of
`ScanContract`, `AtomicScans` and `PagedListing` show. Where `CHECK_DEADLOCK` is off, the modelled system
really stops: the scan is over, the jobs have returned, the process is gone, the listing has ended. A cache directory never
stops, so there deadlock is checked.

**Bounds, and why they suffice.**

- *Supervision.* The shared state that couples jobs is the queue, the count of slots and the
  ledgers, which keep one entry per job. Two jobs show every pair of a timed-out and a timely
  worker; three jobs on two slots are the smallest case in which a count of timeouts can be wrong
  while a job waits. `MaxRuns` bounds `Engine.run`; two runs are one reuse of the engine, and `NextRun` resets
  everything, so a third adds nothing.
- *PluginWorker.* Jobs share nothing but the spawn environment. One job therefore shows all that
  concerns its thread, child and supervisor, and three jobs show the spawns (owner, next owner, one
  that waits). In the second run the constraint `SpawnPhase` expands no state in which a job is past
  its spawn; it is used with an invariant only.
- *CacheReuse.* `MaxEdits` bounds edits per file. With one edit of each of two files a pass can read
  old-new, new-old, or one version twice; a second edit would only widen the gaps. The theorems hold
  for any bound.
- *CacheDirectory.* Two slots and a limit of one make every save that finds a neighbour evict; three
  inode numbers let one be free, so that it can be given again. Processes, slots and inode numbers
  are symmetric; the run checks no liveness, so this is sound.
- *GitClones.* Threads share only the flag and the registries and never read one another's entries,
  so one thread meets every order of the closers' steps. SIGINT, SIGTERM and the watchdog are each
  there. The action constraint `SecondSignal` lets the second signal come only while the first one's
  handler holds the flag's lock, the one place where it matters who was interrupted; without it the
  graph has 2.2 million states, in which the safety properties and the invariant of the proofs were
  found to hold too. The theorems are for any number.
- *HttpListing.* A request's timers know only the socket it holds, and another user can have that
  socket before and after, so one socket shows every pair of a timer and a wrong owner. With one
  slot and two threads the slot is held by another, or by a lookup that was given up. A limit of two
  of three pages lets a listing reach its limit, end before it, and come back to a page. The
  counters of attempts and redirects are the code's own and bounded by its limits.
- *FleetMerge.* Three scans are two that a fleet report stands for and one that it meets, or meets
  again; `MaxMerges = 2` gives a fleet report of a fleet report. The observations are ones that the
  connectors and `_reconcile_and_score` produce: registered to one of two agents, unregistered or
  unassessed, with and without a card, a declared level, a trigger, a gate, and of kinds with and
  without autonomy. The scans are symmetric.
- *ReportComparison.* Three scans give a first baseline, a renewed one and a report to compare with
  it; a report may also be compared with the first. Two changes let the estate change between two
  parts of one scan and again later, or a thing change and the settings too. One thing is
  in a region of a live connector that covers two or one, the other is a gateway caller; the settings
  differ in key, in what the credentials reach and in threshold. In the fifth the first thing is in a
  static export, under a name of the run; with `Local` empty the run fails there.

**Fairness, and what justifies it.**

- *Supervision* (`ScanEnds`): the supervisor's thread runs, time passes, and a free pool thread takes
  queued work. Nothing of the workers: a connector may hang anywhere, even inside a replacement.
- *PluginWorker* (`RunnerReturns`): while the scanner is up its threads run and time passes.
  Nothing of the plugin, its watchdog or signals. Weak fairness suffices for the spawn lock because
  the run has one job. `OrphansEnd` assumes that the child's own two threads run (`ChildRuns`), and
  not that time passes: the orphan ends because its scanner is gone, not because of its deadline.
- *GitClones*: a thread inside `run_bounded_clone` and a closer that has begun go on, since each of
  their waits has a limit, but the one for the flag's lock; and the guard gets out of `clear()` when no
  handler is on top of it. The lock itself is fair (strong) to closers that are threads, which signals
  that the process survives may delay again and again; nothing is assumed for a handler that waits for it.
  Nothing of git, of scans, or that a signal arrives. `ClosersEnd` excepts the states in which a
  handler waits for its own thread (`Trapped`): without that exception TLC finds the deadlock in
  seconds (section 6).
- *HttpListing* (`ListingEnds`): the thread that reads the listing runs, and so do its timers. Nothing
  of the resolver or the server: a lookup, a connection or a body may hang for ever. The listing is
  consumed; a consumer that drops it ends it as well.
- *CacheDirectory* has no liveness property and needs no fairness. Each begun operation has an enabled
  step of its own, whoever holds which lock (`NobodyWaits`), and each such step brings it closer to
  its end, which nobody else can put off (`StepsRunOut`). Together they say that an operation is
  over after a bounded number of its own steps. Both are theorems, for any directory, the first with
  the guards of the steps in place of `ENABLED` (`OperationsCanProceed`).

## 4. Theorems

All are proved from the named assumptions on constants in the modules (positive numbers of jobs and
slots, `Isolated` and `Attesting` disjoint, finite sets of slots, files, threads and resolver
threads, an inode number that is free when a file is made, model values distinct) and for any number of jobs, slots, threads, scans, files, processes, closers, sockets, pages, reports.

- **`SupervisionProofs`**: `TypeCorrect`, `AcceptedJobsAreWhole`, `ManifestsAreSound`,
  `ScopesAreSound`, `NoReplacementStartsLate`, `QueueIsAbandonedForCause`, `ScansDoNotOverlap`, and
  `EngineKeepsContract`, the refinement of `ScanContract`. None of the properties is inductive: that
  an accepted job's entry is in the ledger says nothing of a job still under way. `IInv` adds what
  the supervisor's lists may hold in each of its steps (`LoopInv`), how future, fate and
  cancellation of a job go together (`FateInv`: in particular a timed-out job is cancelled before
  it is decided, and a withdrawn one was never started), what may still replace a file
  (`ReplacementInv`) and what the ledgers hold by how far a worker has come (`LedgerInv`). A job that
  is cancelled while it delivers has returned a whole result and lacks entries; `CancelInv` says that
  this happens only to one that was given up (`GivenUp`), which is not accepted any more. The
  queue's property needs a count besides (`QueueInv`, a cardinality that timeouts only increase).
  `EngineKnowsIsolatedJobs` is the refinement of `IsolatedJobs`, for which `LedgerInv` is needed
  again. `SupervisorIsNeverStuck` and `RoundsAreBounded` are about the loop of `_Supervisor.run`:
  while it waits there is an end in sight, and otherwise it waits again, or is done, after at most
  4 + 3n steps of its own for n jobs. `RoundInv` says that no step begins without work for it; and
  if all that is pending is queued while no slot is free, the workers that have the slots were given
  up (`FateInv`), which is when `_capacity_exhausted` holds.
- **`PluginWorkerProofs`**: `TypeCorrect`, `VerdictsAreSound`, `KillsAreNotLost`,
  `KillsMissClosingHandles`, `ChildrenAreStopped`, `SpawnsAreSafe`. `IInv` ties the handle and its
  lock to the thread's step (`HandleInv`), a cancellation to a pending or finished kill
  (`KillInv`), the spawn lock to the environment (`SpawnInv`), and the verdict to what the child
  sent (`VerdictInv`). `VerdictSound` lets a result be returned without its entries only where the
  supervisor has given the job up. `WorkersKeepContract` is the refinement of `IsolatedJobs`. `LocksComeFree`
  (`WaitsEnd`) says who waits for whom: always for a thread that does not wait itself, so there is
  no cycle, with the spawn lock and a handle lock for each job among any number of jobs.
  `RunnersAreBounded`: a thread takes at most 16 steps and its child 4, and nothing that other jobs,
  signals, kills or deadlines do gives any back; the thread starts one process, once.
- **`CacheReuseProofs`**: `TypeCorrect`, `ResultsAreOfOneTree`, `EntriesMatchPrints`, and
  `ScansAreAtomic`, the refinement of `AtomicScans`. The argument
  of `PassInv`: versions only grow, so what is read of a file between two snapshots lies between
  its versions there; if the snapshots agree, so does everything read in between. The refinement
  asks that the instant be the same from the scan's first snapshot to its result, which is the part
  of `PassInv` that `asOf` is for. `ScansAreBounded`: at most 8 + 4n steps for n files, because each
  of the four passes over the tree happens once, however often the tree is edited.
- **`CacheDirectoryProofs`**: `TypeCorrect`, `LocksCoverEntries`, `SlotsAreUndisturbed`, `QuotaIsKept`,
  `LockFilesAreLocks`, `OperationsAreBounded`, `OperationsCanProceed`. `IInv` says which step belongs to which operation
  (`ShapeInv`), that a lock that counts is on the file the pathname leads to (`FreshInv`), that owners
  exclude everybody and cleaners exclude readers (`LockInv`), and that a lock file about to be unlinked
  has no entry (`DoomedUnused`). For the quota, savers under way have published in some order: each
  counts the entries of those before it, so those among them that keep their entry are within the limit
  together (`Ordered`, `QuotaInv`), and what no saver is deciding about has been counted by the last one
  (`SettledInv`). `QuotaInv` says that such an order exists, so no auxiliary variable is needed.
  `LockFilesAreLocks` is the refinement of `LockedSlots`; it rests on `LockInv` and on the fact that a
  lock file is unlinked only under its own lock. `OperationsAreBounded` gives each operation a measure
  of at most 4 + 14n steps for n slots: what maintenance has listed is worked off once.
  `OperationsCanProceed`: each step either needs no lock that others hold or has an alternative that
  gives the lock up (`LOCK_NB`), and the shape of an operation (`ShapeInv`) rules out a state without
  either.
- **`GitClonesProofs`**: `TypeCorrect`, `SurvivorsAreMissed`, `KilledIsNotRetried`,
  `NothingDeletedUnderGit`. Once a closer has listed the clones, each git that runs or is about to
  start was missed, or is among those still to be signalled (`ListCovers`), because the flag was up
  before the list was read (`FlagRaised`) and everything registered is on it (`RunsWatched`). All of
  this has one exception, a flag that the guard cleared under a closer (`erased`, section 6).
  `CallsAndClosersAreBounded` counts steps: five for a bounded clone, nine and one for each listed
  clone for a closer, and nobody lengthens a closer's list. It says nothing of how long the step waits
  that takes the flag's lock: that is `FlagLockWaits`. Whoever holds the lock is about to give it up
  and can, or is the very thread that a handler waiting for it has interrupted (`HolderGoesOn`), and
  this trap never opens (`TrapIsForGood`). `LockHeld` and `NothingBefore` are what the two need.
- **`HttpListingProofs`**: `TypeCorrect`, `SlotsAreReturnedOnce`, `ShutdownsAreOwn`, `BodiesAreWhole`,
  `EndIsRespected`, `ListingsAreSound`, `ListingsKeepContract` (the refinement of `PagedListing`),
  `ListingsAreBounded`, `HangsAreAlwaysWatched`. `IInv` says who
  waits for which lookup (`StepInv`), in which part of a request each timer can exist (`TimerInv`: it is
  joined before the part ends), that a request owns the one socket its timers aim at until `released` is
  set (`SocketInv`), and that a short body has been preceded by `readExpired` (`BodyInv`). Slots need a
  cardinality (`SlotsReturnOnce` is its own invariant); `EndInv` follows the request after the scan's
  end, and `ListingInv` says that the delivered pages lead to the one that is next, which is not among
  them. The refinement also needs the count of pages to be that of the pages passed on (`CountInv`):
  the code counts requests, the contract pages. `ListingsAreBounded`: attempts, redirects and pages are counted up against their limits, the
  steps between two attempts are at most 12, and no step of a timer, the resolver or another user gives
  any back (`RequestStepsLeft`, `StepsLeft`). `HangsAreAlwaysWatched`: the two calls that the server can
  draw out are never without a timer that will cut the socket or has done so (`WatchInv`, which also
  says that a lookup overtaken by the guard is not followed by an exchange).
- **`FleetMergeProofs`**: `TypeCorrect`, `MergesAreSound`, `NothingIsHidden`. The invariant says that
  what has been collected while reading is what the set of covered scans gives; a fleet report
  satisfies what a merge promises, so it may be read in place of its scans. Two lemmas carry it:
  `Decide` of a union is decided by the two parts' decisions (`DecideUnion`), and `Widest` is the
  join of a semilattice that `Classify` stays in (`WidestAdmits`, `ClassifiedInterval`).
- **`ReportComparisonProofs`**: `TypeCorrect`, `DifferencesStand`, `NothingIsWidened`. While a scan that
  may be attested runs, each thing that has been there throughout, and lies in a part that has been
  read, has been found as it is (`ScanInv`); so a complete report with a scope has what was there
  throughout (`ReportsInv`, `Faithful`). Two comparable reports have one scope, hence looked at the
  same parts by the same rules, and what one lacks was not there throughout. For renewed baselines,
  a step that is not adverse leads to a state `Within` the last one, and `Within` is transitive, so
  every baseline stays within the report first reviewed (`RenewalInv`).

**The safety half of liveness.** That something ends is a liveness property, and TLC checks it under
fairness on small instances. For every value of the constants the theorems above show what it rests
on: whoever waits does so for something that will happen (`SupervisorIsNeverStuck`, `LocksComeFree`,
`OperationsCanProceed`, `HangsAreAlwaysWatched`), and the number of steps is bounded whatever the others
do (`RoundsAreBounded`, `RunnersAreBounded`, `ScansAreBounded`, `OperationsAreBounded`,
`CallsAndClosersAreBounded`, `ListingsAreBounded`). Of these formulas
`StepsRunOut` of the cache directory and of listings are properties of runs; the others (`NeverStuck`,
`RoundsRunOut`, `RunnersRunOut`, `ScansRunOut`, `WaitsEnd`, `HangsAreWatched`, `StepsRunOut` of
`GitClones`) hold on the instances of section 3 as well, and are left to their theorems.

**Model-checked only.** Liveness (`ScanEnds`, `RunnerReturns`, `OrphansEnd`, `CloneCallsEnd`,
`ClosersEnd`, `ListingEnds`) and `NobodyWaits`, which speaks of `ENABLED`: neither is in the prover's
reach. What `NobodyWaits` means is proved with the guards of the steps written out (`CanProceed`), and
on the instance of the run the two were found to be equal in every reachable state. `OrderIndependent` does not hold (section 6). Every other property of a run is a theorem. No
module uses recursion, so no proof by induction over data is missing.

## 5. Not modelled, and why

- Everything sequential that only transforms data: signatures, scoring, redaction, formatting,
  parsing, provider translation. It has no interleavings, and its correctness is that of tables and
  regular expressions.
- Of the engine, the preparation of a run and the post-processing of findings (sequential).
- Of the cache, byte quotas, ages, pending temporary files, and what exactly is hashed.
- Of git, destination pinning, metadata commands and validation of limits; of the deadline watchdog,
  its clock against the main thread's cancellation.
- Of the HTTP client, which destinations are refused, header and byte limits, JSON decoding, and the
  provider's own meaning of a page: each is a refusal that may happen. The check of a page's URL by
  the paginator and the one by `request` are one step of lookup.
- Of the fleet, the validation of a report (`_check`), statistics, times, scopes beyond "complete and
  comparable", evidence and gateway metrics. A finding whose merged kind has no autonomy (an
  oauth-grant beside a cloud resource) carries no interval, so `NothingHidden` is stated where all
  kinds have one.
- Of the comparison, the age of a baseline, fleet reports, drift totals for the dashboard, and what
  makes a file no report. Risk scores are not compared by drift class and are left out.
- Registries, triage and correlation: sequential, and not written yet (section 7).

## 6. Where the code and its documentation disagree

Comments promise more than the code keeps in six places. A run shows the first; the others
were met while modelling, and the property named with each is what does hold.

1. `merge_autonomy` (`autonomy.py:412-413`, and `docs/concepts/autonomy.md`): "the merged block does
   not depend on the order of the reports". The trigger that explains the capability `autonomous` is
   metadata, of which the first report's value is kept, even a null; the capability itself is united.
   A cloud function that got its event trigger between two reports is therefore merged as one that
   bypasses approval (floor 5) or as one that does not (floor 2), by the order of the reports
   (`fleet_merge_order`).
2. `_save_unlocked` (`incremental.py:1023-1024`): "Never let a new entry make an already constrained
   cache exceed" its quota. If maintenance raises, the new entry stays.
   What does hold is `QuotaKept`.
3. `publish_replace` (`connectors/base.py:178-180`): a replacement "finishes before that decision or
   sees cancellation". `_expire` does not wait for a busy lock, so one under way may finish
   afterwards. Its own comment says so, and the manifest discounts the file (`ManifestSound`).
4. `_capacity_exhausted` (`engine.py:966-969`): the queue is given up "only when all worker slots are
   still occupied". The slots are counted first and the futures cancelled one by one, so a slot may
   be freed in between (`QueueAbandonedForCause`).
5. `terminate_active_clones` (`utils/git.py:312-315`): "no new clone starts afterwards". A thread past
   the check of the flag may start git later; `SurvivorsWereMissed` says that this window is the
   only one, but for one more: a watchdog that fires between its arming and the guard's
   `_INTERRUPTED.clear()` (388) has its flag cleared, and clones that start after its list go unseen
   (`erased`).
6. `utils/git.py:160-163`: "no lock is needed and the signal-handler and watchdog paths can never block
   on one", and line 312: "never waits longer than *budget*". That is true of the registries, but
   `_INTERRUPTED.set()` (317) and `.clear()` (388) take the Event's lock, which is not reentrant. A
   signal whose handler starts while the main thread is inside `clear()`, after the handlers have been
   installed, or inside the `set()` of another handler, waits for the thread it runs on. The watchdog
   then waits in its own `set()`, so that its `os._exit` does not come either. The window is a few
   bytecodes. What holds is `ClosersEnd`, with the exception `Trapped`, and `FlagLockWaits`. To see
   the deadlock, check `git_clones` with the last disjunct of `ClosersEnd` taken away.

## 7. Plan

In this order; each with its theorem where one is named.

1. `ScanContract`, `Supervision`, `PluginWorker`, `CacheReuse`, `CacheDirectory`, `GitClones`,
   `HttpRequest`, `HttpListing`, `FleetMerge`, `ReportComparison`: done.
2. `InventoryMatch`: matching with expiry and ambiguity, against a reference definition.
3. `TriageBudget`: sequential requests under a budget; no finding lost, the budget kept.
4. Composition: `PluginWorker` and `Supervision` meet in `IsolatedJobs`, `CacheDirectory` implements
   `LockedSlots`: done. A `CacheReuse` whose load and save are sequences of steps of
   `LockedSlots` is not planned: an entry is read from one open file and replaced in one step, and
   `SlotsAreUndisturbed` says that nobody else changes it meanwhile, so it would show nothing new.
