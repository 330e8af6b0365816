---------------------------- MODULE Supervision -----------------------------
(***************************************************************************)
(* How the engine runs the connector jobs of a scan (shadowscan/engine.py):*)
(* the worker threads of the pool, the supervisor that drives them under   *)
(* their deadlines, the ledgers the workers report to, and the report the  *)
(* engine assembles from both.  Successive scans of one Engine are         *)
(* modelled too: an abandoned worker of one scan may still be running when *)
(* the next is asked for.                                                  *)
(*                                                                         *)
(* Time.  Every job has a deadline of its own, so a job's clock is reduced *)
(* to what the code compares: 0 before the deadline, 1 from the deadline,  *)
(* 2 from the deadline plus the two seconds of grace of an isolated job.   *)
(* Clocks advance independently of one another, which over-approximates    *)
(* one shared monotonic clock.                                             *)
(*                                                                         *)
(* A job's step is its worker's program counter together with the state of *)
(* its Future; a worker holds its job's publication lock exactly in the    *)
(* steps "locked" and "replacing".                                         *)
(***************************************************************************)
EXTENDS Integers, FiniteSets

CONSTANTS
    NJobs,          \* number of selected jobs
    Parallel,       \* options.parallel
    Isolated,       \* jobs of plugins under plugin_execution: process
    Attesting,      \* jobs whose connector attests a live collection scope
    DumpRecords,    \* options.dump_records is set
    Verdicts,       \* what the statistics of a connector that returned may say
    MaxRuns         \* bound: Engine.run is called at most this often

Jobs == 1 .. NJobs

ASSUME JobsAssumption == NJobs \in Nat \ {0}
ASSUME ParallelAssumption == Parallel \in Nat \ {0}
ASSUME KindAssumption == Isolated \subseteq Jobs /\ Attesting \subseteq Jobs \ Isolated
ASSUME DumpAssumption == DumpRecords \in BOOLEAN
ASSUME VerdictAssumption == Verdicts \subseteq {"complete", "incomplete", "skipped"}
ASSUME RunsAssumption == MaxRuns \in Nat \ {0}

Workers == IF Parallel < NJobs THEN Parallel ELSE NJobs

----------------------------------------------------------------------------
Steps == {"queued",      \* Future pending in the pool's queue
          "withdrawn",   \* Future.cancel() succeeded before a worker took it
          "collecting",  \* in the connector, or waiting for the plugin process
          "locked",      \* publication_lock taken, deadline not yet checked
          "replacing",   \* inside os.replace, still under the lock
          "collected",   \* connector.run() returned, deadline not yet checked
          "caching",     \* complete result, the cache entry may be saved
          "recording",   \* about to report the collection scope
          "exporting",   \* about to report the export entry
          "received",    \* plugin result decoded and its process stopped
          "delivering",  \* plugin result in time, its export entry not yet reported
          "failed",      \* plugin failure reported, job not yet cancelled
          "returning",   \* about to take completed_at and resolve the Future
          "done"}

Outcomes == {"none", "complete", "incomplete", "skipped"}
Results == {"none", "accepted", "timeout", "unstarted"}
SupervisorSteps == {"waiting", "settling", "expiring", "deciding", "abandoning",
                    "stopping", "reporting", "reported", "interrupted"}
NoJob == 0

ExportEntries == [job : Jobs, exported : BOOLEAN, complete : BOOLEAN]
FailureEntry(j) == [job |-> j, exported |-> FALSE, complete |-> FALSE]

Reports == [complete : BOOLEAN, exports : SUBSET ExportEntries,
            scopes : SUBSET Jobs, accepted : SUBSET Jobs]
EmptyReport == [complete |-> FALSE, exports |-> {}, scopes |-> {}, accepted |-> {}]

VARIABLES
    run,            \* how many times Engine.run has been called
    \* one entry per job: the worker's side and the _JobState both sides share
    step,           \* worker program counter and Future state
    clock,          \* monotonic time against the job's deadline
    overran,        \* completed_at >= supervision_deadline
    cancelled,      \* _JobState.cancelled
    inFlight,       \* jobs cancelled while their publication lock was taken
    outcome,        \* what the job's ScanStats say
    artifact,       \* the job replaced its export file (or its cache entry)
    exports,        \* _ExportLedger
    scopes,         \* _ScopeLedger
    \* the supervisor
    sup,            \* where _Supervisor.run is
    pending,        \* futures not yet decided
    observed,       \* futures wait() returned as done
    expired,        \* futures found overdue and not yet expired
    expiring,       \* the job _expire is working on
    abandoning,     \* futures _abandon_queue has still to try
    timedOut,       \* timed_out
    abandoned,      \* Engine._abandoned_futures
    completed,      \* the result chosen for each job
    report          \* what Engine.run returned and wrote to the manifest

jobVars == <<step, clock, overran, outcome, artifact>>
ledgerVars == <<exports, scopes>>
loopVars == <<pending, observed, expired, expiring, abandoning>>
fateVars == <<timedOut, abandoned, completed>>
vars == <<run, jobVars, cancelled, inFlight, ledgerVars, sup, loopVars, fateVars, report>>

TypeOK ==
    /\ run \in 1 .. MaxRuns
    /\ step \in [Jobs -> Steps]
    /\ clock \in [Jobs -> 0 .. 2]
    /\ overran \in [Jobs -> BOOLEAN]
    /\ cancelled \in [Jobs -> BOOLEAN]
    /\ inFlight \in SUBSET Jobs
    /\ outcome \in [Jobs -> Outcomes]
    /\ artifact \in [Jobs -> BOOLEAN]
    /\ exports \in SUBSET ExportEntries
    /\ scopes \in SUBSET Jobs
    /\ sup \in SupervisorSteps
    /\ pending \in SUBSET Jobs
    /\ observed \in SUBSET Jobs
    /\ expired \in SUBSET Jobs
    /\ expiring \in Jobs \cup {NoJob}
    /\ abandoning \in SUBSET Jobs
    /\ timedOut \in SUBSET Jobs
    /\ abandoned \in SUBSET Jobs
    /\ completed \in [Jobs -> Results]
    /\ report \in Reports

----------------------------------------------------------------------------
(* Conditions the code evaluates *)

\* Future.running(): a pool thread took the job and its Future is unresolved.
Running(j) == step[j] \notin {"queued", "withdrawn", "done"}

\* publication_lock is taken by the job's own worker.
LockTaken(j) == step[j] \in {"locked", "replacing"}

\* ConnectorContext.check_deadline raises.
Dead(j) == cancelled[j] \/ clock[j] >= 1

\* time.monotonic() >= supervision_deadline
Grace(j) == IF j \in Isolated THEN 2 ELSE 1
Due(j) == clock[j] >= Grace(j)

RunningJobs == {j \in Jobs : Running(j)}

\* The code reads the futures one by one.  A timed-out job only ever leaves the
\* running set, so a list that comes out full of timed-out jobs was full already
\* at the first read: one atomic read gives the same answers.
\* (Faulty variants: the slots are not counted; the queue is never given up.)
CapacityUncounted == RunningJobs \subseteq timedOut
CapacityEndless == FALSE

CapacityExhausted ==
    /\ Cardinality(RunningJobs) >= Workers
    /\ RunningJobs \subseteq timedOut

\* Where a collected job goes on: a scope is reported by attesting connectors, an
\* export entry when records are dumped.
AfterScope == IF DumpRecords THEN "exporting" ELSE "returning"
AfterCollection(j) == IF j \in Attesting THEN "recording" ELSE AfterScope

\* "while pending", and "if pending and self.timed_out and ..." at the loop's end.
EndOfLoop(waitingFor, givenUp) ==
    IF waitingFor = {} THEN "stopping" ELSE IF givenUp = {} THEN "waiting" ELSE "deciding"

\* _ExportLedger.record: nothing is taken from a cancelled job.
WithEntry(j, entry) == IF cancelled[j] THEN exports ELSE exports \cup {entry}

\* exported: ctx.dump_path was set by publish_replace and the job was not skipped.
ResultEntry(j) == [job |-> j,
                   exported |-> artifact[j] /\ outcome[j] # "skipped",
                   complete |-> outcome[j] = "complete"]

Init ==
    /\ run = 1
    /\ step = [j \in Jobs |-> "queued"]
    /\ clock = [j \in Jobs |-> 0]
    /\ overran = [j \in Jobs |-> FALSE]
    /\ cancelled = [j \in Jobs |-> FALSE]
    /\ inFlight = {}
    /\ outcome = [j \in Jobs |-> "none"]
    /\ artifact = [j \in Jobs |-> FALSE]
    /\ exports = {} /\ scopes = {}
    /\ sup = "waiting"
    /\ pending = Jobs
    /\ observed = {} /\ expired = {} /\ expiring = NoJob /\ abandoning = {}
    /\ timedOut = {} /\ abandoned = {}
    /\ completed = [j \in Jobs |-> "none"]
    /\ report = EmptyReport

----------------------------------------------------------------------------
(* Time and the pool *)

\* A started job's deadline, and then its grace, passes.  Nothing reads the clock
\* of a job that has been decided, so it is not advanced any further.
DeadlinePasses(j) ==
    /\ j \in pending \/ (sup = "interrupted" /\ Running(j))
    /\ step[j] \notin {"queued", "withdrawn"}
    /\ clock[j] < Grace(j)
    /\ clock' = [clock EXCEPT ![j] = @ + 1]
    /\ UNCHANGED <<run, step, overran, outcome, artifact, cancelled, inFlight,
                   ledgerVars, sup, loopVars, fateVars, report>>

\* A free pool thread takes the oldest queued job and starts its deadline.
Start(j) ==
    /\ step[j] = "queued"
    /\ \A i \in Jobs : i < j => step[i] # "queued"
    /\ Cardinality(RunningJobs) < Workers
    /\ step' = [step EXCEPT ![j] = "collecting"]
    /\ UNCHANGED <<run, clock, overran, outcome, artifact, cancelled, inFlight,
                   ledgerVars, sup, loopVars, fateVars, report>>

----------------------------------------------------------------------------
(* The worker of a job in the thread backend: _run_one and _collect.  No   *)
(* step of a connector has to happen: a call may block for ever.           *)

WorkerStep(j, from, to) ==
    /\ j \notin Isolated
    /\ step[j] = from
    /\ step' = [step EXCEPT ![j] = to]

\* publish_replace waits for its lock: for a record export while the connector
\* runs (_tee), for a cache entry once the result is known to be complete.
TakePublicationLock(j) ==
    /\ \/ DumpRecords /\ ~artifact[j] /\ WorkerStep(j, "collecting", "locked")
       \/ ~DumpRecords /\ WorkerStep(j, "caching", "locked")
    /\ UNCHANGED <<run, clock, overran, outcome, artifact, cancelled, inFlight,
                   ledgerVars, sup, loopVars, fateVars, report>>

\* check_deadline under the lock refuses: the prior artifact stays.  The export's
\* ConnectorError ends connector.run(), the cache's ends the collection.
RefusePublication(j) ==
    /\ Dead(j)
    /\ IF DumpRecords
       THEN /\ WorkerStep(j, "locked", "collected")
            /\ UNCHANGED outcome
       ELSE /\ WorkerStep(j, "locked", AfterCollection(j))
            /\ \E o \in {"incomplete", "skipped"} : outcome' = [outcome EXCEPT ![j] = o]
    /\ UNCHANGED <<run, clock, overran, artifact, cancelled, inFlight,
                   ledgerVars, sup, loopVars, fateVars, report>>

\* (Faulty variant: publish_replace does not check under its lock.)
BeginUnchecked(j) ==
    /\ WorkerStep(j, "locked", "replacing")
    /\ UNCHANGED <<run, clock, overran, outcome, artifact, cancelled, inFlight,
                   ledgerVars, sup, loopVars, fateVars, report>>

BeginReplacement(j) ==
    /\ ~Dead(j)
    /\ WorkerStep(j, "locked", "replacing")
    /\ UNCHANGED <<run, clock, overran, outcome, artifact, cancelled, inFlight,
                   ledgerVars, sup, loopVars, fateVars, report>>

\* os.replace returns and the lock is released.
Replace(j) ==
    /\ WorkerStep(j, "replacing", IF DumpRecords THEN "collecting" ELSE AfterCollection(j))
    /\ artifact' = [artifact EXCEPT ![j] = TRUE]
    /\ UNCHANGED <<run, clock, overran, outcome, cancelled, inFlight,
                   ledgerVars, sup, loopVars, fateVars, report>>

\* connector.run() returns, whether or not it published an export.
ReturnFromConnector(j) ==
    /\ WorkerStep(j, "collecting", "collected")
    /\ UNCHANGED <<run, clock, overran, outcome, artifact, cancelled, inFlight,
                   ledgerVars, sup, loopVars, fateVars, report>>

\* The checks after connector.run(): an overdue job keeps no findings at all,
\* any other job is what its statistics say.
Judge(j) ==
    /\ \E o \in IF Dead(j) THEN {"skipped"} ELSE Verdicts :
         /\ outcome' = [outcome EXCEPT ![j] = o]
         /\ WorkerStep(j, "collected",
                       IF o = "complete" /\ ~DumpRecords THEN "caching" ELSE AfterCollection(j))
    /\ UNCHANGED <<run, clock, overran, artifact, cancelled, inFlight,
                   ledgerVars, sup, loopVars, fateVars, report>>

\* No cache entry: the connector is not cacheable, or its input changed meanwhile.
SkipCache(j) ==
    /\ WorkerStep(j, "caching", AfterCollection(j))
    /\ \E o \in {"complete", "incomplete"} \cap Verdicts : outcome' = [outcome EXCEPT ![j] = o]
    /\ UNCHANGED <<run, clock, overran, artifact, cancelled, inFlight,
                   ledgerVars, sup, loopVars, fateVars, report>>

RecordScope(j) ==
    /\ WorkerStep(j, "recording", AfterScope)
    /\ scopes' = IF cancelled[j] THEN scopes ELSE scopes \cup {j}
    /\ UNCHANGED <<run, clock, overran, outcome, artifact, cancelled, inFlight,
                   exports, sup, loopVars, fateVars, report>>

RecordExport(j) ==
    /\ WorkerStep(j, "exporting", "returning")
    /\ exports' = WithEntry(j, ResultEntry(j))
    /\ UNCHANGED <<run, clock, overran, outcome, artifact, cancelled, inFlight,
                   scopes, sup, loopVars, fateVars, report>>

\* The catch-all of _ConnectorRunner.run: an exception outside _run_one's own
\* handler ends the job as skipped, with nothing reported to the ledgers.
WorkerRaises(j) ==
    /\ \E from \in {"collecting", "recording", "exporting"} : WorkerStep(j, from, "returning")
    /\ outcome' = [outcome EXCEPT ![j] = "skipped"]
    /\ UNCHANGED <<run, clock, overran, artifact, cancelled, inFlight,
                   ledgerVars, sup, loopVars, fateVars, report>>

----------------------------------------------------------------------------
(* The worker of an isolated job: run_plugin_process.  The process itself  *)
(* is modelled in PluginWorker; here it publishes, delivers or fails.      *)

IsolatedStep(j, from, to) ==
    /\ j \in Isolated
    /\ step[j] = from
    /\ step' = [step EXCEPT ![j] = to]

\* The plugin process publishes under a lock and an Event of its own: only its
\* deadline, and the kill, hold it back, and neither stops a replacement begun.
IsolatedPublish(j) ==
    /\ j \in Isolated
    /\ DumpRecords
    /\ step[j] = "collecting"
    /\ ~artifact[j]
    /\ artifact' = [artifact EXCEPT ![j] = TRUE]
    /\ UNCHANGED <<run, step, clock, overran, outcome, cancelled, inFlight,
                   ledgerVars, sup, loopVars, fateVars, report>>

IsolatedReceive(j) ==
    /\ IsolatedStep(j, "collecting", "received")
    /\ ~Dead(j)
    /\ \E o \in Verdicts : outcome' = [outcome EXCEPT ![j] = o]
    /\ UNCHANGED <<run, clock, overran, artifact, cancelled, inFlight,
                   ledgerVars, sup, loopVars, fateVars, report>>

\* (Faulty variant: the result is handed in without another look at the deadline.)
AcceptUnchecked(j) ==
    /\ IsolatedStep(j, "received", "delivering")
    /\ UNCHANGED <<run, clock, overran, outcome, artifact, cancelled, inFlight,
                   ledgerVars, sup, loopVars, fateVars, report>>

\* After its process was stopped, the result counts if the job is still live.
IsolatedAccept(j) ==
    /\ ~Dead(j)
    /\ IsolatedStep(j, "received", "delivering")
    /\ UNCHANGED <<run, clock, overran, outcome, artifact, cancelled, inFlight,
                   ledgerVars, sup, loopVars, fateVars, report>>

\* From there it is handed in, whatever has become of the job: the ledger takes nothing from
\* one that was cancelled meanwhile.
IsolatedDeliver(j) ==
    /\ IsolatedStep(j, "delivering", "returning")
    /\ exports' = IF DumpRecords THEN WithEntry(j, ResultEntry(j)) ELSE exports
    /\ UNCHANGED <<run, clock, overran, outcome, artifact, cancelled, inFlight,
                   scopes, sup, loopVars, fateVars, report>>

\* Timeout, crash or unusable output: the failure is reported first, since the
\* ledger takes nothing from a cancelled job, and then the job is cancelled.
IsolatedFail(j) ==
    /\ \/ IsolatedStep(j, "collecting", "failed")
       \/ Dead(j) /\ IsolatedStep(j, "received", "failed")
    /\ outcome' = [outcome EXCEPT ![j] = "skipped"]
    /\ exports' = WithEntry(j, FailureEntry(j))
    /\ UNCHANGED <<run, clock, overran, artifact, cancelled, inFlight,
                   scopes, sup, loopVars, fateVars, report>>

CancelFailed(j) ==
    /\ IsolatedStep(j, "failed", "returning")
    /\ cancelled' = [cancelled EXCEPT ![j] = TRUE]
    /\ UNCHANGED <<run, clock, overran, outcome, artifact, inFlight,
                   ledgerVars, sup, loopVars, fateVars, report>>

\* completed_at is taken and the Future resolved.
Finish(j) ==
    /\ step[j] = "returning"
    /\ step' = [step EXCEPT ![j] = "done"]
    /\ overran' = [overran EXCEPT ![j] = Due(j)]
    /\ UNCHANGED <<run, clock, outcome, artifact, cancelled, inFlight,
                   ledgerVars, sup, loopVars, fateVars, report>>

----------------------------------------------------------------------------
(* The supervisor *)

workerVars == <<run, jobVars, ledgerVars>>

\* wait(pending, timeout=0.05, FIRST_COMPLETED)
Poll ==
    /\ sup = "waiting"
    /\ observed' = {j \in pending : step[j] = "done"}
    /\ sup' = "settling"
    /\ UNCHANGED <<workerVars, cancelled, inFlight, pending, expired, expiring, abandoning,
                   fateVars, report>>

\* (Faulty variant: completed_at of a done future is not compared with its deadline.)
SettleAnyDone ==
    /\ sup = "settling"
    /\ LET overdue == {j \in pending \ observed : Due(j)}
       IN  /\ completed' = [j \in Jobs |-> IF j \in observed THEN "accepted" ELSE completed[j]]
           /\ pending' = pending \ observed
           /\ expired' = overdue
           /\ sup' = IF overdue = {} THEN EndOfLoop(pending', timedOut) ELSE "expiring"
    /\ observed' = {}
    /\ UNCHANGED <<workerVars, cancelled, inFlight, expiring, abandoning, timedOut, abandoned, report>>

\* A done future is accepted unless it overran; any other is overdue or waits on.
Settle ==
    /\ sup = "settling"
    /\ LET accepted == {j \in observed : ~overran[j]}
           overdue == {j \in observed : overran[j]} \cup {j \in pending \ observed : Due(j)}
       IN  /\ completed' = [j \in Jobs |-> IF j \in accepted THEN "accepted" ELSE completed[j]]
           /\ pending' = pending \ accepted
           /\ expired' = overdue
           /\ sup' = IF overdue = {} THEN EndOfLoop(pending', timedOut) ELSE "expiring"
    /\ observed' = {}
    /\ UNCHANGED <<workerVars, cancelled, inFlight, expiring, abandoning, timedOut, abandoned, report>>

\* _expire, first part: a free publication lock is taken around the cancellation, a
\* busy one is not waited for.
ExpireCancel(j) ==
    /\ sup = "expiring"
    /\ expiring = NoJob
    /\ j \in expired
    /\ expiring' = j
    /\ cancelled' = [cancelled EXCEPT ![j] = TRUE]
    /\ inFlight' = IF LockTaken(j) THEN inFlight \cup {j} ELSE inFlight
    /\ timedOut' = timedOut \cup {j}
    /\ UNCHANGED <<workerVars, sup, pending, observed, expired, abandoning, abandoned, completed,
                   report>>

\* _expire, second part, with run's pending.remove: a worker that is still running is
\* remembered by the engine.
ExpireRecord ==
    /\ sup = "expiring"
    /\ expiring \in expired
    /\ abandoned' = IF Running(expiring) THEN abandoned \cup {expiring} ELSE abandoned
    /\ completed' = [completed EXCEPT ![expiring] = "timeout"]
    /\ pending' = pending \ {expiring}
    /\ expired' = expired \ {expiring}
    /\ expiring' = NoJob
    /\ sup' = IF expired' = {} THEN EndOfLoop(pending', timedOut) ELSE "expiring"
    /\ UNCHANGED <<workerVars, cancelled, inFlight, observed, abandoning, timedOut, report>>

\* The end of the loop body after a timeout: give up the queue, or go on waiting.
Decide ==
    /\ sup = "deciding"
    /\ abandoning' = IF CapacityExhausted THEN pending ELSE {}
    /\ sup' = IF CapacityExhausted THEN "abandoning" ELSE "waiting"
    /\ UNCHANGED <<workerVars, cancelled, inFlight, pending, observed, expired, expiring, fateVars,
                   report>>

\* (Faulty variant: a future is given up whether or not its cancel() succeeded.)
AbandonAnyway(j) ==
    /\ sup = "abandoning"
    /\ j \in abandoning
    /\ abandoning' = abandoning \ {j}
    /\ step' = [step EXCEPT ![j] = "withdrawn"]
    /\ cancelled' = [cancelled EXCEPT ![j] = TRUE]
    /\ timedOut' = timedOut \cup {j}
    /\ completed' = [completed EXCEPT ![j] = "unstarted"]
    /\ pending' = pending \ {j}
    /\ sup' = IF abandoning' # {} THEN "abandoning"
              ELSE IF pending' = {} THEN "stopping" ELSE "waiting"
    /\ UNCHANGED <<run, clock, overran, outcome, artifact, inFlight, ledgerVars, observed, expired,
                   expiring, abandoned, report>>

\* _abandon_queue, one future: cancel() succeeds only while it is still queued.
AbandonQueued(j) ==
    /\ sup = "abandoning"
    /\ j \in abandoning
    /\ abandoning' = abandoning \ {j}
    /\ IF step[j] = "queued"
       THEN /\ step' = [step EXCEPT ![j] = "withdrawn"]
            /\ cancelled' = [cancelled EXCEPT ![j] = TRUE]
            /\ timedOut' = timedOut \cup {j}
            /\ completed' = [completed EXCEPT ![j] = "unstarted"]
            /\ pending' = pending \ {j}
       ELSE UNCHANGED <<step, cancelled, timedOut, completed, pending>>
    /\ sup' = IF abandoning' # {} THEN "abandoning"
              ELSE IF pending' = {} THEN "stopping" ELSE "waiting"
    /\ UNCHANGED <<run, clock, overran, outcome, artifact, inFlight, ledgerVars, observed, expired,
                   expiring, abandoned, report>>

\* The finally clause of Engine._collect, when supervision ended normally.
Stop ==
    /\ sup = "stopping"
    /\ cancelled' = [j \in Jobs |-> cancelled[j] \/ j \in Isolated]
    /\ sup' = "reporting"
    /\ UNCHANGED <<workerVars, inFlight, loopVars, fateVars, report>>

\* (Faulty variant: what a job reported before its timeout stays in the manifest.)
ExportsUnfiltered ==
    IF DumpRecords THEN exports \cup {FailureEntry(j) : j \in timedOut} ELSE {}

\* _ExportLedger.entries: what a timed-out job reported is replaced by its failure.
ExportsReported ==
    IF DumpRecords
    THEN {e \in exports : e.job \notin timedOut} \cup {FailureEntry(j) : j \in timedOut}
    ELSE {}

\* (Faulty variant: what a job attested before its timeout stays attested.)
ScopesUnfiltered == scopes

\* _ScopeLedger.records: a timed-out job attests nothing.
ScopesReported == scopes \ timedOut

\* A job counts as collected in full: its own statistics, or the ones _expire and
\* _abandon_queue made up for it.
CollectedInFull(j) == completed[j] = "accepted" /\ outcome[j] = "complete"

\* Engine.run after collection: scope records, findings in configured order, manifest.
Report ==
    /\ sup = "reporting"
    /\ report' = [complete |-> \A j \in Jobs : CollectedInFull(j),
                  exports |-> ExportsReported,
                  scopes |-> ScopesReported,
                  accepted |-> {j \in Jobs : completed[j] = "accepted"}]
    /\ sup' = "reported"
    /\ UNCHANGED <<workerVars, cancelled, inFlight, loopVars, fateVars>>

\* KeyboardInterrupt out of the supervision loop: the queue is cancelled and isolated
\* jobs are stopped; thread workers go on, and the process is expected to exit.  What the
\* unwound loop held is gone.
Interrupt ==
    /\ sup \in {"waiting", "settling", "expiring", "deciding", "abandoning"}
    /\ step' = [j \in Jobs |-> IF step[j] = "queued" THEN "withdrawn" ELSE step[j]]
    /\ cancelled' = [j \in Jobs |-> cancelled[j] \/ j \in Isolated]
    /\ sup' = "interrupted"
    /\ pending' = {} /\ observed' = {} /\ expired' = {} /\ expiring' = NoJob /\ abandoning' = {}
    /\ UNCHANGED <<run, clock, overran, outcome, artifact, inFlight, ledgerVars, fateVars, report>>

\* Engine.run again: _prepare_run refuses while an abandoned future is unresolved.
NextRun ==
    /\ sup = "reported"
    /\ run < MaxRuns
    /\ \A j \in abandoned : step[j] = "done"
    /\ run' = run + 1
    /\ step' = [j \in Jobs |-> "queued"]
    /\ clock' = [j \in Jobs |-> 0]
    /\ overran' = [j \in Jobs |-> FALSE]
    /\ cancelled' = [j \in Jobs |-> FALSE]
    /\ inFlight' = {}
    /\ outcome' = [j \in Jobs |-> "none"]
    /\ artifact' = [j \in Jobs |-> FALSE]
    /\ exports' = {} /\ scopes' = {}
    /\ sup' = "waiting"
    /\ pending' = Jobs
    /\ observed' = {} /\ expired' = {} /\ expiring' = NoJob /\ abandoning' = {}
    /\ timedOut' = {} /\ abandoned' = {}
    /\ completed' = [j \in Jobs |-> "none"]
    /\ report' = EmptyReport

----------------------------------------------------------------------------
WorkerNext(j) ==
    \/ TakePublicationLock(j) \/ RefusePublication(j) \/ BeginReplacement(j) \/ Replace(j)
    \/ ReturnFromConnector(j) \/ Judge(j) \/ SkipCache(j)
    \/ RecordScope(j) \/ RecordExport(j) \/ WorkerRaises(j)
    \/ IsolatedPublish(j) \/ IsolatedReceive(j) \/ IsolatedAccept(j) \/ IsolatedDeliver(j)
    \/ IsolatedFail(j) \/ CancelFailed(j)
    \/ Finish(j)

SupervisorNext ==
    \/ Poll \/ Settle \/ ExpireRecord \/ Decide \/ Stop \/ Report
    \/ \E j \in Jobs : ExpireCancel(j) \/ AbandonQueued(j)

Next ==
    \/ \E j \in Jobs : DeadlinePasses(j) \/ Start(j) \/ WorkerNext(j)
    \/ SupervisorNext
    \/ Interrupt
    \/ NextRun

Spec == Init /\ [][Next]_vars

\* Time passes, a free pool thread takes queued work, and the supervisor's own thread
\* runs.  Nothing is assumed of the workers: a connector may hang anywhere, even
\* inside a replacement.
Fairness ==
    /\ WF_vars(SupervisorNext)
    /\ \A j \in Jobs : WF_vars(DeadlinePasses(j)) /\ WF_vars(Start(j))

FairSpec == Spec /\ Fairness

----------------------------------------------------------------------------
(* Safety *)

\* An accepted job finished before its deadline, was not cancelled on the way (only an
\* isolated job is cancelled again when supervision stops), and everything it reported
\* to the ledgers is there: the ledgers drop what a cancelled job reports, so accepting
\* one would lose its export entry or its scope silently.
\* (_Supervisor.run, _expire, _ExportLedger.record, _ScopeLedger.record)
AcceptedJobIsWhole ==
    \A j \in Jobs : completed[j] = "accepted" =>
        /\ step[j] = "done" /\ ~overran[j] /\ j \notin timedOut
        /\ cancelled[j] => j \in Isolated
        /\ outcome[j] = "complete" =>
             /\ DumpRecords => ResultEntry(j) \in exports
             /\ j \in Attesting => j \in scopes

\* The manifest of a finished scan vouches for a file only if the job that wrote it
\* was accepted; every timed-out or unstarted job is listed exactly once, as failed;
\* a job missing from it makes the scan incomplete; and a manifest that calls itself
\* complete lists a complete entry for every selected job.
\* (_ExportLedger.entries, Engine._write_manifest, _ConnectorRunner._run_one)
ManifestSound ==
    sup = "reported" /\ DumpRecords =>
        /\ \A e \in report.exports :
             /\ e.exported => e.job \in report.accepted /\ artifact[e.job]
             /\ \A f \in report.exports : f.job = e.job => f = e
        /\ \A j \in Jobs \ report.accepted : FailureEntry(j) \in report.exports
        /\ report.complete => \A j \in Jobs : \E e \in report.exports : e.job = j /\ e.complete

\* The collection scope of a scan is attested only by jobs whose findings it holds.
\* (_ScopeLedger.record and records)
ScopeSound == sup = "reported" => report.scopes \subseteq report.accepted

\* The queue is given up only after as many timeouts as there are worker slots.
\* (_capacity_exhausted, _abandon_queue)
QueueAbandonedForCause ==
    (\E j \in Jobs : completed[j] = "unstarted") =>
        Cardinality({j \in Jobs : completed[j] = "timeout"}) >= Workers

\* Once a job is cancelled its worker starts no replacement: an artifact appears after
\* the cancellation only if the publication lock was taken at that moment.
\* (_expire, ConnectorContext.publish_replace)
NoLateReplacement ==
    [][\A j \in Jobs \ Isolated :
         ~artifact[j] /\ artifact'[j] /\ cancelled[j] => j \in inFlight]_vars

\* No worker of one scan is left running when the next scan of the Engine begins.
\* (_expire's abandoned futures, _prepare_run, docs/scanning.md)
NoOverlap == [][run' # run => \A j \in Jobs : ~Running(j)]_vars

\* Engine.run returns, whatever the connectors do: hang, finish, fail or overrun.
\* (_Supervisor.run: deadlines, _expire, _abandon_queue)
ScanEnds == sup = "waiting" ~> sup \in {"reported", "interrupted"}

----------------------------------------------------------------------------
(* Refinement *)

Delivery(j) ==
    IF step[j] \in {"queued", "withdrawn"} THEN "idle"
    ELSE IF step[j] # "done" THEN "working"
    ELSE IF overran[j] THEN "late" ELSE "inTime"

Fate(j) ==
    IF completed[j] = "accepted" THEN "accepted"
    ELSE IF completed[j] = "none" THEN "open" ELSE "discarded"

Contract == INSTANCE ScanContract WITH
    delivery <- [j \in Jobs |-> Delivery(j)],
    fate <- [j \in Jobs |-> Fate(j)],
    report <- [published |-> sup = "reported", accepted |-> report.accepted]

\* The engine keeps the contract of a scan: every job decided once, only timely results
\* accepted, a withdrawn job never begun, and the report made of the accepted jobs.
ImplementsContract == Contract!Spec

Stage(j) ==
    IF step[j] \in {"queued", "withdrawn"} THEN "idle"
    ELSE IF step[j] \in {"received", "delivering", "failed"} THEN step[j]
    ELSE IF step[j] \in {"returning", "done"} THEN "returned" ELSE "working"

Late(j) == clock[j] >= 1
Recorded == {j \in Isolated : \E e \in exports : e.job = j}

Process == INSTANCE IsolatedJobs WITH
    Jobs <- Isolated,
    Exporting <- DumpRecords,
    stage <- [j \in Isolated |-> Stage(j)],
    late <- [j \in Isolated |-> Late(j)],
    cancelled <- [j \in Isolated |-> cancelled[j]],
    recorded <- Recorded

\* What the supervisor deals with as an isolated job, over all its scans, is what the process
\* backend provides (module PluginWorker implements the same contract): no result is found fit
\* to deliver when late or cancelled, nothing is taken from a cancelled job, and the next scan
\* finds none at work.
\* (run_plugin_process as _ConnectorRunner.run calls it, Engine._collect)
IsolatedAsAgreed == Process!Spec

=============================================================================
