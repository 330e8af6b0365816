---------------------------- MODULE PluginWorker ----------------------------
(***************************************************************************)
(* Plugin jobs under plugin_execution: process                             *)
(* (shadowscan/plugin_process.py): the scanner thread that starts, reads   *)
(* and stops one child process per job, the child with its own watchdog,   *)
(* and the supervisor thread that may kill the child at any moment.  The   *)
(* scanner process itself may die without running any cleanup.             *)
(*                                                                         *)
(* A job's clock is reduced to what the code compares: 0 before the job's  *)
(* deadline, 1 from the deadline, 2 from the deadline plus two seconds of  *)
(* grace, where the supervisor's guard and the child's watchdog both act.  *)
(* The half-second waits of _stop may end with or without the child's exit.*)
(*                                                                         *)
(* multiprocessing is outside the repository; it is modelled by what the   *)
(* code relies on: a spawned child inherits os.environ as it is at the     *)
(* spawn, a signal to an exited child does nothing, and Process.close()    *)
(* drops the process handle before it marks the object closed.             *)
(***************************************************************************)
EXTENDS Naturals

CONSTANTS
    Jobs,       \* plugin jobs that run side by side
    Deaf,       \* jobs whose plugin survives SIGTERM
    NoJob       \* no job at all

ASSUME DeafAssumption == Deaf \subseteq Jobs
ASSUME NoJobAssumption == NoJob \notin Jobs

RunnerSteps == {"preparing",     \* building the Process object
                "checking",      \* state.kill_process is set; before the first checks
                "queueing",      \* waiting for the spawn environment
                "spawning",      \* PYTHONSAFEPATH is set, process.start() not done
                "restoring",     \* process.start() returned or raised
                "rechecking",    \* the environment is restored
                "receiving", "joining", "decoding",
                "stopping",      \* in the finally clause, waiting for the handle
                "terminating",   \* SIGTERM sent, join(0.5)
                "killing",       \* SIGKILL sent, join(0.5)
                "closing",       \* Process.close() dropped the process handle
                "delivering",    \* the child is gone, or known to be unkillable
                "recording",     \* the result was still wanted; none of its entries recorded
                "completing",    \* some of its entries recorded, or dropped
                "failed",        \* the failure is recorded, the job not yet cancelled
                "returned"}

ChildSteps == {"none",
               "booting",       \* the interpreter starts, no watchdog yet
               "running",       \* the plugin runs beside its watchdog
               "sending",       \* the result is encoded
               "leaving",       \* the channel is closed
               "gone"}

Payloads == {"none", "valid", "refused", "error"}    \* refused: _decode_result raises

VARIABLES
    \* per job
    runner,      \* where the job's scanner thread is
    verdict,     \* "open", "result" or "discard": what the job will return
    handle,      \* the Process object: "unstarted", "open", "halfClosed", "closed"
    holder,      \* who is inside _WorkerHandle's lock: "nobody", "runner", "supervisor"
    clock,
    cancelled,   \* _JobState.cancelled
    ledger,      \* what _ExportLedger took: "nothing", "part" or all of a "result", "failure"
    child,       \* where the child process is
    payload,     \* what the child will send
    sent,        \* what arrived: "nothing", "part", "whole"
    exit,        \* exitcode: "none", "zero", "nonzero"
    signal,      \* the strongest signal sent: "none", "term", "kill"
    safePath,    \* the child was spawned with PYTHONSAFEPATH=1
    killed,      \* the supervisor's last kill_process() for the job is over
    \* shared
    scanner,     \* "up" or "down"
    supervisor,  \* "watching" or "ending" (the finally clause of Engine._collect)
    target,      \* the job the supervisor has cancelled and not yet killed
    spawnOwner,  \* who holds _SPAWN_ENVIRONMENT
    environ      \* PYTHONSAFEPATH is "own" (the scanner's) or "safe"

runnerVars == <<runner, verdict, ledger>>
handleVars == <<handle, holder, signal>>
childVars == <<child, payload, sent, exit>>
spawnVars == <<safePath, spawnOwner, environ>>
supVars == <<scanner, supervisor, target, killed>>
vars == <<runnerVars, handleVars, clock, cancelled, childVars, spawnVars, supVars>>

\* What a step of the runner, of its cleanup, or of a child leaves alone.
notRunner == <<handleVars, clock, cancelled, childVars, spawnVars, supVars>>
notStop == <<clock, cancelled, childVars, spawnVars, supVars>>
notChild == <<runnerVars, handleVars, clock, cancelled, spawnVars, supVars>>

TypeOK ==
    /\ runner \in [Jobs -> RunnerSteps]
    /\ verdict \in [Jobs -> {"open", "result", "discard"}]
    /\ handle \in [Jobs -> {"unstarted", "open", "halfClosed", "closed"}]
    /\ holder \in [Jobs -> {"nobody", "runner", "supervisor"}]
    /\ clock \in [Jobs -> 0 .. 2]
    /\ cancelled \in [Jobs -> BOOLEAN]
    /\ ledger \in [Jobs -> {"nothing", "part", "result", "failure"}]
    /\ child \in [Jobs -> ChildSteps]
    /\ payload \in [Jobs -> Payloads]
    /\ sent \in [Jobs -> {"nothing", "part", "whole"}]
    /\ exit \in [Jobs -> {"none", "zero", "nonzero"}]
    /\ signal \in [Jobs -> {"none", "term", "kill"}]
    /\ safePath \in [Jobs -> BOOLEAN]
    /\ killed \in [Jobs -> BOOLEAN]
    /\ scanner \in {"up", "down"}
    /\ supervisor \in {"watching", "ending"}
    /\ target \in Jobs \cup {NoJob}
    /\ spawnOwner \in Jobs \cup {NoJob}
    /\ environ \in {"own", "safe"}

Init ==
    /\ runner = [j \in Jobs |-> "preparing"]
    /\ verdict = [j \in Jobs |-> "open"]
    /\ handle = [j \in Jobs |-> "unstarted"] /\ holder = [j \in Jobs |-> "nobody"]
    /\ clock = [j \in Jobs |-> 0] /\ cancelled = [j \in Jobs |-> FALSE]
    /\ ledger = [j \in Jobs |-> "nothing"]
    /\ child = [j \in Jobs |-> "none"]
    /\ payload = [j \in Jobs |-> "none"] /\ sent = [j \in Jobs |-> "nothing"]
    /\ exit = [j \in Jobs |-> "none"] /\ signal = [j \in Jobs |-> "none"]
    /\ safePath = [j \in Jobs |-> FALSE] /\ killed = [j \in Jobs |-> FALSE]
    /\ scanner = "up" /\ supervisor = "watching" /\ target = NoJob
    /\ spawnOwner = NoJob /\ environ = "own"

----------------------------------------------------------------------------
Alive(j) == child[j] \notin {"none", "gone"}

\* _remaining raises TimeoutError.
Overdue(j) == clock[j] >= 1

\* The try block of _run_plugin_process has been left.
Abandoned(j) == runner[j] \in {"stopping", "terminating", "killing", "closing", "delivering",
                               "recording", "completing", "failed", "returned"}

RunnerStep(j, from, to) ==
    /\ scanner = "up"
    /\ runner[j] = from
    /\ runner' = [runner EXCEPT ![j] = to]

\* The try block ends, with a result or without one.
Leave(j, from, v) ==
    /\ RunnerStep(j, from, "stopping")
    /\ verdict' = [verdict EXCEPT ![j] = v]

\* _ExportLedger.record: nothing is taken from a cancelled job.
Ledger(j, entry) == IF cancelled[j] THEN ledger ELSE [ledger EXCEPT ![j] = entry]

DeadlinePasses(j) ==
    /\ clock[j] < 2
    /\ clock' = [clock EXCEPT ![j] = @ + 1]
    /\ UNCHANGED <<cancelled, runnerVars, handleVars, childVars, spawnVars, supVars>>

----------------------------------------------------------------------------
(* The job's scanner thread: starting the child *)

\* The Process object exists and its kill is announced in state.kill_process.
Prepare(j) ==
    /\ RunnerStep(j, "preparing", "checking")
    /\ UNCHANGED <<verdict, ledger, notRunner>>

\* Building it fails: run_plugin_process reports the failure, no handle ever existed.
PrepareFails(j) ==
    /\ RunnerStep(j, "preparing", "failed")
    /\ verdict' = [verdict EXCEPT ![j] = "discard"]
    /\ ledger' = Ledger(j, "failure")
    /\ UNCHANGED notRunner

\* The checks before and after the start, each followed by the next step or the cleanup.
CheckBeforeStart(j) ==
    /\ IF Overdue(j) \/ cancelled[j]
       THEN Leave(j, "checking", "discard")
       ELSE RunnerStep(j, "checking", "queueing") /\ UNCHANGED verdict
    /\ UNCHANGED <<ledger, notRunner>>

SetSafePath(j) ==
    /\ RunnerStep(j, "queueing", "spawning")
    /\ spawnOwner' = j
    /\ environ' = "safe"
    /\ UNCHANGED <<verdict, ledger, clock, cancelled, safePath, handleVars, childVars, supVars>>

\* (Faulty variant: the environment is changed without its lock.)
EnterUnlocked(j) == SetSafePath(j)

EnterSafePath(j) == spawnOwner = NoJob /\ SetSafePath(j)

\* process.start(): the child inherits the environment as it is now.
StartProcess(j) ==
    /\ RunnerStep(j, "spawning", "restoring")
    /\ child' = [child EXCEPT ![j] = "booting"]
    /\ handle' = [handle EXCEPT ![j] = "open"]
    /\ safePath' = IF environ = "safe" THEN [safePath EXCEPT ![j] = TRUE] ELSE safePath
    /\ UNCHANGED <<verdict, ledger, holder, clock, cancelled, payload, sent, exit, signal,
                   spawnOwner, environ, supVars>>

StartFails(j) ==
    /\ RunnerStep(j, "spawning", "restoring")
    /\ verdict' = [verdict EXCEPT ![j] = "discard"]
    /\ UNCHANGED <<ledger, notRunner>>

LeaveSafePath(j) ==
    /\ RunnerStep(j, "restoring", IF verdict[j] = "discard" THEN "stopping" ELSE "rechecking")
    /\ spawnOwner' = NoJob
    /\ environ' = "own"
    /\ UNCHANGED <<verdict, ledger, clock, cancelled, safePath, handleVars, childVars, supVars>>

\* (Faulty variant: no look at the cancellation once the child is started.)
NoRecheck(j) == RunnerStep(j, "rechecking", "receiving") /\ UNCHANGED <<verdict, ledger, notRunner>>

CheckAfterStart(j) ==
    /\ IF cancelled[j]
       THEN Leave(j, "rechecking", "discard")
       ELSE RunnerStep(j, "rechecking", "receiving") /\ UNCHANGED verdict
    /\ UNCHANGED <<ledger, notRunner>>

----------------------------------------------------------------------------
(* The job's scanner thread: reading the result *)

\* _receive: a whole message, its end before its declared length, or the deadline.
Receive(j) ==
    /\ IF sent[j] = "whole" /\ ~Overdue(j)
       THEN RunnerStep(j, "receiving", "joining") /\ UNCHANGED verdict
       ELSE /\ Overdue(j) \/ child[j] \in {"leaving", "gone"}
            /\ Leave(j, "receiving", "discard")
    /\ UNCHANGED <<ledger, notRunner>>

\* (Faulty variant: the child is joined without the deadline.)
JoinForever(j) ==
    /\ child[j] = "gone"
    /\ IF exit[j] = "zero" /\ ~Overdue(j)
       THEN RunnerStep(j, "joining", "decoding") /\ UNCHANGED verdict
       ELSE Leave(j, "joining", "discard")
    /\ UNCHANGED <<ledger, notRunner>>

\* process.join and the exit code.
Join(j) ==
    /\ Overdue(j) \/ child[j] = "gone"
    /\ IF exit[j] = "zero" /\ ~Overdue(j)
       THEN RunnerStep(j, "joining", "decoding") /\ UNCHANGED verdict
       ELSE Leave(j, "joining", "discard")
    /\ UNCHANGED <<ledger, notRunner>>

\* (Faulty variant: the exit code and the envelope are trusted.)
DecodeTrusting(j) ==
    /\ Leave(j, "decoding", IF Overdue(j) \/ cancelled[j] THEN "discard" ELSE "result")
    /\ UNCHANGED <<ledger, notRunner>>

Decode(j) ==
    /\ LET accepted == payload[j] = "valid" /\ ~Overdue(j) /\ ~cancelled[j]
       IN  Leave(j, "decoding", IF accepted THEN "result" ELSE "discard")
    /\ UNCHANGED <<ledger, notRunner>>

----------------------------------------------------------------------------
(* The job's scanner thread: stopping the child, under the handle's lock *)

\* The child has exited: Process.close() begins.
BeginClose(j, from) ==
    /\ RunnerStep(j, from, "closing")
    /\ handle' = [handle EXCEPT ![j] = "halfClosed"]
    /\ holder' = [holder EXCEPT ![j] = "runner"]
    /\ UNCHANGED signal

\* _stop: nothing to stop, the child has exited, or SIGTERM.
StopChild(j) ==
    /\ holder[j] = "nobody"
    /\ \/ /\ handle[j] = "unstarted"
          /\ RunnerStep(j, "stopping", "delivering")
          /\ UNCHANGED handleVars
       \/ handle[j] = "open" /\ ~Alive(j) /\ BeginClose(j, "stopping")
       \/ /\ handle[j] = "open" /\ Alive(j)
          /\ RunnerStep(j, "stopping", "terminating")
          /\ holder' = [holder EXCEPT ![j] = "runner"]
          /\ signal' = [signal EXCEPT ![j] = IF @ = "kill" THEN @ ELSE "term"]
          /\ UNCHANGED handle
    /\ UNCHANGED <<verdict, ledger, notStop>>

\* (Faulty variant: SIGTERM is taken to be enough.)
TermIsEnough(j) == BeginClose(j, "terminating") /\ UNCHANGED <<verdict, ledger, notStop>>

\* The wait after SIGTERM is over: close the handle, or SIGKILL.
AfterTerm(j) ==
    /\ IF Alive(j)
       THEN /\ RunnerStep(j, "terminating", "killing")
            /\ signal' = [signal EXCEPT ![j] = "kill"]
            /\ UNCHANGED <<handle, holder>>
       ELSE BeginClose(j, "terminating")
    /\ UNCHANGED <<verdict, ledger, notStop>>

\* The wait after SIGKILL is over.  A child that cannot be reaped is a failure.
AfterKill(j) ==
    /\ IF Alive(j)
       THEN /\ RunnerStep(j, "killing", "delivering")
            /\ verdict' = [verdict EXCEPT ![j] = "discard"]
            /\ holder' = [holder EXCEPT ![j] = "nobody"]
            /\ UNCHANGED <<handle, signal>>
       ELSE BeginClose(j, "killing") /\ UNCHANGED verdict
    /\ UNCHANGED <<ledger, notStop>>

Close(j) ==
    /\ RunnerStep(j, "closing", "delivering")
    /\ handle' = [handle EXCEPT ![j] = "closed"]
    /\ holder' = [holder EXCEPT ![j] = "nobody"]
    /\ UNCHANGED <<verdict, ledger, signal, notStop>>

----------------------------------------------------------------------------
(* The job's scanner thread: what the job returns *)

\* The last look at a result: it is still wanted.
AcceptResult(j) ==
    /\ verdict[j] = "result"
    /\ ~cancelled[j] /\ ~Overdue(j)
    /\ RunnerStep(j, "delivering", "recording")
    /\ UNCHANGED <<verdict, ledger, notRunner>>

\* Its entries are recorded one by one, each if the job is not cancelled by then.
RecordEntry(j) ==
    /\ RunnerStep(j, "recording", "completing")
    /\ ledger' = Ledger(j, "part")
    /\ UNCHANGED <<verdict, notRunner>>

\* The last of them, and the result is returned without another look.
Deliver(j) ==
    /\ RunnerStep(j, "completing", "returned")
    /\ ledger' = Ledger(j, "result")
    /\ UNCHANGED <<verdict, notRunner>>

\* (Faulty variant: the job is cancelled before its failure is recorded.)
CancelThenRecord(j) ==
    /\ verdict[j] # "result" \/ cancelled[j] \/ Overdue(j)
    /\ RunnerStep(j, "delivering", "failed")
    /\ verdict' = [verdict EXCEPT ![j] = "discard"]
    /\ cancelled' = [cancelled EXCEPT ![j] = TRUE]
    /\ UNCHANGED <<ledger, clock, handleVars, childVars, spawnVars, supVars>>

\* Anything else is recorded as a failure, and then the job is cancelled.  What the last look
\* found does not change until the failure is recorded: neither condition is ever undone.
RecordFailure(j) ==
    /\ verdict[j] # "result" \/ cancelled[j] \/ Overdue(j)
    /\ RunnerStep(j, "delivering", "failed")
    /\ verdict' = [verdict EXCEPT ![j] = "discard"]
    /\ ledger' = Ledger(j, "failure")
    /\ UNCHANGED notRunner

CancelFailed(j) ==
    /\ RunnerStep(j, "failed", "returned")
    /\ cancelled' = [cancelled EXCEPT ![j] = TRUE]
    /\ UNCHANGED <<verdict, ledger, clock, handleVars, childVars, spawnVars, supVars>>

----------------------------------------------------------------------------
(* The child *)

ChildStep(j, from, to) ==
    /\ child[j] = from
    /\ child' = [child EXCEPT ![j] = to]

\* _worker starts its watchdog before anything of the plugin is imported.
Arm(j) ==
    /\ ChildStep(j, "booting", "running")
    /\ UNCHANGED <<payload, sent, exit, notChild>>

\* The plugin ends, and its result or its failure is encoded.
PluginEnds(j) ==
    /\ ChildStep(j, "running", "sending")
    /\ \E p \in Payloads \ {"none"} : payload' = [payload EXCEPT ![j] = p]
    /\ UNCHANGED <<sent, exit, notChild>>

\* sendall: the whole message while someone still reads it before the deadline, or less.
Send(j) ==
    /\ ChildStep(j, "sending", "leaving")
    /\ \E s \in {"nothing", "part", "whole"} :
         /\ s = "whole" => ~Overdue(j) /\ ~Abandoned(j)
         /\ sent' = [sent EXCEPT ![j] = s]
    /\ UNCHANGED <<payload, exit, notChild>>

Exit(j, code) ==
    /\ child' = [child EXCEPT ![j] = "gone"]
    /\ exit' = [exit EXCEPT ![j] = code]
    /\ UNCHANGED <<payload, sent, notChild>>

\* os._exit(status)
LeaveWorker(j) ==
    /\ child[j] = "leaving"
    /\ Exit(j, IF sent[j] = "whole" /\ payload[j] # "error" THEN "zero" ELSE "nonzero")

\* The interpreter or the plugin brings the process down, with any exit code.
Crash(j) ==
    /\ child[j] \in {"booting", "running"}
    /\ \E code \in {"zero", "nonzero"} : Exit(j, code)

\* A signal takes effect; SIGTERM only on a plugin that does not ignore it.
DieOfSignal(j) ==
    /\ signal[j] = "kill" \/ (signal[j] = "term" /\ j \notin Deaf)
    /\ Alive(j)
    /\ Exit(j, "nonzero")

\* (Faulty variant: the watchdog only knows the deadline.)
WatchdogByDeadline(j) ==
    /\ child[j] \in {"running", "sending", "leaving"}
    /\ clock[j] = 2
    /\ Exit(j, "nonzero")

\* _exit_with_scanner: the deadline's grace is over or the scanner is gone.
Watchdog(j) ==
    /\ child[j] \in {"running", "sending", "leaving"}
    /\ clock[j] = 2 \/ scanner = "down"
    /\ Exit(j, "nonzero")

----------------------------------------------------------------------------
(* The supervisor thread *)

\* _expire past the supervision deadline, or the finally clause of Engine._collect, which
\* an interrupt reaches at any moment: the job is cancelled, then killed.
CancelJob(j) ==
    /\ scanner = "up"
    /\ target = NoJob
    /\ ~killed[j]
    /\ \/ supervisor = "watching" /\ clock[j] = 2 /\ UNCHANGED supervisor
       \/ supervisor' = "ending"
    /\ cancelled' = [cancelled EXCEPT ![j] = TRUE]
    /\ target' = j
    /\ UNCHANGED <<clock, killed, scanner, runnerVars, handleVars, childVars, spawnVars>>

\* state.kill_process is not set yet.
NothingToKill(j) ==
    /\ scanner = "up"
    /\ target = j
    /\ runner[j] = "preparing"
    /\ killed' = [killed EXCEPT ![j] = TRUE]
    /\ target' = NoJob
    /\ UNCHANGED <<clock, cancelled, supervisor, scanner, runnerVars, handleVars, childVars,
                   spawnVars>>

Enter(j) ==
    /\ scanner = "up"
    /\ target = j
    /\ runner[j] # "preparing"
    /\ holder' = [holder EXCEPT ![j] = "supervisor"]
    /\ UNCHANGED <<handle, signal, runnerVars, notStop>>

\* (Faulty variant: kill() does not wait for the lock stop() holds.)
EnterKillUnlocked(j) == holder[j] # "supervisor" /\ Enter(j)

\* _WorkerHandle.kill takes the lock, ...
EnterKill(j) == holder[j] = "nobody" /\ Enter(j)

\* ... and sends SIGKILL to a child that was started and lives.
Kill(j) ==
    /\ scanner = "up"
    /\ holder[j] = "supervisor"
    /\ signal' = IF handle[j] = "open" /\ Alive(j) THEN [signal EXCEPT ![j] = "kill"] ELSE signal
    /\ holder' = [holder EXCEPT ![j] = "nobody"]
    /\ killed' = [killed EXCEPT ![j] = TRUE]
    /\ target' = NoJob
    /\ UNCHANGED <<handle, clock, cancelled, supervisor, scanner, runnerVars, childVars, spawnVars>>

\* The job-deadline watchdog's os._exit, SIGTERM or SIGKILL: no cleanup of any kind.
ScannerDies ==
    /\ scanner = "up"
    /\ scanner' = "down"
    /\ UNCHANGED <<clock, cancelled, killed, supervisor, target, runnerVars, handleVars,
                   childVars, spawnVars>>

----------------------------------------------------------------------------
RunnerNext(j) ==
    \/ Prepare(j) \/ PrepareFails(j) \/ CheckBeforeStart(j) \/ EnterSafePath(j)
    \/ StartProcess(j) \/ StartFails(j) \/ LeaveSafePath(j) \/ CheckAfterStart(j)
    \/ Receive(j) \/ Join(j) \/ Decode(j)
    \/ StopChild(j) \/ AfterTerm(j) \/ AfterKill(j) \/ Close(j)
    \/ AcceptResult(j) \/ RecordEntry(j) \/ Deliver(j) \/ RecordFailure(j) \/ CancelFailed(j)

ChildNext(j) ==
    \/ Arm(j) \/ PluginEnds(j) \/ Send(j) \/ LeaveWorker(j)
    \/ Crash(j) \/ DieOfSignal(j) \/ Watchdog(j)

KillNext(j) == NothingToKill(j) \/ EnterKill(j) \/ Kill(j)

Next ==
    \/ \E j \in Jobs : DeadlinePasses(j) \/ RunnerNext(j) \/ ChildNext(j)
                       \/ CancelJob(j) \/ KillNext(j)
    \/ ScannerDies

Spec == Init /\ [][Next]_vars

\* While the scanner is up, its threads run and time passes.  Nothing is assumed of the
\* plugin, of its watchdog, or of signals.
Fairness ==
    \A j \in Jobs : /\ WF_vars(scanner = "up" /\ DeadlinePasses(j))
                    /\ WF_vars(RunnerNext(j)) /\ WF_vars(KillNext(j))

FairSpec == Spec /\ Fairness

\* The child's own main and watchdog threads run.
ChildRuns == \A j \in Jobs : WF_vars(Arm(j)) /\ WF_vars(Watchdog(j))

----------------------------------------------------------------------------
(* Properties *)

\* A job returns a result only if its child sent all of a valid one and then exited by
\* itself with status 0, and never after it reported a failure; a job that returns none has
\* no export in the ledger.  The ledger has all of the result's exports, or the failure,
\* unless the supervisor gave the job up before it had returned: then the supervisor, which
\* accepts nothing of a job it gave up, accounts for the job.
\* (_run_plugin_process, _ExportLedger.record)
VerdictSound ==
    \A j \in Jobs : runner[j] = "returned" =>
        LET givenUp == killed[j] \/ target = j
        IN  /\ verdict[j] = "result" =>
                 /\ payload[j] = "valid" /\ sent[j] = "whole" /\ exit[j] = "zero"
                 /\ ledger[j] = "result" \/ (givenUp /\ ledger[j] # "failure")
            /\ verdict[j] = "discard" =>
                 ledger[j] = "failure" \/ (givenUp /\ ledger[j] = "nothing")

\* A kill is never lost: when the supervisor's kill is over and the child was not hit,
\* the job's own thread does not go on to wait for that child.
\* (the second look at cancelled after process.start())
NoLostKill ==
    \A j \in Jobs : killed[j] /\ Alive(j) /\ signal[j] # "kill" =>
        runner[j] \notin {"receiving", "joining", "decoding"}

\* The supervisor never looks into a process handle that is being closed: that would end
\* the scan with an AttributeError and no report.
\* (_WorkerHandle)
NoKillIntoClosing ==
    \A j \in Jobs : holder[j] = "supervisor" => handle[j] # "halfClosed"

\* A job that has returned leaves no child behind, except one that outlived SIGKILL.
\* (_stop in the finally clause, whatever ended the try block)
NoChildLeftBehind ==
    \A j \in Jobs : runner[j] = "returned" /\ Alive(j) => signal[j] = "kill" /\ handle[j] = "open"

\* Every child is spawned with PYTHONSAFEPATH=1, and the scanner's own environment is
\* back as soon as no spawn is under way.
\* (_safe_path_spawn)
SpawnEnvironmentSafe ==
    /\ \A j \in Jobs : child[j] # "none" => safePath[j]
    /\ (\A j \in Jobs : runner[j] \notin {"spawning", "restoring"}) => environ = "own"

\* A job's thread returns whatever its plugin does, unless the scanner dies.
\* (the deadline in every wait of _run_plugin_process, the bounded waits of _stop)
RunnerReturns == \A j \in Jobs : runner[j] = "checking" ~> runner[j] = "returned" \/ scanner = "down"

\* When the scanner is gone its children end if they run at all, and no deadline has to
\* pass for it: time is not assumed to go on.
\* (_exit_with_scanner: the parent sentinel)
OrphansEnd == ChildRuns => (scanner = "down" ~> \A j \in Jobs : ~Alive(j))

----------------------------------------------------------------------------
(* Refinement *)

\* A result counts as received once the try block is left with it.
Stage(j) ==
    IF runner[j] \in {"failed", "returned"} THEN runner[j]
    ELSE IF runner[j] \in {"recording", "completing"} THEN "delivering"
    ELSE IF verdict[j] = "result" THEN "received" ELSE "working"

Contract == INSTANCE IsolatedJobs WITH
    Exporting <- TRUE,
    stage <- [j \in Jobs |-> Stage(j)],
    late <- [j \in Jobs |-> Overdue(j)],
    recorded <- {j \in Jobs : ledger[j] # "nothing"}

\* Threads, processes and signals together do for each job what the engine relies on: a result
\* is received, and found fit to deliver, only in time and uncancelled; it is on record when it is
\* returned unless the job was cancelled meanwhile; one that was received is not lost without a
\* reason, and a failure is on record before the job cancels itself.
\* (_run_plugin_process)
ImplementsContract == Contract!Spec

=============================================================================
