-------------------------- MODULE PluginWorkerProofs ------------------------
(***************************************************************************)
(* Proofs about module PluginWorker, for any number of plugin jobs.        *)
(***************************************************************************)
EXTENDS PluginWorker, TLAPS

----------------------------------------------------------------------------
(* Who waits for whom *)

\* Who holds a lock does not wait for another: the wait for a signal to take effect has a limit.
Spawning == {"spawning", "restoring"}
Stopping == {"terminating", "killing", "closing"}

\* No thread of the scanner waits for one that waits itself.  A job that waits for the spawn
\* environment waits for another one that is about to give it back; one that waits to stop its
\* child, for a kill that is about to be sent, and it then finds a handle that it can use; and
\* the supervisor waits to kill only while the job is stopping its child.
\* (_SPAWN_ENVIRONMENT, _WorkerHandle)
WaitsEnd ==
    /\ \A j \in Jobs : runner[j] = "queueing" /\ spawnOwner # NoJob =>
         spawnOwner \in Jobs \ {j} /\ runner[spawnOwner] \in Spawning
    /\ \A j \in Jobs : runner[j] = "stopping" =>
         \/ holder[j] = "supervisor" /\ target = j
         \/ holder[j] = "nobody" /\ handle[j] \in {"unstarted", "open"}
    /\ target # NoJob /\ holder[target] = "runner" => runner[target] \in Stopping

----------------------------------------------------------------------------
(* The inductive invariant behind the safety properties *)

Early == {"preparing", "checking", "queueing", "spawning"}
Late == {"delivering", "recording", "completing", "failed", "returned"}

\* The environment belongs to the one job that is spawning.
SpawnInv ==
    /\ \A j \in Jobs : runner[j] \in {"spawning", "restoring"} <=> spawnOwner = j
    /\ environ = "safe" <=> spawnOwner # NoJob
    /\ \A j \in Jobs : child[j] # "none" => safePath[j]

\* Handle and lock of a job, by how far its thread has come.
HandleInv ==
    \A j \in Jobs :
        /\ handle[j] = "unstarted" <=> child[j] = "none"
        /\ runner[j] \in Early => child[j] = "none"
        /\ holder[j] = "runner" <=> runner[j] \in {"terminating", "killing", "closing"}
        /\ handle[j] = "halfClosed" <=> runner[j] = "closing"
        /\ handle[j] = "closed" => runner[j] \in Late
        /\ handle[j] \in {"halfClosed", "closed"} => child[j] = "gone"
        /\ holder[j] = "supervisor" => target = j /\ runner[j] # "preparing"
        /\ runner[j] = "killing" => signal[j] = "kill"
        /\ runner[j] \in Late /\ Alive(j) => signal[j] = "kill" /\ handle[j] = "open"
        /\ runner[j] \in {"rechecking", "receiving", "joining", "decoding", "terminating", "killing"} =>
             handle[j] = "open"
        /\ runner[j] = "restoring" => verdict[j] = "discard" \/ handle[j] = "open"

\* Whose cancellation it was, and what a finished kill leaves.
KillInv ==
    \A j \in Jobs :
        /\ cancelled[j] => killed[j] \/ target = j \/ runner[j] = "returned"
        /\ killed[j] \/ target = j => cancelled[j]
        /\ killed[j] /\ Alive(j) /\ signal[j] # "kill" =>
             runner[j] \notin {"receiving", "joining", "decoding"}

\* Verdict and ledger, by how far the job's thread and its child have come.
VerdictInv ==
    \A j \in Jobs :
        /\ sent[j] = "whole" => child[j] \in {"leaving", "gone"}
        /\ runner[j] \in {"joining", "decoding"} => sent[j] = "whole"
        /\ runner[j] = "decoding" => child[j] = "gone" /\ exit[j] = "zero"
        /\ verdict[j] = "result" =>
             /\ Abandoned(j)
             /\ child[j] = "gone" /\ payload[j] = "valid" /\ sent[j] = "whole" /\ exit[j] = "zero"
        /\ ledger[j] # "nothing" => runner[j] \in {"completing", "failed", "returned"}
        /\ ledger[j] \in {"part", "result"} => verdict[j] = "result"
        /\ ledger[j] = "failure" => verdict[j] = "discard"
        /\ runner[j] \in {"recording", "completing"} => verdict[j] = "result"
        /\ runner[j] = "failed" => verdict[j] = "discard"
        /\ runner[j] = "returned" /\ verdict[j] = "result" =>
             ledger[j] = "result" \/ killed[j] \/ target = j
        /\ runner[j] \in {"failed", "returned"} /\ verdict[j] = "discard" =>
             ledger[j] = "failure" \/ killed[j] \/ target = j

IInv == TypeOK /\ SpawnInv /\ HandleInv /\ KillInv /\ VerdictInv

----------------------------------------------------------------------------
(* Proofs *)

LEMMA InvariantInit == Init => IInv
BY NoJobAssumption
   DEF Init, IInv, TypeOK, SpawnInv, HandleInv, KillInv, VerdictInv, RunnerSteps, ChildSteps, Payloads,
       Early, Late, Alive, Abandoned

----------------------------------------------------------------------------
\* Every action keeps the types.
LEMMA TypeStep == TypeOK /\ [Next]_vars => TypeOK'
<1> SUFFICES ASSUME TypeOK, [Next]_vars PROVE TypeOK'
  OBVIOUS
<1> USE NoJobAssumption DEF TypeOK, RunnerSteps, ChildSteps, Payloads, RunnerStep, Leave, Ledger, ChildStep,
           runnerVars, handleVars, childVars, spawnVars, supVars, notRunner, notStop, notChild
<1>1. CASE UNCHANGED vars
  BY <1>1 DEF vars
<1>2. ASSUME NEW j \in Jobs, DeadlinePasses(j) PROVE TypeOK'
  BY <1>2 DEF DeadlinePasses
<1>3. ASSUME NEW j \in Jobs, RunnerNext(j) PROVE TypeOK'
  <2>1. CASE Prepare(j)
    BY <2>1 DEF Prepare
  <2>2. CASE PrepareFails(j)
    BY <2>2 DEF PrepareFails
  <2>3. CASE CheckBeforeStart(j)
    BY <2>3 DEF CheckBeforeStart
  <2>4. CASE EnterSafePath(j)
    BY <2>4 DEF EnterSafePath, SetSafePath
  <2>5. CASE StartProcess(j)
    BY <2>5 DEF StartProcess
  <2>6. CASE StartFails(j)
    BY <2>6 DEF StartFails
  <2>7. CASE LeaveSafePath(j)
    BY <2>7 DEF LeaveSafePath
  <2>8. CASE CheckAfterStart(j)
    BY <2>8 DEF CheckAfterStart
  <2>9. CASE Receive(j)
    BY <2>9 DEF Receive
  <2>10. CASE Join(j)
    BY <2>10 DEF Join
  <2>11. CASE Decode(j)
    BY <2>11 DEF Decode
  <2>12. CASE StopChild(j)
    BY <2>12 DEF StopChild, BeginClose
  <2>13. CASE AfterTerm(j)
    BY <2>13 DEF AfterTerm, BeginClose
  <2>14. CASE AfterKill(j)
    BY <2>14 DEF AfterKill, BeginClose
  <2>15. CASE Close(j)
    BY <2>15 DEF Close
  <2>16. CASE AcceptResult(j)
    BY <2>16 DEF AcceptResult
  <2>17. CASE RecordEntry(j)
    BY <2>17 DEF RecordEntry
  <2>18. CASE Deliver(j)
    BY <2>18 DEF Deliver
  <2>19. CASE RecordFailure(j)
    BY <2>19 DEF RecordFailure
  <2>20. CASE CancelFailed(j)
    BY <2>20 DEF CancelFailed
  <2> QED
    BY <1>3, <2>1, <2>2, <2>3, <2>4, <2>5, <2>6, <2>7, <2>8, <2>9, <2>10, <2>11, <2>12, <2>13,
       <2>14, <2>15, <2>16, <2>17, <2>18, <2>19, <2>20 DEF RunnerNext
<1>4. ASSUME NEW j \in Jobs, ChildNext(j) PROVE TypeOK'
  <2>1. CASE Arm(j)
    BY <2>1 DEF Arm
  <2>2. CASE PluginEnds(j)
    BY <2>2 DEF PluginEnds
  <2>3. CASE Send(j)
    BY <2>3 DEF Send
  <2>4. CASE LeaveWorker(j)
    BY <2>4 DEF LeaveWorker, Exit
  <2>5. CASE Crash(j)
    BY <2>5 DEF Crash, Exit
  <2>6. CASE DieOfSignal(j)
    BY <2>6 DEF DieOfSignal, Exit
  <2>7. CASE Watchdog(j)
    BY <2>7 DEF Watchdog, Exit
  <2> QED
    BY <1>4, <2>1, <2>2, <2>3, <2>4, <2>5, <2>6, <2>7 DEF ChildNext
<1>5. ASSUME NEW j \in Jobs, CancelJob(j) PROVE TypeOK'
  BY <1>5 DEF CancelJob
<1>6. ASSUME NEW j \in Jobs, KillNext(j) PROVE TypeOK'
  <2>1. CASE NothingToKill(j)
    BY <2>1 DEF NothingToKill
  <2>2. CASE EnterKill(j)
    BY <2>2 DEF EnterKill, Enter
  <2>3. CASE Kill(j)
    BY <2>3 DEF Kill
  <2> QED
    BY <1>6, <2>1, <2>2, <2>3 DEF KillNext
<1>7. CASE ScannerDies
  BY <1>7 DEF ScannerDies
<1> QED
  BY <1>1, <1>2, <1>3, <1>4, <1>5, <1>6, <1>7 DEF Next

----------------------------------------------------------------------------
\* The spawn environment has one owner at a time.
LEMMA SpawnStep == TypeOK /\ SpawnInv /\ [Next]_vars => SpawnInv'
<1> SUFFICES ASSUME TypeOK, SpawnInv, [Next]_vars PROVE SpawnInv'
  OBVIOUS
<1> USE NoJobAssumption DEF TypeOK, SpawnInv, RunnerStep, Leave, ChildStep,
           runnerVars, handleVars, childVars, spawnVars, supVars, notRunner, notStop, notChild
<1>1. CASE UNCHANGED vars
  BY <1>1 DEF vars
<1>2. ASSUME NEW j \in Jobs, DeadlinePasses(j) PROVE SpawnInv'
  BY <1>2 DEF DeadlinePasses
<1>3. ASSUME NEW j \in Jobs, RunnerNext(j) PROVE SpawnInv'
  <2>1. CASE Prepare(j)
    BY <2>1 DEF Prepare
  <2>2. CASE PrepareFails(j)
    BY <2>2 DEF PrepareFails
  <2>3. CASE CheckBeforeStart(j)
    BY <2>3 DEF CheckBeforeStart
  <2>4. CASE EnterSafePath(j)
    BY <2>4 DEF EnterSafePath, SetSafePath
  <2>5. CASE StartProcess(j)
    <3>1. environ = "safe" /\ spawnOwner = j
      BY <2>5 DEF StartProcess
    <3>2. safePath'[j] /\ \A i \in Jobs \ {j} : safePath'[i] = safePath[i] /\ child'[i] = child[i]
      BY <2>5, <3>1 DEF StartProcess
    <3> QED
      BY <2>5, <3>1, <3>2 DEF StartProcess
  <2>6. CASE StartFails(j)
    BY <2>6 DEF StartFails
  <2>7. CASE LeaveSafePath(j)
    BY <2>7 DEF LeaveSafePath
  <2>8. CASE CheckAfterStart(j)
    BY <2>8 DEF CheckAfterStart
  <2>9. CASE Receive(j)
    BY <2>9 DEF Receive
  <2>10. CASE Join(j)
    BY <2>10 DEF Join
  <2>11. CASE Decode(j)
    BY <2>11 DEF Decode
  <2>12. CASE StopChild(j)
    BY <2>12 DEF StopChild, BeginClose
  <2>13. CASE AfterTerm(j)
    BY <2>13 DEF AfterTerm, BeginClose
  <2>14. CASE AfterKill(j)
    BY <2>14 DEF AfterKill, BeginClose
  <2>15. CASE Close(j)
    BY <2>15 DEF Close
  <2>16. CASE AcceptResult(j)
    BY <2>16 DEF AcceptResult
  <2>17. CASE RecordEntry(j)
    BY <2>17 DEF RecordEntry
  <2>18. CASE Deliver(j)
    BY <2>18 DEF Deliver
  <2>19. CASE RecordFailure(j)
    BY <2>19 DEF RecordFailure
  <2>20. CASE CancelFailed(j)
    BY <2>20 DEF CancelFailed
  <2> QED
    BY <1>3, <2>1, <2>2, <2>3, <2>4, <2>5, <2>6, <2>7, <2>8, <2>9, <2>10, <2>11, <2>12, <2>13,
       <2>14, <2>15, <2>16, <2>17, <2>18, <2>19, <2>20 DEF RunnerNext
<1>4. ASSUME NEW j \in Jobs, ChildNext(j) PROVE SpawnInv'
  <2>1. CASE Arm(j)
    BY <2>1 DEF Arm
  <2>2. CASE PluginEnds(j)
    BY <2>2 DEF PluginEnds
  <2>3. CASE Send(j)
    BY <2>3 DEF Send
  <2>4. CASE LeaveWorker(j)
    BY <2>4 DEF LeaveWorker, Exit
  <2>5. CASE Crash(j)
    BY <2>5 DEF Crash, Exit
  <2>6. CASE DieOfSignal(j)
    BY <2>6 DEF DieOfSignal, Exit, Alive
  <2>7. CASE Watchdog(j)
    BY <2>7 DEF Watchdog, Exit
  <2> QED
    BY <1>4, <2>1, <2>2, <2>3, <2>4, <2>5, <2>6, <2>7 DEF ChildNext
<1>5. ASSUME NEW j \in Jobs, CancelJob(j) PROVE SpawnInv'
  BY <1>5 DEF CancelJob
<1>6. ASSUME NEW j \in Jobs, KillNext(j) PROVE SpawnInv'
  <2>1. CASE NothingToKill(j)
    BY <2>1 DEF NothingToKill
  <2>2. CASE EnterKill(j)
    BY <2>2 DEF EnterKill, Enter
  <2>3. CASE Kill(j)
    BY <2>3 DEF Kill
  <2> QED
    BY <1>6, <2>1, <2>2, <2>3 DEF KillNext
<1>7. CASE ScannerDies
  BY <1>7 DEF ScannerDies
<1> QED
  BY <1>1, <1>2, <1>3, <1>4, <1>5, <1>6, <1>7 DEF Next

----------------------------------------------------------------------------
\* The process handle, its lock and the child go together.
LEMMA HandleStep == TypeOK /\ HandleInv /\ [Next]_vars => HandleInv'
<1> SUFFICES ASSUME TypeOK, HandleInv, [Next]_vars PROVE HandleInv'
  OBVIOUS
<1> USE NoJobAssumption DEF TypeOK, HandleInv, Early, Late, Alive, RunnerStep, Leave, ChildStep,
           runnerVars, handleVars, childVars, spawnVars, supVars, notRunner, notStop, notChild
<1>1. CASE UNCHANGED vars
  BY <1>1 DEF vars
<1>2. ASSUME NEW j \in Jobs, DeadlinePasses(j) PROVE HandleInv'
  BY <1>2 DEF DeadlinePasses
<1>3. ASSUME NEW j \in Jobs, RunnerNext(j) PROVE HandleInv'
  <2>1. CASE Prepare(j)
    BY <2>1 DEF Prepare
  <2>2. CASE PrepareFails(j)
    BY <2>2 DEF PrepareFails
  <2>3. CASE CheckBeforeStart(j)
    BY <2>3 DEF CheckBeforeStart
  <2>4. CASE EnterSafePath(j)
    BY <2>4 DEF EnterSafePath, SetSafePath
  <2>5. CASE StartProcess(j)
    BY <2>5 DEF StartProcess
  <2>6. CASE StartFails(j)
    BY <2>6 DEF StartFails
  <2>7. CASE LeaveSafePath(j)
    BY <2>7 DEF LeaveSafePath
  <2>8. CASE CheckAfterStart(j)
    BY <2>8 DEF CheckAfterStart
  <2>9. CASE Receive(j)
    BY <2>9 DEF Receive
  <2>10. CASE Join(j)
    BY <2>10 DEF Join
  <2>11. CASE Decode(j)
    BY <2>11 DEF Decode
  <2>12. CASE StopChild(j)
    BY <2>12 DEF StopChild, BeginClose
  <2>13. CASE AfterTerm(j)
    BY <2>13 DEF AfterTerm, BeginClose
  <2>14. CASE AfterKill(j)
    BY <2>14 DEF AfterKill, BeginClose
  <2>15. CASE Close(j)
    BY <2>15 DEF Close
  <2>16. CASE AcceptResult(j)
    BY <2>16 DEF AcceptResult
  <2>17. CASE RecordEntry(j)
    BY <2>17 DEF RecordEntry
  <2>18. CASE Deliver(j)
    BY <2>18 DEF Deliver
  <2>19. CASE RecordFailure(j)
    BY <2>19 DEF RecordFailure
  <2>20. CASE CancelFailed(j)
    BY <2>20 DEF CancelFailed
  <2> QED
    BY <1>3, <2>1, <2>2, <2>3, <2>4, <2>5, <2>6, <2>7, <2>8, <2>9, <2>10, <2>11, <2>12, <2>13,
       <2>14, <2>15, <2>16, <2>17, <2>18, <2>19, <2>20 DEF RunnerNext
<1>4. ASSUME NEW j \in Jobs, ChildNext(j) PROVE HandleInv'
  <2>1. CASE Arm(j)
    BY <2>1 DEF Arm
  <2>2. CASE PluginEnds(j)
    BY <2>2 DEF PluginEnds
  <2>3. CASE Send(j)
    BY <2>3 DEF Send
  <2>4. CASE LeaveWorker(j)
    BY <2>4 DEF LeaveWorker, Exit
  <2>5. CASE Crash(j)
    BY <2>5 DEF Crash, Exit
  <2>6. CASE DieOfSignal(j)
    BY <2>6 DEF DieOfSignal, Exit
  <2>7. CASE Watchdog(j)
    BY <2>7 DEF Watchdog, Exit
  <2> QED
    BY <1>4, <2>1, <2>2, <2>3, <2>4, <2>5, <2>6, <2>7 DEF ChildNext
<1>5. ASSUME NEW j \in Jobs, CancelJob(j) PROVE HandleInv'
  BY <1>5 DEF CancelJob
<1>6. ASSUME NEW j \in Jobs, KillNext(j) PROVE HandleInv'
  <2>1. CASE NothingToKill(j)
    BY <2>1 DEF NothingToKill
  <2>2. CASE EnterKill(j)
    BY <2>2 DEF EnterKill, Enter
  <2>3. CASE Kill(j)
    BY <2>3 DEF Kill
  <2> QED
    BY <1>6, <2>1, <2>2, <2>3 DEF KillNext
<1>7. CASE ScannerDies
  BY <1>7 DEF ScannerDies
<1> QED
  BY <1>1, <1>2, <1>3, <1>4, <1>5, <1>6, <1>7 DEF Next

----------------------------------------------------------------------------
\* What is known of a job once its kill is over.
LEMMA KillStep == TypeOK /\ HandleInv /\ KillInv /\ [Next]_vars => KillInv'
<1> SUFFICES ASSUME TypeOK, HandleInv, KillInv, [Next]_vars PROVE KillInv'
  OBVIOUS
<1> USE NoJobAssumption DEF TypeOK, HandleInv, KillInv, Early, Late, Alive, RunnerStep, Leave, ChildStep,
           runnerVars, handleVars, childVars, spawnVars, supVars, notRunner, notStop, notChild
<1>1. CASE UNCHANGED vars
  BY <1>1 DEF vars
<1>2. ASSUME NEW j \in Jobs, DeadlinePasses(j) PROVE KillInv'
  BY <1>2 DEF DeadlinePasses
<1>3. ASSUME NEW j \in Jobs, RunnerNext(j) PROVE KillInv'
  <2>1. CASE Prepare(j)
    BY <2>1 DEF Prepare
  <2>2. CASE PrepareFails(j)
    BY <2>2 DEF PrepareFails
  <2>3. CASE CheckBeforeStart(j)
    BY <2>3 DEF CheckBeforeStart
  <2>4. CASE EnterSafePath(j)
    BY <2>4 DEF EnterSafePath, SetSafePath
  <2>5. CASE StartProcess(j)
    BY <2>5 DEF StartProcess
  <2>6. CASE StartFails(j)
    BY <2>6 DEF StartFails
  <2>7. CASE LeaveSafePath(j)
    BY <2>7 DEF LeaveSafePath
  <2>8. CASE CheckAfterStart(j)
    BY <2>8 DEF CheckAfterStart
  <2>9. CASE Receive(j)
    BY <2>9 DEF Receive
  <2>10. CASE Join(j)
    BY <2>10 DEF Join
  <2>11. CASE Decode(j)
    BY <2>11 DEF Decode
  <2>12. CASE StopChild(j)
    BY <2>12 DEF StopChild, BeginClose
  <2>13. CASE AfterTerm(j)
    BY <2>13 DEF AfterTerm, BeginClose
  <2>14. CASE AfterKill(j)
    BY <2>14 DEF AfterKill, BeginClose
  <2>15. CASE Close(j)
    BY <2>15 DEF Close
  <2>16. CASE AcceptResult(j)
    BY <2>16 DEF AcceptResult
  <2>17. CASE RecordEntry(j)
    BY <2>17 DEF RecordEntry
  <2>18. CASE Deliver(j)
    BY <2>18 DEF Deliver
  <2>19. CASE RecordFailure(j)
    BY <2>19 DEF RecordFailure
  <2>20. CASE CancelFailed(j)
    BY <2>20 DEF CancelFailed
  <2> QED
    BY <1>3, <2>1, <2>2, <2>3, <2>4, <2>5, <2>6, <2>7, <2>8, <2>9, <2>10, <2>11, <2>12, <2>13,
       <2>14, <2>15, <2>16, <2>17, <2>18, <2>19, <2>20 DEF RunnerNext
<1>4. ASSUME NEW j \in Jobs, ChildNext(j) PROVE KillInv'
  <2>1. CASE Arm(j)
    BY <2>1 DEF Arm
  <2>2. CASE PluginEnds(j)
    BY <2>2 DEF PluginEnds
  <2>3. CASE Send(j)
    BY <2>3 DEF Send
  <2>4. CASE LeaveWorker(j)
    BY <2>4 DEF LeaveWorker, Exit
  <2>5. CASE Crash(j)
    BY <2>5 DEF Crash, Exit
  <2>6. CASE DieOfSignal(j)
    BY <2>6 DEF DieOfSignal, Exit
  <2>7. CASE Watchdog(j)
    BY <2>7 DEF Watchdog, Exit
  <2> QED
    BY <1>4, <2>1, <2>2, <2>3, <2>4, <2>5, <2>6, <2>7 DEF ChildNext
<1>5. ASSUME NEW j \in Jobs, CancelJob(j) PROVE KillInv'
  BY <1>5 DEF CancelJob
<1>6. ASSUME NEW j \in Jobs, KillNext(j) PROVE KillInv'
  <2>1. CASE NothingToKill(j)
    BY <2>1 DEF NothingToKill
  <2>2. CASE EnterKill(j)
    BY <2>2 DEF EnterKill, Enter
  <2>3. CASE Kill(j)
    BY <2>3 DEF Kill
  <2> QED
    BY <1>6, <2>1, <2>2, <2>3 DEF KillNext
<1>7. CASE ScannerDies
  BY <1>7 DEF ScannerDies
<1> QED
  BY <1>1, <1>2, <1>3, <1>4, <1>5, <1>6, <1>7 DEF Next

----------------------------------------------------------------------------
\* Verdict, ledger and message of a job.
LEMMA VerdictStep == TypeOK /\ HandleInv /\ KillInv /\ VerdictInv /\ [Next]_vars => VerdictInv'
<1> SUFFICES ASSUME TypeOK, HandleInv, KillInv, VerdictInv, [Next]_vars PROVE VerdictInv'
  OBVIOUS
<1> USE NoJobAssumption DEF TypeOK, VerdictInv, Abandoned, Ledger, RunnerStep, Leave, ChildStep,
           runnerVars, handleVars, childVars, spawnVars, supVars, notRunner, notStop, notChild
<1>1. CASE UNCHANGED vars
  BY <1>1 DEF vars
<1>2. ASSUME NEW j \in Jobs, DeadlinePasses(j) PROVE VerdictInv'
  BY <1>2 DEF DeadlinePasses
<1>3. ASSUME NEW j \in Jobs, RunnerNext(j) PROVE VerdictInv'
  <2>1. CASE Prepare(j)
    BY <2>1 DEF Prepare
  <2>2. CASE PrepareFails(j)
    BY <2>2 DEF PrepareFails, KillInv
  <2>3. CASE CheckBeforeStart(j)
    BY <2>3 DEF CheckBeforeStart
  <2>4. CASE EnterSafePath(j)
    BY <2>4 DEF EnterSafePath, SetSafePath
  <2>5. CASE StartProcess(j)
    BY <2>5 DEF StartProcess, HandleInv, Early
  <2>6. CASE StartFails(j)
    BY <2>6 DEF StartFails
  <2>7. CASE LeaveSafePath(j)
    BY <2>7 DEF LeaveSafePath
  <2>8. CASE CheckAfterStart(j)
    BY <2>8 DEF CheckAfterStart
  <2>9. CASE Receive(j)
    BY <2>9 DEF Receive
  <2>10. CASE Join(j)
    BY <2>10 DEF Join
  <2>11. CASE Decode(j)
    BY <2>11 DEF Decode
  <2>12. CASE StopChild(j)
    BY <2>12 DEF StopChild, BeginClose
  <2>13. CASE AfterTerm(j)
    BY <2>13 DEF AfterTerm, BeginClose
  <2>14. CASE AfterKill(j)
    BY <2>14 DEF AfterKill, BeginClose
  <2>15. CASE Close(j)
    BY <2>15 DEF Close
  <2>16. CASE AcceptResult(j)
    BY <2>16 DEF AcceptResult
  <2>17. CASE RecordEntry(j)
    BY <2>17 DEF RecordEntry
  <2>18. CASE Deliver(j)
    BY <2>18 DEF Deliver, KillInv
  <2>19. CASE RecordFailure(j)
    BY <2>19 DEF RecordFailure, KillInv
  <2>20. CASE CancelFailed(j)
    BY <2>20 DEF CancelFailed
  <2> QED
    BY <1>3, <2>1, <2>2, <2>3, <2>4, <2>5, <2>6, <2>7, <2>8, <2>9, <2>10, <2>11, <2>12, <2>13,
       <2>14, <2>15, <2>16, <2>17, <2>18, <2>19, <2>20 DEF RunnerNext
<1>4. ASSUME NEW j \in Jobs, ChildNext(j) PROVE VerdictInv'
  <2>1. CASE Arm(j)
    BY <2>1 DEF Arm
  <2>2. CASE PluginEnds(j)
    BY <2>2 DEF PluginEnds
  <2>3. CASE Send(j)
    BY <2>3 DEF Send
  <2>4. CASE LeaveWorker(j)
    BY <2>4 DEF LeaveWorker, Exit
  <2>5. CASE Crash(j)
    BY <2>5 DEF Crash, Exit
  <2>6. CASE DieOfSignal(j)
    BY <2>6 DEF DieOfSignal, Exit, Alive
  <2>7. CASE Watchdog(j)
    BY <2>7 DEF Watchdog, Exit
  <2> QED
    BY <1>4, <2>1, <2>2, <2>3, <2>4, <2>5, <2>6, <2>7 DEF ChildNext
<1>5. ASSUME NEW j \in Jobs, CancelJob(j) PROVE VerdictInv'
  BY <1>5 DEF CancelJob
<1>6. ASSUME NEW j \in Jobs, KillNext(j) PROVE VerdictInv'
  <2>1. CASE NothingToKill(j)
    BY <2>1 DEF NothingToKill
  <2>2. CASE EnterKill(j)
    BY <2>2 DEF EnterKill, Enter
  <2>3. CASE Kill(j)
    BY <2>3 DEF Kill, HandleInv
  <2> QED
    BY <1>6, <2>1, <2>2, <2>3 DEF KillNext
<1>7. CASE ScannerDies
  BY <1>7 DEF ScannerDies
<1> QED
  BY <1>1, <1>2, <1>3, <1>4, <1>5, <1>6, <1>7 DEF Next

----------------------------------------------------------------------------
(* The theorems *)

LEMMA InvariantStep == IInv /\ [Next]_vars => IInv'
BY TypeStep, SpawnStep, HandleStep, KillStep, VerdictStep DEF IInv

\* The invariant holds of every run of the scanner.
THEOREM Invariance == Spec => []IInv
BY InvariantInit, InvariantStep, PTL DEF Spec

\* The worker protocol is type-correct.
THEOREM TypeCorrect == Spec => []TypeOK
<1>1. IInv => TypeOK
  BY DEF IInv
<1> QED
  BY <1>1, Invariance, PTL

\* Results are genuine and failures are on record.
THEOREM VerdictsAreSound == Spec => []VerdictSound
<1>1. IInv => VerdictSound
  BY DEF IInv, TypeOK, VerdictInv, VerdictSound
<1> QED
  BY <1>1, Invariance, PTL

\* No kill is lost between two looks at the cancellation.
THEOREM KillsAreNotLost == Spec => []NoLostKill
<1>1. IInv => NoLostKill
  BY DEF IInv, KillInv, NoLostKill
<1> QED
  BY <1>1, Invariance, PTL

\* No kill meets a handle that is being closed.
THEOREM KillsMissClosingHandles == Spec => []NoKillIntoClosing
<1>1. IInv => NoKillIntoClosing
  BY DEF IInv, TypeOK, HandleInv, NoKillIntoClosing
<1> QED
  BY <1>1, Invariance, PTL

\* No returned job leaves a child it did not try to kill.
THEOREM ChildrenAreStopped == Spec => []NoChildLeftBehind
<1>1. IInv => NoChildLeftBehind
  BY DEF IInv, HandleInv, Late, NoChildLeftBehind
<1> QED
  BY <1>1, Invariance, PTL

\* Children are spawned with the safe path, and the scanner's environment comes back.
THEOREM SpawnsAreSafe == Spec => []SpawnEnvironmentSafe
<1>1. IInv => SpawnEnvironmentSafe
  BY NoJobAssumption DEF IInv, TypeOK, SpawnInv, SpawnEnvironmentSafe
<1> QED
  BY <1>1, Invariance, PTL

\* The locks of the spawn environment and of the process handles are never waited for in a
\* circle, for any number of jobs.  (_SPAWN_ENVIRONMENT, _WorkerHandle)
THEOREM LocksComeFree == Spec => []WaitsEnd
<1>1. IInv => WaitsEnd
  <2> SUFFICES ASSUME IInv PROVE WaitsEnd
    OBVIOUS
  <2> USE DEF IInv, TypeOK
  <2>1. ASSUME NEW j \in Jobs, runner[j] = "queueing", spawnOwner # NoJob
        PROVE  spawnOwner \in Jobs \ {j} /\ runner[spawnOwner] \in Spawning
    BY <2>1 DEF SpawnInv, Spawning
  <2>2. ASSUME NEW j \in Jobs, runner[j] = "stopping"
        PROVE  \/ holder[j] = "supervisor" /\ target = j
               \/ holder[j] = "nobody" /\ handle[j] \in {"unstarted", "open"}
    BY <2>2 DEF HandleInv, Late
  <2>3. target # NoJob /\ holder[target] = "runner" => runner[target] \in Stopping
    BY DEF HandleInv, Stopping
  <2> QED
    BY <2>1, <2>2, <2>3 DEF WaitsEnd
<1> QED
  BY <1>1, Invariance, PTL

----------------------------------------------------------------------------
(* The refinement of the contract of isolated jobs *)

LEMMA ContractInit == Init => Contract!Init
<1> SUFFICES ASSUME Init PROVE Contract!Init
  OBVIOUS
<1>1. \A j \in Jobs : Stage(j) = "working" /\ ledger[j] = "nothing"
  BY DEF Init, Stage
<1>2. [j \in Jobs |-> Stage(j)] \in [Jobs -> {"idle", "working"}]
  BY <1>1
<1>3. [j \in Jobs |-> Overdue(j)] = [j \in Jobs |-> FALSE]
  <2>1. ASSUME NEW j \in Jobs PROVE Overdue(j) = FALSE
    <3>1. clock[j] = 0
      BY DEF Init
    <3>2. ~(0 >= 1)
      OBVIOUS
    <3> QED
      BY <3>1, <3>2 DEF Overdue
  <2> QED
    BY <2>1, Zenon
<1>4. {j \in Jobs : ledger[j] # "nothing"} = {}
  BY <1>1
<1> QED
  BY <1>2, <1>3, <1>4 DEF Init, Contract!Init

\* A step that changes neither the clocks, the cancellations and the ledger nor how far any job
\* has come on the contract's scale is a stutter.
LEMMA ContractStutters ==
    ASSUME UNCHANGED <<clock, cancelled, ledger>>, \A j \in Jobs : Stage(j)' = Stage(j)
    PROVE  UNCHANGED Contract!vars
BY DEF Contract!vars, Overdue

\* A runner's step as the contract sees it: the job's stage moves on, nobody else's does.
LEMMA ContractAdvance ==
    ASSUME NEW j \in Jobs, UNCHANGED clock, NEW from, NEW to, Stage(j) = from, Stage(j)' = to,
           \A i \in Jobs \ {j} : runner'[i] = runner[i] /\ verdict'[i] = verdict[i]
    PROVE  /\ Contract!Advance(j, from, to)
           /\ [i \in Jobs |-> Overdue(i)]' = [i \in Jobs |-> Overdue(i)]
<1>1. \A i \in Jobs \ {j} : Stage(i)' = Stage(i)
  BY DEF Stage
<1>2. [i \in Jobs |-> Stage(i)]' = [[i \in Jobs |-> Stage(i)] EXCEPT ![j] = to]
  BY <1>1
<1> QED
  BY <1>2 DEF Contract!Advance, Overdue

\* What the ledger takes from one job, as the contract sees it.
LEMMA ContractRecords ==
    ASSUME TypeOK, NEW j \in Jobs, NEW entry \in {"part", "result", "failure"}, ledger' = Ledger(j, entry)
    PROVE  {i \in Jobs : ledger[i] # "nothing"}'
             = IF cancelled[j] THEN {i \in Jobs : ledger[i] # "nothing"}
               ELSE {i \in Jobs : ledger[i] # "nothing"} \cup {j}
BY DEF TypeOK, Ledger

LEMMA ContractStep == IInv /\ [Next]_vars => [Contract!Next]_(Contract!vars)
<1> SUFFICES ASSUME IInv, [Next]_vars PROVE Contract!Next \/ UNCHANGED Contract!vars
  OBVIOUS
<1>0. TypeOK /\ VerdictInv
  BY DEF IInv
<1> USE <1>0 DEF RunnerStep, Leave, ChildStep,
           runnerVars, handleVars, childVars, spawnVars, supVars, notRunner, notStop, notChild
<1>1. CASE UNCHANGED vars
  BY <1>1, ContractStutters DEF vars, Stage
<1>2. ASSUME NEW j \in Jobs, DeadlinePasses(j) PROVE Contract!DeadlinePasses(j) \/ UNCHANGED Contract!vars
  <2>1. UNCHANGED <<runner, verdict, ledger, cancelled>>
    BY <1>2 DEF DeadlinePasses
  <2>2. \A i \in Jobs : Stage(i)' = Stage(i)
    BY <2>1 DEF Stage
  <2>3. Overdue(j)' /\ \A i \in Jobs \ {j} : Overdue(i)' = Overdue(i)
    BY <1>2 DEF DeadlinePasses, TypeOK, Overdue
  <2> QED
    BY <2>1, <2>2, <2>3 DEF Contract!DeadlinePasses
<1>3. ASSUME NEW j \in Jobs, RunnerNext(j) PROVE Contract!Next \/ UNCHANGED Contract!vars
  <2>1. CASE Prepare(j)
    BY <2>1, ContractStutters DEF Prepare, TypeOK, VerdictInv, Abandoned, Stage
  <2>2. CASE PrepareFails(j)
    <3>1. Stage(j) = "working" /\ Stage(j)' = "failed"
      BY <2>2 DEF PrepareFails, TypeOK, VerdictInv, Abandoned, Stage
    <3>2. /\ ledger' = Ledger(j, "failure") /\ UNCHANGED <<clock, cancelled>>
          /\ \A i \in Jobs \ {j} : runner'[i] = runner[i] /\ verdict'[i] = verdict[i]
      BY <2>2 DEF PrepareFails, TypeOK
    <3>3. Contract!Fail(j)
      BY <3>1, <3>2, ContractAdvance, ContractRecords DEF Contract!Fail
    <3> QED
      BY <3>3 DEF Contract!Next
  <2>3. CASE CheckBeforeStart(j)
    BY <2>3, ContractStutters DEF CheckBeforeStart, TypeOK, VerdictInv, Abandoned, Stage
  <2>4. CASE EnterSafePath(j)
    BY <2>4, ContractStutters DEF EnterSafePath, SetSafePath, TypeOK, VerdictInv, Abandoned, Stage
  <2>5. CASE StartProcess(j)
    BY <2>5, ContractStutters DEF StartProcess, TypeOK, VerdictInv, Abandoned, Stage
  <2>6. CASE StartFails(j)
    BY <2>6, ContractStutters DEF StartFails, TypeOK, VerdictInv, Abandoned, Stage
  <2>7. CASE LeaveSafePath(j)
    BY <2>7, ContractStutters DEF LeaveSafePath, TypeOK, VerdictInv, Abandoned, Stage
  <2>8. CASE CheckAfterStart(j)
    BY <2>8, ContractStutters DEF CheckAfterStart, TypeOK, VerdictInv, Abandoned, Stage
  <2>9. CASE Receive(j)
    BY <2>9, ContractStutters DEF Receive, TypeOK, VerdictInv, Abandoned, Stage
  <2>10. CASE Join(j)
    BY <2>10, ContractStutters DEF Join, TypeOK, VerdictInv, Abandoned, Stage
  <2>11. CASE Decode(j)
    <3>1. /\ Stage(j) = "working" /\ UNCHANGED <<clock, cancelled, ledger>>
          /\ \A i \in Jobs \ {j} : runner'[i] = runner[i] /\ verdict'[i] = verdict[i]
      BY <2>11 DEF Decode, TypeOK, VerdictInv, Abandoned, Stage
    <3>2. CASE verdict'[j] = "result"
      <4>1. Stage(j)' = "received" /\ ~Overdue(j) /\ ~cancelled[j]
        BY <2>11, <3>2 DEF Decode, TypeOK, Stage
      <4>2. Contract!Receive(j)
        BY <3>1, <4>1, ContractAdvance DEF Contract!Receive, Contract!Live
      <4> QED
        BY <4>2 DEF Contract!Next
    <3>3. CASE verdict'[j] # "result"
      BY <2>11, <3>1, <3>3, ContractStutters DEF Decode, TypeOK, Stage
    <3> QED
      BY <3>2, <3>3
  <2>12. CASE StopChild(j)
    BY <2>12, ContractStutters DEF StopChild, BeginClose, TypeOK, VerdictInv, Abandoned, Stage
  <2>13. CASE AfterTerm(j)
    BY <2>13, ContractStutters DEF AfterTerm, BeginClose, TypeOK, VerdictInv, Abandoned, Stage
  <2>14. CASE AfterKill(j)
    BY <2>14, ContractStutters DEF AfterKill, BeginClose, TypeOK, VerdictInv, Abandoned, Alive, Stage
  <2>15. CASE Close(j)
    BY <2>15, ContractStutters DEF Close, TypeOK, VerdictInv, Abandoned, Stage
  <2>16. CASE AcceptResult(j)
    <3>1. /\ Stage(j) = "received" /\ Stage(j)' = "delivering" /\ ~Overdue(j) /\ ~cancelled[j]
          /\ UNCHANGED <<clock, cancelled, ledger>>
          /\ \A i \in Jobs \ {j} : runner'[i] = runner[i] /\ verdict'[i] = verdict[i]
      BY <2>16 DEF AcceptResult, TypeOK, Stage
    <3>2. Contract!Accept(j)
      BY <3>1, ContractAdvance DEF Contract!Accept, Contract!Live
    <3> QED
      BY <3>2 DEF Contract!Next
  <2>17. CASE RecordEntry(j)
    <3>1. /\ Stage(j) = "delivering" /\ ledger' = Ledger(j, "part") /\ UNCHANGED <<clock, cancelled>>
          /\ \A i \in Jobs : Stage(i)' = Stage(i)
      BY <2>17 DEF RecordEntry, TypeOK, Stage
    <3>2. Contract!Record(j)
      BY <3>1, ContractRecords DEF Contract!Record, Contract!Entry, Overdue
    <3> QED
      BY <3>2 DEF Contract!Next
  <2>18. CASE Deliver(j)
    <3>1. Stage(j) = "delivering" /\ Stage(j)' = "returned"
      BY <2>18 DEF Deliver, TypeOK, Stage
    <3>2. /\ ledger' = Ledger(j, "result") /\ UNCHANGED <<clock, cancelled>>
          /\ \A i \in Jobs \ {j} : runner'[i] = runner[i] /\ verdict'[i] = verdict[i]
      BY <2>18 DEF Deliver, TypeOK
    <3>3. Contract!Deliver(j)
      BY <3>1, <3>2, ContractAdvance, ContractRecords DEF Contract!Deliver, Contract!Entry
    <3> QED
      BY <3>3 DEF Contract!Next
  <2>19. CASE RecordFailure(j)
    <3>1. /\ Stage(j) \in {"working", "received"} /\ Stage(j)' = "failed"
          /\ Stage(j) = "received" => Overdue(j) \/ cancelled[j]
      BY <2>19 DEF RecordFailure, TypeOK, Stage
    <3>2. /\ ledger' = Ledger(j, "failure") /\ UNCHANGED <<clock, cancelled>>
          /\ \A i \in Jobs \ {j} : runner'[i] = runner[i] /\ verdict'[i] = verdict[i]
      BY <2>19 DEF RecordFailure, TypeOK
    <3>3. Contract!Fail(j)
      BY <3>1, <3>2, ContractAdvance, ContractRecords DEF Contract!Fail, Contract!Live
    <3> QED
      BY <3>3 DEF Contract!Next
  <2>20. CASE CancelFailed(j)
    <3>1. /\ Stage(j) = "failed" /\ Stage(j)' = "returned" /\ UNCHANGED <<clock, ledger>>
          /\ cancelled' = [cancelled EXCEPT ![j] = TRUE]
          /\ \A i \in Jobs \ {j} : runner'[i] = runner[i] /\ verdict'[i] = verdict[i]
      BY <2>20 DEF CancelFailed, TypeOK, Stage
    <3>2. Contract!CancelFailed(j)
      BY <3>1, ContractAdvance DEF Contract!CancelFailed
    <3> QED
      BY <3>2 DEF Contract!Next
  <2> QED
    BY <1>3, <2>1, <2>2, <2>3, <2>4, <2>5, <2>6, <2>7, <2>8, <2>9, <2>10, <2>11, <2>12, <2>13,
       <2>14, <2>15, <2>16, <2>17, <2>18, <2>19, <2>20 DEF RunnerNext
<1>4. ASSUME NEW j \in Jobs, ChildNext(j) PROVE UNCHANGED Contract!vars
  <2>1. UNCHANGED <<runner, verdict, ledger, clock, cancelled>>
    BY <1>4 DEF ChildNext, Arm, PluginEnds, Send, LeaveWorker, Crash, DieOfSignal, Watchdog, Exit
  <2> QED
    BY <2>1, ContractStutters DEF Stage
<1>5. ASSUME NEW j \in Jobs, CancelJob(j) PROVE Contract!Cancel({j})
  <2>1. UNCHANGED <<runner, verdict, ledger, clock>>
    BY <1>5 DEF CancelJob
  <2>2. cancelled' = [i \in Jobs |-> cancelled[i] \/ i \in {j}]
    BY <1>5 DEF CancelJob, TypeOK
  <2> QED
    BY <2>1, <2>2 DEF Contract!Cancel, Stage, Overdue
<1>6. ASSUME NEW j \in Jobs, KillNext(j) PROVE UNCHANGED Contract!vars
  <2>1. UNCHANGED <<runner, verdict, ledger, clock, cancelled>>
    BY <1>6 DEF KillNext, NothingToKill, EnterKill, Enter, Kill
  <2> QED
    BY <2>1, ContractStutters DEF Stage
<1>7. CASE ScannerDies
  BY <1>7, ContractStutters DEF ScannerDies, Stage
<1> QED
  BY <1>1, <1>2, <1>3, <1>4, <1>5, <1>6, <1>7 DEF Next, Contract!Next

\* The process backend keeps the contract of isolated jobs, for any number of jobs and any
\* behaviour of their children: each step of threads, children and supervisor is a step of the
\* contract or none.
THEOREM WorkersKeepContract == Spec => ImplementsContract
BY ContractInit, ContractStep, Invariance, PTL DEF Spec, ImplementsContract, Contract!Spec

----------------------------------------------------------------------------
(* How long a job's thread and its child take *)

\* The most steps that a job's thread still takes.
RunnerLeft(j) ==
    CASE runner[j] = "preparing"    -> 16
      [] runner[j] = "checking"     -> 15
      [] runner[j] = "queueing"     -> 14
      [] runner[j] = "spawning"     -> 13
      [] runner[j] = "restoring"    -> 12
      [] runner[j] = "rechecking"   -> 11
      [] runner[j] = "receiving"    -> 10
      [] runner[j] = "joining"      -> 9
      [] runner[j] = "decoding"     -> 8
      [] runner[j] = "stopping"     -> 7
      [] runner[j] = "terminating"  -> 6
      [] runner[j] = "killing"      -> 5
      [] runner[j] = "closing"      -> 4
      [] runner[j] = "delivering"   -> 3
      [] runner[j] = "recording"    -> 2
      [] runner[j] = "completing"   -> 1
      [] runner[j] = "failed"       -> 1
      [] runner[j] = "returned"     -> 0

\* The most steps that a child still takes, once it has been started.
ChildLeft(j) ==
    CASE child[j] = "booting" -> 4
      [] child[j] = "running" -> 3
      [] child[j] = "sending" -> 2
      [] child[j] = "leaving" -> 1
      [] child[j] \in {"none", "gone"} -> 0

\* Neither is ever sent back: each step brings it closer to its end, and no other job, signal,
\* kill or deadline puts the end off, nor brings back a child that is gone.
\* (_run_plugin_process starts one process, once, and _stop is its last wait)
RunnersRunOut ==
    [][\A j \in Jobs : /\ RunnerNext(j) => RunnerLeft(j)' < RunnerLeft(j)
                       /\ RunnerLeft(j)' <= RunnerLeft(j)
                       /\ ChildNext(j) => ChildLeft(j)' < ChildLeft(j)
                       /\ child[j] # "none" => ChildLeft(j)' <= ChildLeft(j)]_vars

\* A step of the thread leads to a later one.
LEMMA RunnerAdvances ==
    ASSUME TypeOK, NEW j \in Jobs, RunnerNext(j)
    PROVE  /\ RunnerLeft(j)' < RunnerLeft(j)
           /\ \A i \in Jobs \ {j} : runner'[i] = runner[i]
           /\ \A i \in Jobs : child'[i] = child[i] \/ (i = j /\ runner[j] = "spawning")
<1> USE DEF TypeOK, RunnerSteps, RunnerStep, Leave, RunnerLeft, notRunner, notStop,
           handleVars, childVars, BeginClose
<1>1. CASE Prepare(j)
  BY <1>1 DEF Prepare
<1>2. CASE PrepareFails(j)
  BY <1>2 DEF PrepareFails
<1>3. CASE CheckBeforeStart(j)
  BY <1>3 DEF CheckBeforeStart
<1>4. CASE EnterSafePath(j)
  BY <1>4 DEF EnterSafePath, SetSafePath
<1>5. CASE StartProcess(j)
  BY <1>5 DEF StartProcess
<1>6. CASE StartFails(j)
  BY <1>6 DEF StartFails
<1>7. CASE LeaveSafePath(j)
  BY <1>7 DEF LeaveSafePath
<1>8. CASE CheckAfterStart(j)
  BY <1>8 DEF CheckAfterStart
<1>9. CASE Receive(j)
  BY <1>9 DEF Receive
<1>10. CASE Join(j)
  BY <1>10 DEF Join
<1>11. CASE Decode(j)
  BY <1>11 DEF Decode
<1>12. CASE StopChild(j)
  BY <1>12 DEF StopChild
<1>13. CASE AfterTerm(j)
  BY <1>13 DEF AfterTerm
<1>14. CASE AfterKill(j)
  BY <1>14 DEF AfterKill
<1>15. CASE Close(j)
  BY <1>15 DEF Close
<1>16. CASE AcceptResult(j)
  BY <1>16 DEF AcceptResult
<1>17. CASE RecordEntry(j)
  BY <1>17 DEF RecordEntry
<1>18. CASE Deliver(j)
  BY <1>18 DEF Deliver
<1>19. CASE RecordFailure(j)
  BY <1>19 DEF RecordFailure
<1>20. CASE CancelFailed(j)
  BY <1>20 DEF CancelFailed
<1> QED
  BY <1>1, <1>2, <1>3, <1>4, <1>5, <1>6, <1>7, <1>8, <1>9, <1>10, <1>11, <1>12, <1>13, <1>14,
     <1>15, <1>16, <1>17, <1>18, <1>19, <1>20 DEF RunnerNext

LEMMA ChildAdvances ==
    ASSUME TypeOK, NEW j \in Jobs, ChildNext(j)
    PROVE  /\ ChildLeft(j)' < ChildLeft(j)
           /\ \A i \in Jobs \ {j} : child'[i] = child[i]
           /\ UNCHANGED runner
BY DEF TypeOK, ChildSteps, ChildNext, Arm, PluginEnds, Send, LeaveWorker, Crash, DieOfSignal,
       Watchdog, ChildStep, Exit, Alive, ChildLeft, notChild, runnerVars

LEMMA OthersLeaveBoth ==
    ASSUME [Next]_vars, \A j \in Jobs : ~RunnerNext(j) /\ ~ChildNext(j)
    PROVE  UNCHANGED <<runner, child>>
BY DEF Next, vars, DeadlinePasses, CancelJob, KillNext, NothingToKill, EnterKill, Enter, Kill,
       ScannerDies, runnerVars, childVars, notStop

LEMMA LeftTypes ==
    ASSUME TypeOK, NEW j \in Jobs
    PROVE  RunnerLeft(j) \in 0 .. 16 /\ ChildLeft(j) \in 0 .. 4
BY DEF TypeOK, RunnerSteps, ChildSteps, RunnerLeft, ChildLeft

LEMMA RunOutStep ==
    ASSUME IInv, IInv', [Next]_vars, NEW j \in Jobs
    PROVE  /\ RunnerNext(j) => RunnerLeft(j)' < RunnerLeft(j)
           /\ RunnerLeft(j)' <= RunnerLeft(j)
           /\ ChildNext(j) => ChildLeft(j)' < ChildLeft(j)
           /\ child[j] # "none" => ChildLeft(j)' <= ChildLeft(j)
<1>0. TypeOK /\ TypeOK' /\ HandleInv
  BY DEF IInv
<1>1. /\ RunnerLeft(j) \in Nat /\ RunnerLeft(j)' \in Nat
      /\ ChildLeft(j) \in Nat /\ ChildLeft(j)' \in Nat
  BY <1>0, LeftTypes DEF TypeOK, RunnerSteps, ChildSteps, RunnerLeft, ChildLeft
<1>2. ASSUME NEW i \in Jobs, RunnerNext(i)
      PROVE  /\ i = j => RunnerLeft(j)' < RunnerLeft(j)
             /\ i # j => RunnerLeft(j)' = RunnerLeft(j)
             /\ child[j] # "none" => ChildLeft(j)' = ChildLeft(j)
  <2>1. i # j => runner'[j] = runner[j]
    BY <1>0, <1>2, RunnerAdvances
  <2>2. child[j] # "none" => child'[j] = child[j]
    BY <1>0, <1>2, RunnerAdvances DEF HandleInv, Early
  <2> QED
    BY <1>0, <1>2, <2>1, <2>2, RunnerAdvances DEF RunnerLeft, ChildLeft
<1>3. ASSUME NEW i \in Jobs, ChildNext(i)
      PROVE  /\ RunnerLeft(j)' = RunnerLeft(j)
             /\ i = j => ChildLeft(j)' < ChildLeft(j)
             /\ i # j => ChildLeft(j)' = ChildLeft(j)
  BY <1>0, <1>3, ChildAdvances DEF RunnerLeft, ChildLeft
<1>4. ASSUME \A i \in Jobs : ~RunnerNext(i) /\ ~ChildNext(i)
      PROVE  RunnerLeft(j)' = RunnerLeft(j) /\ ChildLeft(j)' = ChildLeft(j)
  BY <1>4, OthersLeaveBoth DEF RunnerLeft, ChildLeft
<1> QED
  BY <1>1, <1>2, <1>3, <1>4

\* A job's thread is over after 16 steps of its own and its child after 4, for any number of
\* jobs and whatever happens to them; with LocksComeFree, and because it waits for the child
\* only up to the deadline, the thread returns if it runs and time passes.
\* (_run_plugin_process, _WorkerHandle.stop, _worker)
THEOREM RunnersAreBounded ==
    Spec => [](\A j \in Jobs : RunnerLeft(j) \in 0 .. 16 /\ ChildLeft(j) \in 0 .. 4) /\ RunnersRunOut
<1>1. IInv => \A j \in Jobs : RunnerLeft(j) \in 0 .. 16 /\ ChildLeft(j) \in 0 .. 4
  BY LeftTypes DEF IInv
<1>2. IInv /\ IInv' /\ [Next]_vars =>
        [\A j \in Jobs : /\ RunnerNext(j) => RunnerLeft(j)' < RunnerLeft(j)
                         /\ RunnerLeft(j)' <= RunnerLeft(j)
                         /\ ChildNext(j) => ChildLeft(j)' < ChildLeft(j)
                         /\ child[j] # "none" => ChildLeft(j)' <= ChildLeft(j)]_vars
  BY RunOutStep
<1> QED
  BY Invariance, <1>1, <1>2, PTL DEF Spec, RunnersRunOut

=============================================================================
