-------------------------- MODULE SupervisionProofs -------------------------
(***************************************************************************)
(* Proofs about module Supervision, for any number of jobs and worker      *)
(* slots, any job mix and any number of scans.                             *)
(***************************************************************************)
EXTENDS Supervision, FiniteSetTheorems, TLAPS

----------------------------------------------------------------------------
(* Why the supervisor comes to an end *)

\* While the supervisor waits there is an end in sight: it waits for a job that has been
\* started, which returns or runs out of time; or only for queued ones and a slot is free; or
\* each slot is taken by a job that has timed out, and this round will give the queue up.
\* Nor is it ever about to expire or give up jobs of which there are none.
\* (_Supervisor.run, _capacity_exhausted)
NeverStuck ==
    /\ sup = "waiting" =>
         \/ \E j \in pending : step[j] # "queued"
         \/ pending # {} /\ Cardinality(RunningJobs) < Workers
         \/ timedOut # {} /\ CapacityExhausted
    /\ sup \in {"waiting", "deciding"} => pending # {}
    /\ sup = "expiring" => expired # {}
    /\ sup = "abandoning" => abandoning # {}

\* The most steps that the supervisor takes before it waits again, or is done.
RoundLeft ==
    CASE sup = "settling"   -> 4 + 3 * NJobs
      [] sup = "expiring"   -> 3 + NJobs + 2 * Cardinality(expired) - (IF expiring = NoJob THEN 0 ELSE 1)
      [] sup = "deciding"   -> 3 + NJobs
      [] sup = "abandoning" -> 2 + Cardinality(abandoning)
      [] sup = "stopping"   -> 2
      [] sup = "reporting"  -> 1
      [] sup \in {"waiting", "reported", "interrupted"} -> 0

RoundsBounded == RoundLeft \in 0 .. 4 + 3 * NJobs

\* Each step of the supervisor within a round brings the round closer to its end, and nothing
\* that workers do, in time or late, puts the end off: it is never kept from looking at the
\* clocks again.  (_Supervisor.run, _expire, _abandon_queue)
RoundsRunOut ==
    [][sup # "waiting" => /\ SupervisorNext => RoundLeft' < RoundLeft
                          /\ RoundLeft' <= RoundLeft]_vars

----------------------------------------------------------------------------
(* The inductive invariant behind the safety properties *)

\* What the supervisor's work lists may hold, and when.
LoopInv ==
    /\ observed \subseteq pending /\ expired \subseteq pending /\ abandoning \subseteq pending
    /\ \A j \in observed : step[j] = "done"
    /\ \A j \in expired : step[j] \notin {"queued", "withdrawn"}
    /\ expiring # NoJob => expiring \in expired /\ expiring \in timedOut
    /\ sup # "settling" => observed = {}
    /\ sup # "expiring" => expired = {} /\ expiring = NoJob
    /\ sup # "abandoning" => abandoning = {}
    /\ sup \in {"stopping", "reporting", "reported"} => pending = {}

\* How a job's fate, its Future and its cancellation go together.
FateInv ==
    \A j \in Jobs :
        /\ sup # "interrupted" => (j \in pending <=> completed[j] = "none")
        /\ completed[j] = "accepted" => step[j] = "done" /\ ~overran[j]
        /\ completed[j] \in {"timeout", "unstarted"} => j \in timedOut
        /\ j \in timedOut => cancelled[j] /\ completed[j] # "accepted"
        /\ j \in timedOut /\ completed[j] = "none" => sup = "interrupted" \/ j = expiring
        /\ cancelled[j] => j \in Isolated \/ j \in timedOut
        /\ step[j] = "queued" => completed[j] = "none"
        /\ step[j] = "withdrawn" => completed[j] = "unstarted" \/ sup = "interrupted"
        /\ completed[j] = "unstarted" => step[j] = "withdrawn"
        /\ step[j] \in {"queued", "withdrawn"} => clock[j] = 0
        /\ sup # "interrupted" /\ j \notin pending /\ Running(j) => j \in abandoned

\* A replacement that outlived its job's cancellation was under way at that moment.
ReplacementInv ==
    \A j \in Jobs \ Isolated : step[j] = "replacing" /\ cancelled[j] => j \in inFlight

\* The supervisor has given the job up, and will not accept it.
GivenUp(j) == j \in timedOut \/ (sup = "interrupted" /\ completed[j] # "accepted")

\* Who else cancels a job: it does so itself when it has failed, and the end of supervision does
\* when the job is accepted.  So the ledgers still take what a complete job reports, unless it
\* was given up.
CancelInv ==
    \A j \in Jobs : cancelled[j] /\ outcome[j] = "complete" => GivenUp(j) \/ completed[j] = "accepted"

\* What the ledgers hold of a job, by how far its worker has come.
LedgerInv ==
    /\ \A e \in exports :
         /\ step[e.job] \in {"failed", "returning", "done"}
         /\ e.exported => artifact[e.job]
    /\ \A e, f \in exports : e.job = f.job => e = f
    /\ \A j \in Jobs : step[j] = "failed" => outcome[j] # "complete"
    /\ \A j \in Jobs : outcome[j] = "complete" /\ ~GivenUp(j) =>
         /\ DumpRecords /\ step[j] \in {"returning", "done"} => ResultEntry(j) \in exports
         /\ j \in Attesting /\ step[j] \in {"exporting", "returning", "done"} => j \in scopes

IInv == TypeOK /\ LoopInv /\ FateInv /\ ReplacementInv /\ CancelInv /\ LedgerInv

----------------------------------------------------------------------------
(* Proofs *)

\* Every operator of the state is expanded where a step needs its own variables.
LEMMA AssumedConstants ==
    /\ NJobs \in Nat \ {0} /\ Parallel \in Nat \ {0} /\ MaxRuns \in Nat \ {0}
    /\ Isolated \subseteq Jobs /\ Attesting \subseteq Jobs \ Isolated
    /\ DumpRecords \in BOOLEAN
    /\ Verdicts \subseteq {"complete", "incomplete", "skipped"}
    /\ NoJob \notin Jobs
BY JobsAssumption, ParallelAssumption, KindAssumption, DumpAssumption,
   VerdictAssumption, RunsAssumption DEF Jobs, NoJob

----------------------------------------------------------------------------
(* Type correctness *)

LEMMA TypeInit == Init => TypeOK
BY AssumedConstants DEF Init, TypeOK, Steps, Outcomes, Results, SupervisorSteps, Reports, EmptyReport

\* What the ledger is handed is an export entry.
LEMMA EntryTypes ==
    ASSUME NEW j \in Jobs
    PROVE  ResultEntry(j) \in ExportEntries /\ FailureEntry(j) \in ExportEntries
<1>1. (artifact[j] /\ outcome[j] # "skipped") \in BOOLEAN /\ (outcome[j] = "complete") \in BOOLEAN
  OBVIOUS
<1>2. ResultEntry(j) \in ExportEntries
  BY <1>1, Zenon DEF ResultEntry, ExportEntries
<1>3. FailureEntry(j) \in ExportEntries
  BY Zenon DEF FailureEntry, ExportEntries
<1> QED
  BY <1>2, <1>3

LEMMA WithEntryType ==
    ASSUME exports \in SUBSET ExportEntries, NEW j \in Jobs, NEW e \in ExportEntries
    PROVE  WithEntry(j, e) \in SUBSET ExportEntries
BY DEF WithEntry

\* The report Engine.run assembles is well-formed.
LEMMA ReportType ==
    ASSUME exports \in SUBSET ExportEntries, scopes \in SUBSET Jobs, timedOut \in SUBSET Jobs, Report
    PROVE  report' \in Reports
<1>1. ExportsReported \in SUBSET ExportEntries
  BY EntryTypes DEF ExportsReported
<1>2. ScopesReported \in SUBSET Jobs
  BY DEF ScopesReported
<1>3. (\A j \in Jobs : CollectedInFull(j)) \in BOOLEAN
  OBVIOUS
<1>4. {j \in Jobs : completed[j] = "accepted"} \in SUBSET Jobs
  OBVIOUS
<1> QED
  BY <1>1, <1>2, <1>3, <1>4, Zenon DEF Report, Reports

\* Every action keeps the types: time and the pool, the workers, the supervisor.
LEMMA TypeStep == TypeOK /\ [Next]_vars => TypeOK'
<1> SUFFICES ASSUME TypeOK, [Next]_vars PROVE TypeOK'
  OBVIOUS
<1> USE AssumedConstants DEF TypeOK
<1>1. CASE UNCHANGED vars
  BY <1>1 DEF vars, jobVars, ledgerVars, loopVars, fateVars
<1>2. ASSUME NEW j \in Jobs, DeadlinePasses(j) PROVE TypeOK'
  BY <1>2 DEF DeadlinePasses, Grace, ledgerVars, loopVars, fateVars
<1>3. ASSUME NEW j \in Jobs, Start(j) PROVE TypeOK'
  BY <1>3 DEF Start, Steps, ledgerVars, loopVars, fateVars
<1>4. ASSUME NEW j \in Jobs, WorkerNext(j) PROVE TypeOK'
  <2> USE DEF Steps, ledgerVars, loopVars, fateVars, WorkerStep, IsolatedStep
  <2>1. CASE TakePublicationLock(j)
    BY <2>1 DEF TakePublicationLock
  <2>2. CASE RefusePublication(j)
    BY <2>2 DEF RefusePublication, AfterCollection, AfterScope, Outcomes
  <2>3. CASE BeginReplacement(j)
    BY <2>3 DEF BeginReplacement
  <2>4. CASE Replace(j)
    BY <2>4 DEF Replace, AfterCollection, AfterScope
  <2>5. CASE ReturnFromConnector(j)
    BY <2>5 DEF ReturnFromConnector
  <2>6. CASE Judge(j)
    BY <2>6 DEF Judge, AfterCollection, AfterScope, Outcomes
  <2>7. CASE SkipCache(j)
    BY <2>7 DEF SkipCache, AfterCollection, AfterScope, Outcomes
  <2>8. CASE RecordScope(j)
    BY <2>8 DEF RecordScope, AfterScope
  <2>9. CASE RecordExport(j)
    BY <2>9, EntryTypes, WithEntryType DEF RecordExport
  <2>10. CASE WorkerRaises(j)
    BY <2>10 DEF WorkerRaises, Outcomes
  <2>11. CASE IsolatedPublish(j)
    BY <2>11 DEF IsolatedPublish
  <2>12. CASE IsolatedReceive(j)
    BY <2>12 DEF IsolatedReceive, Outcomes
  <2>13. CASE IsolatedAccept(j)
    BY <2>13 DEF IsolatedAccept
  <2>14. CASE IsolatedDeliver(j)
    BY <2>14, EntryTypes, WithEntryType DEF IsolatedDeliver
  <2>15. CASE IsolatedFail(j)
    BY <2>15, EntryTypes, WithEntryType DEF IsolatedFail, Outcomes
  <2>16. CASE CancelFailed(j)
    BY <2>16 DEF CancelFailed
  <2>17. CASE Finish(j)
    BY <2>17 DEF Finish, Due, Grace
  <2> QED
    BY <1>4, <2>1, <2>2, <2>3, <2>4, <2>5, <2>6, <2>7, <2>8, <2>9, <2>10, <2>11, <2>12,
       <2>13, <2>14, <2>15, <2>16, <2>17 DEF WorkerNext
<1>5. CASE SupervisorNext
  <2> USE DEF workerVars, jobVars, ledgerVars, loopVars, fateVars, SupervisorSteps, EndOfLoop
  <2>1. CASE Poll
    BY <2>1 DEF Poll
  <2>2. CASE Settle
    BY <2>2 DEF Settle, Results
  <2>3. CASE ExpireRecord
    BY <2>3 DEF ExpireRecord, Results
  <2>4. CASE Decide
    BY <2>4 DEF Decide
  <2>5. CASE Stop
    BY <2>5 DEF Stop
  <2>6. CASE Report
    BY <2>6, ReportType DEF Report
  <2>7. ASSUME NEW j \in Jobs, ExpireCancel(j) PROVE TypeOK'
    BY <2>7 DEF ExpireCancel
  <2>8. ASSUME NEW j \in Jobs, AbandonQueued(j) PROVE TypeOK'
    <3>1. CASE step[j] = "queued"
      <4>1. step' \in [Jobs -> Steps] /\ completed' \in [Jobs -> Results]
        BY <2>8, <3>1 DEF AbandonQueued, Steps, Results
      <4>2. sup' \in SupervisorSteps
        BY <2>8, <3>1 DEF AbandonQueued
      <4>3. cancelled' \in [Jobs -> BOOLEAN]
        BY <2>8, <3>1 DEF AbandonQueued
      <4>4. timedOut' \in SUBSET Jobs /\ pending' \in SUBSET Jobs /\ abandoning' \in SUBSET Jobs
        BY <2>8, <3>1 DEF AbandonQueued
      <4>5. UNCHANGED <<run, clock, overran, outcome, artifact, inFlight, exports, scopes,
                        observed, expired, expiring, abandoned, report>>
        BY <2>8 DEF AbandonQueued
      <4> QED
        BY <4>1, <4>2, <4>3, <4>4, <4>5
    <3>2. CASE step[j] # "queued"
      BY <2>8, <3>2 DEF AbandonQueued
    <3> QED
      BY <3>1, <3>2
  <2> QED
    BY <1>5, <2>1, <2>2, <2>3, <2>4, <2>5, <2>6, <2>7, <2>8 DEF SupervisorNext
<1>6. CASE Interrupt
  BY <1>6 DEF Interrupt, Steps, SupervisorSteps, ledgerVars, fateVars
<1>7. CASE NextRun
  BY <1>7 DEF NextRun, Steps, Outcomes, Results, SupervisorSteps, Reports, EmptyReport
<1> QED
  BY <1>1, <1>2, <1>3, <1>4, <1>5, <1>6, <1>7 DEF Next

\* Supervision is type-correct.
THEOREM TypeCorrect == Spec => []TypeOK
BY TypeInit, TypeStep, PTL DEF Spec

----------------------------------------------------------------------------
(* What one worker step can change *)

\* A worker touches only its own job, and only while that job is running.
LEMMA WorkerEffect ==
    ASSUME TypeOK, NEW j \in Jobs, WorkerNext(j)
    PROVE  /\ UNCHANGED <<run, clock, inFlight, sup, loopVars, fateVars, report>>
           /\ Running(j)
           /\ step' \in [Jobs -> Steps]
           /\ step'[j] \notin {"queued", "withdrawn"}
           /\ \A i \in Jobs \ {j} : /\ step'[i] = step[i]
                                    /\ overran'[i] = overran[i]
                                    /\ outcome'[i] = outcome[i]
                                    /\ artifact'[i] = artifact[i]
                                    /\ cancelled'[i] = cancelled[i]
           /\ artifact[j] => artifact'[j]
           /\ cancelled[j] => cancelled'[j]
           /\ j \notin Isolated => cancelled'[j] = cancelled[j]
<1> USE DEF TypeOK, Steps, Running, WorkerStep, IsolatedStep, AfterCollection, AfterScope
<1>1. CASE TakePublicationLock(j)
  BY <1>1 DEF TakePublicationLock
<1>2. CASE RefusePublication(j)
  BY <1>2 DEF RefusePublication
<1>3. CASE BeginReplacement(j)
  BY <1>3 DEF BeginReplacement
<1>4. CASE Replace(j)
  BY <1>4 DEF Replace
<1>5. CASE ReturnFromConnector(j)
  BY <1>5 DEF ReturnFromConnector
<1>6. CASE Judge(j)
  BY <1>6 DEF Judge
<1>7. CASE SkipCache(j)
  BY <1>7 DEF SkipCache
<1>8. CASE RecordScope(j)
  BY <1>8 DEF RecordScope
<1>9. CASE RecordExport(j)
  BY <1>9 DEF RecordExport
<1>10. CASE WorkerRaises(j)
  BY <1>10 DEF WorkerRaises
<1>11. CASE IsolatedPublish(j)
  BY <1>11 DEF IsolatedPublish
<1>12. CASE IsolatedReceive(j)
  BY <1>12 DEF IsolatedReceive
<1>13. CASE IsolatedAccept(j)
  BY <1>13 DEF IsolatedAccept
<1>14. CASE IsolatedDeliver(j)
  BY <1>14 DEF IsolatedDeliver
<1>15. CASE IsolatedFail(j)
  BY <1>15 DEF IsolatedFail
<1>16. CASE CancelFailed(j)
  BY <1>16 DEF CancelFailed
<1>17. CASE Finish(j)
  BY <1>17 DEF Finish
<1> QED
  BY <1>1, <1>2, <1>3, <1>4, <1>5, <1>6, <1>7, <1>8, <1>9, <1>10, <1>11, <1>12, <1>13, <1>14, <1>15,
     <1>16, <1>17 DEF WorkerNext

----------------------------------------------------------------------------
(* The work lists of the supervisor *)

LEMMA LoopStep == TypeOK /\ LoopInv /\ FateInv /\ [Next]_vars => LoopInv'
<1> SUFFICES ASSUME TypeOK, LoopInv, FateInv, [Next]_vars PROVE LoopInv'
  OBVIOUS
<1> USE AssumedConstants DEF TypeOK, LoopInv, fateVars
<1>1. CASE UNCHANGED vars
  BY <1>1 DEF vars, jobVars, loopVars
<1>2. ASSUME NEW j \in Jobs, DeadlinePasses(j) PROVE LoopInv'
  BY <1>2 DEF DeadlinePasses, loopVars
<1>3. ASSUME NEW j \in Jobs, Start(j) PROVE LoopInv'
  BY <1>3 DEF Start, loopVars
<1>4. ASSUME NEW j \in Jobs, WorkerNext(j) PROVE LoopInv'
  BY <1>4, WorkerEffect DEF loopVars, Running
<1>5. CASE SupervisorNext
  <2> USE DEF workerVars, jobVars, loopVars, EndOfLoop
  <2>1. CASE Poll
    BY <2>1 DEF Poll
  <2>2. CASE Settle
    BY <2>2 DEF Settle, Due, Grace, FateInv
  <2>3. CASE ExpireRecord
    BY <2>3 DEF ExpireRecord
  <2>4. CASE Decide
    BY <2>4 DEF Decide
  <2>5. CASE Stop
    BY <2>5 DEF Stop
  <2>6. CASE Report
    BY <2>6 DEF Report
  <2>7. ASSUME NEW j \in Jobs, ExpireCancel(j) PROVE LoopInv'
    BY <2>7 DEF ExpireCancel
  <2>8. ASSUME NEW j \in Jobs, AbandonQueued(j) PROVE LoopInv'
    BY <2>8 DEF AbandonQueued
  <2> QED
    BY <1>5, <2>1, <2>2, <2>3, <2>4, <2>5, <2>6, <2>7, <2>8 DEF SupervisorNext
<1>6. CASE Interrupt
  BY <1>6 DEF Interrupt
<1>7. CASE NextRun
  BY <1>7 DEF NextRun
<1> QED
  BY <1>1, <1>2, <1>3, <1>4, <1>5, <1>6, <1>7 DEF Next

----------------------------------------------------------------------------
(* Fate, Future and cancellation of a job *)

LEMMA FateStep == TypeOK /\ LoopInv /\ FateInv /\ [Next]_vars => FateInv'
<1> SUFFICES ASSUME TypeOK, LoopInv, FateInv, [Next]_vars PROVE FateInv'
  OBVIOUS
<1> USE AssumedConstants DEF TypeOK, FateInv, Running
<1>1. CASE UNCHANGED vars
  BY <1>1 DEF vars, jobVars, loopVars, fateVars
<1>2. ASSUME NEW j \in Jobs, DeadlinePasses(j) PROVE FateInv'
  BY <1>2 DEF DeadlinePasses, loopVars, fateVars
<1>3. ASSUME NEW j \in Jobs, Start(j) PROVE FateInv'
  BY <1>3 DEF Start, loopVars, fateVars
<1>4. ASSUME NEW j \in Jobs, WorkerNext(j) PROVE FateInv'
  BY <1>4, WorkerEffect DEF loopVars, fateVars
<1>5. CASE SupervisorNext
  <2> USE DEF workerVars, jobVars, loopVars, LoopInv, EndOfLoop
  <2>1. CASE Poll
    BY <2>1 DEF Poll, fateVars
  <2>2. CASE Settle
    BY <2>2 DEF Settle
  <2>3. CASE ExpireRecord
    <3>1. expiring \in Jobs /\ expiring \in timedOut /\ cancelled[expiring]
      BY <2>3 DEF ExpireRecord
    <3> QED
      BY <2>3, <3>1 DEF ExpireRecord
  <2>4. CASE Decide
    BY <2>4 DEF Decide, fateVars
  <2>5. CASE Stop
    BY <2>5 DEF Stop, fateVars
  <2>6. CASE Report
    BY <2>6 DEF Report, fateVars
  <2>7. ASSUME NEW j \in Jobs, ExpireCancel(j) PROVE FateInv'
    <3>1. completed[j] = "none" /\ j \in pending
      BY <2>7 DEF ExpireCancel
    <3> QED
      BY <2>7, <3>1 DEF ExpireCancel
  <2>8. ASSUME NEW j \in Jobs, AbandonQueued(j) PROVE FateInv'
    <3>1. CASE step[j] = "queued"
      BY <2>8, <3>1 DEF AbandonQueued
    <3>2. CASE step[j] # "queued"
      BY <2>8, <3>2 DEF AbandonQueued
    <3> QED
      BY <3>1, <3>2
  <2> QED
    BY <1>5, <2>1, <2>2, <2>3, <2>4, <2>5, <2>6, <2>7, <2>8 DEF SupervisorNext
<1>6. CASE Interrupt
  BY <1>6 DEF Interrupt, fateVars, LoopInv
<1>7. CASE NextRun
  BY <1>7 DEF NextRun
<1> QED
  BY <1>1, <1>2, <1>3, <1>4, <1>5, <1>6, <1>7 DEF Next

----------------------------------------------------------------------------
(* Replacements and cancellations *)

LEMMA ReplacementStep == TypeOK /\ ReplacementInv /\ [Next]_vars => ReplacementInv'
<1> SUFFICES ASSUME TypeOK, ReplacementInv, [Next]_vars PROVE ReplacementInv'
  OBVIOUS
<1> USE AssumedConstants DEF TypeOK, ReplacementInv
<1>1. CASE UNCHANGED vars
  BY <1>1 DEF vars, jobVars
<1>2. ASSUME NEW j \in Jobs, DeadlinePasses(j) PROVE ReplacementInv'
  BY <1>2 DEF DeadlinePasses
<1>3. ASSUME NEW j \in Jobs, Start(j) PROVE ReplacementInv'
  BY <1>3 DEF Start
<1>4. ASSUME NEW j \in Jobs, WorkerNext(j) PROVE ReplacementInv'
  <2>1. ASSUME j \notin Isolated, step'[j] = "replacing", cancelled'[j] PROVE j \in inFlight
    BY <1>4, <2>1 DEF WorkerNext, WorkerStep, IsolatedStep, TakePublicationLock, RefusePublication,
       BeginReplacement, Replace, ReturnFromConnector, Judge, SkipCache, RecordScope, RecordExport,
       WorkerRaises, IsolatedPublish, IsolatedReceive, IsolatedAccept, IsolatedDeliver, IsolatedFail, CancelFailed,
       Finish, AfterCollection, AfterScope, Dead
  <2> QED
    BY <1>4, <2>1, WorkerEffect
<1>5. CASE SupervisorNext
  <2> USE DEF workerVars, jobVars
  <2>1. CASE Poll
    BY <2>1 DEF Poll
  <2>2. CASE Settle
    BY <2>2 DEF Settle
  <2>3. CASE ExpireRecord
    BY <2>3 DEF ExpireRecord
  <2>4. CASE Decide
    BY <2>4 DEF Decide
  <2>5. CASE Stop
    BY <2>5 DEF Stop
  <2>6. CASE Report
    BY <2>6 DEF Report
  <2>7. ASSUME NEW j \in Jobs, ExpireCancel(j) PROVE ReplacementInv'
    BY <2>7 DEF ExpireCancel, LockTaken
  <2>8. ASSUME NEW j \in Jobs, AbandonQueued(j) PROVE ReplacementInv'
    BY <2>8 DEF AbandonQueued
  <2> QED
    BY <1>5, <2>1, <2>2, <2>3, <2>4, <2>5, <2>6, <2>7, <2>8 DEF SupervisorNext
<1>6. CASE Interrupt
  BY <1>6 DEF Interrupt
<1>7. CASE NextRun
  BY <1>7 DEF NextRun
<1> QED
  BY <1>1, <1>2, <1>3, <1>4, <1>5, <1>6, <1>7 DEF Next

----------------------------------------------------------------------------
(* The ledgers *)

\* A step that leaves the ledgers alone, and the job of every entry at its step,
\* outcome and artifact, keeps what the ledgers say.
LEMMA LedgerFrame ==
    ASSUME LedgerInv, UNCHANGED <<exports, scopes, outcome, artifact>>,
           exports \in SUBSET ExportEntries,
           \A j \in Jobs : \/ step'[j] = step[j]
                           \/ step[j] = "queued" /\ step'[j] \in {"collecting", "withdrawn"},
           \A j \in Jobs : GivenUp(j) => GivenUp(j)'
    PROVE  LedgerInv'
<1>1. \A j \in Jobs : ResultEntry(j)' = ResultEntry(j)
  BY DEF ResultEntry
<1>2. \A e \in exports : e.job \in Jobs
  BY DEF ExportEntries
<1> QED
  BY <1>1, <1>2 DEF LedgerInv

\* A worker decides nothing about any job.
LEMMA WorkerGivesUpNone ==
    ASSUME TypeOK, NEW j \in Jobs, WorkerNext(j)
    PROVE  \A i \in Jobs : GivenUp(i)' = GivenUp(i)
BY WorkerEffect DEF GivenUp, fateVars

\* A worker that reports nothing keeps what the ledgers say, if it has not come past
\* its report or is not reported as complete.
LEMMA LedgerQuiet ==
    ASSUME TypeOK, LedgerInv, NEW j \in Jobs, WorkerNext(j),
           UNCHANGED <<exports, scopes>>,
           step[j] \in {"failed", "returning", "done"} =>
               step'[j] \in {"failed", "returning", "done"} /\ artifact'[j] = artifact[j],
           \/ outcome'[j] # "complete"
           \/ step'[j] \notin {"exporting", "returning", "done"}
           \/ j \notin Attesting /\ (~DumpRecords \/ step'[j] = "exporting")
           \/ /\ outcome'[j] = outcome[j] /\ artifact'[j] = artifact[j]
              /\ step[j] \in {"returning", "done"},
           step'[j] = "failed" => outcome'[j] # "complete"
    PROVE  LedgerInv'
<1> USE DEF TypeOK
<1>1. \A i \in Jobs \ {j} : ResultEntry(i)' = ResultEntry(i)
  BY WorkerEffect DEF ResultEntry
<1>2. \A e \in exports : e.job \in Jobs
  BY DEF ExportEntries
<1>3. \A e \in exports :
         step'[e.job] \in {"failed", "returning", "done"} /\ (e.exported => artifact'[e.job])
  <2> SUFFICES ASSUME NEW e \in exports
               PROVE  /\ step'[e.job] \in {"failed", "returning", "done"}
                      /\ e.exported => artifact'[e.job]
    OBVIOUS
  <2>1. step[e.job] \in {"failed", "returning", "done"} /\ (e.exported => artifact[e.job])
    BY DEF LedgerInv
  <2>2. CASE e.job = j
    <3>1. step[j] \in {"failed", "returning", "done"}
      BY <2>1, <2>2
    <3>2. step'[j] \in {"failed", "returning", "done"} /\ artifact'[j] = artifact[j]
      BY <3>1
    <3> QED
      BY <2>1, <2>2, <3>2
  <2>3. CASE e.job # j
    BY <1>2, <2>1, <2>3, WorkerEffect
  <2> QED
    BY <2>2, <2>3
<1>4. \A e, f \in exports : e.job = f.job => e = f
  BY DEF LedgerInv
<1>5. \A i \in Jobs \ {j} : outcome'[i] = "complete" /\ ~GivenUp(i)' =>
         /\ DumpRecords /\ step'[i] \in {"returning", "done"} => ResultEntry(i)' \in exports
         /\ i \in Attesting /\ step'[i] \in {"exporting", "returning", "done"} => i \in scopes
  BY <1>1, WorkerEffect, WorkerGivesUpNone DEF LedgerInv
<1>6. outcome'[j] = "complete" /\ ~GivenUp(j)' =>
         /\ DumpRecords /\ step'[j] \in {"returning", "done"} => ResultEntry(j)' \in exports
         /\ j \in Attesting /\ step'[j] \in {"exporting", "returning", "done"} => j \in scopes
  <2>1. CASE /\ outcome'[j] = outcome[j] /\ artifact'[j] = artifact[j]
             /\ step[j] \in {"returning", "done"}
    <3>1. ResultEntry(j)' = ResultEntry(j)
      BY <2>1 DEF ResultEntry
    <3>2. GivenUp(j)' = GivenUp(j)
      BY WorkerGivesUpNone
    <3> QED
      BY <2>1, <3>1, <3>2 DEF LedgerInv
  <2> QED
    BY <2>1
<1>7. \A i \in Jobs : step'[i] = "failed" => outcome'[i] # "complete"
  BY WorkerEffect DEF LedgerInv
<1> QED
  BY <1>3, <1>4, <1>5, <1>6, <1>7 DEF LedgerInv

\* A worker hands the export ledger its entry, once, and as its statistics say.
LEMMA LedgerReport ==
    ASSUME TypeOK, LedgerInv, NEW j \in Jobs, WorkerNext(j),
           NEW e \in {ResultEntry(j), FailureEntry(j)},
           exports' = WithEntry(j, e),
           UNCHANGED <<scopes, artifact>>,
           step[j] \notin {"failed", "returning", "done"},
           \/ step'[j] = "failed" /\ outcome'[j] # "complete"
           \/ /\ step'[j] = "returning" /\ UNCHANGED outcome
              /\ e = ResultEntry(j)
              /\ j \in Attesting => step[j] = "exporting"
              /\ cancelled[j] /\ outcome[j] = "complete" => GivenUp(j)
    PROVE  LedgerInv'
<1> USE DEF TypeOK
<1>1. \A i \in Jobs \ {j} : ResultEntry(i)' = ResultEntry(i)
  BY WorkerEffect DEF ResultEntry
<1>2. \A f \in exports : f.job \in Jobs /\ f.job # j
  <2>1. \A f \in exports : f.job \in Jobs
    BY DEF ExportEntries
  <2>2. \A f \in exports : step[f.job] \in {"failed", "returning", "done"}
    BY DEF LedgerInv
  <2> QED
    BY <2>1, <2>2
<1>3. e.job = j /\ (e.exported => artifact[j])
  BY DEF ResultEntry, FailureEntry
<1>4. exports' \subseteq exports \cup {e} /\ exports \subseteq exports'
  BY DEF WithEntry
<1>5. step'[j] = "returning" => ResultEntry(j)' = e
  BY DEF ResultEntry
<1>6. ~cancelled[j] => e \in exports'
  BY DEF WithEntry
<1>7. /\ \A f \in exports' : /\ step'[f.job] \in {"failed", "returning", "done"}
                             /\ f.exported => artifact'[f.job]
      /\ \A f, g \in exports' : f.job = g.job => f = g
  <2>1. ASSUME NEW f \in exports
        PROVE  step'[f.job] \in {"failed", "returning", "done"} /\ (f.exported => artifact'[f.job])
    <3>1. step[f.job] \in {"failed", "returning", "done"} /\ (f.exported => artifact[f.job])
      BY DEF LedgerInv
    <3>2. step'[f.job] = step[f.job] /\ artifact' = artifact
      BY <1>2, WorkerEffect
    <3> QED
      BY <3>1, <3>2
  <2>2. step'[e.job] \in {"failed", "returning", "done"} /\ (e.exported => artifact'[e.job])
    BY <1>3
  <2>3. \A f, g \in exports : f.job = g.job => f = g
    BY DEF LedgerInv
  <2> QED
    BY <1>2, <1>3, <1>4, <2>1, <2>2, <2>3
<1>8. \A i \in Jobs \ {j} : outcome'[i] = "complete" /\ ~GivenUp(i)' =>
         /\ DumpRecords /\ step'[i] \in {"returning", "done"} => ResultEntry(i)' \in exports'
         /\ i \in Attesting /\ step'[i] \in {"exporting", "returning", "done"} => i \in scopes'
  BY <1>1, <1>4, WorkerEffect, WorkerGivesUpNone DEF LedgerInv
<1>9. outcome'[j] = "complete" /\ ~GivenUp(j)' =>
         /\ DumpRecords /\ step'[j] \in {"returning", "done"} => ResultEntry(j)' \in exports'
         /\ j \in Attesting /\ step'[j] \in {"exporting", "returning", "done"} => j \in scopes'
  BY <1>5, <1>6, WorkerEffect, WorkerGivesUpNone DEF LedgerInv
<1>10. \A i \in Jobs : step'[i] = "failed" => outcome'[i] # "complete"
  BY WorkerEffect DEF LedgerInv
<1> QED
  BY <1>7, <1>8, <1>9, <1>10 DEF LedgerInv

LEMMA LedgerStep == TypeOK /\ LoopInv /\ FateInv /\ CancelInv /\ LedgerInv /\ [Next]_vars => LedgerInv'
<1> SUFFICES ASSUME TypeOK, LoopInv, FateInv, CancelInv, LedgerInv, [Next]_vars PROVE LedgerInv'
  OBVIOUS
<1> USE AssumedConstants DEF TypeOK
<1>1. CASE UNCHANGED vars
  BY <1>1, LedgerFrame DEF vars, jobVars, ledgerVars, fateVars, GivenUp
<1>2. ASSUME NEW j \in Jobs, DeadlinePasses(j) PROVE LedgerInv'
  BY <1>2, LedgerFrame DEF DeadlinePasses, ledgerVars, fateVars, GivenUp
<1>3. ASSUME NEW j \in Jobs, Start(j) PROVE LedgerInv'
  BY <1>3, LedgerFrame DEF Start, ledgerVars, fateVars, GivenUp
<1>4. ASSUME NEW j \in Jobs, WorkerNext(j) PROVE LedgerInv'
  <2> USE <1>4 DEF ledgerVars, WorkerStep, IsolatedStep, AfterCollection, AfterScope
  <2>1. CASE TakePublicationLock(j)
    BY <2>1, LedgerQuiet DEF TakePublicationLock
  <2>2. CASE RefusePublication(j)
    <3>1. outcome'[j] # "complete" \/ step'[j] = "collected"
      BY <2>2 DEF RefusePublication
    <3> QED
      BY <2>2, <3>1, LedgerQuiet DEF RefusePublication
  <2>3. CASE BeginReplacement(j)
    BY <2>3, LedgerQuiet DEF BeginReplacement
  <2>4. CASE Replace(j)
    <3>1. CASE DumpRecords
      BY <2>4, <3>1, LedgerQuiet DEF Replace
    <3>2. CASE ~DumpRecords
      BY <2>4, <3>2, LedgerQuiet DEF Replace
    <3> QED
      BY <3>1, <3>2
  <2>5. CASE ReturnFromConnector(j)
    BY <2>5, LedgerQuiet DEF ReturnFromConnector
  <2>6. CASE Judge(j)
    <3>1. step[j] = "collected" /\ step'[j] \in {"caching", AfterCollection(j)}
      BY <2>6 DEF Judge
    <3>2. step'[j] = "returning" => outcome'[j] # "complete" \/ ~DumpRecords
      BY <2>6 DEF Judge
    <3>3. UNCHANGED <<exports, scopes>>
      BY <2>6 DEF Judge
    <3> QED
      BY <3>1, <3>2, <3>3, LedgerQuiet
  <2>7. CASE SkipCache(j)
    BY <2>7, LedgerQuiet DEF SkipCache
  <2>8. CASE RecordScope(j)
    <3>1. /\ step[j] = "recording" /\ step'[j] \in {"exporting", "returning"}
          /\ step'[j] = "returning" => ~DumpRecords
          /\ UNCHANGED <<exports, outcome, artifact>>
          /\ j \notin Isolated
          /\ cancelled' = cancelled
      BY <2>8 DEF RecordScope
    <3>2. scopes \subseteq scopes' /\ (~cancelled[j] => j \in scopes')
      BY <2>8 DEF RecordScope
    <3>3. \A i \in Jobs : ResultEntry(i)' = ResultEntry(i)
      BY <3>1 DEF ResultEntry
    <3>4. \A e \in exports : e.job \in Jobs
      BY DEF ExportEntries
    <3>5. \A i \in Jobs \ {j} : step'[i] = step[i]
      BY WorkerEffect
    <3>6. \A i \in Jobs : GivenUp(i)' = GivenUp(i)
      BY WorkerGivesUpNone
    <3>7. ~GivenUp(j) => j \in scopes'
      BY <3>1, <3>2 DEF FateInv, GivenUp
    <3> QED
      BY <3>1, <3>2, <3>3, <3>4, <3>5, <3>6, <3>7 DEF LedgerInv
  <2>9. CASE RecordExport(j)
    <3>1. cancelled[j] => GivenUp(j)
      BY <2>9 DEF RecordExport, FateInv, GivenUp
    <3> QED
      BY <2>9, <3>1, LedgerReport DEF RecordExport
  <2>10. CASE WorkerRaises(j)
    BY <2>10, LedgerQuiet DEF WorkerRaises
  <2>11. CASE IsolatedPublish(j)
    BY <2>11, LedgerQuiet DEF IsolatedPublish
  <2>12. CASE IsolatedReceive(j)
    BY <2>12, LedgerQuiet DEF IsolatedReceive
  <2>13. CASE IsolatedAccept(j)
    BY <2>13, LedgerQuiet DEF IsolatedAccept
  <2>14. CASE IsolatedDeliver(j)
    <3>1. cancelled[j] /\ outcome[j] = "complete" => GivenUp(j)
      BY <2>14 DEF IsolatedDeliver, FateInv, CancelInv
    <3>2. CASE DumpRecords
      BY <2>14, <3>1, <3>2, LedgerReport DEF IsolatedDeliver
    <3>3. CASE ~DumpRecords
      BY <2>14, <3>3, LedgerQuiet DEF IsolatedDeliver
    <3> QED
      BY <3>2, <3>3
  <2>15. CASE IsolatedFail(j)
    BY <2>15, LedgerReport DEF IsolatedFail
  <2>16. CASE CancelFailed(j)
    <3>1. outcome'[j] # "complete"
      BY <2>16 DEF CancelFailed, LedgerInv
    <3> QED
      BY <2>16, <3>1, LedgerQuiet DEF CancelFailed
  <2>17. CASE Finish(j)
    BY <2>17, LedgerQuiet DEF Finish
  <2> QED
    BY <2>1, <2>2, <2>3, <2>4, <2>5, <2>6, <2>7, <2>8, <2>9, <2>10, <2>11, <2>12, <2>13, <2>14, <2>15,
       <2>16, <2>17 DEF WorkerNext
<1>5. CASE SupervisorNext
  <2> USE DEF workerVars, jobVars, ledgerVars, fateVars, EndOfLoop, GivenUp
  <2>1. CASE Poll
    BY <2>1, LedgerFrame DEF Poll
  <2>2. CASE Settle
    BY <2>2, LedgerFrame DEF Settle
  <2>3. CASE ExpireRecord
    BY <2>3, LedgerFrame DEF ExpireRecord
  <2>4. CASE Decide
    BY <2>4, LedgerFrame DEF Decide
  <2>5. CASE Stop
    BY <2>5, LedgerFrame DEF Stop
  <2>6. CASE Report
    BY <2>6, LedgerFrame DEF Report
  <2>7. ASSUME NEW j \in Jobs, ExpireCancel(j) PROVE LedgerInv'
    BY <2>7, LedgerFrame DEF ExpireCancel
  <2>8. ASSUME NEW j \in Jobs, AbandonQueued(j) PROVE LedgerInv'
    <3>1. CASE step[j] = "queued"
      BY <2>8, <3>1, LedgerFrame DEF AbandonQueued
    <3>2. CASE step[j] # "queued"
      BY <2>8, <3>2, LedgerFrame DEF AbandonQueued
    <3> QED
      BY <3>1, <3>2
  <2> QED
    BY <1>5, <2>1, <2>2, <2>3, <2>4, <2>5, <2>6, <2>7, <2>8 DEF SupervisorNext
<1>6. CASE Interrupt
  BY <1>6, LedgerFrame DEF Interrupt, ledgerVars, fateVars, GivenUp
<1>7. CASE NextRun
  BY <1>7 DEF NextRun, LedgerInv
<1> QED
  BY <1>1, <1>2, <1>3, <1>4, <1>5, <1>6, <1>7 DEF Next

----------------------------------------------------------------------------
LEMMA CancelStep == TypeOK /\ LoopInv /\ FateInv /\ CancelInv /\ LedgerInv /\ [Next]_vars => CancelInv'
<1> SUFFICES ASSUME TypeOK, LoopInv, FateInv, CancelInv, LedgerInv, [Next]_vars PROVE CancelInv'
  OBVIOUS
<1> USE AssumedConstants DEF TypeOK, CancelInv, GivenUp
<1>1. CASE UNCHANGED vars
  BY <1>1 DEF vars, jobVars, fateVars
<1>2. ASSUME NEW j \in Jobs, DeadlinePasses(j) PROVE CancelInv'
  BY <1>2 DEF DeadlinePasses, fateVars
<1>3. ASSUME NEW j \in Jobs, Start(j) PROVE CancelInv'
  BY <1>3 DEF Start, fateVars
<1>4. ASSUME NEW j \in Jobs, WorkerNext(j) PROVE CancelInv'
  <2>1. cancelled'[j] /\ outcome'[j] = "complete" =>
          \/ cancelled[j] /\ outcome[j] = "complete"
          \/ GivenUp(j)
    BY <1>4 DEF WorkerNext, WorkerStep, IsolatedStep, TakePublicationLock, RefusePublication,
       BeginReplacement, Replace, ReturnFromConnector, Judge, SkipCache, RecordScope, RecordExport,
       WorkerRaises, IsolatedPublish, IsolatedReceive, IsolatedAccept, IsolatedDeliver, IsolatedFail,
       CancelFailed, Finish, Dead, FateInv, LedgerInv
  <2> QED
    BY <1>4, <2>1, WorkerEffect DEF fateVars
<1>5. CASE SupervisorNext
  <2> USE DEF workerVars, jobVars, fateVars, LoopInv, FateInv, EndOfLoop
  <2>1. CASE Poll
    BY <2>1 DEF Poll
  <2>2. CASE Settle
    BY <2>2 DEF Settle
  <2>3. CASE ExpireRecord
    BY <2>3 DEF ExpireRecord
  <2>4. CASE Decide
    BY <2>4 DEF Decide
  <2>5. CASE Stop
    BY <2>5 DEF Stop, Results
  <2>6. CASE Report
    BY <2>6 DEF Report
  <2>7. ASSUME NEW j \in Jobs, ExpireCancel(j) PROVE CancelInv'
    BY <2>7 DEF ExpireCancel
  <2>8. ASSUME NEW j \in Jobs, AbandonQueued(j) PROVE CancelInv'
    BY <2>8 DEF AbandonQueued
  <2> QED
    BY <1>5, <2>1, <2>2, <2>3, <2>4, <2>5, <2>6, <2>7, <2>8 DEF SupervisorNext
<1>6. CASE Interrupt
  BY <1>6 DEF Interrupt, fateVars
<1>7. CASE NextRun
  BY <1>7 DEF NextRun
<1> QED
  BY <1>1, <1>2, <1>3, <1>4, <1>5, <1>6, <1>7 DEF Next

----------------------------------------------------------------------------
(* The inductive invariant *)

LEMMA InvariantInit == Init => IInv
<1> SUFFICES ASSUME Init PROVE IInv
  OBVIOUS
<1>1. TypeOK
  BY TypeInit
<1> QED
  BY <1>1, AssumedConstants
  DEF Init, IInv, LoopInv, FateInv, ReplacementInv, CancelInv, GivenUp, LedgerInv, Running

LEMMA InvariantStep == IInv /\ [Next]_vars => IInv'
BY TypeStep, LoopStep, FateStep, ReplacementStep, CancelStep, LedgerStep DEF IInv

\* The invariant holds of every scan.
THEOREM Invariance == Spec => []IInv
BY InvariantInit, InvariantStep, PTL DEF Spec

\* No accepted result is late, cancelled or missing from the ledgers.
THEOREM AcceptedJobsAreWhole == Spec => []AcceptedJobIsWhole
<1>1. IInv => AcceptedJobIsWhole
  BY DEF IInv, TypeOK, FateInv, GivenUp, LedgerInv, AcceptedJobIsWhole
<1> QED
  BY <1>1, Invariance, PTL

\* After its cancellation a job starts no replacement.
THEOREM NoReplacementStartsLate == Spec => NoLateReplacement
<1>1. IInv /\ [Next]_vars =>
        [\A j \in Jobs \ Isolated :
           ~artifact[j] /\ artifact'[j] /\ cancelled[j] => j \in inFlight]_vars
  <2> SUFFICES ASSUME IInv, [Next]_vars, NEW j \in Jobs \ Isolated,
                      ~artifact[j], artifact'[j], cancelled[j]
               PROVE  j \in inFlight
    OBVIOUS
  <2>1. WorkerNext(j)
    <3>1. \A i \in Jobs : WorkerNext(i) => i = j
      BY WorkerEffect DEF IInv
    <3>2. ~SupervisorNext
      BY DEF SupervisorNext, Poll, Settle, ExpireRecord, Decide, Stop, Report, ExpireCancel,
         AbandonQueued, workerVars, jobVars
    <3>3. ~Interrupt /\ ~UNCHANGED vars /\ \A i \in Jobs : ~DeadlinePasses(i) /\ ~Start(i)
      BY DEF Interrupt, vars, jobVars, DeadlinePasses, Start
    <3>4. ~NextRun
      BY DEF NextRun
    <3> QED
      BY <3>1, <3>2, <3>3, <3>4 DEF Next
  <2>2. step[j] = "replacing"
    BY <2>1 DEF WorkerNext, WorkerStep, IsolatedStep, TakePublicationLock, RefusePublication,
       BeginReplacement, Replace, ReturnFromConnector, Judge, SkipCache, RecordScope, RecordExport,
       WorkerRaises, IsolatedPublish, IsolatedReceive, IsolatedAccept, IsolatedDeliver, IsolatedFail, CancelFailed,
       Finish
  <2> QED
    BY <2>2 DEF IInv, ReplacementInv
<1> QED
  BY <1>1, Invariance, PTL DEF Spec, NoLateReplacement

\* The next scan of an Engine starts with no worker of the last one running.
THEOREM ScansDoNotOverlap == Spec => NoOverlap
<1>1. IInv /\ [Next]_vars => [run' # run => \A j \in Jobs : ~Running(j)]_vars
  <2> SUFFICES ASSUME IInv, [Next]_vars, run' # run PROVE \A j \in Jobs : ~Running(j)
    OBVIOUS
  <2>1. NextRun
    <3>1. \A i \in Jobs : ~WorkerNext(i)
      BY WorkerEffect DEF IInv
    <3>2. ~SupervisorNext
      BY DEF SupervisorNext, Poll, Settle, ExpireRecord, Decide, Stop, Report, ExpireCancel,
         AbandonQueued, workerVars
    <3>3. ~Interrupt /\ ~UNCHANGED vars /\ \A i \in Jobs : ~DeadlinePasses(i) /\ ~Start(i)
      BY DEF Interrupt, vars, DeadlinePasses, Start
    <3> QED
      BY <3>1, <3>2, <3>3 DEF Next
  <2> QED
    BY <2>1 DEF NextRun, IInv, LoopInv, FateInv, Running
<1> QED
  BY <1>1, Invariance, PTL DEF Spec, NoOverlap

----------------------------------------------------------------------------
(* Reports *)

\* A worker leaves a published report, and the artifacts it vouches for, alone.
LEMMA ReportKept ==
    ASSUME TypeOK, [Next]_vars, sup' = "reported", sup = "reported"
    PROVE  report' = report /\ \A j \in Jobs : artifact[j] => artifact'[j]
<1> USE DEF TypeOK
<1>1. CASE UNCHANGED vars
  BY <1>1 DEF vars, jobVars
<1>2. ASSUME NEW j \in Jobs, DeadlinePasses(j) \/ Start(j)
      PROVE  report' = report /\ artifact' = artifact
  BY <1>2 DEF DeadlinePasses, Start
<1>3. ASSUME NEW j \in Jobs, WorkerNext(j)
      PROVE  report' = report /\ \A i \in Jobs : artifact[i] => artifact'[i]
  BY <1>3, WorkerEffect
<1>4. ~SupervisorNext /\ ~Interrupt /\ ~NextRun
  BY DEF SupervisorNext, Poll, Settle, ExpireRecord, Decide, Stop, Report, ExpireCancel,
     AbandonQueued, Interrupt, NextRun
<1> QED
  BY <1>1, <1>2, <1>3, <1>4 DEF Next

\* Only Report publishes one.
LEMMA ReportPublishes ==
    ASSUME TypeOK, [Next]_vars, sup' = "reported", sup # "reported"
    PROVE  Report
<1>1. ~UNCHANGED vars /\ ~Interrupt /\ ~NextRun
  BY DEF vars, Interrupt, NextRun
<1>2. \A j \in Jobs : ~DeadlinePasses(j) /\ ~Start(j)
  BY DEF DeadlinePasses, Start
<1>3. \A j \in Jobs : ~WorkerNext(j)
  BY WorkerEffect
<1>4. \/ Report
      \/ ~SupervisorNext
  BY DEF SupervisorNext, Poll, Settle, ExpireRecord, Decide, Stop, ExpireCancel, AbandonQueued,
     EndOfLoop
<1> QED
  BY <1>1, <1>2, <1>3, <1>4 DEF Next

\* When the supervisor reports, every job is accepted or timed out, never both.
LEMMA AllDecided ==
    ASSUME IInv, sup = "reporting", NEW j \in Jobs
    PROVE  completed[j] = "accepted" <=> j \notin timedOut
BY DEF IInv, TypeOK, Results, LoopInv, FateInv

LEMMA ScopeStep == IInv /\ ScopeSound /\ [Next]_vars => ScopeSound'
<1> SUFFICES ASSUME IInv, ScopeSound, [Next]_vars, sup' = "reported"
             PROVE  report'.scopes \subseteq report'.accepted
  BY DEF ScopeSound
<1> USE DEF IInv
<1>1. CASE sup = "reported"
  BY <1>1, ReportKept DEF ScopeSound
<1>2. CASE sup # "reported"
  <2>1. Report /\ sup = "reporting"
    BY <1>2, ReportPublishes DEF Report
  <2>2. /\ report'.scopes = scopes \ timedOut
        /\ report'.accepted = {j \in Jobs : completed[j] = "accepted"}
    BY <2>1 DEF Report, ScopesReported
  <2>3. scopes \subseteq Jobs
    BY DEF TypeOK
  <2> QED
    BY <2>1, <2>2, <2>3, AllDecided
<1> QED
  BY <1>1, <1>2

\* What a scan attests to have collected, its findings hold.
THEOREM ScopesAreSound == Spec => []ScopeSound
<1>1. Init => ScopeSound
  BY DEF Init, ScopeSound
<1> QED
  BY <1>1, ScopeStep, Invariance, PTL DEF Spec

\* The manifest of a scan that is being reported.
LEMMA ManifestReported ==
    ASSUME IInv, Report, DumpRecords
    PROVE  ManifestSound'
<1> USE DEF IInv
<1> DEFINE manifest == ExportsReported
<1>1. /\ sup = "reporting"
      /\ report'.exports = manifest
      /\ report'.accepted = {j \in Jobs : completed[j] = "accepted"}
      /\ report'.complete = \A j \in Jobs : CollectedInFull(j)
      /\ artifact' = artifact
  BY DEF Report, workerVars, jobVars
<1>2. manifest = {e \in exports : e.job \notin timedOut} \cup {FailureEntry(j) : j \in timedOut}
  BY DEF ExportsReported
<1>3. \A e \in exports : e.job \in Jobs
  BY DEF TypeOK, ExportEntries
<1>4. timedOut \subseteq Jobs
  BY DEF TypeOK
<1>5. ASSUME NEW e \in manifest
      PROVE  /\ e.exported => e.job \in report'.accepted /\ artifact'[e.job]
             /\ \A f \in manifest : f.job = e.job => f = e
  <2>1. CASE e \in exports /\ e.job \notin timedOut
    <3>1. e.job \in report'.accepted
      BY <1>1, <1>3, <2>1, AllDecided
    <3>2. e.exported => artifact'[e.job]
      BY <1>1, <2>1 DEF LedgerInv
    <3>3. ASSUME NEW f \in manifest, f.job = e.job PROVE f = e
      BY <1>2, <2>1, <3>3 DEF LedgerInv, FailureEntry
    <3> QED
      BY <3>1, <3>2, <3>3
  <2>2. CASE \E j \in timedOut : e = FailureEntry(j)
    <3>1. PICK j \in timedOut : e = FailureEntry(j)
      BY <2>2
    <3>2. ~e.exported /\ e.job = j
      BY <3>1 DEF FailureEntry
    <3>3. ASSUME NEW f \in manifest, f.job = e.job PROVE f = e
      BY <1>2, <3>1, <3>2, <3>3 DEF FailureEntry
    <3> QED
      BY <3>2, <3>3
  <2> QED
    BY <1>2, <2>1, <2>2
<1>6. \A j \in Jobs \ report'.accepted : FailureEntry(j) \in manifest
  BY <1>1, <1>2, AllDecided
<1>7. ASSUME report'.complete, NEW j \in Jobs
      PROVE  \E e \in manifest : e.job = j /\ e.complete
  <2>1. completed[j] = "accepted" /\ outcome[j] = "complete" /\ j \notin timedOut
    BY <1>1, <1>7, AllDecided DEF CollectedInFull
  <2>2. ResultEntry(j) \in exports
    BY <1>1, <2>1 DEF FateInv, GivenUp, LedgerInv
  <2>3. ResultEntry(j).job = j /\ ResultEntry(j).complete
    BY <2>1 DEF ResultEntry
  <2> QED
    BY <1>2, <2>1, <2>2, <2>3
<1> QED
  BY <1>1, <1>5, <1>6, <1>7 DEF ManifestSound, FailureEntry

LEMMA ManifestStep == IInv /\ ManifestSound /\ [Next]_vars => ManifestSound'
<1> SUFFICES ASSUME IInv, ManifestSound, [Next]_vars, sup' = "reported", DumpRecords
             PROVE  ManifestSound'
  BY DEF ManifestSound
<1>1. CASE sup = "reported"
  <2>1. report' = report /\ \A j \in Jobs : artifact[j] => artifact'[j]
    BY <1>1, ReportKept DEF IInv
  <2>2. \A e \in report.exports : e.exported => e.job \in report.accepted /\ artifact[e.job]
    BY <1>1 DEF ManifestSound
  <2>3. report.accepted \subseteq Jobs
    BY DEF IInv, TypeOK, Reports
  <2> QED
    BY <1>1, <2>1, <2>2, <2>3 DEF ManifestSound, FailureEntry
<1>2. CASE sup # "reported"
  BY <1>2, ReportPublishes, ManifestReported DEF IInv
<1> QED
  BY <1>1, <1>2

\* The export manifest vouches only for files of accepted jobs and hides no failure.
THEOREM ManifestsAreSound == Spec => []ManifestSound
<1>1. Init => ManifestSound
  BY DEF Init, ManifestSound
<1> QED
  BY <1>1, ManifestStep, Invariance, PTL DEF Spec

----------------------------------------------------------------------------
(* The queue *)

TimedOutJobs == {j \in Jobs : completed[j] = "timeout"}

\* A queue that is being given up, or was, cost as many timeouts as there are slots.
QueueInv ==
    (abandoning # {} \/ \E j \in Jobs : completed[j] = "unstarted") =>
        Cardinality(TimedOutJobs) >= Workers

LEMMA WorkersType == Workers \in Nat
BY AssumedConstants DEF Workers

LEMMA JobSetsAreFinite ==
    ASSUME NEW S \in SUBSET Jobs
    PROVE  IsFiniteSet(S) /\ Cardinality(S) \in Nat
<1>1. IsFiniteSet(Jobs)
  BY AssumedConstants, FS_Interval DEF Jobs
<1> QED
  BY <1>1, FS_Subset, FS_CardinalityType

\* When every slot is held by a timed-out call, as many jobs have timed out.
LEMMA FullQueue ==
    ASSUME TypeOK, LoopInv, FateInv, sup = "deciding", CapacityExhausted
    PROVE  Cardinality(TimedOutJobs) >= Workers
<1>1. ASSUME NEW j \in RunningJobs PROVE j \in TimedOutJobs
  <2>1. j \in Jobs /\ j \in timedOut /\ Running(j)
    BY DEF CapacityExhausted, RunningJobs
  <2>2. expiring = NoJob
    BY DEF LoopInv
  <2>3. completed[j] \notin {"none", "accepted", "unstarted"}
    BY <2>1, <2>2, AssumedConstants DEF FateInv, Running
  <2> QED
    BY <2>1, <2>3 DEF TimedOutJobs, TypeOK, Results
<1>2. TimedOutJobs \in SUBSET Jobs /\ RunningJobs \in SUBSET Jobs
  BY DEF TimedOutJobs, RunningJobs
<1>3. Cardinality(RunningJobs) <= Cardinality(TimedOutJobs)
  BY <1>1, <1>2, JobSetsAreFinite, FS_Subset
<1>4. Cardinality(RunningJobs) \in Nat /\ Cardinality(TimedOutJobs) \in Nat
  BY <1>2, JobSetsAreFinite
<1> QED
  BY <1>3, <1>4, WorkersType DEF CapacityExhausted

\* Timed-out jobs stay timed out until the next scan.
LEMMA TimeoutsKept ==
    ASSUME TypeOK, TypeOK', \A j \in Jobs : completed[j] = "timeout" => completed'[j] = "timeout"
    PROVE  Cardinality(TimedOutJobs') >= Cardinality(TimedOutJobs)
<1>1. TimedOutJobs \subseteq TimedOutJobs' /\ TimedOutJobs' \in SUBSET Jobs
  BY DEF TimedOutJobs
<1>2. IsFiniteSet(TimedOutJobs')
  BY <1>1, JobSetsAreFinite
<1> QED
  BY <1>1, <1>2, FS_Subset

LEMMA QueueStep == IInv /\ QueueInv /\ [Next]_vars => QueueInv'
<1> SUFFICES ASSUME IInv, QueueInv, [Next]_vars PROVE QueueInv'
  OBVIOUS
<1>1. TypeOK /\ TypeOK' /\ LoopInv /\ FateInv
  BY TypeStep DEF IInv
<1>2. ASSUME \A j \in Jobs : completed[j] = "timeout" => completed'[j] = "timeout",
             abandoning' # {} => abandoning # {},
             \A j \in Jobs : completed'[j] = "unstarted" =>
                 completed[j] = "unstarted" \/ abandoning # {}
      PROVE  QueueInv'
  <2>1. Cardinality(TimedOutJobs') >= Cardinality(TimedOutJobs)
    BY <1>1, <1>2, TimeoutsKept
  <2>2. Cardinality(TimedOutJobs') \in Nat /\ Cardinality(TimedOutJobs) \in Nat
    BY JobSetsAreFinite DEF TimedOutJobs
  <2> QED
    BY <1>2, <2>1, <2>2, WorkersType DEF QueueInv
<1> USE <1>1 DEF TypeOK
<1>3. CASE UNCHANGED vars
  BY <1>2, <1>3 DEF vars, loopVars, fateVars
<1>4. ASSUME NEW j \in Jobs, DeadlinePasses(j) \/ Start(j) PROVE QueueInv'
  BY <1>2, <1>4 DEF DeadlinePasses, Start, loopVars, fateVars
<1>5. ASSUME NEW j \in Jobs, WorkerNext(j) PROVE QueueInv'
  BY <1>2, <1>5, WorkerEffect DEF loopVars, fateVars
<1>6. CASE SupervisorNext
  <2>1. CASE Poll
    BY <1>2, <2>1 DEF Poll, fateVars
  <2>2. CASE Settle
    BY <1>2, <2>2 DEF Settle, FateInv, LoopInv
  <2>3. CASE ExpireRecord
    BY <1>2, <2>3 DEF ExpireRecord
  <2>4. CASE Decide
    <3>1. CASE CapacityExhausted
      <4>1. sup = "deciding" /\ completed' = completed
        BY <2>4 DEF Decide, fateVars
      <4>2. TimedOutJobs' = TimedOutJobs
        BY <4>1 DEF TimedOutJobs
      <4> QED
        BY <3>1, <4>1, <4>2, FullQueue DEF QueueInv
    <3>2. CASE ~CapacityExhausted
      BY <1>2, <2>4, <3>2 DEF Decide, fateVars
    <3> QED
      BY <3>1, <3>2
  <2>5. CASE Stop
    BY <1>2, <2>5 DEF Stop, loopVars, fateVars
  <2>6. CASE Report
    BY <1>2, <2>6 DEF Report, loopVars, fateVars
  <2>7. ASSUME NEW j \in Jobs, ExpireCancel(j) PROVE QueueInv'
    BY <1>2, <2>7 DEF ExpireCancel
  <2>8. ASSUME NEW j \in Jobs, AbandonQueued(j) PROVE QueueInv'
    <3>1. completed[j] = "none" \/ completed' = completed
      BY <2>8 DEF AbandonQueued, FateInv
    <3> QED
      BY <1>2, <2>8, <3>1 DEF AbandonQueued
  <2> QED
    BY <1>6, <2>1, <2>2, <2>3, <2>4, <2>5, <2>6, <2>7, <2>8 DEF SupervisorNext
<1>7. CASE Interrupt
  BY <1>2, <1>7 DEF Interrupt, fateVars
<1>8. CASE NextRun
  BY <1>8 DEF NextRun, QueueInv
<1> QED
  BY <1>3, <1>4, <1>5, <1>6, <1>7, <1>8 DEF Next

\* No queued job is given up before every slot was lost to a timed-out call.
THEOREM QueueIsAbandonedForCause == Spec => []QueueAbandonedForCause
<1>1. Init => QueueInv
  BY DEF Init, QueueInv
<1>2. QueueInv => QueueAbandonedForCause
  BY DEF QueueInv, QueueAbandonedForCause, TimedOutJobs
<1> QED
  BY <1>1, <1>2, QueueStep, Invariance, PTL DEF Spec

----------------------------------------------------------------------------
(* The contract *)

\* A step that decides nothing and moves no job between idle, working and delivered is
\* invisible in the contract.
LEMMA ContractStutters ==
    ASSUME UNCHANGED completed, UNCHANGED overran,
           \A j \in Jobs : Delivery(j)' = Delivery(j),
           (sup' = "reported") <=> (sup = "reported"),
           report'.accepted = report.accepted
    PROVE  UNCHANGED Contract!vars
BY DEF Contract!vars, Fate

LEMMA ContractInit == Init => Contract!Init
<1> SUFFICES ASSUME Init PROVE Contract!Init
  OBVIOUS
<1>1. \A j \in Jobs : Delivery(j) = "idle" /\ Fate(j) = "open"
  BY DEF Init, Delivery, Fate
<1>2. report.accepted = {} /\ sup # "reported"
  BY DEF Init, EmptyReport
<1> QED
  BY <1>1, <1>2 DEF Contract!Init, Contract!NoReport

LEMMA ContractStep == IInv /\ [Next]_vars => [Contract!Next]_(Contract!vars)
<1> SUFFICES ASSUME IInv, [Next]_vars PROVE Contract!Next \/ UNCHANGED Contract!vars
  OBVIOUS
<1> USE DEF IInv, TypeOK
<1>1. CASE UNCHANGED vars
  BY <1>1, ContractStutters DEF vars, jobVars, fateVars, Delivery
<1>2. ASSUME NEW j \in Jobs, DeadlinePasses(j) PROVE UNCHANGED Contract!vars
  BY <1>2, ContractStutters DEF DeadlinePasses, fateVars, Delivery
<1>3. ASSUME NEW j \in Jobs, Start(j) PROVE Contract!Begin(j)
  <2>1. /\ Delivery(j) = "idle" /\ Delivery(j)' = "working"
        /\ \A i \in Jobs \ {j} : Delivery(i)' = Delivery(i)
    BY <1>3 DEF Start, Delivery
  <2>2. Fate(j) = "open"
    BY <1>3 DEF Start, Fate, FateInv
  <2>3. (\A i \in Jobs : Fate(i)' = Fate(i)) /\ sup' = sup /\ report' = report
    BY <1>3 DEF Start, fateVars, Fate
  <2> QED
    BY <2>1, <2>2, <2>3 DEF Contract!Begin
<1>4. ASSUME NEW j \in Jobs, WorkerNext(j) PROVE Contract!Deliver(j) \/ UNCHANGED Contract!vars
  <2>1. /\ UNCHANGED <<completed, sup, report>>
        /\ step[j] \notin {"queued", "withdrawn", "done"}
        /\ \A i \in Jobs \ {j} : step'[i] = step[i] /\ overran'[i] = overran[i]
        /\ step'[j] \notin {"queued", "withdrawn"}
    BY <1>4, WorkerEffect DEF fateVars, Running
  <2>2. \A i \in Jobs \ {j} : Delivery(i)' = Delivery(i)
    BY <2>1 DEF Delivery
  <2>3. Delivery(j) = "working"
    BY <2>1 DEF Delivery
  <2>4. \A i \in Jobs : Fate(i)' = Fate(i)
    BY <2>1 DEF Fate
  <2>5. CASE step'[j] = "done"
    <3>1. PICK d \in {"inTime", "late"} : Delivery(j)' = d
      BY <2>5 DEF Delivery
    <3>2. [i \in Jobs |-> Delivery(i)]' = [[i \in Jobs |-> Delivery(i)] EXCEPT ![j] = d]
      BY <2>2, <3>1
    <3>3. [i \in Jobs |-> Fate(i)]' = [i \in Jobs |-> Fate(i)]
      BY <2>4
    <3> QED
      BY <2>1, <2>3, <3>2, <3>3 DEF Contract!Deliver
  <2>6. CASE step'[j] # "done"
    <3>1. Delivery(j)' = Delivery(j)
      BY <2>1, <2>3, <2>6 DEF Delivery
    <3> QED
      BY <2>1, <2>2, <2>4, <3>1 DEF Contract!vars
  <2> QED
    BY <2>5, <2>6
<1>5. CASE SupervisorNext
  <2> USE DEF workerVars, jobVars
  <2>1. CASE Poll
    BY <2>1, ContractStutters DEF Poll, fateVars, Delivery
  <2>2. CASE Settle
    <3> DEFINE accepted == {j \in observed : ~overran[j]}
    <3>1. /\ completed' = [j \in Jobs |-> IF j \in accepted THEN "accepted" ELSE completed[j]]
          /\ sup # "reported" /\ sup' # "reported"
          /\ UNCHANGED <<step, overran, report>>
      <4>1. sup = "settling" /\ UNCHANGED <<step, overran, report>>
        BY <2>2 DEF Settle
      <4>2. sup' # "reported"
        BY <2>2 DEF Settle, EndOfLoop
      <4>3. completed' = [j \in Jobs |-> IF j \in accepted THEN "accepted" ELSE completed[j]]
        BY <2>2 DEF Settle
      <4> QED
        BY <4>1, <4>2, <4>3
    <3>2. \A j \in Jobs : Delivery(j)' = Delivery(j)
      BY <3>1 DEF Delivery
    <3>3. CASE accepted = {}
      BY <3>1, <3>2, <3>3, ContractStutters
    <3>4. CASE accepted # {}
      <4>1. \A j \in accepted : j \in Jobs /\ Fate(j) = "open" /\ Delivery(j) = "inTime"
        BY <2>2 DEF Settle, LoopInv, FateInv, Fate, Delivery
      <4>2. \A j \in Jobs : Fate(j)' = IF j \in accepted THEN "accepted" ELSE Fate(j)
        BY <3>1 DEF Fate
      <4>3. accepted \in (SUBSET Jobs) \ {{}}
        BY <3>4, <4>1
      <4>4. Contract!Accept(accepted)
        BY <3>1, <3>2, <4>1, <4>2 DEF Contract!Accept
      <4> QED
        BY <4>3, <4>4 DEF Contract!Next
    <3> QED
      BY <3>3, <3>4
  <2>3. CASE ExpireRecord
    <3>1. /\ expiring \in Jobs /\ completed[expiring] = "none"
          /\ completed' = [completed EXCEPT ![expiring] = "timeout"]
          /\ sup # "reported" /\ sup' # "reported"
          /\ UNCHANGED <<step, overran, report>>
      BY <2>3 DEF ExpireRecord, EndOfLoop, LoopInv, FateInv
    <3>2. Contract!Discard(expiring)
      BY <3>1 DEF Contract!Discard, Fate, Delivery
    <3> QED
      BY <3>1, <3>2 DEF Contract!Next
  <2>4. CASE Decide
    BY <2>4, ContractStutters DEF Decide, fateVars, Delivery
  <2>5. CASE Stop
    BY <2>5, ContractStutters DEF Stop, fateVars, Delivery
  <2>6. CASE Report
    <3>1. /\ sup = "reporting" /\ sup' = "reported"
          /\ report'.accepted = {j \in Jobs : completed[j] = "accepted"}
          /\ UNCHANGED <<step, overran, completed>>
      BY <2>6 DEF Report, fateVars
    <3>2. \A j \in Jobs : Fate(j)' = Fate(j) /\ Delivery(j)' = Delivery(j)
      BY <3>1 DEF Fate, Delivery
    <3>3. \A j \in Jobs : Fate(j) # "open" /\ (Fate(j) = "accepted" <=> completed[j] = "accepted")
      BY <3>1 DEF LoopInv, FateInv, Fate
    <3>4. Contract!Publish
      BY <3>1, <3>2, <3>3 DEF Contract!Publish
    <3> QED
      BY <3>4 DEF Contract!Next
  <2>7. ASSUME NEW j \in Jobs, ExpireCancel(j) PROVE UNCHANGED Contract!vars
    BY <2>7, ContractStutters DEF ExpireCancel, Delivery
  <2>8. ASSUME NEW j \in Jobs, AbandonQueued(j)
        PROVE  Contract!Discard(j) \/ UNCHANGED Contract!vars
    <3>1. /\ UNCHANGED <<overran, report>>
          /\ sup # "reported" /\ sup' # "reported"
      BY <2>8 DEF AbandonQueued
    <3>2. CASE step[j] = "queued"
      <4>1. /\ step' = [step EXCEPT ![j] = "withdrawn"]
            /\ completed' = [completed EXCEPT ![j] = "unstarted"]
            /\ completed[j] = "none"
        BY <2>8, <3>2 DEF AbandonQueued, FateInv
      <4>2. \A i \in Jobs : Delivery(i)' = Delivery(i)
        BY <3>1, <3>2, <4>1 DEF Delivery
      <4>3. /\ Fate(j) = "open" /\ Fate(j)' = "discarded"
            /\ \A i \in Jobs \ {j} : Fate(i)' = Fate(i)
        BY <4>1 DEF Fate
      <4> QED
        BY <3>1, <4>2, <4>3 DEF Contract!Discard
    <3>3. CASE step[j] # "queued"
      <4>1. UNCHANGED <<step, completed>>
        BY <2>8, <3>3 DEF AbandonQueued
      <4> QED
        BY <3>1, <4>1, ContractStutters DEF Delivery
    <3> QED
      BY <3>2, <3>3
  <2> QED
    BY <1>5, <2>1, <2>2, <2>3, <2>4, <2>5, <2>6, <2>7, <2>8 DEF SupervisorNext, Contract!Next
<1>6. CASE Interrupt
  BY <1>6, ContractStutters DEF Interrupt, fateVars, Delivery
<1>7. CASE NextRun
  <2>1. \A j \in Jobs : Delivery(j) # "working"
    BY <1>7 DEF NextRun, LoopInv, FateInv, Running, Delivery
  <2>2. /\ sup = "reported" /\ sup' = "waiting" /\ report'.accepted = {}
        /\ \A j \in Jobs : Delivery(j)' = "idle" /\ Fate(j)' = "open"
    BY <1>7 DEF NextRun, EmptyReport, Delivery, Fate
  <2>3. Contract!NextScan
    BY <2>1, <2>2 DEF Contract!NextScan, Contract!NoReport
  <2> QED
    BY <2>3 DEF Contract!Next
<1> QED
  BY <1>1, <1>2, <1>3, <1>4, <1>5, <1>6, <1>7 DEF Next, Contract!Next

\* The engine keeps the contract of a scan.
THEOREM EngineKeepsContract == Spec => ImplementsContract
BY ContractInit, ContractStep, Invariance, PTL DEF Spec, ImplementsContract, Contract!Spec

----------------------------------------------------------------------------
(* The contract of isolated jobs *)

LEMMA ProcessInit == Init => Process!Init
<1> SUFFICES ASSUME Init PROVE Process!Init
  OBVIOUS
<1>1. \A j \in Isolated : Stage(j) = "idle" /\ cancelled[j] = FALSE
  BY KindAssumption DEF Init, Stage
<1>2. ASSUME NEW j \in Isolated PROVE Late(j) = FALSE
  <2>1. clock[j] = 0
    BY KindAssumption DEF Init
  <2>2. ~(0 >= 1)
    OBVIOUS
  <2> QED
    BY <2>1, <2>2 DEF Late
<1>3. Recorded = {}
  BY DEF Init, Recorded
<1>4. [j \in Isolated |-> Stage(j)] \in [Isolated -> {"idle", "working"}]
  BY <1>1
<1>5. [j \in Isolated |-> Late(j)] = [j \in Isolated |-> FALSE]
  BY <1>2, Zenon
<1>6. [j \in Isolated |-> cancelled[j]] = [j \in Isolated |-> FALSE]
  BY <1>1
<1> QED
  BY <1>3, <1>4, <1>5, <1>6 DEF Process!Init

\* What the contract does not see.
LEMMA ProcessStutters ==
    ASSUME \A j \in Isolated : Stage(j)' = Stage(j) /\ clock'[j] = clock[j] /\ cancelled'[j] = cancelled[j],
           Recorded' = Recorded
    PROVE  UNCHANGED Process!vars
BY DEF Process!vars, Late

\* One isolated job moves on.
LEMMA ProcessAdvance ==
    ASSUME NEW j \in Isolated, UNCHANGED clock, NEW from, NEW to, Stage(j) = from, Stage(j)' = to,
           \A i \in Isolated \ {j} : step'[i] = step[i]
    PROVE  /\ Process!Advance(j, from, to)
           /\ [i \in Isolated |-> Late(i)]' = [i \in Isolated |-> Late(i)]
<1>1. \A i \in Isolated \ {j} : Stage(i)' = Stage(i)
  BY DEF Stage
<1>2. [i \in Isolated |-> Stage(i)]' = [[i \in Isolated |-> Stage(i)] EXCEPT ![j] = to]
  BY <1>1
<1> QED
  BY <1>2 DEF Process!Advance, Late

\* The supervisor cancels isolated jobs.
LEMMA ProcessCancels ==
    ASSUME UNCHANGED <<clock, exports>>, \A j \in Isolated : Stage(j)' = Stage(j),
           NEW js \in SUBSET Isolated,
           \A j \in Isolated : cancelled'[j] = (cancelled[j] \/ j \in js)
    PROVE  Process!Cancel(js)
BY DEF Process!Cancel, Late, Recorded

\* What the ledger takes from an isolated job.
LEMMA ProcessRecords ==
    ASSUME NEW j \in Isolated, NEW e \in {ResultEntry(j), FailureEntry(j)}, exports' = WithEntry(j, e)
    PROVE  Recorded' = IF cancelled[j] THEN Recorded ELSE Recorded \cup {j}
<1>1. e.job = j
  BY DEF ResultEntry, FailureEntry
<1> QED
  BY <1>1 DEF Recorded, WithEntry

LEMMA IsolatedStepKept ==
    ASSUME TypeOK, NEW j \in Isolated,
           \/ IsolatedReceive(j) \/ IsolatedAccept(j) \/ IsolatedDeliver(j)
           \/ IsolatedFail(j) \/ CancelFailed(j)
    PROVE  \/ Process!Receive(j) \/ Process!Accept(j) \/ Process!Deliver(j)
           \/ Process!Fail(j) \/ Process!CancelFailed(j)
<1> USE DEF TypeOK, IsolatedStep
<1>0. j \in Jobs /\ Isolated \subseteq Jobs
  BY KindAssumption
<1>1. CASE IsolatedReceive(j)
  <2>1. /\ Stage(j) = "working" /\ Stage(j)' = "received" /\ ~Late(j) /\ ~cancelled[j]
        /\ UNCHANGED <<clock, cancelled, exports>>
        /\ \A i \in Isolated \ {j} : step'[i] = step[i]
    BY <1>0, <1>1 DEF IsolatedReceive, ledgerVars, Stage, Dead, Late
  <2>2. Process!Receive(j)
    BY <2>1, ProcessAdvance DEF Process!Receive, Process!Live, Recorded
  <2> QED
    BY <2>2
<1>2. CASE IsolatedAccept(j)
  <2>1. /\ Stage(j) = "received" /\ Stage(j)' = "delivering" /\ ~Late(j) /\ ~cancelled[j]
        /\ UNCHANGED <<clock, cancelled, exports>>
        /\ \A i \in Isolated \ {j} : step'[i] = step[i]
    BY <1>0, <1>2 DEF IsolatedAccept, ledgerVars, Stage, Dead, Late
  <2>2. Process!Accept(j)
    BY <2>1, ProcessAdvance DEF Process!Accept, Process!Live, Recorded
  <2> QED
    BY <2>2
<1>3. CASE IsolatedDeliver(j)
  <2>1. /\ Stage(j) = "delivering" /\ Stage(j)' = "returned"
        /\ UNCHANGED <<clock, cancelled>>
        /\ \A i \in Isolated \ {j} : step'[i] = step[i]
    BY <1>0, <1>3 DEF IsolatedDeliver, Stage
  <2>2. Recorded' = Recorded \cup Process!Entry(j)
    <3>1. CASE DumpRecords
      <4>1. exports' = WithEntry(j, ResultEntry(j))
        BY <1>3, <3>1 DEF IsolatedDeliver
      <4> QED
        BY <2>1, <3>1, <4>1, ProcessRecords DEF Process!Entry
    <3>2. CASE ~DumpRecords
      BY <1>3, <3>2 DEF IsolatedDeliver, Recorded, Process!Entry
    <3> QED
      BY <3>1, <3>2
  <2>3. Process!Deliver(j)
    BY <2>1, <2>2, ProcessAdvance DEF Process!Deliver
  <2> QED
    BY <2>3
<1>4. CASE IsolatedFail(j)
  <2>1. /\ Stage(j) \in {"working", "received"} /\ Stage(j)' = "failed"
        /\ Stage(j) = "received" => Late(j) \/ cancelled[j]
        /\ UNCHANGED <<clock, cancelled>> /\ exports' = WithEntry(j, FailureEntry(j))
        /\ \A i \in Isolated \ {j} : step'[i] = step[i]
    BY <1>0, <1>4 DEF IsolatedFail, Stage, Dead, Late
  <2>2. Recorded' = IF cancelled[j] THEN Recorded ELSE Recorded \cup {j}
    BY <2>1, ProcessRecords
  <2>3. Process!Fail(j)
    BY <2>1, <2>2, ProcessAdvance DEF Process!Fail, Process!Live
  <2> QED
    BY <2>3
<1>5. CASE CancelFailed(j)
  <2>1. /\ Stage(j) = "failed" /\ Stage(j)' = "returned"
        /\ UNCHANGED <<clock, exports>> /\ cancelled' = [cancelled EXCEPT ![j] = TRUE]
        /\ \A i \in Isolated \ {j} : step'[i] = step[i]
    BY <1>0, <1>5 DEF CancelFailed, ledgerVars, Stage
  <2>2. [i \in Isolated |-> cancelled'[i]] = [[i \in Isolated |-> cancelled[i]] EXCEPT ![j] = TRUE]
    BY <1>0, <2>1
  <2>3. Process!CancelFailed(j)
    BY <2>1, <2>2, ProcessAdvance DEF Process!CancelFailed, Recorded
  <2> QED
    BY <2>3
<1> QED
  BY <1>1, <1>2, <1>3, <1>4, <1>5

\* A worker of the thread backend is none of the contract's business.
LEMMA ThreadStepUnseen ==
    ASSUME TypeOK, NEW j \in Jobs \ Isolated, WorkerNext(j)
    PROVE  UNCHANGED Process!vars
<1>0. Isolated \subseteq Jobs
  BY KindAssumption
<1>1. \A i \in Isolated : /\ step'[i] = step[i] /\ clock'[i] = clock[i]
                           /\ cancelled'[i] = cancelled[i]
  BY <1>0, WorkerEffect
<1>2. exports' \ exports \subseteq {ResultEntry(j)} /\ exports \subseteq exports'
  <2>1. CASE RecordExport(j)
    BY <2>1 DEF RecordExport, WithEntry
  <2>2. CASE ~RecordExport(j)
    <3>1. UNCHANGED exports
      BY <2>2 DEF WorkerNext, TakePublicationLock, RefusePublication, BeginReplacement, Replace, ReturnFromConnector,
         Judge, SkipCache, RecordScope, WorkerRaises, IsolatedPublish, IsolatedReceive, IsolatedAccept, IsolatedDeliver, IsolatedFail,
         CancelFailed, Finish, IsolatedStep, ledgerVars
    <3> QED
      BY <3>1
  <2> QED
    BY <2>1, <2>2
<1>3. ResultEntry(j).job = j
  BY DEF ResultEntry
<1>4. Recorded' = Recorded
  BY <1>2, <1>3 DEF Recorded
<1> QED
  BY <1>1, <1>4, ProcessStutters DEF Stage

LEMMA ProcessStep == IInv /\ [Next]_vars => [Process!Next]_(Process!vars)
<1> SUFFICES ASSUME IInv, [Next]_vars PROVE Process!Next \/ UNCHANGED Process!vars
  OBVIOUS
<1>0. TypeOK /\ LoopInv /\ FateInv /\ Isolated \subseteq Jobs
  BY KindAssumption DEF IInv
<1>1. CASE UNCHANGED vars
  BY <1>1, ProcessStutters DEF vars, jobVars, ledgerVars, Stage, Recorded
<1>2. ASSUME NEW j \in Jobs, DeadlinePasses(j) PROVE Process!Next \/ UNCHANGED Process!vars
  <2>1. UNCHANGED <<step, cancelled, exports>> /\ clock' = [clock EXCEPT ![j] = @ + 1]
    BY <1>2 DEF DeadlinePasses, ledgerVars
  <2>2. CASE j \in Isolated
    <3>1. \A i \in Isolated \ {j} : Late(i)' = Late(i)
      BY <1>0, <2>1 DEF TypeOK, Late
    <3>2. Late(j)'
      BY <1>0, <2>1 DEF TypeOK, Late
    <3>3. Process!DeadlinePasses(j)
      BY <2>1, <2>2, <3>1, <3>2 DEF Process!DeadlinePasses, Stage, Recorded
    <3> QED
      BY <2>2, <3>3 DEF Process!Next
  <2>3. CASE j \notin Isolated
    BY <1>0, <2>1, <2>3, ProcessStutters DEF TypeOK, Stage, Recorded
  <2> QED
    BY <2>2, <2>3
<1>3. ASSUME NEW j \in Jobs, Start(j) PROVE Process!Next \/ UNCHANGED Process!vars
  <2>1. /\ UNCHANGED <<clock, cancelled, exports>> /\ step[j] = "queued"
        /\ step' = [step EXCEPT ![j] = "collecting"]
    BY <1>3 DEF Start, ledgerVars
  <2>2. CASE j \in Isolated
    <3>1. Stage(j) = "idle" /\ Stage(j)' = "working" /\ \A i \in Isolated \ {j} : step'[i] = step[i]
      BY <1>0, <2>1 DEF TypeOK, Stage
    <3>2. Process!Begin(j)
      BY <2>1, <2>2, <3>1, ProcessAdvance DEF Process!Begin, Recorded
    <3> QED
      BY <2>2, <3>2 DEF Process!Next
  <2>3. CASE j \notin Isolated
    BY <1>0, <2>1, <2>3, ProcessStutters DEF TypeOK, Stage, Recorded
  <2> QED
    BY <2>2, <2>3
<1>4. ASSUME NEW j \in Jobs, WorkerNext(j) PROVE Process!Next \/ UNCHANGED Process!vars
  <2>1. CASE j \notin Isolated
    BY <1>0, <1>4, <2>1, ThreadStepUnseen
  <2>2. CASE j \in Isolated
    <3>1. CASE IsolatedPublish(j)
      BY <3>1, ProcessStutters DEF IsolatedPublish, ledgerVars, Stage, Recorded
    <3>2. CASE Finish(j)
      <4>1. /\ UNCHANGED <<clock, cancelled, exports>>
            /\ step[j] = "returning" /\ step' = [step EXCEPT ![j] = "done"]
        BY <3>2 DEF Finish, ledgerVars
      <4> QED
        BY <1>0, <2>2, <4>1, ProcessStutters DEF TypeOK, Stage, Recorded
    <3>3. CASE \/ IsolatedReceive(j) \/ IsolatedAccept(j) \/ IsolatedDeliver(j)
               \/ IsolatedFail(j) \/ CancelFailed(j)
      BY <1>0, <2>2, <3>3, IsolatedStepKept DEF Process!Next
    <3> QED
      BY <1>4, <2>2, <3>1, <3>2, <3>3 DEF WorkerNext, TakePublicationLock, RefusePublication, BeginReplacement, Replace,
         ReturnFromConnector, Judge, SkipCache, RecordScope, RecordExport, WorkerRaises, WorkerStep
  <2> QED
    BY <2>1, <2>2
<1>5. CASE SupervisorNext
  <2> USE DEF workerVars, jobVars, ledgerVars
  <2>1. CASE Poll
    BY <2>1, ProcessStutters DEF Poll, Stage, Recorded
  <2>2. CASE Settle
    BY <2>2, ProcessStutters DEF Settle, Stage, Recorded
  <2>3. CASE ExpireRecord
    BY <2>3, ProcessStutters DEF ExpireRecord, Stage, Recorded
  <2>4. CASE Decide
    BY <2>4, ProcessStutters DEF Decide, Stage, Recorded
  <2>5. CASE Stop
    <3>1. UNCHANGED <<step, clock, exports>> /\ cancelled' = [j \in Jobs |-> cancelled[j] \/ j \in Isolated]
      BY <2>5 DEF Stop
    <3>2. Process!Cancel(Isolated)
      BY <1>0, <3>1, ProcessCancels DEF Stage
    <3> QED
      BY <3>2 DEF Process!Next
  <2>6. CASE Report
    BY <2>6, ProcessStutters DEF Report, Stage, Recorded
  <2>7. ASSUME NEW j \in Jobs, ExpireCancel(j) PROVE Process!Next \/ UNCHANGED Process!vars
    <3>1. UNCHANGED <<step, clock, exports>> /\ cancelled' = [cancelled EXCEPT ![j] = TRUE]
      BY <2>7 DEF ExpireCancel
    <3>2. \A i \in Isolated : cancelled'[i] = (cancelled[i] \/ i \in {j} \cap Isolated)
      BY <1>0, <3>1 DEF TypeOK
    <3>3. Process!Cancel({j} \cap Isolated)
      BY <3>1, <3>2, ProcessCancels DEF Stage
    <3> QED
      BY <3>3 DEF Process!Next
  <2>8. ASSUME NEW j \in Jobs, AbandonQueued(j) PROVE Process!Next \/ UNCHANGED Process!vars
    <3>1. CASE step[j] = "queued"
      <4>1. /\ UNCHANGED <<clock, exports>> /\ cancelled' = [cancelled EXCEPT ![j] = TRUE]
            /\ step' = [step EXCEPT ![j] = "withdrawn"]
        BY <2>8, <3>1 DEF AbandonQueued
      <4>2. \A i \in Isolated : Stage(i)' = Stage(i)
        BY <1>0, <3>1, <4>1 DEF TypeOK, Stage
      <4>3. \A i \in Isolated : cancelled'[i] = (cancelled[i] \/ i \in {j} \cap Isolated)
        BY <1>0, <4>1 DEF TypeOK
      <4>4. Process!Cancel({j} \cap Isolated)
        BY <4>1, <4>2, <4>3, ProcessCancels
      <4> QED
        BY <4>4 DEF Process!Next
    <3>2. CASE step[j] # "queued"
      BY <2>8, <3>2, ProcessStutters DEF AbandonQueued, Stage, Recorded
    <3> QED
      BY <3>1, <3>2
  <2> QED
    BY <1>5, <2>1, <2>2, <2>3, <2>4, <2>5, <2>6, <2>7, <2>8 DEF SupervisorNext
<1>6. CASE Interrupt
  <2>1. /\ UNCHANGED <<clock, exports>> /\ cancelled' = [j \in Jobs |-> cancelled[j] \/ j \in Isolated]
        /\ step' = [j \in Jobs |-> IF step[j] = "queued" THEN "withdrawn" ELSE step[j]]
    BY <1>6 DEF Interrupt, ledgerVars
  <2>2. \A j \in Isolated : Stage(j)' = Stage(j)
    BY <1>0, <2>1 DEF Stage
  <2>3. Process!Cancel(Isolated)
    BY <1>0, <2>1, <2>2, ProcessCancels
  <2> QED
    BY <2>3 DEF Process!Next
<1>7. CASE NextRun
  <2>1. \A j \in Isolated : Stage(j) \in {"idle", "returned"}
    BY <1>0, <1>7 DEF NextRun, LoopInv, FateInv, Running, Stage
  <2>2. \A j \in Isolated : Stage(j)' = "idle" /\ cancelled'[j] = FALSE
    BY <1>0, <1>7 DEF NextRun, Stage
  <2>3. ASSUME NEW j \in Isolated PROVE Late(j)' = FALSE
    <3>1. clock'[j] = 0
      BY <1>0, <1>7 DEF NextRun
    <3>2. ~(0 >= 1)
      OBVIOUS
    <3> QED
      BY <3>1, <3>2 DEF Late
  <2>4. Recorded' = {}
    BY <1>7 DEF NextRun, Recorded
  <2>5. Process!Again
    BY <2>1, <2>2, <2>3, <2>4 DEF Process!Again
  <2> QED
    BY <2>5 DEF Process!Next
<1> QED
  BY <1>1, <1>2, <1>3, <1>4, <1>5, <1>6, <1>7 DEF Next

\* What the supervisor handles as isolated jobs is what the process backend provides, for any
\* number of jobs, slots and scans.
THEOREM EngineKnowsIsolatedJobs == Spec => IsolatedAsAgreed
BY ProcessInit, ProcessStep, Invariance, PTL DEF Spec, IsolatedAsAgreed, Process!Spec

----------------------------------------------------------------------------
(* Why the supervisor comes to an end *)

\* What the next round has to do is there to be done.
RoundInv ==
    /\ sup \in {"waiting", "deciding"} => pending # {}
    /\ sup = "expiring" => expired # {}
    /\ sup = "abandoning" => abandoning # {}

LEMMA RoundInit == Init => RoundInv
BY AssumedConstants DEF Init, RoundInv, Jobs

LEMMA RoundStep == IInv /\ RoundInv /\ [Next]_vars => RoundInv'
<1> SUFFICES ASSUME IInv, RoundInv, [Next]_vars PROVE RoundInv'
  OBVIOUS
<1> USE DEF RoundInv, loopVars
<1>1. CASE UNCHANGED vars
  BY <1>1 DEF vars
<1>2. ASSUME NEW j \in Jobs, DeadlinePasses(j) \/ Start(j) PROVE RoundInv'
  BY <1>2 DEF DeadlinePasses, Start
<1>3. ASSUME NEW j \in Jobs, WorkerNext(j) PROVE RoundInv'
  BY <1>3, WorkerEffect DEF IInv
<1>4. CASE SupervisorNext
  <2> USE DEF EndOfLoop
  <2>1. CASE Poll
    BY <2>1 DEF Poll
  <2>2. CASE Settle
    BY <2>2 DEF Settle
  <2>3. CASE ExpireRecord
    BY <2>3 DEF ExpireRecord
  <2>4. CASE Decide
    BY <2>4 DEF Decide
  <2>5. CASE Stop \/ Report
    BY <2>5 DEF Stop, Report
  <2>6. ASSUME NEW j \in Jobs, ExpireCancel(j) PROVE RoundInv'
    BY <2>6 DEF ExpireCancel
  <2>7. ASSUME NEW j \in Jobs, AbandonQueued(j) PROVE RoundInv'
    BY <2>7 DEF AbandonQueued
  <2> QED
    BY <1>4, <2>1, <2>2, <2>3, <2>4, <2>5, <2>6, <2>7 DEF SupervisorNext
<1>5. CASE Interrupt
  BY <1>5 DEF Interrupt
<1>6. CASE NextRun
  <2>1. 1 \in Jobs
    BY AssumedConstants DEF Jobs
  <2>2. sup' = "waiting" /\ pending' = Jobs
    BY <1>6 DEF NextRun
  <2> QED
    BY <2>1, <2>2
<1> QED
  BY <1>1, <1>2, <1>3, <1>4, <1>5, <1>6 DEF Next

\* If the supervisor waits only for queued jobs and no slot is free, the workers that have the
\* slots were all given up.
LEMMA EndInSight == IInv /\ RoundInv => NeverStuck
<1> SUFFICES ASSUME IInv, RoundInv, sup = "waiting",
                    \A j \in pending : step[j] = "queued",
                    ~(Cardinality(RunningJobs) < Workers)
             PROVE  timedOut # {} /\ CapacityExhausted
  BY DEF RoundInv, NeverStuck
<1>1. TypeOK /\ FateInv /\ LoopInv
  BY DEF IInv
<1>2. ASSUME NEW j \in RunningJobs PROVE j \in timedOut
  <2>1. j \in Jobs /\ step[j] \notin {"queued", "withdrawn", "done"}
    BY DEF RunningJobs, Running
  <2>2. j \notin pending
    BY <2>1
  <2>3. completed[j] \notin {"none", "accepted", "unstarted"}
    BY <1>1, <2>1, <2>2 DEF FateInv
  <2>4. completed[j] = "timeout"
    BY <1>1, <2>1, <2>3 DEF TypeOK, Results
  <2> QED
    BY <1>1, <2>1, <2>4 DEF FateInv
<1>3. Cardinality(RunningJobs) \in Nat /\ Workers \in Nat \ {0}
  BY JobSetsAreFinite, AssumedConstants DEF RunningJobs, Workers
<1>4. Cardinality(RunningJobs) >= Workers
  BY <1>3
<1>5. RunningJobs # {}
  BY <1>3, <1>4, FS_EmptySet
<1> QED
  BY <1>2, <1>4, <1>5 DEF CapacityExhausted

\* While the supervisor waits there is an end in sight, and there is work for each of its steps.
\* (_Supervisor.run, _capacity_exhausted)
THEOREM SupervisorIsNeverStuck == Spec => []NeverStuck
<1>1. Spec => []RoundInv
  BY RoundInit, RoundStep, Invariance, PTL DEF Spec
<1> QED
  BY <1>1, EndInSight, Invariance, PTL

\* What is left of a round, in terms that can be compared.
RoundMeasured ==
    /\ Cardinality(expired) \in 0 .. NJobs
    /\ Cardinality(abandoning) \in 0 .. NJobs
    /\ sup = "expiring" /\ expiring # NoJob => Cardinality(expired) >= 1
    /\ sup = "settling" => RoundLeft = 4 + 3 * NJobs
    /\ sup = "expiring" /\ expiring = NoJob => RoundLeft = 3 + NJobs + 2 * Cardinality(expired)
    /\ sup = "expiring" /\ expiring # NoJob => RoundLeft = 2 + NJobs + 2 * Cardinality(expired)
    /\ sup = "deciding" => RoundLeft = 3 + NJobs
    /\ sup = "abandoning" => RoundLeft = 2 + Cardinality(abandoning)
    /\ sup = "stopping" => RoundLeft = 2
    /\ sup = "reporting" => RoundLeft = 1
    /\ sup \in {"waiting", "reported", "interrupted"} => RoundLeft = 0

LEMMA JobSetSizes ==
    ASSUME NEW S \in SUBSET Jobs
    PROVE  /\ IsFiniteSet(S) /\ Cardinality(S) \in 0 .. NJobs
           /\ \A j \in S : Cardinality(S \ {j}) = Cardinality(S) - 1 /\ Cardinality(S) >= 1
<1>1. IsFiniteSet(Jobs) /\ Cardinality(Jobs) = NJobs
  BY AssumedConstants, FS_Interval DEF Jobs
<1>2. IsFiniteSet(S) /\ Cardinality(S) \in Nat /\ Cardinality(S) <= NJobs
  BY <1>1, JobSetsAreFinite, FS_Subset
<1>3. ASSUME NEW j \in S
      PROVE  Cardinality(S \ {j}) = Cardinality(S) - 1 /\ Cardinality(S) >= 1
  BY <1>2, FS_RemoveElement, FS_EmptySet
<1> QED
  BY <1>2, <1>3, AssumedConstants

LEMMA RoundMeasures == IInv => RoundMeasured
<1> SUFFICES ASSUME IInv PROVE RoundMeasured
  OBVIOUS
<1>1. expired \in SUBSET Jobs /\ abandoning \in SUBSET Jobs
  BY DEF IInv, TypeOK
<1>2. Cardinality(expired) \in 0 .. NJobs /\ Cardinality(abandoning) \in 0 .. NJobs
  BY <1>1, JobSetSizes
<1>3. expiring # NoJob => Cardinality(expired) >= 1
  BY <1>1, JobSetSizes DEF IInv, LoopInv
<1>4. Cardinality(expired) \in Nat /\ Cardinality(abandoning) \in Nat /\ NJobs \in Nat
  BY <1>2, AssumedConstants
<1> QED
  BY <1>2, <1>3, <1>4 DEF RoundMeasured, RoundLeft

LEMMA RoundMeasuresNext == IInv' => RoundMeasured'
<1>1. (IInv => RoundMeasured)'
  BY RoundMeasures, PTL
<1> QED
  BY <1>1

LEMMA RoundBounds == IInv => RoundsBounded /\ RoundLeft \in Nat
<1> SUFFICES ASSUME IInv PROVE RoundsBounded /\ RoundLeft \in Nat
  OBVIOUS
<1>1. RoundMeasured /\ sup \in SupervisorSteps /\ NJobs \in Nat
  BY RoundMeasures, AssumedConstants DEF IInv, TypeOK
<1> QED
  BY <1>1 DEF RoundMeasured, RoundsBounded, SupervisorSteps

\* Every step of the supervisor but the one that begins a round.
LEMMA RoundAdvances ==
    ASSUME IInv, IInv', SupervisorNext, sup # "waiting"
    PROVE  RoundLeft' < RoundLeft
<1>1. RoundMeasured /\ RoundMeasured' /\ NJobs \in Nat \ {0}
  BY RoundMeasures, RoundMeasuresNext, AssumedConstants
<1> USE <1>1 DEF RoundMeasured, EndOfLoop
<1>2. CASE Poll
  BY <1>2 DEF Poll
<1>3. CASE Settle
  BY <1>3 DEF Settle
<1>4. ASSUME NEW j \in Jobs, ExpireCancel(j) PROVE RoundLeft' < RoundLeft
  BY <1>4, AssumedConstants DEF ExpireCancel
<1>5. CASE ExpireRecord
  <2>1. /\ expired \in SUBSET Jobs /\ expiring \in expired /\ expiring # NoJob /\ sup = "expiring"
        /\ expired' = expired \ {expiring} /\ expiring' = NoJob
        /\ sup' \in {"stopping", "waiting", "deciding", "expiring"}
    BY <1>5, AssumedConstants DEF ExpireRecord, IInv, TypeOK
  <2>2. Cardinality(expired') = Cardinality(expired) - 1
    BY <2>1, JobSetSizes
  <2> QED
    BY <2>1, <2>2
<1>6. CASE Decide
  BY <1>6 DEF Decide
<1>7. ASSUME NEW j \in Jobs, AbandonQueued(j) PROVE RoundLeft' < RoundLeft
  <2>1. /\ abandoning \in SUBSET Jobs /\ j \in abandoning /\ sup = "abandoning"
        /\ abandoning' = abandoning \ {j}
        /\ sup' = "abandoning" \/ sup' \in {"stopping", "waiting"}
    BY <1>7 DEF AbandonQueued, IInv, TypeOK
  <2>2. Cardinality(abandoning') = Cardinality(abandoning) - 1 /\ Cardinality(abandoning) >= 1
    BY <2>1, JobSetSizes
  <2> QED
    BY <2>1, <2>2
<1>8. CASE Stop \/ Report
  BY <1>8 DEF Stop, Report
<1> QED
  BY <1>2, <1>3, <1>4, <1>5, <1>6, <1>7, <1>8 DEF SupervisorNext

LEMMA RoundRunsOut ==
    ASSUME IInv, IInv', [Next]_vars, sup # "waiting"
    PROVE  RoundLeft' <= RoundLeft
<1>1. RoundLeft \in Nat /\ RoundLeft' \in Nat
  <2>1. (IInv => RoundsBounded /\ RoundLeft \in Nat)'
    BY RoundBounds, PTL
  <2> QED
    BY <2>1, RoundBounds
<1>2. CASE SupervisorNext
  BY <1>1, <1>2, RoundAdvances
<1>3. CASE UNCHANGED <<sup, expired, expiring, abandoning>>
  <2>1. RoundLeft' = RoundLeft
    BY <1>3 DEF RoundLeft
  <2> QED
    BY <1>1, <2>1
<1>4. ASSUME NEW j \in Jobs, DeadlinePasses(j) \/ Start(j) \/ WorkerNext(j)
      PROVE  UNCHANGED <<sup, expired, expiring, abandoning>>
  BY <1>4, WorkerEffect DEF DeadlinePasses, Start, loopVars, IInv
<1>5. CASE Interrupt \/ NextRun
  <2>1. RoundLeft' = 0
    BY <1>5, RoundMeasuresNext DEF Interrupt, NextRun, RoundMeasured
  <2> QED
    BY <1>1, <2>1
<1> QED
  BY <1>2, <1>3, <1>4, <1>5 DEF Next, vars, loopVars

\* A round of the supervisor takes at most 4 + 3 * NJobs of its steps, whatever the workers do
\* meanwhile.  (_Supervisor.run, _expire, _abandon_queue)
THEOREM RoundsAreBounded == Spec => []RoundsBounded /\ RoundsRunOut
<1>1. IInv => RoundsBounded
  BY RoundBounds
<1>2. IInv /\ IInv' /\ [Next]_vars =>
        [sup # "waiting" => /\ SupervisorNext => RoundLeft' < RoundLeft
                            /\ RoundLeft' <= RoundLeft]_vars
  BY RoundAdvances, RoundRunsOut
<1> QED
  BY <1>1, <1>2, Invariance, PTL DEF Spec, RoundsRunOut

=============================================================================
