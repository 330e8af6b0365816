---------------------------- MODULE ScanContract ----------------------------
(***************************************************************************)
(* What one scan promises about its connector jobs, without threads,       *)
(* queues, locks or clocks.                                                *)
(*                                                                         *)
(* A job that has begun delivers its result in time or too late, or never  *)
(* delivers.  The scan decides every job exactly once: it may accept a     *)
(* result only if it was delivered in time, it may discard any job at any  *)
(* moment, and a job discarded before it began never begins.  The report   *)
(* is published once, after every job has been decided, and holds the      *)
(* results of exactly the accepted jobs.  The next scan begins only when   *)
(* nothing of this one is still working.                                   *)
(*                                                                         *)
(* Module Supervision, the detailed specification of the engine, is shown  *)
(* to implement this one.                                                  *)
(***************************************************************************)
CONSTANT Jobs       \* the configured jobs of a scan

Deliveries == {"idle", "working", "inTime", "late"}
Fates == {"open", "accepted", "discarded"}

NoReport == [published |-> FALSE, accepted |-> {}]
Reports == [published : BOOLEAN, accepted : SUBSET Jobs]

VARIABLES
    delivery,       \* what became of a job's result on the worker's side
    fate,           \* what the scan decided about the job
    report          \* the scan's outcome

vars == <<delivery, fate, report>>

TypeOK ==
    /\ delivery \in [Jobs -> Deliveries]
    /\ fate \in [Jobs -> Fates]
    /\ report \in Reports

Init ==
    /\ delivery = [j \in Jobs |-> "idle"]
    /\ fate = [j \in Jobs |-> "open"]
    /\ report = NoReport

\* A worker takes job j up.
Begin(j) ==
    /\ delivery[j] = "idle"
    /\ fate[j] = "open"
    /\ delivery' = [delivery EXCEPT ![j] = "working"]
    /\ UNCHANGED <<fate, report>>

\* A worker hands in the result of job j.
Deliver(j) ==
    /\ delivery[j] = "working"
    /\ \E d \in {"inTime", "late"} : delivery' = [delivery EXCEPT ![j] = d]
    /\ UNCHANGED <<fate, report>>

\* Any number of timely results are accepted together.
Accept(js) ==
    /\ \A j \in js : fate[j] = "open" /\ delivery[j] = "inTime"
    /\ fate' = [j \in Jobs |-> IF j \in js THEN "accepted" ELSE fate[j]]
    /\ UNCHANGED <<delivery, report>>

\* A job is given up: it is overdue, or it will never be started.
Discard(j) ==
    /\ fate[j] = "open"
    /\ fate' = [fate EXCEPT ![j] = "discarded"]
    /\ UNCHANGED <<delivery, report>>

Publish ==
    /\ ~report.published
    /\ \A j \in Jobs : fate[j] # "open"
    /\ report' = [published |-> TRUE,
                  accepted |-> {j \in Jobs : fate[j] = "accepted"}]
    /\ UNCHANGED <<delivery, fate>>

NextScan ==
    /\ report.published
    /\ \A j \in Jobs : delivery[j] # "working"
    /\ delivery' = [j \in Jobs |-> "idle"]
    /\ fate' = [j \in Jobs |-> "open"]
    /\ report' = NoReport

Next ==
    \/ \E j \in Jobs : Begin(j) \/ Deliver(j) \/ Discard(j)
    \/ \E js \in (SUBSET Jobs) \ {{}} : Accept(js)
    \/ Publish
    \/ NextScan

Spec == Init /\ [][Next]_vars

=============================================================================
