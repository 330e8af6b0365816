---------------------------- MODULE IsolatedJobs ----------------------------
(***************************************************************************)
(* What the engine relies on of the jobs it runs in processes of their own *)
(* and what the process backend provides, without processes, signals, pipes*)
(* or locks.                                                               *)
(*                                                                         *)
(* A job that has begun receives a result or fails.  It sets out to        *)
(* deliver what it received only if it is then neither late nor cancelled, *)
(* and fails otherwise; once it has set out it records its entries and     *)
(* returns, whatever happens meanwhile.  A failure is put on record first  *)
(* and cancels the job then.  The ledger takes nothing from a cancelled    *)
(* job, so one that is cancelled while it delivers may return a result     *)
(* without some or all of its entries: its supervisor has given it up and  *)
(* accounts for it.  The deadline and the supervisor's cancellation come   *)
(* at any moment.                                                          *)
(*                                                                         *)
(* Two detailed specifications are shown to implement this one: module     *)
(* PluginWorker, for the processes, and module Supervision, for what its   *)
(* supervisor takes an isolated job to be.                                 *)
(***************************************************************************)
CONSTANTS
    Jobs,           \* jobs of plugins under plugin_execution: process
    Exporting       \* results come with export entries

Stages == {"idle", "working", "received", "delivering", "failed", "returned"}

VARIABLES
    stage,          \* how far a job has come
    late,           \* its deadline has passed
    cancelled,      \* it was given up, by the supervisor or by itself
    recorded        \* jobs the ledger has an entry of

vars == <<stage, late, cancelled, recorded>>

Init ==
    /\ stage \in [Jobs -> {"idle", "working"}]
    /\ late = [j \in Jobs |-> FALSE]
    /\ cancelled = [j \in Jobs |-> FALSE]
    /\ recorded = {}

Live(j) == ~late[j] /\ ~cancelled[j]

Advance(j, from, to) ==
    /\ stage[j] = from
    /\ stage' = [stage EXCEPT ![j] = to]

Begin(j) ==
    /\ Advance(j, "idle", "working")
    /\ UNCHANGED <<late, cancelled, recorded>>

Receive(j) ==
    /\ Live(j)
    /\ Advance(j, "working", "received")
    /\ UNCHANGED <<late, cancelled, recorded>>

\* The last look at deadline and cancellation.
Accept(j) ==
    /\ Live(j)
    /\ Advance(j, "received", "delivering")
    /\ UNCHANGED <<late, cancelled, recorded>>

\* What the ledger takes of a result.
Entry(j) == IF Exporting /\ ~cancelled[j] THEN {j} ELSE {}

\* An entry, with more of them to come.
Record(j) ==
    /\ stage[j] = "delivering"
    /\ recorded' = recorded \cup Entry(j)
    /\ UNCHANGED <<stage, late, cancelled>>

\* The last entry, and the result.
Deliver(j) ==
    /\ Advance(j, "delivering", "returned")
    /\ recorded' = recorded \cup Entry(j)
    /\ UNCHANGED <<late, cancelled>>

\* A result that was received is given up only for a reason.
Fail(j) ==
    /\ Advance(j, "working", "failed") \/ (~Live(j) /\ Advance(j, "received", "failed"))
    /\ recorded' = IF cancelled[j] THEN recorded ELSE recorded \cup {j}
    /\ UNCHANGED <<late, cancelled>>

CancelFailed(j) ==
    /\ Advance(j, "failed", "returned")
    /\ cancelled' = [cancelled EXCEPT ![j] = TRUE]
    /\ UNCHANGED <<late, recorded>>

DeadlinePasses(j) ==
    /\ late' = [late EXCEPT ![j] = TRUE]
    /\ UNCHANGED <<stage, cancelled, recorded>>

\* The supervisor gives up some of the jobs.
Cancel(js) ==
    /\ cancelled' = [j \in Jobs |-> cancelled[j] \/ j \in js]
    /\ UNCHANGED <<stage, late, recorded>>

\* The next scan, when nothing of this one is at work.
Again ==
    /\ \A j \in Jobs : stage[j] \in {"idle", "returned"}
    /\ stage' = [j \in Jobs |-> "idle"]
    /\ late' = [j \in Jobs |-> FALSE]
    /\ cancelled' = [j \in Jobs |-> FALSE]
    /\ recorded' = {}

Next ==
    \/ \E j \in Jobs : \/ Begin(j) \/ Receive(j) \/ Accept(j) \/ Record(j) \/ Deliver(j)
                       \/ Fail(j) \/ CancelFailed(j) \/ DeadlinePasses(j)
    \/ \E js \in SUBSET Jobs : Cancel(js)
    \/ Again

Spec == Init /\ [][Next]_vars

=============================================================================
