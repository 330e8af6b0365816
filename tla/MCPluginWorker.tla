--------------------------- MODULE MCPluginWorker ---------------------------
(***************************************************************************)
(* Jobs for model-checking module PluginWorker.                            *)
(***************************************************************************)
EXTENDS PluginWorker

OneJob == 1 .. 1
ThreeJobs == 1 .. 3
NoneDeaf == {}
Nobody == 0

\* Bound of the run with several jobs: only the spawns are shared between jobs, so no
\* state is expanded once a job is past its spawn's checks.
SpawnPhase ==
    \A j \in Jobs : /\ runner[j] \notin {"receiving", "joining", "decoding", "failed", "returned"}
                    /\ child[j] \in {"none", "booting"}
                    /\ clock[j] <= 1

=============================================================================
