---------------------------- MODULE MCGitClones -----------------------------
(***************************************************************************)
(* Threads for model-checking module GitClones.                            *)
(***************************************************************************)
EXTENDS GitClones

CONSTANTS w1, sigint, sigterm, watchdog

OneWorker == {w1}
AllClosers == {sigint, sigterm, watchdog}
BothSignals == {sigint, sigterm}
OnlySigint == {sigint}

\* A second signal comes only while the handler of the first holds the flag's lock.
SecondSignal ==
    frame # sigterm /\ frame' = sigterm => frame = sigint /\ closer[sigint] \in {"setting", "releasing"}

=============================================================================
