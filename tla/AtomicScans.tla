----------------------------- MODULE AtomicScans -----------------------------
(***************************************************************************)
(* What a cached scan of an input promises: its complete result is what    *)
(* one look at the whole input, at one instant of the scan, gives under    *)
(* the scan's own setting.  There is no cache here, and reading takes no   *)
(* time; the input may change at any moment.                               *)
(*                                                                         *)
(* A scan that could not take a snapshot never looks, and of it nothing is *)
(* promised but that it applies its own setting.                           *)
(*                                                                         *)
(* Module CacheReuse is shown to implement this one.                       *)
(***************************************************************************)
CONSTANTS
    Scans,
    Settings,       \* how a scan is to analyse what it sees
    Trees           \* what the input may be

VARIABLES
    input,
    setting,
    look,           \* what the scan saw when it looked: one tree, or none yet
    result,         \* "none", "complete" or "incomplete"
    answer          \* the analysis that a complete result is: one, or none

vars == <<input, setting, look, result, answer>>

Init ==
    /\ input \in Trees
    /\ setting \in [Scans -> Settings]
    /\ look = [s \in Scans |-> {}]
    /\ result = [s \in Scans |-> "none"]
    /\ answer = [s \in Scans |-> {}]

Change ==
    /\ input' \in Trees
    /\ UNCHANGED <<setting, look, result, answer>>

\* A scan looks once, while it is at work.
Look(s) ==
    /\ result[s] = "none"
    /\ look[s] = {}
    /\ look' = [look EXCEPT ![s] = {input}]
    /\ UNCHANGED <<input, setting, result, answer>>

Return(s, r, a) ==
    /\ result[s] = "none"
    /\ result' = [result EXCEPT ![s] = r]
    /\ answer' = [answer EXCEPT ![s] = a]
    /\ UNCHANGED <<input, setting, look>>

Complete(s) ==
    \E t \in Trees : /\ look[s] \subseteq {t}
                     /\ Return(s, "complete", {[setting |-> setting[s], tree |-> t]})

GiveUp(s) == Return(s, "incomplete", {})

Next == Change \/ \E s \in Scans : Look(s) \/ Complete(s) \/ GiveUp(s)

Spec == Init /\ [][Next]_vars

=============================================================================
