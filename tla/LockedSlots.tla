----------------------------- MODULE LockedSlots -----------------------------
(***************************************************************************)
(* What the lock files of the incremental cache stand for: every slot has  *)
(* a lock that many may share or one may own, and only its owner changes   *)
(* the slot's entry.  There are no lock files here, which could be removed *)
(* while someone has them open.                                            *)
(*                                                                         *)
(* Module CacheDirectory is shown to implement this one.                   *)
(***************************************************************************)
CONSTANTS
    Procs,          \* threads of scans, in one process or several
    Slots,          \* slots of the cache
    Files,          \* files an entry may be
    NoFile          \* no entry

VARIABLES
    entry,          \* each slot's entry
    shared,         \* the slots a process reads
    owned           \* the slots a process has to itself

vars == <<entry, shared, owned>>

Init ==
    /\ entry = [s \in Slots |-> NoFile]
    /\ shared = [p \in Procs |-> {}]
    /\ owned = [p \in Procs |-> {}]

Unowned(s) == \A p \in Procs : s \notin owned[p]
Unlocked(s) == Unowned(s) /\ \A p \in Procs : s \notin shared[p]

Share(p, s) ==
    /\ Unowned(s)
    /\ shared' = [shared EXCEPT ![p] = @ \cup {s}]
    /\ UNCHANGED <<entry, owned>>

Own(p, s) ==
    /\ Unlocked(s)
    /\ owned' = [owned EXCEPT ![p] = @ \cup {s}]
    /\ UNCHANGED <<entry, shared>>

Unlock(p, ss) ==
    /\ shared' = [shared EXCEPT ![p] = @ \ ss]
    /\ owned' = [owned EXCEPT ![p] = @ \ ss]

Release(p, ss) == Unlock(p, ss) /\ UNCHANGED entry

\* A new entry is a new file.
Put(p, s, f) ==
    /\ s \in owned[p]
    /\ \A t \in Slots : entry[t] # f
    /\ entry' = [entry EXCEPT ![s] = f]
    /\ UNCHANGED <<shared, owned>>

\* An entry is removed at the end of what its owner does with the slot.
Remove(p, s, ss) ==
    /\ s \in owned[p] \cap ss
    /\ entry' = [entry EXCEPT ![s] = NoFile]
    /\ Unlock(p, ss)

Next == \E p \in Procs :
    \/ \E s \in Slots : Share(p, s) \/ Own(p, s)
    \/ \E ss \in SUBSET Slots : Release(p, ss)
    \/ \E s \in Slots, f \in Files : Put(p, s, f)
    \/ \E s \in Slots, ss \in SUBSET Slots : Remove(p, s, ss)

Spec == Init /\ [][Next]_vars

=============================================================================
