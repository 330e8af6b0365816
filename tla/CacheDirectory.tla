--------------------------- MODULE CacheDirectory ---------------------------
(***************************************************************************)
(* The directory of the incremental cache (shadowscan/incremental.py),     *)
(* which scans in several threads and processes share.  A slot has an      *)
(* entry, <slot>.json, and a lock file, <slot>.lock.  An operation takes   *)
(* the slot's flock without waiting: a load shares it, a save owns it.  A  *)
(* save that has published its entry, and every new cache object, then     *)
(* maintain the whole directory: they remove lock files that have no entry *)
(* and entries beyond the limit or too old.                                *)
(*                                                                         *)
(* A pathname may be opened here, unlinked and created again there.  Only  *)
(* the holder of the lock on the current file unlinks it, so all that has  *)
(* to be known of an open lock file is whether the pathname still leads to *)
(* it.  An entry is recognised by its inode number, which the file system  *)
(* gives to a later file again.                                            *)
(*                                                                         *)
(* Which entries are old, and the total size, are not modelled: any entry  *)
(* may have expired, and the limit is one on the number of entries.  The   *)
(* order of candidates (oldest first) is left open.                        *)
(***************************************************************************)
EXTENDS Naturals, FiniteSets

CONSTANTS
    Procs,          \* threads of scans, in one process or several
    Slots,          \* slots of connector configurations
    Inodes,         \* inode numbers of entries
    MaxEntries,     \* _MAX_CACHE_ENTRIES
    NoFile,         \* no entry
    NoSlot          \* no slot

ASSUME NoFileAssumption == NoFile \notin Inodes
ASSUME NoSlotAssumption == NoSlot \notin Slots
ASSUME SlotsAssumption == IsFiniteSet(Slots)
ASSUME LimitAssumption == MaxEntries \in Nat

\* A new file is made beside the entries there are, so its inode number is none of theirs.
ASSUME InodesAssumption ==
    \A used \in [Slots -> Inodes \cup {NoFile}] : \E i \in Inodes : \A s \in Slots : used[s] # i

\* Steps before an operation has its lock; then those under it.
Seeking == {"idle", "opened"}
\* Taking out an unused lock file: seen in the directory, opened, locked, found unused.
Orphan == {"orphanSeen", "orphanOpened", "orphanLocked", "orphanDoomed"}
\* Taking out an entry: its lock file opened, locked, the entry found unchanged.
Removal == {"entryOpened", "entryLocked", "entryDoomed"}
Maintaining == {"scanning", "evicting"} \cup Orphan \cup Removal
Steps == Seeking \cup {"reading", "writing"} \cup Maintaining

Operations == {"load", "save", "startup"}

VARIABLES
    lockFile,       \* slots that have a lock file
    entry,          \* inode number of each slot's entry
    step,
    op,
    slot,           \* the slot a load or save is for
    fresh,          \* the pathname still leads to the lock file it opened
    inner,          \* the slot that maintenance has opened the lock file of
    innerFresh,     \* likewise
    todo,           \* directory children maintenance has not looked at
    found,          \* inode numbers of the entries it saw
    counted,        \* slots whose entries it counts
    candidates,     \* of these, those it has not considered removing
    settled         \* auxiliary: slots whose entry outlived its own save's maintenance

dirVars == <<lockFile, entry, settled>>
ownVars == <<op, slot>>
scanVars == <<todo, found>>
evictVars == <<counted, candidates>>
vars == <<dirVars, step, ownVars, fresh, inner, innerFresh, scanVars, evictVars>>

Children == Slots \X {"lock", "entry"}
Nothing == [s \in Slots |-> NoFile]

TypeOK ==
    /\ lockFile \in SUBSET Slots
    /\ entry \in [Slots -> Inodes \cup {NoFile}]
    /\ step \in [Procs -> Steps]
    /\ op \in [Procs -> Operations]
    /\ slot \in [Procs -> Slots \cup {NoSlot}]
    /\ fresh \in [Procs -> BOOLEAN]
    /\ inner \in [Procs -> Slots \cup {NoSlot}]
    /\ innerFresh \in [Procs -> BOOLEAN]
    /\ todo \in [Procs -> SUBSET Children]
    /\ found \in [Procs -> [Slots -> Inodes \cup {NoFile}]]
    /\ counted \in [Procs -> SUBSET Slots]
    /\ candidates \in [Procs -> SUBSET Slots]
    /\ settled \in SUBSET Slots

Init ==
    /\ lockFile = {}
    /\ entry = Nothing
    /\ step = [p \in Procs |-> "idle"]
    /\ op = [p \in Procs |-> "load"]
    /\ slot = [p \in Procs |-> NoSlot]
    /\ fresh = [p \in Procs |-> FALSE]
    /\ inner = [p \in Procs |-> NoSlot]
    /\ innerFresh = [p \in Procs |-> FALSE]
    /\ todo = [p \in Procs |-> {}]
    /\ found = [p \in Procs |-> Nothing]
    /\ counted = [p \in Procs |-> {}]
    /\ candidates = [p \in Procs |-> {}]
    /\ settled = {}

----------------------------------------------------------------------------
(* Locks *)

Entries == {s \in Slots : entry[s] # NoFile}

Reads(p, s) == step[p] = "reading" /\ slot[p] = s /\ fresh[p]
Owns(p, s) == step[p] \in {"writing"} \cup Maintaining /\ slot[p] = s /\ fresh[p]
Cleans(p, s) ==
    step[p] \in {"orphanLocked", "orphanDoomed", "entryLocked", "entryDoomed"}
      /\ inner[p] = s /\ innerFresh[p]

\* flock does not distinguish the threads of a process, nor a thread from itself.
Unowned(s) == \A q \in Procs : ~Owns(q, s) /\ ~Cleans(q, s)
Unlocked(s) == Unowned(s) /\ \A q \in Procs : ~Reads(q, s)

Move(p, from, to) ==
    /\ step[p] = from
    /\ step' = [step EXCEPT ![p] = to]

\* What an operation that ends leaves behind: no lock, no open file, no notes.
End(p) ==
    /\ step' = [step EXCEPT ![p] = "idle"]
    /\ slot' = [slot EXCEPT ![p] = NoSlot]
    /\ fresh' = [fresh EXCEPT ![p] = FALSE]
    /\ inner' = [inner EXCEPT ![p] = NoSlot]
    /\ innerFresh' = [innerFresh EXCEPT ![p] = FALSE]
    /\ todo' = [todo EXCEPT ![p] = {}]
    /\ found' = [found EXCEPT ![p] = Nothing]
    /\ counted' = [counted EXCEPT ![p] = {}]
    /\ candidates' = [candidates EXCEPT ![p] = {}]
    /\ UNCHANGED op

\* Maintenance opens a slot's lock file, creating it if it is not there.
OpenInner(p, s) ==
    /\ lockFile' = lockFile \cup {s}
    /\ inner' = [inner EXCEPT ![p] = s]
    /\ innerFresh' = [innerFresh EXCEPT ![p] = TRUE]
    /\ UNCHANGED <<entry, settled>>

CloseInner(p, from, to) ==
    /\ Move(p, from, to)
    /\ inner' = [inner EXCEPT ![p] = NoSlot]
    /\ innerFresh' = [innerFresh EXCEPT ![p] = FALSE]

----------------------------------------------------------------------------
(* A load or a save *)

Open(p, o, s) ==
    /\ Move(p, "idle", "opened")
    /\ lockFile' = lockFile \cup {s}
    /\ op' = [op EXCEPT ![p] = o]
    /\ slot' = [slot EXCEPT ![p] = s]
    /\ fresh' = [fresh EXCEPT ![p] = TRUE]
    /\ UNCHANGED <<entry, settled, inner, innerFresh, scanVars, evictVars>>

Available(p) == IF op[p] = "load" THEN Unowned(slot[p]) ELSE Unlocked(slot[p])

\* (Faulty variant: whether the pathname still leads to the file is not checked.)
AcquireUnvalidated(p) ==
    /\ Move(p, "opened", IF op[p] = "load" THEN "reading" ELSE "writing")
    /\ fresh[p] => Available(p)
    /\ UNCHANGED <<dirVars, ownVars, fresh, inner, innerFresh, scanVars, evictVars>>

\* flock without waiting, and a look whether the pathname still leads to this file: no one
\* can unlink it once it is locked, and a file that was unlinked does not come back.
Acquire(p) ==
    /\ Move(p, "opened", IF op[p] = "load" THEN "reading" ELSE "writing")
    /\ fresh[p] /\ Available(p)
    /\ UNCHANGED <<dirVars, ownVars, fresh, inner, innerFresh, scanVars, evictVars>>

\* The lock is taken, the pathname leads elsewhere, or the file is not as it should be.
Refused(p) ==
    /\ step[p] = "opened"
    /\ End(p)
    /\ UNCHANGED dirVars

FinishLoad(p) ==
    /\ step[p] = "reading"
    /\ End(p)
    /\ UNCHANGED dirVars

\* A save replaces the entry by a new file and maintains the directory.
Publish(p, i) ==
    /\ Move(p, "writing", "scanning")
    /\ \A s \in Slots : entry[s] # i
    /\ entry' = [entry EXCEPT ![slot[p]] = i]
    /\ settled' = settled \ {slot[p]}
    /\ todo' = [todo EXCEPT ![p] = Children]
    /\ UNCHANGED <<lockFile, ownVars, fresh, inner, innerFresh, found, evictVars>>

\* A new cache object maintains the directory.
StartUp(p) ==
    /\ Move(p, "idle", "scanning")
    /\ op' = [op EXCEPT ![p] = "startup"]
    /\ todo' = [todo EXCEPT ![p] = Children]
    /\ UNCHANGED <<dirVars, slot, fresh, inner, innerFresh, found, evictVars>>

----------------------------------------------------------------------------
(* Maintenance: the directory *)

Seen(p, s, kind) == todo' = [todo EXCEPT ![p] = @ \ {<<s, kind>>}]

SeeEntry(p, s) ==
    /\ step[p] = "scanning"
    /\ <<s, "entry">> \in todo[p]
    /\ Seen(p, s, "entry")
    /\ found' = [found EXCEPT ![p][s] = entry[s]]
    /\ UNCHANGED <<dirVars, step, ownVars, fresh, inner, innerFresh, evictVars>>

SeeLock(p, s) ==
    /\ <<s, "lock">> \in todo[p]
    /\ Seen(p, s, "lock")
    /\ IF s \in lockFile
       THEN Move(p, "scanning", "orphanSeen") /\ inner' = [inner EXCEPT ![p] = s]
       ELSE step[p] = "scanning" /\ UNCHANGED <<step, inner>>
    /\ UNCHANGED <<dirVars, ownVars, fresh, innerFresh, found, evictVars>>

OpenOrphan(p) ==
    /\ Move(p, "orphanSeen", "orphanOpened")
    /\ OpenInner(p, inner[p])
    /\ UNCHANGED <<ownVars, fresh, scanVars, evictVars>>

\* (Faulty variant: whether there is an entry is not checked under the lock.)
TakenForUnused(p) ==
    /\ Move(p, "orphanOpened", "orphanDoomed")
    /\ innerFresh[p] /\ Unlocked(inner[p])
    /\ UNCHANGED <<dirVars, ownVars, fresh, inner, innerFresh, scanVars, evictVars>>

LockOrphan(p) ==
    /\ Move(p, "orphanOpened", "orphanLocked")
    /\ innerFresh[p] /\ Unlocked(inner[p])
    /\ UNCHANGED <<dirVars, ownVars, fresh, inner, innerFresh, scanVars, evictVars>>

\* (Faulty variant: maintenance waits for the lock.)
RefusedNever(p) == FALSE /\ UNCHANGED vars

\* (Faulty variant: maintenance comes back to the lock file later.)
RetryOrphan(p) ==
    /\ CloseInner(p, "orphanOpened", "scanning")
    /\ todo' = [todo EXCEPT ![p] = @ \cup {<<inner[p], "lock">>}]
    /\ UNCHANGED <<dirVars, ownVars, fresh, found, evictVars>>

RefusedOrphan(p) ==
    /\ CloseInner(p, "orphanOpened", "scanning")
    /\ UNCHANGED <<dirVars, ownVars, fresh, scanVars, evictVars>>

LockInUse(p) ==
    /\ CloseInner(p, "orphanLocked", "scanning")
    /\ entry[inner[p]] # NoFile
    /\ UNCHANGED <<dirVars, ownVars, fresh, scanVars, evictVars>>

LockUnused(p) ==
    /\ Move(p, "orphanLocked", "orphanDoomed")
    /\ entry[inner[p]] = NoFile
    /\ UNCHANGED <<dirVars, ownVars, fresh, inner, innerFresh, scanVars, evictVars>>

\* From now on the pathname leads to none of the files that others have open.
UnlinkLock(p) ==
    /\ Move(p, "orphanDoomed", "scanning")
    /\ lockFile' = lockFile \ {inner[p]}
    /\ fresh' = [q \in Procs |-> fresh[q] /\ slot[q] # inner[p]]
    /\ innerFresh' = [q \in Procs |-> innerFresh[q] /\ inner[q] # inner[p]]
    /\ inner' = [inner EXCEPT ![p] = NoSlot]
    /\ UNCHANGED <<entry, settled, ownVars, scanVars, evictVars>>

EndScan(p) ==
    /\ Move(p, "scanning", "evicting")
    /\ todo[p] = {}
    /\ LET seen == {s \in Slots : found[p][s] # NoFile}
       IN  /\ counted' = [counted EXCEPT ![p] = seen]
           /\ candidates' = [candidates EXCEPT ![p] = seen]
    /\ UNCHANGED <<dirVars, ownVars, fresh, inner, innerFresh, scanVars>>

----------------------------------------------------------------------------
(* Maintenance: the limit *)

OverLimit(p) == Cardinality(counted[p]) > MaxEntries

Consider(p, s) ==
    /\ s \in candidates[p]
    /\ candidates' = [candidates EXCEPT ![p] = @ \ {s}]

\* The save's own slot is protected; others stay if they are young and within the limit.
Spare(p, s) ==
    /\ step[p] = "evicting"
    /\ Consider(p, s)
    /\ s = slot[p] \/ ~OverLimit(p)
    /\ UNCHANGED <<dirVars, step, ownVars, fresh, inner, innerFresh, scanVars, counted>>

\* Too many entries, or this one has expired.
OpenEntry(p, s) ==
    /\ Move(p, "evicting", "entryOpened")
    /\ Consider(p, s)
    /\ s # slot[p]
    /\ OpenInner(p, s)
    /\ UNCHANGED <<ownVars, fresh, scanVars, counted>>

\* (Faulty variant: an entry is removed under a shared lock.)
LockEntryShared(p) ==
    /\ Move(p, "entryOpened", "entryLocked")
    /\ innerFresh[p] /\ Unowned(inner[p])
    /\ UNCHANGED <<dirVars, ownVars, fresh, inner, innerFresh, scanVars, evictVars>>

LockEntry(p) ==
    /\ Move(p, "entryOpened", "entryLocked")
    /\ innerFresh[p] /\ Unlocked(inner[p])
    /\ UNCHANGED <<dirVars, ownVars, fresh, inner, innerFresh, scanVars, evictVars>>

\* (Faulty variant: an entry that is in use counts as removed.)
RefusedIsGone(p) ==
    /\ CloseInner(p, "entryOpened", "evicting")
    /\ counted' = [counted EXCEPT ![p] = @ \ {inner[p]}]
    /\ UNCHANGED <<dirVars, ownVars, fresh, scanVars, candidates>>

RefusedEntry(p) ==
    /\ CloseInner(p, "entryOpened", "evicting")
    /\ UNCHANGED <<dirVars, ownVars, fresh, scanVars, evictVars>>

\* Someone else has removed it: it counts no more.
EntryGone(p) ==
    /\ CloseInner(p, "entryLocked", "evicting")
    /\ entry[inner[p]] = NoFile
    /\ counted' = [counted EXCEPT ![p] = @ \ {inner[p]}]
    /\ UNCHANGED <<dirVars, ownVars, fresh, scanVars, candidates>>

\* Someone else has replaced it: it stays, and still counts.
EntryReplaced(p) ==
    /\ CloseInner(p, "entryLocked", "evicting")
    /\ entry[inner[p]] \notin {NoFile, found[p][inner[p]]}
    /\ UNCHANGED <<dirVars, ownVars, fresh, scanVars, evictVars>>

EntryUnchanged(p) ==
    /\ Move(p, "entryLocked", "entryDoomed")
    /\ entry[inner[p]] = found[p][inner[p]]
    /\ UNCHANGED <<dirVars, ownVars, fresh, inner, innerFresh, scanVars, evictVars>>

UnlinkEntry(p) ==
    /\ CloseInner(p, "entryDoomed", "evicting")
    /\ entry' = [entry EXCEPT ![inner[p]] = NoFile]
    /\ settled' = settled \ {inner[p]}
    /\ counted' = [counted EXCEPT ![p] = @ \ {inner[p]}]
    /\ UNCHANGED <<lockFile, ownVars, fresh, scanVars, candidates>>

KeepEntry(p) ==
    /\ step[p] = "evicting" /\ op[p] = "save"
    /\ candidates[p] = {}
    /\ ~OverLimit(p)
    /\ End(p)
    /\ settled' = settled \cup {slot[p]}
    /\ UNCHANGED <<lockFile, entry>>

\* Still too many: the new entry goes again.
DiscardEntry(p) ==
    /\ step[p] = "evicting" /\ op[p] = "save"
    /\ candidates[p] = {}
    /\ OverLimit(p)
    /\ End(p)
    /\ entry' = [entry EXCEPT ![slot[p]] = NoFile]
    /\ UNCHANGED <<lockFile, settled>>

FinishStartUp(p) ==
    /\ step[p] = "evicting" /\ op[p] = "startup"
    /\ candidates[p] = {}
    /\ End(p)
    /\ UNCHANGED dirVars

\* An error, a deadline, a limit on the scan, an entry that may not be stored; or the
\* process dies and the system takes its locks.  What is in the directory stays there.
Abandon(p) ==
    /\ step[p] # "idle"
    /\ End(p)
    /\ UNCHANGED dirVars

----------------------------------------------------------------------------
Begin(p) == StartUp(p) \/ \E s \in Slots, o \in {"load", "save"} : Open(p, o, s)

Proceed(p) ==
    \/ Acquire(p) \/ Refused(p) \/ FinishLoad(p)
    \/ \E i \in Inodes : Publish(p, i)
    \/ \E s \in Slots : SeeEntry(p, s) \/ SeeLock(p, s)
    \/ OpenOrphan(p) \/ LockOrphan(p) \/ RefusedOrphan(p) \/ LockInUse(p) \/ LockUnused(p)
    \/ UnlinkLock(p) \/ EndScan(p)
    \/ \E s \in Slots : Spare(p, s) \/ OpenEntry(p, s)
    \/ LockEntry(p) \/ RefusedEntry(p) \/ EntryGone(p) \/ EntryReplaced(p)
    \/ EntryUnchanged(p) \/ UnlinkEntry(p)
    \/ KeepEntry(p) \/ DiscardEntry(p) \/ FinishStartUp(p)

Next == \E p \in Procs : Begin(p) \/ Proceed(p) \/ Abandon(p)

Spec == Init /\ [][Next]_vars

----------------------------------------------------------------------------
(* Properties *)

\* Whoever reads an entry, or has just published one and is maintaining the directory,
\* finds its slot as it left it: nobody else replaces or removes the entry or takes the lock
\* file away.  (_slot_lock, _remove_entry, _remove_orphan_lock)
SlotUndisturbed ==
    [][\A p \in Procs : step[p] \in {"reading"} \cup Maintaining /\ slot[p] \in Slots
                         /\ step'[p] # "idle" =>
         entry'[slot[p]] = entry[slot[p]] /\ slot[p] \in lockFile']_vars

\* An entry's lock file stays as long as the entry, so that all operations on it meet at the
\* same file.  (_remove_orphan_lock)
LockCoversEntry == Entries \subseteq lockFile

\* The entries whose saves have kept them are within the limit, however many saves maintain
\* the directory at once.  (_maintain_cache, and the unlink in _save_unlocked)
QuotaKept == settled \subseteq Entries /\ Cardinality(settled) <= MaxEntries

\* No operation waits for another, nor a save for its own lock when maintenance comes by
\* it: whatever locks are held, each operation can go on.  (LOCK_NB in _slot_lock)
NobodyWaits == \A p \in Procs : step[p] # "idle" => ENABLED Proceed(p)

----------------------------------------------------------------------------
(* How long an operation takes *)

\* What is left to do for the slot that maintenance has gone into.
Detour(p) ==
    CASE step[p] = "orphanSeen" -> 4
      [] step[p] \in {"orphanOpened", "entryOpened"} -> 3
      [] step[p] \in {"orphanLocked", "entryLocked"} -> 2
      [] step[p] \in {"orphanDoomed", "entryDoomed"} -> 1
      [] OTHER -> 0

\* The most steps that an operation still has to take: five for each child of the directory
\* that maintenance has yet to look at, and four for each entry that it may yet remove.
StepsLeft(p) ==
    CASE step[p] = "idle" -> 0
      [] step[p] = "reading" -> 1
      [] step[p] \in {"evicting"} \cup Removal -> 1 + 4 * Cardinality(candidates[p]) + Detour(p)
      [] step[p] \in {"scanning"} \cup Orphan ->
           2 + 4 * Cardinality(Slots) + 5 * Cardinality(todo[p]) + Detour(p)
      [] step[p] = "writing" -> 3 + 14 * Cardinality(Slots)
      [] step[p] = "opened" -> 4 + 14 * Cardinality(Slots)

\* However long the other operations go on and whatever they do to the directory, an operation
\* is over after so many steps of its own, by the number of slots.
\* (_cache_inventory lists the directory once, _maintain_cache considers what it listed once)
StepsBounded == \A p \in Procs : StepsLeft(p) \in 0 .. 4 + 14 * Cardinality(Slots)

\* Every step of an operation brings it closer to its end, and no step of another one puts
\* the end off again.  (_maintain_cache goes on with the next child or entry when it is refused)
StepsRunOut ==
    [][\A p \in Procs :
         /\ Proceed(p) => StepsLeft(p)' < StepsLeft(p)
         /\ step[p] # "idle" => StepsLeft(p)' <= StepsLeft(p)]_vars

----------------------------------------------------------------------------
(* Refinement *)

\* The slots a process holds the lock of, by its step alone: whether the file it has locked is
\* the one the pathname leads to does not enter here.
Shared(p) == {s \in Slots : step[p] = "reading" /\ slot[p] = s}
Owned(p) ==
    {s \in Slots :
        \/ step[p] \in {"writing"} \cup Maintaining /\ slot[p] = s
        \/ step[p] \in {"orphanLocked", "orphanDoomed", "entryLocked", "entryDoomed"} /\ inner[p] = s}

Locked == INSTANCE LockedSlots WITH
    Files <- Inodes,
    shared <- [p \in Procs |-> Shared(p)],
    owned <- [p \in Procs |-> Owned(p)]

\* Lock files that come and go under those who have them open are as good as one lock per slot:
\* no one owns a slot that another reads or owns, and only its owner changes the entry.
\* (_slot_lock, _remove_entry, _remove_orphan_lock)
ImplementsLockedSlots == Locked!Spec

=============================================================================
