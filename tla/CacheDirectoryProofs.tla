------------------------- MODULE CacheDirectoryProofs -----------------------
(***************************************************************************)
(* Proofs about module CacheDirectory, for any processes, slots and limit. *)
(***************************************************************************)
EXTENDS CacheDirectory, FiniteSetTheorems, TLAPS

----------------------------------------------------------------------------
(* The inductive invariant behind LockCoversEntry and SlotUndisturbed *)

\* What belongs to a process in each step.
Shape(p) ==
    /\ step[p] = "idle" => slot[p] = NoSlot
    /\ step[p] \in {"opened", "reading", "writing"} => slot[p] \in Slots
    /\ step[p] = "reading" => op[p] = "load"
    /\ step[p] = "writing" => op[p] = "save"
    /\ step[p] = "opened" => op[p] \in {"load", "save"}
    /\ step[p] \in Maintaining => \/ op[p] = "save" /\ slot[p] \in Slots
                                  \/ op[p] = "startup" /\ slot[p] = NoSlot
    /\ step[p] \in Orphan \cup Removal <=> inner[p] \in Slots

\* A lock is held on the file the pathname leads to.
Fresh(p) ==
    /\ step[p] \in {"reading", "writing"} \cup Maintaining /\ slot[p] \in Slots => fresh[p]
    /\ step[p] \in {"orphanLocked", "orphanDoomed", "entryLocked", "entryDoomed"} => innerFresh[p]
    /\ fresh[p] => slot[p] \in lockFile
    /\ innerFresh[p] => inner[p] \in lockFile

Exclusive(s) ==
    /\ \A p, q \in Procs : Owns(p, s) => ~Reads(q, s) /\ ~Cleans(q, s) /\ (Owns(q, s) => p = q)
    /\ \A p, q \in Procs : Cleans(p, s) => ~Reads(q, s) /\ (Cleans(q, s) => p = q)

DoomedUnused == \A p \in Procs : step[p] = "orphanDoomed" => entry[inner[p]] = NoFile

ShapeInv == \A p \in Procs : Shape(p)
FreshInv == \A p \in Procs : Fresh(p)
LockInv == \A s \in Slots : Exclusive(s)

IInv == TypeOK /\ ShapeInv /\ FreshInv /\ LockInv /\ DoomedUnused /\ LockCoversEntry

----------------------------------------------------------------------------
(* The inductive invariant behind QuotaKept *)

\* Saves whose new entry is in the directory, and which maintain it.
Published(p) == op[p] = "save" /\ step[p] \in Maintaining
Pending == {p \in Procs : Published(p)}

\* The slots whose entries maintenance counts, or may still come to count.
View(p) ==
    IF step[p] \in {"scanning"} \cup Orphan
    THEN {s \in Slots : found[p][s] # NoFile \/ <<s, "entry">> \in todo[p]}
    ELSE counted[p]

SettledInv ==
    /\ settled \subseteq Entries
    /\ \A p \in Pending : slot[p] \in Entries \ settled

\* The saves that maintain the directory published in some order, "before", and each counts the
\* entries of those before it.  Those that were before one that has kept its entry are "outrun":
\* it has counted theirs, and they need not have seen it.  All others count what has been kept.
Ordered(before, outrun) ==
    /\ \A p \in Procs : before[p] \subseteq Pending
    /\ \A p, q \in Pending : p = q \/ p \in before[q] \/ q \in before[p]
    /\ \A p \in Procs : \A q \in before[p] : before[q] \subseteq before[p]
    /\ outrun \subseteq Pending
    /\ \A p \in outrun : before[p] \subseteq outrun
    /\ \A p \in Pending : /\ slot[p] \in View(p)
                          /\ \A q \in before[p] : slot[q] \in View(p)
    /\ \A p \in Pending \ outrun : settled \subseteq View(p)
    /\ Cardinality(settled \cup {slot[p] : p \in outrun}) <= MaxEntries

QuotaInv == \E before \in [Procs -> SUBSET Procs], outrun \in SUBSET Procs : Ordered(before, outrun)

FullInv == IInv /\ SettledInv /\ QuotaInv

----------------------------------------------------------------------------
(* Proofs *)

LEMMA InvariantInit == Init => IInv
BY NoSlotAssumption, NoFileAssumption
   DEF Init, IInv, TypeOK, ShapeInv, Shape, FreshInv, Fresh, LockInv, Exclusive, DoomedUnused,
       LockCoversEntry, Entries, Nothing, Steps, Seeking, Maintaining, Orphan, Removal, Operations,
       Reads, Owns, Cleans

----------------------------------------------------------------------------
\* Every action keeps the types and what belongs to a process in each step.
LEMMA TypeStep == TypeOK /\ ShapeInv /\ [Next]_vars => TypeOK'
<1> SUFFICES ASSUME TypeOK, ShapeInv, [Next]_vars PROVE TypeOK'
  OBVIOUS
<1> USE DEF TypeOK, Steps, Seeking, Maintaining, Orphan, Removal, Operations, Nothing, Children,
            dirVars, ownVars, scanVars, evictVars, Move, End, OpenInner, CloseInner, Seen, Consider
<1>1. CASE UNCHANGED vars
  BY <1>1 DEF vars
<1>2. ASSUME NEW p \in Procs, Begin(p) \/ Proceed(p) \/ Abandon(p) PROVE TypeOK'
  <2>1. CASE StartUp(p)
    BY <2>1 DEF StartUp
  <2>2. ASSUME NEW o \in {"load", "save"}, NEW s \in Slots, Open(p, o, s) PROVE TypeOK'
    BY <2>2 DEF Open
  <2>3. CASE Acquire(p)
    BY <2>3 DEF Acquire
  <2>4. CASE Refused(p)
    BY <2>4 DEF Refused
  <2>5. CASE FinishLoad(p)
    BY <2>5 DEF FinishLoad
  <2>6. ASSUME NEW i \in Inodes, Publish(p, i) PROVE TypeOK'
    BY <2>6 DEF Publish, ShapeInv, Shape
  <2>7. ASSUME NEW s \in Slots, SeeEntry(p, s) PROVE TypeOK'
    BY <2>7 DEF SeeEntry, ShapeInv, Shape
  <2>8. ASSUME NEW s \in Slots, SeeLock(p, s) PROVE TypeOK'
    BY <2>8 DEF SeeLock
  <2>9. CASE OpenOrphan(p)
    BY <2>9 DEF OpenOrphan, ShapeInv, Shape
  <2>10. CASE LockOrphan(p)
    BY <2>10 DEF LockOrphan
  <2>11. CASE RefusedOrphan(p)
    BY <2>11 DEF RefusedOrphan
  <2>12. CASE LockInUse(p)
    BY <2>12 DEF LockInUse
  <2>13. CASE LockUnused(p)
    BY <2>13 DEF LockUnused
  <2>14. CASE UnlinkLock(p)
    BY <2>14 DEF UnlinkLock
  <2>15. CASE EndScan(p)
    BY <2>15 DEF EndScan
  <2>16. ASSUME NEW s \in Slots, Spare(p, s) PROVE TypeOK'
    BY <2>16 DEF Spare
  <2>17. ASSUME NEW s \in Slots, OpenEntry(p, s) PROVE TypeOK'
    BY <2>17 DEF OpenEntry
  <2>18. CASE LockEntry(p)
    BY <2>18 DEF LockEntry
  <2>19. CASE RefusedEntry(p)
    BY <2>19 DEF RefusedEntry
  <2>20. CASE EntryGone(p)
    BY <2>20 DEF EntryGone
  <2>21. CASE EntryReplaced(p)
    BY <2>21 DEF EntryReplaced
  <2>22. CASE EntryUnchanged(p)
    BY <2>22 DEF EntryUnchanged
  <2>23. CASE UnlinkEntry(p)
    BY <2>23 DEF UnlinkEntry, ShapeInv, Shape
  <2>24. CASE KeepEntry(p)
    BY <2>24 DEF KeepEntry, ShapeInv, Shape
  <2>25. CASE DiscardEntry(p)
    BY <2>25 DEF DiscardEntry, ShapeInv, Shape
  <2>26. CASE FinishStartUp(p)
    BY <2>26 DEF FinishStartUp
  <2>27. CASE Abandon(p)
    BY <2>27 DEF Abandon
  <2> QED
    BY <1>2, <2>1, <2>2, <2>3, <2>4, <2>5, <2>6, <2>7, <2>8, <2>9, <2>10, <2>11, <2>12,
       <2>13, <2>14, <2>15, <2>16, <2>17, <2>18, <2>19, <2>20, <2>21, <2>22, <2>23, <2>24,
       <2>25, <2>26, <2>27 DEF Begin, Proceed
<1> QED
  BY <1>1, <1>2 DEF Next

LEMMA ShapeStep == TypeOK /\ ShapeInv /\ [Next]_vars => ShapeInv'
<1> SUFFICES ASSUME TypeOK, ShapeInv, [Next]_vars, NEW r \in Procs PROVE Shape(r)'
  BY DEF ShapeInv
<1>0. Shape(r)
  BY DEF ShapeInv
<1> USE <1>0, NoSlotAssumption
        DEF TypeOK, Steps, Seeking, Maintaining, Orphan, Removal, Operations, Shape,
            dirVars, ownVars, scanVars, evictVars, Move, End, OpenInner, CloseInner, Seen, Consider
<1>1. CASE UNCHANGED vars
  BY <1>1 DEF vars
<1>2. ASSUME NEW p \in Procs, Begin(p) \/ Proceed(p) \/ Abandon(p) PROVE Shape(r)'
  <2>1. CASE StartUp(p)
    BY <2>1 DEF StartUp
  <2>2. ASSUME NEW o \in {"load", "save"}, NEW s \in Slots, Open(p, o, s) PROVE Shape(r)'
    BY <2>2 DEF Open
  <2>3. CASE Acquire(p)
    BY <2>3 DEF Acquire
  <2>4. CASE Refused(p)
    BY <2>4 DEF Refused
  <2>5. CASE FinishLoad(p)
    BY <2>5 DEF FinishLoad
  <2>6. ASSUME NEW i \in Inodes, Publish(p, i) PROVE Shape(r)'
    BY <2>6 DEF Publish
  <2>7. ASSUME NEW s \in Slots, SeeEntry(p, s) PROVE Shape(r)'
    BY <2>7 DEF SeeEntry
  <2>8. ASSUME NEW s \in Slots, SeeLock(p, s) PROVE Shape(r)'
    BY <2>8 DEF SeeLock
  <2>9. CASE OpenOrphan(p)
    BY <2>9 DEF OpenOrphan, ShapeInv, Shape
  <2>10. CASE LockOrphan(p)
    BY <2>10 DEF LockOrphan
  <2>11. CASE RefusedOrphan(p)
    BY <2>11 DEF RefusedOrphan
  <2>12. CASE LockInUse(p)
    BY <2>12 DEF LockInUse
  <2>13. CASE LockUnused(p)
    BY <2>13 DEF LockUnused
  <2>14. CASE UnlinkLock(p)
    BY <2>14 DEF UnlinkLock
  <2>15. CASE EndScan(p)
    BY <2>15 DEF EndScan
  <2>16. ASSUME NEW s \in Slots, Spare(p, s) PROVE Shape(r)'
    BY <2>16 DEF Spare
  <2>17. ASSUME NEW s \in Slots, OpenEntry(p, s) PROVE Shape(r)'
    BY <2>17 DEF OpenEntry
  <2>18. CASE LockEntry(p)
    BY <2>18 DEF LockEntry
  <2>19. CASE RefusedEntry(p)
    BY <2>19 DEF RefusedEntry
  <2>20. CASE EntryGone(p)
    BY <2>20 DEF EntryGone
  <2>21. CASE EntryReplaced(p)
    BY <2>21 DEF EntryReplaced
  <2>22. CASE EntryUnchanged(p)
    BY <2>22 DEF EntryUnchanged
  <2>23. CASE UnlinkEntry(p)
    BY <2>23 DEF UnlinkEntry
  <2>24. CASE KeepEntry(p)
    BY <2>24 DEF KeepEntry
  <2>25. CASE DiscardEntry(p)
    BY <2>25 DEF DiscardEntry
  <2>26. CASE FinishStartUp(p)
    BY <2>26 DEF FinishStartUp
  <2>27. CASE Abandon(p)
    BY <2>27 DEF Abandon
  <2> QED
    BY <1>2, <2>1, <2>2, <2>3, <2>4, <2>5, <2>6, <2>7, <2>8, <2>9, <2>10, <2>11, <2>12,
       <2>13, <2>14, <2>15, <2>16, <2>17, <2>18, <2>19, <2>20, <2>21, <2>22, <2>23, <2>24,
       <2>25, <2>26, <2>27 DEF Begin, Proceed
<1> QED
  BY <1>1, <1>2 DEF Next

----------------------------------------------------------------------------
\* A lock on a pathname's present file keeps that file there.
LEMMA FreshStep == TypeOK /\ ShapeInv /\ FreshInv /\ LockInv /\ [Next]_vars => FreshInv'
<1> SUFFICES ASSUME TypeOK, ShapeInv, FreshInv, LockInv, [Next]_vars, NEW r \in Procs
             PROVE  Fresh(r)'
  BY DEF FreshInv
<1>0. Fresh(r) /\ Shape(r)
  BY DEF FreshInv, ShapeInv
<1> USE <1>0, NoSlotAssumption
        DEF TypeOK, Steps, Seeking, Maintaining, Orphan, Removal, Operations, Fresh, Shape,
            dirVars, ownVars, scanVars, evictVars, Move, End, OpenInner, CloseInner, Seen, Consider
<1>1. CASE UNCHANGED vars
  BY <1>1 DEF vars
<1>2. ASSUME NEW p \in Procs, Begin(p) \/ Proceed(p) \/ Abandon(p) PROVE Fresh(r)'
  <2>1. CASE StartUp(p)
    BY <2>1 DEF StartUp
  <2>2. ASSUME NEW o \in {"load", "save"}, NEW s \in Slots, Open(p, o, s) PROVE Fresh(r)'
    BY <2>2 DEF Open
  <2>3. CASE Acquire(p)
    BY <2>3 DEF Acquire
  <2>4. CASE Refused(p)
    BY <2>4 DEF Refused
  <2>5. CASE FinishLoad(p)
    BY <2>5 DEF FinishLoad
  <2>6. ASSUME NEW i \in Inodes, Publish(p, i) PROVE Fresh(r)'
    BY <2>6 DEF Publish
  <2>7. ASSUME NEW s \in Slots, SeeEntry(p, s) PROVE Fresh(r)'
    BY <2>7 DEF SeeEntry
  <2>8. ASSUME NEW s \in Slots, SeeLock(p, s) PROVE Fresh(r)'
    BY <2>8 DEF SeeLock
  <2>9. CASE OpenOrphan(p)
    BY <2>9 DEF OpenOrphan, ShapeInv
  <2>10. CASE LockOrphan(p)
    BY <2>10 DEF LockOrphan
  <2>11. CASE RefusedOrphan(p)
    BY <2>11 DEF RefusedOrphan
  <2>12. CASE LockInUse(p)
    BY <2>12 DEF LockInUse
  <2>13. CASE LockUnused(p)
    BY <2>13 DEF LockUnused
  <2>14. CASE UnlinkLock(p)
    <3>1. inner[p] \in Slots /\ innerFresh[p] /\ step[p] = "orphanDoomed"
      BY <2>14 DEF UnlinkLock, ShapeInv, FreshInv
    <3>2. Cleans(p, inner[p])
      BY <3>1 DEF Cleans
    <3>3. ~Reads(r, inner[p]) /\ ~Owns(r, inner[p]) /\ (Cleans(r, inner[p]) => r = p)
      BY <3>1, <3>2 DEF LockInv, Exclusive
    <3> QED
      BY <2>14, <3>1, <3>3 DEF UnlinkLock, Reads, Owns, Cleans
  <2>15. CASE EndScan(p)
    BY <2>15 DEF EndScan
  <2>16. ASSUME NEW s \in Slots, Spare(p, s) PROVE Fresh(r)'
    BY <2>16 DEF Spare
  <2>17. ASSUME NEW s \in Slots, OpenEntry(p, s) PROVE Fresh(r)'
    BY <2>17 DEF OpenEntry
  <2>18. CASE LockEntry(p)
    BY <2>18 DEF LockEntry
  <2>19. CASE RefusedEntry(p)
    BY <2>19 DEF RefusedEntry
  <2>20. CASE EntryGone(p)
    BY <2>20 DEF EntryGone
  <2>21. CASE EntryReplaced(p)
    BY <2>21 DEF EntryReplaced
  <2>22. CASE EntryUnchanged(p)
    BY <2>22 DEF EntryUnchanged
  <2>23. CASE UnlinkEntry(p)
    BY <2>23 DEF UnlinkEntry
  <2>24. CASE KeepEntry(p)
    BY <2>24 DEF KeepEntry
  <2>25. CASE DiscardEntry(p)
    BY <2>25 DEF DiscardEntry
  <2>26. CASE FinishStartUp(p)
    BY <2>26 DEF FinishStartUp
  <2>27. CASE Abandon(p)
    BY <2>27 DEF Abandon
  <2> QED
    BY <1>2, <2>1, <2>2, <2>3, <2>4, <2>5, <2>6, <2>7, <2>8, <2>9, <2>10, <2>11, <2>12,
       <2>13, <2>14, <2>15, <2>16, <2>17, <2>18, <2>19, <2>20, <2>21, <2>22, <2>23, <2>24,
       <2>25, <2>26, <2>27 DEF Begin, Proceed
<1> QED
  BY <1>1, <1>2 DEF Next

\* A slot has one owner or cleaner and no readers beside it.
LEMMA LockStep == TypeOK /\ ShapeInv /\ FreshInv /\ LockInv /\ [Next]_vars => LockInv'
<1> SUFFICES ASSUME TypeOK, ShapeInv, FreshInv, LockInv, [Next]_vars, NEW t \in Slots
             PROVE  Exclusive(t)'
  BY DEF LockInv
<1>0. Exclusive(t)
  BY DEF LockInv
<1> USE <1>0, NoSlotAssumption
        DEF TypeOK, Steps, Seeking, Maintaining, Orphan, Removal, Operations, Exclusive,
            Reads, Owns, Cleans, dirVars, ownVars, scanVars, evictVars, Move, End, OpenInner,
            CloseInner, Seen, Consider
<1>1. CASE UNCHANGED vars
  BY <1>1 DEF vars
<1>2. ASSUME NEW p \in Procs, Begin(p) \/ Proceed(p) \/ Abandon(p) PROVE Exclusive(t)'
  <2>1. CASE StartUp(p)
    BY <2>1 DEF StartUp, ShapeInv, Shape
  <2>2. ASSUME NEW o \in {"load", "save"}, NEW s \in Slots, Open(p, o, s) PROVE Exclusive(t)'
    BY <2>2 DEF Open
  <2>3. CASE Acquire(p)
    BY <2>3 DEF Acquire, Available, Unlocked, Unowned
  <2>4. CASE Refused(p)
    BY <2>4 DEF Refused
  <2>5. CASE FinishLoad(p)
    BY <2>5 DEF FinishLoad
  <2>6. ASSUME NEW i \in Inodes, Publish(p, i) PROVE Exclusive(t)'
    BY <2>6 DEF Publish
  <2>7. ASSUME NEW s \in Slots, SeeEntry(p, s) PROVE Exclusive(t)'
    BY <2>7 DEF SeeEntry
  <2>8. ASSUME NEW s \in Slots, SeeLock(p, s) PROVE Exclusive(t)'
    <3>1. UNCHANGED <<slot, fresh, innerFresh>>
      BY <2>8 DEF SeeLock
    <3>2. step[p] = "scanning" /\ step'[p] \in {"scanning", "orphanSeen"}
          /\ \A q \in Procs \ {p} : step'[q] = step[q] /\ inner'[q] = inner[q]
      BY <2>8 DEF SeeLock
    <3>3. \A q \in Procs : /\ Reads(q, t)' <=> Reads(q, t)
                           /\ Owns(q, t)' <=> Owns(q, t)
                           /\ Cleans(q, t)' <=> Cleans(q, t)
      BY <3>1, <3>2
    <3> QED
      BY <3>3
  <2>9. CASE OpenOrphan(p)
    BY <2>9 DEF OpenOrphan
  <2>10. CASE LockOrphan(p)
    BY <2>10 DEF LockOrphan, Available, Unlocked, Unowned
  <2>11. CASE RefusedOrphan(p)
    BY <2>11 DEF RefusedOrphan
  <2>12. CASE LockInUse(p)
    BY <2>12 DEF LockInUse
  <2>13. CASE LockUnused(p)
    BY <2>13 DEF LockUnused
  <2>14. CASE UnlinkLock(p)
    BY <2>14 DEF UnlinkLock
  <2>15. CASE EndScan(p)
    BY <2>15 DEF EndScan
  <2>16. ASSUME NEW s \in Slots, Spare(p, s) PROVE Exclusive(t)'
    BY <2>16 DEF Spare
  <2>17. ASSUME NEW s \in Slots, OpenEntry(p, s) PROVE Exclusive(t)'
    BY <2>17 DEF OpenEntry
  <2>18. CASE LockEntry(p)
    BY <2>18 DEF LockEntry, Available, Unlocked, Unowned
  <2>19. CASE RefusedEntry(p)
    BY <2>19 DEF RefusedEntry
  <2>20. CASE EntryGone(p)
    BY <2>20 DEF EntryGone
  <2>21. CASE EntryReplaced(p)
    BY <2>21 DEF EntryReplaced
  <2>22. CASE EntryUnchanged(p)
    BY <2>22 DEF EntryUnchanged
  <2>23. CASE UnlinkEntry(p)
    BY <2>23 DEF UnlinkEntry
  <2>24. CASE KeepEntry(p)
    BY <2>24 DEF KeepEntry
  <2>25. CASE DiscardEntry(p)
    BY <2>25 DEF DiscardEntry
  <2>26. CASE FinishStartUp(p)
    BY <2>26 DEF FinishStartUp
  <2>27. CASE Abandon(p)
    BY <2>27 DEF Abandon
  <2> QED
    BY <1>2, <2>1, <2>2, <2>3, <2>4, <2>5, <2>6, <2>7, <2>8, <2>9, <2>10, <2>11, <2>12,
       <2>13, <2>14, <2>15, <2>16, <2>17, <2>18, <2>19, <2>20, <2>21, <2>22, <2>23, <2>24,
       <2>25, <2>26, <2>27 DEF Begin, Proceed
<1> QED
  BY <1>1, <1>2 DEF Next

\* A lock file found unused stays unused until it is unlinked.
LEMMA DoomedStep == TypeOK /\ ShapeInv /\ FreshInv /\ LockInv /\ DoomedUnused /\ [Next]_vars
                      => DoomedUnused'
<1> SUFFICES ASSUME TypeOK, ShapeInv, FreshInv, LockInv, DoomedUnused, [Next]_vars,
                    NEW r \in Procs
             PROVE  (step[r] = "orphanDoomed" => entry[inner[r]] = NoFile)'
  BY DEF DoomedUnused
<1> DEFINE Unused == step[r] = "orphanDoomed" => entry[inner[r]] = NoFile
<1>0. Unused /\ Shape(r)
  BY DEF DoomedUnused, ShapeInv
<1> USE <1>0 DEF TypeOK, Orphan, Maintaining, Removal, Shape, dirVars, ownVars, scanVars, evictVars,
            Move, End, OpenInner, CloseInner, Seen, Consider
<1>1. CASE UNCHANGED vars
  BY <1>1 DEF vars
<1>2. ASSUME NEW p \in Procs, Begin(p) \/ Proceed(p) \/ Abandon(p) PROVE Unused'
  <2>1. CASE StartUp(p)
    BY <2>1 DEF StartUp
  <2>2. ASSUME NEW o \in {"load", "save"}, NEW s \in Slots, Open(p, o, s) PROVE Unused'
    BY <2>2 DEF Open
  <2>3. CASE Acquire(p)
    BY <2>3 DEF Acquire
  <2>4. CASE Refused(p)
    BY <2>4 DEF Refused
  <2>5. CASE FinishLoad(p)
    BY <2>5 DEF FinishLoad
  <2>6. ASSUME NEW i \in Inodes, Publish(p, i) PROVE Unused'
    <3>1. slot[p] \in Slots /\ fresh[p] /\ step[p] = "writing"
      BY <2>6 DEF Publish, ShapeInv, FreshInv, Fresh
    <3>2. Owns(p, slot[p])
      BY <3>1 DEF Owns
    <3>3. ~Cleans(r, slot[p])
      BY <3>1, <3>2 DEF LockInv, Exclusive
    <3>4. step[r] = "orphanDoomed" => innerFresh[r] /\ inner[r] # slot[p]
      BY <3>3 DEF Cleans, FreshInv, Fresh
    <3> QED
      BY <2>6, <3>1, <3>4 DEF Publish
  <2>7. ASSUME NEW s \in Slots, SeeEntry(p, s) PROVE Unused'
    BY <2>7 DEF SeeEntry
  <2>8. ASSUME NEW s \in Slots, SeeLock(p, s) PROVE Unused'
    BY <2>8 DEF SeeLock
  <2>9. CASE OpenOrphan(p)
    BY <2>9 DEF OpenOrphan
  <2>10. CASE LockOrphan(p)
    BY <2>10 DEF LockOrphan
  <2>11. CASE RefusedOrphan(p)
    BY <2>11 DEF RefusedOrphan
  <2>12. CASE LockInUse(p)
    BY <2>12 DEF LockInUse
  <2>13. CASE LockUnused(p)
    BY <2>13 DEF LockUnused
  <2>14. CASE UnlinkLock(p)
    BY <2>14 DEF UnlinkLock
  <2>15. CASE EndScan(p)
    BY <2>15 DEF EndScan
  <2>16. ASSUME NEW s \in Slots, Spare(p, s) PROVE Unused'
    BY <2>16 DEF Spare
  <2>17. ASSUME NEW s \in Slots, OpenEntry(p, s) PROVE Unused'
    BY <2>17 DEF OpenEntry
  <2>18. CASE LockEntry(p)
    BY <2>18 DEF LockEntry
  <2>19. CASE RefusedEntry(p)
    BY <2>19 DEF RefusedEntry
  <2>20. CASE EntryGone(p)
    BY <2>20 DEF EntryGone
  <2>21. CASE EntryReplaced(p)
    BY <2>21 DEF EntryReplaced
  <2>22. CASE EntryUnchanged(p)
    BY <2>22 DEF EntryUnchanged
  <2>23. CASE UnlinkEntry(p)
    BY <2>23 DEF UnlinkEntry
  <2>24. CASE KeepEntry(p)
    BY <2>24 DEF KeepEntry
  <2>25. CASE DiscardEntry(p)
    BY <2>25 DEF DiscardEntry
  <2>26. CASE FinishStartUp(p)
    BY <2>26 DEF FinishStartUp
  <2>27. CASE Abandon(p)
    BY <2>27 DEF Abandon
  <2> QED
    BY <1>2, <2>1, <2>2, <2>3, <2>4, <2>5, <2>6, <2>7, <2>8, <2>9, <2>10, <2>11, <2>12,
       <2>13, <2>14, <2>15, <2>16, <2>17, <2>18, <2>19, <2>20, <2>21, <2>22, <2>23, <2>24,
       <2>25, <2>26, <2>27 DEF Begin, Proceed
<1> QED
  BY <1>1, <1>2 DEF Next

\* A lock file goes only when there is no entry, and an entry comes only where there is a
\* lock file.
LEMMA CoverStep == TypeOK /\ ShapeInv /\ FreshInv /\ DoomedUnused /\ LockCoversEntry /\ [Next]_vars
                     => LockCoversEntry'
<1> SUFFICES ASSUME TypeOK, ShapeInv, FreshInv, DoomedUnused, LockCoversEntry, [Next]_vars
             PROVE  LockCoversEntry'
  OBVIOUS
<1> USE DEF TypeOK, LockCoversEntry, Entries, dirVars, ownVars, scanVars, evictVars,
            Move, End, OpenInner, CloseInner, Seen, Consider
<1>1. CASE UNCHANGED vars
  BY <1>1 DEF vars
<1>2. ASSUME NEW p \in Procs, Begin(p) \/ Proceed(p) \/ Abandon(p) PROVE LockCoversEntry'
  <2>1. CASE StartUp(p)
    BY <2>1 DEF StartUp
  <2>2. ASSUME NEW o \in {"load", "save"}, NEW s \in Slots, Open(p, o, s) PROVE LockCoversEntry'
    BY <2>2 DEF Open
  <2>3. CASE Acquire(p)
    BY <2>3 DEF Acquire
  <2>4. CASE Refused(p)
    BY <2>4 DEF Refused
  <2>5. CASE FinishLoad(p)
    BY <2>5 DEF FinishLoad
  <2>6. ASSUME NEW i \in Inodes, Publish(p, i) PROVE LockCoversEntry'
    <3>1. slot[p] \in lockFile
      BY <2>6 DEF Publish, ShapeInv, Shape, FreshInv, Fresh
    <3> QED
      BY <2>6, <3>1 DEF Publish
  <2>7. ASSUME NEW s \in Slots, SeeEntry(p, s) PROVE LockCoversEntry'
    BY <2>7 DEF SeeEntry
  <2>8. ASSUME NEW s \in Slots, SeeLock(p, s) PROVE LockCoversEntry'
    BY <2>8 DEF SeeLock
  <2>9. CASE OpenOrphan(p)
    BY <2>9 DEF OpenOrphan
  <2>10. CASE LockOrphan(p)
    BY <2>10 DEF LockOrphan
  <2>11. CASE RefusedOrphan(p)
    BY <2>11 DEF RefusedOrphan
  <2>12. CASE LockInUse(p)
    BY <2>12 DEF LockInUse
  <2>13. CASE LockUnused(p)
    BY <2>13 DEF LockUnused
  <2>14. CASE UnlinkLock(p)
    BY <2>14 DEF UnlinkLock, DoomedUnused
  <2>15. CASE EndScan(p)
    BY <2>15 DEF EndScan
  <2>16. ASSUME NEW s \in Slots, Spare(p, s) PROVE LockCoversEntry'
    BY <2>16 DEF Spare
  <2>17. ASSUME NEW s \in Slots, OpenEntry(p, s) PROVE LockCoversEntry'
    BY <2>17 DEF OpenEntry
  <2>18. CASE LockEntry(p)
    BY <2>18 DEF LockEntry
  <2>19. CASE RefusedEntry(p)
    BY <2>19 DEF RefusedEntry
  <2>20. CASE EntryGone(p)
    BY <2>20 DEF EntryGone
  <2>21. CASE EntryReplaced(p)
    BY <2>21 DEF EntryReplaced
  <2>22. CASE EntryUnchanged(p)
    BY <2>22 DEF EntryUnchanged
  <2>23. CASE UnlinkEntry(p)
    BY <2>23 DEF UnlinkEntry
  <2>24. CASE KeepEntry(p)
    BY <2>24 DEF KeepEntry
  <2>25. CASE DiscardEntry(p)
    BY <2>25 DEF DiscardEntry
  <2>26. CASE FinishStartUp(p)
    BY <2>26 DEF FinishStartUp
  <2>27. CASE Abandon(p)
    BY <2>27 DEF Abandon
  <2> QED
    BY <1>2, <2>1, <2>2, <2>3, <2>4, <2>5, <2>6, <2>7, <2>8, <2>9, <2>10, <2>11, <2>12,
       <2>13, <2>14, <2>15, <2>16, <2>17, <2>18, <2>19, <2>20, <2>21, <2>22, <2>23, <2>24,
       <2>25, <2>26, <2>27 DEF Begin, Proceed
<1> QED
  BY <1>1, <1>2 DEF Next

LEMMA InvariantStep == IInv /\ [Next]_vars => IInv'
BY TypeStep, ShapeStep, FreshStep, LockStep, DoomedStep, CoverStep DEF IInv

LEMMA InvariantHolds == Spec => []IInv
BY InvariantInit, InvariantStep, PTL DEF Spec

----------------------------------------------------------------------------
\* Every reachable state is well typed, for any processes, slots and limit.
THEOREM TypeCorrect == Spec => []TypeOK
<1>1. IInv => TypeOK
  BY DEF IInv
<1> QED
  BY InvariantHolds, <1>1, PTL

\* No process unlinks the lock file of a slot that has an entry (_remove_orphan_lock).
THEOREM LocksCoverEntries == Spec => []LockCoversEntry
<1>1. IInv => LockCoversEntry
  BY DEF IInv
<1> QED
  BY InvariantHolds, <1>1, PTL

\* Nobody replaces or removes the entry that an operation reads or maintains for.
LEMMA UndisturbedStep ==
    ASSUME IInv, [Next]_vars, NEW r \in Procs,
           step[r] \in {"reading"} \cup Maintaining, slot[r] \in Slots, step'[r] # "idle"
    PROVE  entry'[slot[r]] = entry[slot[r]] /\ slot[r] \in lockFile'
<1> DEFINE Undisturbed == entry'[slot[r]] = entry[slot[r]] /\ slot[r] \in lockFile'
<1>0. TypeOK /\ ShapeInv /\ FreshInv /\ LockInv
  BY DEF IInv
<1>1. fresh[r] /\ slot[r] \in Slots /\ slot[r] \in lockFile /\ step[r] # "writing"
  BY <1>0 DEF FreshInv, Fresh, Maintaining, Orphan, Removal
<1>2. Reads(r, slot[r]) \/ Owns(r, slot[r])
  BY <1>1 DEF Reads, Owns
<1>3. ASSUME NEW q \in Procs
      PROVE  ~Cleans(q, slot[r]) /\ (Owns(q, slot[r]) => q = r)
  BY <1>0, <1>1, <1>2 DEF LockInv, Exclusive
<1> USE <1>1 DEF TypeOK, dirVars, ownVars, scanVars, evictVars,
          Move, End, OpenInner, CloseInner, Seen, Consider
<1>4. CASE UNCHANGED vars
  BY <1>4 DEF vars
<1>5. ASSUME NEW p \in Procs, Begin(p) \/ Proceed(p) \/ Abandon(p) PROVE Undisturbed
  <2>1. CASE StartUp(p)
    BY <2>1 DEF StartUp
  <2>2. ASSUME NEW o \in {"load", "save"}, NEW s \in Slots, Open(p, o, s) PROVE Undisturbed
    BY <2>2 DEF Open
  <2>3. CASE Acquire(p)
    BY <2>3 DEF Acquire
  <2>4. CASE Refused(p)
    BY <2>4 DEF Refused
  <2>5. CASE FinishLoad(p)
    BY <2>5 DEF FinishLoad
  <2>6. ASSUME NEW i \in Inodes, Publish(p, i) PROVE Undisturbed
    <3>1. slot[p] \in Slots /\ fresh[p] /\ step[p] = "writing"
      BY <2>6, <1>0 DEF Publish, ShapeInv, Shape, FreshInv, Fresh
    <3>2. slot[p] # slot[r]
      BY <1>3, <3>1 DEF Owns
    <3> QED
      BY <2>6, <1>0, <3>2 DEF Publish
  <2>7. ASSUME NEW s \in Slots, SeeEntry(p, s) PROVE Undisturbed
    BY <2>7 DEF SeeEntry
  <2>8. ASSUME NEW s \in Slots, SeeLock(p, s) PROVE Undisturbed
    BY <2>8 DEF SeeLock
  <2>9. CASE OpenOrphan(p)
    BY <2>9 DEF OpenOrphan
  <2>10. CASE LockOrphan(p)
    BY <2>10 DEF LockOrphan
  <2>11. CASE RefusedOrphan(p)
    BY <2>11 DEF RefusedOrphan
  <2>12. CASE LockInUse(p)
    BY <2>12 DEF LockInUse
  <2>13. CASE LockUnused(p)
    BY <2>13 DEF LockUnused
  <2>14. CASE UnlinkLock(p)
    <3>1. inner[p] \in Slots /\ innerFresh[p] /\ step[p] = "orphanDoomed"
      BY <2>14, <1>0 DEF UnlinkLock, ShapeInv, Shape, FreshInv, Fresh, Orphan
    <3>2. inner[p] # slot[r]
      BY <1>3, <3>1 DEF Cleans
    <3> QED
      BY <2>14, <3>2 DEF UnlinkLock
  <2>15. CASE EndScan(p)
    BY <2>15 DEF EndScan
  <2>16. ASSUME NEW s \in Slots, Spare(p, s) PROVE Undisturbed
    BY <2>16 DEF Spare
  <2>17. ASSUME NEW s \in Slots, OpenEntry(p, s) PROVE Undisturbed
    BY <2>17 DEF OpenEntry
  <2>18. CASE LockEntry(p)
    BY <2>18 DEF LockEntry
  <2>19. CASE RefusedEntry(p)
    BY <2>19 DEF RefusedEntry
  <2>20. CASE EntryGone(p)
    BY <2>20 DEF EntryGone
  <2>21. CASE EntryReplaced(p)
    BY <2>21 DEF EntryReplaced
  <2>22. CASE EntryUnchanged(p)
    BY <2>22 DEF EntryUnchanged
  <2>23. CASE UnlinkEntry(p)
    <3>1. inner[p] \in Slots /\ innerFresh[p] /\ step[p] = "entryDoomed"
      BY <2>23, <1>0 DEF UnlinkEntry, ShapeInv, Shape, FreshInv, Fresh, Removal
    <3>2. inner[p] # slot[r]
      BY <1>3, <3>1 DEF Cleans
    <3> QED
      BY <2>23, <1>0, <3>2 DEF UnlinkEntry
  <2>24. CASE KeepEntry(p)
    BY <2>24 DEF KeepEntry
  <2>25. CASE DiscardEntry(p)
    <3>1. p # r
      BY <2>25, <1>0 DEF DiscardEntry
    <3>2. slot[p] \in Slots /\ fresh[p] /\ step[p] = "evicting"
      BY <2>25, <1>0 DEF DiscardEntry, ShapeInv, Shape, FreshInv, Fresh, Maintaining
    <3>3. slot[p] # slot[r]
      BY <1>3, <3>1, <3>2 DEF Owns, Maintaining
    <3> QED
      BY <2>25, <1>0, <3>3 DEF DiscardEntry
  <2>26. CASE FinishStartUp(p)
    BY <2>26 DEF FinishStartUp
  <2>27. CASE Abandon(p)
    BY <2>27 DEF Abandon
  <2> QED
    BY <1>5, <2>1, <2>2, <2>3, <2>4, <2>5, <2>6, <2>7, <2>8, <2>9, <2>10, <2>11, <2>12,
       <2>13, <2>14, <2>15, <2>16, <2>17, <2>18, <2>19, <2>20, <2>21, <2>22, <2>23, <2>24,
       <2>25, <2>26, <2>27 DEF Begin, Proceed
<1> QED
  BY <1>4, <1>5 DEF Next

\* Nobody else touches the entry or the lock file of a slot that a load reads or a save
\* maintains the directory for (_slot_lock), however many processes there are.
THEOREM SlotsAreUndisturbed == Spec => SlotUndisturbed
<1>1. IInv /\ [Next]_vars =>
        [\A p \in Procs : step[p] \in {"reading"} \cup Maintaining /\ slot[p] \in Slots
                          /\ step'[p] # "idle" =>
           entry'[slot[p]] = entry[slot[p]] /\ slot[p] \in lockFile']_vars
  BY UndisturbedStep
<1> QED
  BY InvariantHolds, <1>1, PTL DEF Spec, SlotUndisturbed

----------------------------------------------------------------------------
(* The limit *)

\* No step but a publication begins the maintenance of a save, none but the end of one settles
\* an entry, and none else makes a settled entry go and stay settled.
LEMMA StepCases ==
    ASSUME TypeOK, ShapeInv, SettledInv, [Next]_vars
    PROVE  \/ \E p \in Procs, i \in Inodes : Publish(p, i)
           \/ \E p \in Procs : KeepEntry(p)
           \/ /\ settled' \subseteq settled
              /\ \A r \in Procs : Published(r)' => Published(r) /\ slot'[r] = slot[r]
              /\ \A s \in settled' : entry'[s] = entry[s]
<1> DEFINE Quiet == /\ settled' \subseteq settled
                    /\ \A r \in Procs : Published(r)' => Published(r) /\ slot'[r] = slot[r]
                    /\ \A s \in settled' : entry'[s] = entry[s]
           Goal == \/ \E p \in Procs, i \in Inodes : Publish(p, i)
                   \/ \E p \in Procs : KeepEntry(p)
                   \/ Quiet
<1> SUFFICES Goal
  OBVIOUS
<1> USE DEF TypeOK, Published, Maintaining, Orphan, Removal, dirVars, ownVars, scanVars, evictVars,
            Move, End, OpenInner, CloseInner, Seen, Consider
<1>1. CASE UNCHANGED vars
  BY <1>1 DEF vars
<1>2. ASSUME NEW p \in Procs, Begin(p) \/ Proceed(p) \/ Abandon(p) PROVE Goal
  <2>1. CASE StartUp(p)
    BY <2>1 DEF StartUp
  <2>2. ASSUME NEW o \in {"load", "save"}, NEW t \in Slots, Open(p, o, t) PROVE Goal
    BY <2>2 DEF Open
  <2>3. CASE Acquire(p)
    BY <2>3 DEF Acquire
  <2>4. CASE Refused(p)
    BY <2>4 DEF Refused
  <2>5. CASE FinishLoad(p)
    BY <2>5 DEF FinishLoad
  <2>6. ASSUME NEW i \in Inodes, Publish(p, i) PROVE Goal
    BY <2>6
  <2>7. ASSUME NEW t \in Slots, SeeEntry(p, t) PROVE Goal
    BY <2>7 DEF SeeEntry
  <2>8. ASSUME NEW t \in Slots, SeeLock(p, t) PROVE Goal
    BY <2>8 DEF SeeLock
  <2>9. CASE OpenOrphan(p)
    BY <2>9 DEF OpenOrphan
  <2>10. CASE LockOrphan(p)
    BY <2>10 DEF LockOrphan
  <2>11. CASE RefusedOrphan(p)
    BY <2>11 DEF RefusedOrphan
  <2>12. CASE LockInUse(p)
    BY <2>12 DEF LockInUse
  <2>13. CASE LockUnused(p)
    BY <2>13 DEF LockUnused
  <2>14. CASE UnlinkLock(p)
    BY <2>14 DEF UnlinkLock
  <2>15. CASE EndScan(p)
    BY <2>15 DEF EndScan
  <2>16. ASSUME NEW t \in Slots, Spare(p, t) PROVE Goal
    BY <2>16 DEF Spare
  <2>17. ASSUME NEW t \in Slots, OpenEntry(p, t) PROVE Goal
    BY <2>17 DEF OpenEntry
  <2>18. CASE LockEntry(p)
    BY <2>18 DEF LockEntry
  <2>19. CASE RefusedEntry(p)
    BY <2>19 DEF RefusedEntry
  <2>20. CASE EntryGone(p)
    BY <2>20 DEF EntryGone
  <2>21. CASE EntryReplaced(p)
    BY <2>21 DEF EntryReplaced
  <2>22. CASE EntryUnchanged(p)
    BY <2>22 DEF EntryUnchanged
  <2>23. CASE UnlinkEntry(p)
    BY <2>23 DEF UnlinkEntry
  <2>24. CASE KeepEntry(p)
    BY <2>24
  <2>25. CASE DiscardEntry(p)
    <3>1. slot[p] \notin settled
      BY <2>25 DEF DiscardEntry, SettledInv, Pending
    <3> QED
      BY <2>25, <3>1 DEF DiscardEntry
  <2>26. CASE FinishStartUp(p)
    BY <2>26 DEF FinishStartUp
  <2>27. CASE Abandon(p)
    BY <2>27 DEF Abandon
  <2> QED
    BY <1>2, <2>1, <2>2, <2>3, <2>4, <2>5, <2>6, <2>7, <2>8, <2>9, <2>10, <2>11, <2>12,
       <2>13, <2>14, <2>15, <2>16, <2>17, <2>18, <2>19, <2>20, <2>21, <2>22, <2>23, <2>24,
       <2>25, <2>26, <2>27 DEF Begin, Proceed
<1> QED
  BY <1>1, <1>2 DEF Next

\* What a save counts it goes on counting, as long as there is an entry.
LEMMA ViewStep ==
    ASSUME TypeOK, ShapeInv, [Next]_vars,
           NEW r \in Procs, Published(r), Published(r)', NEW s \in View(r)
    PROVE  s \in View(r)' \/ entry'[s] = NoFile
<1> DEFINE Counted == s \in View(r)' \/ entry'[s] = NoFile
<1> SUFFICES Counted
  OBVIOUS
<1>0. s \in Slots
  BY DEF View, TypeOK
<1> USE <1>0 DEF TypeOK, Published, View, Maintaining, Orphan, Removal, dirVars, ownVars, scanVars,
            evictVars, Move, End, OpenInner, CloseInner, Seen, Consider
<1>1. CASE UNCHANGED vars
  BY <1>1 DEF vars
<1>2. ASSUME NEW p \in Procs, Begin(p) \/ Proceed(p) \/ Abandon(p) PROVE Counted
  <2>1. CASE StartUp(p)
    BY <2>1 DEF StartUp
  <2>2. ASSUME NEW o \in {"load", "save"}, NEW t \in Slots, Open(p, o, t) PROVE Counted
    BY <2>2 DEF Open
  <2>3. CASE Acquire(p)
    BY <2>3 DEF Acquire
  <2>4. CASE Refused(p)
    BY <2>4 DEF Refused
  <2>5. CASE FinishLoad(p)
    BY <2>5 DEF FinishLoad
  <2>6. ASSUME NEW i \in Inodes, Publish(p, i) PROVE Counted
    BY <2>6 DEF Publish
  <2>7. ASSUME NEW t \in Slots, SeeEntry(p, t) PROVE Counted
    BY <2>7 DEF SeeEntry
  <2>8. ASSUME NEW t \in Slots, SeeLock(p, t) PROVE Counted
    BY <2>8 DEF SeeLock
  <2>9. CASE OpenOrphan(p)
    BY <2>9 DEF OpenOrphan
  <2>10. CASE LockOrphan(p)
    BY <2>10 DEF LockOrphan
  <2>11. CASE RefusedOrphan(p)
    BY <2>11 DEF RefusedOrphan
  <2>12. CASE LockInUse(p)
    BY <2>12 DEF LockInUse
  <2>13. CASE LockUnused(p)
    BY <2>13 DEF LockUnused
  <2>14. CASE UnlinkLock(p)
    BY <2>14 DEF UnlinkLock
  <2>15. CASE EndScan(p)
    BY <2>15 DEF EndScan
  <2>16. ASSUME NEW t \in Slots, Spare(p, t) PROVE Counted
    BY <2>16 DEF Spare
  <2>17. ASSUME NEW t \in Slots, OpenEntry(p, t) PROVE Counted
    BY <2>17 DEF OpenEntry
  <2>18. CASE LockEntry(p)
    BY <2>18 DEF LockEntry
  <2>19. CASE RefusedEntry(p)
    BY <2>19 DEF RefusedEntry
  <2>20. CASE EntryGone(p)
    BY <2>20 DEF EntryGone
  <2>21. CASE EntryReplaced(p)
    BY <2>21 DEF EntryReplaced
  <2>22. CASE EntryUnchanged(p)
    BY <2>22 DEF EntryUnchanged
  <2>23. CASE UnlinkEntry(p)
    BY <2>23 DEF UnlinkEntry
  <2>24. CASE KeepEntry(p)
    BY <2>24 DEF KeepEntry
  <2>25. CASE DiscardEntry(p)
    BY <2>25 DEF DiscardEntry
  <2>26. CASE FinishStartUp(p)
    BY <2>26 DEF FinishStartUp
  <2>27. CASE Abandon(p)
    BY <2>27 DEF Abandon
  <2> QED
    BY <1>2, <2>1, <2>2, <2>3, <2>4, <2>5, <2>6, <2>7, <2>8, <2>9, <2>10, <2>11, <2>12,
       <2>13, <2>14, <2>15, <2>16, <2>17, <2>18, <2>19, <2>20, <2>21, <2>22, <2>23, <2>24,
       <2>25, <2>26, <2>27 DEF Begin, Proceed
<1> QED
  BY <1>1, <1>2 DEF Next


LEMMA SettledStep == IInv /\ SettledInv /\ [Next]_vars => SettledInv'
<1> SUFFICES ASSUME IInv, SettledInv, [Next]_vars PROVE SettledInv'
  OBVIOUS
<1>0. TypeOK /\ ShapeInv /\ FreshInv /\ LockInv
  BY DEF IInv
<1>1. ASSUME NEW r \in Pending
      PROVE  slot[r] \in Slots /\ step[r] # "writing" /\ Owns(r, slot[r])
  BY <1>0 DEF Pending, Published, Owns, ShapeInv, Shape, FreshInv, Fresh, Maintaining, Orphan, Removal
<1>2. ASSUME NEW r \in Pending, r \in Pending' PROVE slot[r] \in Entries'
  <2>1. step'[r] # "idle"
    BY <1>2 DEF Pending, Published, Maintaining, Orphan, Removal
  <2>2. entry'[slot[r]] = entry[slot[r]]
    BY <1>1, <2>1, UndisturbedStep DEF Pending, Published
  <2> QED
    BY <1>1, <2>2 DEF SettledInv, Entries
<1>3. CASE \E p \in Procs, i \in Inodes : Publish(p, i)
  <2> PICK p \in Procs, i \in Inodes : Publish(p, i)
    BY <1>3
  <2>1. slot[p] \in Slots /\ slot' = slot /\ settled' = settled \ {slot[p]}
    BY <1>0 DEF Publish, ownVars, Move, ShapeInv, Shape
  <2>2. entry'[slot[p]] = i /\ \A s \in Slots \ {slot[p]} : entry'[s] = entry[s]
    BY <1>0, <2>1 DEF Publish, TypeOK
  <2>3. \A r \in Pending' : r = p \/ r \in Pending
    BY <1>0 DEF Publish, ownVars, Move, Pending, Published, TypeOK
  <2>4. settled' \subseteq Entries'
    BY <2>1, <2>2 DEF SettledInv, Entries
  <2>5. ASSUME NEW r \in Pending' PROVE slot'[r] \in Entries' \ settled'
    BY <1>2, <2>1, <2>2, <2>3, NoFileAssumption DEF SettledInv, Entries
  <2> QED
    BY <2>4, <2>5 DEF SettledInv
<1>4. CASE \E p \in Procs : KeepEntry(p)
  <2> PICK p \in Procs : KeepEntry(p)
    BY <1>4
  <2>1. p \in Pending /\ settled' = settled \cup {slot[p]} /\ entry' = entry
    BY DEF KeepEntry, Pending, Published, Maintaining
  <2>2. \A r \in Pending' : r \in Pending /\ r # p /\ slot'[r] = slot[r]
    BY <1>0 DEF KeepEntry, End, Pending, Published, TypeOK, Maintaining, Orphan, Removal
  <2>3. \A r \in Pending' : slot[r] # slot[p]
    BY <1>0, <1>1, <2>1, <2>2 DEF LockInv, Exclusive, Pending
  <2> QED
    BY <1>2, <2>1, <2>2, <2>3 DEF SettledInv, Entries
<1>5. CASE /\ settled' \subseteq settled
           /\ \A r \in Procs : Published(r)' => Published(r) /\ slot'[r] = slot[r]
           /\ \A s \in settled' : entry'[s] = entry[s]
  <2>1. \A r \in Pending' : r \in Pending /\ slot'[r] = slot[r]
    BY <1>5 DEF Pending
  <2> QED
    BY <1>2, <1>5, <2>1 DEF SettledInv, Entries
<1> QED
  BY <1>0, <1>3, <1>4, <1>5, StepCases

\* The order of the saves under way survives, and the one that keeps its entry adds those that
\* it has counted.
LEMMA QuotaStep == IInv /\ SettledInv /\ QuotaInv /\ [Next]_vars => QuotaInv'
<1> SUFFICES ASSUME IInv, SettledInv, QuotaInv, [Next]_vars PROVE QuotaInv'
  OBVIOUS
<1>0. TypeOK /\ ShapeInv
  BY DEF IInv
<1> PICK before \in [Procs -> SUBSET Procs], outrun \in SUBSET Procs : Ordered(before, outrun)
  BY DEF QuotaInv
<1>1. SettledInv'
  BY SettledStep
<1>2. ASSUME NEW r \in Pending, r \in Pending', NEW s \in View(r), s \in Entries'
      PROVE  s \in View(r)'
  <2>1. s \in View(r)' \/ entry'[s] = NoFile
    BY <1>0, <1>2, ViewStep DEF Pending
  <2> QED
    BY <2>1, <1>2 DEF Entries
<1>3. ASSUME NEW T \in SUBSET Slots
      PROVE  IsFiniteSet(T) /\ Cardinality(T) \in Nat
             /\ \A U \in SUBSET T : Cardinality(U) \in Nat /\ Cardinality(U) <= Cardinality(T)
  <2>1. IsFiniteSet(T)
    BY SlotsAssumption, FS_Subset
  <2> QED
    BY <2>1, FS_Subset, FS_CardinalityType
<1>4. \A r \in Pending : slot[r] \in Slots
  BY <1>0 DEF Pending, Published, ShapeInv, Shape
<1>5. \A r \in Procs : before[r] \subseteq Pending
  BY DEF Ordered
<1>6. \A r, q \in Pending : r = q \/ r \in before[q] \/ q \in before[r]
  BY DEF Ordered
<1>7. \A r \in Procs : \A q \in before[r] : before[q] \subseteq before[r]
  BY DEF Ordered
<1>8. outrun \subseteq Pending /\ \A r \in outrun : before[r] \subseteq outrun
  BY DEF Ordered
<1>9. \A r \in Pending : slot[r] \in View(r) /\ \A q \in before[r] : slot[q] \in View(r)
  BY DEF Ordered
<1>10. CASE \E p \in Procs, i \in Inodes : Publish(p, i)
  <2> PICK p \in Procs, i \in Inodes : Publish(p, i)
    BY <1>10
  <2> PICK later \in [Procs -> SUBSET Procs] :
             later = [r \in Procs |-> IF r = p THEN Pending ELSE before[r]]
    BY DEF Pending
  <2>1. p \notin Pending /\ Pending' = Pending \cup {p} /\ slot' = slot
    <3>1. step[p] = "writing" /\ op[p] = "save" /\ op' = op /\ slot' = slot
      BY <1>0 DEF Publish, ownVars, Move, ShapeInv, Shape
    <3>2. step' = [step EXCEPT ![p] = "scanning"] /\ step \in [Procs -> Steps]
      BY <1>0 DEF Publish, Move, TypeOK
    <3>3. "scanning" \in Maintaining /\ "writing" \notin Maintaining
      BY DEF Maintaining, Orphan, Removal
    <3>4. \A r \in Procs : Published(r)' <=> r = p \/ Published(r)
      BY <3>1, <3>2, <3>3 DEF Published
    <3>5. ~Published(p)
      BY <3>1, <3>3 DEF Published
    <3> QED
      BY <3>1, <3>4, <3>5 DEF Pending
  <2>2. View(p)' = Slots
    BY <1>0 DEF Publish, Move, View, TypeOK, Children
  <2>3. settled' \subseteq settled /\ settled \in SUBSET Slots /\ slot[p] \in Slots
    BY <1>0 DEF Publish, TypeOK, ShapeInv, Shape, Move
  <2>4. \A r \in Pending' : slot[r] \in Entries'
    BY <1>1, <2>1 DEF SettledInv
  <2>5. ASSUME NEW r \in Pending'
        PROVE  slot[r] \in View(r)' /\ \A q \in later[r] : slot[q] \in View(r)'
    <3>1. CASE r = p
      BY <3>1, <2>2, <2>3, <1>4
    <3>2. CASE r # p
      BY <3>2, <2>1, <2>4, <1>2 DEF Ordered
    <3> QED
      BY <3>1, <3>2
  <2>6. ASSUME NEW r \in Pending' \ outrun PROVE settled' \subseteq View(r)'
    <3>1. CASE r = p
      BY <3>1, <2>2, <2>3
    <3>2. CASE r # p
      BY <3>2, <2>1, <2>3, <1>1, <1>2 DEF Ordered, SettledInv
    <3> QED
      BY <3>1, <3>2
  <2>7. Cardinality(settled' \cup {slot'[r] : r \in outrun}) <= MaxEntries
    <3> DEFINE T == settled \cup {slot[r] : r \in outrun}
               U == settled' \cup {slot'[r] : r \in outrun}
    <3>1. T \in SUBSET Slots /\ U \in SUBSET T
      BY <1>4, <2>1, <2>3 DEF Ordered
    <3>2. Cardinality(T) <= MaxEntries
      BY DEF Ordered
    <3> HIDE DEF T, U
    <3>3. Cardinality(U) <= MaxEntries
      BY <3>1, <3>2, <1>3, LimitAssumption
    <3> QED
      BY <3>3 DEF U
  <2>8. /\ \A r \in Procs : later[r] \subseteq Pending'
        /\ \A r, q \in Pending' : r = q \/ r \in later[q] \/ q \in later[r]
        /\ \A r \in Procs : \A q \in later[r] : later[q] \subseteq later[r]
        /\ outrun \subseteq Pending'
        /\ \A r \in outrun : later[r] \subseteq outrun
    BY <2>1 DEF Ordered
  <2>9. Ordered(later, outrun)'
    BY <2>1, <2>5, <2>6, <2>7, <2>8 DEF Ordered
  <2> QED
    BY <2>9 DEF QuotaInv
<1>11. CASE \E p \in Procs : KeepEntry(p)
  <2> PICK p \in Procs : KeepEntry(p)
    BY <1>11
  <2> PICK later \in [Procs -> SUBSET Procs] :
             later = [r \in Procs |-> IF r = p THEN {} ELSE before[r] \ {p}]
    OBVIOUS
  <2> PICK passed \in SUBSET Procs : passed = (outrun \cup before[p]) \ {p}
    OBVIOUS
  <2>1. p \in Pending /\ Pending' = Pending \ {p} /\ \A r \in Pending' : slot'[r] = slot[r]
    BY <1>0 DEF KeepEntry, End, Pending, Published, TypeOK, Maintaining, Orphan, Removal
  <2>2. /\ settled' = settled \cup {slot[p]} /\ settled \in SUBSET Slots
        /\ View(p) = counted[p] /\ View(p) \in SUBSET Slots /\ Cardinality(View(p)) <= MaxEntries
    <3>1. step[p] = "evicting" /\ counted[p] \in SUBSET Slots /\ ~OverLimit(p)
      BY <1>0 DEF KeepEntry, TypeOK
    <3>2. Cardinality(counted[p]) <= MaxEntries
      BY <3>1, <1>3, LimitAssumption DEF OverLimit
    <3> QED
      BY <1>0, <3>1, <3>2 DEF KeepEntry, View, TypeOK, Orphan
  <2>3. ASSUME NEW r \in Pending', NEW s \in View(r), s \in settled' \cup {slot[q] : q \in Pending'}
        PROVE  s \in View(r)'
    <3>1. s \in Entries'
      BY <1>1, <2>1, <2>3 DEF SettledInv
    <3> QED
      BY <1>2, <2>1, <3>1
  <2>4. /\ \A r \in Procs : later[r] \subseteq Pending'
        /\ \A r, q \in Pending' : r = q \/ r \in later[q] \/ q \in later[r]
        /\ \A r \in Procs : \A q \in later[r] : later[q] \subseteq later[r]
        /\ passed \subseteq Pending'
        /\ \A r \in passed : later[r] \subseteq passed
    <3>1. \A r \in Procs : later[r] \subseteq Pending'
      BY <1>5, <2>1
    <3>2. \A r, q \in Pending' : r = q \/ r \in later[q] \/ q \in later[r]
      BY <1>6, <2>1 DEF Pending
    <3>3. \A r \in Procs : \A q \in later[r] : later[q] \subseteq later[r]
      BY <1>7
    <3>4. passed \subseteq Pending'
      BY <1>5, <1>8, <2>1
    <3>5. \A r \in passed : later[r] \subseteq passed
      BY <1>7, <1>8
    <3> QED
      BY <3>1, <3>2, <3>3, <3>4, <3>5
  <2>5. ASSUME NEW r \in Pending'
        PROVE  slot'[r] \in View(r)' /\ \A q \in later[r] : slot'[q] \in View(r)'
    <3>1. ASSUME NEW q \in {r} \cup later[r] PROVE slot'[q] \in View(r)'
      <4>1. r \in Procs /\ later[r] \subseteq before[r] /\ later[r] \subseteq Pending'
        BY <2>1, <2>4 DEF Pending
      <4>2. q \in Pending' /\ slot'[q] = slot[q]
        BY <2>1, <4>1
      <4>3. slot[q] \in View(r)
        BY <1>9, <2>1, <4>1
      <4> QED
        BY <2>3, <4>2, <4>3
    <3> QED
      BY <3>1
  <2>6. ASSUME NEW r \in Pending' \ passed PROVE settled' \subseteq View(r)'
    <3>1. p \in before[r]
      BY <2>1 DEF Ordered
    <3>2. slot[p] \in View(r) /\ settled \subseteq View(r)
      BY <2>1, <3>1 DEF Ordered
    <3> QED
      BY <2>2, <2>3, <3>2
  <2>7. Cardinality(settled' \cup {slot'[r] : r \in passed}) <= MaxEntries
    <3> DEFINE U == settled' \cup {slot'[r] : r \in passed}
    <3>1. CASE p \in outrun
      <4> DEFINE T == settled \cup {slot[r] : r \in outrun}
      <4>1. T \in SUBSET Slots
        BY <1>4, <2>2 DEF Ordered
      <4>2. U \in SUBSET T
        <5>1. passed \subseteq outrun /\ \A r \in passed : slot'[r] = slot[r]
          BY <3>1, <2>1, <2>4 DEF Ordered
        <5> QED
          BY <5>1, <3>1, <2>2
      <4>3. Cardinality(T) <= MaxEntries
        BY DEF Ordered
      <4> HIDE DEF T, U
      <4>4. Cardinality(U) <= MaxEntries
        BY <4>1, <4>2, <4>3, <1>3, LimitAssumption
      <4> QED
        BY <4>4 DEF U
    <3>2. CASE p \notin outrun
      <4>1. settled \subseteq View(p) /\ slot[p] \in View(p)
        BY <3>2, <2>1 DEF Ordered
      <4>2. outrun \subseteq before[p]
        BY <3>2, <2>1 DEF Ordered
      <4>3. \A r \in passed : slot'[r] = slot[r] /\ slot[r] \in View(p)
        BY <2>1, <2>4, <4>2 DEF Ordered
      <4>4. U \in SUBSET View(p)
        BY <2>2, <4>1, <4>3
      <4> HIDE DEF U
      <4>5. Cardinality(U) <= MaxEntries
        BY <4>4, <2>2, <1>3, LimitAssumption
      <4> QED
        BY <4>5 DEF U
    <3> QED
      BY <3>1, <3>2 DEF U
  <2>8. Ordered(later, passed)'
    BY <2>4, <2>5, <2>6, <2>7 DEF Ordered
  <2> QED
    BY <2>8 DEF QuotaInv
<1>12. CASE /\ settled' \subseteq settled
           /\ \A r \in Procs : Published(r)' => Published(r) /\ slot'[r] = slot[r]
           /\ \A s \in settled' : entry'[s] = entry[s]
  <2> PICK later \in [Procs -> SUBSET Procs] :
             later = [r \in Procs |-> IF r \in Pending' THEN before[r] \cap Pending' ELSE {}]
    OBVIOUS
  <2> PICK passed \in SUBSET Procs : passed = outrun \cap Pending'
    OBVIOUS
  <2>1. Pending' \subseteq Pending /\ \A r \in Pending' : slot'[r] = slot[r]
    BY <1>12 DEF Pending
  <2>2. ASSUME NEW r \in Pending', NEW s \in View(r), s \in settled' \cup {slot[q] : q \in Pending'}
        PROVE  s \in View(r)'
    <3>1. s \in Entries'
      BY <1>1, <2>1, <2>2 DEF SettledInv
    <3> QED
      BY <1>2, <2>1, <3>1
  <2>3. /\ \A r \in Procs : later[r] \subseteq Pending'
        /\ \A r, q \in Pending' : r = q \/ r \in later[q] \/ q \in later[r]
        /\ \A r \in Procs : \A q \in later[r] : later[q] \subseteq later[r]
        /\ passed \subseteq Pending'
        /\ \A r \in passed : later[r] \subseteq passed
    <3>1. \A r \in Procs : later[r] \subseteq Pending'
      OBVIOUS
    <3>2. \A r, q \in Pending' : r = q \/ r \in later[q] \/ q \in later[r]
      BY <1>6, <2>1 DEF Pending
    <3>3. \A r \in Procs : \A q \in later[r] : later[q] \subseteq later[r]
      BY <1>7
    <3>4. passed \subseteq Pending'
      OBVIOUS
    <3>5. \A r \in passed : later[r] \subseteq passed
      BY <1>8
    <3> QED
      BY <3>1, <3>2, <3>3, <3>4, <3>5
  <2>4. ASSUME NEW r \in Pending'
        PROVE  slot'[r] \in View(r)' /\ \A q \in later[r] : slot'[q] \in View(r)'
    <3>1. ASSUME NEW q \in {r} \cup later[r] PROVE slot'[q] \in View(r)'
      <4>1. r \in Procs /\ later[r] \subseteq before[r] /\ later[r] \subseteq Pending'
        BY <2>1 DEF Pending
      <4>2. q \in Pending' /\ slot'[q] = slot[q]
        BY <2>1, <4>1
      <4>3. slot[q] \in View(r)
        BY <1>9, <2>1, <4>1
      <4> QED
        BY <2>2, <4>2, <4>3
    <3> QED
      BY <3>1
  <2>5. ASSUME NEW r \in Pending' \ passed PROVE settled' \subseteq View(r)'
    BY <1>12, <2>1, <2>2 DEF Ordered
  <2>6. Cardinality(settled' \cup {slot'[r] : r \in passed}) <= MaxEntries
    <3> DEFINE T == settled \cup {slot[r] : r \in outrun}
               U == settled' \cup {slot'[r] : r \in passed}
    <3>1. T \in SUBSET Slots
      BY <1>0, <1>4 DEF Ordered, TypeOK
    <3>2. U \in SUBSET T
      BY <1>12, <2>1
    <3>3. Cardinality(T) <= MaxEntries
      BY DEF Ordered
    <3> HIDE DEF T, U
    <3>4. Cardinality(U) <= MaxEntries
      BY <3>1, <3>2, <3>3, <1>3, LimitAssumption
    <3> QED
      BY <3>4 DEF U
  <2>7. Ordered(later, passed)'
    BY <2>3, <2>4, <2>5, <2>6 DEF Ordered
  <2> QED
    BY <2>7 DEF QuotaInv
<1> QED
  BY <1>0, <1>10, <1>11, <1>12, StepCases

LEMMA QuotaInit == Init => SettledInv /\ QuotaInv
<1> SUFFICES ASSUME Init PROVE SettledInv /\ QuotaInv
  OBVIOUS
<1> PICK before \in [Procs -> SUBSET Procs] : before = [p \in Procs |-> {}]
  OBVIOUS
<1>1. Pending = {} /\ settled = {}
  BY DEF Init, Pending, Published, Maintaining, Orphan, Removal
<1>2. settled \cup {slot[p] : p \in {}} = {}
  BY <1>1
<1>3. Cardinality(settled \cup {slot[p] : p \in {}}) <= MaxEntries
  BY <1>2, FS_EmptySet, LimitAssumption
<1>4. Ordered(before, {})
  BY <1>1, <1>3 DEF Ordered
<1> QED
  BY <1>1, <1>4 DEF SettledInv, QuotaInv

\* The entries that their saves have kept are within the limit, however many processes save and
\* maintain the directory at once (_maintain_cache, _save_unlocked).
THEOREM QuotaIsKept == Spec => []QuotaKept
<1>1. Init => FullInv
  BY InvariantInit, QuotaInit DEF FullInv
<1>2. FullInv /\ [Next]_vars => FullInv'
  BY InvariantStep, SettledStep, QuotaStep DEF FullInv
<1>3. FullInv => QuotaKept
  <2> SUFFICES ASSUME FullInv PROVE QuotaKept
    OBVIOUS
  <2> PICK before \in [Procs -> SUBSET Procs], outrun \in SUBSET Procs : Ordered(before, outrun)
    BY DEF FullInv, QuotaInv
  <2> DEFINE T == settled \cup {slot[p] : p \in outrun}
  <2>1. settled \in SUBSET T /\ T \in SUBSET Slots
    BY DEF Ordered, FullInv, IInv, TypeOK, ShapeInv, Shape, Pending, Published
  <2>2. Cardinality(T) <= MaxEntries
    BY DEF Ordered
  <2> HIDE DEF T
  <2>3. IsFiniteSet(T)
    BY <2>1, SlotsAssumption, FS_Subset
  <2>4. Cardinality(settled) <= Cardinality(T)
    BY <2>1, <2>3, FS_Subset
  <2>5. Cardinality(settled) \in Nat /\ Cardinality(T) \in Nat
    BY <2>1, <2>3, FS_Subset, FS_CardinalityType
  <2> QED
    BY <2>2, <2>4, <2>5, LimitAssumption DEF QuotaKept, FullInv, SettledInv
<1> QED
  BY <1>1, <1>2, <1>3, PTL DEF Spec

----------------------------------------------------------------------------
(* How long an operation takes *)

\* How long the lists of maintenance can be, and that they shrink by what it looks at.
LEMMA Sizes ==
    /\ Cardinality(Slots) \in Nat
    /\ Cardinality(Children) = 2 * Cardinality(Slots)
    /\ \A C \in SUBSET Slots : /\ Cardinality(C) \in 0 .. Cardinality(Slots)
                               /\ \A s \in C : Cardinality(C \ {s}) = Cardinality(C) - 1
    /\ \A T \in SUBSET Children : /\ Cardinality(T) \in 0 .. Cardinality(Children)
                                  /\ \A c \in T : Cardinality(T \ {c}) = Cardinality(T) - 1
    /\ Cardinality({}) = 0
<1>1. Cardinality(Slots) \in Nat
  BY SlotsAssumption, FS_CardinalityType
<1>2. IsFiniteSet({"lock", "entry"}) /\ Cardinality({"lock", "entry"}) = 2
  <2>1. IsFiniteSet({"lock"}) /\ Cardinality({"lock"}) = 1
    BY FS_Singleton
  <2>2. {"lock", "entry"} = {"lock"} \cup {"entry"} /\ "entry" \notin {"lock"}
    OBVIOUS
  <2> QED
    BY <2>1, <2>2, FS_AddElement
<1>3. IsFiniteSet(Children) /\ Cardinality(Children) = 2 * Cardinality(Slots)
  <2>1. /\ IsFiniteSet(Slots \X {"lock", "entry"})
        /\ Cardinality(Slots \X {"lock", "entry"}) = Cardinality(Slots) * Cardinality({"lock", "entry"})
    BY <1>2, SlotsAssumption, FS_Product
  <2> QED
    BY <2>1, <1>1, <1>2 DEF Children
<1>4. ASSUME NEW S, IsFiniteSet(S), NEW C \in SUBSET S
      PROVE  /\ Cardinality(C) \in 0 .. Cardinality(S)
             /\ \A s \in C : Cardinality(C \ {s}) = Cardinality(C) - 1
  <2>1. IsFiniteSet(C) /\ Cardinality(C) <= Cardinality(S)
    BY <1>4, FS_Subset
  <2>2. Cardinality(C) \in Nat /\ Cardinality(S) \in Nat
    BY <2>1, <1>4, FS_CardinalityType
  <2>3. \A s \in C : Cardinality(C \ {s}) = Cardinality(C) - 1
    BY <2>1, FS_RemoveElement
  <2> QED
    BY <2>1, <2>2, <2>3
<1> QED
  BY <1>1, <1>3, <1>4, SlotsAssumption, FS_EmptySet

\* The measure, by what the operation does next and how long its lists are.
Measured(p) ==
    LET n == Cardinality(Slots)
        c == Cardinality(candidates[p])
        t == Cardinality(todo[p])
    IN  /\ n \in Nat /\ c \in 0 .. n /\ t \in 0 .. 2 * n
        /\ step[p] = "idle" => StepsLeft(p) = 0
        /\ step[p] = "reading" => StepsLeft(p) = 1
        /\ step[p] = "evicting" => StepsLeft(p) = 1 + 4 * c
        /\ step[p] = "entryDoomed" => StepsLeft(p) = 2 + 4 * c
        /\ step[p] = "entryLocked" => StepsLeft(p) = 3 + 4 * c
        /\ step[p] = "entryOpened" => StepsLeft(p) = 4 + 4 * c
        /\ step[p] = "scanning" => StepsLeft(p) = 2 + 4 * n + 5 * t
        /\ step[p] = "orphanDoomed" => StepsLeft(p) = 3 + 4 * n + 5 * t
        /\ step[p] = "orphanLocked" => StepsLeft(p) = 4 + 4 * n + 5 * t
        /\ step[p] = "orphanOpened" => StepsLeft(p) = 5 + 4 * n + 5 * t
        /\ step[p] = "orphanSeen" => StepsLeft(p) = 6 + 4 * n + 5 * t
        /\ step[p] = "writing" => StepsLeft(p) = 3 + 14 * n
        /\ step[p] = "opened" => StepsLeft(p) = 4 + 14 * n

LEMMA Measures == TypeOK => \A p \in Procs : Measured(p) /\ StepsLeft(p) \in Nat
<1> SUFFICES ASSUME TypeOK, NEW p \in Procs PROVE Measured(p) /\ StepsLeft(p) \in Nat
  OBVIOUS
<1>1. Cardinality(Slots) \in Nat
  BY Sizes
<1>2. Cardinality(candidates[p]) \in 0 .. Cardinality(Slots)
  <2>1. candidates[p] \in SUBSET Slots
    BY DEF TypeOK
  <2> QED
    BY <2>1, Sizes
<1>3. Cardinality(todo[p]) \in 0 .. 2 * Cardinality(Slots)
  <2>1. todo[p] \in SUBSET Children
    BY DEF TypeOK
  <2> QED
    BY <2>1, Sizes
<1>4. Cardinality(todo[p]) \in Nat /\ Cardinality(candidates[p]) \in Nat
  BY <1>1, <1>2, <1>3
<1>5. StepsLeft(p) \in Nat
  BY <1>1, <1>4 DEF TypeOK, Steps, Seeking, Maintaining, StepsLeft, Detour, Orphan, Removal
<1>6. Measured(p)
  BY <1>1, <1>2, <1>3, <1>4 DEF Measured, StepsLeft, Detour, Orphan, Removal
<1> QED
  BY <1>5, <1>6

LEMMA MeasuresNext == TypeOK' => \A p \in Procs : Measured(p)' /\ StepsLeft(p)' \in Nat
<1>1. (TypeOK => \A p \in Procs : Measured(p) /\ StepsLeft(p) \in Nat)'
  BY Measures, PTL
<1> QED
  BY <1>1

\* Every step of an operation brings it closer to its end.
LEMMA ProceedDecreases ==
    ASSUME TypeOK, TypeOK', NEW p \in Procs, Proceed(p)
    PROVE  StepsLeft(p)' < StepsLeft(p)
<1>1. Measured(p) /\ Measured(p)'
  BY Measures, MeasuresNext
<1>2. candidates[p] \subseteq Slots /\ todo[p] \subseteq Children
  BY DEF TypeOK
<1> USE DEF Move, CloseInner, OpenInner, dirVars, ownVars, scanVars, evictVars
<1>3. ASSUME End(p), step[p] \in Steps \ {"idle"} PROVE StepsLeft(p)' < StepsLeft(p)
  <2>1. step'[p] = "idle"
    BY <1>3 DEF TypeOK, End
  <2> QED
    BY <1>1, <1>3, <2>1 DEF Measured, Steps, Seeking, Maintaining, Orphan, Removal
<1>4. ASSUME UNCHANGED <<todo, candidates>>,
             \/ step[p] = "opened" /\ step'[p] \in {"reading", "writing"}
             \/ step[p] = "orphanSeen" /\ step'[p] = "orphanOpened"
             \/ step[p] = "orphanOpened" /\ step'[p] \in {"orphanLocked", "scanning"}
             \/ step[p] = "orphanLocked" /\ step'[p] \in {"orphanDoomed", "scanning"}
             \/ step[p] = "orphanDoomed" /\ step'[p] = "scanning"
             \/ step[p] = "entryOpened" /\ step'[p] \in {"entryLocked", "evicting"}
             \/ step[p] = "entryLocked" /\ step'[p] \in {"entryDoomed", "evicting"}
             \/ step[p] = "entryDoomed" /\ step'[p] = "evicting"
      PROVE  StepsLeft(p)' < StepsLeft(p)
  BY <1>1, <1>4 DEF Measured
<1>5. CASE \/ Refused(p) \/ FinishLoad(p) \/ KeepEntry(p) \/ DiscardEntry(p) \/ FinishStartUp(p)
  BY <1>3, <1>5 DEF Refused, FinishLoad, KeepEntry, DiscardEntry, FinishStartUp, Steps, Seeking, Maintaining
<1>6. CASE \/ OpenOrphan(p) \/ LockOrphan(p) \/ RefusedOrphan(p) \/ LockInUse(p) \/ LockUnused(p)
           \/ UnlinkLock(p) \/ Acquire(p)
  BY <1>4, <1>6 DEF TypeOK, OpenOrphan, LockOrphan, RefusedOrphan, LockInUse, LockUnused, UnlinkLock, Acquire
<1>7. CASE \/ LockEntry(p) \/ RefusedEntry(p) \/ EntryGone(p) \/ EntryReplaced(p)
           \/ EntryUnchanged(p) \/ UnlinkEntry(p)
  BY <1>4, <1>7 DEF TypeOK, LockEntry, RefusedEntry, EntryGone, EntryReplaced, EntryUnchanged, UnlinkEntry
<1>8. ASSUME NEW i \in Inodes, Publish(p, i) PROVE StepsLeft(p)' < StepsLeft(p)
  <2>1. step[p] = "writing" /\ step'[p] = "scanning"
    BY <1>8 DEF Publish, TypeOK
  <2> QED
    BY <1>1, <2>1 DEF Measured
<1>9. ASSUME NEW s \in Slots, SeeEntry(p, s) \/ SeeLock(p, s) PROVE StepsLeft(p)' < StepsLeft(p)
  <2>1. \E kind \in {"lock", "entry"} : <<s, kind>> \in todo[p] /\ todo'[p] = todo[p] \ {<<s, kind>>}
    BY <1>9 DEF SeeEntry, SeeLock, Seen, TypeOK
  <2>2. Cardinality(todo'[p]) = Cardinality(todo[p]) - 1
    BY <1>2, <2>1, Sizes
  <2>3. step[p] = "scanning" /\ step'[p] \in {"scanning", "orphanSeen"}
    BY <1>9 DEF SeeEntry, SeeLock, TypeOK
  <2> QED
    BY <1>1, <2>2, <2>3 DEF Measured
<1>10. CASE EndScan(p)
  <2>1. step[p] = "scanning" /\ step'[p] = "evicting"
    BY <1>10 DEF EndScan, TypeOK
  <2> QED
    BY <1>1, <2>1 DEF Measured
<1>11. ASSUME NEW s \in Slots, Spare(p, s) \/ OpenEntry(p, s) PROVE StepsLeft(p)' < StepsLeft(p)
  <2>1. s \in candidates[p] /\ candidates'[p] = candidates[p] \ {s}
    BY <1>11 DEF Spare, OpenEntry, Consider, TypeOK
  <2>2. Cardinality(candidates'[p]) = Cardinality(candidates[p]) - 1
    BY <1>2, <2>1, Sizes
  <2>3. step[p] = "evicting" /\ step'[p] \in {"evicting", "entryOpened"}
    BY <1>11 DEF Spare, OpenEntry, TypeOK
  <2> QED
    BY <1>1, <2>2, <2>3 DEF Measured
<1> QED
  BY <1>5, <1>6, <1>7, <1>8, <1>9, <1>10, <1>11 DEF Proceed

\* No step of another operation lengthens what this one has before it.
LEMMA OthersDoNotDelay ==
    ASSUME TypeOK, NEW p \in Procs, Begin(p) \/ Proceed(p) \/ Abandon(p), NEW q \in Procs, q # p
    PROVE  StepsLeft(q)' = StepsLeft(q)
<1> DEFINE Same == step'[q] = step[q] /\ todo'[q] = todo[q] /\ candidates'[q] = candidates[q]
<1>1. Same
  <2> USE DEF TypeOK, Move, End, OpenInner, CloseInner, Seen, Consider, dirVars, ownVars, scanVars, evictVars
  <2>1. CASE Begin(p)
    BY <2>1 DEF Begin, StartUp, Open
  <2>2. CASE Abandon(p)
    BY <2>2 DEF Abandon
  <2>3. ASSUME NEW i \in Inodes, Publish(p, i) PROVE Same
    BY <2>3 DEF Publish
  <2>4. CASE Acquire(p) \/ Refused(p) \/ FinishLoad(p)
    BY <2>4 DEF Acquire, Refused, FinishLoad
  <2>5. ASSUME NEW s \in Slots, SeeEntry(p, s) \/ SeeLock(p, s) PROVE Same
    BY <2>5 DEF SeeEntry, SeeLock
  <2>6. CASE OpenOrphan(p) \/ LockOrphan(p) \/ RefusedOrphan(p) \/ LockInUse(p) \/ LockUnused(p)
    BY <2>6 DEF OpenOrphan, LockOrphan, RefusedOrphan, LockInUse, LockUnused
  <2>7. CASE UnlinkLock(p) \/ EndScan(p)
    BY <2>7 DEF UnlinkLock, EndScan
  <2>8. ASSUME NEW s \in Slots, Spare(p, s) \/ OpenEntry(p, s) PROVE Same
    BY <2>8 DEF Spare, OpenEntry
  <2>9. CASE LockEntry(p) \/ RefusedEntry(p) \/ EntryGone(p) \/ EntryReplaced(p)
    BY <2>9 DEF LockEntry, RefusedEntry, EntryGone, EntryReplaced
  <2>10. CASE EntryUnchanged(p) \/ UnlinkEntry(p)
    BY <2>10 DEF EntryUnchanged, UnlinkEntry
  <2>11. CASE KeepEntry(p) \/ DiscardEntry(p) \/ FinishStartUp(p)
    BY <2>11 DEF KeepEntry, DiscardEntry, FinishStartUp
  <2> QED
    BY <2>1, <2>2, <2>3, <2>4, <2>5, <2>6, <2>7, <2>8, <2>9, <2>10, <2>11 DEF Proceed
<1> QED
  BY <1>1 DEF StepsLeft, Detour

\* An operation that gives up is over.
LEMMA AbandonEnds ==
    ASSUME TypeOK, TypeOK', NEW p \in Procs, Abandon(p)
    PROVE  StepsLeft(p)' = 0
<1>1. step'[p] = "idle"
  BY DEF TypeOK, Abandon, End
<1> QED
  BY <1>1, MeasuresNext DEF Measured

\* In whatever step, an operation that has not just begun has no more before it than it had.
LEMMA RunOutStep ==
    ASSUME TypeOK, TypeOK', [Next]_vars, NEW p \in Procs
    PROVE  \/ StepsLeft(p)' <= StepsLeft(p)
           \/ step[p] = "idle" /\ StepsLeft(p)' <= 4 + 14 * Cardinality(Slots)
<1>1. Measured(p) /\ Measured(p)'
  BY Measures, MeasuresNext
<1>2. StepsLeft(p) \in Nat /\ StepsLeft(p)' \in Nat
  BY Measures, MeasuresNext
<1>3. CASE UNCHANGED vars
  <2>1. StepsLeft(p)' = StepsLeft(p)
    BY <1>3 DEF vars, evictVars, scanVars, StepsLeft, Detour
  <2> QED
    BY <1>2, <2>1
<1>4. ASSUME NEW q \in Procs, q # p, Begin(q) \/ Proceed(q) \/ Abandon(q)
      PROVE  StepsLeft(p)' <= StepsLeft(p)
  BY <1>2, <1>4, OthersDoNotDelay
<1>5. CASE Proceed(p)
  BY <1>2, <1>5, ProceedDecreases
<1>6. CASE Abandon(p)
  BY <1>2, <1>6, AbandonEnds
<1>7. CASE Begin(p)
  <2>1. step[p] = "idle" /\ step'[p] \in {"opened", "scanning"}
    BY <1>7 DEF TypeOK, Begin, Open, StartUp, Move
  <2> QED
    BY <1>1, <2>1 DEF Measured
<1> QED
  BY <1>3, <1>4, <1>5, <1>6, <1>7 DEF Next

\* Once it has begun, a load, a save or the maintenance of a new cache object is over after at
\* most 14 * Cardinality(Slots) + 4 steps of its own, with whatever the others do in between.
\* (_cache_inventory, _maintain_cache)
THEOREM OperationsAreBounded == Spec => []StepsBounded /\ StepsRunOut
<1>1. Init => StepsBounded
  <2> SUFFICES ASSUME Init, NEW p \in Procs PROVE StepsLeft(p) \in 0 .. 4 + 14 * Cardinality(Slots)
    BY DEF StepsBounded
  <2>1. StepsLeft(p) = 0
    BY InvariantInit, Measures DEF IInv, Init, Measured
  <2>2. Cardinality(Slots) \in Nat
    BY Sizes
  <2> QED
    BY <2>1, <2>2
<1>2. TypeOK /\ TypeOK' /\ StepsBounded /\ [Next]_vars => StepsBounded'
  <2> SUFFICES ASSUME TypeOK, TypeOK', StepsBounded, [Next]_vars, NEW p \in Procs
               PROVE  StepsLeft(p)' \in 0 .. 4 + 14 * Cardinality(Slots)
    BY DEF StepsBounded
  <2>1. Measured(p) /\ Measured(p)'
    BY Measures, MeasuresNext
  <2>2. Cardinality(Slots) \in Nat /\ StepsLeft(p) \in Nat /\ StepsLeft(p)' \in Nat
    BY <2>1, Measures, MeasuresNext DEF Measured
  <2>3. StepsLeft(p) <= 4 + 14 * Cardinality(Slots)
    BY <2>2 DEF StepsBounded
  <2>4. StepsLeft(p)' <= 4 + 14 * Cardinality(Slots)
    BY <2>2, <2>3, RunOutStep
  <2> QED
    BY <2>2, <2>4
<1>3. TypeOK /\ TypeOK' /\ [Next]_vars =>
        [\A p \in Procs :
           /\ Proceed(p) => StepsLeft(p)' < StepsLeft(p)
           /\ step[p] # "idle" => StepsLeft(p)' <= StepsLeft(p)]_vars
  BY ProceedDecreases, RunOutStep
<1> QED
  BY <1>1, <1>2, <1>3, TypeCorrect, PTL DEF Spec, StepsRunOut

----------------------------------------------------------------------------
(* The refinement of one lock per slot *)

LEMMA LockedInit == Init => Locked!Init
<1> SUFFICES ASSUME Init PROVE Locked!Init
  OBVIOUS
<1>1. \A p \in Procs : Shared(p) = {} /\ Owned(p) = {}
  BY DEF Init, Shared, Owned, Maintaining, Orphan, Removal
<1> QED
  BY <1>1 DEF Init, Locked!Init, Nothing

\* The abstract locks change as those of the one process that takes the step.
LEMMA LockedFrame ==
    ASSUME NEW p \in Procs, NEW reads, NEW owns, Shared(p)' = reads, Owned(p)' = owns,
           \A q \in Procs \ {p} : step'[q] = step[q] /\ slot'[q] = slot[q] /\ inner'[q] = inner[q]
    PROVE  /\ [q \in Procs |-> Shared(q)]' = [[q \in Procs |-> Shared(q)] EXCEPT ![p] = reads]
           /\ [q \in Procs |-> Owned(q)]' = [[q \in Procs |-> Owned(q)] EXCEPT ![p] = owns]
<1>1. \A q \in Procs \ {p} : Shared(q)' = Shared(q) /\ Owned(q)' = Owned(q)
  BY DEF Shared, Owned
<1> QED
  BY <1>1

\* Whoever has a lock has it on the file the pathname leads to, so that flock notices.
LEMMA LockedMeansLocked ==
    ASSUME FreshInv, NEW s \in Slots
    PROVE  /\ Unowned(s) => \A q \in Procs : s \notin Owned(q)
           /\ Unlocked(s) => \A q \in Procs : s \notin Owned(q) /\ s \notin Shared(q)
BY DEF FreshInv, Fresh, Unowned, Unlocked, Owned, Shared, Owns, Cleans, Reads

\* What a process has locked, by its step.
LEMMA LockedByStep ==
    ASSUME TypeOK, ShapeInv, FreshInv, LockInv, NEW p \in Procs
    PROVE  /\ step[p] # "reading" => Shared(p) = {}
           /\ step[p] = "reading" => Shared(p) = {slot[p]} /\ Owned(p) = {}
           /\ step[p] \in Seeking => Owned(p) = {}
           /\ step[p] = "writing" => Owned(p) = {slot[p]}
           /\ step[p] \in {"orphanLocked", "orphanDoomed", "entryLocked", "entryDoomed"} =>
                inner[p] \in Owned(p) /\ inner[p] # slot[p]
<1>1. Shape(p) /\ Fresh(p)
  BY DEF ShapeInv, FreshInv
<1>2. ASSUME step[p] \in {"orphanLocked", "orphanDoomed", "entryLocked", "entryDoomed"}
      PROVE  inner[p] \in Owned(p) /\ inner[p] # slot[p]
  <2>1. inner[p] \in Slots /\ Cleans(p, inner[p])
    BY <1>1, <1>2 DEF Shape, Fresh, Orphan, Removal, Cleans
  <2>2. ~Owns(p, inner[p])
    BY <2>1 DEF LockInv, Exclusive
  <2>3. slot[p] \in Slots => Owns(p, slot[p])
    BY <1>1, <1>2 DEF Fresh, Owns, Maintaining, Orphan, Removal
  <2> QED
    BY <1>2, <2>1, <2>2, <2>3 DEF Owned
<1>3. step[p] # "reading" => Shared(p) = {}
  BY DEF Shared
<1>4. step[p] = "reading" => Shared(p) = {slot[p]} /\ Owned(p) = {}
  BY <1>1 DEF Shape, Shared, Owned, Maintaining, Orphan, Removal
<1>5. step[p] \in Seeking => Owned(p) = {}
  BY DEF Owned, Seeking, Maintaining, Orphan, Removal
<1>6. step[p] = "writing" => Owned(p) = {slot[p]}
  BY <1>1 DEF Shape, Owned, Maintaining, Orphan, Removal
<1> QED
  BY <1>2, <1>3, <1>4, <1>5, <1>6

\* The end of an operation gives up everything.
LEMMA LockedEnd ==
    ASSUME TypeOK, NEW p \in Procs, End(p)
    PROVE  /\ Shared(p)' = {} /\ Owned(p)' = {}
           /\ Locked!Unlock(p, Slots)
<1>1. Shared(p)' = {} /\ Owned(p)' = {}
  BY DEF End, TypeOK, Shared, Owned, Maintaining, Orphan, Removal
<1>2. \A q \in Procs \ {p} : step'[q] = step[q] /\ slot'[q] = slot[q] /\ inner'[q] = inner[q]
  BY DEF End, TypeOK
<1>3. Shared(p) \ Slots = {} /\ Owned(p) \ Slots = {}
  BY DEF Shared, Owned
<1> QED
  BY <1>1, <1>2, <1>3, LockedFrame DEF Locked!Unlock

\* The end of what maintenance does with a slot gives up that slot.
LEMMA LockedCloses ==
    ASSUME TypeOK, ShapeInv, FreshInv, LockInv, NEW p \in Procs,
           step[p] \in {"orphanLocked", "orphanDoomed", "entryLocked", "entryDoomed"},
           NEW to \in {"scanning", "evicting"},
           step' = [step EXCEPT ![p] = to], inner' = [inner EXCEPT ![p] = NoSlot], slot' = slot
    PROVE  Locked!Unlock(p, {inner[p]})
<1>1. inner[p] # slot[p] /\ Shared(p) = {}
  BY LockedByStep
<1>2. Shared(p)' = Shared(p) \ {inner[p]}
  BY <1>1 DEF TypeOK, Shared
<1>3. Owned(p)' = Owned(p) \ {inner[p]}
  BY <1>1 DEF TypeOK, Owned, Maintaining, Orphan, Removal
<1>4. \A q \in Procs \ {p} : step'[q] = step[q] /\ slot'[q] = slot[q] /\ inner'[q] = inner[q]
  BY DEF TypeOK
<1> QED
  BY <1>2, <1>3, <1>4, LockedFrame DEF Locked!Unlock

\* Maintenance goes on without taking or giving up a lock.
LEMMA LockedStutters ==
    ASSUME entry' = entry, NEW p \in Procs, Shared(p)' = Shared(p), Owned(p)' = Owned(p),
           \A q \in Procs \ {p} : step'[q] = step[q] /\ slot'[q] = slot[q] /\ inner'[q] = inner[q]
    PROVE  UNCHANGED Locked!vars
<1>1. \A q \in Procs : Shared(q)' = Shared(q) /\ Owned(q)' = Owned(q)
  BY DEF Shared, Owned
<1> QED
  BY <1>1 DEF Locked!vars

\* A lock file that was opened for maintenance is locked.
LEMMA LockedOwns ==
    ASSUME TypeOK, FreshInv, NEW p \in Procs, step[p] \in {"orphanOpened", "entryOpened"},
           inner[p] \in Slots, Unlocked(inner[p]),
           NEW to \in {"orphanLocked", "entryLocked"}, step' = [step EXCEPT ![p] = to],
           UNCHANGED <<entry, slot, inner>>
    PROVE  Locked!Own(p, inner[p])
<1>1. \A q \in Procs : inner[p] \notin Owned(q) /\ inner[p] \notin Shared(q)
  BY LockedMeansLocked
<1>2. Shared(p)' = Shared(p)
  BY DEF TypeOK, Shared
<1>3. Owned(p)' = Owned(p) \cup {inner[p]}
  BY DEF TypeOK, Owned, Maintaining, Orphan, Removal
<1>4. \A q \in Procs \ {p} : step'[q] = step[q] /\ slot'[q] = slot[q] /\ inner'[q] = inner[q]
  BY DEF TypeOK
<1>5. [q \in Procs |-> Owned(q)]' = [[q \in Procs |-> Owned(q)] EXCEPT ![p] = Owned(p) \cup {inner[p]}]
  BY <1>3, <1>4, LockedFrame
<1>6. [q \in Procs |-> Shared(q)]' = [q \in Procs |-> Shared(q)]
  BY <1>2, <1>4, LockedFrame
<1> QED
  BY <1>1, <1>5, <1>6 DEF Locked!Own, Locked!Unlocked, Locked!Unowned

LEMMA LockedStep == IInv /\ [Next]_vars => [Locked!Next]_(Locked!vars)
<1> SUFFICES ASSUME IInv, [Next]_vars PROVE Locked!Next \/ UNCHANGED Locked!vars
  OBVIOUS
<1> DEFINE Goal == Locked!Next \/ UNCHANGED Locked!vars
<1>0. TypeOK /\ ShapeInv /\ FreshInv /\ LockInv
  BY DEF IInv
<1>1. CASE UNCHANGED vars
  BY <1>1 DEF vars, dirVars, ownVars, Locked!vars, Shared, Owned
<1>2. ASSUME NEW p \in Procs, Begin(p) \/ Proceed(p) \/ Abandon(p) PROVE Goal
  <2>0. Shape(p) /\ Fresh(p)
    BY <1>0 DEF ShapeInv, FreshInv
  <2> USE <1>0 DEF dirVars, ownVars, scanVars, evictVars
  <2> HIDE DEF Goal
  <2>1. CASE StartUp(p)
    <3>1. /\ entry' = entry /\ Shared(p)' = Shared(p) /\ Owned(p)' = Owned(p)
          /\ \A q \in Procs \ {p} : step'[q] = step[q] /\ slot'[q] = slot[q] /\ inner'[q] = inner[q]
      BY <2>1, <2>0, NoSlotAssumption DEF StartUp, TypeOK, Shape, Move, Seen, Consider, OpenInner, CloseInner,
         Shared, Owned, Seeking, Maintaining, Orphan, Removal
    <3> QED
      BY <3>1, LockedStutters DEF Goal
  <2>2. ASSUME NEW o \in {"load", "save"}, NEW s \in Slots, Open(p, o, s) PROVE Goal
    <3>1. /\ entry' = entry /\ Shared(p)' = Shared(p) /\ Owned(p)' = Owned(p)
          /\ \A q \in Procs \ {p} : step'[q] = step[q] /\ slot'[q] = slot[q] /\ inner'[q] = inner[q]
      BY <2>2, <2>0, NoSlotAssumption DEF Open, TypeOK, Shape, Move, Seen, Consider, OpenInner, CloseInner,
         Shared, Owned, Seeking, Maintaining, Orphan, Removal
    <3> QED
      BY <3>1, LockedStutters DEF Goal
  <2>3. CASE Acquire(p)
    <3>1. /\ step[p] = "opened" /\ slot[p] \in Slots /\ op[p] \in {"load", "save"} /\ Available(p)
          /\ step' = [step EXCEPT ![p] = IF op[p] = "load" THEN "reading" ELSE "writing"]
          /\ UNCHANGED <<entry, slot, inner>>
      BY <2>3, <2>0 DEF Acquire, Move, Shape
    <3>2. \A q \in Procs \ {p} : step'[q] = step[q] /\ slot'[q] = slot[q] /\ inner'[q] = inner[q]
      BY <3>1 DEF TypeOK
    <3>3. Shared(p) = {} /\ Owned(p) = {}
      BY <3>1, LockedByStep DEF Seeking
    <3>4. CASE op[p] = "load"
      <4>1. Shared(p)' = Shared(p) \cup {slot[p]} /\ Owned(p)' = Owned(p)
        BY <3>1, <3>3, <3>4 DEF TypeOK, Shared, Owned, Maintaining, Orphan, Removal
      <4>2. \A q \in Procs : slot[p] \notin Owned(q)
        BY <3>1, <3>4, LockedMeansLocked DEF Available
      <4>3. Locked!Share(p, slot[p])
        BY <3>1, <3>2, <4>1, <4>2, LockedFrame DEF Locked!Share, Locked!Unowned
      <4> QED
        BY <3>1, <4>3 DEF Goal, Locked!Next
    <3>5. CASE op[p] = "save"
      <4>1. Shared(p)' = Shared(p) /\ Owned(p)' = Owned(p) \cup {slot[p]}
        BY <3>1, <3>3, <3>5 DEF TypeOK, Shared, Owned, Maintaining, Orphan, Removal
      <4>2. \A q \in Procs : slot[p] \notin Owned(q) /\ slot[p] \notin Shared(q)
        BY <3>1, <3>5, LockedMeansLocked DEF Available
      <4>3. Locked!Own(p, slot[p])
        BY <3>1, <3>2, <4>1, <4>2, LockedFrame DEF Locked!Own, Locked!Unlocked, Locked!Unowned
      <4> QED
        BY <3>1, <4>3 DEF Goal, Locked!Next
    <3> QED
      BY <3>1, <3>4, <3>5
  <2>4. CASE Refused(p)
    <3>1. End(p) /\ entry' = entry
      BY <2>4 DEF Refused, dirVars
    <3>2. Locked!Release(p, Slots)
      BY <3>1, LockedEnd DEF Locked!Release
    <3> QED
      BY <3>2 DEF Goal, Locked!Next
  <2>5. CASE FinishLoad(p)
    <3>1. End(p) /\ entry' = entry
      BY <2>5 DEF FinishLoad, dirVars
    <3>2. Locked!Release(p, Slots)
      BY <3>1, LockedEnd DEF Locked!Release
    <3> QED
      BY <3>2 DEF Goal, Locked!Next
  <2>6. ASSUME NEW i \in Inodes, Publish(p, i) PROVE Goal
    <3>1. /\ step[p] = "writing" /\ slot[p] \in Slots
          /\ step' = [step EXCEPT ![p] = "scanning"] /\ UNCHANGED <<slot, inner>>
          /\ entry' = [entry EXCEPT ![slot[p]] = i] /\ \A s \in Slots : entry[s] # i
      BY <2>6, <2>0 DEF Publish, Move, Shape
    <3>2. \A q \in Procs \ {p} : step'[q] = step[q] /\ slot'[q] = slot[q] /\ inner'[q] = inner[q]
      BY <3>1 DEF TypeOK
    <3>3. Shared(p) = {} /\ Owned(p) = {slot[p]}
      BY <3>1, LockedByStep
    <3>4. Shared(p)' = Shared(p) /\ Owned(p)' = Owned(p)
      BY <3>1, <3>3 DEF TypeOK, Shared, Owned, Maintaining, Orphan, Removal
    <3>5. Locked!Put(p, slot[p], i)
      BY <3>1, <3>2, <3>3, <3>4, LockedFrame DEF Locked!Put
    <3> QED
      BY <3>1, <3>5 DEF Goal, Locked!Next
  <2>7. ASSUME NEW s \in Slots, SeeEntry(p, s) PROVE Goal
    <3>1. /\ entry' = entry /\ Shared(p)' = Shared(p) /\ Owned(p)' = Owned(p)
          /\ \A q \in Procs \ {p} : step'[q] = step[q] /\ slot'[q] = slot[q] /\ inner'[q] = inner[q]
      BY <2>7, <2>0, NoSlotAssumption DEF SeeEntry, TypeOK, Shape, Move, Seen, Consider, OpenInner, CloseInner,
         Shared, Owned, Seeking, Maintaining, Orphan, Removal
    <3> QED
      BY <3>1, LockedStutters DEF Goal
  <2>8. ASSUME NEW s \in Slots, SeeLock(p, s) PROVE Goal
    <3>1. /\ entry' = entry /\ Shared(p)' = Shared(p) /\ Owned(p)' = Owned(p)
          /\ \A q \in Procs \ {p} : step'[q] = step[q] /\ slot'[q] = slot[q] /\ inner'[q] = inner[q]
      BY <2>8, <2>0, NoSlotAssumption DEF SeeLock, TypeOK, Shape, Move, Seen, Consider, OpenInner, CloseInner,
         Shared, Owned, Seeking, Maintaining, Orphan, Removal
    <3> QED
      BY <3>1, LockedStutters DEF Goal
  <2>9. CASE OpenOrphan(p)
    <3>1. /\ entry' = entry /\ Shared(p)' = Shared(p) /\ Owned(p)' = Owned(p)
          /\ \A q \in Procs \ {p} : step'[q] = step[q] /\ slot'[q] = slot[q] /\ inner'[q] = inner[q]
      BY <2>9, <2>0, NoSlotAssumption DEF OpenOrphan, TypeOK, Shape, Move, Seen, Consider, OpenInner, CloseInner,
         Shared, Owned, Seeking, Maintaining, Orphan, Removal
    <3> QED
      BY <3>1, LockedStutters DEF Goal
  <2>10. CASE LockOrphan(p)
    <3>1. /\ step[p] \in {"orphanOpened", "entryOpened"} /\ Unlocked(inner[p])
          /\ step' = [step EXCEPT ![p] = "orphanLocked"] /\ UNCHANGED <<entry, slot, inner>>
      BY <2>10 DEF LockOrphan, Move
    <3>2. inner[p] \in Slots
      BY <2>0, <3>1 DEF Shape, Orphan, Removal
    <3>3. Locked!Own(p, inner[p])
      BY <3>1, <3>2, LockedOwns
    <3> QED
      BY <3>2, <3>3 DEF Goal, Locked!Next
  <2>11. CASE RefusedOrphan(p)
    <3>1. /\ entry' = entry /\ Shared(p)' = Shared(p) /\ Owned(p)' = Owned(p)
          /\ \A q \in Procs \ {p} : step'[q] = step[q] /\ slot'[q] = slot[q] /\ inner'[q] = inner[q]
      BY <2>11, <2>0, NoSlotAssumption DEF RefusedOrphan, TypeOK, Shape, Move, Seen, Consider, OpenInner, CloseInner,
         Shared, Owned, Seeking, Maintaining, Orphan, Removal
    <3> QED
      BY <3>1, LockedStutters DEF Goal
  <2>12. CASE LockInUse(p)
    <3>1. /\ step[p] \in {"orphanLocked", "orphanDoomed", "entryLocked", "entryDoomed"}
          /\ step' = [step EXCEPT ![p] = "scanning"] /\ inner' = [inner EXCEPT ![p] = NoSlot] /\ slot' = slot
          /\ entry' = entry
      BY <2>12 DEF LockInUse, CloseInner, Move
    <3>2. inner[p] \in Slots
      BY <2>0, <3>1 DEF Shape, Orphan, Removal
    <3>3. Locked!Release(p, {inner[p]})
      BY <3>1, LockedCloses DEF Locked!Release
    <3> QED
      BY <3>2, <3>3 DEF Goal, Locked!Next
  <2>13. CASE LockUnused(p)
    <3>1. /\ entry' = entry /\ Shared(p)' = Shared(p) /\ Owned(p)' = Owned(p)
          /\ \A q \in Procs \ {p} : step'[q] = step[q] /\ slot'[q] = slot[q] /\ inner'[q] = inner[q]
      BY <2>13, <2>0, NoSlotAssumption DEF LockUnused, TypeOK, Shape, Move, Seen, Consider, OpenInner, CloseInner,
         Shared, Owned, Seeking, Maintaining, Orphan, Removal
    <3> QED
      BY <3>1, LockedStutters DEF Goal
  <2>14. CASE UnlinkLock(p)
    <3>1. /\ step[p] \in {"orphanLocked", "orphanDoomed", "entryLocked", "entryDoomed"}
          /\ step' = [step EXCEPT ![p] = "scanning"] /\ inner' = [inner EXCEPT ![p] = NoSlot] /\ slot' = slot
          /\ entry' = entry
      BY <2>14 DEF UnlinkLock, CloseInner, Move
    <3>2. inner[p] \in Slots
      BY <2>0, <3>1 DEF Shape, Orphan, Removal
    <3>3. Locked!Release(p, {inner[p]})
      BY <3>1, LockedCloses DEF Locked!Release
    <3> QED
      BY <3>2, <3>3 DEF Goal, Locked!Next
  <2>15. CASE EndScan(p)
    <3>1. /\ entry' = entry /\ Shared(p)' = Shared(p) /\ Owned(p)' = Owned(p)
          /\ \A q \in Procs \ {p} : step'[q] = step[q] /\ slot'[q] = slot[q] /\ inner'[q] = inner[q]
      BY <2>15, <2>0, NoSlotAssumption DEF EndScan, TypeOK, Shape, Move, Seen, Consider, OpenInner, CloseInner,
         Shared, Owned, Seeking, Maintaining, Orphan, Removal
    <3> QED
      BY <3>1, LockedStutters DEF Goal
  <2>16. ASSUME NEW s \in Slots, Spare(p, s) PROVE Goal
    <3>1. /\ entry' = entry /\ Shared(p)' = Shared(p) /\ Owned(p)' = Owned(p)
          /\ \A q \in Procs \ {p} : step'[q] = step[q] /\ slot'[q] = slot[q] /\ inner'[q] = inner[q]
      BY <2>16, <2>0, NoSlotAssumption DEF Spare, TypeOK, Shape, Move, Seen, Consider, OpenInner, CloseInner,
         Shared, Owned, Seeking, Maintaining, Orphan, Removal
    <3> QED
      BY <3>1, LockedStutters DEF Goal
  <2>17. ASSUME NEW s \in Slots, OpenEntry(p, s) PROVE Goal
    <3>1. /\ entry' = entry /\ Shared(p)' = Shared(p) /\ Owned(p)' = Owned(p)
          /\ \A q \in Procs \ {p} : step'[q] = step[q] /\ slot'[q] = slot[q] /\ inner'[q] = inner[q]
      BY <2>17, <2>0, NoSlotAssumption DEF OpenEntry, TypeOK, Shape, Move, Seen, Consider, OpenInner, CloseInner,
         Shared, Owned, Seeking, Maintaining, Orphan, Removal
    <3> QED
      BY <3>1, LockedStutters DEF Goal
  <2>18. CASE LockEntry(p)
    <3>1. /\ step[p] \in {"orphanOpened", "entryOpened"} /\ Unlocked(inner[p])
          /\ step' = [step EXCEPT ![p] = "entryLocked"] /\ UNCHANGED <<entry, slot, inner>>
      BY <2>18 DEF LockEntry, Move
    <3>2. inner[p] \in Slots
      BY <2>0, <3>1 DEF Shape, Orphan, Removal
    <3>3. Locked!Own(p, inner[p])
      BY <3>1, <3>2, LockedOwns
    <3> QED
      BY <3>2, <3>3 DEF Goal, Locked!Next
  <2>19. CASE RefusedEntry(p)
    <3>1. /\ entry' = entry /\ Shared(p)' = Shared(p) /\ Owned(p)' = Owned(p)
          /\ \A q \in Procs \ {p} : step'[q] = step[q] /\ slot'[q] = slot[q] /\ inner'[q] = inner[q]
      BY <2>19, <2>0, NoSlotAssumption DEF RefusedEntry, TypeOK, Shape, Move, Seen, Consider, OpenInner, CloseInner,
         Shared, Owned, Seeking, Maintaining, Orphan, Removal
    <3> QED
      BY <3>1, LockedStutters DEF Goal
  <2>20. CASE EntryGone(p)
    <3>1. /\ step[p] \in {"orphanLocked", "orphanDoomed", "entryLocked", "entryDoomed"}
          /\ step' = [step EXCEPT ![p] = "evicting"] /\ inner' = [inner EXCEPT ![p] = NoSlot] /\ slot' = slot
          /\ entry' = entry
      BY <2>20 DEF EntryGone, CloseInner, Move
    <3>2. inner[p] \in Slots
      BY <2>0, <3>1 DEF Shape, Orphan, Removal
    <3>3. Locked!Release(p, {inner[p]})
      BY <3>1, LockedCloses DEF Locked!Release
    <3> QED
      BY <3>2, <3>3 DEF Goal, Locked!Next
  <2>21. CASE EntryReplaced(p)
    <3>1. /\ step[p] \in {"orphanLocked", "orphanDoomed", "entryLocked", "entryDoomed"}
          /\ step' = [step EXCEPT ![p] = "evicting"] /\ inner' = [inner EXCEPT ![p] = NoSlot] /\ slot' = slot
          /\ entry' = entry
      BY <2>21 DEF EntryReplaced, CloseInner, Move
    <3>2. inner[p] \in Slots
      BY <2>0, <3>1 DEF Shape, Orphan, Removal
    <3>3. Locked!Release(p, {inner[p]})
      BY <3>1, LockedCloses DEF Locked!Release
    <3> QED
      BY <3>2, <3>3 DEF Goal, Locked!Next
  <2>22. CASE EntryUnchanged(p)
    <3>1. /\ entry' = entry /\ Shared(p)' = Shared(p) /\ Owned(p)' = Owned(p)
          /\ \A q \in Procs \ {p} : step'[q] = step[q] /\ slot'[q] = slot[q] /\ inner'[q] = inner[q]
      BY <2>22, <2>0, NoSlotAssumption DEF EntryUnchanged, TypeOK, Shape, Move, Seen, Consider, OpenInner, CloseInner,
         Shared, Owned, Seeking, Maintaining, Orphan, Removal
    <3> QED
      BY <3>1, LockedStutters DEF Goal
  <2>23. CASE UnlinkEntry(p)
    <3>1. /\ step[p] = "entryDoomed"
          /\ step' = [step EXCEPT ![p] = "evicting"] /\ inner' = [inner EXCEPT ![p] = NoSlot] /\ slot' = slot
          /\ entry' = [entry EXCEPT ![inner[p]] = NoFile]
      BY <2>23 DEF UnlinkEntry, CloseInner, Move
    <3>2. inner[p] \in Slots /\ inner[p] \in Owned(p)
      BY <2>0, <3>1, LockedByStep DEF Shape, Orphan, Removal
    <3>3. Locked!Unlock(p, {inner[p]})
      BY <3>1, LockedCloses
    <3>4. Locked!Remove(p, inner[p], {inner[p]})
      BY <3>1, <3>2, <3>3 DEF Locked!Remove
    <3> QED
      BY <3>2, <3>4 DEF Goal, Locked!Next
  <2>24. CASE KeepEntry(p)
    <3>1. End(p) /\ entry' = entry
      BY <2>24 DEF KeepEntry
    <3>2. Locked!Release(p, Slots)
      BY <3>1, LockedEnd DEF Locked!Release
    <3> QED
      BY <3>2 DEF Goal, Locked!Next
  <2>25. CASE DiscardEntry(p)
    <3>1. /\ step[p] = "evicting" /\ slot[p] \in Slots /\ End(p)
          /\ entry' = [entry EXCEPT ![slot[p]] = NoFile]
      BY <2>25, <2>0 DEF DiscardEntry, Shape, Maintaining
    <3>2. slot[p] \in Owned(p)
      BY <3>1 DEF Owned, Maintaining
    <3>3. Locked!Unlock(p, Slots)
      BY <3>1, LockedEnd
    <3>4. Locked!Remove(p, slot[p], Slots)
      BY <3>1, <3>2, <3>3 DEF Locked!Remove
    <3> QED
      BY <3>1, <3>4 DEF Goal, Locked!Next
  <2>26. CASE FinishStartUp(p)
    <3>1. End(p) /\ entry' = entry
      BY <2>26 DEF FinishStartUp, dirVars
    <3>2. Locked!Release(p, Slots)
      BY <3>1, LockedEnd DEF Locked!Release
    <3> QED
      BY <3>2 DEF Goal, Locked!Next
  <2>27. CASE Abandon(p)
    <3>1. End(p) /\ entry' = entry
      BY <2>27 DEF Abandon, dirVars
    <3>2. Locked!Release(p, Slots)
      BY <3>1, LockedEnd DEF Locked!Release
    <3> QED
      BY <3>2 DEF Goal, Locked!Next
  <2> QED
    BY <1>2, <2>1, <2>2, <2>3, <2>4, <2>5, <2>6, <2>7, <2>8, <2>9, <2>10, <2>11, <2>12,
       <2>13, <2>14, <2>15, <2>16, <2>17, <2>18, <2>19, <2>20, <2>21, <2>22, <2>23, <2>24,
       <2>25, <2>26, <2>27 DEF Begin, Proceed
<1> QED
  BY <1>1, <1>2 DEF Next

\* Lock files that are created, opened, unlinked and created again by any number of scans amount
\* to one reader-writer lock per slot, whose owner alone changes the entry.
THEOREM LockFilesAreLocks == Spec => ImplementsLockedSlots
BY LockedInit, LockedStep, InvariantHolds, PTL DEF Spec, ImplementsLockedSlots, Locked!Spec

----------------------------------------------------------------------------
(* Nobody waits *)

\* The guards of the steps of an operation: some disjunct of Proceed(p) can be taken.
CanProceed(p) ==
    \/ step[p] \in {"opened", "reading"}                            \* Refused, FinishLoad
    \/ step[p] = "writing" /\ \E i \in Inodes : \A s \in Slots : entry[s] # i       \* Publish
    \/ step[p] = "scanning" /\ \/ todo[p] \cap Children # {}        \* SeeEntry, SeeLock
                               \/ todo[p] = {}                      \* EndScan
    \/ step[p] \in {"orphanSeen", "orphanOpened"}                   \* OpenOrphan, RefusedOrphan
    \/ step[p] = "orphanLocked" /\ \/ entry[inner[p]] # NoFile      \* LockInUse
                                   \/ entry[inner[p]] = NoFile      \* LockUnused
    \/ step[p] = "orphanDoomed"                                     \* UnlinkLock
    \/ step[p] = "evicting" /\ \E s \in candidates[p] : \/ s = slot[p]              \* Spare
                                                        \/ s # slot[p]              \* OpenEntry
    \/ step[p] = "entryOpened"                                      \* RefusedEntry
    \/ step[p] = "entryLocked" /\ \/ entry[inner[p]] = NoFile                       \* EntryGone
                                  \/ entry[inner[p]] \notin {NoFile, found[p][inner[p]]}
                                                                    \* EntryReplaced
                                  \/ entry[inner[p]] = found[p][inner[p]]           \* EntryUnchanged
    \/ step[p] = "entryDoomed"                                      \* UnlinkEntry
    \/ step[p] = "evicting" /\ candidates[p] = {} /\ op[p] \in {"save", "startup"}
                                                    \* KeepEntry, DiscardEntry, FinishStartUp

\* Whatever locks others hold, and whatever they have done to the directory, an operation that
\* has begun can go on, for any number of operations and slots: NobodyWaits with the guards
\* written out in place of ENABLED.  With OperationsAreBounded it follows that an operation that
\* is left to run is over.  (LOCK_NB in _slot_lock)
THEOREM OperationsCanProceed == Spec => [](\A p \in Procs : step[p] # "idle" => CanProceed(p))
<1>1. ASSUME IInv, NEW p \in Procs, step[p] # "idle" PROVE CanProceed(p)
  <2> USE <1>1 DEF IInv, TypeOK, CanProceed
  <2>1. CASE step[p] = "writing"
    BY <2>1, InodesAssumption
  <2>2. CASE step[p] = "scanning"
    BY <2>2
  <2>3. CASE step[p] = "evicting"
    BY <2>3 DEF ShapeInv, Shape, Maintaining
  <2>4. CASE step[p] \notin {"writing", "scanning", "evicting"}
    BY <2>4 DEF Steps, Seeking, Maintaining, Orphan, Removal
  <2> QED
    BY <2>1, <2>2, <2>3, <2>4
<1>2. IInv => \A p \in Procs : step[p] # "idle" => CanProceed(p)
  BY <1>1
<1> QED
  BY <1>2, InvariantHolds, PTL

=============================================================================
