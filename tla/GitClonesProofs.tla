--------------------------- MODULE GitClonesProofs --------------------------
(***************************************************************************)
(* What module GitClones promises, proved for any threads and any closers. *)
(***************************************************************************)
EXTENDS GitClones, FiniteSetTheorems, TLAPS

----------------------------------------------------------------------------
(* How long a call and a closer take *)

CallLeft(w) ==
    CASE step[w] = "starting"    -> 5
      [] step[w] = "registering" -> 4
      [] step[w] = "watching"    -> 3
      [] step[w] = "stopping"    -> 2
      [] step[w] = "dropping"    -> 1
      [] OTHER                   -> 0

\* A closer takes a step for each clone that it has listed.
CloserLeft(c) ==
    CASE closer[c] = "raising"    -> 9 + Cardinality(Workers)
      [] closer[c] = "setting"    -> 8 + Cardinality(Workers)
      [] closer[c] = "releasing"  -> 7 + Cardinality(Workers)
      [] closer[c] = "listing"    -> 6 + Cardinality(Workers)
      [] closer[c] = "recording"  -> 5 + Cardinality(targets[c])
      [] closer[c] = "signalling" -> 4 + Cardinality(targets[c])
      [] closer[c] = "waiting"    -> 3
      [] closer[c] = "deleting"   -> 2
      [] closer[c] = "ending"     -> 1
      [] closer[c] = "ready"      -> 0

\* A call of run_bounded_clone is over after five steps of its thread, and a closer after nine
\* of its own and one for each thread.  (run_bounded_clone, terminate_active_clones)
StepsBounded ==
    /\ \A w \in Workers : CallLeft(w) \in 0 .. 5
    /\ \A c \in Closers : CloserLeft(c) \in 0 .. 9 + Cardinality(Workers)

\* Neither is ever sent back: each step brings it closer to its end, and no other thread, closer
\* or git puts the end off, as by registering clones that a closer would have to signal too.
\* (run_bounded_clone, _stop_clone, terminate_active_clones)
StepsRunOut ==
    [][/\ \A w \in Workers : /\ CloneCall(w) => CallLeft(w)' < CallLeft(w)
                             /\ step[w] \in InCall => CallLeft(w)' <= CallLeft(w)
       /\ \A c \in Closers : /\ CloserNext(c) => CloserLeft(c)' < CloserLeft(c)
                             /\ closer[c] # "ready" => CloserLeft(c)' <= CloserLeft(c)]_vars

\* The lock of the flag is held by no one, or by someone whose next steps, which nothing
\* guards, bring its release: but for a handler on top of it, which waits for that very lock.
\* (Event.set and Event.clear under a handler of the same thread)
HolderGoesOn ==
    \/ flagLock = NoOne
    \/ flagLock = Main /\ main = "clearing" /\ frame = Main
    \/ flagLock \in Closers /\ closer[flagLock] \in {"setting", "releasing"} /\ Runs(flagLock)
    \/ Trapped /\ (scanner = "up" => frame \in Handlers /\ closer[frame] = "raising")

\* Once a handler waits for what it has interrupted, that is so until the process is gone: no
\* signal, no thread and no other closer frees the lock, and whoever still has to take it
\* never does.  (Event.set and Event.clear under a handler of the same thread)
TrapIsForGood ==
    [][Trapped => /\ scanner' = "up" => Trapped'
                  /\ \A c \in Closers : closer[c] = "raising" => closer'[c] = "raising"]_vars

----------------------------------------------------------------------------
(* The invariant that the proofs use *)

\* Git runs only between its start and the end of its watch, and there registered.
RunsWatched ==
    \A w \in Workers : clone[w] = "running" =>
            \/ step[w] = "registering"
            \/ step[w] = "watching" /\ w \in clones

\* Steps before the flag is raised, and before the clones are listed.
Unraised == {"ready", "raising", "setting"}
Unlisted == Unraised \cup {"releasing", "listing"}

\* A closer past set() has raised the flag, and only the guard, before the scan, lowers it.
FlagRaised ==
    /\ \A c \in Closers : closer[c] \notin Unraised => interrupted \/ erased
    /\ shot # {} => interrupted \/ erased

\* Before the scan there is nothing to close.
NothingBefore ==
    main # "scanning" =>
        /\ \A w \in Workers : step[w] = "idle"
        /\ \A c \in Closers : doomed[c] = {}
        /\ condemned = {} /\ shot = {}

\* Once a closer has listed the clones, a thread past the check was missed, and so was a
\* running clone, unless the closer has yet to signal it.
ListCovers ==
    \A c \in Closers : closer[c] \notin Unlisted =>
        /\ \A w \in Workers : step[w] = "starting" => w \in missed \/ erased
        /\ \A w \in Workers : clone[w] = "running" => w \in missed \cup targets[c] \/ erased

\* No clone runs in a condemned checkout, or will, but a missed one.
CondemnedCovered ==
    /\ condemned # {} => interrupted \/ erased
    /\ \A w \in condemned : step[w] = "starting" \/ clone[w] = "running" => w \in missed \/ erased

\* Past the signals none is left to signal.
ListDone ==
    \A c \in Closers : closer[c] \in {"waiting", "deleting", "ending"} => targets[c] = {}

\* A killed clone keeps the outcome "failed" only until the flag is looked at.
ShotNotFailed ==
    \A w \in shot : step[w] \in {"dropping", "fallback"} => outcome[w] # "failed" \/ erased

\* Who holds the lock is about to release it, and what runs on the main thread has begun; a
\* handler that has passed the lock interrupted no one who holds it.
LockHeld ==
    /\ \A c \in Closers : closer[c] \in {"setting", "releasing"} <=> flagLock = c
    /\ flagLock = Main <=> main = "clearing"
    /\ scanner = "up" =>
         /\ frame = Main => \A h \in Handlers : closer[h] = "ready"
         /\ frame # Main => closer[frame] # "ready"
         /\ frame # Main /\ closer[frame] # "raising" =>
              flagLock \notin (Handlers \cup {Main}) \ {frame}

IInv ==
    /\ TypeOK
    /\ RunsWatched
    /\ FlagRaised
    /\ NothingBefore
    /\ ListCovers
    /\ ListDone
    /\ CondemnedCovered
    /\ ShotNotFailed
    /\ LockHeld
    /\ SurvivorsWereMissed

----------------------------------------------------------------------------
(* Proofs *)

LEMMA InvariantInit == Init => IInv
<1> SUFFICES ASSUME Init PROVE IInv
  OBVIOUS
<1>1. TypeOK
  BY DEF Init, TypeOK, WorkerSteps, InCall, Clones, Outcomes, CloserSteps, MainSteps
<1>2. RunsWatched /\ SurvivorsWereMissed
  BY DEF Init, RunsWatched, SurvivorsWereMissed
<1>3. FlagRaised /\ NothingBefore /\ ListCovers /\ ListDone /\ CondemnedCovered /\ ShotNotFailed
  BY DEF Init, FlagRaised, NothingBefore, ListCovers, ListDone, CondemnedCovered, ShotNotFailed,
     Unraised, Unlisted
<1>4. LockHeld
  BY HandlersAssumption, NamesAssumption DEF Init, LockHeld
<1> QED
  BY <1>1, <1>2, <1>3, <1>4 DEF IInv

\* Every action keeps the types and the registries' discipline.
LEMMA TypeStep == TypeOK /\ [Next]_vars => TypeOK'
<1> SUFFICES ASSUME TypeOK, [Next]_vars PROVE TypeOK'
  OBVIOUS
<1> USE HandlersAssumption
    DEF TypeOK, WorkerSteps, InCall, Clones, Outcomes, CloserSteps, MainSteps, Move, Advance,
        Signal, workerVars, registryVars, mainVars, flagVars, closerVars, auxVars
<1>1. ASSUME NEW w \in Workers, MakeCheckout(w) PROVE TypeOK'
  BY <1>1 DEF MakeCheckout
<1>2. ASSUME NEW w \in Workers, RecordCheckout(w) PROVE TypeOK'
  BY <1>2 DEF RecordCheckout
<1>3. ASSUME NEW w \in Workers, GiveUp(w) PROVE TypeOK'
  BY <1>3 DEF GiveUp
<1>4. ASSUME NEW w \in Workers, SkipClone(w) PROVE TypeOK'
  BY <1>4 DEF SkipClone
<1>5. ASSUME NEW w \in Workers, CheckFlag(w) PROVE TypeOK'
  BY <1>5 DEF CheckFlag
<1>6. ASSUME NEW w \in Workers, StartClone(w) PROVE TypeOK'
  BY <1>6 DEF StartClone
<1>7. ASSUME NEW w \in Workers, StartFails(w) PROVE TypeOK'
  BY <1>7 DEF StartFails
<1>8. ASSUME NEW w \in Workers, RegisterClone(w) PROVE TypeOK'
  BY <1>8 DEF RegisterClone
<1>9. ASSUME NEW w \in Workers, SeeSuccess(w) PROVE TypeOK'
  BY <1>9 DEF SeeSuccess
<1>10. ASSUME NEW w \in Workers, SeeFailure(w) PROVE TypeOK'
  BY <1>10 DEF SeeFailure
<1>11. ASSUME NEW w \in Workers, StopClone(w) PROVE TypeOK'
  BY <1>11 DEF StopClone
<1>12. ASSUME NEW w \in Workers, Stopped(w) PROVE TypeOK'
  BY <1>12 DEF Stopped
<1>13. ASSUME NEW w \in Workers, DropClone(w) PROVE TypeOK'
  BY <1>13 DEF DropClone
<1>14. ASSUME NEW w \in Workers, WriteSnapshot(w) PROVE TypeOK'
  BY <1>14 DEF WriteSnapshot
<1>15. ASSUME NEW w \in Workers, FinishRepository(w) PROVE TypeOK'
  BY <1>15 DEF FinishRepository
<1>16. ASSUME NEW w \in Workers, RemoveCheckout(w) PROVE TypeOK'
  BY <1>16 DEF RemoveCheckout
<1>17. ASSUME NEW w \in Workers, ForgetCheckout(w) PROVE TypeOK'
  BY <1>17 DEF ForgetCheckout
<1>18. ASSUME NEW w \in Workers, CloneExits(w) PROVE TypeOK'
  BY <1>18 DEF CloneExits
<1>19. ASSUME NEW c \in Closers, RaiseFlag(c) PROVE TypeOK'
  BY <1>19 DEF RaiseFlag
<1>20. ASSUME NEW c \in Closers, ListClones(c) PROVE TypeOK'
  BY <1>20 DEF ListClones
<1>21. ASSUME NEW c \in Closers, ListCheckouts(c) PROVE TypeOK'
  BY <1>21 DEF ListCheckouts
<1>22. ASSUME NEW c \in Closers, SignalledAll(c) PROVE TypeOK'
  BY <1>22 DEF SignalledAll
<1>23. ASSUME NEW c \in Closers, Waited(c) PROVE TypeOK'
  BY <1>23 DEF Waited
<1>24. ASSUME NEW c \in Closers, StopWaiting(c) PROVE TypeOK'
  BY <1>24 DEF StopWaiting
<1>25. ASSUME NEW c \in Closers, Exit(c) PROVE TypeOK'
  BY <1>25 DEF Exit
<1>26. ASSUME NEW c \in Closers, Survive(c) PROVE TypeOK'
  BY <1>26 DEF Survive
<1>27. ASSUME NEW c \in Closers, NEW w \in Workers, SignalClone(c, w) PROVE TypeOK'
  BY <1>27 DEF SignalClone
<1>28. ASSUME NEW w \in Workers, DeleteCheckout(w) PROVE TypeOK'
  BY <1>28 DEF DeleteCheckout
<1>29. CASE Leave
  BY <1>29 DEF Leave
<1>30. ASSUME NEW c \in Closers, BeginClosing(c) PROVE TypeOK'
  BY <1>30 DEF BeginClosing
<1>31. ASSUME NEW c \in Closers, TakeFlagLock(c) PROVE TypeOK'
  BY <1>31 DEF TakeFlagLock
<1>32. ASSUME NEW c \in Closers, FreeFlagLock(c) PROVE TypeOK'
  BY <1>32 DEF FreeFlagLock
<1>33. CASE BeginClear
  BY <1>33 DEF BeginClear
<1>34. CASE EndClear
  BY <1>34 DEF EndClear
<1>35. CASE UNCHANGED vars
  BY <1>35 DEF vars
<1> QED
  BY <1>1, <1>2, <1>3, <1>4, <1>5, <1>6, <1>7, <1>8, <1>9, <1>10, <1>11, <1>12,
     <1>13, <1>14, <1>15, <1>16, <1>17, <1>18, <1>19, <1>20, <1>21, <1>22,
     <1>23, <1>24, <1>25, <1>26, <1>27, <1>28, <1>29, <1>30, <1>31, <1>32, <1>33, <1>34, <1>35
     DEF Next, WorkerNext, CloneCall, CloserNext

----------------------------------------------------------------------------
\* Every action keeps the discipline of the flag's lock.
LEMMA LockStep == TypeOK /\ LockHeld /\ [Next]_vars => LockHeld'
<1> SUFFICES ASSUME TypeOK, LockHeld, [Next]_vars PROVE LockHeld'
  OBVIOUS
<1> USE HandlersAssumption, NamesAssumption
    DEF TypeOK, LockHeld, Advance, Runs, mainVars, flagVars, closerVars
<1>1. ASSUME NEW w \in Workers, WorkerNext(w) \/ CloneExits(w) \/ DeleteCheckout(w)
      PROVE  LockHeld'
  <2>1. UNCHANGED <<closer, flagLock, main, frame, scanner>>
    BY <1>1 DEF WorkerNext, CloneCall, MakeCheckout, RecordCheckout, GiveUp, SkipClone, CheckFlag,
       StartClone, StartFails, RegisterClone, SeeSuccess, SeeFailure, StopClone, Stopped, DropClone,
       WriteSnapshot, FinishRepository, RemoveCheckout, ForgetCheckout, CloneExits, DeleteCheckout
  <2> QED
    BY <2>1
<1>2. ASSUME NEW c \in Closers, BeginClosing(c) PROVE LockHeld'
  BY <1>2 DEF BeginClosing
<1>3. ASSUME NEW c \in Closers, TakeFlagLock(c) PROVE LockHeld'
  BY <1>3 DEF TakeFlagLock
<1>4. ASSUME NEW c \in Closers, RaiseFlag(c) PROVE LockHeld'
  BY <1>4 DEF RaiseFlag
<1>5. ASSUME NEW c \in Closers, FreeFlagLock(c) PROVE LockHeld'
  BY <1>5 DEF FreeFlagLock
<1>6. ASSUME NEW c \in Closers, ListClones(c) \/ ListCheckouts(c) PROVE LockHeld'
  BY <1>6 DEF ListClones, ListCheckouts
<1>7. ASSUME NEW c \in Closers, NEW w \in Workers, SignalClone(c, w) PROVE LockHeld'
  BY <1>7 DEF SignalClone
<1>8. ASSUME NEW c \in Closers, SignalledAll(c) \/ Waited(c) \/ StopWaiting(c) PROVE LockHeld'
  BY <1>8 DEF SignalledAll, Waited, StopWaiting
<1>9. ASSUME NEW c \in Closers, Exit(c) PROVE LockHeld'
  BY <1>9 DEF Exit
<1>10. ASSUME NEW c \in Closers, Survive(c) PROVE LockHeld'
  BY <1>10 DEF Survive
<1>11. CASE BeginClear \/ EndClear
  BY <1>11 DEF BeginClear, EndClear
<1>12. CASE Leave \/ UNCHANGED vars
  BY <1>12 DEF Leave, vars
<1> QED
  BY <1>1, <1>2, <1>3, <1>4, <1>5, <1>6, <1>7, <1>8, <1>9, <1>10, <1>11, <1>12
     DEF Next, CloserNext

----------------------------------------------------------------------------
\* Every action keeps what relates the clones to the registry, the flag and the closers.
LEMMA InvariantStep == IInv /\ [Next]_vars => IInv'
<1> SUFFICES ASSUME IInv, [Next]_vars PROVE IInv'
  OBVIOUS
<1>0. TypeOK'
  BY TypeStep DEF IInv
<1>a. LockHeld'
  BY LockStep DEF IInv
<1> USE <1>0, <1>a
    DEF IInv, TypeOK, RunsWatched, FlagRaised, NothingBefore, ListCovers, ListDone,
        CondemnedCovered, ShotNotFailed, SurvivorsWereMissed, Unraised, Unlisted, Move, Advance,
        Signal, workerVars, registryVars, mainVars, flagVars, closerVars, auxVars
<1>1. ASSUME NEW w \in Workers, MakeCheckout(w) PROVE IInv'
  BY <1>1 DEF MakeCheckout
<1>2. ASSUME NEW w \in Workers, RecordCheckout(w) PROVE IInv'
  BY <1>2 DEF RecordCheckout
<1>3. ASSUME NEW w \in Workers, GiveUp(w) PROVE IInv'
  BY <1>3 DEF GiveUp
<1>4. ASSUME NEW w \in Workers, SkipClone(w) PROVE IInv'
  BY <1>4 DEF SkipClone
<1>5. ASSUME NEW w \in Workers, CheckFlag(w) PROVE IInv'
  BY <1>5 DEF CheckFlag
<1>6. ASSUME NEW w \in Workers, StartClone(w) PROVE IInv'
  BY <1>6 DEF StartClone
<1>7. ASSUME NEW w \in Workers, StartFails(w) PROVE IInv'
  BY <1>7 DEF StartFails
<1>8. ASSUME NEW w \in Workers, RegisterClone(w) PROVE IInv'
  BY <1>8 DEF RegisterClone
<1>9. ASSUME NEW w \in Workers, SeeSuccess(w) PROVE IInv'
  BY <1>9 DEF SeeSuccess
<1>10. ASSUME NEW w \in Workers, SeeFailure(w) PROVE IInv'
  BY <1>10 DEF SeeFailure
<1>11. ASSUME NEW w \in Workers, StopClone(w) PROVE IInv'
  BY <1>11 DEF StopClone
<1>12. ASSUME NEW w \in Workers, Stopped(w) PROVE IInv'
  BY <1>12 DEF Stopped
<1>13. ASSUME NEW w \in Workers, DropClone(w) PROVE IInv'
  BY <1>13 DEF DropClone
<1>14. ASSUME NEW w \in Workers, WriteSnapshot(w) PROVE IInv'
  BY <1>14 DEF WriteSnapshot
<1>15. ASSUME NEW w \in Workers, FinishRepository(w) PROVE IInv'
  BY <1>15 DEF FinishRepository
<1>16. ASSUME NEW w \in Workers, RemoveCheckout(w) PROVE IInv'
  BY <1>16 DEF RemoveCheckout
<1>17. ASSUME NEW w \in Workers, ForgetCheckout(w) PROVE IInv'
  BY <1>17 DEF ForgetCheckout
<1>18. ASSUME NEW w \in Workers, CloneExits(w) PROVE IInv'
  BY <1>18 DEF CloneExits
<1>19. ASSUME NEW c \in Closers, RaiseFlag(c) PROVE IInv'
  BY <1>19 DEF RaiseFlag
<1>20. ASSUME NEW c \in Closers, ListClones(c) PROVE IInv'
  BY <1>20 DEF ListClones
<1>21. ASSUME NEW c \in Closers, ListCheckouts(c) PROVE IInv'
  BY <1>21 DEF ListCheckouts
<1>22. ASSUME NEW c \in Closers, SignalledAll(c) PROVE IInv'
  BY <1>22 DEF SignalledAll
<1>23. ASSUME NEW c \in Closers, Waited(c) PROVE IInv'
  BY <1>23 DEF Waited
<1>24. ASSUME NEW c \in Closers, StopWaiting(c) PROVE IInv'
  BY <1>24 DEF StopWaiting
<1>25. ASSUME NEW c \in Closers, Exit(c) PROVE IInv'
  BY <1>25 DEF Exit
<1>26. ASSUME NEW c \in Closers, Survive(c) PROVE IInv'
  BY <1>26 DEF Survive
<1>27. ASSUME NEW c \in Closers, NEW w \in Workers, SignalClone(c, w) PROVE IInv'
  BY <1>27 DEF SignalClone
<1>28. ASSUME NEW w \in Workers, DeleteCheckout(w) PROVE IInv'
  BY <1>28 DEF DeleteCheckout
<1>29. CASE Leave
  BY <1>29 DEF Leave
<1>30. ASSUME NEW c \in Closers, BeginClosing(c) PROVE IInv'
  BY <1>30 DEF BeginClosing
<1>31. ASSUME NEW c \in Closers, TakeFlagLock(c) PROVE IInv'
  BY <1>31 DEF TakeFlagLock
<1>32. ASSUME NEW c \in Closers, FreeFlagLock(c) PROVE IInv'
  BY <1>32 DEF FreeFlagLock
<1>33. CASE BeginClear
  BY <1>33 DEF BeginClear
<1>34. CASE EndClear
  BY <1>34 DEF EndClear
<1>35. CASE UNCHANGED vars
  BY <1>35 DEF vars
<1> QED
  BY <1>1, <1>2, <1>3, <1>4, <1>5, <1>6, <1>7, <1>8, <1>9, <1>10, <1>11, <1>12,
     <1>13, <1>14, <1>15, <1>16, <1>17, <1>18, <1>19, <1>20, <1>21, <1>22,
     <1>23, <1>24, <1>25, <1>26, <1>27, <1>28, <1>29, <1>30, <1>31, <1>32, <1>33, <1>34, <1>35
     DEF Next, WorkerNext, CloneCall, CloserNext

\* The invariant holds in every reachable state.
THEOREM Invariant == Spec => []IInv
BY InvariantInit, InvariantStep, PTL DEF Spec

----------------------------------------------------------------------------
\* Every reachable state is well typed, and a registry names only clones that are being
\* watched and checkouts in use.  (run_bounded_clone, _analyze_repository)
THEOREM TypeCorrect == Spec => []TypeOK
BY Invariant, PTL DEF IInv

\* A clone that survives the process was missed between the check of the flag and its
\* registration.  (run_bounded_clone, terminate_active_clones)
THEOREM SurvivorsAreMissed == Spec => []SurvivorsWereMissed
BY Invariant, PTL DEF IInv

\* A clone that a closer killed is not taken for one that failed by itself.
\* (run_bounded_clone)
THEOREM KilledIsNotRetried == Spec => []NotRetried
<1>1. IInv => NotRetried
  BY DEF IInv, ShotNotFailed, NotRetried
<1> QED
  BY <1>1, Invariant, PTL

\* No checkout is deleted under a git that nobody has signalled, but for a missed one.
\* (terminate_active_clones, _analyze_repository)
THEOREM NothingDeletedUnderGit == Spec => NoDeletionUnderGit
<1> DEFINE Safe == \A w \in onDisk \ onDisk' : clone[w] = "running" => w \in missed \/ erased
<1>1. IInv /\ [Next]_vars => [Safe]_vars
  <2> SUFFICES ASSUME IInv, Next PROVE Safe
    BY DEF vars
  <2>1. ASSUME NEW w \in Workers, RemoveCheckout(w) PROVE Safe
    BY <2>1 DEF RemoveCheckout, Move, IInv, RunsWatched
  <2>2. ASSUME NEW w \in Workers, DeleteCheckout(w) PROVE Safe
    BY <2>2 DEF DeleteCheckout, IInv, CondemnedCovered
  <2>3. CASE onDisk \subseteq onDisk'
    BY <2>3
  <2> QED
    BY <2>1, <2>2, <2>3
    DEF Next, WorkerNext, CloneCall, CloserNext, Leave, workerVars,
        MakeCheckout, RecordCheckout, GiveUp, SkipClone, CheckFlag, StartClone,
        StartFails, RegisterClone, SeeSuccess, SeeFailure, StopClone, Stopped,
        DropClone, WriteSnapshot, FinishRepository, ForgetCheckout, CloneExits,
        BeginClosing, TakeFlagLock, RaiseFlag, FreeFlagLock, ListClones, ListCheckouts,
        SignalledAll, Waited, StopWaiting, Exit, Survive, SignalClone, BeginClear, EndClear
<1> QED
  BY <1>1, Invariant, PTL DEF Spec, NoDeletionUnderGit

----------------------------------------------------------------------------
(* How long a call and a closer take *)

\* Clones that are listed can be counted.
LEMMA Sizes ==
    ASSUME NEW T \in SUBSET Workers
    PROVE  /\ Cardinality(T) \in Nat
           /\ Cardinality(T) <= Cardinality(Workers)
           /\ Cardinality(Workers) \in Nat
           /\ \A U \in SUBSET T : Cardinality(U) \in Nat /\ Cardinality(U) <= Cardinality(T)
           /\ \A w \in T : Cardinality(T \ {w}) = Cardinality(T) - 1
<1>1. IsFiniteSet(T) /\ Cardinality(T) <= Cardinality(Workers)
  BY FS_Subset, WorkersAssumption
<1>2. Cardinality(T) \in Nat /\ Cardinality(Workers) \in Nat
  BY <1>1, FS_CardinalityType, WorkersAssumption
<1>3. \A U \in SUBSET T : IsFiniteSet(U) /\ Cardinality(U) <= Cardinality(T)
  BY <1>1, FS_Subset
<1>4. \A U \in SUBSET T : Cardinality(U) \in Nat
  BY <1>3, FS_CardinalityType
<1>5. \A w \in T : Cardinality(T \ {w}) = Cardinality(T) - 1
  BY <1>1, FS_RemoveElement
<1> QED
  BY <1>1, <1>2, <1>3, <1>4, <1>5

\* A thread inside a call moves by the steps of the call alone.
LEMMA OnlyCallsMoveCalls ==
    ASSUME TypeOK, [Next]_vars, NEW w \in Workers, step[w] \in InCall
    PROVE  CloneCall(w) \/ step'[w] = step[w]
<1>1. ASSUME NEW v \in Workers, CloneCall(v) PROVE CloneCall(w) \/ step'[w] = step[w]
  <2>1. CASE v = w
    BY <1>1, <2>1
  <2>2. CASE v # w
    BY <1>1, <2>2 DEF CloneCall, StartClone, StartFails, RegisterClone, SeeSuccess, SeeFailure,
       StopClone, Stopped, DropClone, Move, TypeOK
  <2> QED
    BY <2>1, <2>2
<1>2. ASSUME NEW v \in Workers, WorkerNext(v) \/ CloneExits(v) \/ DeleteCheckout(v), ~CloneCall(v)
      PROVE  step'[w] = step[w]
  BY <1>2 DEF WorkerNext, MakeCheckout, RecordCheckout, GiveUp, SkipClone, CheckFlag,
     WriteSnapshot, FinishRepository, RemoveCheckout, ForgetCheckout, CloneExits,
     DeleteCheckout, Move, TypeOK, InCall
<1>3. ASSUME NEW c \in Closers, BeginClosing(c) \/ CloserNext(c) PROVE step'[w] = step[w]
  BY <1>3 DEF CloserNext, BeginClosing, TakeFlagLock, RaiseFlag, FreeFlagLock, ListClones,
     ListCheckouts, SignalClone, SignalledAll, Waited, StopWaiting, Exit, Survive, workerVars
<1>4. CASE BeginClear \/ EndClear \/ Leave \/ UNCHANGED vars
  BY <1>4 DEF BeginClear, EndClear, Leave, vars, workerVars
<1> QED
  BY <1>1, <1>2, <1>3, <1>4 DEF Next

\* A closer that has begun moves by its own steps alone, and its list only becomes shorter;
\* but a handler is also over when a later one is survived.
LEMMA OnlyClosersMoveClosers ==
    ASSUME TypeOK, [Next]_vars, NEW c \in Closers, closer[c] # "ready"
    PROVE  \/ CloserNext(c)
           \/ closer'[c] = closer[c] /\ targets'[c] \subseteq targets[c]
           \/ closer'[c] = "ready"
<1> USE DEF closerVars
<1>1. ASSUME NEW w \in Workers, WorkerNext(w) \/ CloneExits(w) \/ DeleteCheckout(w)
      PROVE  closer' = closer /\ targets'[c] \subseteq targets[c]
  BY <1>1 DEF WorkerNext, CloneCall, MakeCheckout, RecordCheckout, GiveUp, SkipClone, CheckFlag,
     StartClone, StartFails, RegisterClone, SeeSuccess, SeeFailure, StopClone, Stopped, DropClone,
     WriteSnapshot, FinishRepository, RemoveCheckout, ForgetCheckout, CloneExits, DeleteCheckout
<1>2. ASSUME NEW d \in Closers, d # c, BeginClosing(d) \/ CloserNext(d), ~Survive(d)
      PROVE  closer'[c] = closer[c] /\ targets'[c] = targets[c]
  BY <1>2 DEF CloserNext, BeginClosing, TakeFlagLock, RaiseFlag, FreeFlagLock, ListClones,
     ListCheckouts, SignalClone, SignalledAll, Waited, StopWaiting, Exit, Advance, TypeOK
<1>3. ASSUME NEW d \in Closers, Survive(d)
      PROVE  closer'[c] = "ready" \/ (closer'[c] = closer[c] /\ targets'[c] = targets[c])
  BY <1>3 DEF Survive, TypeOK
<1>4. ~BeginClosing(c)
  BY DEF BeginClosing
<1>5. CASE BeginClear \/ EndClear \/ Leave \/ UNCHANGED vars
  BY <1>5 DEF BeginClear, EndClear, Leave, vars
<1> QED
  BY <1>1, <1>2, <1>3, <1>4, <1>5 DEF Next

\* A step of a call brings its end closer.
LEMMA CallAdvances ==
    ASSUME TypeOK, NEW w \in Workers, CloneCall(w)
    PROVE  CallLeft(w)' < CallLeft(w)
BY DEF CloneCall, StartClone, StartFails, RegisterClone, SeeSuccess, SeeFailure, StopClone,
   Stopped, DropClone, Move, TypeOK, CallLeft

\* A step of a closer brings its end closer.
LEMMA CloserAdvances ==
    ASSUME TypeOK, TypeOK', NEW c \in Closers, CloserNext(c)
    PROVE  CloserLeft(c)' < CloserLeft(c)
<1>1. targets[c] \in SUBSET Workers /\ targets'[c] \in SUBSET Workers
  BY DEF TypeOK
<1>2. /\ Cardinality(targets[c]) \in Nat /\ Cardinality(targets'[c]) \in Nat
      /\ Cardinality(Workers) \in Nat
      /\ Cardinality(targets'[c]) <= Cardinality(Workers)
  BY <1>1, Sizes
<1>3. CloserLeft(c)' =
        CASE closer'[c] = "raising"    -> 9 + Cardinality(Workers)
          [] closer'[c] = "setting"    -> 8 + Cardinality(Workers)
          [] closer'[c] = "releasing"  -> 7 + Cardinality(Workers)
          [] closer'[c] = "listing"    -> 6 + Cardinality(Workers)
          [] closer'[c] = "recording"  -> 5 + Cardinality(targets'[c])
          [] closer'[c] = "signalling" -> 4 + Cardinality(targets'[c])
          [] closer'[c] = "waiting"    -> 3
          [] closer'[c] = "deleting"   -> 2
          [] closer'[c] = "ending"     -> 1
          [] closer'[c] = "ready"      -> 0
  BY DEF CloserLeft
<1> USE DEF Advance, TypeOK
<1>4. ASSUME ListClones(c) PROVE CloserLeft(c)' < CloserLeft(c)
  BY <1>2, <1>3, <1>4 DEF ListClones, CloserLeft
<1>5. ASSUME ListCheckouts(c) PROVE CloserLeft(c)' < CloserLeft(c)
  BY <1>2, <1>3, <1>5 DEF ListCheckouts, CloserLeft
<1>6. ASSUME NEW w \in Workers, SignalClone(c, w) PROVE CloserLeft(c)' < CloserLeft(c)
  <2>1. w \in targets[c] /\ targets'[c] = targets[c] \ {w}
    BY <1>6 DEF SignalClone
  <2>2. Cardinality(targets'[c]) = Cardinality(targets[c]) - 1
    BY <1>1, <2>1, Sizes
  <2> QED
    BY <1>2, <1>3, <1>6, <2>2 DEF SignalClone, CloserLeft
<1>7. ASSUME SignalledAll(c) PROVE CloserLeft(c)' < CloserLeft(c)
  BY <1>2, <1>3, <1>7 DEF SignalledAll, CloserLeft
<1>8. ASSUME Waited(c) \/ StopWaiting(c) \/ Exit(c)
      PROVE  CloserLeft(c)' < CloserLeft(c)
  BY <1>3, <1>8 DEF Waited, StopWaiting, Exit, CloserLeft
<1>9. ASSUME Survive(c) PROVE CloserLeft(c)' < CloserLeft(c)
  BY <1>3, <1>9, HandlersAssumption DEF Survive, CloserLeft
<1>10. ASSUME TakeFlagLock(c) \/ RaiseFlag(c) \/ FreeFlagLock(c)
       PROVE  CloserLeft(c)' < CloserLeft(c)
  BY <1>2, <1>3, <1>10 DEF TakeFlagLock, RaiseFlag, FreeFlagLock, CloserLeft
<1> QED
  BY <1>4, <1>5, <1>6, <1>7, <1>8, <1>9, <1>10 DEF CloserNext

\* What is left is a number within the bounds.
LEMMA Bounds == TypeOK => StepsBounded
<1> SUFFICES ASSUME TypeOK PROVE StepsBounded
  OBVIOUS
<1>1. ASSUME NEW w \in Workers PROVE CallLeft(w) \in 0 .. 5
  BY DEF CallLeft
<1>2. ASSUME NEW c \in Closers PROVE CloserLeft(c) \in 0 .. 9 + Cardinality(Workers)
  <2>1. /\ Cardinality(targets[c]) \in Nat /\ Cardinality(Workers) \in Nat
        /\ Cardinality(targets[c]) <= Cardinality(Workers)
    BY Sizes DEF TypeOK
  <2>2. closer[c] \in CloserSteps
    BY DEF TypeOK
  <2>3. \/ CloserLeft(c) \in {9 + Cardinality(Workers), 8 + Cardinality(Workers),
                              7 + Cardinality(Workers), 6 + Cardinality(Workers)}
        \/ CloserLeft(c) \in {5 + Cardinality(targets[c]), 4 + Cardinality(targets[c])}
        \/ CloserLeft(c) \in {0, 1, 2, 3}
    BY <2>2, Zenon DEF CloserLeft, CloserSteps
  <2> QED
    BY <2>1, <2>3
<1> QED
  BY <1>1, <1>2 DEF StepsBounded

\* Who holds the flag's lock goes on, unless a handler has come in between.
LEMMA LockGoesOn == TypeOK /\ LockHeld => HolderGoesOn
BY HandlersAssumption, NamesAssumption DEF TypeOK, LockHeld, HolderGoesOn, Trapped, Runs

\* No step frees a handler that waits for what it has interrupted.
LEMMA TrapStays ==
    ASSUME TypeOK, LockHeld, [Next]_vars, Trapped
    PROVE  /\ scanner' = "up" => Trapped'
           /\ \A c \in Closers : closer[c] = "raising" => closer'[c] = "raising"
<1> USE HandlersAssumption, NamesAssumption
    DEF TypeOK, LockHeld, Trapped, Advance, Runs, mainVars, flagVars, closerVars
<1> DEFINE Stays == /\ scanner' = "up" => Trapped'
                    /\ \A c \in Closers : closer[c] = "raising" => closer'[c] = "raising"
<1>1. CASE scanner = "gone"
  <2>1. closer' = closer /\ scanner' = scanner
    BY <1>1 DEF Next, vars, WorkerNext, CloneCall, MakeCheckout, RecordCheckout, GiveUp, SkipClone,
       CheckFlag, StartClone, StartFails, RegisterClone, SeeSuccess, SeeFailure, StopClone,
       Stopped, DropClone, WriteSnapshot, FinishRepository, RemoveCheckout, ForgetCheckout,
       CloneExits, DeleteCheckout, CloserNext, BeginClosing, TakeFlagLock, RaiseFlag,
       FreeFlagLock, ListClones, ListCheckouts, SignalClone, SignalledAll, Waited, StopWaiting,
       Exit, Survive, BeginClear, EndClear, Leave, Move
  <2> QED
    BY <1>1, <2>1
<1>2. CASE scanner = "up"
  <2>0. frame \in Handlers /\ closer[frame] = "raising" /\ flagLock # NoOne
    BY <1>2
  <2>1. ASSUME NEW w \in Workers, WorkerNext(w) \/ CloneExits(w) \/ DeleteCheckout(w)
        PROVE  UNCHANGED <<closer, flagLock, frame, scanner>>
    BY <2>1 DEF WorkerNext, CloneCall, MakeCheckout, RecordCheckout, GiveUp, SkipClone, CheckFlag,
       StartClone, StartFails, RegisterClone, SeeSuccess, SeeFailure, StopClone, Stopped,
       DropClone, WriteSnapshot, FinishRepository, RemoveCheckout, ForgetCheckout, CloneExits,
       DeleteCheckout
  <2>2. ASSUME NEW c \in Closers, BeginClosing(c) PROVE Stays
    BY <1>2, <2>0, <2>2 DEF BeginClosing
  <2>3. ASSUME NEW c \in Closers, TakeFlagLock(c) PROVE Stays
    BY <2>0, <2>3 DEF TakeFlagLock
  <2>4. ASSUME NEW c \in Closers, RaiseFlag(c) \/ FreeFlagLock(c) PROVE Stays
    BY <2>0, <2>4 DEF RaiseFlag, FreeFlagLock
  <2>5. ASSUME NEW c \in Closers,
               \/ ListClones(c) \/ ListCheckouts(c) \/ SignalledAll(c) \/ Waited(c)
               \/ StopWaiting(c) \/ Exit(c) \/ \E w \in Workers : SignalClone(c, w)
        PROVE  Stays
    BY <2>0, <2>5 DEF ListClones, ListCheckouts, SignalledAll, Waited, StopWaiting, Exit,
       SignalClone
  <2>6. ASSUME NEW c \in Closers PROVE ~Survive(c)
    BY <2>0 DEF Survive
  <2>7. ~BeginClear /\ ~EndClear /\ ~Leave
    BY <2>0 DEF BeginClear, EndClear, Leave
  <2>8. CASE UNCHANGED vars
    BY <2>8 DEF vars
  <2> QED
    BY <2>1, <2>2, <2>3, <2>4, <2>5, <2>6, <2>7, <2>8 DEF Next, CloserNext
<1> QED
  BY <1>1, <1>2

\* A call of run_bounded_clone is over after five steps of its thread and a closer after nine of
\* its own and one for each thread, whatever the others and git do meanwhile.
\* (run_bounded_clone, terminate_active_clones)
THEOREM CallsAndClosersAreBounded == Spec => []StepsBounded /\ StepsRunOut
<1> DEFINE RunOut ==
        /\ \A w \in Workers : /\ CloneCall(w) => CallLeft(w)' < CallLeft(w)
                              /\ step[w] \in InCall => CallLeft(w)' <= CallLeft(w)
        /\ \A c \in Closers : /\ CloserNext(c) => CloserLeft(c)' < CloserLeft(c)
                              /\ closer[c] # "ready" => CloserLeft(c)' <= CloserLeft(c)
<1>1. TypeOK /\ TypeOK' /\ [Next]_vars => [RunOut]_vars
  <2> SUFFICES ASSUME TypeOK, TypeOK', [Next]_vars PROVE RunOut
    OBVIOUS
  <2>0. StepsBounded /\ StepsBounded'
    <3>1. (TypeOK => StepsBounded)'
      BY Bounds, PTL
    <3> QED
      BY <3>1, Bounds
  <2>1. ASSUME NEW w \in Workers, step[w] \in InCall PROVE CallLeft(w)' <= CallLeft(w)
    <3>1. CASE CloneCall(w)
      BY <2>0, <3>1, CallAdvances DEF StepsBounded
    <3>2. CASE step'[w] = step[w]
      BY <3>2 DEF CallLeft
    <3> QED
      BY <2>1, <3>1, <3>2, OnlyCallsMoveCalls
  <2>2. ASSUME NEW c \in Closers, closer[c] # "ready" PROVE CloserLeft(c)' <= CloserLeft(c)
    <3>1. CASE CloserNext(c)
      <4>1. CloserLeft(c)' < CloserLeft(c)
        BY <3>1, CloserAdvances
      <4>2. Cardinality(Workers) \in Nat
        BY FS_CardinalityType, WorkersAssumption
      <4>3. CloserLeft(c) \in Nat /\ CloserLeft(c)' \in Nat
        BY <2>0, <4>2 DEF StepsBounded
      <4> QED
        BY <4>1, <4>3
    <3>2. CASE closer'[c] = closer[c] /\ targets'[c] \subseteq targets[c]
      <4>1. /\ Cardinality(targets[c]) \in Nat /\ Cardinality(targets'[c]) \in Nat
            /\ Cardinality(targets'[c]) <= Cardinality(targets[c])
            /\ Cardinality(Workers) \in Nat
        BY <3>2, Sizes DEF TypeOK
      <4> QED
        BY <3>2, <4>1 DEF CloserLeft, TypeOK, CloserSteps
    <3>3. CASE closer'[c] = "ready"
      <4>1. CloserLeft(c)' = 0
        BY <3>3 DEF CloserLeft
      <4>2. CloserLeft(c) \in Nat
        BY <2>0, FS_CardinalityType, WorkersAssumption DEF StepsBounded
      <4> QED
        BY <4>1, <4>2
    <3> QED
      BY <2>2, <3>1, <3>2, <3>3, OnlyClosersMoveClosers
  <2> QED
    BY <2>1, <2>2, CallAdvances, CloserAdvances
<1> QED
  BY <1>1, Bounds, TypeCorrect, PTL DEF Spec, StepsRunOut

\* The one wait of a closer that has no limit, for the lock of the flag, is for someone who goes
\* on, so long as no handler interrupted its holder; from then on it is for ever, for every
\* closer that has not yet raised the flag.
\* (terminate_active_clones, terminate_clones_on_signal, threading.Event)
THEOREM FlagLockWaits == Spec => []HolderGoesOn /\ TrapIsForGood
<1> DEFINE Stays == Trapped => /\ scanner' = "up" => Trapped'
                               /\ \A c \in Closers : closer[c] = "raising" => closer'[c] = "raising"
<1>1. IInv => HolderGoesOn
  BY LockGoesOn DEF IInv
<1>2. IInv /\ [Next]_vars => [Stays]_vars
  BY TrapStays DEF IInv
<1> QED
  BY <1>1, <1>2, Invariant, PTL DEF Spec, TrapIsForGood

=============================================================================
