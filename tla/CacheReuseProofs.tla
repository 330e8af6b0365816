-------------------------- MODULE CacheReuseProofs --------------------------
(***************************************************************************)
(* Proofs about module CacheReuse, for any number of scans, files, edits   *)
(* and settings.                                                           *)
(***************************************************************************)
EXTENDS CacheReuse, FiniteSetTheorems, TLAPS

----------------------------------------------------------------------------
(* The inductive invariant: versions only grow, so two snapshots that agree *)
(* enclose everything read in between.                                      *)

Between(low, f, middle, high) == low[f] <= middle[f] /\ middle[f] <= high[f]

\* What a scan has read of a file so far.
PassOver(s, f) ==
    /\ first[s][f] <= asOf[s][f]
    /\ asOf[s][f] <= input[f]
    /\ phase[s] = "hashing" /\ f \notin todo[s] => seen[s][f] <= input[f]
    /\ phase[s] = "rehashing" /\ f \notin todo[s] => Between(asOf[s], f, seen[s], input)
    /\ \/ phase[s] = "collecting" /\ f \notin todo[s]
       \/ phase[s] \in {"judging", "verifying"}
       => Between(asOf[s], f, analysis[s].tree, input)
    /\ phase[s] = "verifying" /\ f \notin todo[s] =>
         Between(analysis[s].tree, f, seen[s], input)

PassInv == \A s \in Scans : \A f \in Files : PassOver(s, f)

\* What a scan holds in each phase.
Holding(s) ==
    /\ phase[s] = "hashing" => ~hashed[s]
    /\ phase[s] \in {"loading", "rehashing", "verifying", "saving", "saved"} => hashed[s]
    /\ phase[s] \in {"hashing", "loading", "collecting", "judging", "verifying"} =>
         analysis[s].setting = setting[s]
    /\ phase[s] = "rehashing" => analysis[s] = [setting |-> setting[s], tree |-> first[s]]
    /\ phase[s] \in {"saving", "saved"} =>
         /\ analysis[s] = [setting |-> setting[s], tree |-> asOf[s]]
         /\ first[s] = asOf[s]
    /\ result[s] = "none" <=> phase[s] # "done"

ScanInv == \A s \in Scans : Holding(s)

IInv == TypeOK /\ PassInv /\ ScanInv /\ EntryMatchesPrint /\ ResultIsOneTree

----------------------------------------------------------------------------
(* Proofs *)

\* Two trees are the same if every file has the same version in both.
LEMMA SameTree == ASSUME NEW t \in Trees, NEW u \in Trees, \A f \in Files : t[f] = u[f]
                  PROVE  t = u
BY DEF Trees

\* Versions are numbers, so that a version enclosed by two equal ones equals them.
LEMMA Enclosed == ASSUME NEW a \in Versions, NEW b \in Versions, NEW c \in Versions
                  PROVE  /\ a <= b /\ b <= a => a = b
                         /\ a <= b /\ b <= c => a <= c
BY EditsAssumption DEF Versions

LEMMA InvariantInit == Init => IInv
<1> SUFFICES ASSUME Init PROVE IInv
  OBVIOUS
<1>1. Blank \in Trees /\ 0 \in Versions /\ \A f \in Files : Blank[f] = 0
  BY EditsAssumption DEF Blank, Trees, Versions
<1>2. TypeOK
  BY <1>1 DEF Init, TypeOK, Phases, Analyses
<1>3. PassInv
  BY <1>1 DEF Init, PassInv, PassOver, Between
<1>4. ScanInv
  BY DEF Init, ScanInv, Holding
<1>5. EntryMatchesPrint /\ ResultIsOneTree
  BY DEF Init, EntryMatchesPrint, ResultIsOneTree
<1> QED
  BY <1>2, <1>3, <1>4, <1>5 DEF IInv

----------------------------------------------------------------------------
\* Every action keeps the types.
LEMMA TypeStep == TypeOK /\ [Next]_vars => TypeOK'
<1> SUFFICES ASSUME TypeOK, [Next]_vars PROVE TypeOK'
  OBVIOUS
<1>0. Blank \in Trees
  BY EditsAssumption DEF Blank, Trees, Versions
<1> USE <1>0 DEF TypeOK, Phases, Move, NewPass, Return, passVars, resultVars
<1>1. CASE UNCHANGED vars
  BY <1>1 DEF vars
<1>2. ASSUME NEW f \in Files, Edit(f) PROVE TypeOK'
  <2>1. input[f] + 1 \in Versions
    BY <1>2, EditsAssumption DEF Edit, Trees, Versions
  <2> QED
    BY <1>2, <2>1 DEF Edit, Trees
<1>3. CASE LoseEntry
  BY <1>3 DEF LoseEntry
<1>4. ASSUME NEW s \in Scans, ScanNext(s) PROVE TypeOK'
  <2>1. ASSUME NEW f \in Files, HashFile(s, f) PROVE TypeOK'
    <3>1. [seen[s] EXCEPT ![f] = input[f]] \in Trees
      BY DEF Trees
    <3> QED
      BY <2>1, <3>1 DEF HashFile
  <2>2. ASSUME NEW f \in Files, CollectFile(s, f) PROVE TypeOK'
    <3>1. analysis' \in [Scans -> Analyses]
      BY <2>2 DEF CollectFile, Analyses, Trees
    <3> QED
      BY <2>2, <3>1 DEF CollectFile
  <2>3. CASE Snapshot(s)
    BY <2>3 DEF Snapshot
  <2>4. CASE SnapshotFails(s)
    BY <2>4 DEF SnapshotFails
  <2>5. CASE LoadHit(s)
    BY <2>5 DEF LoadHit, Entries
  <2>6. CASE LoadMiss(s)
    BY <2>6 DEF LoadMiss
  <2>7. CASE Reuse(s)
    BY <2>7 DEF Reuse
  <2>8. CASE RefuseReuse(s)
    <3>1. [setting |-> setting[s], tree |-> Blank] \in Analyses
      BY DEF Analyses
    <3> QED
      BY <2>8, <3>1 DEF RefuseReuse
  <2>9. CASE Collected(s)
    BY <2>9 DEF Collected
  <2>10. CASE ReturnUnsaved(s)
    BY <2>10 DEF ReturnUnsaved
  <2>11. CASE Verify(s)
    BY <2>11 DEF Verify
  <2>12. CASE Verified(s)
    BY <2>12 DEF Verified
  <2>13. CASE InputChanged(s)
    BY <2>13 DEF InputChanged
  <2>14. CASE Save(s)
    <3>1. [setting |-> setting[s], print |-> first[s], analysis |-> analysis[s]] \in Entries
      BY DEF Entries
    <3> QED
      BY <2>14, <3>1 DEF Save
  <2>15. CASE ReturnCollected(s)
    BY <2>15 DEF ReturnCollected
  <2>16. CASE Abort(s)
    BY <2>16 DEF Abort
  <2> QED
    BY <1>4, <2>1, <2>2, <2>3, <2>4, <2>5, <2>6, <2>7, <2>8, <2>9, <2>10, <2>11, <2>12, <2>13,
       <2>14, <2>15, <2>16 DEF ScanNext
<1> QED
  BY <1>1, <1>2, <1>3, <1>4 DEF Next

----------------------------------------------------------------------------
\* Every version in a scan's hands is a number.
LEMMA Versioned ==
    ASSUME TypeOK, NEW s \in Scans, NEW f \in Files
    PROVE  /\ first[s][f] \in Nat /\ asOf[s][f] \in Nat /\ seen[s][f] \in Nat
           /\ analysis[s].tree[f] \in Nat /\ input[f] \in Nat
BY EditsAssumption DEF TypeOK, Trees, Versions, Analyses

\* A scan reads every file between the moments its passes began and now.
LEMMA PassStep == TypeOK /\ PassInv /\ [Next]_vars => PassInv'
<1> SUFFICES ASSUME TypeOK, PassInv, [Next]_vars, NEW s \in Scans, NEW g \in Files
             PROVE  PassOver(s, g)'
  BY DEF PassInv
<1>0. /\ PassOver(s, g) 
      /\ first[s][g] \in Nat /\ asOf[s][g] \in Nat /\ seen[s][g] \in Nat
      /\ analysis[s].tree[g] \in Nat /\ input[g] \in Nat
  BY Versioned DEF PassInv
<1> USE <1>0 DEF TypeOK, Phases, PassOver, Between, Move, NewPass, Return, passVars, resultVars
<1>1. CASE UNCHANGED vars
  BY <1>1 DEF vars
<1>2. ASSUME NEW f \in Files, Edit(f) PROVE PassOver(s, g)'
  <2>1. input'[g] \in Nat /\ input[g] <= input'[g]
    BY <1>2 DEF Edit, Trees
  <2> QED
    BY <1>2, <2>1 DEF Edit
<1>3. CASE LoseEntry
  BY <1>3 DEF LoseEntry
<1>4. ASSUME NEW r \in Scans, ScanNext(r) PROVE PassOver(s, g)'
  <2>1. ASSUME NEW f \in Files, HashFile(r, f) PROVE PassOver(s, g)'
    BY <2>1 DEF HashFile, Trees
  <2>2. ASSUME NEW f \in Files, CollectFile(r, f) PROVE PassOver(s, g)'
    BY <2>2 DEF CollectFile, Trees, Analyses
  <2>3. CASE Snapshot(r)
    BY <2>3 DEF Snapshot
  <2>4. CASE SnapshotFails(r)
    BY <2>4 DEF SnapshotFails
  <2>5. CASE LoadHit(r)
    BY <2>5 DEF LoadHit
  <2>6. CASE LoadMiss(r)
    BY <2>6 DEF LoadMiss
  <2>7. CASE Reuse(r)
    BY <2>7 DEF Reuse
  <2>8. CASE RefuseReuse(r)
    BY <2>8 DEF RefuseReuse
  <2>9. CASE Collected(r)
    BY <2>9 DEF Collected
  <2>10. CASE ReturnUnsaved(r)
    BY <2>10 DEF ReturnUnsaved
  <2>11. CASE Verify(r)
    BY <2>11 DEF Verify
  <2>12. CASE Verified(r)
    BY <2>12 DEF Verified
  <2>13. CASE InputChanged(r)
    BY <2>13 DEF InputChanged
  <2>14. CASE Save(r)
    BY <2>14 DEF Save
  <2>15. CASE ReturnCollected(r)
    BY <2>15 DEF ReturnCollected
  <2>16. CASE Abort(r)
    BY <2>16 DEF Abort
  <2> QED
    BY <1>4, <2>1, <2>2, <2>3, <2>4, <2>5, <2>6, <2>7, <2>8, <2>9, <2>10, <2>11, <2>12, <2>13,
       <2>14, <2>15, <2>16 DEF ScanNext
<1> QED
  BY <1>1, <1>2, <1>3, <1>4 DEF Next

----------------------------------------------------------------------------
\* Two snapshots that agree: nothing changed between the end of the first and the start of
\* the second, so the first is the tree as it was when it was finished ...
LEMMA ReuseIsCurrent ==
    ASSUME TypeOK, PassInv, NEW s \in Scans, phase[s] = "rehashing", todo[s] = {},
           seen[s] = first[s]
    PROVE  first[s] = asOf[s]
<1>1. first[s] \in Trees /\ asOf[s] \in Trees
  BY DEF TypeOK
<1>2. ASSUME NEW f \in Files PROVE first[s][f] = asOf[s][f]
  <2>1. first[s][f] <= asOf[s][f] /\ asOf[s][f] <= seen[s][f]
    BY DEF PassInv, PassOver, Between
  <2> QED
    BY <2>1, Versioned
<1> QED
  BY <1>1, <1>2, SameTree

\* ... and so is what the connector read in between.
LEMMA CollectionIsCurrent ==
    ASSUME TypeOK, PassInv, NEW s \in Scans, phase[s] = "verifying", todo[s] = {},
           seen[s] = first[s]
    PROVE  first[s] = asOf[s] /\ analysis[s].tree = asOf[s]
<1>1. first[s] \in Trees /\ asOf[s] \in Trees /\ analysis[s].tree \in Trees
  BY DEF TypeOK, Analyses
<1>2. ASSUME NEW f \in Files
      PROVE  first[s][f] = asOf[s][f] /\ analysis[s].tree[f] = asOf[s][f]
  <2>1. /\ first[s][f] <= asOf[s][f]
        /\ asOf[s][f] <= analysis[s].tree[f]
        /\ analysis[s].tree[f] <= seen[s][f]
    BY DEF PassInv, PassOver, Between
  <2> QED
    BY <2>1, Versioned
<1> QED
  BY <1>1, <1>2, SameTree

\* Every action keeps what a scan holds consistent.
LEMMA HoldingStep == TypeOK /\ PassInv /\ ScanInv /\ EntryMatchesPrint /\ [Next]_vars => ScanInv'
<1> SUFFICES ASSUME TypeOK, PassInv, ScanInv, EntryMatchesPrint, [Next]_vars, NEW s \in Scans
             PROVE  Holding(s)'
  BY DEF ScanInv
<1>0. Holding(s)
  BY DEF ScanInv
<1> USE <1>0 DEF TypeOK, Phases, Holding, Move, NewPass, Return, passVars, resultVars
<1>1. CASE UNCHANGED vars
  BY <1>1 DEF vars
<1>2. ASSUME NEW f \in Files, Edit(f) PROVE Holding(s)'
  BY <1>2 DEF Edit
<1>3. CASE LoseEntry
  BY <1>3 DEF LoseEntry
<1>4. ASSUME NEW r \in Scans, ScanNext(r) PROVE Holding(s)'
  <2>1. ASSUME NEW f \in Files, HashFile(r, f) PROVE Holding(s)'
    BY <2>1 DEF HashFile
  <2>2. ASSUME NEW f \in Files, CollectFile(r, f) PROVE Holding(s)'
    BY <2>2 DEF CollectFile, Analyses
  <2>3. CASE Snapshot(r)
    BY <2>3 DEF Snapshot
  <2>4. CASE SnapshotFails(r)
    BY <2>4 DEF SnapshotFails
  <2>5. CASE LoadHit(r)
    BY <2>5 DEF LoadHit, EntryMatchesPrint
  <2>6. CASE LoadMiss(r)
    BY <2>6 DEF LoadMiss
  <2>7. CASE Reuse(r)
    BY <2>7 DEF Reuse
  <2>8. CASE RefuseReuse(r)
    BY <2>8 DEF RefuseReuse
  <2>9. CASE Collected(r)
    BY <2>9 DEF Collected
  <2>10. CASE ReturnUnsaved(r)
    BY <2>10 DEF ReturnUnsaved
  <2>11. CASE Verify(r)
    BY <2>11 DEF Verify
  <2>12. CASE Verified(r)
    <3>1. ASSUME s = r PROVE Holding(s)'
      <4>1. analysis[s] = [setting |-> setting[s], tree |-> analysis[s].tree]
        BY <2>12, <3>1 DEF Verified, Analyses
      <4>2. first[s] = asOf[s] /\ analysis[s].tree = asOf[s]
        BY <2>12, <3>1, CollectionIsCurrent DEF Verified
      <4> QED
        BY <2>12, <3>1, <4>1, <4>2 DEF Verified
    <3> QED
      BY <2>12, <3>1 DEF Verified
  <2>13. CASE InputChanged(r)
    BY <2>13 DEF InputChanged
  <2>14. CASE Save(r)
    BY <2>14 DEF Save
  <2>15. CASE ReturnCollected(r)
    BY <2>15 DEF ReturnCollected
  <2>16. CASE Abort(r)
    BY <2>16 DEF Abort
  <2> QED
    BY <1>4, <2>1, <2>2, <2>3, <2>4, <2>5, <2>6, <2>7, <2>8, <2>9, <2>10, <2>11, <2>12, <2>13,
       <2>14, <2>15, <2>16 DEF ScanNext
<1> QED
  BY <1>1, <1>2, <1>3, <1>4 DEF Next

\* An entry is saved only by a scan that holds the analysis of its fingerprint.
LEMMA EntryStep == TypeOK /\ ScanInv /\ EntryMatchesPrint /\ [Next]_vars => EntryMatchesPrint'
<1> SUFFICES ASSUME TypeOK, ScanInv, EntryMatchesPrint, [Next]_vars PROVE EntryMatchesPrint'
  OBVIOUS
<1> USE DEF EntryMatchesPrint, passVars, resultVars
<1>1. CASE UNCHANGED vars
  BY <1>1 DEF vars
<1>2. ASSUME NEW f \in Files, Edit(f) PROVE EntryMatchesPrint'
  BY <1>2 DEF Edit
<1>3. CASE LoseEntry
  BY <1>3 DEF LoseEntry
<1>4. ASSUME NEW r \in Scans, ScanNext(r) PROVE EntryMatchesPrint'
  <2>1. ASSUME NEW f \in Files, HashFile(r, f) PROVE EntryMatchesPrint'
    BY <2>1 DEF HashFile
  <2>2. ASSUME NEW f \in Files, CollectFile(r, f) PROVE EntryMatchesPrint'
    BY <2>2 DEF CollectFile, Analyses
  <2>3. CASE Snapshot(r)
    BY <2>3 DEF Snapshot
  <2>4. CASE SnapshotFails(r)
    BY <2>4 DEF SnapshotFails
  <2>5. CASE LoadHit(r)
    BY <2>5 DEF LoadHit
  <2>6. CASE LoadMiss(r)
    BY <2>6 DEF LoadMiss
  <2>7. CASE Reuse(r)
    BY <2>7 DEF Reuse
  <2>8. CASE RefuseReuse(r)
    BY <2>8 DEF RefuseReuse
  <2>9. CASE Collected(r)
    BY <2>9 DEF Collected
  <2>10. CASE ReturnUnsaved(r)
    BY <2>10 DEF ReturnUnsaved
  <2>11. CASE Verify(r)
    BY <2>11 DEF Verify
  <2>12. CASE Verified(r)
    BY <2>12 DEF Verified
  <2>13. CASE InputChanged(r)
    BY <2>13 DEF InputChanged
  <2>14. CASE Save(r)
    <3>1. analysis[r] = [setting |-> setting[r], tree |-> first[r]]
      BY <2>14 DEF Save, Move, ScanInv, Holding
    <3> QED
      BY <2>14, <3>1 DEF Save
  <2>15. CASE ReturnCollected(r)
    BY <2>15 DEF ReturnCollected
  <2>16. CASE Abort(r)
    BY <2>16 DEF Abort
  <2> QED
    BY <1>4, <2>1, <2>2, <2>3, <2>4, <2>5, <2>6, <2>7, <2>8, <2>9, <2>10, <2>11, <2>12, <2>13,
       <2>14, <2>15, <2>16 DEF ScanNext
<1> QED
  BY <1>1, <1>2, <1>3, <1>4 DEF Next

\* A scan that returns a complete result holds the analysis of one tree.
LEMMA ResultStep == TypeOK /\ PassInv /\ ScanInv /\ ResultIsOneTree /\ [Next]_vars => ResultIsOneTree'
<1> SUFFICES ASSUME TypeOK, PassInv, ScanInv, ResultIsOneTree, [Next]_vars, NEW s \in Scans
             PROVE  (result[s] = "complete" /\ hashed[s] =>
                       analysis[s] = [setting |-> setting[s], tree |-> asOf[s]])'
  BY DEF ResultIsOneTree
<1> DEFINE OneTree == result[s] = "complete" /\ hashed[s] =>
                        analysis[s] = [setting |-> setting[s], tree |-> asOf[s]]
<1>0. OneTree /\ Holding(s)
  BY DEF ScanInv, ResultIsOneTree
<1> USE <1>0 DEF TypeOK, Phases, Holding, Move, NewPass, Return, passVars, resultVars
<1>1. CASE UNCHANGED vars
  BY <1>1 DEF vars
<1>2. ASSUME NEW f \in Files, Edit(f) PROVE OneTree'
  BY <1>2 DEF Edit
<1>3. CASE LoseEntry
  BY <1>3 DEF LoseEntry
<1>4. ASSUME NEW r \in Scans, ScanNext(r) PROVE OneTree'
  <2>1. ASSUME NEW f \in Files, HashFile(r, f) PROVE OneTree'
    BY <2>1 DEF HashFile
  <2>2. ASSUME NEW f \in Files, CollectFile(r, f) PROVE OneTree'
    BY <2>2 DEF CollectFile, Analyses
  <2>3. CASE Snapshot(r)
    BY <2>3 DEF Snapshot
  <2>4. CASE SnapshotFails(r)
    BY <2>4 DEF SnapshotFails
  <2>5. CASE LoadHit(r)
    BY <2>5 DEF LoadHit
  <2>6. CASE LoadMiss(r)
    BY <2>6 DEF LoadMiss
  <2>7. CASE Reuse(r)
    <3>1. s = r => first[s] = asOf[s]
      BY <2>7, ReuseIsCurrent DEF Reuse
    <3> QED
      BY <2>7, <3>1 DEF Reuse
  <2>8. CASE RefuseReuse(r)
    BY <2>8 DEF RefuseReuse
  <2>9. CASE Collected(r)
    BY <2>9 DEF Collected
  <2>10. CASE ReturnUnsaved(r)
    BY <2>10 DEF ReturnUnsaved
  <2>11. CASE Verify(r)
    BY <2>11 DEF Verify
  <2>12. CASE Verified(r)
    BY <2>12 DEF Verified
  <2>13. CASE InputChanged(r)
    BY <2>13 DEF InputChanged
  <2>14. CASE Save(r)
    BY <2>14 DEF Save
  <2>15. CASE ReturnCollected(r)
    BY <2>15 DEF ReturnCollected
  <2>16. CASE Abort(r)
    BY <2>16 DEF Abort
  <2> QED
    BY <1>4, <2>1, <2>2, <2>3, <2>4, <2>5, <2>6, <2>7, <2>8, <2>9, <2>10, <2>11, <2>12, <2>13,
       <2>14, <2>15, <2>16 DEF ScanNext
<1> QED
  BY <1>1, <1>2, <1>3, <1>4 DEF Next

LEMMA InvariantHolds == Spec => []IInv
<1>1. IInv /\ [Next]_vars => IInv'
  BY TypeStep, PassStep, HoldingStep, EntryStep, ResultStep DEF IInv
<1> QED
  BY InvariantInit, <1>1, PTL DEF Spec

----------------------------------------------------------------------------
\* Every reachable state is well typed: in particular the slot never holds two entries.
THEOREM TypeCorrect == Spec => []TypeOK
<1>1. IInv => TypeOK
  BY DEF IInv
<1> QED
  BY InvariantHolds, <1>1, PTL

\* A complete result, collected or reused, is the analysis of the input as it stood at one
\* instant of the scan (_ConnectorRunner._collect), however many scans, files and edits
\* there are.
THEOREM ResultsAreOfOneTree == Spec => []ResultIsOneTree
<1>1. IInv => ResultIsOneTree
  BY DEF IInv
<1> QED
  BY InvariantHolds, <1>1, PTL

\* A cache entry holds the analysis of what its fingerprint names (IncrementalCache.save).
THEOREM EntriesMatchPrints == Spec => []EntryMatchesPrint
<1>1. IInv => EntryMatchesPrint
  BY DEF IInv
<1> QED
  BY InvariantHolds, <1>1, PTL

----------------------------------------------------------------------------
(* Refinement of AtomicScans *)

LEMMA AtomicInit == Init => Atomic!Init
<1>1. Init => Blank \in Trees
  BY EditsAssumption DEF Blank, Trees, Versions
<1> QED
  BY <1>1 DEF Init, Atomic!Init

\* The look is the end of the first snapshot, and a complete result is its analysis.
LEMMA AtomicStep == IInv /\ IInv' /\ [Next]_vars => [Atomic!Next]_Atomic!vars
<1> SUFFICES ASSUME IInv, IInv', [Next]_vars PROVE [Atomic!Next]_Atomic!vars
  OBVIOUS
<1>0. TypeOK /\ TypeOK' /\ \A s \in Scans : Holding(s)
  BY DEF IInv, ScanInv
<1> DEFINE looks == [s \in Scans |-> IF hashed[s] THEN {asOf[s]} ELSE {}]
           answers == [s \in Scans |-> IF result[s] = "complete" THEN {analysis[s]} ELSE {}]
<1> USE <1>0 DEF TypeOK, Phases, Move, NewPass, passVars, resultVars
\* Steps in which a scan neither finishes its first snapshot nor returns.
<1>1. ASSUME input' = input, setting' = setting, hashed' = hashed, asOf' = asOf, result' = result,
             \A s \in Scans : result[s] = "complete" => analysis'[s] = analysis[s]
      PROVE  UNCHANGED Atomic!vars
  <2>1. looks' = looks /\ answers' = answers
    BY <1>1
  <2> QED
    BY <1>1, <2>1 DEF Atomic!vars
\* A scan returns.
<1>2. ASSUME NEW s \in Scans, NEW p \in Phases \ {"done"}, NEW r \in {"complete", "incomplete"},
             Return(s, p, r), UNCHANGED <<input, setting, hashed, analysis, asOf>>,
             result[s] = "none",
             r = "complete" => \E t \in Trees : /\ hashed[s] => t = asOf[s]
                                                /\ analysis[s] = [setting |-> setting[s], tree |-> t]
      PROVE  Atomic!Next
  <2>1. looks' = looks
    BY <1>2
  <2>2. result' = [result EXCEPT ![s] = r]
    BY <1>2 DEF Return
  <2>3. answers' = [answers EXCEPT ![s] = IF r = "complete" THEN {analysis[s]} ELSE {}]
    BY <1>2, <2>2
  <2>4. CASE r = "complete"
    <3>1. PICK t \in Trees : /\ hashed[s] => t = asOf[s]
                             /\ analysis[s] = [setting |-> setting[s], tree |-> t]
      BY <1>2, <2>4
    <3>2. looks[s] \subseteq {t}
      BY <3>1
    <3>3. Atomic!Complete(s)
      BY <1>2, <2>1, <2>2, <2>3, <2>4, <3>1, <3>2 DEF Atomic!Complete, Atomic!Return
    <3> QED
      BY <3>3 DEF Atomic!Next
  <2>5. CASE r = "incomplete"
    <3>1. Atomic!GiveUp(s)
      BY <1>2, <2>1, <2>2, <2>3, <2>5 DEF Atomic!GiveUp, Atomic!Return
    <3> QED
      BY <3>1 DEF Atomic!Next
  <2> QED
    BY <2>4, <2>5
<1>3. CASE UNCHANGED vars
  BY <1>1, <1>3 DEF vars
<1>4. ASSUME NEW f \in Files, Edit(f) PROVE Atomic!Next
  <2>1. input' \in Trees /\ looks' = looks /\ answers' = answers
    BY <1>4 DEF Edit
  <2>2. Atomic!Change
    BY <1>4, <2>1 DEF Edit, Atomic!Change
  <2> QED
    BY <2>2 DEF Atomic!Next
<1>5. CASE LoseEntry
  BY <1>1, <1>5 DEF LoseEntry
<1>6. ASSUME NEW s \in Scans, ScanNext(s) PROVE [Atomic!Next]_Atomic!vars
  <2>0. \A q \in Scans : result[q] = "none" <=> phase[q] # "done"
    BY <1>0 DEF Holding
  <2>1. ASSUME NEW f \in Files, HashFile(s, f) PROVE [Atomic!Next]_Atomic!vars
    BY <1>1, <2>1 DEF HashFile
  <2>2. ASSUME NEW f \in Files, CollectFile(s, f) PROVE [Atomic!Next]_Atomic!vars
    BY <1>1, <2>0, <2>2 DEF CollectFile
  <2>3. CASE Snapshot(s)
    <3>1. ~hashed[s] /\ result[s] = "none"
      BY <1>0, <2>0, <2>3 DEF Snapshot, Holding
    <3>2. looks[s] = {} /\ looks' = [looks EXCEPT ![s] = {input}] /\ answers' = answers
      BY <2>3, <3>1 DEF Snapshot
    <3>3. Atomic!Look(s)
      BY <2>3, <3>1, <3>2 DEF Snapshot, Atomic!Look
    <3> QED
      BY <3>3 DEF Atomic!Next
  <2>4. CASE SnapshotFails(s)
    <3>1. ~hashed[s]
      BY <1>0, <2>4 DEF SnapshotFails, Holding
    <3>2. looks' = looks
      <4>1. \A q \in Scans : hashed[q] => asOf'[q] = asOf[q]
        BY <2>4, <3>1 DEF SnapshotFails
      <4> QED
        BY <2>4, <4>1 DEF SnapshotFails
    <3>3. answers' = answers
      BY <2>4 DEF SnapshotFails
    <3> QED
      BY <2>4, <3>2, <3>3 DEF SnapshotFails, Atomic!vars
  <2>5. CASE LoadHit(s)
    BY <1>1, <2>0, <2>5 DEF LoadHit
  <2>6. CASE LoadMiss(s)
    BY <1>1, <2>6 DEF LoadMiss
  <2>7. CASE Reuse(s)
    <3>1. hashed[s] /\ analysis[s] = [setting |-> setting[s], tree |-> first[s]]
      BY <1>0, <2>7 DEF Reuse, Return, Holding
    <3>2. first[s] = asOf[s]
      BY <2>7, ReuseIsCurrent DEF Reuse, Return, IInv
    <3> QED
      BY <1>2, <2>0, <2>7, <3>1, <3>2 DEF Reuse, Return
  <2>8. CASE RefuseReuse(s)
    BY <1>1, <2>0, <2>8 DEF RefuseReuse
  <2>9. CASE Collected(s)
    BY <1>1, <2>9 DEF Collected
  <2>10. CASE ReturnUnsaved(s)
    <3>1. CASE Return(s, "judging", "incomplete")
      BY <1>2, <2>0, <2>10, <3>1 DEF ReturnUnsaved, Return
    <3>2. CASE ~hashed[s] /\ Return(s, "judging", "complete")
      <4>1. /\ analysis[s].tree \in Trees
            /\ analysis[s] = [setting |-> setting[s], tree |-> analysis[s].tree]
        BY <1>0, <3>2 DEF Return, Holding, Analyses
      <4> QED
        BY <1>2, <2>0, <2>10, <3>2, <4>1 DEF ReturnUnsaved, Return
    <3> QED
      BY <2>10, <3>1, <3>2 DEF ReturnUnsaved
  <2>11. CASE Verify(s)
    BY <1>1, <2>11 DEF Verify
  <2>12. CASE Verified(s)
    BY <1>1, <2>12 DEF Verified
  <2>13. CASE InputChanged(s)
    BY <1>2, <2>0, <2>13 DEF InputChanged, Return
  <2>14. CASE Save(s)
    BY <1>1, <2>14 DEF Save
  <2>15. CASE ReturnCollected(s)
    <3>1. PICK p \in {"saving", "saved"} : Return(s, p, "complete")
      BY <2>15 DEF ReturnCollected
    <3>2. asOf[s] \in Trees /\ analysis[s] = [setting |-> setting[s], tree |-> asOf[s]]
      BY <1>0, <3>1 DEF Return, Holding
    <3>3. result[s] = "none"
      BY <2>0, <3>1 DEF Return
    <3> QED
      BY <1>2, <2>15, <3>1, <3>2, <3>3 DEF ReturnCollected
  <2>16. CASE Abort(s)
    <3>1. PICK p \in Phases \ {"done"} : Return(s, p, "incomplete")
      BY <2>16 DEF Abort
    <3>2. result[s] = "none"
      BY <2>0, <3>1 DEF Return
    <3> QED
      BY <1>2, <2>16, <3>1, <3>2 DEF Abort
  <2> QED
    BY <1>6, <2>1, <2>2, <2>3, <2>4, <2>5, <2>6, <2>7, <2>8, <2>9, <2>10, <2>11, <2>12, <2>13,
       <2>14, <2>15, <2>16 DEF ScanNext
<1> QED
  BY <1>3, <1>4, <1>5, <1>6 DEF Next

\* Cached scans of any number of files, edited at any time, answer as if each had looked at the
\* whole input once and at one instant, by itself and without a cache
\* (_ConnectorRunner._collect, IncrementalCache.load and save).
THEOREM ScansAreAtomic == Spec => ImplementsAtomicScans
<1>1. IInv /\ IInv' /\ [Next]_vars => [Atomic!Next]_Atomic!vars
  BY AtomicStep
<1> QED
  BY AtomicInit, InvariantHolds, <1>1, PTL DEF Spec, ImplementsAtomicScans, Atomic!Spec

----------------------------------------------------------------------------
(* How long a scan takes *)

NFiles == Cardinality(Files)
Unread(s) == Cardinality(todo[s])

\* The most steps that a scan still takes: those between its passes, and one for each file that
\* a pass has yet to read.
ScanLeft(s) ==
    CASE phase[s] = "hashing"    -> 8 + 3 * NFiles + Unread(s)
      [] phase[s] = "loading"    -> 7 + 3 * NFiles
      [] phase[s] = "rehashing"  -> 6 + 2 * NFiles + Unread(s)
      [] phase[s] = "collecting" -> 5 + NFiles + Unread(s)
      [] phase[s] = "judging"    -> 4 + NFiles
      [] phase[s] = "verifying"  -> 3 + Unread(s)
      [] phase[s] = "saving"     -> 2
      [] phase[s] = "saved"      -> 1
      [] phase[s] = "done"       -> 0

\* A tree that changes all the time, or an entry that is lost or replaced by other scans, never
\* makes a scan start over: it reads the tree at most four times, and each of its steps brings
\* it closer to its end.  (_collect refuses a result instead of reading once more)
ScansRunOut ==
    [][\A s \in Scans : /\ ScanNext(s) => ScanLeft(s)' < ScanLeft(s)
                        /\ ScanLeft(s)' <= ScanLeft(s)]_vars

LEMMA Counts ==
    /\ NFiles \in Nat
    /\ TypeOK => \A s \in Scans : /\ Unread(s) \in 0 .. NFiles
                                  /\ todo[s] = Files => Unread(s) = NFiles
                                  /\ \A f \in todo[s] : Cardinality(todo[s] \ {f}) = Unread(s) - 1
<1>1. IsFiniteSet(Files) /\ NFiles \in Nat
  BY FilesAssumption, FS_CardinalityType DEF NFiles
<1>2. ASSUME TypeOK, NEW s \in Scans
      PROVE  /\ Unread(s) \in 0 .. NFiles
             /\ todo[s] = Files => Unread(s) = NFiles
             /\ \A f \in todo[s] : Cardinality(todo[s] \ {f}) = Unread(s) - 1
  <2>1. todo[s] \subseteq Files
    BY <1>2 DEF TypeOK
  <2>2. IsFiniteSet(todo[s]) /\ Unread(s) \in Nat /\ Unread(s) <= NFiles
    BY <1>1, <2>1, FS_Subset, FS_CardinalityType DEF Unread, NFiles
  <2>3. \A f \in todo[s] : Cardinality(todo[s] \ {f}) = Unread(s) - 1
    BY <2>2, FS_RemoveElement DEF Unread
  <2> QED
    BY <1>1, <2>2, <2>3 DEF Unread, NFiles
<1> QED
  BY <1>1, <1>2

LEMMA ScanLeftType == TypeOK => \A s \in Scans : ScanLeft(s) \in 0 .. 8 + 4 * NFiles
<1> SUFFICES ASSUME TypeOK, NEW s \in Scans PROVE ScanLeft(s) \in 0 .. 8 + 4 * NFiles
  OBVIOUS
<1>1. NFiles \in Nat /\ Unread(s) \in Nat /\ Unread(s) <= NFiles
  BY Counts
<1>2. phase[s] \in Phases
  BY DEF TypeOK
<1>3. ScanLeft(s) \in Nat
  BY <1>1, <1>2 DEF Phases, ScanLeft
<1>4. ScanLeft(s) <= 8 + 4 * NFiles
  BY <1>1, <1>2 DEF Phases, ScanLeft
<1> QED
  BY <1>1, <1>3, <1>4

LEMMA ScanLeftTypeNext == TypeOK' => \A s \in Scans : ScanLeft(s)' \in Nat
<1>1. (TypeOK => \A s \in Scans : ScanLeft(s) \in 0 .. 8 + 4 * NFiles)'
  BY ScanLeftType, PTL
<1>2. NFiles \in Nat
  BY Counts
<1> QED
  BY <1>1, <1>2

\* Every step of a scan leads to a later one, or reads a file.
LEMMA ScanAdvances ==
    ASSUME TypeOK, TypeOK', NEW s \in Scans, ScanNext(s)
    PROVE  /\ ScanLeft(s)' < ScanLeft(s)
           /\ \A r \in Scans \ {s} : phase'[r] = phase[r] /\ todo'[r] = todo[r]
<1>1. /\ NFiles \in Nat /\ Unread(s) \in 0 .. NFiles /\ Unread(s)' \in 0 .. NFiles
      /\ todo'[s] = Files => Unread(s)' = NFiles
      /\ \A f \in todo[s] : todo'[s] = todo[s] \ {f} => Unread(s)' = Unread(s) - 1
  <2>1. NFiles \in Nat /\ Unread(s) \in 0 .. NFiles
    BY Counts
  <2>2. \A f \in todo[s] : todo'[s] = todo[s] \ {f} => Unread(s)' = Unread(s) - 1
    BY Counts DEF Unread
  <2>3. todo'[s] \subseteq Files
    BY DEF TypeOK
  <2>4. Unread(s)' \in 0 .. NFiles
    BY <2>1, <2>3, FilesAssumption, FS_Subset, FS_CardinalityType DEF Unread, NFiles
  <2>5. todo'[s] = Files => Unread(s)' = NFiles
    BY DEF Unread, NFiles
  <2> QED
    BY <2>1, <2>2, <2>4, <2>5
<1>2. phase[s] \in Phases /\ phase'[s] \in Phases
  BY DEF TypeOK
<1> USE <1>1, <1>2 DEF TypeOK, Phases, Move, NewPass, Return, passVars, resultVars, ScanLeft
<1>3. ASSUME NEW f \in Files, HashFile(s, f)
      PROVE  /\ ScanLeft(s)' < ScanLeft(s)
             /\ \A r \in Scans \ {s} : phase'[r] = phase[r] /\ todo'[r] = todo[r]
  BY <1>3 DEF HashFile
<1>4. ASSUME NEW f \in Files, CollectFile(s, f)
      PROVE  /\ ScanLeft(s)' < ScanLeft(s)
             /\ \A r \in Scans \ {s} : phase'[r] = phase[r] /\ todo'[r] = todo[r]
  BY <1>4 DEF CollectFile
<1>5. CASE Snapshot(s)
  BY <1>5 DEF Snapshot
<1>6. CASE SnapshotFails(s)
  BY <1>6 DEF SnapshotFails
<1>7. CASE LoadHit(s)
  BY <1>7 DEF LoadHit
<1>8. CASE LoadMiss(s)
  BY <1>8 DEF LoadMiss
<1>9. CASE Reuse(s)
  BY <1>9 DEF Reuse
<1>10. CASE RefuseReuse(s)
  BY <1>10 DEF RefuseReuse
<1>11. CASE Collected(s)
  BY <1>11 DEF Collected
<1>12. CASE ReturnUnsaved(s)
  BY <1>12 DEF ReturnUnsaved
<1>13. CASE Verify(s)
  BY <1>13 DEF Verify
<1>14. CASE Verified(s)
  BY <1>14 DEF Verified
<1>15. CASE InputChanged(s)
  BY <1>15 DEF InputChanged
<1>16. CASE Save(s)
  BY <1>16 DEF Save
<1>17. CASE ReturnCollected(s)
  BY <1>17 DEF ReturnCollected
<1>18. CASE Abort(s)
  BY <1>18 DEF Abort
<1> QED
  BY <1>3, <1>4, <1>5, <1>6, <1>7, <1>8, <1>9, <1>10, <1>11, <1>12, <1>13, <1>14, <1>15, <1>16,
     <1>17, <1>18 DEF ScanNext

LEMMA ScanRunsOut ==
    ASSUME IInv, IInv', [Next]_vars, NEW s \in Scans
    PROVE  /\ ScanNext(s) => ScanLeft(s)' < ScanLeft(s)
           /\ ScanLeft(s)' <= ScanLeft(s)
<1>0. TypeOK /\ TypeOK'
  BY DEF IInv
<1>1. NFiles \in Nat /\ ScanLeft(s) \in Nat
  BY <1>0, Counts, ScanLeftType
<1>2. ASSUME UNCHANGED <<phase[s], todo[s]>> PROVE ScanLeft(s)' = ScanLeft(s)
  BY <1>2 DEF ScanLeft, Unread
<1>3. ASSUME NEW r \in Scans, ScanNext(r), r # s PROVE UNCHANGED <<phase[s], todo[s]>>
  BY <1>0, <1>3, ScanAdvances
<1>4. ASSUME \A r \in Scans : ~ScanNext(r) PROVE UNCHANGED <<phase[s], todo[s]>>
  BY <1>4 DEF Next, vars, Edit, LoseEntry, passVars
<1>5. ScanNext(s) => ScanLeft(s)' < ScanLeft(s) /\ ScanLeft(s)' \in Nat
  <2>1. ScanLeft(s)' \in Nat
    BY <1>0, ScanLeftTypeNext
  <2> QED
    BY <1>0, <2>1, ScanAdvances
<1> QED
  BY <1>1, <1>2, <1>3, <1>4, <1>5

\* A scan is over after 8 + 4n steps of its own for n files, however often they are edited.
\* (_ConnectorRunner._collect)
THEOREM ScansAreBounded ==
    Spec => [](\A s \in Scans : ScanLeft(s) \in 0 .. 8 + 4 * NFiles) /\ ScansRunOut
<1>1. IInv => \A s \in Scans : ScanLeft(s) \in 0 .. 8 + 4 * NFiles
  BY ScanLeftType DEF IInv
<1>2. IInv /\ IInv' /\ [Next]_vars =>
        [\A s \in Scans : /\ ScanNext(s) => ScanLeft(s)' < ScanLeft(s)
                          /\ ScanLeft(s)' <= ScanLeft(s)]_vars
  BY ScanRunsOut
<1> QED
  BY InvariantHolds, <1>1, <1>2, PTL DEF Spec, ScansRunOut

=============================================================================
