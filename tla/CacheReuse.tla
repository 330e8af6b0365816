----------------------------- MODULE CacheReuse -----------------------------
(***************************************************************************)
(* When a scan may reuse the result of an earlier one                      *)
(* (_ConnectorRunner._collect in shadowscan/engine.py, snapshot, load and  *)
(* save in shadowscan/incremental.py).  Several scans share one cache slot *)
(* and read the same input tree file by file, in any order, while someone  *)
(* edits it.                                                               *)
(*                                                                         *)
(* A file's version stands for its content together with the change time   *)
(* and inode the fingerprint covers, so every edit makes a new version,    *)
(* also one that restores the old content; a missing file is a version     *)
(* like any other.  A setting stands for everything else a fingerprint     *)
(* covers: options, signatures, scanner code and identity key.  The slot   *)
(* of an entry depends on neither.                                         *)
(*                                                                         *)
(* Locks, eviction and corruption can each cost an entry or a lookup; here *)
(* that may happen at any time.  Module CacheDirectory models them.        *)
(***************************************************************************)
EXTENDS Naturals, FiniteSets

CONSTANTS
    Scans,      \* scans of the same input, side by side or one after the other
    Files,      \* the files of the input tree
    Settings,   \* what else the fingerprint covers
    MaxEdits    \* bound: no file is edited more often

ASSUME EditsAssumption == MaxEdits \in Nat
ASSUME FilesAssumption == IsFiniteSet(Files)

Versions == 0 .. MaxEdits
Trees == [Files -> Versions]
Blank == [f \in Files |-> 0]

Phases == {"hashing",       \* reading the files for the first snapshot
           "loading",       \* looking for a cache entry
           "rehashing",     \* reading them again before a cached result counts
           "collecting",    \* the connector reads them
           "judging",       \* connector.run() returned
           "verifying",     \* reading them again before the result is saved
           "saving",        \* the result is complete and may be saved
           "saved",
           "done"}

\* The analysis of a tree under a setting: the result a scan returns or stores.
Analyses == [setting : Settings, tree : Trees]

VARIABLES
    input,      \* the tree as it is now
    entries,    \* the slot's cache entry: at most one
    phase,
    setting,
    todo,       \* files the current pass has not read yet
    seen,       \* versions the current pass read
    first,      \* the first snapshot
    hashed,     \* there is a first snapshot: hashing did not fail
    analysis,   \* what the scan's result is the analysis of
    result,     \* "none", "complete" or "incomplete"
    asOf        \* auxiliary: the tree when the first snapshot was finished

passVars == <<todo, seen>>
resultVars == <<analysis, result>>
vars == <<input, entries, phase, setting, passVars, first, hashed, resultVars, asOf>>

Entries == [setting : Settings, print : Trees, analysis : Analyses]

TypeOK ==
    /\ input \in Trees
    /\ entries \in SUBSET Entries
    /\ \A e, g \in entries : e = g
    /\ phase \in [Scans -> Phases]
    /\ setting \in [Scans -> Settings]
    /\ todo \in [Scans -> SUBSET Files]
    /\ seen \in [Scans -> Trees]
    /\ first \in [Scans -> Trees]
    /\ hashed \in [Scans -> BOOLEAN]
    /\ analysis \in [Scans -> Analyses]
    /\ result \in [Scans -> {"none", "complete", "incomplete"}]
    /\ asOf \in [Scans -> Trees]

Init ==
    /\ input = Blank
    /\ entries = {}
    /\ phase = [s \in Scans |-> "hashing"]
    /\ setting \in [Scans -> Settings]
    /\ todo = [s \in Scans |-> Files]
    /\ seen = [s \in Scans |-> Blank]
    /\ first = [s \in Scans |-> Blank]
    /\ hashed = [s \in Scans |-> FALSE]
    /\ analysis = [s \in Scans |-> [setting |-> setting[s], tree |-> Blank]]
    /\ result = [s \in Scans |-> "none"]
    /\ asOf = [s \in Scans |-> Blank]

----------------------------------------------------------------------------
\* Someone edits, adds, removes or restores a file.
Edit(f) ==
    /\ input[f] < MaxEdits
    /\ input' = [input EXCEPT ![f] = @ + 1]
    /\ UNCHANGED <<entries, phase, setting, passVars, first, hashed, resultVars, asOf>>

\* The entry is evicted, or damaged and from then on refused.
LoseEntry ==
    /\ entries # {}
    /\ entries' = {}
    /\ UNCHANGED <<input, phase, setting, passVars, first, hashed, resultVars, asOf>>

Move(s, from, to) ==
    /\ phase[s] = from
    /\ phase' = [phase EXCEPT ![s] = to]

\* The next pass over the tree begins.
NewPass(s) ==
    /\ todo' = [todo EXCEPT ![s] = Files]
    /\ seen' = [seen EXCEPT ![s] = Blank]

Return(s, from, r) ==
    /\ Move(s, from, "done")
    /\ result' = [result EXCEPT ![s] = r]

\* _file_digest reads one file and takes its metadata; a file that changes while it is
\* read makes the snapshot fail.
HashFile(s, f) ==
    /\ phase[s] \in {"hashing", "rehashing", "verifying"}
    /\ f \in todo[s]
    /\ todo' = [todo EXCEPT ![s] = @ \ {f}]
    /\ seen' = [seen EXCEPT ![s][f] = input[f]]
    /\ UNCHANGED <<input, entries, phase, setting, first, hashed, resultVars, asOf>>

\* The connector reads one file.
CollectFile(s, f) ==
    /\ phase[s] = "collecting"
    /\ f \in todo[s]
    /\ todo' = [todo EXCEPT ![s] = @ \ {f}]
    /\ analysis' = [analysis EXCEPT ![s].tree[f] = input[f]]
    /\ UNCHANGED <<input, entries, phase, setting, seen, first, hashed, result, asOf>>

----------------------------------------------------------------------------
(* The first snapshot and the cache lookup *)

Snapshot(s) ==
    /\ Move(s, "hashing", "loading")
    /\ todo[s] = {}
    /\ first' = [first EXCEPT ![s] = seen[s]]
    /\ hashed' = [hashed EXCEPT ![s] = TRUE]
    /\ asOf' = [asOf EXCEPT ![s] = input]
    /\ UNCHANGED <<input, entries, setting, passVars, resultVars>>

\* Over a limit, changed while hashing, unreadable: the scan runs without the cache.
SnapshotFails(s) ==
    /\ Move(s, "hashing", "collecting")
    /\ NewPass(s)
    /\ asOf' = [asOf EXCEPT ![s] = input]
    /\ UNCHANGED <<input, entries, setting, first, hashed, resultVars>>

\* (Faulty variant: the fingerprint covers the input only.)
LoadAnySetting(s) ==
    /\ Move(s, "loading", "rehashing")
    /\ \E e \in entries : /\ e.print = first[s]
                          /\ analysis' = [analysis EXCEPT ![s] = e.analysis]
    /\ NewPass(s)
    /\ UNCHANGED <<input, entries, setting, first, hashed, result, asOf>>

LoadHit(s) ==
    /\ Move(s, "loading", "rehashing")
    /\ \E e \in entries : /\ e.setting = setting[s] /\ e.print = first[s]
                          /\ analysis' = [analysis EXCEPT ![s] = e.analysis]
    /\ NewPass(s)
    /\ UNCHANGED <<input, entries, setting, first, hashed, result, asOf>>

\* No entry, another fingerprint, a busy lock, or an entry that is refused.
LoadMiss(s) ==
    /\ Move(s, "loading", "collecting")
    /\ NewPass(s)
    /\ UNCHANGED <<input, entries, setting, first, hashed, resultVars, asOf>>

Reuse(s) ==
    /\ Return(s, "rehashing", "complete")
    /\ todo[s] = {}
    /\ seen[s] = first[s]
    /\ UNCHANGED <<input, entries, setting, passVars, first, hashed, analysis, asOf>>

\* The second snapshot differs or fails: the cached findings are dropped, and the scan
\* collects, still holding its first snapshot.
RefuseReuse(s) ==
    /\ Move(s, "rehashing", "collecting")
    /\ todo[s] = {} => seen[s] # first[s]
    /\ analysis' = [analysis EXCEPT ![s] = [setting |-> setting[s], tree |-> Blank]]
    /\ NewPass(s)
    /\ UNCHANGED <<input, entries, setting, first, hashed, result, asOf>>

----------------------------------------------------------------------------
(* Collection and the cache entry *)

Collected(s) ==
    /\ Move(s, "collecting", "judging")
    /\ todo[s] = {}
    /\ UNCHANGED <<input, entries, setting, passVars, first, hashed, resultVars, asOf>>

\* An incomplete result is never compared and never saved; without a snapshot there is
\* nothing to compare a complete one with.
ReturnUnsaved(s) ==
    /\ \/ Return(s, "judging", "incomplete")
       \/ ~hashed[s] /\ Return(s, "judging", "complete")
    /\ UNCHANGED <<input, entries, setting, passVars, first, hashed, analysis, asOf>>

Verify(s) ==
    /\ hashed[s]
    /\ Move(s, "judging", "verifying")
    /\ NewPass(s)
    /\ UNCHANGED <<input, entries, setting, first, hashed, resultVars, asOf>>

\* (Faulty variant: the input is not looked at again after collection.)
VerifyNothing(s) ==
    /\ Move(s, "verifying", "saving")
    /\ UNCHANGED <<input, entries, setting, passVars, first, hashed, resultVars, asOf>>

Verified(s) ==
    /\ Move(s, "verifying", "saving")
    /\ todo[s] = {}
    /\ seen[s] = first[s]
    /\ UNCHANGED <<input, entries, setting, passVars, first, hashed, resultVars, asOf>>

\* "static input changed during the scan; rerun required"
InputChanged(s) ==
    /\ Return(s, "verifying", "incomplete")
    /\ todo[s] = {} => seen[s] # first[s]
    /\ UNCHANGED <<input, entries, setting, passVars, first, hashed, analysis, asOf>>

\* (Faulty variant: the entry is saved under what the tree looks like now.)
SaveUnderCurrent(s) ==
    /\ Move(s, "saving", "saved")
    /\ entries' = {[setting |-> setting[s], print |-> input, analysis |-> analysis[s]]}
    /\ UNCHANGED <<input, setting, passVars, first, hashed, resultVars, asOf>>

Save(s) ==
    /\ Move(s, "saving", "saved")
    /\ entries' = {[setting |-> setting[s], print |-> first[s], analysis |-> analysis[s]]}
    /\ UNCHANGED <<input, setting, passVars, first, hashed, resultVars, asOf>>

\* Saved; or not saved: the slot is locked, the entry too large or not allowed.
ReturnCollected(s) ==
    /\ \/ Return(s, "saving", "complete")
       \/ Return(s, "saved", "complete")
    /\ UNCHANGED <<input, entries, setting, passVars, first, hashed, analysis, asOf>>

\* A deadline, a cancellation or an exception anywhere: what is there is returned as
\* incomplete.
Abort(s) ==
    /\ \E p \in Phases \ {"done"} : Return(s, p, "incomplete")
    /\ UNCHANGED <<input, entries, setting, passVars, first, hashed, analysis, asOf>>

----------------------------------------------------------------------------
ScanNext(s) ==
    \/ \E f \in Files : HashFile(s, f) \/ CollectFile(s, f)
    \/ Snapshot(s) \/ SnapshotFails(s)
    \/ LoadHit(s) \/ LoadMiss(s) \/ Reuse(s) \/ RefuseReuse(s)
    \/ Collected(s) \/ ReturnUnsaved(s) \/ Verify(s) \/ Verified(s) \/ InputChanged(s)
    \/ Save(s) \/ ReturnCollected(s)
    \/ Abort(s)

Next ==
    \/ \E f \in Files : Edit(f)
    \/ LoseEntry
    \/ \E s \in Scans : ScanNext(s)

Spec == Init /\ [][Next]_vars

----------------------------------------------------------------------------
(* Properties *)

\* A complete result of a scan that took a snapshot is the analysis, under the scan's own
\* setting, of the tree exactly as it stood at one instant of the scan, whether it was
\* collected or came from the cache: no mixture of two trees and nothing outdated.
\* (the second snapshot in _collect, before a cached result counts and before a save)
ResultIsOneTree ==
    \A s \in Scans : result[s] = "complete" /\ hashed[s] =>
        analysis[s] = [setting |-> setting[s], tree |-> asOf[s]]

\* A cache entry holds the analysis of the very input and setting its fingerprint names.
\* (snapshot and save, docs/scanning.md "Incremental scans")
EntryMatchesPrint ==
    \A e \in entries : e.analysis = [setting |-> e.setting, tree |-> e.print]

----------------------------------------------------------------------------
(* Refinement *)

Atomic == INSTANCE AtomicScans WITH
    look <- [s \in Scans |-> IF hashed[s] THEN {asOf[s]} ELSE {}],
    answer <- [s \in Scans |-> IF result[s] = "complete" THEN {analysis[s]} ELSE {}]

\* Neither the cache nor the time that reading takes can be told from the results of scans that
\* took a snapshot: each looks at the input once, as a whole, and what it returns as complete is
\* the analysis of that.  (the snapshots before, between and after in _collect)
ImplementsAtomicScans == Atomic!Spec

=============================================================================
