-------------------------- MODULE MCCacheDirectory --------------------------
(***************************************************************************)
(* Processes, slots and inode numbers for model-checking module            *)
(* CacheDirectory.                                                         *)
(***************************************************************************)
EXTENDS CacheDirectory, TLC

CONSTANTS p1, p2, slotA, slotB, i1, i2, i3

TwoProcs == {p1, p2}
TwoSlots == {slotA, slotB}
ThreeInodes == {i1, i2, i3}

\* Processes, slots and inode numbers are only compared for equality.
Alike == Permutations(Procs) \cup Permutations(Slots) \cup Permutations(Inodes)

=============================================================================
