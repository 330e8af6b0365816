---------------------------- MODULE MCCacheReuse ----------------------------
(***************************************************************************)
(* Trees and settings for model-checking module CacheReuse.                *)
(***************************************************************************)
EXTENDS CacheReuse, TLC

CONSTANTS s1, s2, f1, f2, optionsA, optionsB

TwoScans == {s1, s2}
TwoFiles == {f1, f2}
OneFile == {f1}
OneSetting == {optionsA}
TwoSettings == {optionsA, optionsB}

\* Scans and files are only compared for equality.
Alike == Permutations(TwoScans) \cup Permutations(TwoFiles)

=============================================================================
