\* Two merges of the same scans.
SPECIFICATION Spec
CONSTANTS
    s1 = s1  s2 = s2  s3 = s3
    a1 = a1  a2 = a2
    c1 = c1  c2 = c2
    None = None
    Scans <- MCScans
    Observations <- MCObservations
    Agents <- MCAgents
    Cards <- MCCards
    Identities <- MCIdentities
    MaxMerges = 1
SYMMETRY Sym
INVARIANT OrderIndependent
CHECK_DEADLOCK FALSE
