\* Two scans, with the same or different settings, of two files that anyone may edit.
CONSTANTS
    s1 = s1
    s2 = s2
    f1 = f1
    f2 = f2
    optionsA = optionsA
    optionsB = optionsB
    Scans <- TwoScans
    Files <- TwoFiles
    Settings <- TwoSettings
    MaxEdits = 1
SPECIFICATION Spec
SYMMETRY Alike
INVARIANT EntryMatchesPrint
PROPERTY ImplementsAtomicScans
CHECK_DEADLOCK FALSE
