\* Two operations at a time on two slots of which one may have an entry.
CONSTANTS
    p1 = p1
    p2 = p2
    slotA = slotA
    slotB = slotB
    i1 = i1
    i2 = i2
    i3 = i3
    NoFile = NoFile
    NoSlot = NoSlot
    Procs <- TwoProcs
    Slots <- TwoSlots
    Inodes <- ThreeInodes
    MaxEntries = 1
SPECIFICATION Spec
SYMMETRY Alike
INVARIANTS
    LockCoversEntry
    QuotaKept
    NobodyWaits
PROPERTIES
    SlotUndisturbed
    StepsRunOut
    ImplementsLockedSlots
