\* Two surfaces that move between two outputs, one slot each.  One reservation
\* fills the registry.
CONSTANTS
    Surfaces = {s1, s2}
    Outputs = {o1, o2}
    Slots <- MCSlots
    Formats <- MCFormats
    Rotations <- MCBoolean
    Inhibits <- MCBoolean
    MaxResv = 1
    None = None
SYMMETRY MCSymmetry
SPECIFICATION Spec
INVARIANTS FrameSound InhibitExact
PROPERTIES BackendFailureRestores ReservationKept
