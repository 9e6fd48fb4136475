\* Three clients and two slots; two requests of two bytes fill the
\* buffer, one of five does not fit, and one states no length.
CONSTANTS
    k1 = k1
    k2 = k2
    k3 = k3
    Conns = {k1, k2, k3}
    NSlots = 2
    Buf = 4
    Header = 2
    Lengths <- MCLengths
    MaxReqs <- MCMaxReqs
    Batch = 2
    None = None
SPECIFICATION Spec
INVARIANTS Framed SlotsExact
 
\* The bridge ends.
CHECK_DEADLOCK FALSE
