\* One client with the root and one more window; each table holds one entry.
CONSTANTS
    x1 = x1
    a1 = a1
    t1 = t1
    t2 = t2
    s0 = s0
    s1 = s1
    Clients = {1}
    Xids = {x1}
    Root = Root
    Names = {x1}
    MaxWin = 2
    Malformed = {"list", "memory"}
    Masks = {"property"}
    Geoms = {0}
    ZMax = 0
    SeqWrap = 1
    Observe = {"error"}
    MaxId = 0
    WireBound = 0
    None = None
    Atoms = {a1}
    Types = {t1, t2}
    Units = {1}
    Times = {0, 1, 2}
    Predefined = {s0}
    Strings = {s0, s1}
    Long = 2
    MaxProp = 3
    MaxProps = 1
    MaxSels = 1
    MaxRes = 1
    ResBound = 2
SPECIFICATION Spec
INVARIANTS SelectionTold  
 
VIEW MCView
