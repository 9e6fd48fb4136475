\* Two clients with a root and one window each share the connection to the
\* server; two surfaces can be created.
CONSTANTS
    x1 = x1
    Clients = {1, 2}
    Xids = {x1}
    Root = Root
    Names = {x1}
    MaxWin = 2
    Malformed = {}
    Masks = {}
    Geoms = {0, 1}
    ZMax = 0
    SeqWrap = 1
    Observe = {}
    MaxId = 2
    WireBound = 2
    None = None
SPECIFICATION Spec
 
PROPERTIES NoSurfaceLost 
\* The bridge exits once its connection to the server is broken.
CHECK_DEADLOCK FALSE
VIEW MCView
