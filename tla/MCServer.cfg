\* Two peers and three listener nodes, so that batches, handshakes and event
\* walks of two connections interleave.
CONSTANTS
    p1 = p1
    p2 = p2
    b1 = b1
    b2 = b2
    f1 = f1
    f2 = f2
    Peers <- MCPeers
    PeerBinary <- MCPeerBinary
    PeerCgroups <- MCPeerCgroups
    Binaries <- MCBinaries
    Paths <- MCPaths
    Nodes = {n1, n2, n3}
    Fns <- MCFns
    EventTypes <- MCEventTypes
    Nil = Nil
    MaxEntries = 1
    MaxSubs = 3
    MaxBatch = 2
SPECIFICATION Spec
INVARIANTS ConnectionsExact NoStaleTag EventsBalanced GateKept
 
SYMMETRY MCSymmetry
CHECK_DEADLOCK FALSE
