------------------------------ MODULE MCServer ------------------------------
(* A TLC instance of Server.  One peer runs a binary that may be listed, the *)
(* other is in a cgroup below one that may be listed, on its second line.    *)
EXTENDS Server, TLC

CONSTANTS p1, p2, b1, b2, f1, f2

MCPeers == {p1, p2}
MCBinaries == {b1}
MCPeerBinary == [p \in MCPeers |-> IF p = p1 THEN b1 ELSE b2]
MCPeerCgroups == [p \in MCPeers |-> IF p = p1 THEN <<<<>>>>
                                    ELSE <<<<"x">>, <<"a", "b">>>>]
MCPaths == {<<"a">>}
MCEventTypes == {"connect", "disconnect"}
MCFns == {f1, f2}
MCSymmetry == Permutations(MCFns)
=============================================================================
