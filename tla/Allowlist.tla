----------------------------- MODULE Allowlist ------------------------------
(***************************************************************************)
(* The client allowlist (src/isz_allowlist.c): the stored entries and the  *)
(* check of a peer.  A binary is its (st_dev, st_ino); a cgroup path is    *)
(* the sequence of its components, <<>> for "/".  What /proc says of a     *)
(* peer is a binary and the paths of its cgroup lines, in file order.      *)
(***************************************************************************)
EXTENDS Naturals, Sequences

CONSTANTS Peers,
          PeerBinary,   \* the binary each peer runs
          PeerCgroups   \* the cgroup lines of each peer

VARIABLES binaries,     \* srv->allowlist_binaries
          cgroups       \* srv->allowlist_cgroups, in the order they were added

listVars == <<binaries, cgroups>>

AllowInit == /\ binaries = {}
             /\ cgroups = <<>>

\* isz_allowlist_add_binary, isz_allowlist_add_cgroup.
AddBinary(b) == /\ binaries' = binaries \cup {b}
                /\ UNCHANGED cgroups

AddCgroup(c) == /\ cgroups' = Append(cgroups, c)
                /\ UNCHANGED binaries

\* The path is the entry or lies below it.
Below(path, entry) ==
    /\ Len(entry) <= Len(path)
    /\ \A i \in 1 .. Len(entry) : path[i] = entry[i]

\* strncmp and the boundary check: the character after the stored path must
\* be '/' or the end.  After the one character of "/" it never is '/'.
Within(path, entry) == IF entry = <<>> THEN path = <<>> ELSE Below(path, entry)

\* peer_pid_matches_cgroup.  The first scan overwrites the newlines of the
\* buffer with NULs, so every later entry is compared with line 1 only.
MatchesCgroup(p) ==
    \E i \in 1 .. Len(cgroups), j \in 1 .. Len(PeerCgroups[p]) :
        /\ i > 1 => j = 1
        /\ Within(PeerCgroups[p][j], cgroups[i])

\* isz_allowlist_check; with both lists empty it denies.
Allowed(p) == PeerBinary[p] \in binaries \/ MatchesCgroup(p)
-----------------------------------------------------------------------------
\* The rule the API documents (doc/api.md, Client allowlist): the peer's
\* binary is listed, or one of its cgroups is, or lies below, one listed.
Entitled(p) == \/ PeerBinary[p] \in binaries
               \/ \E i \in 1 .. Len(cgroups), j \in 1 .. Len(PeerCgroups[p]) :
                      Below(PeerCgroups[p][j], cgroups[i])
=============================================================================
