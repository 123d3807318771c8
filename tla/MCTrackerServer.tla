--------------------------- MODULE MCTrackerServer ---------------------------
(* Instances of TrackerServer for TLC. *)
EXTENDS TrackerServer, TLC

CONSTANTS n1, n2, f1, ip1, c1, c2, c3

MCOwner == f1 :> n1

(* The commands of each instance: all of them on the file of n1; those that *)
(* search and read, with blacklisters to prune; and a few to wait for.      *)
QueryCommands ==
  {JoinNetwork(n1, ip1), FindClosestNode, GetRecord(n1), Blacklist(n2, n1)}
MCAllCommands ==
  QueryCommands \cup {JoinNetwork(n2, ip1), Backup(n2, f1, 1), UpdateSize(f1, 0),
                      UpdateSize(f1, 2), Remove(n2, f1)}
LiveCommands == {JoinNetwork(n1, ip1), GetRecord(n1)}

MCSymmetry == Permutations(Conns)
=============================================================================
