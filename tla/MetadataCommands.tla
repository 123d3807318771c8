-------------------------- MODULE MetadataCommands --------------------------
(***************************************************************************)
(* The commands that peers send to the tracker, src/tracker/client and     *)
(* src/tracker/TrackerProtocol.h.  A request is the JSON object of one     *)
(* call: the command and its arguments.                                    *)
(***************************************************************************)
EXTENDS TrackerDatabase

CONSTANTS Conns,     (* connections that may be open at the same time *)
          Commands,  (* the commands that peers issue                 *)
          NoCommand, NoReply

(* The commands of TrackerInterface.  A peer acts on its own files, so the  *)
(* peerID of a command is the owner of its file.                            *)
JoinNetwork(nodeID, ip) == [op |-> "join", nodeID |-> nodeID, ip |-> ip]
FindClosestNode == [op |-> "find"]
GetRecord(nodeID) == [op |-> "get", nodeID |-> nodeID]
Blacklist(peerID, nodeID) == [op |-> "blacklist", peerID |-> peerID, nodeID |-> nodeID]
Backup(nodeID, fileID, size) ==
  [op |-> "backup", nodeID |-> nodeID, fileID |-> fileID, size |-> size]
UpdateSize(fileID, size) == [op |-> "update", fileID |-> fileID, size |-> size]
Remove(nodeID, fileID) == [op |-> "remove", nodeID |-> nodeID, fileID |-> fileID]

AllCommands ==
  {JoinNetwork(n, ip) : n \in NodeIDs, ip \in IPs} \cup {FindClosestNode}
  \cup {GetRecord(n) : n \in AllIDs}
  \cup {Blacklist(b, n) : b \in Blacklisters, n \in AllIDs}
  \cup {Backup(n, f, s) : n \in AllIDs, f \in Files, s \in Sizes}
  \cup {UpdateSize(f, s) : f \in Files, s \in UpdateSizes}
  \cup {Remove(n, f) : n \in AllIDs, f \in Files}

ASSUME CommandsAssumption ==
  Commands \subseteq AllCommands /\ NoCommand \notin AllCommands
=============================================================================
