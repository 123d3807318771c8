--------------------------- MODULE MetadataRecord ---------------------------
(***************************************************************************)
(* The class metadata::MetadataRecord of src/metadata/MetadataRecord.cpp:  *)
(* what the tracker knows of one node.  Operators, no state.               *)
(*                                                                         *)
(* A std::map is a function whose domain is the set of its keys.  A        *)
(* std::list<FileMetadata> is a function from slots to entries: the code   *)
(* appends, removes by value and updates every entry, and nothing reads    *)
(* the order of the list.  Two equal entries occupy two slots.  The        *)
(* timestamps of files are never read and are left out.                    *)
(***************************************************************************)
EXTENDS Naturals, FiniteSets

CONSTANTS NoNode  (* the empty string in the place of a node ID *)

(* std::map: insert or overwrite, erase, lookup with a default.             *)
Put(map, key, value) ==
  [k \in DOMAIN map \cup {key} |-> IF k = key THEN value ELSE map[k]]
Erase(map, key) == [k \in DOMAIN map \ {key} |-> map[k]]
ValueOr(map, key, default) == IF key \in DOMAIN map THEN map[key] ELSE default

(* std::list: the empty list and push_back into an unused slot.             *)
EmptyMap == [k \in {} |-> 0]
FreeSlot(list) == CHOOSE s \in 1..(Cardinality(DOMAIN list) + 1) : s \notin DOMAIN list
PushBack(list, entry) == Put(list, FreeSlot(list), entry)

FileMetadata(nodeID, size) == [nodeID |-> nodeID, size |-> size]

MetadataRecord(ip) ==
  [nodeIP |-> ip, blacklisters |-> EmptyMap,
   backedUpFiles |-> EmptyMap, storedFiles |-> EmptyMap]

-----------------------------------------------------------------------------
(* unordered_map::insert leaves an entry that is already there alone.       *)
AddBlacklister(rec, peerID, timestamp) ==
  IF peerID \in DOMAIN rec.blacklisters
  THEN rec
  ELSE [rec EXCEPT !.blacklisters = Put(@, peerID, timestamp)]
AddBlacklisterResult(rec, peerID) == peerID \notin DOMAIN rec.blacklisters

(* Both branches of addBackupFile append; operator[] makes the list.        *)
AddBackupFile(rec, fileID, nodeID, size) ==
  [rec EXCEPT !.backedUpFiles =
     Put(@, fileID, PushBack(ValueOr(@, fileID, EmptyMap), FileMetadata(nodeID, size)))]

(* Size 0 erases the file; another size is given to every entry of the      *)
(* list, which operator[] makes if it is not there.                         *)
UpdateBackupFileSize(rec, fileID, size) ==
  [rec EXCEPT !.backedUpFiles =
     IF size = 0
     THEN Erase(@, fileID)
     ELSE LET list == ValueOr(@, fileID, EmptyMap)
          IN  Put(@, fileID, [s \in DOMAIN list |-> [list[s] EXCEPT !.size = size]])]
UpdateBackupFileSizeResult(rec, fileID, size) ==
  size = 0 => fileID \in DOMAIN rec.backedUpFiles

(* The slots of the list of fileID that name nodeID.                        *)
SlotsOn(rec, fileID, nodeID) ==
  {s \in DOMAIN rec.backedUpFiles[fileID] :
     rec.backedUpFiles[fileID][s].nodeID = nodeID}

(* list::remove_if removes every entry of nodeID; the key stays.            *)
RemoveBackup(rec, fileID, nodeID) ==
  IF fileID \in DOMAIN rec.backedUpFiles
  THEN [rec EXCEPT !.backedUpFiles[fileID] =
          [s \in DOMAIN @ \ SlotsOn(rec, fileID, nodeID) |-> @[s]]]
  ELSE rec
RemoveBackupResult(rec, fileID, nodeID) ==
  /\ fileID \in DOMAIN rec.backedUpFiles
  /\ Cardinality(SlotsOn(rec, fileID, nodeID)) = 1

(* The first peer to store a fileID here keeps it.                          *)
AddStoreFile(rec, fileID, peerID, size) ==
  IF fileID \in DOMAIN rec.storedFiles
  THEN rec
  ELSE [rec EXCEPT !.storedFiles = Put(@, fileID, FileMetadata(peerID, size))]
AddStoreFileResult(rec, fileID) == fileID \notin DOMAIN rec.storedFiles

(* Size 0 erases the file; another size is written into an entry that       *)
(* operator[] makes, with an empty node ID, if it is not there.             *)
UpdateStoreFileSize(rec, fileID, size) ==
  [rec EXCEPT !.storedFiles =
     IF size = 0
     THEN Erase(@, fileID)
     ELSE Put(@, fileID, FileMetadata(ValueOr(@, fileID, FileMetadata(NoNode, 0)).nodeID, size))]
UpdateStoreFileSizeResult(rec, fileID, size) ==
  size = 0 => fileID \in DOMAIN rec.storedFiles

(* backupNodeIteratorBegin and End reach the list through operator[].       *)
TouchBackup(rec, fileID) ==
  [rec EXCEPT !.backedUpFiles = Put(@, fileID, ValueOr(@, fileID, EmptyMap))]
BackupNodes(rec, fileID) ==
  LET list == ValueOr(rec.backedUpFiles, fileID, EmptyMap)
  IN  {list[s].nodeID : s \in DOMAIN list}

GetStoredFileIDs(rec) == DOMAIN rec.storedFiles
=============================================================================
