--------------------------- MODULE TrackerDatabase ---------------------------
(***************************************************************************)
(* The tracker's in-memory database, src/tracker/server/TrackerDatabase.   *)
(* Every operation holds accessMutex_ from its first to its last line, so  *)
(* an operation is one step.  (handleGet serializes a record outside the   *)
(* mutex: module TrackerServer.)                                           *)
(*                                                                         *)
(* The operators whose names start with Db are the operations as functions *)
(* from records_ to records_; the actions below and module TrackerServer   *)
(* are built from them.                                                    *)
(***************************************************************************)
EXTENDS MetadataRecord

CONSTANTS
  NodeIDs,       (* IDs of the nodes that run a peer                         *)
  IPs,           (* addresses a node may join from                           *)
  Files,         (* file IDs: random secrets, so each belongs to one node    *)
  Owner,         (* Owner[f] is the node f belongs to                        *)
  Sizes,         (* sizes of files when they are backed up                   *)
  UpdateSizes,   (* sizes given to updateFileSize; 0 stands for a deletion   *)
  Blacklisters,  (* nodes that blacklist others                              *)
  PruneAge,      (* PRUNE_AGE                                                *)
  MaxTime,       (* bound on the clock                                       *)
  MaxEntries,    (* bound on the length of a list of backups                 *)
  MaxJoins       (* bound on how often one node joins                        *)

(* A node ID as the tracker may see it: NoNode is the empty string.         *)
AllIDs == NodeIDs \cup {NoNode}

ASSUME DatabaseAssumption ==
  /\ NoNode \notin NodeIDs
  /\ Owner \in [Files -> NodeIDs]
  /\ Sizes \subseteq Nat \ {0}
  /\ UpdateSizes \subseteq Nat
  /\ Blacklisters \subseteq NodeIDs
  /\ PruneAge \in Nat /\ MaxTime \in Nat /\ MaxEntries \in Nat /\ MaxJoins \in Nat

VARIABLES
  records,    (* records_: from the node IDs known to their records          *)
  sortedIDs,  (* sortedIDs_: a sorted vector, so how often each ID is in it  *)
  now,        (* std::time                                                   *)
  up          (* FALSE while the tracker process is dead                     *)

vars == <<records, sortedIDs, now, up>>

-----------------------------------------------------------------------------
(* Mutant: a node that joins again gets a fresh record.                     *)
DbJoinOverwriting(recs, nodeID, ip) == Put(recs, nodeID, MetadataRecord(ip))

(* join: unordered_map::insert leaves a record that is there alone.         *)
DbJoin(recs, nodeID, ip) ==
  IF nodeID \in DOMAIN recs THEN recs ELSE Put(recs, nodeID, MetadataRecord(ip))

DbBlacklistNode(recs, nodeID, blacklisterID, time) ==
  IF nodeID \in DOMAIN recs
  THEN [recs EXCEPT ![nodeID] = AddBlacklister(@, blacklisterID, time)]
  ELSE recs
DbBlacklistNodeResult(recs, nodeID, blacklisterID) ==
  nodeID \in DOMAIN recs /\ AddBlacklisterResult(recs[nodeID], blacklisterID)

(* Mutant: only the node that stores the file is checked and updated last,  *)
(* the owner's list is written in any case.                                 *)
DbBackupFileUnchecked(recs, peerID, nodeID, fileID, size) ==
  IF peerID \in DOMAIN recs
  THEN LET owned == [recs EXCEPT ![peerID] = AddBackupFile(@, fileID, nodeID, size)]
       IN  IF nodeID \in DOMAIN recs
           THEN [owned EXCEPT ![nodeID] = AddStoreFile(@, fileID, peerID, size)]
           ELSE owned
  ELSE recs

(* backupFile: the owner's list first, then the node that stores the file.  *)
DbBackupFile(recs, peerID, nodeID, fileID, size) ==
  IF peerID \in DOMAIN recs /\ nodeID \in DOMAIN recs
  THEN LET owned == [recs EXCEPT ![peerID] = AddBackupFile(@, fileID, nodeID, size)]
       IN  [owned EXCEPT ![nodeID] = AddStoreFile(@, fileID, peerID, size)]
  ELSE recs
DbBackupFileResult(recs, peerID, nodeID, fileID) ==
  /\ peerID \in DOMAIN recs /\ nodeID \in DOMAIN recs
  /\ AddStoreFileResult(recs[nodeID], fileID)

(* Mutant: the nodes that store the file are not told.                      *)
DbUpdateFileSizeOwnerOnly(recs, peerID, fileID, size) ==
  IF peerID \in DOMAIN recs
  THEN [recs EXCEPT ![peerID] = TouchBackup(UpdateBackupFileSize(@, fileID, size), fileID)]
  ELSE recs

(* updateFileSize: the owner's list first; then every node that list names  *)
(* after the update, where operator[] makes a record for an unknown node.   *)
DbUpdateFileSize(recs, peerID, fileID, size) ==
  IF peerID \in DOMAIN recs
  THEN LET base == [recs EXCEPT ![peerID] =
                      TouchBackup(UpdateBackupFileSize(@, fileID, size), fileID)]
           nodes == BackupNodes(base[peerID], fileID)
       IN  [n \in DOMAIN base \cup nodes |->
              LET rec == ValueOr(base, n, MetadataRecord(NoNode))
              IN  IF n \in nodes THEN UpdateStoreFileSize(rec, fileID, size) ELSE rec]
  ELSE recs
DbUpdateFileSizeResult(recs, peerID, fileID, size) ==
  /\ peerID \in DOMAIN recs
  /\ UpdateBackupFileSizeResult(recs[peerID], fileID, size)

(* Mutant: the owner's list is not told that the node lost the file.        *)
DbRemoveBackupHalf(recs, peerID, nodeID, fileID) ==
  IF peerID \in DOMAIN recs /\ nodeID \in DOMAIN recs
  THEN [recs EXCEPT ![nodeID] = UpdateStoreFileSize(@, fileID, 0)]
  ELSE recs

(* removeBackup: the owner's list, then the node that stores the file.      *)
DbRemoveBackup(recs, peerID, nodeID, fileID) ==
  IF peerID \in DOMAIN recs /\ nodeID \in DOMAIN recs
  THEN LET released == [recs EXCEPT ![peerID] = RemoveBackup(@, fileID, nodeID)]
       IN  [released EXCEPT ![nodeID] = UpdateStoreFileSize(@, fileID, 0)]
  ELSE recs
DbRemoveBackupResult(recs, peerID, nodeID, fileID) ==
  /\ peerID \in DOMAIN recs /\ nodeID \in DOMAIN recs
  /\ RemoveBackupResult(recs[peerID], fileID, nodeID)
  /\ UpdateStoreFileSizeResult(recs[nodeID], fileID, 0)

-----------------------------------------------------------------------------
NoRecords == EmptyMap
NoIDs == [n \in AllIDs |-> 0]

Init ==
  /\ records = NoRecords
  /\ sortedIDs = NoIDs
  /\ now = 0
  /\ up = TRUE

(* Mutant: the index is left alone.                                         *)
JoinUnindexed(n, ip) ==
  /\ up
  /\ sortedIDs[n] < MaxJoins
  /\ records' = DbJoin(records, n, ip)
  /\ UNCHANGED <<sortedIDs, now, up>>

(* A peer joins each time it starts, so one ID may join again.              *)
Join(n, ip) ==
  /\ up
  /\ sortedIDs[n] < MaxJoins
  /\ records' = DbJoin(records, n, ip)
  /\ sortedIDs' = [sortedIDs EXCEPT ![n] = @ + 1]
  /\ UNCHANGED <<now, up>>

(* findClosest answers any entry of sortedIDs_ and changes nothing; with no *)
(* entry the remainder of a division by zero kills the process.             *)
FindClosest ==
  /\ up
  /\ \A n \in AllIDs : sortedIDs[n] = 0
  /\ up' = FALSE
  /\ UNCHANGED <<records, sortedIDs, now>>

BlacklistNode(n, b) ==
  /\ up
  /\ records' = DbBlacklistNode(records, n, b, now)
  /\ UNCHANGED <<sortedIDs, now, up>>

(* A node backs up its own file f on node n.                                *)
BackupFile(f, n, size) ==
  /\ up
  /\ Owner[f] \in DOMAIN records =>
       Cardinality(DOMAIN ValueOr(records[Owner[f]].backedUpFiles, f, EmptyMap)) < MaxEntries
  /\ records' = DbBackupFile(records, Owner[f], n, f, size)
  /\ UNCHANGED <<sortedIDs, now, up>>

UpdateFileSize(f, size) ==
  /\ up
  /\ records' = DbUpdateFileSize(records, Owner[f], f, size)
  /\ UNCHANGED <<sortedIDs, now, up>>

RemoveBackupOf(f, n) ==
  /\ up
  /\ records' = DbRemoveBackup(records, Owner[f], n, f)
  /\ UNCHANGED <<sortedIDs, now, up>>

-----------------------------------------------------------------------------
(* Mutant: entries are pruned one time unit too early.                      *)
ExpiredEarly(rec, time) ==
  {b \in DOMAIN rec.blacklisters : time - rec.blacklisters[b] >= PruneAge}

(* The blacklisters that serialize prunes ...                               *)
Expired(rec, time) ==
  {b \in DOMAIN rec.blacklisters : time - rec.blacklisters[b] > PruneAge}

(* Mutant: what is pruned is reported once more.                            *)
FreshAll(rec, time) == DOMAIN rec.blacklisters

(* ... and those it reports.                                                *)
Fresh(rec, time) == DOMAIN rec.blacklisters \ Expired(rec, time)

(* serialize erases entries while a range-for walks over the map, which is  *)
(* undefined.  After an erasure the loop may go on, or stop with part of    *)
(* the entries visited, or the process may crash.  visited is the part of   *)
(* the map the loop gets to.                                                *)
WalkOutcome(rec, time, visited) ==
  /\ visited \subseteq DOMAIN rec.blacklisters
  /\ visited = DOMAIN rec.blacklisters \/ visited \cap Expired(rec, time) # {}
Pruned(rec, time, visited) ==
  [rec EXCEPT !.blacklisters =
     [b \in DOMAIN @ \ (visited \cap Expired(rec, time)) |-> @[b]]]

(* handleGet: getRecord and serialize.  An unknown node is an error.        *)
Get(n) ==
  /\ up
  /\ n \in DOMAIN records
  /\ \E visited \in SUBSET Blacklisters :
       /\ WalkOutcome(records[n], now, visited)
       /\ records' = [records EXCEPT ![n] = Pruned(@, now, visited)]
  /\ UNCHANGED <<sortedIDs, now, up>>

CrashInGet(n) ==
  /\ up
  /\ n \in DOMAIN records
  /\ Expired(records[n], now) # {}
  /\ up' = FALSE
  /\ UNCHANGED <<records, sortedIDs, now>>

Tick ==
  /\ now < MaxTime
  /\ now' = now + 1
  /\ UNCHANGED <<records, sortedIDs, up>>

(* The operator starts the tracker again: nothing was written to disk.      *)
Restart ==
  /\ ~up
  /\ up' = TRUE
  /\ records' = NoRecords
  /\ sortedIDs' = NoIDs
  /\ UNCHANGED now

Next ==
  \/ \E n \in NodeIDs :
       \/ \E ip \in IPs : Join(n, ip)
       \/ \E b \in Blacklisters : BlacklistNode(n, b)
       \/ Get(n) \/ CrashInGet(n)
       \/ \E f \in Files : RemoveBackupOf(f, n)
       \/ \E f \in Files, size \in Sizes : BackupFile(f, n, size)
  \/ \E f \in Files, size \in UpdateSizes : UpdateFileSize(f, size)
  \/ FindClosest \/ Tick \/ Restart

Spec == Init /\ [][Next]_vars

-----------------------------------------------------------------------------
IsMap(map, keys) == map = [k \in DOMAIN map |-> map[k]] /\ DOMAIN map \subseteq keys

AnySize == Sizes \cup (UpdateSizes \ {0})

IsEntry(entry) ==
  /\ entry = FileMetadata(entry.nodeID, entry.size)
  /\ entry.nodeID \in NodeIDs /\ entry.size \in AnySize

IsRecord(rec) ==
  /\ rec = [nodeIP |-> rec.nodeIP, blacklisters |-> rec.blacklisters,
            backedUpFiles |-> rec.backedUpFiles, storedFiles |-> rec.storedFiles]
  /\ rec.nodeIP \in IPs
  /\ IsMap(rec.blacklisters, Blacklisters)
  /\ \A b \in DOMAIN rec.blacklisters : rec.blacklisters[b] \in 0..now
  /\ IsMap(rec.backedUpFiles, Files)
  /\ \A f \in DOMAIN rec.backedUpFiles :
       /\ IsMap(rec.backedUpFiles[f], 1..MaxEntries)
       /\ \A s \in DOMAIN rec.backedUpFiles[f] : IsEntry(rec.backedUpFiles[f][s])
  /\ IsMap(rec.storedFiles, Files)
  /\ \A f \in DOMAIN rec.storedFiles : IsEntry(rec.storedFiles[f])

TypeOK ==
  /\ IsMap(records, NodeIDs)
  /\ \A n \in DOMAIN records : IsRecord(records[n])
  /\ sortedIDs \in [AllIDs -> 0..MaxJoins]
  /\ now \in 0..MaxTime
  /\ up \in BOOLEAN

(* Every ID that findClosest may answer has a record, and every node with a *)
(* record can be found: join keeps records_ and sortedIDs_ in step, also    *)
(* when a node joins again and across a restart.                            *)
IndexMatchesRecords == DOMAIN records = {n \in AllIDs : sortedIDs[n] > 0}

(* A file is in the list of its owner only.                                 *)
OwnFilesOnly ==
  \A p \in DOMAIN records : \A f \in DOMAIN records[p].backedUpFiles : Owner[f] = p

(* Every node in an owner's list is known and stores the file for that      *)
(* owner.  updateFileSize relies on it: it reaches the nodes with           *)
(* operator[], which would make up a record or a stored file.               *)
NoDanglingReplica ==
  \A p \in DOMAIN records : \A f \in DOMAIN records[p].backedUpFiles :
    \A n \in BackupNodes(records[p], f) :
      /\ n \in DOMAIN records
      /\ f \in DOMAIN records[n].storedFiles
      /\ records[n].storedFiles[f].nodeID = p

(* Every file a node stores is in the list of the owner, with that node and *)
(* that size: nobody is obliged to keep data that no peer claims.  (When no *)
(* file is deleted: see DeletionReachesReplicas.)                           *)
StoredIsClaimed ==
  \A n \in DOMAIN records : \A f \in DOMAIN records[n].storedFiles :
    LET p == records[n].storedFiles[f].nodeID
    IN  /\ p \in DOMAIN records
        /\ f \in DOMAIN records[p].backedUpFiles
        /\ FileMetadata(n, records[n].storedFiles[f].size)
             \in {records[p].backedUpFiles[f][s] :
                    s \in DOMAIN records[p].backedUpFiles[f]}

(* No operation of a running tracker removes or renews a blacklister before *)
(* PRUNE_AGE has passed ("keep blacklisters for 1 week",                    *)
(* MetadataRecord.h:119), even when the walk in serialize goes wrong.       *)
KeepBlacklistersOneWeek ==
  [][up /\ up' =>
       \A n \in DOMAIN records : \A b \in DOMAIN records[n].blacklisters :
         now - records[n].blacklisters[b] <= PruneAge =>
           /\ b \in DOMAIN records'[n].blacklisters
           /\ records'[n].blacklisters[b] = records[n].blacklisters[b]]_vars

-----------------------------------------------------------------------------
(* A statement of the documentation that the code does not meet.            *)

(* MetadataInterface.h:45-46: updateFileSize is "used to reflect deletions, *)
(* too", and h:17: the metadata layer "is responsible for updating all      *)
(* replicant nodes".                                                        *)
DeletionReachesReplicas ==
  [][\A f \in Files :
       UpdateFileSize(f, 0) /\ Owner[f] \in DOMAIN records =>
         \A n \in DOMAIN records' : f \notin DOMAIN records'[n].storedFiles]_vars
=============================================================================
