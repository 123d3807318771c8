----------------------- MODULE TrackerDatabase_proofs -----------------------
(* Proofs about the tracker's database, for any nodes, files and bounds.    *)
EXTENDS TrackerRecords_proofs

(***************************************************************************)
(* The inductive invariant.                                                *)
(***************************************************************************)
Slots == 1..MaxEntries

Shape ==
  /\ DOMAIN records \subseteq NodeIDs
  /\ sortedIDs \in [AllIDs -> 0..MaxJoins]
  /\ now \in 0..MaxTime
  /\ up \in BOOLEAN

IInv == Shape /\ IndexMatchesRecords /\ FilesOK(records, Slots)

(* What it says of the types.                                               *)
LEMMA ShapeFacts ==
  ASSUME IInv
  PROVE  /\ now \in Nat /\ now <= now /\ sortedIDs \in [AllIDs -> Nat] /\ up \in BOOLEAN
         /\ FilesOK(records, Slots)
         /\ \A n \in DOMAIN records : RecordOK(records[n], Slots)
<1> QED BY DatabaseAssumption DEF IInv, Shape, FilesOK, RecordsOK

(* An operation on the files of known nodes keeps the invariant. *)
LEMMA RecordsStep ==
  ASSUME IInv, NEW new, records' = new, FilesOK(new, Slots), DOMAIN new = DOMAIN records,
         UNCHANGED <<sortedIDs, now>>, up' \in BOOLEAN
  PROVE  IInv' /\ (Claimed(new) => Claimed(records)')
<1>1. FilesOK(records, Slots)' /\ (Claimed(new) => Claimed(records)')
  BY ShapeFacts, FilesStep
<1>2. Shape'
  BY DEF IInv, Shape
<1>3. IndexMatchesRecords'
  BY DEF IInv, IndexMatchesRecords
<1> QED BY <1>1, <1>2, <1>3 DEF IInv

(* The initial states satisfy the invariant. *)
LEMMA InvariantInit == Init => IInv /\ Claimed(records)
<1> SUFFICES ASSUME Init PROVE IInv /\ Claimed(records)
  OBVIOUS
<1>1. FilesOK(records, Slots) /\ Claimed(records) /\ DOMAIN records = {}
  BY EmptyDatabase DEF Init
<1>2. Shape
  BY <1>1, DatabaseAssumption DEF Init, NoIDs, Shape
<1>3. IndexMatchesRecords
  BY <1>1 DEF Init, NoIDs, IndexMatchesRecords
<1> QED BY <1>1, <1>2, <1>3 DEF IInv

(* join. *)
LEMMA JoinStep ==
  ASSUME IInv, NEW n \in NodeIDs, NEW ip \in IPs, Join(n, ip)
  PROVE  IInv' /\ (Claimed(records) => Claimed(records)')
<1> DEFINE new == DbJoin(records, n, ip)
<1>1. /\ records' = new /\ UNCHANGED <<now, up>> /\ n \in AllIDs
      /\ sortedIDs[n] < MaxJoins /\ sortedIDs' = [sortedIDs EXCEPT ![n] = @ + 1]
  BY DEF Join, AllIDs
<1>2. FilesOK(new, Slots) /\ (Claimed(records) => Claimed(new))
  BY <1>1, ShapeFacts, JoinKeeps
<1>3. DOMAIN new = DOMAIN records \cup {n}
  BY DEF DbJoin, Put
<1>4. IndexMatchesRecords'
  BY <1>1, ShapeFacts, JoinIndex DEF IInv
<1> HIDE DEF new
<1>5. FilesOK(records, Slots)' /\ (Claimed(new) => Claimed(records)')
  BY <1>1, <1>2, ShapeFacts, FilesStep
<1>6. Shape'
  <2>1. MaxJoins \in Nat /\ sortedIDs \in [AllIDs -> 0..MaxJoins]
    BY DatabaseAssumption DEF IInv, Shape
  <2>2. sortedIDs' \in [AllIDs -> 0..MaxJoins]
    BY <1>1, <2>1
  <2> QED BY <1>1, <1>3, <2>2 DEF IInv, Shape
<1> QED BY <1>2, <1>4, <1>5, <1>6 DEF IInv

(* blacklistNode. *)
LEMMA BlacklistStep ==
  ASSUME IInv, NEW n \in NodeIDs, NEW b \in Blacklisters, BlacklistNode(n, b)
  PROVE  IInv' /\ (Claimed(records) => Claimed(records)')
<1>1. CASE n \notin DOMAIN records
  <2>1. records' = records /\ UNCHANGED <<sortedIDs, now, up>>
    BY <1>1 DEF BlacklistNode, DbBlacklistNode
  <2> QED BY <2>1, ShapeFacts, RecordsStep
<1>2. CASE n \in DOMAIN records
  <2> DEFINE rec == AddBlacklister(records[n], b, now)
             new == [records EXCEPT ![n] = rec]
  <2>1. records' = new /\ UNCHANGED <<sortedIDs, now, up>>
    BY <1>2 DEF BlacklistNode, DbBlacklistNode
  <2>2. FilesOK(records, Slots) /\ RecordOK(records[n], Slots) /\ now \in Nat
    BY <1>2, ShapeFacts
  <2>3. /\ RecordOK(rec, Slots)
        /\ rec.backedUpFiles = records[n].backedUpFiles
        /\ rec.storedFiles = records[n].storedFiles
    BY <2>2, AddBlacklisterFacts
  <2> HIDE DEF rec
  <2>4. FilesOK(new, Slots) /\ (Claimed(records) => Claimed(new)) /\ DOMAIN new = DOMAIN records
    BY <1>2, <2>2, <2>3, OtherFieldKeeps
  <2> HIDE DEF new
  <2> QED BY <2>1, <2>4, ShapeFacts, RecordsStep
<1> QED BY <1>1, <1>2

(* get and the pruning of blacklisters. *)
LEMMA GetStep ==
  ASSUME IInv, NEW n \in NodeIDs, Get(n)
  PROVE  IInv' /\ (Claimed(records) => Claimed(records)')
<1>1. PICK visited \in SUBSET Blacklisters :
        records' = [records EXCEPT ![n] = Pruned(records[n], now, visited)]
  BY DEF Get
<1> DEFINE rec == Pruned(records[n], now, visited)
           new == [records EXCEPT ![n] = rec]
<1>2. FilesOK(records, Slots) /\ n \in DOMAIN records /\ RecordOK(records[n], Slots)
  BY ShapeFacts DEF Get
<1>3. /\ RecordOK(rec, Slots)
      /\ rec.backedUpFiles = records[n].backedUpFiles
      /\ rec.storedFiles = records[n].storedFiles
  BY <1>2, PrunedFacts
<1>4. records' = new /\ UNCHANGED <<sortedIDs, now, up>>
  BY <1>1 DEF Get
<1> HIDE DEF rec
<1>5. FilesOK(new, Slots) /\ (Claimed(records) => Claimed(new)) /\ DOMAIN new = DOMAIN records
  BY <1>2, <1>3, OtherFieldKeeps
<1> HIDE DEF new
<1> QED BY <1>4, <1>5, ShapeFacts, RecordsStep

(* backupFile. *)
LEMMA BackupStep ==
  ASSUME IInv, NEW f \in Files, NEW n \in NodeIDs, NEW size \in Sizes, BackupFile(f, n, size)
  PROVE  IInv' /\ (Claimed(records) => Claimed(records)')
<1> DEFINE new == DbBackupFile(records, Owner[f], n, f, size)
<1>0. /\ FilesOK(records, Slots)
      /\ Owner[f] \in DOMAIN records =>
           HasRoom(ValueOr(records[Owner[f]].backedUpFiles, f, EmptyMap), Slots)
  <2>1. SUFFICES ASSUME Owner[f] \in DOMAIN records
                 PROVE  HasRoom(ValueOr(records[Owner[f]].backedUpFiles, f, EmptyMap), Slots)
    BY ShapeFacts
  <2>2. IsFiniteSet(DOMAIN ValueOr(records[Owner[f]].backedUpFiles, f, EmptyMap))
    BY <2>1, ShapeFacts, EmptyMapFacts DEF RecordOK, ValueOr, IsList
  <2> QED BY <2>1, <2>2, RoomFacts, DatabaseAssumption DEF BackupFile, Slots
<1>1. records' = new /\ UNCHANGED <<sortedIDs, now, up>>
  BY DEF BackupFile
<1>2. FilesOK(new, Slots) /\ (Claimed(records) => Claimed(new))
  BY <1>0, BackupKeeps DEF BackupFile
<1>3. DOMAIN new = DOMAIN records
  BY DEF DbBackupFile
<1> HIDE DEF new
<1> QED BY <1>1, <1>2, <1>3, ShapeFacts, RecordsStep

(* removeBackup. *)
LEMMA RemoveStep ==
  ASSUME IInv, NEW f \in Files, NEW n \in NodeIDs, RemoveBackupOf(f, n)
  PROVE  IInv' /\ (Claimed(records) => Claimed(records)')
<1> DEFINE new == DbRemoveBackup(records, Owner[f], n, f)
<1>1. records' = new /\ UNCHANGED <<sortedIDs, now, up>>
  BY DEF RemoveBackupOf
<1>2. FilesOK(new, Slots) /\ (Claimed(records) => Claimed(new)) /\ DOMAIN new = DOMAIN records
  BY RemoveKeeps DEF IInv
<1> HIDE DEF new
<1> QED BY <1>1, <1>2, ShapeFacts, RecordsStep

(* updateFileSize: a deletion may leave stored files unclaimed. *)
LEMMA UpdateStep ==
  ASSUME IInv, NEW f \in Files, NEW size \in UpdateSizes, UpdateFileSize(f, size)
  PROVE  IInv' /\ (size # 0 /\ Claimed(records) => Claimed(records)')
<1> DEFINE new == DbUpdateFileSize(records, Owner[f], f, size)
<1>1. records' = new /\ UNCHANGED <<sortedIDs, now, up>>
  BY DEF UpdateFileSize
<1>2. /\ FilesOK(new, Slots) /\ DOMAIN new = DOMAIN records
      /\ size # 0 /\ Claimed(records) => Claimed(new)
  BY UpdateKeeps DEF IInv
<1> HIDE DEF new
<1> QED BY <1>1, <1>2, ShapeFacts, RecordsStep

(* A crash, or no step. *)
LEMMA CrashStep ==
  ASSUME IInv, UNCHANGED <<records, sortedIDs, now>>, up' \in BOOLEAN
  PROVE  IInv' /\ (Claimed(records) => Claimed(records)')
<1> QED BY ShapeFacts, RecordsStep

(* The clock. *)
LEMMA TickStep ==
  ASSUME IInv, Tick
  PROVE  IInv' /\ (Claimed(records) => Claimed(records)')
<1>1. /\ UNCHANGED <<records, sortedIDs, up>>
      /\ now \in Nat /\ now' \in Nat /\ now <= now' /\ now' \in 0..MaxTime
  BY DatabaseAssumption DEF IInv, Shape, Tick
<1>2. FilesOK(records, Slots)' /\ (Claimed(records) => Claimed(records)')
  BY <1>1, ShapeFacts, FilesStep
<1> QED BY <1>1, <1>2 DEF IInv, Shape, IndexMatchesRecords

(* A restart. *)
LEMMA RestartStep ==
  ASSUME IInv, Restart
  PROVE  IInv' /\ Claimed(records)'
<1>1. records' = NoRecords /\ sortedIDs' = NoIDs /\ up' = TRUE /\ now' = now
  BY DEF Restart
<1>2. FilesOK(records, Slots)' /\ Claimed(records)'
  BY <1>1, EmptyDatabase, ShapeFacts, FilesStep
<1>3. Shape' /\ IndexMatchesRecords'
  BY <1>1, EmptyDatabase, DatabaseAssumption DEF NoIDs, IInv, Shape, IndexMatchesRecords
<1> QED BY <1>2, <1>3 DEF IInv

(* Every step keeps the invariant, and keeps the stored files claimed if no *)
(* file is deleted.                                                         *)
LEMMA InvariantStep ==
  ASSUME IInv, [Next]_vars
  PROVE  IInv' /\ (0 \notin UpdateSizes /\ Claimed(records) => Claimed(records)')
<1> DEFINE Goal == IInv' /\ (0 \notin UpdateSizes /\ Claimed(records) => Claimed(records)')
<1> SUFFICES Goal
  OBVIOUS
<1>1. ASSUME NEW n \in NodeIDs, NEW ip \in IPs, Join(n, ip) PROVE Goal
  BY <1>1, JoinStep
<1>2. ASSUME NEW n \in NodeIDs, NEW b \in Blacklisters, BlacklistNode(n, b) PROVE Goal
  BY <1>2, BlacklistStep
<1>3. ASSUME NEW n \in NodeIDs, Get(n) PROVE Goal
  BY <1>3, GetStep
<1>4. ASSUME NEW n \in NodeIDs, CrashInGet(n) PROVE Goal
  BY <1>4, CrashStep DEF CrashInGet
<1>5. ASSUME NEW f \in Files, NEW n \in NodeIDs, RemoveBackupOf(f, n) PROVE Goal
  BY <1>5, RemoveStep
<1>6. ASSUME NEW f \in Files, NEW n \in NodeIDs, NEW size \in Sizes,
             BackupFile(f, n, size)
      PROVE  Goal
  BY <1>6, BackupStep
<1>7. ASSUME NEW f \in Files, NEW size \in UpdateSizes, UpdateFileSize(f, size) PROVE Goal
  BY <1>7, UpdateStep
<1>8. CASE FindClosest
  BY <1>8, CrashStep DEF FindClosest
<1>9. CASE Tick
  BY <1>9, TickStep
<1>10. CASE Restart
  BY <1>10, RestartStep
<1>11. CASE UNCHANGED vars
  BY <1>11, CrashStep DEF vars, IInv, Shape
<1> HIDE DEF Goal
<1> QED BY <1>1, <1>2, <1>3, <1>4, <1>5, <1>6, <1>7, <1>8, <1>9, <1>10, <1>11 DEF Next

(***************************************************************************)
(* The theorems.                                                           *)
(***************************************************************************)
(* The inductive invariant holds in every reachable state. *)
THEOREM Invariant == Spec => []IInv
<1>1. Init => IInv
  BY InvariantInit
<1>2. IInv /\ [Next]_vars => IInv'
  BY InvariantStep
<1> QED BY <1>1, <1>2, PTL DEF Spec

(* The database is well formed: the maps of MetadataRecord.h have the keys  *)
(* and values their types promise, and no record without an address is made *)
(* by the operator[] of updateFileSize.                                     *)
THEOREM TypeCorrect == Spec => []TypeOK
<1>1. ASSUME IInv PROVE TypeOK
  <2>1. /\ RecordsOK(records, Slots) /\ ReplicasStored(records) /\ StoredForOwner(records)
        /\ DOMAIN records \subseteq NodeIDs
    BY <1>1 DEF IInv, Shape, FilesOK
  <2>2. IsMap(records, NodeIDs)
    BY <2>1 DEF RecordsOK, IsMap
  <2>3. ASSUME NEW n \in DOMAIN records PROVE IsRecord(records[n])
    <3> DEFINE rec == records[n]
    <3>1. RecordOK(rec, Slots)
      BY <2>1, <2>3 DEF RecordsOK
    <3>2. ASSUME NEW f \in DOMAIN rec.backedUpFiles, NEW s \in DOMAIN rec.backedUpFiles[f]
          PROVE  IsEntry(rec.backedUpFiles[f][s])
      <4>1. f \in Files /\ EntryOK(rec.backedUpFiles[f][s])
        BY <3>1, <3>2 DEF RecordOK, IsMap
      <4>2. rec.backedUpFiles[f][s] \in Replicas(rec, f)
        BY <3>2 DEF Replicas, Entries, ValueOr
      <4>3. rec.backedUpFiles[f][s].nodeID \in NodeIDs
        BY <2>1, <2>3, <4>1, <4>2 DEF ReplicasStored
      <4> QED BY <4>1, <4>3 DEF IsEntry, EntryOK
    <3>3. ASSUME NEW f \in DOMAIN rec.storedFiles PROVE IsEntry(rec.storedFiles[f])
      <4>1. f \in Files /\ EntryOK(rec.storedFiles[f])
        BY <3>1, <3>3 DEF RecordOK, IsMap
      <4>2. rec.storedFiles[f].nodeID \in NodeIDs
        BY <2>1, <2>3, <3>3, <4>1, DatabaseAssumption DEF StoredForOwner
      <4> QED BY <4>1, <4>2 DEF IsEntry, EntryOK
    <3> QED BY <3>1, <3>2, <3>3 DEF RecordOK, IsRecord, IsList, Slots
  <2> QED BY <1>1, <2>2, <2>3 DEF IInv, Shape, TypeOK
<1> QED BY <1>1, Invariant, PTL

(* findClosest answers known nodes, and every known node can be answered:   *)
(* sortedIDs_ and records_ agree (TrackerDatabase::join).                   *)
THEOREM IndexAgrees == Spec => []IndexMatchesRecords
<1>1. IInv => IndexMatchesRecords
  BY DEF IInv
<1> QED BY <1>1, Invariant, PTL

(* A node that the owner of a file counts on is known to the tracker and is *)
(* obliged to store the file for that owner, whatever backups, removals,    *)
(* size changes and deletions came before.                                  *)
THEOREM NoDangling == Spec => []NoDanglingReplica
<1>1. IInv => NoDanglingReplica
  BY FilesImplyNoDangling DEF IInv
<1> QED BY <1>1, Invariant, PTL

(* If no file is deleted, nothing is stored that no owner claims, and owner *)
(* and node agree on the size.                                              *)
THEOREM StoredClaimed ==
  ASSUME 0 \notin UpdateSizes
  PROVE  Spec => []StoredIsClaimed
<1> DEFINE CInv == IInv /\ Claimed(records)
<1>1. Init => CInv
  BY InvariantInit
<1>2. CInv /\ [Next]_vars => CInv'
  BY InvariantStep
<1>3. CInv => StoredIsClaimed
  BY ShapeFacts, ClaimedFacts
<1> QED BY <1>1, <1>2, <1>3, PTL DEF Spec

(***************************************************************************)
(* Complaints.                                                             *)
(***************************************************************************)
(* One step keeps a complaint that is not older than PRUNE_AGE.             *)
LEMMA ComplaintStep ==
  ASSUME IInv, [Next]_vars, up, up', NEW m \in DOMAIN records,
         NEW b \in DOMAIN records[m].blacklisters,
         now - records[m].blacklisters[b] <= PruneAge
  PROVE  /\ b \in DOMAIN records'[m].blacklisters
         /\ records'[m].blacklisters[b] = records[m].blacklisters[b]
<1>1. RecordsOK(records, Slots) /\ now \in Nat
  BY ShapeFacts DEF FilesOK
<1>2. NodeIDs \subseteq AllIDs
  BY DEF AllIDs
<1>3. CASE UNCHANGED vars \/ Tick \/ FindClosest \/ \E n \in NodeIDs : CrashInGet(n)
  BY <1>3 DEF vars, Tick, FindClosest, CrashInGet
<1>4. CASE Restart
  BY <1>4 DEF Restart
<1>5. CASE \E n \in NodeIDs :
             \/ \E ip \in IPs : Join(n, ip)
             \/ \E c \in Blacklisters : BlacklistNode(n, c)
             \/ Get(n)
             \/ \E f \in Files : \/ \E size \in Sizes : BackupFile(f, n, size)
                               \/ RemoveBackupOf(f, n)
  <2>1. Effect
    BY <1>2, <1>5 DEF Effect, Join, BlacklistNode, Get, BackupFile, RemoveBackupOf
  <2> QED BY <1>1, <2>1, EffectsKeepComplaints
<1>6. CASE \E f \in Files, size \in UpdateSizes : UpdateFileSize(f, size)
  <2>1. Effect
    BY <1>6 DEF Effect, UpdateFileSize
  <2> QED BY <1>1, <2>1, EffectsKeepComplaints
<1> QED BY <1>3, <1>4, <1>5, <1>6 DEF Next

(* A node that was blacklisted stays blacklisted by that node, from the     *)
(* same time on, for as long as the tracker runs and PRUNE_AGE has not      *)
(* passed: whatever else is done, and however the walk in serialize ends.   *)
THEOREM ComplaintsKept == Spec => KeepBlacklistersOneWeek
<1>1. IInv /\ [Next]_vars =>
        [up /\ up' =>
           \A n \in DOMAIN records : \A b \in DOMAIN records[n].blacklisters :
             now - records[n].blacklisters[b] <= PruneAge =>
               /\ b \in DOMAIN records'[n].blacklisters
               /\ records'[n].blacklisters[b] = records[n].blacklisters[b]]_vars
  BY ComplaintStep
<1> QED BY <1>1, Invariant, PTL DEF Spec, KeepBlacklistersOneWeek
=============================================================================
