----------------------- MODULE TrackerRecords_proofs -----------------------
(***************************************************************************)
(* What the operations of the tracker's database keep and change, as       *)
(* lemmas about the operators: first records, then databases, then the     *)
(* agreement between the lists of owners and the files that nodes store.   *)
(* They are used for the database by itself, where the IDs are those of    *)
(* the nodes and the lists are bounded, and for the server, where the      *)
(* empty ID may be a member and nothing bounds a list: an ID is any of     *)
(* AllIDs, and S is the set of slots.                                      *)
(***************************************************************************)
EXTENDS TrackerDatabase, FiniteSetTheorems, TLAPS

(* A list is a finite map from slots; push_back finds a slot in S.          *)
IsList(list, S) == IsMap(list, S) /\ IsFiniteSet(DOMAIN list)
HasRoom(list, S) == FreeSlot(list) \in S \ DOMAIN list

EntryOK(entry) ==
  /\ entry = FileMetadata(entry.nodeID, entry.size)
  /\ entry.nodeID \in AllIDs /\ entry.size \in AnySize

RecordOK(rec, S) ==
  /\ rec = [nodeIP |-> rec.nodeIP, blacklisters |-> rec.blacklisters,
            backedUpFiles |-> rec.backedUpFiles, storedFiles |-> rec.storedFiles]
  /\ rec.nodeIP \in IPs
  /\ IsMap(rec.blacklisters, Blacklisters)
  /\ \A b \in DOMAIN rec.blacklisters : rec.blacklisters[b] \in 0..now
  /\ IsMap(rec.backedUpFiles, Files)
  /\ \A f \in DOMAIN rec.backedUpFiles :
       /\ IsList(rec.backedUpFiles[f], S)
       /\ \A s \in DOMAIN rec.backedUpFiles[f] : EntryOK(rec.backedUpFiles[f][s])
  /\ IsMap(rec.storedFiles, Files)
  /\ \A f \in DOMAIN rec.storedFiles : EntryOK(rec.storedFiles[f])

(***************************************************************************)
(* Maps and lists.                                                         *)
(***************************************************************************)
(* The empty map. *)
LEMMA EmptyMapFacts ==
  /\ DOMAIN EmptyMap = {}
  /\ \A T : IsMap(EmptyMap, T) /\ IsList(EmptyMap, T)
<1>1. DOMAIN EmptyMap = {} /\ \A T : IsMap(EmptyMap, T)
  BY DEF EmptyMap, IsMap
<1> QED BY <1>1, FS_EmptySet DEF IsList

(* push_back finds an unused slot among the first ones. *)
LEMMA FreeSlotFacts ==
  ASSUME NEW list, IsFiniteSet(DOMAIN list)
  PROVE  /\ FreeSlot(list) \in 1..(Cardinality(DOMAIN list) + 1)
         /\ FreeSlot(list) \notin DOMAIN list
         /\ Cardinality(DOMAIN list) \in Nat
<1> DEFINE c == Cardinality(DOMAIN list)
<1>1. c \in Nat
  BY FS_CardinalityType
<1>2. \E s \in 1..(c + 1) : s \notin DOMAIN list
  <2> SUFFICES ASSUME 1..(c + 1) \subseteq DOMAIN list PROVE FALSE
    OBVIOUS
  <2>1. Cardinality(1..(c + 1)) <= c
    BY <1>1, FS_Subset
  <2>2. Cardinality(1..(c + 1)) = c + 1
    BY <1>1, FS_Interval
  <2> QED BY <1>1, <2>1, <2>2
<1>3. FreeSlot(list) \in 1..(c + 1) /\ FreeSlot(list) \notin DOMAIN list
  BY <1>2 DEF FreeSlot
<1> QED BY <1>1, <1>3

(* The slot is within the bound if the list is shorter than it, and there   *)
(* is always one if there is no bound.                                      *)
LEMMA RoomFacts ==
  ASSUME NEW list, IsFiniteSet(DOMAIN list)
  PROVE  /\ \A M \in Nat : Cardinality(DOMAIN list) < M => HasRoom(list, 1..M)
         /\ HasRoom(list, Nat \ {0})
<1> QED BY FreeSlotFacts DEF HasRoom

(* What push_back does to a list. *)
LEMMA PushBackFacts ==
  ASSUME NEW S, NEW list, NEW entry, IsList(list, S), HasRoom(list, S)
  PROVE  /\ IsList(PushBack(list, entry), S)
         /\ DOMAIN list \subseteq DOMAIN PushBack(list, entry)
         /\ \A s \in DOMAIN list : PushBack(list, entry)[s] = list[s]
         /\ \E s \in DOMAIN PushBack(list, entry) : PushBack(list, entry)[s] = entry
         /\ \A s \in DOMAIN PushBack(list, entry) :
              s \notin DOMAIN list => PushBack(list, entry)[s] = entry
<1>1. FreeSlot(list) \in S \ DOMAIN list
  BY DEF HasRoom
<1>2. PushBack(list, entry) =
        [s \in DOMAIN list \cup {FreeSlot(list)} |->
           IF s = FreeSlot(list) THEN entry ELSE list[s]]
  BY DEF PushBack, Put
<1> HIDE DEF PushBack
<1>3. /\ DOMAIN PushBack(list, entry) = DOMAIN list \cup {FreeSlot(list)}
      /\ PushBack(list, entry)[FreeSlot(list)] = entry
      /\ \A s \in DOMAIN list : PushBack(list, entry)[s] = list[s]
      /\ PushBack(list, entry) =
           [s \in DOMAIN PushBack(list, entry) |-> PushBack(list, entry)[s]]
  BY <1>1, <1>2
<1>4. IsFiniteSet(DOMAIN PushBack(list, entry))
  BY <1>3, FS_AddElement DEF IsList
<1> QED BY <1>1, <1>3, <1>4 DEF IsMap, IsList

(***************************************************************************)
(* What each operation on a record keeps and changes.                      *)
(***************************************************************************)
(* A new record. *)
LEMMA NewRecord ==
  ASSUME NEW S, NEW ip \in IPs
  PROVE  /\ RecordOK(MetadataRecord(ip), S)
         /\ DOMAIN MetadataRecord(ip).backedUpFiles = {}
         /\ DOMAIN MetadataRecord(ip).storedFiles = {}
<1> QED BY EmptyMapFacts DEF MetadataRecord, RecordOK

(* addBlacklister changes blacklisters_ only. *)
LEMMA AddBlacklisterFacts ==
  ASSUME NEW S, NEW rec, RecordOK(rec, S), NEW b \in Blacklisters, now \in Nat
  PROVE  /\ RecordOK(AddBlacklister(rec, b, now), S)
         /\ AddBlacklister(rec, b, now).backedUpFiles = rec.backedUpFiles
         /\ AddBlacklister(rec, b, now).storedFiles = rec.storedFiles
<1>1. CASE b \in DOMAIN rec.blacklisters
  BY <1>1 DEF AddBlacklister
<1>2. CASE b \notin DOMAIN rec.blacklisters
  <2> DEFINE new == Put(rec.blacklisters, b, now)
  <2>1. IsMap(new, Blacklisters) /\ \A k \in DOMAIN new : new[k] \in 0..now
    BY DEF RecordOK, IsMap, Put
  <2>2. AddBlacklister(rec, b, now) =
          [nodeIP |-> rec.nodeIP, blacklisters |-> new,
           backedUpFiles |-> rec.backedUpFiles, storedFiles |-> rec.storedFiles]
    BY <1>2 DEF AddBlacklister, RecordOK
  <2> HIDE DEF new
  <2> QED BY <2>1, <2>2 DEF RecordOK
<1> QED BY <1>1, <1>2

(* Pruning changes blacklisters_ only. *)
LEMMA PrunedFacts ==
  ASSUME NEW S, NEW rec, RecordOK(rec, S), NEW visited
  PROVE  /\ RecordOK(Pruned(rec, now, visited), S)
         /\ Pruned(rec, now, visited).backedUpFiles = rec.backedUpFiles
         /\ Pruned(rec, now, visited).storedFiles = rec.storedFiles
<1> DEFINE keep == DOMAIN rec.blacklisters \ (visited \cap Expired(rec, now))
           new == [b \in keep |-> rec.blacklisters[b]]
<1>1. IsMap(new, Blacklisters) /\ \A k \in DOMAIN new : new[k] \in 0..now
  BY DEF RecordOK, IsMap
<1>2. Pruned(rec, now, visited) =
        [nodeIP |-> rec.nodeIP, blacklisters |-> new,
         backedUpFiles |-> rec.backedUpFiles, storedFiles |-> rec.storedFiles]
  BY DEF Pruned, RecordOK
<1> HIDE DEF new
<1> QED BY <1>1, <1>2 DEF RecordOK

(* Replacing the map of backups by another well-formed one. *)
LEMMA NewBackups ==
  ASSUME NEW S, NEW rec, RecordOK(rec, S), NEW new, IsMap(new, Files),
         \A f \in DOMAIN new :
           /\ IsList(new[f], S)
           /\ \A s \in DOMAIN new[f] : EntryOK(new[f][s])
  PROVE  /\ RecordOK([rec EXCEPT !.backedUpFiles = new], S)
         /\ [rec EXCEPT !.backedUpFiles = new].backedUpFiles = new
         /\ [rec EXCEPT !.backedUpFiles = new].storedFiles = rec.storedFiles
<1>1. [rec EXCEPT !.backedUpFiles = new] =
        [nodeIP |-> rec.nodeIP, blacklisters |-> rec.blacklisters,
         backedUpFiles |-> new, storedFiles |-> rec.storedFiles]
  BY DEF RecordOK
<1> QED BY <1>1 DEF RecordOK

(* Replacing the map of stored files by another well-formed one. *)
LEMMA NewStored ==
  ASSUME NEW S, NEW rec, RecordOK(rec, S), NEW new, IsMap(new, Files),
         \A f \in DOMAIN new : EntryOK(new[f])
  PROVE  /\ RecordOK([rec EXCEPT !.storedFiles = new], S)
         /\ [rec EXCEPT !.storedFiles = new].storedFiles = new
         /\ [rec EXCEPT !.storedFiles = new].backedUpFiles = rec.backedUpFiles
<1>1. [rec EXCEPT !.storedFiles = new] =
        [nodeIP |-> rec.nodeIP, blacklisters |-> rec.blacklisters,
         backedUpFiles |-> rec.backedUpFiles, storedFiles |-> new]
  BY DEF RecordOK
<1> QED BY <1>1 DEF RecordOK

(***************************************************************************)
(* The entries in the list of a file, as a set.                            *)
(***************************************************************************)
Entries(list) == {list[s] : s \in DOMAIN list}
Replicas(rec, f) == Entries(ValueOr(rec.backedUpFiles, f, EmptyMap))

(* A file that is not in the map has no replica; entries are well formed.   *)
LEMMA ReplicasFacts ==
  ASSUME NEW S, NEW rec, RecordOK(rec, S), NEW f
  PROVE  /\ f \notin DOMAIN rec.backedUpFiles => Replicas(rec, f) = {}
         /\ f \in DOMAIN rec.backedUpFiles =>
              Replicas(rec, f) = Entries(rec.backedUpFiles[f])
         /\ \A e \in Replicas(rec, f) : EntryOK(e)
         /\ BackupNodes(rec, f) = {e.nodeID : e \in Replicas(rec, f)}
<1>1. CASE f \in DOMAIN rec.backedUpFiles
  BY <1>1 DEF Replicas, Entries, ValueOr, RecordOK, BackupNodes
<1>2. CASE f \notin DOMAIN rec.backedUpFiles
  BY <1>2, EmptyMapFacts DEF Replicas, Entries, ValueOr, BackupNodes
<1> QED BY <1>1, <1>2

(* The record built by FileMetadata has the fields it was given. *)
LEMMA EntryFacts ==
  /\ \A n, size : /\ FileMetadata(n, size).nodeID = n
                  /\ FileMetadata(n, size).size = size
  /\ \A n \in AllIDs, size \in AnySize : EntryOK(FileMetadata(n, size))
<1> QED BY DEF FileMetadata, EntryOK

(* addBackupFile adds one replica to one file. *)
LEMMA AddBackupFileFacts ==
  ASSUME NEW S, NEW rec, RecordOK(rec, S), NEW f \in Files, NEW n \in AllIDs, NEW size \in Sizes,
         HasRoom(ValueOr(rec.backedUpFiles, f, EmptyMap), S)
  PROVE  LET new == AddBackupFile(rec, f, n, size) IN
         /\ RecordOK(new, S)
         /\ new.storedFiles = rec.storedFiles
         /\ DOMAIN new.backedUpFiles = DOMAIN rec.backedUpFiles \cup {f}
         /\ Replicas(new, f) = Replicas(rec, f) \cup {FileMetadata(n, size)}
         /\ \A g \in Files \ {f} : Replicas(new, g) = Replicas(rec, g)
<1> DEFINE list == ValueOr(rec.backedUpFiles, f, EmptyMap)
           longer == PushBack(list, FileMetadata(n, size))
           files == Put(rec.backedUpFiles, f, longer)
           new == AddBackupFile(rec, f, n, size)
<1>1. IsList(list, S) /\ \A s \in DOMAIN list : EntryOK(list[s])
  BY EmptyMapFacts DEF ValueOr, RecordOK
<1>2. EntryOK(FileMetadata(n, size))
  BY EntryFacts DEF AnySize
<1> HIDE DEF list
<1>3. /\ IsList(longer, S)
      /\ DOMAIN list \subseteq DOMAIN longer
      /\ \A s \in DOMAIN list : longer[s] = list[s]
      /\ \E s \in DOMAIN longer : longer[s] = FileMetadata(n, size)
      /\ \A s \in DOMAIN longer : s \notin DOMAIN list => longer[s] = FileMetadata(n, size)
  BY <1>1, PushBackFacts DEF list
<1> HIDE DEF longer
<1>4. Entries(longer) = Entries(list) \cup {FileMetadata(n, size)}
  BY <1>3 DEF Entries
<1>5. \A s \in DOMAIN longer : EntryOK(longer[s])
  BY <1>1, <1>2, <1>3
<1>6. /\ DOMAIN files = DOMAIN rec.backedUpFiles \cup {f}
      /\ files[f] = longer
      /\ \A g \in DOMAIN rec.backedUpFiles \ {f} : files[g] = rec.backedUpFiles[g]
      /\ files = [g \in DOMAIN files |-> files[g]]
  BY DEF Put
<1>7. new = [rec EXCEPT !.backedUpFiles = files]
  BY DEF AddBackupFile, longer, list, RecordOK
<1> HIDE DEF files
<1>8. /\ IsMap(files, Files)
      /\ \A g \in DOMAIN files : /\ IsList(files[g], S)
                                 /\ \A s \in DOMAIN files[g] : EntryOK(files[g][s])
  BY <1>3, <1>5, <1>6 DEF RecordOK, IsMap
<1>9. RecordOK(new, S) /\ new.backedUpFiles = files /\ new.storedFiles = rec.storedFiles
  BY <1>7, <1>8, NewBackups
<1> HIDE DEF new
<1>10. Replicas(new, f) = Replicas(rec, f) \cup {FileMetadata(n, size)}
  BY <1>4, <1>6, <1>9 DEF Replicas, ValueOr, list
<1>11. \A g \in Files \ {f} : Replicas(new, g) = Replicas(rec, g)
  BY <1>6, <1>9 DEF Replicas, ValueOr
<1> QED BY <1>6, <1>9, <1>10, <1>11 DEF new

(* updateBackupFileSize and the iterators after it: every replica of the    *)
(* file gets the size, or the list is emptied.                              *)
LEMMA UpdateBackupFacts ==
  ASSUME NEW S, NEW rec, RecordOK(rec, S), NEW f \in Files, NEW size \in UpdateSizes
  PROVE  LET new == TouchBackup(UpdateBackupFileSize(rec, f, size), f) IN
         /\ RecordOK(new, S)
         /\ new.storedFiles = rec.storedFiles
         /\ DOMAIN new.backedUpFiles = DOMAIN rec.backedUpFiles \cup {f}
         /\ Replicas(new, f) = IF size = 0 THEN {}
                               ELSE {FileMetadata(e.nodeID, size) : e \in Replicas(rec, f)}
         /\ \A g \in Files \ {f} : Replicas(new, g) = Replicas(rec, g)
<1> DEFINE list == ValueOr(rec.backedUpFiles, f, EmptyMap)
           resized == IF size = 0 THEN EmptyMap
                      ELSE [s \in DOMAIN list |-> [list[s] EXCEPT !.size = size]]
           files == Put(rec.backedUpFiles, f, resized)
           new == TouchBackup(UpdateBackupFileSize(rec, f, size), f)
<1>1. IsList(list, S) /\ \A s \in DOMAIN list : EntryOK(list[s])
  BY EmptyMapFacts DEF ValueOr, RecordOK
<1>2. new = [rec EXCEPT !.backedUpFiles = files]
  <2>1. CASE size = 0
    <3>1. UpdateBackupFileSize(rec, f, size) =
            [rec EXCEPT !.backedUpFiles = Erase(rec.backedUpFiles, f)]
      BY <2>1 DEF UpdateBackupFileSize, RecordOK
    <3>2. new = [rec EXCEPT !.backedUpFiles =
                   Put(Erase(rec.backedUpFiles, f), f,
                       ValueOr(Erase(rec.backedUpFiles, f), f, EmptyMap))]
      BY <3>1 DEF TouchBackup, RecordOK
    <3>3. ValueOr(Erase(rec.backedUpFiles, f), f, EmptyMap) = EmptyMap
      BY DEF Erase, ValueOr
    <3>4. Put(Erase(rec.backedUpFiles, f), f, EmptyMap) = files
      BY <2>1 DEF Put, Erase
    <3> QED BY <3>2, <3>3, <3>4
  <2>2. CASE size # 0
    <3>1. UpdateBackupFileSize(rec, f, size) = [rec EXCEPT !.backedUpFiles = files]
      BY <2>2 DEF UpdateBackupFileSize, RecordOK
    <3> HIDE DEF resized
    <3>2. new = [rec EXCEPT !.backedUpFiles = Put(files, f, ValueOr(files, f, EmptyMap))]
      BY <3>1 DEF TouchBackup, RecordOK
    <3>3. Put(files, f, ValueOr(files, f, EmptyMap)) = files
      BY DEF Put, ValueOr
    <3> QED BY <3>2, <3>3
  <2> QED BY <2>1, <2>2
<1>3. /\ IsList(resized, S)
      /\ \A s \in DOMAIN resized : EntryOK(resized[s])
      /\ Entries(resized) = IF size = 0 THEN {}
                            ELSE {FileMetadata(e.nodeID, size) : e \in Entries(list)}
  <2> HIDE DEF list
  <2>1. CASE size = 0
    BY <2>1, EmptyMapFacts DEF Entries
  <2>2. CASE size # 0
    <3>1. DOMAIN resized = DOMAIN list /\ resized = [s \in DOMAIN resized |-> resized[s]]
      BY <2>2
    <3>2. \A s \in DOMAIN list : resized[s] = FileMetadata(list[s].nodeID, size)
      BY <1>1, <2>2 DEF EntryOK, FileMetadata
    <3>3. \A s \in DOMAIN list : EntryOK(resized[s])
      BY <1>1, <2>2, <3>2, EntryFacts DEF EntryOK, AnySize
    <3> HIDE DEF resized
    <3>4. IsList(resized, S)
      BY <1>1, <3>1 DEF IsMap, IsList
    <3>5. Entries(resized) = {FileMetadata(e.nodeID, size) : e \in Entries(list)}
      BY <3>1, <3>2 DEF Entries
    <3> QED BY <2>2, <3>1, <3>3, <3>4, <3>5
  <2> QED BY <2>1, <2>2
<1> HIDE DEF resized
<1>4. /\ DOMAIN files = DOMAIN rec.backedUpFiles \cup {f}
      /\ files[f] = resized
      /\ \A g \in DOMAIN rec.backedUpFiles \ {f} : files[g] = rec.backedUpFiles[g]
      /\ files = [g \in DOMAIN files |-> files[g]]
  BY DEF Put
<1> HIDE DEF files
<1>5. /\ IsMap(files, Files)
      /\ \A g \in DOMAIN files : /\ IsList(files[g], S)
                                 /\ \A s \in DOMAIN files[g] : EntryOK(files[g][s])
  BY <1>3, <1>4 DEF RecordOK, IsMap
<1>6. RecordOK(new, S) /\ new.backedUpFiles = files /\ new.storedFiles = rec.storedFiles
  BY <1>2, <1>5, NewBackups
<1> HIDE DEF new
<1>7. Replicas(new, f) = Entries(resized)
  BY <1>4, <1>6 DEF Replicas, ValueOr
<1>8. Replicas(rec, f) = Entries(list)
  BY DEF Replicas
<1>9. \A g \in Files \ {f} : Replicas(new, g) = Replicas(rec, g)
  BY <1>4, <1>6 DEF Replicas, ValueOr
<1> QED BY <1>3, <1>4, <1>6, <1>7, <1>8, <1>9 DEF new

(* removeBackup removes every replica of the file on the node. *)
LEMMA RemoveBackupFacts ==
  ASSUME NEW S, NEW rec, RecordOK(rec, S), NEW f \in Files, NEW n
  PROVE  LET new == RemoveBackup(rec, f, n) IN
         /\ RecordOK(new, S)
         /\ new.storedFiles = rec.storedFiles
         /\ DOMAIN new.backedUpFiles = DOMAIN rec.backedUpFiles
         /\ Replicas(new, f) = {e \in Replicas(rec, f) : e.nodeID # n}
         /\ \A g \in Files \ {f} : Replicas(new, g) = Replicas(rec, g)
<1>1. CASE f \notin DOMAIN rec.backedUpFiles
  BY <1>1, ReplicasFacts DEF RemoveBackup
<1>2. CASE f \in DOMAIN rec.backedUpFiles
  <2> DEFINE list == rec.backedUpFiles[f]
             kept == [s \in DOMAIN list \ SlotsOn(rec, f, n) |-> list[s]]
             files == [rec.backedUpFiles EXCEPT ![f] = kept]
             new == RemoveBackup(rec, f, n)
  <2>1. IsList(list, S) /\ \A s \in DOMAIN list : EntryOK(list[s])
    BY <1>2 DEF RecordOK
  <2>2. new = [rec EXCEPT !.backedUpFiles = files]
    BY <1>2 DEF RemoveBackup, RecordOK, IsMap
  <2>3. /\ IsList(kept, S) /\ \A s \in DOMAIN kept : EntryOK(kept[s])
        /\ Entries(kept) = {e \in Entries(list) : e.nodeID # n}
    <3>1. IsMap(kept, S) /\ \A s \in DOMAIN kept : EntryOK(kept[s])
      BY <2>1 DEF IsMap, IsList
    <3>2. IsFiniteSet(DOMAIN kept)
      BY <2>1, FS_Subset DEF IsList
    <3>3. Entries(kept) = {e \in Entries(list) : e.nodeID # n}
      BY DEF Entries, SlotsOn
    <3> QED BY <3>1, <3>2, <3>3 DEF IsList
  <2>4. /\ DOMAIN files = DOMAIN rec.backedUpFiles
        /\ files[f] = kept
        /\ \A g \in DOMAIN files \ {f} : files[g] = rec.backedUpFiles[g]
        /\ IsMap(files, Files)
    BY <1>2 DEF RecordOK, IsMap
  <2> HIDE DEF kept, files
  <2>5. \A g \in DOMAIN files : /\ IsList(files[g], S)
                               /\ \A s \in DOMAIN files[g] : EntryOK(files[g][s])
    BY <2>3, <2>4 DEF RecordOK
  <2>6. RecordOK(new, S) /\ new.backedUpFiles = files /\ new.storedFiles = rec.storedFiles
    BY <2>2, <2>4, <2>5, NewBackups
  <2> HIDE DEF new
  <2>7. Replicas(new, f) = Entries(kept) /\ Replicas(rec, f) = Entries(list)
    BY <1>2, <2>4, <2>6 DEF Replicas, ValueOr
  <2>8. \A g \in Files \ {f} : Replicas(new, g) = Replicas(rec, g)
    BY <2>4, <2>6 DEF Replicas, ValueOr
  <2> QED BY <2>3, <2>4, <2>6, <2>7, <2>8 DEF new
<1> QED BY <1>1, <1>2

(* addStoreFile adds the file unless the node stores it already. *)
LEMMA AddStoreFileFacts ==
  ASSUME NEW S, NEW rec, RecordOK(rec, S), NEW f \in Files, NEW p \in AllIDs, NEW size \in Sizes
  PROVE  LET new == AddStoreFile(rec, f, p, size) IN
         /\ RecordOK(new, S)
         /\ new.backedUpFiles = rec.backedUpFiles
         /\ DOMAIN new.storedFiles = DOMAIN rec.storedFiles \cup {f}
         /\ new.storedFiles[f] = IF f \in DOMAIN rec.storedFiles
                                 THEN rec.storedFiles[f] ELSE FileMetadata(p, size)
         /\ \A g \in DOMAIN rec.storedFiles \ {f} :
              new.storedFiles[g] = rec.storedFiles[g]
<1>1. CASE f \in DOMAIN rec.storedFiles
  BY <1>1 DEF AddStoreFile
<1>2. CASE f \notin DOMAIN rec.storedFiles
  <2> DEFINE files == Put(rec.storedFiles, f, FileMetadata(p, size))
  <2>1. AddStoreFile(rec, f, p, size) = [rec EXCEPT !.storedFiles = files]
    BY <1>2 DEF AddStoreFile, RecordOK
  <2>2. /\ DOMAIN files = DOMAIN rec.storedFiles \cup {f}
        /\ files[f] = FileMetadata(p, size)
        /\ \A g \in DOMAIN rec.storedFiles \ {f} : files[g] = rec.storedFiles[g]
        /\ files = [g \in DOMAIN files |-> files[g]]
    BY DEF Put
  <2> HIDE DEF files
  <2>3. IsMap(files, Files) /\ \A g \in DOMAIN files : EntryOK(files[g])
    BY <2>2, EntryFacts DEF RecordOK, IsMap, AnySize
  <2> QED BY <1>2, <2>1, <2>2, <2>3, NewStored
<1> QED BY <1>1, <1>2

(* updateStoreFileSize with size 0 erases the file. *)
LEMMA EraseStoreFacts ==
  ASSUME NEW S, NEW rec, RecordOK(rec, S), NEW f \in Files
  PROVE  LET new == UpdateStoreFileSize(rec, f, 0) IN
         /\ RecordOK(new, S)
         /\ new.backedUpFiles = rec.backedUpFiles
         /\ DOMAIN new.storedFiles = DOMAIN rec.storedFiles \ {f}
         /\ \A g \in DOMAIN rec.storedFiles \ {f} :
              new.storedFiles[g] = rec.storedFiles[g]
<1> DEFINE files == Erase(rec.storedFiles, f)
           new == UpdateStoreFileSize(rec, f, 0)
<1>1. new = [rec EXCEPT !.storedFiles = files]
  BY DEF UpdateStoreFileSize, RecordOK
<1>2. /\ DOMAIN files = DOMAIN rec.storedFiles \ {f}
      /\ \A g \in DOMAIN rec.storedFiles \ {f} : files[g] = rec.storedFiles[g]
      /\ files = [g \in DOMAIN files |-> files[g]]
  BY DEF Erase
<1> HIDE DEF files, new
<1>3. IsMap(files, Files) /\ \A g \in DOMAIN files : EntryOK(files[g])
  BY <1>2 DEF RecordOK, IsMap
<1>4. /\ RecordOK(new, S)
      /\ new.storedFiles = files /\ new.backedUpFiles = rec.backedUpFiles
  BY <1>1, <1>3, NewStored
<1> QED BY <1>2, <1>4 DEF new

(* updateStoreFileSize of a stored file keeps its owner and sets the size. *)
LEMMA ResizeStoreFacts ==
  ASSUME NEW S, NEW rec, RecordOK(rec, S), NEW f \in DOMAIN rec.storedFiles,
         NEW size \in UpdateSizes \ {0}
  PROVE  LET new == UpdateStoreFileSize(rec, f, size) IN
         /\ RecordOK(new, S)
         /\ new.backedUpFiles = rec.backedUpFiles
         /\ DOMAIN new.storedFiles = DOMAIN rec.storedFiles
         /\ new.storedFiles[f] = FileMetadata(rec.storedFiles[f].nodeID, size)
         /\ \A g \in DOMAIN rec.storedFiles \ {f} :
              new.storedFiles[g] = rec.storedFiles[g]
<1> DEFINE entry == FileMetadata(rec.storedFiles[f].nodeID, size)
           files == Put(rec.storedFiles, f, entry)
<1>1. UpdateStoreFileSize(rec, f, size) = [rec EXCEPT !.storedFiles = files]
  BY DEF UpdateStoreFileSize, RecordOK, ValueOr
<1>2. EntryOK(entry)
  BY EntryFacts DEF RecordOK, EntryOK, AnySize
<1>3. /\ DOMAIN files = DOMAIN rec.storedFiles
      /\ files[f] = entry
      /\ \A g \in DOMAIN rec.storedFiles \ {f} : files[g] = rec.storedFiles[g]
      /\ files = [g \in DOMAIN files |-> files[g]]
  BY DEF Put
<1> HIDE DEF files
<1>4. IsMap(files, Files) /\ \A g \in DOMAIN files : EntryOK(files[g])
  BY <1>2, <1>3 DEF RecordOK, IsMap
<1> QED BY <1>1, <1>3, <1>4, NewStored

(***************************************************************************)
(* What each operation on the database keeps and changes.                  *)
(***************************************************************************)
RecordsOK(recs, S) == IsMap(recs, AllIDs) /\ \A n \in DOMAIN recs : RecordOK(recs[n], S)

(* Replacing one record of the database. *)
LEMMA ReplaceRecord ==
  ASSUME NEW S, NEW recs, RecordsOK(recs, S), NEW n \in DOMAIN recs, NEW rec, RecordOK(rec, S)
  PROVE  LET new == [recs EXCEPT ![n] = rec] IN
         /\ RecordsOK(new, S)
         /\ DOMAIN new = DOMAIN recs
         /\ new[n] = rec
         /\ \A x \in DOMAIN recs \ {n} : new[x] = recs[x]
<1> QED BY DEF RecordsOK, IsMap

(* The records before and after a backup of f by p on n. *)
BackedUp(new, recs, p, n, f, size, S) ==
  /\ RecordsOK(new, S)
  /\ DOMAIN new = DOMAIN recs
  /\ DOMAIN new[p].backedUpFiles = DOMAIN recs[p].backedUpFiles \cup {f}
  /\ \A x \in DOMAIN recs \ {p} :
       DOMAIN new[x].backedUpFiles = DOMAIN recs[x].backedUpFiles
  /\ \A x \in DOMAIN recs, g \in Files :
       Replicas(new[x], g) = IF x = p /\ g = f
                             THEN Replicas(recs[x], g) \cup {FileMetadata(n, size)}
                             ELSE Replicas(recs[x], g)
  /\ \A x \in DOMAIN recs \ {n} : new[x].storedFiles = recs[x].storedFiles
  /\ DOMAIN new[n].storedFiles = DOMAIN recs[n].storedFiles \cup {f}
  /\ \A g \in DOMAIN recs[n].storedFiles :
       new[n].storedFiles[g] = recs[n].storedFiles[g]
  /\ f \notin DOMAIN recs[n].storedFiles =>
       new[n].storedFiles[f] = FileMetadata(p, size)

(* backupFile adds a replica to the owner's list and the file to the node,  *)
(* unless the node stores it already.                                       *)
LEMMA BackupEffect ==
  ASSUME NEW S, NEW recs, RecordsOK(recs, S),
         NEW f \in Files, NEW n \in DOMAIN recs, NEW p \in DOMAIN recs, NEW size \in Sizes,
         HasRoom(ValueOr(recs[p].backedUpFiles, f, EmptyMap), S)
  PROVE  BackedUp(DbBackupFile(recs, p, n, f, size), recs, p, n, f, size, S)
<1> DEFINE a == AddBackupFile(recs[p], f, n, size)
           owned == [recs EXCEPT ![p] = a]
           b == AddStoreFile(owned[n], f, p, size)
           new == DbBackupFile(recs, p, n, f, size)
<1>1. n \in AllIDs /\ p \in AllIDs /\ RecordOK(recs[p], S)
  BY DEF RecordsOK, IsMap
<1>2. /\ RecordOK(a, S)
      /\ a.storedFiles = recs[p].storedFiles
      /\ DOMAIN a.backedUpFiles = DOMAIN recs[p].backedUpFiles \cup {f}
      /\ Replicas(a, f) = Replicas(recs[p], f) \cup {FileMetadata(n, size)}
      /\ \A g \in Files \ {f} : Replicas(a, g) = Replicas(recs[p], g)
  BY <1>1, AddBackupFileFacts
<1>3. new = [owned EXCEPT ![n] = b]
  BY DEF DbBackupFile, RecordsOK, IsMap
<1> HIDE DEF a
<1>4. /\ RecordsOK(owned, S) /\ DOMAIN owned = DOMAIN recs /\ owned[p] = a
      /\ \A x \in DOMAIN recs \ {p} : owned[x] = recs[x]
  BY <1>2, ReplaceRecord
<1> HIDE DEF owned
<1>5. RecordOK(owned[n], S) /\ owned[n].storedFiles = recs[n].storedFiles
  BY <1>2, <1>4 DEF RecordsOK
<1>6. /\ RecordOK(b, S)
      /\ b.backedUpFiles = owned[n].backedUpFiles
      /\ DOMAIN b.storedFiles = DOMAIN owned[n].storedFiles \cup {f}
      /\ b.storedFiles[f] = IF f \in DOMAIN owned[n].storedFiles
                            THEN owned[n].storedFiles[f] ELSE FileMetadata(p, size)
      /\ \A g \in DOMAIN owned[n].storedFiles \ {f} :
           b.storedFiles[g] = owned[n].storedFiles[g]
  BY <1>1, <1>5, AddStoreFileFacts
<1> HIDE DEF b
<1>7. /\ RecordsOK(new, S) /\ DOMAIN new = DOMAIN recs /\ new[n] = b
      /\ \A x \in DOMAIN recs \ {n} : new[x] = owned[x]
  <2> HIDE DEF new
  <2>1. n \in DOMAIN owned /\ RecordsOK(owned, S) /\ RecordOK(b, S)
    BY <1>4, <1>6
  <2> QED BY <1>3, <1>4, <2>1, ReplaceRecord
<1> HIDE DEF new
<1>8. \A x \in DOMAIN recs : new[x].backedUpFiles = owned[x].backedUpFiles
  BY <1>6, <1>7
<1>9. \A x \in DOMAIN recs, g \in Files : Replicas(new[x], g) = Replicas(owned[x], g)
  BY <1>8, Zenon DEF Replicas
<1>10. \A x \in DOMAIN recs, g \in Files :
              Replicas(new[x], g) = IF x = p /\ g = f
                                    THEN Replicas(recs[x], g) \cup {FileMetadata(n, size)}
                                    ELSE Replicas(recs[x], g)
  BY <1>2, <1>4, <1>9
<1>11. \A x \in DOMAIN recs \ {n} : new[x].storedFiles = recs[x].storedFiles
  BY <1>2, <1>4, <1>7
<1>12. /\ DOMAIN new[n].storedFiles = DOMAIN recs[n].storedFiles \cup {f}
       /\ \A g \in DOMAIN recs[n].storedFiles :
            new[n].storedFiles[g] = recs[n].storedFiles[g]
       /\ f \notin DOMAIN recs[n].storedFiles =>
            new[n].storedFiles[f] = FileMetadata(p, size)
  BY <1>5, <1>6, <1>7
<1>13. /\ DOMAIN new[p].backedUpFiles = DOMAIN recs[p].backedUpFiles \cup {f}
       /\ \A x \in DOMAIN recs \ {p} :
            DOMAIN new[x].backedUpFiles = DOMAIN recs[x].backedUpFiles
  BY <1>2, <1>4, <1>8
<1>14. BackedUp(new, recs, p, n, f, size, S)
  BY <1>7, <1>10, <1>11, <1>12, <1>13 DEF BackedUp
<1> QED BY <1>14 DEF new

(* The records before and after the backup of f by p on n is removed. *)
Removed(new, recs, p, n, f, S) ==
  /\ RecordsOK(new, S)
  /\ DOMAIN new = DOMAIN recs
  /\ \A x \in DOMAIN recs :
       DOMAIN new[x].backedUpFiles = DOMAIN recs[x].backedUpFiles
  /\ \A x \in DOMAIN recs, g \in Files :
       Replicas(new[x], g) = IF x = p /\ g = f
                             THEN {e \in Replicas(recs[x], g) : e.nodeID # n}
                             ELSE Replicas(recs[x], g)
  /\ \A x \in DOMAIN recs \ {n} : new[x].storedFiles = recs[x].storedFiles
  /\ DOMAIN new[n].storedFiles = DOMAIN recs[n].storedFiles \ {f}
  /\ \A g \in DOMAIN new[n].storedFiles :
       new[n].storedFiles[g] = recs[n].storedFiles[g]

(* removeBackup removes the replicas on the node and the stored file. *)
LEMMA RemoveEffect ==
  ASSUME NEW S, NEW recs, RecordsOK(recs, S),
         NEW f \in Files, NEW n \in DOMAIN recs, NEW p \in DOMAIN recs
  PROVE  Removed(DbRemoveBackup(recs, p, n, f), recs, p, n, f, S)
<1> DEFINE a == RemoveBackup(recs[p], f, n)
           owned == [recs EXCEPT ![p] = a]
           b == UpdateStoreFileSize(owned[n], f, 0)
           new == DbRemoveBackup(recs, p, n, f)
<1>1. RecordOK(recs[p], S)
  BY DEF RecordsOK
<1>2. /\ RecordOK(a, S)
      /\ a.storedFiles = recs[p].storedFiles
      /\ DOMAIN a.backedUpFiles = DOMAIN recs[p].backedUpFiles
      /\ Replicas(a, f) = {e \in Replicas(recs[p], f) : e.nodeID # n}
      /\ \A g \in Files \ {f} : Replicas(a, g) = Replicas(recs[p], g)
  BY <1>1, RemoveBackupFacts
<1>3. new = [owned EXCEPT ![n] = b]
  BY DEF DbRemoveBackup, RecordsOK, IsMap
<1> HIDE DEF a
<1>4. /\ RecordsOK(owned, S) /\ DOMAIN owned = DOMAIN recs /\ owned[p] = a
      /\ \A x \in DOMAIN recs \ {p} : owned[x] = recs[x]
  BY <1>2, ReplaceRecord
<1> HIDE DEF owned
<1>5. RecordOK(owned[n], S) /\ owned[n].storedFiles = recs[n].storedFiles
  BY <1>2, <1>4 DEF RecordsOK
<1>6. /\ RecordOK(b, S)
      /\ b.backedUpFiles = owned[n].backedUpFiles
      /\ DOMAIN b.storedFiles = DOMAIN owned[n].storedFiles \ {f}
      /\ \A g \in DOMAIN owned[n].storedFiles \ {f} :
           b.storedFiles[g] = owned[n].storedFiles[g]
  BY <1>5, EraseStoreFacts
<1> HIDE DEF b
<1>7. /\ RecordsOK(new, S) /\ DOMAIN new = DOMAIN recs /\ new[n] = b
      /\ \A x \in DOMAIN recs \ {n} : new[x] = owned[x]
  <2> HIDE DEF new
  <2>1. n \in DOMAIN owned /\ RecordsOK(owned, S) /\ RecordOK(b, S)
    BY <1>4, <1>6
  <2> QED BY <1>3, <1>4, <2>1, ReplaceRecord
<1> HIDE DEF new
<1>8. \A x \in DOMAIN recs : new[x].backedUpFiles = owned[x].backedUpFiles
  BY <1>6, <1>7
<1>9. \A x \in DOMAIN recs, g \in Files : Replicas(new[x], g) = Replicas(owned[x], g)
  BY <1>8, Zenon DEF Replicas
<1>10. \A x \in DOMAIN recs, g \in Files :
              Replicas(new[x], g) = IF x = p /\ g = f
                                    THEN {e \in Replicas(recs[x], g) : e.nodeID # n}
                                    ELSE Replicas(recs[x], g)
  BY <1>2, <1>4, <1>9
<1>11. \A x \in DOMAIN recs \ {n} : new[x].storedFiles = recs[x].storedFiles
  BY <1>2, <1>4, <1>7
<1>12. /\ DOMAIN new[n].storedFiles = DOMAIN recs[n].storedFiles \ {f}
       /\ \A g \in DOMAIN new[n].storedFiles :
            new[n].storedFiles[g] = recs[n].storedFiles[g]
  BY <1>5, <1>6, <1>7
<1>13. \A x \in DOMAIN recs :
            DOMAIN new[x].backedUpFiles = DOMAIN recs[x].backedUpFiles
  BY <1>2, <1>4, <1>8
<1>14. Removed(new, recs, p, n, f, S)
  BY <1>7, <1>10, <1>11, <1>12, <1>13 DEF Removed
<1> QED BY <1>14 DEF new

(* The records before and after the size of f, owned by p, is updated. *)
Updated(new, recs, p, f, size, S) ==
  LET nodes == {e.nodeID : e \in Replicas(recs[p], f)} IN
  /\ RecordsOK(new, S)
  /\ DOMAIN new = DOMAIN recs
  /\ DOMAIN new[p].backedUpFiles = DOMAIN recs[p].backedUpFiles \cup {f}
  /\ \A x \in DOMAIN recs \ {p} :
       DOMAIN new[x].backedUpFiles = DOMAIN recs[x].backedUpFiles
  /\ \A x \in DOMAIN recs, g \in Files :
       Replicas(new[x], g) =
         IF x = p /\ g = f
         THEN IF size = 0 THEN {}
              ELSE {FileMetadata(e.nodeID, size) : e \in Replicas(recs[p], f)}
         ELSE Replicas(recs[x], g)
  /\ \A x \in DOMAIN recs :
       DOMAIN new[x].storedFiles = DOMAIN recs[x].storedFiles
  /\ \A x \in DOMAIN recs : \A g \in DOMAIN recs[x].storedFiles :
       new[x].storedFiles[g] =
         IF g = f /\ size # 0 /\ x \in nodes
         THEN FileMetadata(recs[x].storedFiles[f].nodeID, size)
         ELSE recs[x].storedFiles[g]

(* updateFileSize gives the size to every replica in the owner's list and   *)
(* on the nodes of that list; size 0 empties the list and reaches no node.  *)
LEMMA UpdateEffect ==
  ASSUME NEW S, NEW recs, RecordsOK(recs, S),
         NEW f \in Files, NEW p \in DOMAIN recs, NEW size \in UpdateSizes,
         \A e \in Replicas(recs[p], f) :
           e.nodeID \in DOMAIN recs /\ f \in DOMAIN recs[e.nodeID].storedFiles
  PROVE  Updated(DbUpdateFileSize(recs, p, f, size), recs, p, f, size, S)
<1> DEFINE a == TouchBackup(UpdateBackupFileSize(recs[p], f, size), f)
           base == [recs EXCEPT ![p] = a]
           nodes == {e.nodeID : e \in Replicas(recs[p], f)}
           reached == BackupNodes(a, f)
           new == DbUpdateFileSize(recs, p, f, size)
<1>1. RecordOK(recs[p], S)
  BY DEF RecordsOK
<1>2. /\ RecordOK(a, S)
      /\ a.storedFiles = recs[p].storedFiles
      /\ DOMAIN a.backedUpFiles = DOMAIN recs[p].backedUpFiles \cup {f}
      /\ Replicas(a, f) = IF size = 0 THEN {}
                          ELSE {FileMetadata(e.nodeID, size) : e \in Replicas(recs[p], f)}
      /\ \A g \in Files \ {f} : Replicas(a, g) = Replicas(recs[p], g)
  BY <1>1, UpdateBackupFacts
<1> HIDE DEF a
<1>3. /\ RecordsOK(base, S) /\ DOMAIN base = DOMAIN recs /\ base[p] = a
      /\ \A x \in DOMAIN recs \ {p} : base[x] = recs[x]
  BY <1>2, ReplaceRecord
<1>4. reached = IF size = 0 THEN {} ELSE nodes
  <2>1. reached = {e.nodeID : e \in Replicas(a, f)}
    BY <1>2, ReplicasFacts
  <2> QED BY <1>2, <2>1, EntryFacts
<1> HIDE DEF nodes, reached
<1>5. reached \subseteq DOMAIN recs
  BY <1>4 DEF nodes
<1>6. new = [x \in DOMAIN recs |->
              IF x \in reached THEN UpdateStoreFileSize(base[x], f, size) ELSE base[x]]
  <2>1. new = [x \in DOMAIN base \cup reached |->
                 IF x \in reached
                 THEN UpdateStoreFileSize(ValueOr(base, x, MetadataRecord(NoNode)), f, size)
                 ELSE ValueOr(base, x, MetadataRecord(NoNode))]
    BY <1>3 DEF DbUpdateFileSize, a, reached
  <2> HIDE DEF new, base
  <2>2. DOMAIN base \cup reached = DOMAIN recs
    BY <1>3, <1>5
  <2>3. \A x \in DOMAIN recs : ValueOr(base, x, MetadataRecord(NoNode)) = base[x]
    BY <1>3 DEF ValueOr
  <2> QED BY <2>1, <2>2, <2>3
<1> HIDE DEF base, new
<1>7. \A x \in DOMAIN recs : RecordOK(base[x], S) /\ base[x].storedFiles = recs[x].storedFiles
  BY <1>2, <1>3 DEF RecordsOK
<1>8. ASSUME NEW x \in DOMAIN recs
      PROVE  /\ RecordOK(new[x], S)
             /\ new[x].backedUpFiles = base[x].backedUpFiles
             /\ DOMAIN new[x].storedFiles = DOMAIN recs[x].storedFiles
             /\ \A g \in DOMAIN recs[x].storedFiles :
                  new[x].storedFiles[g] =
                    IF g = f /\ size # 0 /\ x \in nodes
                    THEN FileMetadata(recs[x].storedFiles[f].nodeID, size)
                    ELSE recs[x].storedFiles[g]
  <2>1. CASE x \notin reached
    BY <1>4, <1>6, <1>7, <2>1
  <2>2. CASE x \in reached
    <3>1. size # 0 /\ x \in nodes
      BY <1>4, <2>2
    <3>2. f \in DOMAIN base[x].storedFiles
      BY <1>7, <3>1 DEF nodes
    <3>3. new[x] = UpdateStoreFileSize(base[x], f, size)
      BY <1>6, <2>2
    <3>4. /\ RecordOK(new[x], S)
          /\ new[x].backedUpFiles = base[x].backedUpFiles
          /\ DOMAIN new[x].storedFiles = DOMAIN base[x].storedFiles
          /\ new[x].storedFiles[f] = FileMetadata(base[x].storedFiles[f].nodeID, size)
          /\ \A g \in DOMAIN base[x].storedFiles \ {f} :
               new[x].storedFiles[g] = base[x].storedFiles[g]
      BY <1>7, <3>1, <3>2, <3>3, ResizeStoreFacts
    <3> QED BY <1>7, <3>1, <3>4
  <2> QED BY <2>1, <2>2
<1>9. RecordsOK(new, S) /\ DOMAIN new = DOMAIN recs
  BY <1>6, <1>8 DEF RecordsOK, IsMap
<1>10. \A x \in DOMAIN recs, g \in Files : Replicas(new[x], g) = Replicas(base[x], g)
  BY <1>8, Zenon DEF Replicas
<1>11. \A x \in DOMAIN recs, g \in Files :
         Replicas(new[x], g) =
           IF x = p /\ g = f
           THEN IF size = 0 THEN {}
                ELSE {FileMetadata(e.nodeID, size) : e \in Replicas(recs[p], f)}
           ELSE Replicas(recs[x], g)
  BY <1>2, <1>3, <1>10
<1>12. /\ DOMAIN new[p].backedUpFiles = DOMAIN recs[p].backedUpFiles \cup {f}
       /\ \A x \in DOMAIN recs \ {p} :
            DOMAIN new[x].backedUpFiles = DOMAIN recs[x].backedUpFiles
  BY <1>2, <1>3, <1>8
<1>13. Updated(new, recs, p, f, size, S)
  BY <1>8, <1>9, <1>11, <1>12 DEF Updated, nodes
<1> QED BY <1>13 DEF new

(* join adds a record without files, or nothing. *)
LEMMA JoinEffect ==
  ASSUME NEW S, NEW recs, RecordsOK(recs, S), NEW n \in AllIDs, NEW ip \in IPs
  PROVE  LET new == DbJoin(recs, n, ip) IN
         /\ RecordsOK(new, S)
         /\ DOMAIN new = DOMAIN recs \cup {n}
         /\ \A x \in DOMAIN recs : new[x] = recs[x]
         /\ n \notin DOMAIN recs => /\ DOMAIN new[n].backedUpFiles = {}
                                   /\ DOMAIN new[n].storedFiles = {}
                                   /\ \A g \in Files : Replicas(new[n], g) = {}
<1>1. CASE n \in DOMAIN recs
  BY <1>1 DEF DbJoin
<1>2. CASE n \notin DOMAIN recs
  <2> DEFINE rec == MetadataRecord(ip)
             new == DbJoin(recs, n, ip)
  <2>1. RecordOK(rec, S) /\ DOMAIN rec.backedUpFiles = {} /\ DOMAIN rec.storedFiles = {}
    BY NewRecord
  <2>2. \A g \in Files : Replicas(rec, g) = {}
    BY <2>1, ReplicasFacts
  <2> HIDE DEF rec
  <2>3. new = [x \in DOMAIN recs \cup {n} |-> IF x = n THEN rec ELSE recs[x]]
    BY <1>2 DEF DbJoin, Put, rec
  <2> HIDE DEF new
  <2>4. RecordsOK(new, S)
    BY <2>1, <2>3 DEF RecordsOK, IsMap
  <2> QED BY <1>2, <2>1, <2>2, <2>3, <2>4 DEF new
<1> QED BY <1>1, <1>2

(***************************************************************************)
(* The two directions between lists of backups and stored files.           *)
(***************************************************************************)
OwnLists(recs) ==
  \A p \in DOMAIN recs : \A f \in DOMAIN recs[p].backedUpFiles : Owner[f] = p
StoredForOwner(recs) ==
  \A n \in DOMAIN recs : \A f \in DOMAIN recs[n].storedFiles :
    recs[n].storedFiles[f].nodeID = Owner[f]
ReplicasStored(recs) ==
  \A p \in DOMAIN recs, f \in Files : \A e \in Replicas(recs[p], f) :
    e.nodeID \in DOMAIN recs /\ f \in DOMAIN recs[e.nodeID].storedFiles
FilesOK(recs, S) ==
  RecordsOK(recs, S) /\ OwnLists(recs) /\ StoredForOwner(recs) /\ ReplicasStored(recs)

Claimed(recs) ==
  \A n \in DOMAIN recs : \A f \in DOMAIN recs[n].storedFiles :
    /\ Owner[f] \in DOMAIN recs
    /\ FileMetadata(n, recs[n].storedFiles[f].size) \in Replicas(recs[Owner[f]], f)

(* A file in a list or stored by a node is a file. *)
LEMMA FilesAreFiles ==
  ASSUME NEW S, NEW recs, RecordsOK(recs, S), NEW n \in DOMAIN recs
  PROVE  /\ DOMAIN recs[n].backedUpFiles \subseteq Files
         /\ DOMAIN recs[n].storedFiles \subseteq Files
         /\ n \in AllIDs
<1> QED BY DEF RecordsOK, RecordOK, IsMap

(* join keeps both directions. *)
LEMMA JoinKeeps ==
  ASSUME NEW S, NEW recs, FilesOK(recs, S), NEW n \in AllIDs, NEW ip \in IPs
  PROVE  /\ FilesOK(DbJoin(recs, n, ip), S)
         /\ Claimed(recs) => Claimed(DbJoin(recs, n, ip))
<1> DEFINE new == DbJoin(recs, n, ip)
<1>1. /\ RecordsOK(new, S)
      /\ DOMAIN new = DOMAIN recs \cup {n}
      /\ \A x \in DOMAIN recs : new[x] = recs[x]
      /\ n \notin DOMAIN recs => /\ DOMAIN new[n].backedUpFiles = {}
                                /\ DOMAIN new[n].storedFiles = {}
                                /\ \A g \in Files : Replicas(new[n], g) = {}
  BY JoinEffect DEF FilesOK
<1> HIDE DEF new
<1>2. OwnLists(new) /\ StoredForOwner(new)
  BY <1>1 DEF FilesOK, OwnLists, StoredForOwner
<1>3. ReplicasStored(new)
  BY <1>1 DEF FilesOK, ReplicasStored
<1>4. Claimed(recs) => Claimed(new)
  BY <1>1 DEF Claimed
<1> QED BY <1>1, <1>2, <1>3, <1>4 DEF FilesOK, new

(* backupFile of a file by its owner keeps both directions. *)
LEMMA BackupKeeps ==
  ASSUME NEW S, NEW recs, FilesOK(recs, S), NEW f \in Files, NEW n, NEW size \in Sizes,
         Owner[f] \in DOMAIN recs =>
           HasRoom(ValueOr(recs[Owner[f]].backedUpFiles, f, EmptyMap), S)
  PROVE  LET new == DbBackupFile(recs, Owner[f], n, f, size)
         IN  FilesOK(new, S) /\ (Claimed(recs) => Claimed(new))
<1> DEFINE p == Owner[f]
           new == DbBackupFile(recs, p, n, f, size)
<1>1. CASE ~(p \in DOMAIN recs /\ n \in DOMAIN recs)
  BY <1>1 DEF DbBackupFile
<1>2. CASE p \in DOMAIN recs /\ n \in DOMAIN recs
  <2>0. BackedUp(new, recs, p, n, f, size, S)
    <3>1. /\ RecordsOK(recs, S) /\ p \in DOMAIN recs /\ n \in DOMAIN recs
          /\ HasRoom(ValueOr(recs[p].backedUpFiles, f, EmptyMap), S)
      BY <1>2 DEF FilesOK
    <3> HIDE DEF p
    <3> QED BY <3>1, BackupEffect
  <2> HIDE DEF new
  <2>1. /\ RecordsOK(new, S)
        /\ DOMAIN new = DOMAIN recs
        /\ DOMAIN new[p].backedUpFiles = DOMAIN recs[p].backedUpFiles \cup {f}
        /\ \A x \in DOMAIN recs \ {p} :
             DOMAIN new[x].backedUpFiles = DOMAIN recs[x].backedUpFiles
        /\ \A x \in DOMAIN recs, g \in Files :
             Replicas(new[x], g) = IF x = p /\ g = f
                                   THEN Replicas(recs[x], g) \cup {FileMetadata(n, size)}
                                   ELSE Replicas(recs[x], g)
        /\ \A x \in DOMAIN recs \ {n} : new[x].storedFiles = recs[x].storedFiles
        /\ DOMAIN new[n].storedFiles = DOMAIN recs[n].storedFiles \cup {f}
        /\ \A g \in DOMAIN recs[n].storedFiles :
             new[n].storedFiles[g] = recs[n].storedFiles[g]
        /\ f \notin DOMAIN recs[n].storedFiles =>
             new[n].storedFiles[f] = FileMetadata(p, size)
    BY <2>0 DEF BackedUp
  <2>2. OwnLists(new)
    BY <2>1 DEF FilesOK, OwnLists
  <2>3. StoredForOwner(new)
    <3> SUFFICES ASSUME NEW x \in DOMAIN recs, NEW g \in DOMAIN new[x].storedFiles
                 PROVE  new[x].storedFiles[g].nodeID = Owner[g]
      BY <2>1 DEF StoredForOwner
    <3>1. CASE x = n /\ g \notin DOMAIN recs[n].storedFiles
      BY <2>1, <3>1, EntryFacts
    <3>2. CASE ~(x = n /\ g \notin DOMAIN recs[n].storedFiles)
      BY <2>1, <3>2 DEF FilesOK, StoredForOwner
    <3> QED BY <3>1, <3>2
  <2>4. ReplicasStored(new)
    <3> SUFFICES ASSUME NEW x \in DOMAIN recs, NEW g \in Files, NEW e \in Replicas(new[x], g)
                 PROVE  e.nodeID \in DOMAIN recs /\ g \in DOMAIN new[e.nodeID].storedFiles
      BY <2>1 DEF ReplicasStored
    <3>1. CASE e \in Replicas(recs[x], g)
      BY <2>1, <3>1 DEF FilesOK, ReplicasStored
    <3>2. CASE x = p /\ g = f /\ e = FileMetadata(n, size)
      BY <1>2, <2>1, <3>2, EntryFacts
    <3> QED BY <2>1, <3>1, <3>2
  <2>5. ASSUME Claimed(recs) PROVE Claimed(new)
    <3> SUFFICES ASSUME NEW x \in DOMAIN recs, NEW g \in DOMAIN new[x].storedFiles
                 PROVE  /\ Owner[g] \in DOMAIN recs
                        /\ FileMetadata(x, new[x].storedFiles[g].size)
                             \in Replicas(new[Owner[g]], g)
      BY <2>1 DEF Claimed
    <3>0. g \in Files
      BY <2>1, FilesAreFiles
    <3>1. CASE x = n /\ g \notin DOMAIN recs[n].storedFiles
      BY <1>2, <2>1, <3>1, EntryFacts
    <3>2. CASE ~(x = n /\ g \notin DOMAIN recs[n].storedFiles)
      <4>1. g \in DOMAIN recs[x].storedFiles /\ new[x].storedFiles[g] = recs[x].storedFiles[g]
        BY <2>1, <3>2
      <4>2. /\ Owner[g] \in DOMAIN recs
            /\ FileMetadata(x, recs[x].storedFiles[g].size) \in Replicas(recs[Owner[g]], g)
        BY <2>5, <4>1 DEF Claimed
      <4> QED BY <2>1, <3>0, <4>1, <4>2
    <3> QED BY <3>1, <3>2
  <2> QED BY <2>1, <2>2, <2>3, <2>4, <2>5 DEF FilesOK, new
<1> QED BY <1>1, <1>2

(* removeBackup of a file of its owner keeps both directions. *)
LEMMA RemoveKeeps ==
  ASSUME NEW S, NEW recs, FilesOK(recs, S), NEW f \in Files, NEW n
  PROVE  LET new == DbRemoveBackup(recs, Owner[f], n, f)
         IN  FilesOK(new, S) /\ (Claimed(recs) => Claimed(new)) /\ DOMAIN new = DOMAIN recs
<1> DEFINE p == Owner[f]
           new == DbRemoveBackup(recs, p, n, f)
<1>1. CASE ~(p \in DOMAIN recs /\ n \in DOMAIN recs)
  BY <1>1 DEF DbRemoveBackup
<1>2. CASE p \in DOMAIN recs /\ n \in DOMAIN recs
  <2>1. Removed(new, recs, p, n, f, S)
    <3>1. RecordsOK(recs, S) /\ p \in DOMAIN recs /\ n \in DOMAIN recs
      BY <1>2 DEF FilesOK
    <3> HIDE DEF p
    <3> QED BY <3>1, RemoveEffect
  <2> HIDE DEF new
  <2>2. RecordsOK(new, S) /\ DOMAIN new = DOMAIN recs
    BY <2>1 DEF Removed
  <2>3. OwnLists(new)
    BY <2>1 DEF Removed, FilesOK, OwnLists
  <2>4. \A x \in DOMAIN recs : \A g \in DOMAIN new[x].storedFiles :
          /\ g \in DOMAIN recs[x].storedFiles
          /\ new[x].storedFiles[g] = recs[x].storedFiles[g]
          /\ ~(x = n /\ g = f)
    BY <2>1 DEF Removed
  <2>5. StoredForOwner(new)
    BY <2>2, <2>4 DEF FilesOK, StoredForOwner
  <2>6. ReplicasStored(new)
    <3> SUFFICES ASSUME NEW x \in DOMAIN recs, NEW g \in Files, NEW e \in Replicas(new[x], g)
                 PROVE  e.nodeID \in DOMAIN recs /\ g \in DOMAIN new[e.nodeID].storedFiles
      BY <2>2 DEF ReplicasStored
    <3>1. e \in Replicas(recs[x], g) /\ ~(x = p /\ g = f /\ e.nodeID = n)
      BY <2>1 DEF Removed
    <3>2. e.nodeID \in DOMAIN recs /\ g \in DOMAIN recs[e.nodeID].storedFiles
      BY <3>1 DEF FilesOK, ReplicasStored
    <3>3. ~(e.nodeID = n /\ g = f)
      <4> SUFFICES ASSUME e.nodeID = n, g = f PROVE x = p
        BY <3>1
      <4>1. f \in DOMAIN recs[x].backedUpFiles
        <5>1. RecordOK(recs[x], S)
          BY DEF FilesOK, RecordsOK
        <5> QED BY <3>1, <5>1, ReplicasFacts
      <4> QED BY <4>1 DEF FilesOK, OwnLists
    <3> QED BY <2>1, <3>2, <3>3 DEF Removed
  <2>7. ASSUME Claimed(recs) PROVE Claimed(new)
    <3> SUFFICES ASSUME NEW x \in DOMAIN recs, NEW g \in DOMAIN new[x].storedFiles
                 PROVE  /\ Owner[g] \in DOMAIN recs
                        /\ FileMetadata(x, new[x].storedFiles[g].size)
                             \in Replicas(new[Owner[g]], g)
      BY <2>2 DEF Claimed
    <3>1. g \in Files
      BY <2>2, FilesAreFiles
    <3>2. /\ Owner[g] \in DOMAIN recs
          /\ FileMetadata(x, new[x].storedFiles[g].size) \in Replicas(recs[Owner[g]], g)
      BY <2>4, <2>7 DEF Claimed
    <3>3. FileMetadata(x, new[x].storedFiles[g].size).nodeID = x /\ ~(x = n /\ g = f)
      BY <2>4, EntryFacts
    <3> QED BY <2>1, <3>1, <3>2, <3>3 DEF Removed
  <2> QED BY <2>2, <2>3, <2>5, <2>6, <2>7 DEF FilesOK, new
<1> QED BY <1>1, <1>2

(* updateFileSize of a file by its owner keeps the lists; with a size other *)
(* than 0 it keeps the stored files claimed, too.                           *)
LEMMA UpdateKeeps ==
  ASSUME NEW S, NEW recs, FilesOK(recs, S), NEW f \in Files, NEW size \in UpdateSizes
  PROVE  LET new == DbUpdateFileSize(recs, Owner[f], f, size)
         IN  /\ FilesOK(new, S)
             /\ size # 0 /\ Claimed(recs) => Claimed(new)
             /\ DOMAIN new = DOMAIN recs
<1> DEFINE p == Owner[f]
           new == DbUpdateFileSize(recs, p, f, size)
<1>1. CASE p \notin DOMAIN recs
  BY <1>1 DEF DbUpdateFileSize
<1>2. CASE p \in DOMAIN recs
  <2>1. Updated(new, recs, p, f, size, S)
    <3>1. RecordsOK(recs, S) /\ p \in DOMAIN recs
      BY <1>2 DEF FilesOK
    <3>2. \A e \in Replicas(recs[p], f) :
            e.nodeID \in DOMAIN recs /\ f \in DOMAIN recs[e.nodeID].storedFiles
      BY <1>2 DEF FilesOK, ReplicasStored
    <3> HIDE DEF p
    <3> QED BY <3>1, <3>2, UpdateEffect
  <2> HIDE DEF new
  <2>2. RecordsOK(new, S) /\ DOMAIN new = DOMAIN recs
    BY <2>1 DEF Updated
  <2>3. OwnLists(new)
    BY <2>1 DEF Updated, FilesOK, OwnLists
  <2>4. \A x \in DOMAIN recs : DOMAIN new[x].storedFiles = DOMAIN recs[x].storedFiles
    BY <2>1 DEF Updated
  <2>5. StoredForOwner(new)
    <3> SUFFICES ASSUME NEW x \in DOMAIN recs, NEW g \in DOMAIN recs[x].storedFiles
                 PROVE  new[x].storedFiles[g].nodeID = Owner[g]
      BY <2>2, <2>4 DEF StoredForOwner
    <3>1. recs[x].storedFiles[g].nodeID = Owner[g]
      BY DEF FilesOK, StoredForOwner
    <3>2. \/ new[x].storedFiles[g] = recs[x].storedFiles[g]
          \/ g = f /\ new[x].storedFiles[g] = FileMetadata(recs[x].storedFiles[f].nodeID, size)
      BY <2>1 DEF Updated
    <3> QED BY <3>1, <3>2, EntryFacts
  <2>6. ReplicasStored(new)
    <3> SUFFICES ASSUME NEW x \in DOMAIN recs, NEW g \in Files, NEW e \in Replicas(new[x], g)
                 PROVE  e.nodeID \in DOMAIN recs /\ g \in DOMAIN recs[e.nodeID].storedFiles
      BY <2>2, <2>4 DEF ReplicasStored
    <3>1. PICK d \in Replicas(recs[x], g) : e.nodeID = d.nodeID
      <4>1. CASE x = p /\ g = f
        <5>1. size # 0 /\ e \in {FileMetadata(d.nodeID, size) : d \in Replicas(recs[p], f)}
          BY <2>1, <4>1 DEF Updated
        <5> QED BY <4>1, <5>1, EntryFacts
      <4>2. CASE ~(x = p /\ g = f)
        BY <2>1, <4>2 DEF Updated
      <4> QED BY <4>1, <4>2
    <3> QED BY <3>1 DEF FilesOK, ReplicasStored
  <2>7. ASSUME size # 0, Claimed(recs) PROVE Claimed(new)
    <3> SUFFICES ASSUME NEW x \in DOMAIN recs, NEW g \in DOMAIN recs[x].storedFiles
                 PROVE  /\ Owner[g] \in DOMAIN recs
                        /\ FileMetadata(x, new[x].storedFiles[g].size)
                             \in Replicas(new[Owner[g]], g)
      BY <2>2, <2>4 DEF Claimed
    <3>1. g \in Files
      BY FilesAreFiles DEF FilesOK
    <3>2. /\ Owner[g] \in DOMAIN recs
          /\ FileMetadata(x, recs[x].storedFiles[g].size) \in Replicas(recs[Owner[g]], g)
      BY <2>7 DEF Claimed
    <3>3. CASE g = f
      <4> DEFINE claim == FileMetadata(x, recs[x].storedFiles[f].size)
      <4>1. claim \in Replicas(recs[p], f) /\ claim.nodeID = x
        BY <3>2, <3>3, EntryFacts
      <4> HIDE DEF claim
      <4>2. new[x].storedFiles[f].size = size
        <5>1. x \in {e.nodeID : e \in Replicas(recs[p], f)}
          BY <4>1
        <5>2. new[x].storedFiles[f] = FileMetadata(recs[x].storedFiles[f].nodeID, size)
          BY <2>1, <2>7, <3>3, <5>1 DEF Updated
        <5> QED BY <5>2, EntryFacts
      <4>3. Replicas(new[p], f) = {FileMetadata(e.nodeID, size) : e \in Replicas(recs[p], f)}
        BY <1>2, <2>1, <2>7 DEF Updated
      <4> QED BY <3>2, <3>3, <4>1, <4>2, <4>3
    <3>4. CASE g # f
      BY <2>1, <3>1, <3>2, <3>4 DEF Updated
    <3> QED BY <3>3, <3>4
  <2> QED BY <2>2, <2>3, <2>5, <2>6, <2>7 DEF FilesOK, new
<1> QED BY <1>1, <1>2

(* An operation on the blacklisters of one record keeps both directions. *)
LEMMA OtherFieldKeeps ==
  ASSUME NEW S, NEW recs, FilesOK(recs, S), NEW n \in DOMAIN recs, NEW rec, RecordOK(rec, S),
         rec.backedUpFiles = recs[n].backedUpFiles, rec.storedFiles = recs[n].storedFiles
  PROVE  LET new == [recs EXCEPT ![n] = rec]
         IN  FilesOK(new, S) /\ (Claimed(recs) => Claimed(new)) /\ DOMAIN new = DOMAIN recs
<1> DEFINE new == [recs EXCEPT ![n] = rec]
<1>1. /\ RecordsOK(new, S) /\ DOMAIN new = DOMAIN recs /\ new[n] = rec
      /\ \A x \in DOMAIN recs \ {n} : new[x] = recs[x]
  BY ReplaceRecord DEF FilesOK
<1> HIDE DEF new
<1>2. \A x \in DOMAIN recs : /\ new[x].backedUpFiles = recs[x].backedUpFiles
                             /\ new[x].storedFiles = recs[x].storedFiles
  BY <1>1
<1>3. \A x \in DOMAIN recs, g \in Files : Replicas(new[x], g) = Replicas(recs[x], g)
  BY <1>2, Zenon DEF Replicas
<1>4. OwnLists(new) /\ StoredForOwner(new)
  BY <1>1, <1>2 DEF FilesOK, OwnLists, StoredForOwner
<1>5. ReplicasStored(new)
  BY <1>1, <1>2, <1>3 DEF FilesOK, ReplicasStored
<1>6. ASSUME Claimed(recs) PROVE Claimed(new)
  <2> SUFFICES ASSUME NEW x \in DOMAIN recs, NEW g \in DOMAIN recs[x].storedFiles
               PROVE  /\ Owner[g] \in DOMAIN recs
                      /\ FileMetadata(x, recs[x].storedFiles[g].size)
                           \in Replicas(new[Owner[g]], g)
    BY <1>1, <1>2 DEF Claimed
  <2>1. g \in Files
    BY FilesAreFiles DEF FilesOK
  <2> QED BY <1>3, <1>6, <2>1 DEF Claimed
<1> QED BY <1>1, <1>4, <1>5, <1>6 DEF FilesOK, new

(***************************************************************************)
(* The same of a state and the next one.                                   *)
(***************************************************************************)
(* The empty database. *)
LEMMA EmptyDatabase ==
  /\ \A S : FilesOK(NoRecords, S)
  /\ Claimed(NoRecords)
  /\ DOMAIN NoRecords = {}
<1>1. DOMAIN NoRecords = {} /\ IsMap(NoRecords, AllIDs)
  BY EmptyMapFacts DEF NoRecords
<1> QED BY <1>1
  DEF FilesOK, RecordsOK, OwnLists, StoredForOwner, ReplicasStored, Claimed

(* A step that leads to well-formed records, while the clock does not run   *)
(* backwards.                                                               *)
LEMMA FilesStep ==
  ASSUME NEW S, NEW new, FilesOK(new, S), records' = new,
         now \in Nat, now' \in Nat, now <= now'
  PROVE  FilesOK(records, S)' /\ (Claimed(new) => Claimed(records)')
<1>1. \A t \in 0..now : t \in 0..now'
  OBVIOUS
<1>2. RecordsOK(records, S)'
  BY <1>1 DEF FilesOK, RecordsOK, RecordOK
<1> QED BY <1>2 DEF FilesOK, OwnLists, StoredForOwner, ReplicasStored, Claimed

(* The index after join. *)
LEMMA JoinIndex ==
  ASSUME sortedIDs \in [AllIDs -> Nat], IndexMatchesRecords, NEW n \in AllIDs, NEW ip,
         records' = DbJoin(records, n, ip), sortedIDs' = [sortedIDs EXCEPT ![n] = @ + 1]
  PROVE  IndexMatchesRecords'
<1>1. DOMAIN records' = DOMAIN records \cup {n}
  BY DEF DbJoin, Put
<1>2. \A x \in AllIDs : sortedIDs'[x] > 0 <=> sortedIDs[x] > 0 \/ x = n
  OBVIOUS
<1> QED BY <1>1, <1>2 DEF IndexMatchesRecords

(* Where both directions agree, nothing dangles.                            *)
LEMMA FilesImplyNoDangling ==
  ASSUME NEW S, FilesOK(records, S)
  PROVE  NoDanglingReplica
<1> SUFFICES ASSUME NEW p \in DOMAIN records, NEW f \in DOMAIN records[p].backedUpFiles,
                    NEW n \in BackupNodes(records[p], f)
             PROVE  /\ n \in DOMAIN records
                    /\ f \in DOMAIN records[n].storedFiles
                    /\ records[n].storedFiles[f].nodeID = p
  BY DEF NoDanglingReplica
<1>1. f \in Files /\ Owner[f] = p
  BY FilesAreFiles DEF FilesOK, OwnLists
<1>2. PICK e \in Replicas(records[p], f) : e.nodeID = n
  <2>1. RecordOK(records[p], S)
    BY DEF FilesOK, RecordsOK
  <2> QED BY <2>1, ReplicasFacts
<1>3. n \in DOMAIN records /\ f \in DOMAIN records[n].storedFiles
  BY <1>1, <1>2 DEF FilesOK, ReplicasStored
<1> QED BY <1>1, <1>3 DEF FilesOK, StoredForOwner

(* Where they agree and every stored file is claimed, the sizes agree too.  *)
LEMMA ClaimedFacts ==
  ASSUME NEW S, FilesOK(records, S), Claimed(records)
  PROVE  StoredIsClaimed
<1> SUFFICES ASSUME NEW n \in DOMAIN records, NEW f \in DOMAIN records[n].storedFiles
             PROVE  LET p == records[n].storedFiles[f].nodeID
                    IN  /\ p \in DOMAIN records
                        /\ f \in DOMAIN records[p].backedUpFiles
                        /\ FileMetadata(n, records[n].storedFiles[f].size)
                             \in Entries(records[p].backedUpFiles[f])
  BY DEF StoredIsClaimed, Entries
<1>1. records[n].storedFiles[f].nodeID = Owner[f]
  BY DEF FilesOK, StoredForOwner
<1>2. /\ Owner[f] \in DOMAIN records
      /\ FileMetadata(n, records[n].storedFiles[f].size) \in Replicas(records[Owner[f]], f)
  BY DEF Claimed
<1>3. RecordOK(records[Owner[f]], S)
  BY <1>2 DEF FilesOK, RecordsOK
<1> QED BY <1>1, <1>2, <1>3, ReplicasFacts

(***************************************************************************)
(* Blacklisters: of all operations only blacklistNode and get touch them.  *)
(***************************************************************************)
HasFields(rec) ==
  rec = [nodeIP |-> rec.nodeIP, blacklisters |-> rec.blacklisters,
         backedUpFiles |-> rec.backedUpFiles, storedFiles |-> rec.storedFiles]

(* One record is another with other files.                                  *)
SameComplaints(new, rec) == HasFields(new) /\ new.blacklisters = rec.blacklisters

(* No operation on the files of a record touches its blacklisters.          *)
LEMMA FilesOnly ==
  ASSUME NEW rec, HasFields(rec), NEW f, NEW n, NEW size
  PROVE  /\ SameComplaints(AddBackupFile(rec, f, n, size), rec)
         /\ SameComplaints(AddStoreFile(rec, f, n, size), rec)
         /\ SameComplaints(UpdateStoreFileSize(rec, f, size), rec)
         /\ SameComplaints(UpdateBackupFileSize(rec, f, size), rec)
         /\ SameComplaints(TouchBackup(rec, f), rec)
         /\ SameComplaints(RemoveBackup(rec, f, n), rec)
<1>1. SameComplaints(AddBackupFile(rec, f, n, size), rec)
  BY DEF HasFields, SameComplaints, AddBackupFile
<1>2. SameComplaints(AddStoreFile(rec, f, n, size), rec)
  BY DEF HasFields, SameComplaints, AddStoreFile
<1>3. SameComplaints(UpdateStoreFileSize(rec, f, size), rec)
  BY DEF HasFields, SameComplaints, UpdateStoreFileSize
<1>4. SameComplaints(UpdateBackupFileSize(rec, f, size), rec)
  BY DEF HasFields, SameComplaints, UpdateBackupFileSize
<1>5. SameComplaints(TouchBackup(rec, f), rec)
  BY DEF HasFields, SameComplaints, TouchBackup
<1>6. SameComplaints(RemoveBackup(rec, f, n), rec)
  BY DEF HasFields, SameComplaints, RemoveBackup
<1> QED BY <1>1, <1>2, <1>3, <1>4, <1>5, <1>6

(* Nor does an operation of the database on the files of a node.            *)
LEMMA FileOperations ==
  ASSUME NEW recs, IsMap(recs, AllIDs), \A x \in DOMAIN recs : HasFields(recs[x]),
         NEW p, NEW n, NEW f, NEW size, NEW x \in DOMAIN recs
  PROVE  /\ x \in DOMAIN DbBackupFile(recs, p, n, f, size)
         /\ DbBackupFile(recs, p, n, f, size)[x].blacklisters = recs[x].blacklisters
         /\ x \in DOMAIN DbRemoveBackup(recs, p, n, f)
         /\ DbRemoveBackup(recs, p, n, f)[x].blacklisters = recs[x].blacklisters
         /\ x \in DOMAIN DbUpdateFileSize(recs, p, f, size)
         /\ DbUpdateFileSize(recs, p, f, size)[x].blacklisters = recs[x].blacklisters
<1>1. /\ x \in DOMAIN DbBackupFile(recs, p, n, f, size)
      /\ DbBackupFile(recs, p, n, f, size)[x].blacklisters = recs[x].blacklisters
  <2>1. CASE p \in DOMAIN recs /\ n \in DOMAIN recs
    <3> DEFINE owned == [recs EXCEPT ![p] = AddBackupFile(recs[p], f, n, size)]
    <3>1. DOMAIN owned = DOMAIN recs /\ \A y \in DOMAIN recs : SameComplaints(owned[y], recs[y])
      BY <2>1, FilesOnly DEF SameComplaints
    <3>2. DbBackupFile(recs, p, n, f, size) =
            [owned EXCEPT ![n] = AddStoreFile(owned[n], f, p, size)]
      BY <2>1 DEF DbBackupFile
    <3> HIDE DEF owned
    <3>3. SameComplaints(AddStoreFile(owned[n], f, p, size), owned[n])
      BY <3>1, <2>1, FilesOnly DEF SameComplaints
    <3> QED BY <2>1, <3>1, <3>2, <3>3 DEF SameComplaints
  <2>2. CASE ~(p \in DOMAIN recs /\ n \in DOMAIN recs)
    BY <2>2 DEF DbBackupFile
  <2> QED BY <2>1, <2>2
<1>2. /\ x \in DOMAIN DbRemoveBackup(recs, p, n, f)
      /\ DbRemoveBackup(recs, p, n, f)[x].blacklisters = recs[x].blacklisters
  <2>1. CASE p \in DOMAIN recs /\ n \in DOMAIN recs
    <3> DEFINE released == [recs EXCEPT ![p] = RemoveBackup(recs[p], f, n)]
    <3>1. /\ DOMAIN released = DOMAIN recs
          /\ \A y \in DOMAIN recs : SameComplaints(released[y], recs[y])
      BY <2>1, FilesOnly DEF SameComplaints
    <3>2. DbRemoveBackup(recs, p, n, f) =
            [released EXCEPT ![n] = UpdateStoreFileSize(released[n], f, 0)]
      BY <2>1 DEF DbRemoveBackup
    <3> HIDE DEF released
    <3>3. SameComplaints(UpdateStoreFileSize(released[n], f, 0), released[n])
      BY <3>1, <2>1, FilesOnly DEF SameComplaints
    <3> QED BY <2>1, <3>1, <3>2, <3>3 DEF SameComplaints
  <2>2. CASE ~(p \in DOMAIN recs /\ n \in DOMAIN recs)
    BY <2>2 DEF DbRemoveBackup
  <2> QED BY <2>1, <2>2
<1>3. /\ x \in DOMAIN DbUpdateFileSize(recs, p, f, size)
      /\ DbUpdateFileSize(recs, p, f, size)[x].blacklisters = recs[x].blacklisters
  <2>1. CASE p \in DOMAIN recs
    <3> DEFINE own == TouchBackup(UpdateBackupFileSize(recs[p], f, size), f)
               base == [recs EXCEPT ![p] = own]
               nodes == BackupNodes(base[p], f)
    <3>1. SameComplaints(own, recs[p])
      BY <2>1, FilesOnly DEF SameComplaints
    <3> HIDE DEF own
    <3>2. DOMAIN base = DOMAIN recs /\ \A y \in DOMAIN recs : SameComplaints(base[y], recs[y])
      BY <2>1, <3>1 DEF SameComplaints
    <3>3. DbUpdateFileSize(recs, p, f, size) =
            [y \in DOMAIN base \cup nodes |->
               IF y \in nodes
               THEN UpdateStoreFileSize(ValueOr(base, y, MetadataRecord(NoNode)), f, size)
               ELSE ValueOr(base, y, MetadataRecord(NoNode))]
      BY <2>1 DEF DbUpdateFileSize, own
    <3> HIDE DEF base, nodes
    <3>4. x \in DOMAIN base /\ ValueOr(base, x, MetadataRecord(NoNode)) = base[x]
      BY <3>2 DEF ValueOr
    <3>5. SameComplaints(UpdateStoreFileSize(base[x], f, size), base[x])
      BY <3>2, FilesOnly DEF SameComplaints
    <3> QED BY <3>2, <3>3, <3>4, <3>5 DEF SameComplaints
  <2>2. CASE p \notin DOMAIN recs
    BY <2>2 DEF DbUpdateFileSize
  <2> QED BY <2>1, <2>2
<1> QED BY <1>1, <1>2, <1>3

(* What the commands and serialize do to the records.                       *)
Effect ==
  \/ \E n \in AllIDs, ip \in IPs : records' = DbJoin(records, n, ip)
  \/ \E n \in AllIDs, c \in Blacklisters : records' = DbBlacklistNode(records, n, c, now)
  \/ \E n \in DOMAIN records, visited \in SUBSET Blacklisters :
       records' = [records EXCEPT ![n] = Pruned(records[n], now, visited)]
  \/ \E f \in Files, n \in AllIDs, size \in Sizes :
       records' = DbBackupFile(records, Owner[f], n, f, size)
  \/ \E f \in Files, size \in UpdateSizes :
       records' = DbUpdateFileSize(records, Owner[f], f, size)
  \/ \E f \in Files, n \in AllIDs : records' = DbRemoveBackup(records, Owner[f], n, f)

(* None of them drops or renews a complaint that is not older than          *)
(* PRUNE_AGE.                                                               *)
LEMMA EffectsKeepComplaints ==
  ASSUME NEW S, RecordsOK(records, S), now \in Nat, Effect, NEW m \in DOMAIN records,
         NEW b \in DOMAIN records[m].blacklisters,
         now - records[m].blacklisters[b] <= PruneAge
  PROVE  /\ b \in DOMAIN records'[m].blacklisters
         /\ records'[m].blacklisters[b] = records[m].blacklisters[b]
<1> DEFINE Goal == /\ b \in DOMAIN records'[m].blacklisters
                   /\ records'[m].blacklisters[b] = records[m].blacklisters[b]
<1>0. /\ IsMap(records, AllIDs) /\ \A x \in DOMAIN records : HasFields(records[x])
      /\ \A x \in DOMAIN records : RecordOK(records[x], S)
  BY DEF RecordsOK, RecordOK, HasFields
<1>1. ASSUME NEW n \in AllIDs, NEW ip \in IPs, records' = DbJoin(records, n, ip) PROVE Goal
  <2>1. CASE n \in DOMAIN records
    <3>1. records' = records
      BY <1>1, <2>1 DEF DbJoin
    <3> QED BY <3>1
  <2>2. CASE n \notin DOMAIN records
    <3>1. records' = Put(records, n, MetadataRecord(ip))
      BY <1>1, <2>2 DEF DbJoin
    <3>2. records'[m] = records[m]
      BY <3>1, <2>2 DEF Put
    <3> QED BY <3>2
  <2> QED BY <2>1, <2>2
<1>2. ASSUME NEW n \in AllIDs, NEW c \in Blacklisters,
             records' = DbBlacklistNode(records, n, c, now)
      PROVE  Goal
  <2>1. CASE n = m /\ c \notin DOMAIN records[m].blacklisters
    <3>1. records'[m] = [records[m] EXCEPT !.blacklisters = Put(records[m].blacklisters, c, now)]
      BY <1>0, <1>2, <2>1 DEF DbBlacklistNode, AddBlacklister
    <3>2. records'[m].blacklisters = Put(records[m].blacklisters, c, now)
      BY <3>1, <1>0 DEF HasFields
    <3> QED BY <3>2, <2>1 DEF Put
  <2>2. CASE ~(n = m /\ c \notin DOMAIN records[m].blacklisters)
    BY <1>0, <1>2, <2>2 DEF DbBlacklistNode, AddBlacklister
  <2> QED BY <2>1, <2>2
<1>3. ASSUME NEW n \in DOMAIN records, NEW visited \in SUBSET Blacklisters,
             records' = [records EXCEPT ![n] = Pruned(records[n], now, visited)]
      PROVE  Goal
  <2>1. CASE n = m
    <3>1. records'[m] = Pruned(records[m], now, visited)
      BY <1>3, <2>1
    <3>2. records'[m].blacklisters =
            [c \in DOMAIN records[m].blacklisters \ (visited \cap Expired(records[m], now))
               |-> records[m].blacklisters[c]]
      BY <3>1, <1>0 DEF Pruned, HasFields
    <3>3. b \notin Expired(records[m], now)
      <4>1. now \in Nat /\ records[m].blacklisters[b] \in Nat /\ PruneAge \in Nat
        BY <1>0, DatabaseAssumption DEF RecordOK
      <4> QED BY <4>1 DEF Expired
    <3> QED BY <3>2, <3>3
  <2>2. CASE n # m
    BY <1>3, <2>2
  <2> QED BY <2>1, <2>2
<1>4. ASSUME NEW f \in Files, NEW n \in AllIDs, NEW size \in Sizes,
             records' = DbBackupFile(records, Owner[f], n, f, size)
      PROVE  Goal
  BY <1>4, <1>0, FileOperations
<1>5. ASSUME NEW f \in Files, NEW size \in UpdateSizes,
             records' = DbUpdateFileSize(records, Owner[f], f, size)
      PROVE  Goal
  BY <1>5, <1>0, FileOperations
<1>6. ASSUME NEW f \in Files, NEW n \in AllIDs,
             records' = DbRemoveBackup(records, Owner[f], n, f)
      PROVE  Goal
  BY <1>6, <1>0, FileOperations
<1> HIDE DEF Goal
<1>7. Goal
  BY <1>1, <1>2, <1>3, <1>4, <1>5, <1>6 DEF Effect
<1> QED BY <1>7 DEF Goal
=============================================================================
