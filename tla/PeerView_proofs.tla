--------------------------- MODULE PeerView_proofs ---------------------------
(* Proofs about what a peer learns of a node, for any nodes and files: in   *)
(* every state of the database by itself, and of the tracker and its        *)
(* callers, where records are pruned outside the mutex.                     *)
EXTENDS PeerView, TrackerDatabase_proofs, TrackerServer_proofs

(***************************************************************************)
(* The codec.                                                              *)
(***************************************************************************)
(* What is appended to an empty list is the list. *)
LEMMA ConcatEmpty ==
  ASSUME NEW S \in SUBSET Nat, NEW list, IsMap(list, S)
  PROVE  Concat(EmptyMap, list) = list
<1>1. DOMAIN EmptyMap = {}
  BY EmptyMapFacts
<1>2. Max({0} \cup DOMAIN EmptyMap) = 0
  BY <1>1 DEF Max
<1>3. \A t \in DOMAIN list : t \in Nat /\ 0 + t = t /\ t - 0 = t
  BY DEF IsMap
<1>4. {0 + t : t \in DOMAIN list} = DOMAIN list
  BY <1>3
<1>5. Concat(EmptyMap, list) = [s \in DOMAIN list |-> list[s - 0]]
  BY <1>1, <1>2, <1>4 DEF Concat
<1> QED BY <1>3, <1>5 DEF IsMap

(* Inserting into an empty map gives what is inserted. *)
LEMMA InsertIntoEmpty ==
  ASSUME NEW map
  PROVE  /\ DOMAIN InsertAll(EmptyMap, map) = DOMAIN map
         /\ \A k \in DOMAIN map : InsertAll(EmptyMap, map)[k] = map[k]
<1>1. DOMAIN EmptyMap = {}
  BY EmptyMapFacts
<1> QED BY <1>1 DEF InsertAll

(* What is left of a record on its way to a peer.                           *)
Carries(view, rec, ids) ==
  /\ DOMAIN view.blacklisters = ids
  /\ \A b \in ids : view.blacklisters[b] = rec.blacklisters[b]
  /\ \A f \in Files : ValueOr(view.backedUpFiles, f, EmptyMap) =
       IF f \in DOMAIN rec.backedUpFiles /\ DOMAIN rec.backedUpFiles[f] # {}
       THEN rec.backedUpFiles[f] ELSE EmptyMap
  /\ DOMAIN view.storedFiles = DOMAIN rec.storedFiles

LEMMA Transferred ==
  ASSUME NEW S \in SUBSET Nat, NEW rec, RecordOK(rec, S),
         NEW ids \in SUBSET DOMAIN rec.blacklisters
  PROVE  Carries(Unserialize(MetadataRecord(NoNode), Serialize(rec, ids)), rec, ids)
<1> DEFINE json == Serialize(rec, ids)
           view == Unserialize(MetadataRecord(NoNode), json)
           lister(b) == [nodeID |-> b, timestamp |-> rec.blacklisters[b]]
           listed == {lister(b) : b \in ids}
           file(f) == [fileID |-> f, fileMetadata |-> rec.storedFiles[f]]
           stored == {file(f) : f \in DOMAIN rec.storedFiles}
           files == {f \in DOMAIN rec.backedUpFiles : DOMAIN rec.backedUpFiles[f] # {}}
<1>1. /\ json.blacklisters = listed
      /\ json.backedUpFiles = rec.backedUpFiles
      /\ Field(json, "storedFiles", {}) = stored
  BY DEF Serialize, Field
<1>2. /\ view.blacklisters =
           InsertAll(EmptyMap, [b \in DOMAIN ByField(listed, "nodeID") |->
                                  ByField(listed, "nodeID")[b].timestamp])
      /\ view.backedUpFiles =
           [f \in DOMAIN EmptyMap \cup files |->
              IF f \in files
              THEN Concat(ValueOr(EmptyMap, f, EmptyMap), rec.backedUpFiles[f])
              ELSE EmptyMap[f]]
      /\ view.storedFiles =
           InsertAll(EmptyMap,
                     [f \in DOMAIN ByField(stored, "fileID") |->
                        FileMetadata(Field(ByField(stored, "fileID")[f], "nodeID", NoNode),
                                     Field(ByField(stored, "fileID")[f], "size", 0))])
  <2> HIDE DEF json, listed, stored
  <2> QED BY <1>1 DEF Unserialize, MetadataRecord
<1> HIDE DEF view, json
<1>3. DOMAIN view.blacklisters = ids
      /\ \A b \in ids : view.blacklisters[b] = rec.blacklisters[b]
  <2>0. \A b : lister(b)["nodeID"] = b /\ lister(b).timestamp = rec.blacklisters[b]
    OBVIOUS
  <2> HIDE DEF lister
  <2>1. DOMAIN ByField(listed, "nodeID") = ids
    BY <2>0 DEF ByField
  <2>2. ASSUME NEW b \in ids PROVE ByField(listed, "nodeID")[b].timestamp = rec.blacklisters[b]
    <3>1. lister(b) \in listed /\ lister(b)["nodeID"] = b
      BY <2>0
    <3>2. \A el \in listed : el["nodeID"] = b => el.timestamp = rec.blacklisters[b]
      BY <2>0
    <3> HIDE DEF listed
    <3>3. ByField(listed, "nodeID")[b] = CHOOSE el \in listed : el["nodeID"] = b
      BY <2>1 DEF ByField
    <3> QED BY <3>1, <3>2, <3>3
  <2> HIDE DEF listed
  <2> QED BY <1>2, <2>1, <2>2, InsertIntoEmpty
<1>4. DOMAIN view.storedFiles = DOMAIN rec.storedFiles
  <2>0. \A f : file(f)["fileID"] = f
    OBVIOUS
  <2> HIDE DEF file
  <2>1. DOMAIN ByField(stored, "fileID") = DOMAIN rec.storedFiles
    BY <2>0 DEF ByField
  <2> HIDE DEF stored
  <2> QED BY <1>2, <2>1, InsertIntoEmpty
<1>5. ASSUME NEW f \in Files
      PROVE  ValueOr(view.backedUpFiles, f, EmptyMap) =
               IF f \in files THEN rec.backedUpFiles[f] ELSE EmptyMap
  <2>1. DOMAIN EmptyMap = {}
    BY EmptyMapFacts
  <2>2. DOMAIN view.backedUpFiles = files
    BY <1>2, <2>1
  <2>3. CASE f \in files
    <3>1. IsMap(rec.backedUpFiles[f], S)
      BY <2>3 DEF RecordOK, IsList
    <3>2. view.backedUpFiles[f] = Concat(EmptyMap, rec.backedUpFiles[f])
      BY <1>2, <2>1, <2>3 DEF ValueOr
    <3>3. view.backedUpFiles[f] = rec.backedUpFiles[f]
      BY <3>1, <3>2, ConcatEmpty
    <3> QED BY <2>2, <2>3, <3>3 DEF ValueOr
  <2>4. CASE f \notin files
    BY <2>2, <2>4 DEF ValueOr
  <2> QED BY <2>3, <2>4
<1> QED BY <1>3, <1>4, <1>5 DEF view, json, Carries

(***************************************************************************)
(* What a peer learns from a well-formed record.                           *)
(***************************************************************************)
LEMMA ViewOfRecord ==
  ASSUME NEW S \in SUBSET Nat, NEW n \in DOMAIN records, RecordOK(records[n], S),
         NEW view \in Views(n)
  PROVE  \E visited : /\ WalkOutcome(records[n], now, visited)
                      /\ Carries(view, records[n], visited \cap Fresh(records[n], now))
<1>1. PICK visited : WalkOutcome(records[n], now, visited) /\ view = View(n, visited)
  BY DEF Views
<1>2. visited \cap Fresh(records[n], now) \in SUBSET DOMAIN records[n].blacklisters
  BY DEF Fresh
<1> QED BY <1>1, <1>2, Transferred DEF View

WellFormed(S) == now \in Nat /\ \A n \in DOMAIN records : RecordOK(records[n], S)

(* Two lists without entries count the same, nothing. *)
LEMMA CountOfEmpty ==
  ASSUME NEW list, DOMAIN list = {}, NEW entry
  PROVE  Count(list, entry) = 0
<1>1. {s \in DOMAIN list : list[s] = entry} = {}
  OBVIOUS
<1> QED BY <1>1, FS_EmptySet DEF Count

(* Every replica arrives, once each. *)
LEMMA RecoveryOfRecords ==
  ASSUME NEW S \in SUBSET Nat, WellFormed(S) PROVE RecoveryInfoSurvives
<1> SUFFICES ASSUME NEW n \in DOMAIN records, NEW view \in Views(n), NEW f \in Files,
                    NEW entry
             PROVE  Count(ValueOr(view.backedUpFiles, f, EmptyMap), entry) =
                    Count(ValueOr(records[n].backedUpFiles, f, EmptyMap), entry)
  BY DEF RecoveryInfoSurvives
<1>1. ValueOr(view.backedUpFiles, f, EmptyMap) =
        IF /\ f \in DOMAIN records[n].backedUpFiles
           /\ DOMAIN records[n].backedUpFiles[f] # {}
        THEN records[n].backedUpFiles[f] ELSE EmptyMap
  <2>1. RecordOK(records[n], S) /\ now \in Nat
    BY DEF WellFormed
  <2>2. PICK visited : Carries(view, records[n], visited \cap Fresh(records[n], now))
    BY <2>1, ViewOfRecord
  <2> QED BY <2>2 DEF Carries
<1>2. CASE f \in DOMAIN records[n].backedUpFiles /\ DOMAIN records[n].backedUpFiles[f] # {}
  BY <1>1, <1>2 DEF ValueOr
<1>3. CASE ~(f \in DOMAIN records[n].backedUpFiles /\ DOMAIN records[n].backedUpFiles[f] # {})
  <2>1. DOMAIN ValueOr(records[n].backedUpFiles, f, EmptyMap) = {}
    BY <1>3, EmptyMapFacts DEF ValueOr
  <2>2. DOMAIN ValueOr(view.backedUpFiles, f, EmptyMap) = {}
    BY <1>1, <1>3, EmptyMapFacts
  <2> QED BY <2>1, <2>2, CountOfEmpty
<1> QED BY <1>2, <1>3

(* Every stored file arrives. *)
LEMMA StoredIDsOfRecords ==
  ASSUME NEW S \in SUBSET Nat, WellFormed(S) PROVE StoredIDsSurvive
<1> QED BY ViewOfRecord DEF WellFormed, Carries, StoredIDsSurvive, GetStoredFileIDs

(* Current complaints arrive, and no others. *)
LEMMA ComplaintsOfRecords ==
  ASSUME NEW S \in SUBSET Nat, WellFormed(S) PROVE ComplaintsAreCurrent
<1> SUFFICES ASSUME NEW n \in DOMAIN records, NEW view \in Views(n)
             PROVE  /\ \A b \in DOMAIN view.blacklisters :
                         /\ b \in DOMAIN records[n].blacklisters
                         /\ view.blacklisters[b] = records[n].blacklisters[b]
                         /\ now - view.blacklisters[b] <= PruneAge
                    /\ (\A b \in DOMAIN records[n].blacklisters :
                          now - records[n].blacklisters[b] <= PruneAge) =>
                         GetNumberBlacklisters(view) = GetNumberBlacklisters(records[n])
  BY DEF ComplaintsAreCurrent
<1> DEFINE rec == records[n]
<1>0. RecordOK(rec, S)
  BY DEF WellFormed
<1>1. PICK visited : WalkOutcome(rec, now, visited)
                     /\ Carries(view, rec, visited \cap Fresh(rec, now))
  BY <1>0, ViewOfRecord
<1>2. \A b \in DOMAIN rec.blacklisters : rec.blacklisters[b] \in 0..now
  BY <1>0 DEF RecordOK
<1>3. PruneAge \in Nat /\ now \in Nat
  BY DatabaseAssumption DEF WellFormed
<1> HIDE DEF rec
<1>4. \A b \in Fresh(rec, now) :
        b \in DOMAIN rec.blacklisters /\ now - rec.blacklisters[b] <= PruneAge
  BY <1>2, <1>3 DEF Fresh, Expired
<1>5. ASSUME \A b \in DOMAIN rec.blacklisters : now - rec.blacklisters[b] <= PruneAge
      PROVE  DOMAIN view.blacklisters = DOMAIN rec.blacklisters
  <2>1. Expired(rec, now) = {}
    BY <1>2, <1>3, <1>5 DEF Expired
  <2> QED BY <1>1, <2>1 DEF WalkOutcome, Fresh, Carries
<1> QED BY <1>1, <1>4, <1>5 DEF rec, Carries, GetNumberBlacklisters

(***************************************************************************)
(* The theorems.                                                           *)
(***************************************************************************)
(* Both inductive invariants say that records are well formed. *)
LEMMA InvariantsWellFormed ==
  /\ IInv => \E S \in SUBSET Nat : WellFormed(S)
  /\ ServerInv => \E S \in SUBSET Nat : WellFormed(S)
<1>1. IInv => WellFormed(Slots)
  BY ShapeFacts DEF WellFormed
<1>2. ServerInv => WellFormed(AnySlot)
  BY DEF ServerInv, DataOK, FilesOK, RecordsOK, WellFormed
<1>3. Slots \in SUBSET Nat /\ AnySlot \in SUBSET Nat
  BY DatabaseAssumption DEF Slots, AnySlot
<1> QED BY <1>1, <1>2, <1>3

(* A peer that lost its disk learns every replica of every file it backed   *)
(* up, once each, with its size.                                            *)
THEOREM RecoveryInfo == Spec => []RecoveryInfoSurvives
<1>1. IInv => RecoveryInfoSurvives
  BY InvariantsWellFormed, RecoveryOfRecords
<1> QED BY <1>1, Invariant, PTL

(* A peer learns exactly the files the tracker has it store.                *)
THEOREM StoredIDs == Spec => []StoredIDsSurvive
<1>1. IInv => StoredIDsSurvive
  BY InvariantsWellFormed, StoredIDsOfRecords
<1> QED BY <1>1, Invariant, PTL

(* A peer learns of no outdated complaint, of each with its time, and of    *)
(* all of them if none is outdated.                                         *)
THEOREM CurrentComplaints == Spec => []ComplaintsAreCurrent
<1>1. IInv => ComplaintsAreCurrent
  BY InvariantsWellFormed, ComplaintsOfRecords
<1> QED BY <1>1, Invariant, PTL

(* The same holds at any time in the tracker that serves many peers.        *)
THEOREM ServerViews ==
  ServerSpec => [](RecoveryInfoSurvives /\ StoredIDsSurvive /\ ComplaintsAreCurrent)
<1>1. ServerInv => RecoveryInfoSurvives /\ StoredIDsSurvive /\ ComplaintsAreCurrent
  BY InvariantsWellFormed, RecoveryOfRecords, StoredIDsOfRecords, ComplaintsOfRecords
<1> QED BY <1>1, ServerInvariant, PTL
=============================================================================
