------------------------------ MODULE PeerView ------------------------------
(***************************************************************************)
(* What a peer knows of a node after TrackerInterface::get: the tracker's  *)
(* record, serialized by the server and unserialized into a new record by  *)
(* the client.  The properties relate the two for every state of the       *)
(* database.                                                               *)
(***************************************************************************)
EXTENDS TrackerDatabase, MetadataCodec

(* The record a peer gets for node n when the loop over the blacklisters    *)
(* gets to those in visited.                                                *)
View(n, visited) ==
  Unserialize(MetadataRecord(NoNode),
              Serialize(records[n], visited \cap Fresh(records[n], now)))

(* Every outcome of the loop.                                               *)
Views(n) ==
  {View(n, visited) :
     visited \in {v \in SUBSET DOMAIN records[n].blacklisters :
                    WalkOutcome(records[n], now, v)}}

(* How often an entry is in a list.                                         *)
Count(list, entry) == Cardinality({s \in DOMAIN list : list[s] = entry})

(* A peer that lost its disk learns from its record every replica of every  *)
(* file it backed up, once each, with its size: what recovery needs.  Files *)
(* whose last replica is gone vanish, with nothing to recover.              *)
RecoveryInfoSurvives ==
  \A n \in DOMAIN records : \A view \in Views(n) :
    \A f \in Files, m \in NodeIDs, size \in AnySize :
      Count(ValueOr(view.backedUpFiles, f, EmptyMap), FileMetadata(m, size)) =
      Count(ValueOr(records[n].backedUpFiles, f, EmptyMap), FileMetadata(m, size))

(* A peer that compares the files it stores with its record sees exactly    *)
(* the files the tracker has it store, so it drops no data that is claimed  *)
(* and keeps none that was released.                                        *)
StoredIDsSurvive ==
  \A n \in DOMAIN records : \A view \in Views(n) :
    GetStoredFileIDs(view) = GetStoredFileIDs(records[n])

(* A peer judges a node by those who complained of it.  None of them has    *)
(* done so more than PRUNE_AGE ago, even if nobody has read the record      *)
(* since, and each comes with the time of the first complaint the tracker   *)
(* counts; all current complaints are there unless an outdated one made the *)
(* loop stop.                                                               *)
ComplaintsAreCurrent ==
  \A n \in DOMAIN records : \A view \in Views(n) :
    /\ \A b \in DOMAIN view.blacklisters :
         /\ b \in DOMAIN records[n].blacklisters
         /\ view.blacklisters[b] = records[n].blacklisters[b]
         /\ now - view.blacklisters[b] <= PruneAge
    /\ (\A b \in DOMAIN records[n].blacklisters :
          now - records[n].blacklisters[b] <= PruneAge) =>
         GetNumberBlacklisters(view) = GetNumberBlacklisters(records[n])

-----------------------------------------------------------------------------
(* A statement of the documentation that the code does not meet.            *)

(* MetadataInterface.h:28: get must "Fill 'metadataRecord' with the         *)
(* metadata of the node", so also with the owner and size of a stored file, *)
(* from which a peer computes "the sum of all filesizes this peer is        *)
(* storing" (MetadataRecord.h:74).                                          *)
StoredFilesSurvive ==
  \A n \in DOMAIN records : \A view \in Views(n) :
    /\ view.storedFiles = records[n].storedFiles
    /\ GetTotalStoreSize(view) = GetTotalStoreSize(records[n])
=============================================================================
