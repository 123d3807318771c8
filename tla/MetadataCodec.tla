---------------------------- MODULE MetadataCodec ----------------------------
(***************************************************************************)
(* How a MetadataRecord travels from the tracker to a peer: serialize,     *)
(* unserialize and the total a peer computes from the result               *)
(* (src/metadata/MetadataRecord.cpp).  A JSON object is a record, a JSON   *)
(* array a set (its elements are distinct) or, for a list of backups, a    *)
(* function from slots.  A field that is not there reads as null: the      *)
(* empty string or 0.                                                      *)
(***************************************************************************)
EXTENDS MetadataRecord, FiniteSetsExt

Field(object, name, null) == IF name \in DOMAIN object THEN object[name] ELSE null

(* Mutant: one replica of each file is written.                             *)
SerializeOneBackup(rec, blacklisterIDs) ==
  [nodeIP |-> rec.nodeIP,
   blacklisters |-> {},
   backedUpFiles |-> [f \in DOMAIN rec.backedUpFiles |->
      LET list == rec.backedUpFiles[f] IN [s \in DOMAIN list \cap {1} |-> list[s]]],
   storedFiles |-> {[fileID |-> f] : f \in DOMAIN rec.storedFiles}]

(* Mutant: the stored files are written under another name.                 *)
SerializeNoStoredFiles(rec, blacklisterIDs) ==
  [nodeIP |-> rec.nodeIP,
   blacklisters |-> {},
   backedUpFiles |-> rec.backedUpFiles,
   files |-> {[fileID |-> f] : f \in DOMAIN rec.storedFiles}]

(* serialize, with the blacklisters its loop reports.  The owner and size   *)
(* of a stored file go into an object "fileMetadata" of their own.          *)
Serialize(rec, blacklisterIDs) ==
  [nodeIP |-> rec.nodeIP,
   blacklisters |-> {[nodeID |-> b, timestamp |-> rec.blacklisters[b]] : b \in blacklisterIDs},
   backedUpFiles |-> rec.backedUpFiles,
   storedFiles |-> {[fileID |-> f, fileMetadata |-> rec.storedFiles[f]] :
                      f \in DOMAIN rec.storedFiles}]

(* Appending all of one list to another, behind its last slot.              *)
Concat(list, more) ==
  LET last == Max({0} \cup DOMAIN list)
  IN  [s \in DOMAIN list \cup {last + t : t \in DOMAIN more} |->
         IF s \in DOMAIN list THEN list[s] ELSE more[s - last]]

(* map::insert, element by element: what is there stays.                    *)
InsertAll(map, more) ==
  [k \in DOMAIN map \cup DOMAIN more |-> IF k \in DOMAIN map THEN map[k] ELSE more[k]]

(* The elements of a JSON array of objects, by the value of one field.      *)
ByField(array, name) ==
  [k \in {el[name] : el \in array} |-> CHOOSE el \in array : el[name] = k]

(* unserialize: adds the reply to what rec holds already.  A file with no   *)
(* replica was written as null, and iterating over null makes no list.      *)
Unserialize(rec, json) ==
  LET listers == ByField(json.blacklisters, "nodeID")
      stored == ByField(Field(json, "storedFiles", {}), "fileID")
      files == {f \in DOMAIN json.backedUpFiles : DOMAIN json.backedUpFiles[f] # {}}
      old == rec.backedUpFiles
  IN
  [nodeIP |-> json.nodeIP,
   blacklisters |->
     InsertAll(rec.blacklisters, [b \in DOMAIN listers |-> listers[b].timestamp]),
   backedUpFiles |->
     [f \in DOMAIN old \cup files |->
        IF f \in files THEN Concat(ValueOr(old, f, EmptyMap), json.backedUpFiles[f])
        ELSE old[f]],
   storedFiles |->
     InsertAll(rec.storedFiles,
               [f \in DOMAIN stored |->
                  FileMetadata(Field(stored[f], "nodeID", NoNode),
                               Field(stored[f], "size", 0))])]

-----------------------------------------------------------------------------
GetNumberBlacklisters(rec) == Cardinality(DOMAIN rec.blacklisters)

GetTotalStoreSize(rec) ==
  MapThenSumSet(LAMBDA f : rec.storedFiles[f].size, DOMAIN rec.storedFiles)
=============================================================================
