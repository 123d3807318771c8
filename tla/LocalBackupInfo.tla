--------------------------- MODULE LocalBackupInfo ---------------------------
(***************************************************************************)
(* What a peer knows of its own backups: a JSON object in memory and a     *)
(* file that dumpToDisk writes and readFromDisk reads                      *)
(* (src/metadata/LocalBackupInfo).  The object is a function from file IDs *)
(* to values.  Its text is written in the order of the keys; a piece of it *)
(* is the opening brace, or the first or the second part of one entry.  A  *)
(* file is the set of pieces that are in it.  The closing brace is left    *)
(* out: without it the parser complains, and nobody listens.               *)
(***************************************************************************)
EXTENDS Naturals

CONSTANTS Files,    (* the file IDs; numbers, so that they have an order    *)
          Values,   (* what is known of one file                            *)
          Null,     (* the null value that operator[] inserts               *)
          Partial   (* what is left of a value whose text is cut off        *)

ASSUME InfoAssumption == Files \subseteq Nat \ {0}

AnyValue == Values \cup {Null, Partial}

VARIABLES
  data,     (* data_                                                        *)
  exists,   (* TRUE once there is a file                                    *)
  disk,     (* the pieces in it                                             *)
  pending,  (* pieces of the text that are not in the file yet              *)
  phase,    (* "idle", or dumpToDisk is "writing" or has "failed" to        *)
  up,       (* TRUE while the client runs                                   *)
  result,   (* what the last call returned                                  *)
  dumped,   (* history: the data of the last dump that was begun,           *)
  kept,     (* of the last one that was written to its end,                 *)
  intact    (* and whether they are the same dump                           *)

infoVars == <<data, exists, disk, pending, phase, up, result, dumped, kept, intact>>

Nothing == [f \in {} |-> Null]

Open == <<0, 0, Null>>
Pieces(d) == {Open} \cup {<<f, part, d[f]>> : f \in DOMAIN d, part \in {1, 2}}
Precedes(p, q) == p[1] < q[1] \/ (p[1] = q[1] /\ p[2] < q[2])

(* Mutant: what was read is added to what is there.                         *)
ParseMerging(old, text) ==
  [f \in DOMAIN old \cup {p[1] : p \in text \ {Open}} |->
     IF \E v \in AnyValue : {<<f, 1, v>>, <<f, 2, v>>} \subseteq text
     THEN CHOOSE v \in AnyValue : {<<f, 1, v>>, <<f, 2, v>>} \subseteq text
     ELSE IF f \in DOMAIN old THEN old[f] ELSE Partial]

(* Reader::parse into old: an object starts afresh at its brace and keeps   *)
(* what was read before the text ended.                                     *)
Parse(old, text) ==
  IF Open \notin text THEN old
  ELSE [f \in {p[1] : p \in text \ {Open}} |->
          IF \E v \in AnyValue : {<<f, 1, v>>, <<f, 2, v>>} \subseteq text
          THEN CHOOSE v \in AnyValue : {<<f, 1, v>>, <<f, 2, v>>} \subseteq text
          ELSE Partial]

(* The data a caller may give to the constructor.  Without any, data_ is    *)
(* null, which is written, read and subscripted like an object with no      *)
(* members.                                                                 *)
GivenData == UNION {[S -> Values \cup {Null}] : S \in SUBSET Files}

InfoInit ==
  /\ data \in GivenData
  /\ exists = FALSE /\ disk = {}
  /\ pending = {}
  /\ phase = "idle"
  /\ up = TRUE
  /\ result = "none"
  /\ dumped = Nothing /\ kept = Nothing /\ intact = FALSE

-----------------------------------------------------------------------------
Call == up /\ phase = "idle"

(* operator[]: the caller reads or assigns what it refers to.  A file that  *)
(* is only looked up is there from then on.                                 *)
Subscript(f) ==
  /\ Call
  /\ \E v \in Values \cup (IF f \in DOMAIN data THEN {data[f]} ELSE {Null}) :
       data' = [g \in DOMAIN data \cup {f} |-> IF g = f THEN v ELSE data[g]]
  /\ UNCHANGED <<exists, disk, pending, phase, up, result, dumped, kept, intact>>

(* The caller removes an entry from the object operator[] refers to.        *)
RemoveMember(f) ==
  /\ Call
  /\ f \in DOMAIN data
  /\ data' = [g \in DOMAIN data \ {f} |-> data[g]]
  /\ UNCHANGED <<exists, disk, pending, phase, up, result, dumped, kept, intact>>

(* Mutant: the file is opened without being emptied.                        *)
OpenDumpUntruncated ==
  /\ Call
  /\ exists' = TRUE
  /\ pending' = Pieces(data)
  /\ phase' = "writing"
  /\ dumped' = data
  /\ intact' = FALSE
  /\ UNCHANGED <<data, disk, up, result, kept>>

(* dumpToDisk: the ofstream empties the file, and the text goes into its    *)
(* buffer.                                                                  *)
OpenDump ==
  /\ Call
  /\ exists' = TRUE /\ disk' = {}
  /\ pending' = Pieces(data)
  /\ phase' = "writing"
  /\ dumped' = data
  /\ intact' = FALSE
  /\ UNCHANGED <<data, up, result, kept>>

CannotOpenDump ==
  /\ Call
  /\ result' = "false"
  /\ UNCHANGED <<data, exists, disk, pending, phase, up, dumped, kept, intact>>

(* The stream writes the text, at the latest when it is destroyed.          *)
Flush ==
  /\ up /\ phase = "writing"
  /\ \E p \in pending :
       /\ \A q \in pending \ {p} : Precedes(p, q)
       /\ disk' = disk \cup {p}
       /\ pending' = pending \ {p}
  /\ UNCHANGED <<data, exists, phase, up, result, dumped, kept, intact>>

(* No space is left: the stream drops the rest.                             *)
WriteFails ==
  /\ up /\ phase = "writing" /\ pending # {}
  /\ pending' = {}
  /\ phase' = "failed"
  /\ UNCHANGED <<data, exists, disk, up, result, dumped, kept, intact>>

(* result is true if the file could be opened, whatever was written.        *)
DumpReturns ==
  /\ up /\ phase # "idle" /\ pending = {}
  /\ phase' = "idle"
  /\ result' = "true"
  /\ intact' = (phase = "writing")
  /\ kept' = IF phase = "writing" THEN dumped ELSE kept
  /\ UNCHANGED <<data, exists, disk, pending, up, dumped>>

(* readFromDisk: what parse returns is ignored.  A file that is there may   *)
(* still not open.                                                          *)
ReadFromDisk ==
  /\ Call
  /\ \/ exists /\ result' = "true" /\ data' = Parse(data, disk)
     \/ result' = "false" /\ UNCHANGED data
  /\ UNCHANGED <<exists, disk, pending, phase, up, dumped, kept, intact>>

(* The client dies, with what the stream still had; it starts again with a  *)
(* new object, which may be given data.                                     *)
Die ==
  /\ up
  /\ up' = FALSE
  /\ data' = Nothing
  /\ pending' = {}
  /\ phase' = "idle"
  /\ result' = "none"
  /\ UNCHANGED <<exists, disk, dumped, kept, intact>>

Start ==
  /\ ~up
  /\ up' = TRUE
  /\ data' \in GivenData
  /\ UNCHANGED <<exists, disk, pending, phase, result, dumped, kept, intact>>

InfoNext ==
  \/ \E f \in Files : Subscript(f) \/ RemoveMember(f)
  \/ OpenDump \/ CannotOpenDump \/ Flush \/ WriteFails \/ DumpReturns
  \/ ReadFromDisk \/ Die \/ Start

InfoSpec == InfoInit /\ [][InfoNext]_infoVars

-----------------------------------------------------------------------------
IsInfo(d) == DOMAIN d \subseteq Files /\ d \in [DOMAIN d -> AnyValue]

(* The state is well formed, and what is in the file and what is still to   *)
(* be written are pieces of the last dump.                                  *)
InfoTypeOK ==
  /\ IsInfo(data) /\ IsInfo(dumped) /\ IsInfo(kept)
  /\ disk \subseteq Pieces(dumped)
  /\ pending \subseteq Pieces(dumped)
  /\ phase \in {"idle", "writing", "failed"}
  /\ up \in BOOLEAN /\ exists \in BOOLEAN /\ intact \in BOOLEAN
  /\ result \in {"none", "true", "false"}

(* A peer that dumped its information and could write it all finds it again *)
(* as it was, whatever happened since: the text is one that parse gives     *)
(* back, an empty object and removed files included.  If the file cannot be *)
(* opened, the peer is told so and keeps what it had in memory.             *)
LastDumpIsRead ==
  [][ReadFromDisk /\ intact =>
       \/ result' = "true" /\ data' = dumped
       \/ result' = "false" /\ data' = data]_infoVars

(* Whatever the dump came to, reading finds the first entries of that dump: *)
(* no file comes back that was removed before it, no entry is older than    *)
(* it, and none is missing before one that is there.                        *)
ReadsStartOfDump ==
  [][ReadFromDisk /\ data' # data =>
       \A f \in DOMAIN data' :
         /\ f \in DOMAIN dumped
         /\ data'[f] \in {dumped[f], Partial}
         /\ \A g \in DOMAIN dumped :
              g < f => g \in DOMAIN data' /\ data'[g] = dumped[g]]_infoVars

-----------------------------------------------------------------------------
(* A statement of the documentation that the code does not meet.            *)

(* LocalBackupInfo.h:21: "The top level keys for this Json::Value will be   *)
(* all the fileIDs we're backing up".  A file that was in the last complete *)
(* dump and is in the one begun since is known when readFromDisk succeeds.  *)
AllFilesAreKnown ==
  [][ReadFromDisk /\ result' = "true" =>
       DOMAIN kept \cap DOMAIN dumped \subseteq DOMAIN data']_infoVars
=============================================================================
