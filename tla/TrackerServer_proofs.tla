------------------------- MODULE TrackerServer_proofs -------------------------
(* Proofs about the tracker and its callers, for any nodes, files,         *)
(* connections, commands and size of the pool.                             *)
EXTENDS TrackerServer, TrackerRecords_proofs

(***************************************************************************)
(* The inductive invariant.                                                *)
(***************************************************************************)
(* Nothing bounds a list of backups.                                        *)
AnySlot == Nat \ {0}

Replies == [error : BOOLEAN, nodeID : AllIDs]

(* The parts of ServerTypeOK, with the functions' domains.  As long as the  *)
(* caller has not sent its request, the tracker has not received one.       *)
QueueOK ==
  /\ queue \in Seq(Conns)
  /\ {queue[i] : i \in 1..Len(queue)} = {k \in Conns : job[k] = "queued"}
  /\ \A i, j \in 1..Len(queue) : queue[i] = queue[j] => i = j

CallOK ==
  /\ client \in [Conns -> {"idle", "connected", "waiting", "cut", "ok", "error", "failed"}]
  /\ job \in [Conns -> {"none", "queued", "reading", "serializing", "replying"}]
  /\ cmd \in [Conns -> Commands \cup {NoCommand}]
  /\ reply \in [Conns -> Replies \cup {NoReply}]
  /\ sent \subseteq {k \in Conns : job[k] \in {"queued", "reading"}}
  /\ \A k \in Conns :
       /\ cmd[k] \in IF job[k] = "none" THEN {NoCommand} ELSE Commands
       /\ reply[k] \in IF job[k] \in {"serializing", "replying"}
                       THEN Replies ELSE {NoReply}
       /\ client[k] = "connected" =>
            k \notin sent /\ job[k] \in {"none", "queued", "reading"}
  /\ calls \in 0..MaxCalls

PoolOK == Cardinality(Busy) <= PoolSize

DataOK ==
  /\ sortedIDs \in [AllIDs -> Nat] /\ now \in Nat /\ up \in BOOLEAN
  /\ FilesOK(records, AnySlot)
  /\ IndexMatchesRecords

(* A dead tracker works on nothing.                                         *)
DeadIsIdle == ~up => \A k \in Conns : job[k] = "none"

(* handleGet holds a reference to a record, and no record goes away while   *)
(* the tracker runs.                                                        *)
ReferenceIsValid ==
  \A k \in Conns :
    job[k] = "serializing" => cmd[k].op = "get" /\ cmd[k].nodeID \in DOMAIN records

ServerInv == QueueOK /\ CallOK /\ PoolOK /\ DataOK /\ DeadIsIdle /\ ReferenceIsValid

ServerTypes == QueueOK /\ CallOK /\ PoolOK

(* They are the type invariant that the runs check.                         *)
LEMMA TypesImplyTypeOK == ServerTypes => ServerTypeOK
<1> QED BY DEF ServerTypes, QueueOK, CallOK, PoolOK, ServerTypeOK, Replies

(* The arguments of each command.                                           *)
LEMMA CommandFacts ==
  /\ NoCommand \notin Commands
  /\ \A c \in Commands :
       /\ c.op = "join" => c.nodeID \in NodeIDs /\ c.ip \in IPs
       /\ c.op = "get" => c.nodeID \in AllIDs
       /\ c.op = "blacklist" => c.peerID \in Blacklisters /\ c.nodeID \in AllIDs
       /\ c.op = "backup" => c.nodeID \in AllIDs /\ c.fileID \in Files /\ c.size \in Sizes
       /\ c.op = "update" => c.fileID \in Files /\ c.size \in UpdateSizes
       /\ c.op = "remove" => c.nodeID \in AllIDs /\ c.fileID \in Files
       /\ c.op \in {"join", "find", "get", "blacklist", "backup", "update", "remove"}
<1>1. NoCommand \notin Commands
  BY CommandsAssumption
<1>2. ASSUME NEW c \in Commands
      PROVE  \/ \E n \in NodeIDs, ip \in IPs : c = JoinNetwork(n, ip)
             \/ c = FindClosestNode
             \/ \E n \in AllIDs : c = GetRecord(n)
             \/ \E b \in Blacklisters, n \in AllIDs : c = Blacklist(b, n)
             \/ \E n \in AllIDs, f \in Files, s \in Sizes : c = Backup(n, f, s)
             \/ \E f \in Files, s \in UpdateSizes : c = UpdateSize(f, s)
             \/ \E n \in AllIDs, f \in Files : c = Remove(n, f)
  BY CommandsAssumption DEF AllCommands
<1> QED
  BY <1>1, <1>2
  DEF JoinNetwork, FindClosestNode, GetRecord, Blacklist, Backup, UpdateSize, Remove

(***************************************************************************)
(* The queue and the pool.                                                 *)
(***************************************************************************)
Elements(q) == {q[i] : i \in 1..Len(q)}
Distinct(q) == \A i, j \in 1..Len(q) : q[i] = q[j] => i = j

(* push: the new element is last. *)
LEMMA QueueAppend ==
  ASSUME NEW S, NEW q \in Seq(S), Distinct(q), NEW e \in S, e \notin Elements(q)
  PROVE  /\ Append(q, e) \in Seq(S) /\ Distinct(Append(q, e))
         /\ Elements(Append(q, e)) = Elements(q) \cup {e}
<1>1. /\ Append(q, e) \in Seq(S) /\ Len(Append(q, e)) = Len(q) + 1 /\ Len(q) \in Nat
      /\ \A i \in 1..Len(q) : Append(q, e)[i] = q[i]
      /\ Append(q, e)[Len(q) + 1] = e
  OBVIOUS
<1>2. Elements(Append(q, e)) = Elements(q) \cup {e}
  <2>1. \A i \in 1..(Len(q) + 1) : i \in 1..Len(q) \/ i = Len(q) + 1
    BY <1>1
  <2>2. 1..Len(q) \subseteq 1..(Len(q) + 1) /\ Len(q) + 1 \in 1..(Len(q) + 1)
    BY <1>1
  <2> QED BY <1>1, <2>1, <2>2 DEF Elements
<1>3. Distinct(Append(q, e))
  <2> SUFFICES ASSUME NEW i \in 1..(Len(q) + 1), NEW j \in 1..(Len(q) + 1),
                      Append(q, e)[i] = Append(q, e)[j]
               PROVE  i = j
    BY <1>1 DEF Distinct
  <2>1. \A x \in 1..Len(q) : q[x] # e
    BY DEF Elements
  <2>2. CASE i \in 1..Len(q) /\ j \in 1..Len(q)
    BY <1>1, <2>2 DEF Distinct
  <2>3. CASE i = Len(q) + 1 /\ j \in 1..Len(q)
    BY <1>1, <2>1, <2>3
  <2>4. CASE j = Len(q) + 1 /\ i \in 1..Len(q)
    BY <1>1, <2>1, <2>4
  <2> QED BY <1>1, <2>2, <2>3, <2>4
<1> QED BY <1>1, <1>2, <1>3

(* pop: the head goes and is in the rest no more. *)
LEMMA QueueTail ==
  ASSUME NEW S, NEW q \in Seq(S), Distinct(q), q # <<>>
  PROVE  /\ Tail(q) \in Seq(S) /\ Distinct(Tail(q))
         /\ Head(q) \in Elements(q)
         /\ Elements(Tail(q)) = Elements(q) \ {Head(q)}
<1>1. /\ Tail(q) \in Seq(S) /\ Len(Tail(q)) = Len(q) - 1 /\ Len(q) \in Nat \ {0}
      /\ Head(q) = q[1]
      /\ \A i \in 1..(Len(q) - 1) : Tail(q)[i] = q[i + 1]
  OBVIOUS
<1>2. Distinct(Tail(q))
  <2> SUFFICES ASSUME NEW i \in 1..(Len(q) - 1), NEW j \in 1..(Len(q) - 1),
                      Tail(q)[i] = Tail(q)[j]
               PROVE  i = j
    BY <1>1 DEF Distinct
  <2>1. q[i + 1] = q[j + 1] /\ i + 1 \in 1..Len(q) /\ j + 1 \in 1..Len(q)
    BY <1>1
  <2>2. i + 1 = j + 1
    BY <2>1 DEF Distinct
  <2> QED BY <1>1, <2>2
<1>3. Elements(Tail(q)) = Elements(q) \ {Head(q)}
  <2>1. ASSUME NEW i \in 1..(Len(q) - 1) PROVE Tail(q)[i] \in Elements(q) \ {Head(q)}
    <3>1. i + 1 \in 1..Len(q) /\ 1 \in 1..Len(q) /\ i + 1 # 1
      BY <1>1
    <3> QED BY <1>1, <3>1 DEF Elements, Distinct
  <2>2. ASSUME NEW i \in 1..Len(q), q[i] # Head(q) PROVE q[i] \in Elements(Tail(q))
    <3>1. i - 1 \in 1..(Len(q) - 1) /\ (i - 1) + 1 = i
      BY <1>1, <2>2
    <3>2. Tail(q)[i - 1] = q[i]
      BY <1>1, <3>1
    <3> QED BY <1>1, <3>1, <3>2 DEF Elements
  <2> QED BY <1>1, <2>1, <2>2 DEF Elements
<1>4. Head(q) \in Elements(q)
  BY <1>1 DEF Elements
<1> QED BY <1>1, <1>2, <1>3, <1>4

(* A connection that is neither taken from the queue nor put into it leaves *)
(* the queue as it is, and the pool unless a thread takes it.               *)
LEMMA JobStep ==
  ASSUME QueueOK, CallOK, PoolOK, NEW k \in Conns,
         NEW s \in {"none", "serializing", "replying"},
         job[k] \in {"reading", "serializing", "replying"},
         job' = [job EXCEPT ![k] = s], queue' = queue
  PROVE  QueueOK' /\ PoolOK'
<1>1. \A j \in Conns : job'[j] = IF j = k THEN s ELSE job[j]
  BY DEF CallOK
<1>2. QueueOK'
  BY <1>1 DEF QueueOK
<1>3. Busy' \subseteq Busy
  BY <1>1 DEF Busy
<1>4. Cardinality(Busy') <= Cardinality(Busy)
  <2>1. IsFiniteSet(Busy)
    BY ServerAssumption, FS_Subset DEF Busy
  <2> QED BY <1>3, <2>1, FS_Subset
<1>5. Cardinality(Busy) \in Nat /\ Cardinality(Busy') \in Nat
  BY <1>3, ServerAssumption, FS_Subset, FS_CardinalityType DEF Busy
<1> QED BY <1>2, <1>4, <1>5, ServerAssumption DEF PoolOK

(* A free thread takes the oldest connection. *)
LEMMA TakeStep ==
  ASSUME QueueOK, CallOK, PoolOK, TakeConnection
  PROVE  /\ Head(queue) \in Conns /\ job[Head(queue)] = "queued"
         /\ QueueOK' /\ PoolOK'
<1> DEFINE k == Head(queue)
<1>1. /\ Tail(queue) \in Seq(Conns) /\ Distinct(Tail(queue))
      /\ k \in Elements(queue)
      /\ Elements(Tail(queue)) = Elements(queue) \ {k}
  <2>1. queue \in Seq(Conns) /\ Distinct(queue) /\ queue # <<>>
    BY DEF QueueOK, Distinct, TakeConnection
  <2> QED BY <2>1, QueueTail
<1>2. k \in Conns /\ job[k] = "queued"
  BY <1>1 DEF QueueOK, Elements
<1> HIDE DEF k
<1>3. /\ \A j \in Conns : job'[j] = IF j = k THEN "reading" ELSE job[j]
      /\ queue' = Tail(queue)
  BY <1>2 DEF CallOK, TakeConnection, k
<1>4. QueueOK'
  <2>1. Elements(queue') = {j \in Conns : job'[j] = "queued"}
    <3>1. Elements(queue) = {j \in Conns : job[j] = "queued"}
      BY DEF QueueOK, Elements
    <3>2. Elements(queue') = Elements(queue) \ {k}
      BY <1>1, <1>3
    <3> QED BY <1>2, <1>3, <3>1, <3>2
  <2>2. queue' \in Seq(Conns) /\ Distinct(queue')
    BY <1>1, <1>3
  <2> QED BY <2>1, <2>2 DEF QueueOK, Elements, Distinct
<1>5. Busy' = Busy \cup {k} /\ k \notin Busy
  BY <1>2, <1>3 DEF Busy
<1>6. IsFiniteSet(Busy) /\ Cardinality(Busy) \in Nat
  BY ServerAssumption, FS_Subset, FS_CardinalityType DEF Busy
<1>7. Cardinality(Busy') = Cardinality(Busy) + 1
  BY <1>5, <1>6, FS_AddElement
<1>8. PoolOK'
  BY <1>6, <1>7, ServerAssumption DEF PoolOK, TakeConnection
<1> QED BY <1>2, <1>4, <1>8 DEF k

(* A new connection joins the queue. *)
LEMMA ConnectStep ==
  ASSUME QueueOK, CallOK, PoolOK, NEW k \in Conns, NEW c \in Commands, Connect(k, c)
  PROVE  QueueOK' /\ PoolOK'
<1>1. \A j \in Conns : job'[j] = IF j = k THEN "queued" ELSE job[j]
  BY DEF CallOK, Connect
<1>2. k \notin Elements(queue) /\ queue \in Seq(Conns) /\ Distinct(queue)
  BY DEF Connect, QueueOK, Elements, Distinct
<1>3. /\ queue' \in Seq(Conns) /\ Distinct(queue')
      /\ Elements(queue') = Elements(queue) \cup {k}
  BY <1>2, QueueAppend DEF Connect
<1>4. QueueOK'
  <2>1. Elements(queue) = {j \in Conns : job[j] = "queued"}
    BY DEF QueueOK, Elements
  <2>2. Elements(queue') = {j \in Conns : job'[j] = "queued"}
    BY <1>1, <1>3, <2>1
  <2> QED BY <1>3, <2>2 DEF QueueOK, Elements, Distinct
<1>5. Busy' = Busy
  BY <1>1 DEF Busy, Connect
<1> QED BY <1>4, <1>5 DEF PoolOK

(* The process dies: nothing is queued, nobody is busy. *)
LEMMA ResetStep ==
  ASSUME CallOK, Crash
  PROVE  QueueOK' /\ PoolOK' /\ CallOK'
<1>1. \A k \in Conns : job'[k] = "none"
  BY DEF Crash
<1>2. QueueOK'
  BY <1>1 DEF QueueOK, Crash
<1>3. Busy' = {}
  BY <1>1 DEF Busy
<1>4. PoolOK'
  BY <1>3, FS_EmptySet, ServerAssumption DEF PoolOK
<1>5. CallOK'
  BY DEF Crash, CallOK
<1> QED BY <1>2, <1>4, <1>5

(***************************************************************************)
(* The steps of the callers, the queue and the pool keep the types.        *)
(***************************************************************************)
(* A handler answers. *)
LEMMA AnswerTypes ==
  ASSUME ServerTypes, NEW k \in Conns, job[k] = "reading", k \in sent,
         NEW result \in BOOLEAN, NEW nodeID \in AllIDs,
         NEW state \in {"serializing", "replying"}, Answer(k, result, nodeID, state)
  PROVE  ServerTypes' /\ job' = [job EXCEPT ![k] = state]
<1>1. job' = [job EXCEPT ![k] = state] /\ queue' = queue
  BY DEF Answer
<1>2. QueueOK' /\ PoolOK'
  BY <1>1, JobStep DEF ServerTypes
<1>3. [error |-> ~result, nodeID |-> nodeID] \in Replies
  BY DEF Replies
<1>4. CallOK'
  BY <1>1, <1>3 DEF Answer, ServerTypes, CallOK
<1> QED BY <1>1, <1>2, <1>4 DEF ServerTypes

(* A step after which the connection is free again, or replying. *)
LEMMA ReleaseTypes ==
  ASSUME ServerTypes, NEW k \in Conns, queue' = queue,
         \/ SendReply(k) \/ JoinEmptyID(k) \/ SerializeReply(k)
  PROVE  ServerTypes'
<1>1. /\ job[k] \in {"reading", "serializing", "replying"}
      /\ \E s \in {"none", "replying"} : job' = [job EXCEPT ![k] = s]
  BY DEF SendReply, JoinEmptyID, ReceivedNothing, SerializeReply
<1>2. QueueOK' /\ PoolOK'
  BY <1>1, JobStep DEF ServerTypes
<1>3. CASE SendReply(k)
  <2>1. client' \in [Conns -> {"idle", "connected", "waiting", "cut", "ok", "error", "failed"}]
    BY <1>3 DEF SendReply, ServerTypes, CallOK
  <2> QED BY <1>2, <1>3, <2>1 DEF SendReply, ServerTypes, CallOK
<1>4. CASE JoinEmptyID(k)
  BY <1>2, <1>4 DEF JoinEmptyID, ReceivedNothing, ServerTypes, CallOK
<1>5. CASE SerializeReply(k)
  BY <1>2, <1>5 DEF SerializeReply, ServerTypes, CallOK
<1> QED BY <1>3, <1>4, <1>5

(* The callers. *)
LEMMA CallerTypes ==
  ASSUME ServerTypes, NEW k \in Conns,
         Refused(k) \/ Send(k) \/ Break(k) \/ GoSilent(k) \/ NoticeCrash(k)
  PROVE  ServerTypes'
<1>1. job' = job /\ queue' = queue
  BY DEF Refused, Send, Break, GoSilent, NoticeCrash
<1>2. QueueOK' /\ PoolOK'
  BY <1>1 DEF ServerTypes, QueueOK, PoolOK, Busy
<1>3. CASE Refused(k)
  BY <1>2, <1>3, ServerAssumption DEF Refused, ServerTypes, CallOK
<1>4. CASE Send(k)
  BY <1>2, <1>4 DEF Send, ServerTypes, CallOK
<1>5. CASE Break(k) \/ GoSilent(k) \/ NoticeCrash(k)
  BY <1>2, <1>5 DEF Break, GoSilent, NoticeCrash, ServerTypes, CallOK
<1> QED BY <1>3, <1>4, <1>5

(***************************************************************************)
(* The steps of the handlers keep the database.                            *)
(***************************************************************************)
(* An operation on the files of known nodes. *)
LEMMA DataStep ==
  ASSUME DataOK, NEW new, records' = new, FilesOK(new, AnySlot), DOMAIN new = DOMAIN records,
         UNCHANGED <<sortedIDs, now, up>>
  PROVE  DataOK' /\ DOMAIN records' = DOMAIN records
<1>1. now \in Nat /\ now' \in Nat /\ now <= now' /\ FilesOK(new, AnySlot)
  BY DEF DataOK
<1>2. FilesOK(records, AnySlot)'
  BY <1>1, FilesStep
<1>3. IndexMatchesRecords'
  BY DEF DataOK, IndexMatchesRecords
<1> QED BY <1>2, <1>3 DEF DataOK

(* A node joins. *)
LEMMA DataJoin ==
  ASSUME DataOK, NEW n \in AllIDs, NEW ip \in IPs,
         records' = DbJoin(records, n, ip), sortedIDs' = [sortedIDs EXCEPT ![n] = @ + 1],
         UNCHANGED <<now, up>>
  PROVE  DataOK' /\ DOMAIN records \subseteq DOMAIN records'
<1>1. now \in Nat /\ now' \in Nat /\ now <= now'
  BY DEF DataOK
<1>2. FilesOK(DbJoin(records, n, ip), AnySlot)
  BY JoinKeeps DEF DataOK
<1>3. FilesOK(records, AnySlot)'
  BY <1>1, <1>2, FilesStep
<1>4. IndexMatchesRecords'
  BY JoinIndex DEF DataOK
<1>5. DOMAIN records \subseteq DOMAIN records'
  BY DEF DbJoin, Put
<1>6. sortedIDs' \in [AllIDs -> Nat]
  BY DEF DataOK
<1> QED BY <1>3, <1>4, <1>5, <1>6 DEF DataOK

(* blacklistNode, of a node that may be unknown. *)
LEMMA DataBlacklist ==
  ASSUME DataOK, NEW n \in AllIDs, NEW b \in Blacklisters,
         records' = DbBlacklistNode(records, n, b, now), UNCHANGED <<sortedIDs, now, up>>
  PROVE  DataOK' /\ DOMAIN records' = DOMAIN records
<1>1. CASE n \notin DOMAIN records
  <2>1. records' = records
    BY <1>1 DEF DbBlacklistNode
  <2> QED BY <2>1, DataStep DEF DataOK
<1>2. CASE n \in DOMAIN records
  <2> DEFINE rec == AddBlacklister(records[n], b, now)
             new == [records EXCEPT ![n] = rec]
  <2>1. records' = new
    BY <1>2 DEF DbBlacklistNode
  <2>2. FilesOK(records, AnySlot) /\ RecordOK(records[n], AnySlot) /\ now \in Nat
    BY <1>2 DEF DataOK, FilesOK, RecordsOK
  <2>3. /\ RecordOK(rec, AnySlot)
        /\ rec.backedUpFiles = records[n].backedUpFiles
        /\ rec.storedFiles = records[n].storedFiles
    BY <2>2, AddBlacklisterFacts
  <2> HIDE DEF rec
  <2>4. FilesOK(new, AnySlot) /\ DOMAIN new = DOMAIN records
    BY <1>2, <2>2, <2>3, OtherFieldKeeps
  <2> HIDE DEF new
  <2> QED BY <2>1, <2>4, DataStep
<1> QED BY <1>1, <1>2

(* serialize prunes a record. *)
LEMMA DataPrune ==
  ASSUME DataOK, NEW n \in DOMAIN records, NEW visited,
         records' = [records EXCEPT ![n] = Pruned(records[n], now, visited)],
         UNCHANGED <<sortedIDs, now, up>>
  PROVE  DataOK' /\ DOMAIN records' = DOMAIN records
<1> DEFINE rec == Pruned(records[n], now, visited)
           new == [records EXCEPT ![n] = rec]
<1>1. FilesOK(records, AnySlot) /\ RecordOK(records[n], AnySlot)
  BY DEF DataOK, FilesOK, RecordsOK
<1>2. /\ RecordOK(rec, AnySlot)
      /\ rec.backedUpFiles = records[n].backedUpFiles
      /\ rec.storedFiles = records[n].storedFiles
  BY <1>1, PrunedFacts
<1>3. records' = new
  OBVIOUS
<1> HIDE DEF rec
<1>4. FilesOK(new, AnySlot) /\ DOMAIN new = DOMAIN records
  BY <1>1, <1>2, OtherFieldKeeps
<1> HIDE DEF new
<1> QED BY <1>3, <1>4, DataStep

(* The list of a file always has room. *)
LEMMA RoomForBackup ==
  ASSUME FilesOK(records, AnySlot), NEW f, NEW p \in DOMAIN records
  PROVE  HasRoom(ValueOr(records[p].backedUpFiles, f, EmptyMap), AnySlot)
<1>1. RecordOK(records[p], AnySlot)
  BY DEF FilesOK, RecordsOK
<1>2. IsFiniteSet(DOMAIN ValueOr(records[p].backedUpFiles, f, EmptyMap))
  BY <1>1, EmptyMapFacts DEF RecordOK, ValueOr, IsList
<1> QED BY <1>2, RoomFacts DEF AnySlot

(* backupFile. *)
LEMMA DataBackup ==
  ASSUME DataOK, NEW f \in Files, NEW n, NEW size \in Sizes,
         records' = DbBackupFile(records, Owner[f], n, f, size),
         UNCHANGED <<sortedIDs, now, up>>
  PROVE  DataOK' /\ DOMAIN records' = DOMAIN records
<1> DEFINE new == DbBackupFile(records, Owner[f], n, f, size)
<1>1. ASSUME Owner[f] \in DOMAIN records
      PROVE  HasRoom(ValueOr(records[Owner[f]].backedUpFiles, f, EmptyMap), AnySlot)
  BY <1>1, RoomForBackup DEF DataOK
<1>2. FilesOK(new, AnySlot)
  BY <1>1, BackupKeeps DEF DataOK
<1>3. DOMAIN new = DOMAIN records
  BY DEF DbBackupFile
<1>4. records' = new
  OBVIOUS
<1> HIDE DEF new
<1> QED BY <1>2, <1>3, <1>4, DataStep

(* updateFileSize. *)
LEMMA DataUpdate ==
  ASSUME DataOK, NEW f \in Files, NEW size \in UpdateSizes,
         records' = DbUpdateFileSize(records, Owner[f], f, size),
         UNCHANGED <<sortedIDs, now, up>>
  PROVE  DataOK' /\ DOMAIN records' = DOMAIN records
<1>1. PICK new : records' = new /\ FilesOK(new, AnySlot) /\ DOMAIN new = DOMAIN records
  BY UpdateKeeps DEF DataOK
<1> QED BY <1>1, DataStep

(* removeBackup. *)
LEMMA DataRemove ==
  ASSUME DataOK, NEW f \in Files, NEW n,
         records' = DbRemoveBackup(records, Owner[f], n, f),
         UNCHANGED <<sortedIDs, now, up>>
  PROVE  DataOK' /\ DOMAIN records' = DOMAIN records
<1>1. PICK new : records' = new /\ FilesOK(new, AnySlot) /\ DOMAIN new = DOMAIN records
  BY RemoveKeeps DEF DataOK
<1> QED BY <1>1, DataStep

(* The clock runs, or the tracker starts again with nothing. *)
LEMMA DataEnvironment ==
  ASSUME DataOK, Tick \/ Restart
  PROVE  DataOK' /\ (up => DOMAIN records \subseteq DOMAIN records')
<1>1. CASE Tick
  <2>1. now \in Nat /\ now' \in Nat /\ now <= now' /\ records' = records
    BY <1>1, DatabaseAssumption DEF DataOK, Tick
  <2>2. FilesOK(records, AnySlot)'
    BY <2>1, FilesStep DEF DataOK
  <2> QED BY <1>1, <2>1, <2>2 DEF Tick, DataOK, IndexMatchesRecords
<1>2. CASE Restart
  <2>1. FilesOK(NoRecords, AnySlot) /\ DOMAIN NoRecords = {}
    BY EmptyDatabase
  <2>2. now \in Nat /\ now' \in Nat /\ now <= now' /\ records' = NoRecords
    BY <1>2 DEF DataOK, Restart
  <2>3. FilesOK(records, AnySlot)'
    BY <2>1, <2>2, FilesStep
  <2>4. IndexMatchesRecords'
    BY <1>2, <2>1 DEF Restart, NoIDs, IndexMatchesRecords
  <2> QED BY <1>2, <2>3, <2>4 DEF Restart, DataOK, NoIDs
<1> QED BY <1>1, <1>2

(***************************************************************************)
(* Every step keeps the invariant.                                         *)
(***************************************************************************)
(* What a step has to show of the references into the records.              *)
LEMMA ReferencesStep ==
  ASSUME ReferenceIsValid, DOMAIN records \subseteq DOMAIN records',
         \A j \in Conns : job'[j] = "serializing" =>
           \/ job[j] = "serializing" /\ cmd'[j] = cmd[j]
           \/ cmd'[j].op = "get" /\ cmd'[j].nodeID \in DOMAIN records
  PROVE  ReferenceIsValid'
<1> QED BY DEF ReferenceIsValid

Handlers(k) ==
  \/ HandleJoin(k) \/ HandleFindClosestNode(k) \/ HandleGet(k) \/ HandleBlacklist(k)
  \/ HandleBackup(k) \/ HandleUpdateFileSize(k) \/ HandleRemoveBackup(k)

(* A handler has received a command and answers it. *)
LEMMA HandlerAnswers ==
  ASSUME ServerInv, NEW k \in Conns, Handlers(k)
  PROVE  /\ up /\ job[k] = "reading" /\ k \in sent /\ cmd[k] \in Commands
         /\ \E result \in BOOLEAN, nodeID \in AllIDs, state \in {"serializing", "replying"} :
              /\ Answer(k, result, nodeID, state)
              /\ state = "serializing" =>
                   cmd[k].op = "get" /\ cmd[k].nodeID \in DOMAIN records
<1>1. up /\ job[k] = "reading" /\ k \in sent
  BY DEF Handlers, HandleJoin, HandleFindClosestNode, HandleGet, HandleBlacklist,
         HandleBackup, HandleUpdateFileSize, HandleRemoveBackup, Received
<1>2. cmd[k] \in Commands
  BY <1>1 DEF ServerInv, CallOK
<1>3. NoNode \in AllIDs
  BY DEF AllIDs
<1>4. CASE HandleGet(k)
  BY <1>1, <1>2, <1>3, <1>4 DEF HandleGet, Received
<1>5. CASE HandleFindClosestNode(k)
  BY <1>1, <1>2, <1>5 DEF HandleFindClosestNode
<1>6. CASE HandleJoin(k) \/ HandleBlacklist(k)
  <2>1. DbBlacklistNodeResult(records, cmd[k].nodeID, cmd[k].peerID) \in BOOLEAN
    BY DEF DbBlacklistNodeResult
  <2> QED BY <1>1, <1>2, <1>3, <1>6, <2>1 DEF HandleJoin, HandleBlacklist
<1>7. CASE HandleBackup(k) \/ HandleUpdateFileSize(k) \/ HandleRemoveBackup(k)
  <2> DEFINE f == cmd[k].fileID
             n == cmd[k].nodeID
  <2>1. /\ DbBackupFileResult(records, Owner[f], n, f) \in BOOLEAN
        /\ DbUpdateFileSizeResult(records, Owner[f], f, cmd[k].size) \in BOOLEAN
        /\ DbRemoveBackupResult(records, Owner[f], n, f) \in BOOLEAN
    BY DEF DbBackupFileResult, DbUpdateFileSizeResult, DbRemoveBackupResult
  <2> QED BY <1>1, <1>2, <1>3, <1>7, <2>1
          DEF HandleBackup, HandleUpdateFileSize, HandleRemoveBackup
<1> QED BY <1>4, <1>5, <1>6, <1>7 DEF Handlers

(* A handler keeps the database. *)
LEMMA HandlerData ==
  ASSUME ServerInv, NEW k \in Conns, Handlers(k), cmd[k] \in Commands, UNCHANGED <<now, up>>
  PROVE  DataOK' /\ DOMAIN records \subseteq DOMAIN records'
<1> DEFINE c == cmd[k]
<1>1. DataOK
  BY DEF ServerInv
<1>2. CASE HandleJoin(k)
  <2>1. c.nodeID \in AllIDs /\ c.ip \in IPs
    BY <1>2, CommandFacts DEF HandleJoin, Received, AllIDs
  <2> QED BY <1>1, <1>2, <2>1, DataJoin DEF HandleJoin
<1>3. CASE HandleFindClosestNode(k) \/ HandleGet(k)
  <2>1. records' = records /\ sortedIDs' = sortedIDs
    BY <1>3 DEF HandleFindClosestNode, HandleGet
  <2> QED BY <1>1, <2>1, DataStep DEF DataOK
<1>4. CASE HandleBlacklist(k)
  <2>1. c.peerID \in Blacklisters /\ c.nodeID \in AllIDs
    BY <1>4, CommandFacts DEF HandleBlacklist, Received
  <2> QED BY <1>1, <1>4, <2>1, DataBlacklist DEF HandleBlacklist
<1>5. CASE HandleBackup(k)
  <2>1. c.fileID \in Files /\ c.size \in Sizes
    BY <1>5, CommandFacts DEF HandleBackup, Received
  <2> QED BY <1>1, <1>5, <2>1, DataBackup DEF HandleBackup
<1>6. CASE HandleUpdateFileSize(k)
  <2>1. c.fileID \in Files /\ c.size \in UpdateSizes
    BY <1>6, CommandFacts DEF HandleUpdateFileSize, Received
  <2> QED BY <1>1, <1>6, <2>1, DataUpdate DEF HandleUpdateFileSize
<1>7. CASE HandleRemoveBackup(k)
  <2>1. c.fileID \in Files
    BY <1>7, CommandFacts DEF HandleRemoveBackup, Received
  <2> QED BY <1>1, <1>7, <2>1, DataRemove DEF HandleRemoveBackup
<1> QED BY <1>2, <1>3, <1>4, <1>5, <1>6, <1>7 DEF Handlers

(* A handler keeps the invariant. *)
LEMMA HandlerStep ==
  ASSUME ServerInv, NEW k \in Conns, Handlers(k)
  PROVE  ServerInv'
<1>1. /\ up /\ job[k] = "reading" /\ k \in sent /\ cmd[k] \in Commands
      /\ \E result \in BOOLEAN, nodeID \in AllIDs, state \in {"serializing", "replying"} :
           /\ Answer(k, result, nodeID, state)
           /\ state = "serializing" =>
                cmd[k].op = "get" /\ cmd[k].nodeID \in DOMAIN records
  BY HandlerAnswers
<1>2. PICK result \in BOOLEAN, nodeID \in AllIDs, state \in {"serializing", "replying"} :
        /\ Answer(k, result, nodeID, state)
        /\ state = "serializing" => cmd[k].op = "get" /\ cmd[k].nodeID \in DOMAIN records
  BY <1>1
<1>3. ServerTypes' /\ job' = [job EXCEPT ![k] = state]
  BY <1>1, <1>2, AnswerTypes DEF ServerInv, ServerTypes
<1>4. UNCHANGED <<now, up, cmd>>
  BY <1>2 DEF Answer
<1>5. DataOK' /\ DOMAIN records \subseteq DOMAIN records'
  BY <1>1, <1>4, HandlerData
<1>6. DeadIsIdle'
  BY <1>1, <1>4 DEF DeadIsIdle
<1>7. ReferenceIsValid'
  <2>1. \A j \in Conns : job'[j] = IF j = k THEN state ELSE job[j]
    BY <1>3 DEF ServerInv, CallOK
  <2> QED BY <1>2, <1>4, <1>5, <2>1, ReferencesStep DEF ServerInv
<1> QED BY <1>3, <1>5, <1>6, <1>7 DEF ServerInv, ServerTypes

(* serialize, the reply and a join of the empty ID keep it.                 *)
LEMMA ReleaseStep ==
  ASSUME ServerInv, NEW k \in Conns, SerializeReply(k) \/ SendReply(k) \/ JoinEmptyID(k)
  PROVE  ServerInv'
<1>1. /\ UNCHANGED <<now, up, queue>> /\ up
      /\ \E s \in {"none", "replying"} : job' = [job EXCEPT ![k] = s]
      /\ \A j \in Conns \ {k} : cmd'[j] = cmd[j]
  BY DEF SerializeReply, SendReply, JoinEmptyID, ReceivedNothing, vars, ServerInv, CallOK
<1>2. ServerTypes'
  BY <1>1, ReleaseTypes DEF ServerInv, ServerTypes
<1>3. DataOK' /\ DOMAIN records \subseteq DOMAIN records'
  <2>1. CASE SerializeReply(k)
    <3>1. PICK visited : records' = [records EXCEPT ![cmd[k].nodeID] =
                                       Pruned(records[cmd[k].nodeID], now, visited)]
      BY <2>1 DEF SerializeReply
    <3>2. cmd[k].nodeID \in DOMAIN records
      BY <2>1 DEF SerializeReply, ServerInv, ReferenceIsValid
    <3> QED BY <2>1, <3>1, <3>2, DataPrune DEF SerializeReply, ServerInv
  <2>2. CASE SendReply(k)
    BY <2>2, DataStep DEF SendReply, vars, ServerInv, DataOK
  <2>3. CASE JoinEmptyID(k)
    <3>1. PICK ip \in IPs : records' = DbJoin(records, NoNode, ip)
      BY <2>3 DEF JoinEmptyID
    <3>2. NoNode \in AllIDs
      BY DEF AllIDs
    <3> QED BY <1>1, <2>3, <3>1, <3>2, DataJoin DEF JoinEmptyID, ServerInv
  <2> QED BY <2>1, <2>2, <2>3
<1>4. DeadIsIdle'
  BY <1>1 DEF DeadIsIdle
<1>5. ReferenceIsValid'
  <2>1. \A j \in Conns : job'[j] = "serializing" => j # k /\ job[j] = "serializing"
    BY <1>1 DEF ServerInv, CallOK
  <2> QED BY <1>1, <1>3, <2>1, ReferencesStep DEF ServerInv
<1> QED BY <1>2, <1>3, <1>4, <1>5 DEF ServerInv, ServerTypes

(* So do the steps of the callers and of the queue, ...                     *)
LEMMA ConnectionStep ==
  ASSUME ServerInv,
         \/ \E k \in Conns :
              \/ \E c \in Commands : Connect(k, c) \/ Refused(k)
              \/ Send(k) \/ Break(k) \/ GoSilent(k) \/ NoticeCrash(k)
         \/ TakeConnection
  PROVE  ServerInv'
<1>1. UNCHANGED vars
  BY DEF Connect, Refused, Send, Break, GoSilent, NoticeCrash, TakeConnection
<1>2. DataOK' /\ DOMAIN records' = DOMAIN records
  BY <1>1, DataStep DEF vars, ServerInv, DataOK
<1>3. ASSUME NEW k \in Conns, NEW c \in Commands, Connect(k, c) PROVE ServerInv'
  <2>1. ServerTypes'
    <3>1. QueueOK' /\ PoolOK'
      BY <1>3, ConnectStep DEF ServerInv
    <3>2. CallOK'
      BY <1>3, ServerAssumption DEF Connect, ServerInv, CallOK
    <3> QED BY <3>1, <3>2 DEF ServerTypes
  <2>2. up /\ \A j \in Conns : /\ job'[j] = IF j = k THEN "queued" ELSE job[j]
                               /\ j # k => cmd'[j] = cmd[j]
    BY <1>3 DEF Connect, ServerInv, CallOK
  <2>3. DeadIsIdle' /\ ReferenceIsValid'
    BY <1>1, <1>2, <2>2, ReferencesStep DEF vars, ServerInv, DeadIsIdle
  <2> QED BY <1>2, <2>1, <2>3 DEF ServerInv, ServerTypes
<1>4. ASSUME NEW k \in Conns,
             Refused(k) \/ Send(k) \/ Break(k) \/ GoSilent(k) \/ NoticeCrash(k)
      PROVE  ServerInv'
  <2>1. ServerTypes'
    BY <1>4, CallerTypes DEF ServerInv, ServerTypes
  <2>2. job' = job /\ cmd' = cmd
    BY <1>4 DEF Refused, Send, Break, GoSilent, NoticeCrash
  <2>3. DeadIsIdle' /\ ReferenceIsValid'
    BY <1>1, <1>2, <2>2 DEF vars, ServerInv, DeadIsIdle, ReferenceIsValid
  <2> QED BY <1>2, <2>1, <2>3 DEF ServerInv, ServerTypes
<1>5. ASSUME TakeConnection PROVE ServerInv'
  <2>1. Head(queue) \in Conns /\ job[Head(queue)] = "queued" /\ QueueOK' /\ PoolOK'
    BY <1>5, TakeStep DEF ServerInv
  <2>2. CallOK'
    BY <1>5, <2>1 DEF TakeConnection, ServerInv, CallOK
  <2>3. up /\ \A j \in Conns : job'[j] = "serializing" => job[j] = "serializing"
    BY <1>5, <2>1 DEF TakeConnection, ServerInv, CallOK
  <2>4. DeadIsIdle' /\ ReferenceIsValid'
    BY <1>1, <1>2, <1>5, <2>3, ReferencesStep DEF vars, ServerInv, DeadIsIdle, TakeConnection
  <2> QED BY <1>2, <2>1, <2>2, <2>4 DEF ServerInv
<1> QED BY <1>3, <1>4, <1>5

(* ... the death of the process, ...                                        *)
LEMMA DeathStep ==
  ASSUME ServerInv, NEW k \in Conns, CrashIn(k)
  PROVE  ServerInv' /\ Crash /\ up
<1>1. Crash /\ up
  BY DEF CrashIn, CrashInJoin, CrashInFindClosest, CrashInSerialize, CrashInRace,
         Received, ReceivedNothing
<1>2. QueueOK' /\ PoolOK' /\ CallOK'
  BY <1>1, ResetStep DEF ServerInv
<1>3. UNCHANGED <<records, sortedIDs, now>> /\ up' = FALSE
      /\ \A j \in Conns : job'[j] = "none"
  BY <1>1 DEF Crash
<1>4. FilesOK(records, AnySlot)'
  BY <1>3, FilesStep DEF ServerInv, DataOK
<1>5. DataOK'
  BY <1>3, <1>4 DEF ServerInv, DataOK, IndexMatchesRecords
<1> QED BY <1>1, <1>2, <1>3, <1>5 DEF ServerInv, DeadIsIdle, ReferenceIsValid

(* ... the clock and the operator, and the steps in which nothing happens.  *)
LEMMA EnvironmentStep ==
  ASSUME ServerInv, Environment \/ UNCHANGED serverVars
  PROVE  ServerInv'
<1>1. UNCHANGED <<client, sent, job, queue, cmd, reply, calls>>
  BY DEF Environment, serverVars
<1>2. ServerTypes'
  BY <1>1 DEF ServerInv, ServerTypes, QueueOK, CallOK, PoolOK, Busy
<1>3. DataOK' /\ (up => DOMAIN records \subseteq DOMAIN records')
  <2>1. CASE Environment
    BY <2>1, DataEnvironment DEF Environment, ServerInv
  <2>2. CASE UNCHANGED serverVars
    BY <2>2, DataStep DEF serverVars, vars, ServerInv, DataOK
  <2> QED BY <2>1, <2>2
<1>4. up' \/ ~up
  BY DEF Environment, Tick, Restart, serverVars, vars, ServerInv, DataOK
<1>5. DeadIsIdle'
  BY <1>1, <1>4 DEF ServerInv, DeadIsIdle
<1>6. ReferenceIsValid'
  BY <1>1, <1>3 DEF ServerInv, DeadIsIdle, ReferenceIsValid
<1> QED BY <1>2, <1>3, <1>5, <1>6 DEF ServerInv, ServerTypes

(* The initial states satisfy the invariant. *)
LEMMA ServerInit_Inv == ServerInit => ServerInv
<1> SUFFICES ASSUME ServerInit PROVE ServerInv
  OBVIOUS
<1>1. FilesOK(records, AnySlot) /\ DOMAIN records = {}
  BY EmptyDatabase DEF ServerInit, Init
<1>2. DataOK
  BY <1>1 DEF ServerInit, Init, NoIDs, DataOK, IndexMatchesRecords
<1>3. QueueOK /\ CallOK
  BY ServerAssumption DEF ServerInit, QueueOK, CallOK
<1>4. PoolOK
  <2>1. Busy = {}
    BY DEF ServerInit, Busy
  <2> QED BY <2>1, FS_EmptySet, ServerAssumption DEF PoolOK
<1> QED BY <1>2, <1>3, <1>4 DEF ServerInit, Init, ServerInv, DeadIsIdle, ReferenceIsValid

(* Every step keeps it. *)
LEMMA ServerNext_Inv == ServerInv /\ [ServerNext]_serverVars => ServerInv'
<1> SUFFICES ASSUME ServerInv, [ServerNext]_serverVars PROVE ServerInv'
  OBVIOUS
<1>1. ASSUME NEW k \in Conns, Handle(k) PROVE ServerInv'
  BY <1>1, HandlerStep, ReleaseStep DEF Handle, Handlers
<1>2. ASSUME NEW k \in Conns, CrashIn(k) PROVE ServerInv'
  BY <1>2, DeathStep
<1>3. CASE Environment \/ Quiet \/ UNCHANGED serverVars
  BY <1>3, EnvironmentStep DEF Quiet
<1> QED BY <1>1, <1>2, <1>3, ConnectionStep DEF ServerNext

(***************************************************************************)
(* The theorems.                                                           *)
(***************************************************************************)
(* The inductive invariant of the tracker and its callers.                  *)
THEOREM ServerInvariant == ServerSpec => []ServerInv
<1> QED BY ServerInit_Inv, ServerNext_Inv, PTL DEF ServerSpec

(* The queue, the pool and the connections are well formed: a connection    *)
(* waits in the queue once, no more connections are worked on than the pool *)
(* has threads, a request and a reply last as long as their call.           *)
THEOREM ServerTypeCorrect == ServerSpec => []ServerTypeOK
<1>1. ServerInv => ServerTypeOK
  BY TypesImplyTypeOK DEF ServerInv, ServerTypes
<1> QED BY <1>1, ServerInvariant, PTL

(* records_ and sortedIDs_ agree, whatever the handlers' interleaving, and  *)
(* also after an empty node ID has joined.                                  *)
THEOREM ServerIndexAgrees == ServerSpec => []IndexMatchesRecords
<1>1. ServerInv => IndexMatchesRecords
  BY DEF ServerInv, DataOK
<1> QED BY <1>1, ServerInvariant, PTL

(* No list of backups names a node that is unknown or does not store the    *)
(* file, whatever commands are repeated, lost, late or interleaved.         *)
THEOREM ServerNoDangling == ServerSpec => []NoDanglingReplica
<1>1. ServerInv => NoDanglingReplica
  BY FilesImplyNoDangling DEF ServerInv, DataOK
<1> QED BY <1>1, ServerInvariant, PTL

(* The record that serialize walks over outside the mutex is there until it *)
(* is done, and answers a get: the reference never dangles.                 *)
THEOREM NoDanglingReference == ServerSpec => []ReferenceIsValid
<1>1. ServerInv => ReferenceIsValid
  BY DEF ServerInv
<1> QED BY <1>1, ServerInvariant, PTL

(***************************************************************************)
(* What a step does to the database.                                       *)
(***************************************************************************)
LEMMA ServerEffect ==
  ASSUME ServerInv, [ServerNext]_serverVars
  PROVE  records' = records \/ Effect \/ Restart
<1>1. ASSUME NEW k \in Conns, Handlers(k) PROVE records' = records \/ Effect
  <2>1. cmd[k] \in Commands
    BY <1>1, HandlerAnswers
  <2>2. NodeIDs \subseteq AllIDs
    BY DEF AllIDs
  <2>3. CASE HandleJoin(k) \/ HandleBlacklist(k)
    BY <2>1, <2>2, <2>3, CommandFacts DEF HandleJoin, HandleBlacklist, Received, Effect
  <2>4. CASE HandleFindClosestNode(k) \/ HandleGet(k)
    BY <2>4 DEF HandleFindClosestNode, HandleGet
  <2>5. CASE HandleBackup(k)
    BY <2>1, <2>5, CommandFacts DEF HandleBackup, Received, Effect
  <2>6. CASE HandleUpdateFileSize(k)
    BY <2>1, <2>6, CommandFacts DEF HandleUpdateFileSize, Received, Effect
  <2>7. CASE HandleRemoveBackup(k)
    BY <2>1, <2>7, CommandFacts DEF HandleRemoveBackup, Received, Effect
  <2> QED BY <1>1, <2>3, <2>4, <2>5, <2>6, <2>7 DEF Handlers
<1>2. ASSUME NEW k \in Conns, SerializeReply(k) PROVE Effect
  BY <1>2 DEF SerializeReply, ServerInv, ReferenceIsValid, Effect
<1>3. ASSUME NEW k \in Conns, JoinEmptyID(k) PROVE Effect
  BY <1>3 DEF JoinEmptyID, AllIDs, Effect
<1>4. ASSUME NEW k \in Conns, SendReply(k) \/ CrashIn(k) PROVE records' = records
  BY <1>4, DeathStep DEF SendReply, vars, Crash
<1>5. CASE Environment
  BY <1>5 DEF Environment, Tick
<1>6. CASE UNCHANGED vars
  BY <1>6 DEF vars
<1>7. ASSUME NEW k \in Conns, NEW c \in Commands,
             Connect(k, c) \/ Refused(k)
      PROVE  UNCHANGED vars
  BY <1>7 DEF Connect, Refused
<1>8. CASE TakeConnection \/ Quiet \/ UNCHANGED serverVars
  BY <1>8 DEF TakeConnection, Quiet, serverVars, vars
<1>9. ASSUME NEW k \in Conns,
             Send(k) \/ Break(k) \/ GoSilent(k) \/ NoticeCrash(k)
      PROVE  UNCHANGED vars
  BY <1>9 DEF Send, Break, GoSilent, NoticeCrash
<1> QED BY <1>1, <1>2, <1>3, <1>4, <1>5, <1>6, <1>7, <1>8, <1>9
        DEF ServerNext, Handle, Handlers

(* A node that was blacklisted stays blacklisted by that node, from the     *)
(* same time on, for as long as the tracker runs and PRUNE_AGE has not      *)
(* passed: also when another thread prunes the record outside the mutex and *)
(* late or repeated commands arrive.                                        *)
THEOREM ServerComplaintsKept == ServerSpec => KeepBlacklistersOneWeek
<1>1. ASSUME ServerInv, [ServerNext]_serverVars, up, up',
             NEW m \in DOMAIN records, NEW b \in DOMAIN records[m].blacklisters,
             now - records[m].blacklisters[b] <= PruneAge
      PROVE  /\ b \in DOMAIN records'[m].blacklisters
             /\ records'[m].blacklisters[b] = records[m].blacklisters[b]
  <2>1. RecordsOK(records, AnySlot) /\ now \in Nat
    BY <1>1 DEF ServerInv, DataOK, FilesOK
  <2>2. CASE records' = records
    BY <1>1, <2>2
  <2>3. CASE Effect
    BY <1>1, <2>1, <2>3, EffectsKeepComplaints
  <2>4. CASE Restart
    BY <1>1, <2>4 DEF Restart
  <2> QED BY <1>1, <2>2, <2>3, <2>4, ServerEffect
<1>2. ServerInv /\ [ServerNext]_serverVars =>
        [up /\ up' =>
           \A n \in DOMAIN records : \A b \in DOMAIN records[n].blacklisters :
             now - records[n].blacklisters[b] <= PruneAge =>
               /\ b \in DOMAIN records'[n].blacklisters
               /\ records'[n].blacklisters[b] = records[n].blacklisters[b]]_vars
  BY <1>1
<1> QED BY <1>2, ServerInvariant, PTL DEF ServerSpec, KeepBlacklistersOneWeek

(* No command but a deletion leaves a stored file that no owner claims.     *)
LEMMA EffectKeepsClaimed ==
  ASSUME FilesOK(records, AnySlot), Claimed(records), now \in Nat, 0 \notin UpdateSizes, Effect
  PROVE  Claimed(records')
<1>0. ASSUME NEW n \in DOMAIN records, NEW rec, RecordOK(rec, AnySlot),
             rec.backedUpFiles = records[n].backedUpFiles,
             rec.storedFiles = records[n].storedFiles
      PROVE  Claimed([records EXCEPT ![n] = rec])
  BY <1>0, OtherFieldKeeps
<1>1. ASSUME NEW n \in AllIDs, NEW ip \in IPs, records' = DbJoin(records, n, ip)
      PROVE  Claimed(records')
  BY <1>1, JoinKeeps
<1>2. ASSUME NEW n \in AllIDs, NEW c \in Blacklisters,
             records' = DbBlacklistNode(records, n, c, now)
      PROVE  Claimed(records')
  <2>1. CASE n \notin DOMAIN records
    <3>1. records' = records
      BY <1>2, <2>1 DEF DbBlacklistNode
    <3> QED BY <3>1
  <2>2. CASE n \in DOMAIN records
    <3>1. records' = [records EXCEPT ![n] = AddBlacklister(records[n], c, now)]
      BY <1>2, <2>2 DEF DbBlacklistNode
    <3>2. RecordOK(records[n], AnySlot)
      BY <2>2 DEF FilesOK, RecordsOK
    <3> QED BY <1>0, <2>2, <3>1, <3>2, AddBlacklisterFacts
  <2> QED BY <2>1, <2>2
<1>3. ASSUME NEW n \in DOMAIN records, NEW visited \in SUBSET Blacklisters,
             records' = [records EXCEPT ![n] = Pruned(records[n], now, visited)]
      PROVE  Claimed(records')
  <2>1. RecordOK(records[n], AnySlot)
    BY DEF FilesOK, RecordsOK
  <2> QED BY <1>0, <1>3, <2>1, PrunedFacts
<1>4. ASSUME NEW f \in Files, NEW n \in AllIDs, NEW size \in Sizes,
             records' = DbBackupFile(records, Owner[f], n, f, size)
      PROVE  Claimed(records')
  <2>1. ASSUME Owner[f] \in DOMAIN records
        PROVE  HasRoom(ValueOr(records[Owner[f]].backedUpFiles, f, EmptyMap), AnySlot)
    BY <2>1, RoomForBackup
  <2> QED BY <1>4, <2>1, BackupKeeps
<1>5. ASSUME NEW f \in Files, NEW size \in UpdateSizes,
             records' = DbUpdateFileSize(records, Owner[f], f, size)
      PROVE  Claimed(records')
  BY <1>5, UpdateKeeps
<1>6. ASSUME NEW f \in Files, NEW n \in AllIDs,
             records' = DbRemoveBackup(records, Owner[f], n, f)
      PROVE  Claimed(records')
  BY <1>6, RemoveKeeps
<1> QED BY <1>1, <1>2, <1>3, <1>4, <1>5, <1>6 DEF Effect

(* If no file is deleted, nothing is stored that no owner claims, and owner *)
(* and node agree on the size: also when calls fail and their commands take *)
(* effect twice, late, or never.                                            *)
THEOREM ServerStoredClaimed ==
  ASSUME 0 \notin UpdateSizes
  PROVE  ServerSpec => []StoredIsClaimed
<1> DEFINE CInv == ServerInv /\ Claimed(records)
<1>1. ServerInit => CInv
  BY ServerInit_Inv, EmptyDatabase DEF ServerInit, Init
<1>2. CInv /\ [ServerNext]_serverVars => CInv'
  <2> SUFFICES ASSUME CInv, [ServerNext]_serverVars PROVE CInv'
    OBVIOUS
  <2>1. ServerInv' /\ (records' = records \/ Effect \/ Restart)
    BY ServerNext_Inv, ServerEffect
  <2>2. CASE records' = records
    BY <2>1, <2>2 DEF Claimed
  <2>3. CASE Effect
    <3>1. Claimed(records')
      BY <2>3, EffectKeepsClaimed DEF ServerInv, DataOK
    <3> QED BY <2>1, <3>1 DEF Claimed
  <2>4. CASE Restart
    <3>1. records' = NoRecords /\ Claimed(NoRecords)
      BY <2>4, EmptyDatabase DEF Restart
    <3> QED BY <2>1, <3>1 DEF Claimed
  <2> QED BY <2>1, <2>2, <2>3, <2>4
<1>3. CInv => StoredIsClaimed
  BY ClaimedFacts DEF ServerInv, DataOK
<1> QED BY <1>1, <1>2, <1>3, PTL DEF ServerSpec

(***************************************************************************)
(* The tracker and its callers implement MetadataService.                  *)
(***************************************************************************)
(* The operators of the database mean the same in the instance.             *)
LEMMA SameOperators ==
  ASSUME NEW recs, NEW n, NEW b, NEW f, NEW p, NEW size, NEW ip, NEW time
  PROVE  /\ Service!DbJoin(recs, n, ip) = DbJoin(recs, n, ip)
         /\ Service!DbBlacklistNode(recs, n, b, time) = DbBlacklistNode(recs, n, b, time)
         /\ Service!DbBackupFile(recs, p, n, f, size) = DbBackupFile(recs, p, n, f, size)
         /\ Service!DbUpdateFileSize(recs, p, f, size) = DbUpdateFileSize(recs, p, f, size)
         /\ Service!DbRemoveBackup(recs, p, n, f) = DbRemoveBackup(recs, p, n, f)
<1> USE DEF Service!Put, Put, Service!Erase, Erase, Service!ValueOr, ValueOr,
            Service!EmptyMap, EmptyMap, Service!MetadataRecord, MetadataRecord,
            Service!FileMetadata, FileMetadata
<1>1. Service!DbJoin(recs, n, ip) = DbJoin(recs, n, ip)
  BY DEF Service!DbJoin, DbJoin
<1>2. Service!DbBlacklistNode(recs, n, b, time) = DbBlacklistNode(recs, n, b, time)
  BY DEF Service!DbBlacklistNode, DbBlacklistNode, Service!AddBlacklister, AddBlacklister
<1>3. Service!DbBackupFile(recs, p, n, f, size) = DbBackupFile(recs, p, n, f, size)
  BY DEF Service!DbBackupFile, DbBackupFile, Service!AddBackupFile, AddBackupFile,
         Service!AddStoreFile, AddStoreFile, Service!PushBack, PushBack,
         Service!FreeSlot, FreeSlot, Service!Cardinality, Cardinality
<1>4. Service!DbUpdateFileSize(recs, p, f, size) = DbUpdateFileSize(recs, p, f, size)
  BY DEF Service!DbUpdateFileSize, DbUpdateFileSize, Service!TouchBackup, TouchBackup,
         Service!UpdateBackupFileSize, UpdateBackupFileSize, Service!BackupNodes, BackupNodes,
         Service!UpdateStoreFileSize, UpdateStoreFileSize
<1>5. Service!DbRemoveBackup(recs, p, n, f) = DbRemoveBackup(recs, p, n, f)
  BY DEF Service!DbRemoveBackup, DbRemoveBackup, Service!RemoveBackup, RemoveBackup,
         Service!SlotsOn, SlotsOn, Service!UpdateStoreFileSize, UpdateStoreFileSize
<1> QED BY <1>1, <1>2, <1>3, <1>4, <1>5

(* So do their results, ...                                                 *)
LEMMA SameResults ==
  ASSUME NEW recs, NEW n, NEW b, NEW f, NEW p, NEW size
  PROVE  /\ Service!DbBlacklistNodeResult(recs, n, b) = DbBlacklistNodeResult(recs, n, b)
         /\ Service!DbBackupFileResult(recs, p, n, f) = DbBackupFileResult(recs, p, n, f)
         /\ Service!DbUpdateFileSizeResult(recs, p, f, size)
              = DbUpdateFileSizeResult(recs, p, f, size)
         /\ Service!DbRemoveBackupResult(recs, p, n, f) = DbRemoveBackupResult(recs, p, n, f)
<1>1. Service!DbBlacklistNodeResult(recs, n, b) = DbBlacklistNodeResult(recs, n, b)
  BY DEF Service!DbBlacklistNodeResult, DbBlacklistNodeResult,
         Service!AddBlacklisterResult, AddBlacklisterResult
<1>2. Service!DbBackupFileResult(recs, p, n, f) = DbBackupFileResult(recs, p, n, f)
  BY DEF Service!DbBackupFileResult, DbBackupFileResult,
         Service!AddStoreFileResult, AddStoreFileResult
<1>3. Service!DbUpdateFileSizeResult(recs, p, f, size) = DbUpdateFileSizeResult(recs, p, f, size)
  BY DEF Service!DbUpdateFileSizeResult, DbUpdateFileSizeResult,
         Service!UpdateBackupFileSizeResult, UpdateBackupFileSizeResult
<1>4. Service!DbRemoveBackupResult(recs, p, n, f) = DbRemoveBackupResult(recs, p, n, f)
  BY DEF Service!DbRemoveBackupResult, DbRemoveBackupResult,
         Service!RemoveBackupResult, RemoveBackupResult, Service!SlotsOn, SlotsOn,
         Service!UpdateStoreFileSizeResult, UpdateStoreFileSizeResult,
         Service!Cardinality, Cardinality
<1> QED BY <1>1, <1>2, <1>3, <1>4

(* ... the pruning, the states and the steps of the clock and the operator. *)
LEMMA SameStates ==
  /\ Service!AllIDs = AllIDs /\ Service!vars = vars
  /\ \A rec, time : Service!Expired(rec, time) = Expired(rec, time)
  /\ \A rec, time, visited : Service!Pruned(rec, time, visited) = Pruned(rec, time, visited)
  /\ Init => Service!Init
  /\ Tick => Service!Tick
  /\ Restart => Service!Restart
<1>1. Service!AllIDs = AllIDs /\ Service!vars = vars
  BY DEF Service!AllIDs, AllIDs, Service!vars, vars
<1>2. \A rec, time : Service!Expired(rec, time) = Expired(rec, time)
  BY DEF Service!Expired, Expired
<1>3. \A rec, time, visited : Service!Pruned(rec, time, visited) = Pruned(rec, time, visited)
  BY DEF Service!Expired, Expired, Service!Pruned, Pruned
<1>4. Service!NoRecords = NoRecords /\ Service!NoIDs = NoIDs
  BY DEF Service!NoRecords, NoRecords, Service!EmptyMap, EmptyMap, Service!NoIDs, NoIDs,
         Service!AllIDs, AllIDs
<1>5. /\ Init => Service!Init
      /\ Tick => Service!Tick
      /\ Restart => Service!Restart
  BY <1>4 DEF Service!Init, Init, Service!Tick, Tick, Service!Restart, Restart
<1> QED BY <1>1, <1>2, <1>3, <1>5

(* What phase and outcome of a connection depend on. *)
LEMMA MappingFacts ==
  ASSUME CallOK
  PROVE  /\ \A k \in Conns :
              /\ Phase[k] = "open" <=> job[k] \in {"queued", "reading"}
              /\ Phase[k] = "taken" <=> job[k] \in {"serializing", "replying"}
              /\ Phase[k] = "none" <=> job[k] = "none"
              /\ Phase[k] \in {"open", "taken", "none"}
              /\ Outcome[k] = "pending" <=> k \in Calling \cup Cut
              /\ k \notin Calling \cup Cut => Outcome[k] = client[k]
         /\ Phase = [k \in Conns |-> Phase[k]]
         /\ Outcome = [k \in Conns |-> Outcome[k]]
<1> QED BY DEF Phase, Outcome, Calling, Cut, CallOK

(* A connection whose job changes, and one whose caller does. *)
LEMMA MappingStep ==
  ASSUME CallOK, CallOK'
  PROVE  /\ UNCHANGED job => UNCHANGED Phase
         /\ UNCHANGED client => UNCHANGED Outcome
         /\ \A k \in Conns : \A s : job' = [job EXCEPT ![k] = s] =>
              /\ s \in {"queued", "reading"} => Phase' = [Phase EXCEPT ![k] = "open"]
              /\ s \in {"serializing", "replying"} => Phase' = [Phase EXCEPT ![k] = "taken"]
              /\ s = "none" => Phase' = [Phase EXCEPT ![k] = "none"]
         /\ \A k \in Conns : \A s : client' = [client EXCEPT ![k] = s] =>
              /\ s \in {"connected", "waiting", "cut"} =>
                   Outcome' = [Outcome EXCEPT ![k] = "pending"]
              /\ s \in {"ok", "error", "failed"} => Outcome' = [Outcome EXCEPT ![k] = s]
<1>1. UNCHANGED job => UNCHANGED Phase
  BY DEF Phase
<1>2. UNCHANGED client => UNCHANGED Outcome
  BY DEF Outcome, Calling, Cut
<1>3. ASSUME NEW k \in Conns, NEW s, job' = [job EXCEPT ![k] = s]
      PROVE  /\ s \in {"queued", "reading"} => Phase' = [Phase EXCEPT ![k] = "open"]
             /\ s \in {"serializing", "replying"} => Phase' = [Phase EXCEPT ![k] = "taken"]
             /\ s = "none" => Phase' = [Phase EXCEPT ![k] = "none"]
  <2>1. \A j \in Conns : job'[j] = IF j = k THEN s ELSE job[j]
    BY <1>3 DEF CallOK
  <2>2. \A j \in Conns \ {k} : Phase'[j] = Phase[j]
    BY <2>1 DEF Phase
  <2>3. /\ s \in {"queued", "reading"} => Phase'[k] = "open"
        /\ s \in {"serializing", "replying"} => Phase'[k] = "taken"
        /\ s = "none" => Phase'[k] = "none"
    BY <2>1 DEF Phase
  <2>4. DOMAIN Phase = Conns /\ DOMAIN Phase' = Conns
        /\ Phase = [j \in Conns |-> Phase[j]] /\ Phase' = [j \in Conns |-> Phase'[j]]
    BY DEF Phase
  <2> HIDE DEF Phase
  <2> QED BY <2>2, <2>3, <2>4
<1>4. ASSUME NEW k \in Conns, NEW s, client' = [client EXCEPT ![k] = s]
      PROVE  /\ s \in {"connected", "waiting", "cut"} =>
                  Outcome' = [Outcome EXCEPT ![k] = "pending"]
             /\ s \in {"ok", "error", "failed"} => Outcome' = [Outcome EXCEPT ![k] = s]
  <2>1. \A j \in Conns : client'[j] = IF j = k THEN s ELSE client[j]
    BY <1>4 DEF CallOK
  <2>2. \A j \in Conns \ {k} : Outcome'[j] = Outcome[j]
    BY <2>1 DEF Outcome, Calling, Cut
  <2>3. /\ s \in {"connected", "waiting", "cut"} => Outcome'[k] = "pending"
        /\ s \in {"ok", "error", "failed"} => Outcome'[k] = s
    BY <2>1 DEF Outcome, Calling, Cut
  <2>4. /\ Outcome = [j \in Conns |-> Outcome[j]] /\ Outcome' = [j \in Conns |-> Outcome'[j]]
    BY DEF Outcome
  <2> HIDE DEF Outcome
  <2> QED BY <2>2, <2>3, <2>4
<1> QED BY <1>1, <1>2, <1>3, <1>4

(* A handler lets its command take effect. *)
LEMMA HandlerImplements ==
  ASSUME ServerInv, ServerInv', NEW k \in Conns, Handlers(k)
  PROVE  Service!TakeEffect(k)
<1> DEFINE c == cmd[k]
<1>1. /\ up /\ job[k] = "reading" /\ k \in sent /\ cmd[k] \in Commands
      /\ \E result \in BOOLEAN, nodeID \in AllIDs, state \in {"serializing", "replying"} :
           Answer(k, result, nodeID, state)
  BY HandlerAnswers
<1>2. UNCHANGED <<now, up, cmd, client>>
      /\ \E state \in {"serializing", "replying"} : job' = [job EXCEPT ![k] = state]
  BY <1>1 DEF Answer
<1>3. /\ Phase[k] = "open" /\ Phase' = [Phase EXCEPT ![k] = "taken"]
      /\ UNCHANGED Outcome
  BY <1>1, <1>2, MappingFacts, MappingStep DEF ServerInv
<1>4. /\ records' = Service!Effect(records, c)
      /\ sortedIDs' = Service!Indexed(sortedIDs, c)
      /\ \E n \in Service!Answers(sortedIDs, c) :
           reply' = [reply EXCEPT ![k] = [error |-> ~Service!Result(records, c), nodeID |-> n]]
  <2>1. CASE HandleJoin(k)
    BY <2>1, SameOperators, SameResults, SameStates
    DEF HandleJoin, Received, Answer, Service!Effect, Service!Indexed,
        Service!Answers, Service!Result
  <2>2. CASE HandleFindClosestNode(k)
    BY <2>2, SameOperators, SameResults, SameStates
    DEF HandleFindClosestNode, Received, Answer, Service!Effect, Service!Indexed,
        Service!Answers, Service!Result
  <2>3. CASE HandleGet(k)
    BY <2>3, SameOperators, SameResults, SameStates
    DEF HandleGet, Received, Answer, Service!Effect, Service!Indexed,
        Service!Answers, Service!Result
  <2>4. CASE HandleBlacklist(k)
    <3>1. /\ Service!Effect(records, c) = DbBlacklistNode(records, c.nodeID, c.peerID, now)
          /\ Service!Result(records, c) = DbBlacklistNodeResult(records, c.nodeID, c.peerID)
      BY <2>4, SameOperators, SameResults DEF HandleBlacklist, Received, Service!Effect, Service!Result
    <3>2. Service!Indexed(sortedIDs, c) = sortedIDs /\ Service!Answers(sortedIDs, c) = {NoNode}
      BY <2>4 DEF HandleBlacklist, Received, Service!Indexed, Service!Answers
    <3> QED BY <2>4, <3>1, <3>2 DEF HandleBlacklist, Answer
  <2>5. CASE HandleBackup(k)
    <3>1. /\ Service!Effect(records, c) = DbBackupFile(records, Owner[c.fileID], c.nodeID, c.fileID, c.size)
          /\ Service!Result(records, c) = DbBackupFileResult(records, Owner[c.fileID], c.nodeID, c.fileID)
      BY <2>5, SameOperators, SameResults DEF HandleBackup, Received, Service!Effect, Service!Result
    <3>2. Service!Indexed(sortedIDs, c) = sortedIDs /\ Service!Answers(sortedIDs, c) = {NoNode}
      BY <2>5 DEF HandleBackup, Received, Service!Indexed, Service!Answers
    <3> QED BY <2>5, <3>1, <3>2 DEF HandleBackup, Answer
  <2>6. CASE HandleUpdateFileSize(k)
    <3>1. /\ Service!Effect(records, c) = DbUpdateFileSize(records, Owner[c.fileID], c.fileID, c.size)
          /\ Service!Result(records, c) = DbUpdateFileSizeResult(records, Owner[c.fileID], c.fileID, c.size)
      BY <2>6, SameOperators, SameResults DEF HandleUpdateFileSize, Received, Service!Effect, Service!Result
    <3>2. Service!Indexed(sortedIDs, c) = sortedIDs /\ Service!Answers(sortedIDs, c) = {NoNode}
      BY <2>6 DEF HandleUpdateFileSize, Received, Service!Indexed, Service!Answers
    <3> QED BY <2>6, <3>1, <3>2 DEF HandleUpdateFileSize, Answer
  <2>7. CASE HandleRemoveBackup(k)
    <3>1. /\ Service!Effect(records, c) = DbRemoveBackup(records, Owner[c.fileID], c.nodeID, c.fileID)
          /\ Service!Result(records, c) = DbRemoveBackupResult(records, Owner[c.fileID], c.nodeID, c.fileID)
      BY <2>7, SameOperators, SameResults DEF HandleRemoveBackup, Received, Service!Effect, Service!Result
    <3>2. Service!Indexed(sortedIDs, c) = sortedIDs /\ Service!Answers(sortedIDs, c) = {NoNode}
      BY <2>7 DEF HandleRemoveBackup, Received, Service!Indexed, Service!Answers
    <3> QED BY <2>7, <3>1, <3>2 DEF HandleRemoveBackup, Answer
  <2> QED BY <2>1, <2>2, <2>3, <2>4, <2>5, <2>6, <2>7 DEF Handlers
<1> QED BY <1>1, <1>2, <1>3, <1>4 DEF Service!TakeEffect

(* What becomes of a command that was handled, or lost. *)
LEMMA ReleaseImplements ==
  ASSUME ServerInv, ServerInv', NEW k \in Conns
  PROVE  /\ SerializeReply(k) => Service!Prune(cmd[k].nodeID) /\ cmd[k].nodeID \in AllIDs
         /\ SendReply(k) => Service!Settle(k)
         /\ JoinEmptyID(k) => Service!Drop(k)
<1>1. ASSUME SerializeReply(k)
      PROVE  Service!Prune(cmd[k].nodeID) /\ cmd[k].nodeID \in AllIDs
  <2> DEFINE n == cmd[k].nodeID
  <2>1. n \in DOMAIN records /\ n \in AllIDs
    BY <1>1 DEF SerializeReply, ServerInv, ReferenceIsValid, DataOK, IndexMatchesRecords
  <2>2. PICK visited :
          records' = [records EXCEPT ![n] = Pruned(records[n], now, visited)]
    BY <1>1 DEF SerializeReply
  <2> DEFINE gone == visited \cap Expired(records[n], now)
  <2>3. Pruned(records[n], now, visited) = Pruned(records[n], now, gone)
    <3>1. visited \cap Expired(records[n], now) = gone \cap Expired(records[n], now)
      OBVIOUS
    <3> QED BY <3>1 DEF Pruned
  <2>4. UNCHANGED <<cmd, reply, client, sortedIDs, now, up>> /\ up
        /\ job[k] = "serializing" /\ job' = [job EXCEPT ![k] = "replying"]
    BY <1>1 DEF SerializeReply
  <2>5. UNCHANGED <<Phase, Outcome>>
    <3>1. Phase[k] = "taken" /\ Phase' = [Phase EXCEPT ![k] = "taken"] /\ UNCHANGED Outcome
      BY <2>4, MappingFacts, MappingStep DEF ServerInv
    <3>2. Phase = [j \in Conns |-> Phase[j]]
      BY MappingFacts DEF ServerInv
    <3> QED BY <3>1, <3>2
  <2> QED BY <2>1, <2>2, <2>3, <2>4, <2>5, SameStates DEF Service!Prune, Service!callVars
<1>2. ASSUME SendReply(k) PROVE Service!Settle(k)
  <2>1. /\ UNCHANGED vars /\ job[k] = "replying" /\ job' = [job EXCEPT ![k] = "none"]
        /\ cmd' = [cmd EXCEPT ![k] = NoCommand] /\ reply' = [reply EXCEPT ![k] = NoReply]
    BY <1>2 DEF SendReply
  <2>2. Phase[k] = "taken" /\ Phase' = [Phase EXCEPT ![k] = "none"]
    BY <2>1, MappingFacts, MappingStep DEF ServerInv
  <2>3. CASE client[k] = "waiting"
    <3> DEFINE s == IF reply[k].error THEN "error" ELSE "ok"
    <3>1. client' = [client EXCEPT ![k] = s] /\ s \in {"ok", "error", "failed"}
      BY <1>2, <2>3 DEF SendReply
    <3>2. Outcome[k] = "pending"
      BY <2>3, MappingFacts DEF ServerInv, Calling
    <3>3. Outcome' = [Outcome EXCEPT ![k] = s]
      <4> HIDE DEF s
      <4> QED BY <3>1, MappingStep DEF ServerInv
    <3> QED BY <2>1, <2>2, <3>2, <3>3 DEF Service!Settle, Service!Forget, Service!vars, vars
  <2>4. CASE client[k] # "waiting"
    <3>1. UNCHANGED Outcome
      BY <1>2, <2>4, MappingStep DEF SendReply, ServerInv
    <3> QED BY <2>1, <2>2, <3>1 DEF Service!Settle, Service!Forget, Service!vars, vars
  <2> QED BY <2>3, <2>4
<1>3. ASSUME JoinEmptyID(k) PROVE Service!Drop(k)
  <2>1. /\ UNCHANGED <<now, up, client, reply>> /\ up
        /\ job[k] = "reading" /\ job' = [job EXCEPT ![k] = "none"]
        /\ cmd' = [cmd EXCEPT ![k] = NoCommand]
        /\ \E ip \in IPs : /\ records' = DbJoin(records, NoNode, ip)
                           /\ sortedIDs' = [sortedIDs EXCEPT ![NoNode] = @ + 1]
    BY <1>3 DEF JoinEmptyID, ReceivedNothing
  <2>2. reply' = [reply EXCEPT ![k] = NoReply]
    BY <2>1 DEF ServerInv, CallOK
  <2>3. Phase[k] = "open" /\ Phase' = [Phase EXCEPT ![k] = "none"] /\ UNCHANGED Outcome
    BY <2>1, MappingFacts, MappingStep DEF ServerInv
  <2>4. \E ip \in IPs : /\ records' = Service!DbJoin(records, NoNode, ip)
                       /\ sortedIDs' = [sortedIDs EXCEPT ![NoNode] = @ + 1]
    BY <2>1, SameOperators
  <2> QED BY <2>1, <2>2, <2>3, <2>4 DEF Service!Drop, Service!Forget
<1> QED BY <1>1, <1>2, <1>3

(* The steps of the callers. *)
LEMMA CallerImplements ==
  ASSUME ServerInv, ServerInv', NEW k \in Conns
  PROVE  /\ \A c \in Commands : Connect(k, c) \/ Refused(k) => Service!Invoke(k, c)
         /\ Break(k) \/ NoticeCrash(k) => Service!Fail(k)
         /\ Send(k) \/ GoSilent(k) => UNCHANGED Service!serviceVars
<1>1. ASSUME NEW c \in Commands, Connect(k, c) PROVE Service!Invoke(k, c)
  <2>1. /\ up /\ k \notin Calling \cup Cut /\ job[k] = "none"
        /\ cmd' = [cmd EXCEPT ![k] = c] /\ UNCHANGED <<reply, vars>>
        /\ job' = [job EXCEPT ![k] = "queued"]
        /\ client' = [client EXCEPT ![k] = "connected"]
    BY <1>1 DEF Connect
  <2>2. /\ Outcome[k] # "pending" /\ Phase[k] = "none"
        /\ Phase' = [Phase EXCEPT ![k] = "open"]
        /\ Outcome' = [Outcome EXCEPT ![k] = "pending"]
    BY <2>1, MappingFacts, MappingStep DEF ServerInv
  <2> QED BY <2>1, <2>2 DEF Service!Invoke, Service!vars, vars
<1>2. ASSUME NEW c \in Commands, Refused(k) PROVE Service!Invoke(k, c)
  <2>1. /\ ~up /\ k \notin Calling \cup Cut /\ UNCHANGED <<job, cmd, reply, vars>>
        /\ client' = [client EXCEPT ![k] = "failed"]
    BY <1>2 DEF Refused
  <2>2. job[k] = "none"
    BY <2>1 DEF ServerInv, DeadIsIdle
  <2>3. /\ Outcome[k] # "pending" /\ Phase[k] = "none" /\ UNCHANGED Phase
        /\ Outcome' = [Outcome EXCEPT ![k] = "failed"]
    BY <2>1, <2>2, MappingFacts, MappingStep DEF ServerInv
  <2> QED BY <2>1, <2>3 DEF Service!Invoke, Service!vars, vars
<1>3. ASSUME Break(k) \/ NoticeCrash(k) PROVE Service!Fail(k)
  <2>1. /\ k \in Calling /\ UNCHANGED <<job, cmd, reply, vars>>
        /\ client' = [client EXCEPT ![k] = "failed"]
    BY <1>3 DEF Break, NoticeCrash
  <2>2. /\ Outcome[k] = "pending" /\ UNCHANGED Phase
        /\ Outcome' = [Outcome EXCEPT ![k] = "failed"]
    BY <2>1, MappingFacts, MappingStep DEF ServerInv
  <2> QED BY <2>1, <2>2 DEF Service!Fail, Service!vars, vars
<1>4. ASSUME Send(k) \/ GoSilent(k) PROVE UNCHANGED Service!serviceVars
  <2>1. /\ k \in Calling /\ UNCHANGED <<job, cmd, reply, vars>>
        /\ \E s \in {"waiting", "cut"} : client' = [client EXCEPT ![k] = s]
    BY <1>4 DEF Send, GoSilent, Calling
  <2>2. Outcome[k] = "pending" /\ UNCHANGED Phase
        /\ Outcome' = [Outcome EXCEPT ![k] = "pending"]
    BY <2>1, MappingFacts, MappingStep DEF ServerInv
  <2>3. UNCHANGED Outcome
    BY <2>2, MappingFacts DEF ServerInv
  <2> QED BY <2>1, <2>2, <2>3 DEF Service!serviceVars, Service!callVars, Service!vars, vars
<1> QED BY <1>1, <1>2, <1>3, <1>4

(* A command takes effect in one step and at most once, a result that is    *)
(* returned is the result of that step, and a call that throws tells        *)
(* nothing: handlers, pool and sockets implement MetadataService.           *)
THEOREM ServerImplementsService == ServerSpec => ImplementsService
<1>1. ServerInit => Service!ServiceInit
  BY SameStates DEF ServerInit, Service!ServiceInit, Phase, Outcome, Calling, Cut
<1>2. ServerInv /\ ServerInv' /\ [ServerNext]_serverVars =>
        [Service!ServiceNext]_(Service!serviceVars)
  <2> SUFFICES ASSUME ServerInv, ServerInv', [ServerNext]_serverVars
               PROVE  [Service!ServiceNext]_(Service!serviceVars)
    OBVIOUS
  <2>1. ASSUME NEW k \in Conns,
               \/ \E c \in Commands : Connect(k, c) \/ Refused(k)
               \/ Send(k) \/ Break(k) \/ GoSilent(k) \/ NoticeCrash(k)
        PROVE  [Service!ServiceNext]_(Service!serviceVars)
    BY <2>1, CallerImplements DEF Service!ServiceNext
  <2>2. ASSUME NEW k \in Conns, Handle(k) PROVE Service!ServiceNext
    BY <2>2, HandlerImplements, ReleaseImplements, SameStates
    DEF Service!ServiceNext, Handle, Handlers
  <2>3. ASSUME NEW k \in Conns, CrashIn(k) PROVE Service!ServiceCrash
    <3>1. Crash /\ up
      BY <2>3, DeathStep
    <3>2. Phase' = [j \in Conns |-> "none"] /\ UNCHANGED Outcome
      BY <3>1 DEF Crash, Phase, Outcome, Calling, Cut
    <3> QED BY <3>1, <3>2 DEF Crash, Service!ServiceCrash
  <2>4. CASE Environment
    <3>1. UNCHANGED <<Phase, Outcome>>
      BY <2>4, MappingStep DEF Environment, ServerInv
    <3> QED BY <2>4, <3>1, SameStates DEF Environment, Service!ServiceNext, Service!callVars
  <2>5. CASE TakeConnection \/ Quiet \/ UNCHANGED serverVars
    <3>1. UNCHANGED <<vars, client, cmd, reply>>
      BY <2>5 DEF TakeConnection, Quiet, serverVars
    <3>2. UNCHANGED Phase
      <4>1. CASE TakeConnection
        <5>1. /\ Head(queue) \in Conns /\ job[Head(queue)] = "queued"
              /\ job' = [job EXCEPT ![Head(queue)] = "reading"]
          BY <4>1, TakeStep DEF ServerInv, TakeConnection
        <5>2. /\ Phase[Head(queue)] = "open"
              /\ Phase' = [Phase EXCEPT ![Head(queue)] = "open"]
          BY <5>1, MappingFacts, MappingStep DEF ServerInv
        <5>3. Phase = [j \in Conns |-> Phase[j]]
          BY MappingFacts DEF ServerInv
        <5> QED BY <5>2, <5>3
      <4>2. CASE Quiet \/ UNCHANGED serverVars
        BY <4>2, MappingStep DEF Quiet, serverVars, ServerInv
      <4> QED BY <2>5, <4>1, <4>2
    <3>3. UNCHANGED Outcome
      BY <3>1, MappingStep DEF ServerInv
    <3> QED BY <3>1, <3>2, <3>3 DEF Service!serviceVars, Service!callVars, Service!vars, vars
  <2> QED BY <2>1, <2>2, <2>3, <2>4, <2>5 DEF ServerNext, Service!ServiceNext
<1> QED BY <1>1, <1>2, ServerInvariant, PTL DEF ServerSpec, ImplementsService, Service!ServiceSpec
=============================================================================
