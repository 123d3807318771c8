---------------------------- MODULE TrackerServer ----------------------------
(***************************************************************************)
(* The tracker and its callers: TrackerInterface::executeCommand in the    *)
(* peers, the socket connections between, and in the tracker the pool of   *)
(* threads that run handleTrackerSocketConnection, which receives one      *)
(* request, applies it to the database and sends one reply.                *)
(*                                                                         *)
(* No read or write has a timeout.  A connection may break at any time,    *)
(* which both ends notice, or be cut, which neither does.  The accept loop *)
(* hands connections to the pool in the order of their arrival (modules    *)
(* JobService and Dispatcher), so connecting and queueing are one step.    *)
(***************************************************************************)
EXTENDS MetadataCommands, Sequences

CONSTANTS PoolSize,  (* TRACKER_POOL_SIZE                                   *)
          MaxCalls,  (* bound on the number of calls                        *)
          MaxCuts    (* bound on the number of connections that are cut     *)

ASSUME ServerAssumption ==
  /\ IsFiniteSet(Conns)
  /\ PoolSize \in Nat \ {0} /\ MaxCalls \in Nat /\ MaxCuts \in Nat
  /\ MaxCalls <= MaxJoins /\ MaxCalls <= MaxEntries

VARIABLES
  client,  (* the caller on a connection: "idle", "connected", "waiting",   *)
           (* "cut", or the outcome "ok", "error", "failed" of its call     *)
  sent,    (* connections whose request has arrived and is not yet read     *)
  job,     (* the tracker's side: "none", "queued", "reading",              *)
           (* "serializing" or "replying"                                   *)
  queue,   (* pendingJobs_ of the tracker's pool                            *)
  cmd,     (* the request on a connection                                   *)
  reply,   (* the reply the tracker has made                                *)
  calls    (* how many calls were made                                      *)

serverVars == <<vars, client, sent, job, queue, cmd, reply, calls>>

Calling == {k \in Conns : client[k] \in {"connected", "waiting"}}
Cut == {k \in Conns : client[k] = "cut"}
Busy == {k \in Conns : job[k] \in {"reading", "serializing", "replying"}}

ServerInit ==
  /\ Init
  /\ client = [k \in Conns |-> "idle"]
  /\ sent = {}
  /\ job = [k \in Conns |-> "none"]
  /\ queue = <<>>
  /\ cmd = [k \in Conns |-> NoCommand]
  /\ reply = [k \in Conns |-> NoReply]
  /\ calls = 0

-----------------------------------------------------------------------------
(* executeCommand: connect, and the tracker's accept and scheduleJob.       *)
Connect(k, c) ==
  /\ up
  /\ calls < MaxCalls
  /\ k \notin Calling \cup Cut /\ job[k] = "none"
  /\ client' = [client EXCEPT ![k] = "connected"]
  /\ cmd' = [cmd EXCEPT ![k] = c]
  /\ job' = [job EXCEPT ![k] = "queued"]
  /\ queue' = Append(queue, k)
  /\ calls' = calls + 1
  /\ UNCHANGED <<vars, sent, reply>>

(* Nobody listens: connect fails and executeCommand throws.                 *)
Refused(k) ==
  /\ ~up
  /\ calls < MaxCalls
  /\ k \notin Calling \cup Cut
  /\ client' = [client EXCEPT ![k] = "failed"]
  /\ calls' = calls + 1
  /\ UNCHANGED <<vars, sent, job, queue, cmd, reply>>

(* executeCommand: send the request.                                        *)
Send(k) ==
  /\ client[k] = "connected" /\ job[k] # "none"
  /\ client' = [client EXCEPT ![k] = "waiting"]
  /\ sent' = sent \cup {k}
  /\ UNCHANGED <<vars, job, queue, cmd, reply, calls>>

(* The connection breaks or the peer dies: the call throws.  A request on   *)
(* its way may still arrive.                                                *)
Break(k) ==
  /\ k \in Calling /\ job[k] # "none"
  /\ client' = [client EXCEPT ![k] = "failed"]
  /\ sent' \in {sent, sent \ {k}}
  /\ UNCHANGED <<vars, job, queue, cmd, reply, calls>>

(* The connection goes silent: both ends wait for ever.                     *)
GoSilent(k) ==
  /\ k \in Calling /\ job[k] # "none"
  /\ Cardinality(Cut) < MaxCuts
  /\ client' = [client EXCEPT ![k] = "cut"]
  /\ sent' \in {sent, sent \ {k}}
  /\ UNCHANGED <<vars, job, queue, cmd, reply, calls>>

(* executeCommand finds the connection closed by a tracker that died.       *)
NoticeCrash(k) ==
  /\ k \in Calling /\ job[k] = "none"
  /\ client' = [client EXCEPT ![k] = "failed"]
  /\ UNCHANGED <<vars, sent, job, queue, cmd, reply, calls>>

-----------------------------------------------------------------------------
(* Mutant: one thread of the pool is never used.                            *)
TakeConnectionOneThreadLess ==
  /\ up
  /\ queue # <<>>
  /\ Cardinality(Busy) < PoolSize - 1
  /\ job' = [job EXCEPT ![Head(queue)] = "reading"]
  /\ queue' = Tail(queue)
  /\ UNCHANGED <<vars, client, sent, cmd, reply, calls>>

(* A free thread of the pool takes the oldest connection and calls recv.    *)
TakeConnection ==
  /\ up
  /\ queue # <<>>
  /\ Cardinality(Busy) < PoolSize
  /\ job' = [job EXCEPT ![Head(queue)] = "reading"]
  /\ queue' = Tail(queue)
  /\ UNCHANGED <<vars, client, sent, cmd, reply, calls>>

(* recv returned a request with command op.                                 *)
Received(k, op) == up /\ job[k] = "reading" /\ k \in sent /\ cmd[k].op = op

(* Mutant: the request stays in the socket.                                 *)
AnswerKeepingRequest(k, result, nodeID, state) ==
  /\ reply' = [reply EXCEPT ![k] = [error |-> ~result, nodeID |-> nodeID]]
  /\ job' = [job EXCEPT ![k] = state]
  /\ UNCHANGED <<now, up, client, sent, queue, cmd, calls>>

(* The handler is done with the database and goes on to the given state.    *)
Answer(k, result, nodeID, state) ==
  /\ reply' = [reply EXCEPT ![k] = [error |-> ~result, nodeID |-> nodeID]]
  /\ job' = [job EXCEPT ![k] = state]
  /\ sent' = sent \ {k}
  /\ UNCHANGED <<now, up, client, queue, cmd, calls>>

HandleJoin(k) ==
  /\ Received(k, "join")
  /\ records' = DbJoin(records, cmd[k].nodeID, cmd[k].ip)
  /\ sortedIDs' = [sortedIDs EXCEPT ![cmd[k].nodeID] = @ + 1]
  /\ Answer(k, TRUE, NoNode, "replying")

HandleFindClosestNode(k) ==
  /\ Received(k, "find")
  /\ \E n \in {x \in AllIDs : sortedIDs[x] > 0} : Answer(k, TRUE, n, "replying")
  /\ UNCHANGED <<records, sortedIDs>>

(* Mutant: getRecord makes the record of an unknown node.                   *)
HandleGetMakingRecord(k) ==
  /\ Received(k, "get")
  /\ records' = IF cmd[k].nodeID \in DOMAIN records THEN records
                ELSE Put(records, cmd[k].nodeID, MetadataRecord(NoNode))
  /\ Answer(k, TRUE, NoNode, "serializing")
  /\ UNCHANGED sortedIDs

(* getRecord returns a reference, and the mutex is released.                *)
HandleGet(k) ==
  /\ Received(k, "get")
  /\ IF cmd[k].nodeID \in DOMAIN records
     THEN Answer(k, TRUE, NoNode, "serializing")
     ELSE Answer(k, FALSE, NoNode, "replying")
  /\ UNCHANGED <<records, sortedIDs>>

HandleBlacklist(k) ==
  /\ Received(k, "blacklist")
  /\ records' = DbBlacklistNode(records, cmd[k].nodeID, cmd[k].peerID, now)
  /\ Answer(k, DbBlacklistNodeResult(records, cmd[k].nodeID, cmd[k].peerID),
            NoNode, "replying")
  /\ UNCHANGED sortedIDs

HandleBackup(k) ==
  LET f == cmd[k].fileID
      n == cmd[k].nodeID
  IN  /\ Received(k, "backup")
      /\ records' = DbBackupFile(records, Owner[f], n, f, cmd[k].size)
      /\ Answer(k, DbBackupFileResult(records, Owner[f], n, f), NoNode, "replying")
      /\ UNCHANGED sortedIDs

HandleUpdateFileSize(k) ==
  LET f == cmd[k].fileID
      size == cmd[k].size
  IN  /\ Received(k, "update")
      /\ records' = DbUpdateFileSize(records, Owner[f], f, size)
      /\ Answer(k, DbUpdateFileSizeResult(records, Owner[f], f, size), NoNode, "replying")
      /\ UNCHANGED sortedIDs

HandleRemoveBackup(k) ==
  LET f == cmd[k].fileID
      n == cmd[k].nodeID
  IN  /\ Received(k, "remove")
      /\ records' = DbRemoveBackup(records, Owner[f], n, f)
      /\ Answer(k, DbRemoveBackupResult(records, Owner[f], n, f), NoNode, "replying")
      /\ UNCHANGED sortedIDs

(* handleGet: serialize walks over the record outside the mutex.            *)
SerializeReply(k) ==
  /\ up /\ job[k] = "serializing"
  /\ \E visited \in SUBSET Blacklisters :
       /\ WalkOutcome(records[cmd[k].nodeID], now, visited)
       /\ records' = [records EXCEPT ![cmd[k].nodeID] = Pruned(@, now, visited)]
  /\ job' = [job EXCEPT ![k] = "replying"]
  /\ UNCHANGED <<sortedIDs, now, up, client, sent, queue, cmd, reply, calls>>

(* Mutant: a request whose reply cannot be sent is handled again.           *)
SendReplyRetrying(k) ==
  /\ up /\ job[k] = "replying"
  /\ IF client[k] = "waiting"
     THEN /\ client' = [client EXCEPT ![k] = IF reply[k].error THEN "error" ELSE "ok"]
          /\ job' = [job EXCEPT ![k] = "none"]
          /\ cmd' = [cmd EXCEPT ![k] = NoCommand]
          /\ UNCHANGED sent
     ELSE /\ job' = [job EXCEPT ![k] = "reading"]
          /\ sent' = sent \cup {k}
          /\ UNCHANGED <<client, cmd>>
  /\ reply' = [reply EXCEPT ![k] = NoReply]
  /\ UNCHANGED <<vars, queue, calls>>

(* sendWrapper: the caller gets the reply unless it is gone; a failure to   *)
(* send is logged only.  The socket is closed and the thread is free.       *)
SendReply(k) ==
  /\ up /\ job[k] = "replying"
  /\ client' = IF client[k] = "waiting"
               THEN [client EXCEPT ![k] = IF reply[k].error THEN "error" ELSE "ok"]
               ELSE client
  /\ job' = [job EXCEPT ![k] = "none"]
  /\ cmd' = [cmd EXCEPT ![k] = NoCommand]
  /\ reply' = [reply EXCEPT ![k] = NoReply]
  /\ UNCHANGED <<vars, sent, queue, calls>>

-----------------------------------------------------------------------------
(* recv failed and its result is ignored: the command in an empty JSON      *)
(* value is 0, which is JOIN_NETWORK_CMD, and its node ID is empty.         *)
ReceivedNothing(k) ==
  up /\ job[k] = "reading" /\ k \notin sent /\ k \notin Calling \cup Cut

JoinEmptyID(k) ==
  /\ ReceivedNothing(k)
  /\ \E ip \in IPs : records' = DbJoin(records, NoNode, ip)
  /\ sortedIDs' = [sortedIDs EXCEPT ![NoNode] = @ + 1]
  /\ job' = [job EXCEPT ![k] = "none"]
  /\ cmd' = [cmd EXCEPT ![k] = NoCommand]
  /\ UNCHANGED <<now, up, client, sent, queue, reply, calls>>

(* The process dies with everything it had.                                 *)
Crash ==
  /\ up' = FALSE
  /\ job' = [k \in Conns |-> "none"]
  /\ queue' = <<>>
  /\ sent' = {}
  /\ cmd' = [k \in Conns |-> NoCommand]
  /\ reply' = [k \in Conns |-> NoReply]
  /\ UNCHANGED <<records, sortedIDs, now, client, calls>>

(* remote_endpoint throws on a connection that was reset, and no handler    *)
(* catches it.                                                              *)
CrashInJoin(k) ==
  /\ k \notin Calling \cup Cut
  /\ ReceivedNothing(k) \/ Received(k, "join")
  /\ Crash

(* The remainder of a division by zero.                                     *)
CrashInFindClosest(k) ==
  /\ Received(k, "find")
  /\ \A n \in AllIDs : sortedIDs[n] = 0
  /\ Crash

(* serialize erases from the map it walks over.                             *)
CrashInSerialize(k) ==
  /\ up /\ job[k] = "serializing"
  /\ Expired(records[cmd[k].nodeID], now) # {}
  /\ Crash

-----------------------------------------------------------------------------
(* The refinement mapping: what the connection state amounts to.            *)
Phase ==
  [k \in Conns |-> CASE job[k] \in {"queued", "reading"} -> "open"
                     [] job[k] \in {"serializing", "replying"} -> "taken"
                     [] OTHER -> "none"]
Outcome == [k \in Conns |-> IF k \in Calling \cup Cut THEN "pending" ELSE client[k]]

Service == INSTANCE MetadataService WITH phase <- Phase, outcome <- Outcome

(* A handler writes, under the mutex, the record that another thread walks  *)
(* over outside it: a data race.                                            *)
CrashInRace(k, j) ==
  /\ up /\ job[k] = "serializing"
  /\ job[j] = "reading" /\ j \in sent
  /\ Service!Effect(records, cmd[j])[cmd[k].nodeID] # records[cmd[k].nodeID]
  /\ Crash

(* The clock, and the operator who starts a dead tracker again.             *)
Environment ==
  (Tick \/ Restart) /\ UNCHANGED <<client, sent, job, queue, cmd, reply, calls>>

(* Every call is over and no further one may be made.                       *)
Quiet ==
  /\ calls = MaxCalls /\ Calling = {}
  /\ \A k \in Conns : job[k] = "none" \/ k \in Cut
  /\ UNCHANGED serverVars

Handle(k) ==
  \/ HandleJoin(k) \/ HandleFindClosestNode(k) \/ HandleGet(k) \/ HandleBlacklist(k)
  \/ HandleBackup(k) \/ HandleUpdateFileSize(k) \/ HandleRemoveBackup(k)
  \/ SerializeReply(k) \/ SendReply(k) \/ JoinEmptyID(k)

CrashIn(k) ==
  \/ CrashInJoin(k) \/ CrashInFindClosest(k) \/ CrashInSerialize(k)
  \/ \E j \in Conns : CrashInRace(k, j)

ServerNext ==
  \/ \E k \in Conns :
       \/ \E c \in Commands : Connect(k, c) \/ Refused(k)
       \/ Send(k) \/ Break(k) \/ GoSilent(k) \/ NoticeCrash(k)
       \/ Handle(k) \/ CrashIn(k)
  \/ TakeConnection \/ Environment \/ Quiet

ServerSpec == ServerInit /\ [][ServerNext]_serverVars

(* What the scheduler and TCP owe: a thread that is not blocked in a read   *)
(* runs; a caller sends its request and notices a connection that was       *)
(* closed.  Nobody is obliged to call, and a dead tracker may stay dead.    *)
ServerFairness ==
  /\ WF_serverVars(TakeConnection)
  /\ \A k \in Conns : /\ WF_serverVars(Handle(k) \/ CrashIn(k))
                      /\ WF_serverVars(Send(k))
                      /\ WF_serverVars(NoticeCrash(k))

FairServerSpec == ServerSpec /\ ServerFairness

-----------------------------------------------------------------------------
(* The connection state is well formed: the queue holds the queued          *)
(* connections once each, the pool is not overdrawn, a request and a reply  *)
(* are there exactly as long as the tracker works on them.                  *)
ServerTypeOK ==
  /\ client \in [Conns -> {"idle", "connected", "waiting", "cut", "ok", "error", "failed"}]
  /\ job \in [Conns -> {"none", "queued", "reading", "serializing", "replying"}]
  /\ sent \subseteq {k \in Conns : job[k] \in {"queued", "reading"}}
  /\ queue \in Seq(Conns)
  /\ {queue[i] : i \in 1..Len(queue)} = {k \in Conns : job[k] = "queued"}
  /\ \A i, j \in 1..Len(queue) : queue[i] = queue[j] => i = j
  /\ Cardinality(Busy) <= PoolSize
  /\ \A k \in Conns :
       /\ cmd[k] \in IF job[k] = "none" THEN {NoCommand} ELSE Commands
       /\ reply[k] \in IF job[k] \in {"serializing", "replying"}
                       THEN [error : BOOLEAN, nodeID : AllIDs] ELSE {NoReply}
  /\ calls \in 0..MaxCalls

(* A command takes effect in one step and at most once, a result that is    *)
(* returned is the result of that step, and a call that throws tells        *)
(* nothing: the handlers, pool and sockets implement MetadataService, with  *)
(* commands interleaved, connections lost and the tracker dying in between. *)
ImplementsService == Service!ServiceSpec

(* Every call returns or throws, unless its connection is cut: as long as   *)
(* fewer connections are cut than the pool has threads, the threads that    *)
(* wait on them for ever do not hold up the others.                         *)
CallsReturn == \A k \in Conns : (k \in Calling) ~> (k \notin Calling)

(* MetadataInterface.h:22: findClosestNode returns "the nodeID in the       *)
(* network" that matches best.                                              *)
ClosestIsInNetwork ==
  \A k \in Conns :
    job[k] = "replying" /\ cmd[k].op = "find" => reply[k].nodeID \in NodeIDs
=============================================================================
