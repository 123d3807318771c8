--------------------------- MODULE MetadataService ---------------------------
(***************************************************************************)
(* What the metadata layer promises to a peer that calls it over the       *)
(* network, with no sockets, threads or messages: a command takes effect   *)
(* in one step and at most once; a call that returns a result returns the  *)
(* result of that step; a call that throws tells nothing, and its command  *)
(* may still take effect later.  TrackerServer implements this.            *)
(***************************************************************************)
EXTENDS MetadataCommands

VARIABLES
  cmd,      (* the command of the call on a connection                     *)
  phase,    (* "none", "open" (it may take effect) or "taken" (it has)     *)
  outcome,  (* "idle", "pending", "ok", "error" or "failed" (it threw)     *)
  reply     (* what the command answered when it took effect               *)

callVars == <<cmd, phase, outcome, reply>>
serviceVars == <<vars, callVars>>

-----------------------------------------------------------------------------
(* What a command does to the records, to the index, and what it answers.   *)
Effect(recs, c) ==
  CASE c.op = "join"      -> DbJoin(recs, c.nodeID, c.ip)
    [] c.op = "blacklist" -> DbBlacklistNode(recs, c.nodeID, c.peerID, now)
    [] c.op = "backup"    -> DbBackupFile(recs, Owner[c.fileID], c.nodeID, c.fileID, c.size)
    [] c.op = "update"    -> DbUpdateFileSize(recs, Owner[c.fileID], c.fileID, c.size)
    [] c.op = "remove"    -> DbRemoveBackup(recs, Owner[c.fileID], c.nodeID, c.fileID)
    [] OTHER              -> recs

Indexed(ids, c) ==
  IF c.op = "join" THEN [ids EXCEPT ![c.nodeID] = @ + 1] ELSE ids

Result(recs, c) ==
  CASE c.op = "get"       -> c.nodeID \in DOMAIN recs
    [] c.op = "blacklist" -> DbBlacklistNodeResult(recs, c.nodeID, c.peerID)
    [] c.op = "backup"    -> DbBackupFileResult(recs, Owner[c.fileID], c.nodeID, c.fileID)
    [] c.op = "update"    -> DbUpdateFileSizeResult(recs, Owner[c.fileID], c.fileID, c.size)
    [] c.op = "remove"    -> DbRemoveBackupResult(recs, Owner[c.fileID], c.nodeID, c.fileID)
    [] OTHER              -> TRUE

(* Only findClosest answers more than success or failure.                   *)
Answers(ids, c) == IF c.op = "find" THEN {n \in AllIDs : ids[n] > 0} ELSE {NoNode}

-----------------------------------------------------------------------------
ServiceInit ==
  /\ Init
  /\ cmd = [k \in Conns |-> NoCommand]
  /\ phase = [k \in Conns |-> "none"]
  /\ outcome = [k \in Conns |-> "idle"]
  /\ reply = [k \in Conns |-> NoReply]

(* A peer calls; while the tracker is down, the call throws at once.        *)
Invoke(k, c) ==
  /\ outcome[k] # "pending" /\ phase[k] = "none"
  /\ IF up
     THEN /\ cmd' = [cmd EXCEPT ![k] = c]
          /\ phase' = [phase EXCEPT ![k] = "open"]
          /\ outcome' = [outcome EXCEPT ![k] = "pending"]
     ELSE outcome' = [outcome EXCEPT ![k] = "failed"] /\ UNCHANGED <<cmd, phase>>
  /\ UNCHANGED <<reply, vars>>

TakeEffect(k) ==
  /\ up /\ phase[k] = "open"
  /\ records' = Effect(records, cmd[k])
  /\ sortedIDs' = Indexed(sortedIDs, cmd[k])
  /\ \E n \in Answers(sortedIDs, cmd[k]) :
       reply' = [reply EXCEPT ![k] = [error |-> ~Result(records, cmd[k]), nodeID |-> n]]
  /\ phase' = [phase EXCEPT ![k] = "taken"]
  /\ UNCHANGED <<now, up, cmd, outcome>>

(* The connection forgets its command.                                      *)
Forget(k) ==
  /\ cmd' = [cmd EXCEPT ![k] = NoCommand]
  /\ phase' = [phase EXCEPT ![k] = "none"]
  /\ reply' = [reply EXCEPT ![k] = NoReply]

(* The result is returned to the caller, if there still is one.             *)
Settle(k) ==
  /\ phase[k] = "taken"
  /\ \/ /\ outcome[k] = "pending"
        /\ outcome' = [outcome EXCEPT ![k] = IF reply[k].error THEN "error" ELSE "ok"]
     \/ UNCHANGED outcome
  /\ Forget(k)
  /\ UNCHANGED vars

(* The call throws, whether or not the command took or takes effect.        *)
Fail(k) ==
  /\ outcome[k] = "pending"
  /\ outcome' = [outcome EXCEPT ![k] = "failed"]
  /\ UNCHANGED <<cmd, phase, reply, vars>>

(* The command is lost on its way; in its place the empty node ID may join. *)
Drop(k) ==
  /\ up /\ phase[k] = "open"
  /\ \/ UNCHANGED <<records, sortedIDs>>
     \/ \E ip \in IPs : /\ records' = DbJoin(records, NoNode, ip)
                        /\ sortedIDs' = [sortedIDs EXCEPT ![NoNode] = @ + 1]
  /\ Forget(k)
  /\ UNCHANGED <<now, up, outcome>>

(* Outdated blacklisters may go at any time.                                *)
Prune(n) ==
  /\ up /\ n \in DOMAIN records
  /\ \E gone \in SUBSET Expired(records[n], now) :
       records' = [records EXCEPT ![n] = Pruned(@, now, gone)]
  /\ UNCHANGED <<sortedIDs, now, up, callVars>>

ServiceCrash ==
  /\ up
  /\ up' = FALSE
  /\ cmd' = [k \in Conns |-> NoCommand]
  /\ phase' = [k \in Conns |-> "none"]
  /\ reply' = [k \in Conns |-> NoReply]
  /\ UNCHANGED <<records, sortedIDs, now, outcome>>

ServiceNext ==
  \/ \E k \in Conns : \/ TakeEffect(k) \/ Settle(k) \/ Fail(k) \/ Drop(k)
                      \/ \E c \in Commands : Invoke(k, c)
  \/ \E n \in AllIDs : Prune(n)
  \/ ServiceCrash
  \/ (Tick \/ Restart) /\ UNCHANGED callVars

ServiceSpec == ServiceInit /\ [][ServiceNext]_serviceVars
=============================================================================
