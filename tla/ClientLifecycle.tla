--------------------------- MODULE ClientLifecycle ---------------------------
(***************************************************************************)
(* The client process from main to its end: ConsoleController on the main  *)
(* thread, the accept loop of NetworkController, the polling loops of      *)
(* BTSyncController and MetadataController, and the pool, which appears as *)
(* the JobService that module Dispatcher implements.  The handlers are     *)
(* those of PeerConnection.                                                *)
(*                                                                         *)
(* start() reads the configuration, creates the controllers, joins the     *)
(* network, starts one thread per controller, and reads commands; exit     *)
(* stops all threads, joins them, and the destructors that follow destroy  *)
(* the controllers first and then stop the pool.                           *)
(***************************************************************************)
EXTENDS PeerConnection, Sequences

CONSTANT PoolSize  (* DISPATCHER_POOL_SIZE                                   *)

ASSUME PoolSizeAssumption == PoolSize \in Nat \ {0}

Pollers == {"btsync", "metadata"}

VARIABLES
  queue, seen, owed, running, done, phase, up,  (* the pool and the process  *)
  main,        (* the next thing the main thread does                        *)
  acceptor,    (* acceptor_ of NetworkController: "none", "open", "closed"   *)
  backlog,     (* connections the kernel holds for it                        *)
  netStopped,  (* stopped_ of NetworkController                              *)
  net,         (* where the accept loop is                                   *)
  ioService,   (* TRUE while ioService_ of NetworkController exists          *)
  poll,        (* where each polling loop is                                 *)
  shouldStop   (* the pollers whose shouldStop_ is set                       *)

Pool == INSTANCE JobService WITH Jobs <- Conns, Throwing <- Conns

poolVars == <<queue, seen, owed, running, done, phase>>
netVars == <<acceptor, backlog, netStopped, net, ioService>>
pollVars == <<poll, shouldStop>>
connVars == <<linkVars, handlerVars>>
clientVars == <<poolVars, up, main, netVars, pollVars, connVars>>

NoPolling == [p \in Pollers |-> "off"]

ClientInit ==
  /\ ConnectionInit
  /\ Pool!Init
  /\ main = "config"
  /\ acceptor = "none" /\ backlog = {} /\ netStopped = FALSE
  /\ net = "off" /\ ioService = FALSE
  /\ poll = NoPolling /\ shouldStop = {}

-----------------------------------------------------------------------------
(* ConsoleController::start.                                                *)
Main(here, next) == up /\ main = here /\ main' = next

(* getTrackerInfo: without a complete config.json, start returns.           *)
ReadConfig ==
  /\ \E next \in {"create", "destroyControllers"} : Main("config", next)
  /\ UNCHANGED <<poolVars, up, netVars, pollVars, connVars>>

(* createControllers: NetworkController listens from now on.                *)
CreateControllers ==
  /\ Main("create", "join")
  /\ acceptor' = "open" /\ ioService' = TRUE
  /\ UNCHANGED <<poolVars, up, backlog, netStopped, net, pollVars, connVars>>

(* peer.joinNetwork: when it fails, start returns.                          *)
JoinNetwork ==
  /\ \E next \in {"startNet", "destroyControllers"} : Main("join", next)
  /\ UNCHANGED <<poolVars, up, netVars, pollVars, connVars>>

(* startAllAsync.                                                           *)
StartNet ==
  /\ Main("startNet", "startBTSync")
  /\ net' = "check"
  /\ UNCHANGED <<poolVars, up, acceptor, backlog, netStopped, ioService,
                 pollVars, connVars>>

StartPoller(p, here, next) ==
  /\ Main(here, next)
  /\ poll' = [poll EXCEPT ![p] = "looping"]
  /\ UNCHANGED <<poolVars, up, netVars, shouldStop, connVars>>

StartPollers == \/ StartPoller("btsync", "startBTSync", "startMetadata")
                \/ StartPoller("metadata", "startMetadata", "prompt")

(* The user types exit.  Commands that only call Peer are left out.  At the *)
(* end of its input getline leaves an empty line again and again, which     *)
(* asks for the next command: nobody will ever type exit.                   *)
ExitCommand ==
  /\ Main("prompt", "closeAcceptor")
  /\ UNCHANGED <<poolVars, up, netVars, pollVars, connVars>>

-----------------------------------------------------------------------------
(* stopAllAsync: first every controller is told ...                         *)

(* A closed acceptor resets the connections it did not accept.              *)
CloseAcceptor ==
  /\ acceptor' = "closed"
  /\ backlog' = {}
  /\ link' = [c \in Conns |-> IF c \in backlog THEN "closed" ELSE link[c]]
  /\ UNCHANGED <<sent, handlerVars>>

(* Mutant: stop() leaves it to the accept loop to notice stopped_.          *)
StopAcceptorFlagOnly ==
  /\ Main("closeAcceptor", "stopNet")
  /\ UNCHANGED <<poolVars, up, netVars, pollVars, connVars>>

StopAcceptor ==
  /\ Main("closeAcceptor", "stopNet")
  /\ CloseAcceptor
  /\ UNCHANGED <<poolVars, up, netStopped, net, ioService, pollVars>>

StopNet ==
  /\ Main("stopNet", "stopBTSync")
  /\ netStopped' = TRUE
  /\ UNCHANGED <<poolVars, up, acceptor, backlog, net, ioService, pollVars, connVars>>

StopPoller(p, here, next) ==
  /\ Main(here, next)
  /\ shouldStop' = shouldStop \cup {p}
  /\ UNCHANGED <<poolVars, up, netVars, poll, connVars>>

StopPollers == \/ StopPoller("btsync", "stopBTSync", "stopMetadata")
               \/ StopPoller("metadata", "stopMetadata", "joinNet")

(* ... then every thread is joined.                                         *)
JoinNet ==
  /\ Main("joinNet", "joinBTSync")
  /\ net = "ended"
  /\ UNCHANGED <<poolVars, up, netVars, pollVars, connVars>>

JoinPoller(p, here, next) ==
  /\ Main(here, next)
  /\ poll[p] = "ended"
  /\ UNCHANGED <<poolVars, up, netVars, pollVars, connVars>>

(* Mutant: the second loop joins the first two threads only.                *)
JoinPollersOneLess == \/ JoinPoller("btsync", "joinBTSync", "joinMetadata")
                      \/ /\ Main("joinMetadata", "destroyControllers")
                         /\ UNCHANGED <<poolVars, up, netVars, pollVars, connVars>>

JoinPollers == \/ JoinPoller("btsync", "joinBTSync", "joinMetadata")
               \/ JoinPoller("metadata", "joinMetadata", "destroyControllers")

(* ~ConsoleController destroys asyncControllers_.  ~NetworkController stops *)
(* if nobody has (joinNetwork failed), and its ioService_ goes, while the   *)
(* pool may still hold sockets that were made with it.                      *)
DestroyControllers ==
  /\ Main("destroyControllers", "destroyPool")
  /\ IF acceptor = "open" THEN CloseAcceptor ELSE UNCHANGED <<acceptor, backlog, connVars>>
  /\ netStopped' = (netStopped \/ acceptor = "open")
  /\ ioService' = FALSE
  /\ UNCHANGED <<poolVars, up, net, pollVars>>

(* ~Controller releases the last reference to the pool: ~Dispatcher stops   *)
(* it and waits for its jobs.                                               *)
StopPool ==
  /\ main = "destroyPool"
  /\ Pool!Close
  /\ UNCHANGED <<main, netVars, pollVars, connVars>>

(* Mutant: the destructor does not wait for the jobs that are running.      *)
PoolStoppedEarly ==
  /\ Main("destroyPool", "done")
  /\ phase = "closing" /\ queue = <<>>
  /\ phase' = "closed"
  /\ UNCHANGED <<queue, seen, owed, running, done, up, netVars, pollVars, connVars>>

PoolStopped ==
  /\ Main("destroyPool", "done")
  /\ Pool!Return
  /\ UNCHANGED <<netVars, pollVars, connVars>>

MainStep ==
  \/ ReadConfig \/ CreateControllers \/ JoinNetwork \/ StartNet \/ StartPollers
  \/ StopAcceptor \/ StopNet \/ StopPollers \/ JoinNet \/ JoinPollers
  \/ DestroyControllers \/ StopPool \/ PoolStopped

-----------------------------------------------------------------------------
(* NetworkController::start on its thread.                                  *)
NetGoTo(here, next) ==
  /\ up /\ net = here /\ net' = next
  /\ UNCHANGED <<main, acceptor, netStopped, ioService, pollVars, connVars>>

CheckStopped ==
  /\ NetGoTo("check", IF netStopped THEN "ended" ELSE "accept")
  /\ UNCHANGED <<poolVars, up, backlog>>

(* async_accept and run.  With the acceptor closed the handler is called    *)
(* with an error at once, and the loop begins again.                        *)
AsyncAccept ==
  /\ NetGoTo("accept", IF acceptor = "open" THEN "waiting" ELSE "check")
  /\ UNCHANGED <<poolVars, up, backlog>>

(* connectionHandler with a connection: scheduleJob.                        *)
ConnectionHandler(c) ==
  /\ NetGoTo("waiting", "check")
  /\ c \in backlog
  /\ backlog' = backlog \ {c}
  /\ Pool!Submit(c)

(* connectionHandler with an error, because the acceptor was closed.        *)
AcceptAborted ==
  /\ acceptor = "closed"
  /\ NetGoTo("waiting", "check")
  /\ UNCHANGED <<poolVars, up, backlog>>

NetStep == \/ CheckStopped \/ AsyncAccept \/ AcceptAborted
           \/ \E c \in Conns : ConnectionHandler(c)

(* The loops of BTSyncController and MetadataController.  A round is calls  *)
(* to Peer and a sleep, which changes nothing here; the loop looks at       *)
(* shouldStop_ between rounds and each second of the sleep.                 *)
SeeShouldStop(p) ==
  /\ up /\ poll[p] = "looping" /\ p \in shouldStop
  /\ poll' = [poll EXCEPT ![p] = "ended"]
  /\ UNCHANGED <<poolVars, up, main, netVars, shouldStop, connVars>>

-----------------------------------------------------------------------------
(* Mutant: one thread of the pool is never used.                            *)
StartJobOneThreadLess ==
  /\ Cardinality(running) < PoolSize - 1
  /\ Pool!Start
  /\ GoTo(Head(queue), "start")
  /\ UNCHANGED <<main, netVars, pollVars, linkVars, received, acked, registered, refused>>

(* A free thread of the pool calls the handler of the oldest connection.    *)
StartJob ==
  /\ Cardinality(running) < PoolSize
  /\ Pool!Start
  /\ GoTo(Head(queue), "start")
  /\ UNCHANGED <<main, netVars, pollVars, linkVars, received, acked, registered, refused>>

(* Mutant: the thread is free as soon as the secret is acknowledged.        *)
FinishJobAfterAck(c) ==
  /\ handler[c] \in {"store", "ended"}
  /\ Pool!Complete(c)
  /\ UNCHANGED <<main, netVars, pollVars, connVars>>

FinishJob(c) ==
  /\ handler[c] = "ended"
  /\ Pool!Complete(c)
  /\ UNCHANGED <<main, netVars, pollVars, connVars>>

RunHandler(c) ==
  /\ up /\ HandlerStep(c)
  /\ UNCHANGED <<poolVars, up, main, netVars, pollVars>>

Remote(c) ==
  /\ up /\ RemoteStep(c)
  /\ UNCHANGED <<poolVars, up, main, netVars, pollVars>>

Arrive(c) ==
  /\ up /\ acceptor = "open" /\ link[c] = "none"
  /\ link' = [link EXCEPT ![c] = "open"]
  /\ backlog' = backlog \cup {c}
  /\ UNCHANGED <<poolVars, up, main, acceptor, netStopped, net, ioService, pollVars,
                 sent, handlerVars>>

(* What may end the process: the port is in use; backup or rm without a     *)
(* name, which reads behind the end of a vector; the greeting of a reset    *)
(* connection; close() on one thread while another is in async_accept; the  *)
(* use of a socket whose ioService_ is gone.                                *)
CrashInBind == main = "create"
CrashInUsage == main = "prompt"
CrashInGreeting == \E c \in Conns : GreetThrows(c)
CrashInClose == main = "closeAcceptor" /\ net = "accept"
CrashInSocket == ~ioService /\ (InHandler # {} \/ queue # <<>>)

(* Nothing is left of the process and its connections.                      *)
Crash ==
  /\ up
  /\ CrashInBind \/ CrashInUsage \/ CrashInGreeting \/ CrashInClose \/ CrashInSocket
  /\ up' = FALSE
  /\ main' = "dead"
  /\ queue' = <<>> /\ seen' = {} /\ owed' = {} /\ running' = {} /\ done' = {}
  /\ phase' = "closed"
  /\ acceptor' = "closed" /\ backlog' = {} /\ netStopped' = TRUE
  /\ net' = "off" /\ ioService' = FALSE
  /\ poll' = NoPolling /\ shouldStop' = {}
  /\ link' = [c \in Conns |-> "closed"]
  /\ sent' = [c \in Conns |-> "nothing"]
  /\ handler' = [c \in Conns |-> "none"]
  /\ received' = {} /\ acked' = {} /\ registered' = {} /\ refused' = {}

(* The process has ended.                                                   *)
AtRest == (~up \/ main = "done") /\ UNCHANGED clientVars

ClientNext ==
  \/ MainStep \/ ExitCommand
  \/ NetStep
  \/ \E p \in Pollers : SeeShouldStop(p)
  \/ StartJob
  \/ \E c \in Conns : FinishJob(c) \/ RunHandler(c) \/ Remote(c) \/ Arrive(c)
  \/ Crash
  \/ AtRest

ClientSpec == ClientInit /\ [][ClientNext]_clientVars

(* Threads run, and calls of Peer return.  The other side of a connection   *)
(* that is not Silent sends or closes sooner or later.  Nobody must connect *)
(* or type a command.                                                       *)
ClientFairness ==
  /\ WF_clientVars(MainStep)
  /\ WF_clientVars(NetStep)
  /\ \A p \in Pollers : WF_clientVars(SeeShouldStop(p))
  /\ WF_clientVars(StartJob)
  /\ \A c \in Conns : /\ WF_clientVars(FinishJob(c))
                      /\ WF_clientVars(RunHandler(c))
                      /\ c \notin Silent => WF_clientVars(Remote(c))

FairClientSpec == ClientSpec /\ ClientFairness

-----------------------------------------------------------------------------
(* The state is well formed, and the pool runs the handlers under way.      *)
ClientTypeOK ==
  /\ ConnectionTypeOK
  /\ net \in {"off", "check", "accept", "waiting", "ended"}
  /\ acceptor \in {"none", "open", "closed"}
  /\ backlog \subseteq Conns /\ shouldStop \subseteq Pollers
  /\ poll \in [Pollers -> {"off", "looping", "ended"}]
  /\ InHandler \subseteq running

(* On every way out of start(), the accept loop and the pollers have ended  *)
(* before ~ConsoleController destroys their controllers, the acceptor and   *)
(* ioService_ with them; and when main returns, and the static Peer is      *)
(* destroyed, no handler is left either.  The handlers may outlive          *)
(* ioService_, to whose sockets they hold on (see CrashInSocket), but only  *)
(* while the main thread waits for them in ~Dispatcher.                     *)
NothingAfterMain ==
  /\ main \in {"destroyPool", "done"} =>
       /\ net \in {"off", "ended"}
       /\ \A p \in Pollers : poll[p] \in {"off", "ended"}
  /\ main = "done" => InHandler = {} /\ queue = <<>>
  /\ (InHandler # {} \/ queue # <<>>) /\ ~ioService => main = "destroyPool"

(* A secret that was acknowledged to the other peer has been handed to      *)
(* Peer::storeFile before the client ends, also when the user exits between *)
(* the two.  storeFile may still have refused it: the acknowledgement says  *)
(* that the secret was read, not that its file is stored.                   *)
AckedIsHandedOver == main = "done" => acked \subseteq registered \cup refused

(* After the exit command the process ends, unless a connection whose other *)
(* side says nothing holds a thread: no order of close, stopped_ and the    *)
(* accept loop leaves that loop waiting, and no poller is missed.           *)
ExitReturns ==
  main = "closeAcceptor" ~>
    (main = "done" \/ ~up \/ Reading \cap Silent # {})

(* A connection that was accepted is handled to its end, also when the      *)
(* program stops meanwhile, as long as the silent ones are fewer than the   *)
(* threads.                                                                 *)
AcceptedIsServed ==
  \A c \in Conns \ Silent : c \in seen ~> (handler[c] = "ended" \/ ~up)
=============================================================================
