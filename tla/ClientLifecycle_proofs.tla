----------------------- MODULE ClientLifecycle_proofs -----------------------
(***************************************************************************)
(* Theorems about ClientLifecycle, for any connections and any size of the *)
(* pool.  What matters is where the main thread is when another thread may *)
(* still run, and that a connection is in one place at a time: it waits in *)
(* the queue and its handler has not begun, or it is in a handler.         *)
(***************************************************************************)
EXTENDS ClientLifecycle, TLAPS

Started == {"config", "create", "join"}
Stopping == {"joinBTSync", "joinMetadata", "destroyControllers", "destroyPool", "done"}

(* The threads of the controllers: none before start() starts them, and     *)
(* none that was joined.  ioService_ exists from createControllers to the   *)
(* destructor; without createControllers nothing was ever accepted.         *)
ThreadsInv ==
  /\ up => main # "dead"
  /\ main \in Started => net = "off" /\ poll = NoPolling
  /\ main \in Started \cup {"dead"} => seen = {}
  /\ main = "destroyControllers" => ioService \/ seen = {}
  /\ main \notin {"config", "create", "destroyControllers", "destroyPool", "done", "dead"} =>
       ioService
  /\ main \in Stopping => net \in {"off", "ended"}
  /\ main \in Stopping \ {"joinBTSync"} => poll["btsync"] \in {"off", "ended"}
  /\ main \in Stopping \ {"joinBTSync", "joinMetadata"} =>
       poll["metadata"] \in {"off", "ended"}

(* The pool: a connection is submitted once, while the pool is open, and is *)
(* queued, in a thread or done.                                             *)
PoolInv ==
  /\ queue \in Seq(Conns)
  /\ \A i, k \in 1..Len(queue) : queue[i] = queue[k] => i = k
  /\ \A i \in 1..Len(queue) : queue[i] \in seen \ (running \cup done)
  /\ running \cup done \subseteq seen /\ running \subseteq Conns
  /\ owed = seen
  /\ phase \in {"open", "closing", "closed"}
  /\ phase # "open" => main \in {"destroyPool", "done", "dead"}
  /\ main = "done" => phase = "closed" /\ running = {} /\ queue = <<>>

(* The handlers: one that waits in the queue has not begun, and one that    *)
(* has acknowledged its secret is about to hand it to Peer::storeFile.      *)
HandlersInv ==
  /\ \A i \in 1..Len(queue) : handler[queue[i]] = "none"
  /\ \A c \in Conns : handler[c] # "none" => c \in seen
  /\ \A c \in received : handler[c] \in {"ack", "store", "ended"}
  /\ \A c \in Conns : handler[c] = "ack" => c \in received
  /\ \A c \in acked : c \in received /\ handler[c] # "ack"
  /\ \A c \in acked : handler[c] = "store" \/ c \in registered \cup refused

(* The inductive invariant.                                                 *)
IInv == ClientTypeOK /\ ThreadsInv /\ PoolInv /\ HandlersInv

-----------------------------------------------------------------------------
USE DEF Pollers, poolVars, netVars, pollVars, connVars, linkVars, handlerVars

LEMMA InitInv == ClientInit => IInv
<1> SUFFICES ASSUME ClientInit PROVE IInv
  OBVIOUS
<1> USE DEF ClientInit, ConnectionInit, Pool!Init, NoPolling
<1>1. ClientTypeOK
  BY DEF ClientTypeOK, ConnectionTypeOK, InHandler
<1>2. ThreadsInv
  BY DEF ThreadsInv, Started, Stopping
<1>3. PoolInv
  BY DEF PoolInv
<1>4. HandlersInv
  BY DEF HandlersInv
<1> QED BY <1>1, <1>2, <1>3, <1>4 DEF IInv

(* The main thread before exit, and until the pool is stopped.              *)
LEMMA MainInv ==
  ASSUME IInv, MainStep \/ ExitCommand
  PROVE  IInv'
<1> USE DEF IInv, Main
<1>1. CASE ReadConfig
  <2> USE <1>1 DEF ReadConfig
  <2>1. ClientTypeOK'
    BY DEF ClientTypeOK, ConnectionTypeOK, InHandler
  <2>2. ThreadsInv'
    BY DEF ThreadsInv, Started, Stopping, NoPolling, ClientTypeOK
  <2>3. PoolInv'
    BY DEF PoolInv
  <2>4. HandlersInv'
    BY DEF HandlersInv
  <2> QED BY <2>1, <2>2, <2>3, <2>4
<1>2. CASE CreateControllers
  <2> USE <1>2 DEF CreateControllers
  <2>1. ClientTypeOK'
    BY DEF ClientTypeOK, ConnectionTypeOK, InHandler
  <2>2. ThreadsInv'
    BY DEF ThreadsInv, Started, Stopping, NoPolling, ClientTypeOK
  <2>3. PoolInv'
    BY DEF PoolInv
  <2>4. HandlersInv'
    BY DEF HandlersInv
  <2> QED BY <2>1, <2>2, <2>3, <2>4
<1>3. CASE JoinNetwork
  <2> USE <1>3 DEF JoinNetwork
  <2>1. ClientTypeOK'
    BY DEF ClientTypeOK, ConnectionTypeOK, InHandler
  <2>2. ThreadsInv'
    BY DEF ThreadsInv, Started, Stopping, NoPolling, ClientTypeOK
  <2>3. PoolInv'
    BY DEF PoolInv
  <2>4. HandlersInv'
    BY DEF HandlersInv
  <2> QED BY <2>1, <2>2, <2>3, <2>4
<1>4. CASE StartNet
  <2> USE <1>4 DEF StartNet
  <2>1. ClientTypeOK'
    BY DEF ClientTypeOK, ConnectionTypeOK, InHandler
  <2>2. ThreadsInv'
    BY DEF ThreadsInv, Started, Stopping, NoPolling, ClientTypeOK
  <2>3. PoolInv'
    BY DEF PoolInv
  <2>4. HandlersInv'
    BY DEF HandlersInv
  <2> QED BY <2>1, <2>2, <2>3, <2>4
<1>5. CASE StartPollers
  <2> USE <1>5 DEF StartPollers, StartPoller
  <2>1. ClientTypeOK'
    <3>1. poll' \in [Pollers -> {"off", "looping", "ended"}]
      BY DEF ClientTypeOK
    <3>2. ConnectionTypeOK' /\ (InHandler \subseteq running)'
      BY DEF ClientTypeOK, ConnectionTypeOK, InHandler
    <3> QED BY <3>1, <3>2 DEF ClientTypeOK
  <2>2. ThreadsInv'
    BY DEF ThreadsInv, Started, Stopping, NoPolling, ClientTypeOK
  <2>3. PoolInv'
    BY DEF PoolInv
  <2>4. HandlersInv'
    BY DEF HandlersInv
  <2> QED BY <2>1, <2>2, <2>3, <2>4
<1>6. CASE ExitCommand
  <2> USE <1>6 DEF ExitCommand
  <2>1. ClientTypeOK'
    BY DEF ClientTypeOK, ConnectionTypeOK, InHandler
  <2>2. ThreadsInv'
    BY DEF ThreadsInv, Started, Stopping, NoPolling, ClientTypeOK
  <2>3. PoolInv'
    BY DEF PoolInv
  <2>4. HandlersInv'
    BY DEF HandlersInv
  <2> QED BY <2>1, <2>2, <2>3, <2>4
<1>7. CASE StopAcceptor
  <2> USE <1>7 DEF StopAcceptor, CloseAcceptor
  <2>1. ClientTypeOK'
    BY DEF ClientTypeOK, ConnectionTypeOK, InHandler
  <2>2. ThreadsInv'
    BY DEF ThreadsInv, Started, Stopping, NoPolling, ClientTypeOK
  <2>3. PoolInv'
    BY DEF PoolInv
  <2>4. HandlersInv'
    BY DEF HandlersInv
  <2> QED BY <2>1, <2>2, <2>3, <2>4
<1>8. CASE StopNet
  <2> USE <1>8 DEF StopNet
  <2>1. ClientTypeOK'
    BY DEF ClientTypeOK, ConnectionTypeOK, InHandler
  <2>2. ThreadsInv'
    BY DEF ThreadsInv, Started, Stopping, NoPolling, ClientTypeOK
  <2>3. PoolInv'
    BY DEF PoolInv
  <2>4. HandlersInv'
    BY DEF HandlersInv
  <2> QED BY <2>1, <2>2, <2>3, <2>4
<1>9. CASE StopPollers
  <2> USE <1>9 DEF StopPollers, StopPoller
  <2>1. ClientTypeOK'
    BY DEF ClientTypeOK, ConnectionTypeOK, InHandler
  <2>2. ThreadsInv'
    BY DEF ThreadsInv, Started, Stopping, NoPolling, ClientTypeOK
  <2>3. PoolInv'
    BY DEF PoolInv
  <2>4. HandlersInv'
    BY DEF HandlersInv
  <2> QED BY <2>1, <2>2, <2>3, <2>4
<1>10. CASE JoinNet
  <2> USE <1>10 DEF JoinNet
  <2>1. ClientTypeOK'
    BY DEF ClientTypeOK, ConnectionTypeOK, InHandler
  <2>2. ThreadsInv'
    BY DEF ThreadsInv, Started, Stopping, NoPolling, ClientTypeOK
  <2>3. PoolInv'
    BY DEF PoolInv
  <2>4. HandlersInv'
    BY DEF HandlersInv
  <2> QED BY <2>1, <2>2, <2>3, <2>4
<1>11. CASE JoinPollers
  <2> USE <1>11 DEF JoinPollers, JoinPoller
  <2>1. ClientTypeOK'
    BY DEF ClientTypeOK, ConnectionTypeOK, InHandler
  <2>2. ThreadsInv'
    BY DEF ThreadsInv, Started, Stopping, NoPolling, ClientTypeOK
  <2>3. PoolInv'
    BY DEF PoolInv
  <2>4. HandlersInv'
    BY DEF HandlersInv
  <2> QED BY <2>1, <2>2, <2>3, <2>4
<1>12. CASE DestroyControllers
  <2> USE <1>12 DEF DestroyControllers, CloseAcceptor
  <2>1. ClientTypeOK'
    BY DEF ClientTypeOK, ConnectionTypeOK, InHandler
  <2>2. ThreadsInv'
    BY DEF ThreadsInv, Started, Stopping, NoPolling, ClientTypeOK
  <2>3. PoolInv'
    BY DEF PoolInv
  <2>4. HandlersInv'
    BY DEF HandlersInv
  <2> QED BY <2>1, <2>2, <2>3, <2>4
<1>13. CASE StopPool
  <2> USE <1>13 DEF StopPool, Pool!Close
  <2>1. ClientTypeOK'
    BY DEF ClientTypeOK, ConnectionTypeOK, InHandler
  <2>2. ThreadsInv'
    BY DEF ThreadsInv, Started, Stopping, NoPolling, ClientTypeOK
  <2>3. PoolInv'
    BY DEF PoolInv
  <2>4. HandlersInv'
    BY DEF HandlersInv
  <2> QED BY <2>1, <2>2, <2>3, <2>4
<1>14. CASE PoolStopped
  <2> USE <1>14 DEF PoolStopped, Pool!Return
  <2>1. ClientTypeOK'
    BY DEF ClientTypeOK, ConnectionTypeOK, InHandler
  <2>2. ThreadsInv'
    BY DEF ThreadsInv, Started, Stopping, NoPolling, ClientTypeOK
  <2>3. PoolInv'
    BY DEF PoolInv
  <2>4. HandlersInv'
    BY DEF HandlersInv
  <2> QED BY <2>1, <2>2, <2>3, <2>4
<1> QED BY <1>1, <1>2, <1>3, <1>4, <1>5, <1>6, <1>7, <1>8, <1>9, <1>10, <1>11, <1>12, <1>13, <1>14 DEF MainStep

(* What Head and Tail of the queue are.                                     *)
LEMMA HeadTail ==
  ASSUME NEW S, NEW q \in Seq(S), q # <<>>
  PROVE  /\ Head(q) = q[1] /\ q[1] \in S /\ 1 \in 1..Len(q)
         /\ Tail(q) \in Seq(S) /\ Len(Tail(q)) = Len(q) - 1
         /\ \A i \in 1..Len(Tail(q)) : i + 1 \in 1..Len(q) /\ Tail(q)[i] = q[i + 1]
OBVIOUS

(* The threads of the controllers.                                          *)
LEMMA ControllersInv ==
  ASSUME IInv, NetStep \/ \E p \in Pollers : SeeShouldStop(p)
  PROVE  IInv'
<1> USE DEF IInv
<1>1. CASE CheckStopped
  <2> USE <1>1 DEF CheckStopped, NetGoTo
  <2>1. ClientTypeOK'
    BY DEF ClientTypeOK, ConnectionTypeOK, InHandler
  <2>2. ThreadsInv'
    BY DEF ThreadsInv, Started, Stopping, NoPolling, ClientTypeOK
  <2>3. PoolInv'
    BY DEF PoolInv
  <2>4. HandlersInv'
    BY DEF HandlersInv
  <2> QED BY <2>1, <2>2, <2>3, <2>4
<1>2. CASE AsyncAccept
  <2> USE <1>2 DEF AsyncAccept, NetGoTo
  <2>1. ClientTypeOK'
    BY DEF ClientTypeOK, ConnectionTypeOK, InHandler
  <2>2. ThreadsInv'
    BY DEF ThreadsInv, Started, Stopping, NoPolling, ClientTypeOK
  <2>3. PoolInv'
    BY DEF PoolInv
  <2>4. HandlersInv'
    BY DEF HandlersInv
  <2> QED BY <2>1, <2>2, <2>3, <2>4
<1>3. CASE AcceptAborted
  <2> USE <1>3 DEF AcceptAborted, NetGoTo
  <2>1. ClientTypeOK'
    BY DEF ClientTypeOK, ConnectionTypeOK, InHandler
  <2>2. ThreadsInv'
    BY DEF ThreadsInv, Started, Stopping, NoPolling, ClientTypeOK
  <2>3. PoolInv'
    BY DEF PoolInv
  <2>4. HandlersInv'
    BY DEF HandlersInv
  <2> QED BY <2>1, <2>2, <2>3, <2>4
<1>4. ASSUME NEW c \in Conns, ConnectionHandler(c)
      PROVE  IInv'
  <2> USE <1>4 DEF ConnectionHandler, NetGoTo, Pool!Submit
  <2>1. ClientTypeOK'
    BY DEF ClientTypeOK, ConnectionTypeOK, InHandler
  <2>2. ThreadsInv'
    BY DEF ThreadsInv, Started, Stopping, NoPolling, ClientTypeOK
  <2>3. phase = "open"
    BY DEF PoolInv, ThreadsInv, Stopping
  <2>4. /\ queue' \in Seq(Conns) /\ Len(queue') = Len(queue) + 1
        /\ queue'[Len(queue')] = c
        /\ \A i \in 1..Len(queue) : queue'[i] = queue[i]
    BY DEF PoolInv
  <2>5. PoolInv'
    <3>1. \A i \in 1..Len(queue) : queue[i] # c
      BY DEF PoolInv
    <3>2. \A i, k \in 1..Len(queue') : queue'[i] = queue'[k] => i = k
      BY <2>4, <3>1 DEF PoolInv
    <3>3. c \notin running \cup done
      BY DEF PoolInv
    <3>4. \A i \in 1..Len(queue') : queue'[i] \in seen' \ (running' \cup done')
      BY <2>4, <3>3 DEF PoolInv
    <3>5. main # "done"
      BY DEF ThreadsInv, Stopping
    <3> QED BY <2>3, <2>4, <3>2, <3>4, <3>5 DEF PoolInv
  <2>6. HandlersInv'
    BY <2>4 DEF HandlersInv, PoolInv
  <2> QED BY <2>1, <2>2, <2>5, <2>6
<1>5. ASSUME NEW p \in Pollers, SeeShouldStop(p)
      PROVE  IInv'
  <2> USE <1>5 DEF SeeShouldStop
  <2>1. ClientTypeOK'
    BY DEF ClientTypeOK, ConnectionTypeOK, InHandler
  <2>2. ThreadsInv'
    BY DEF ThreadsInv, Started, Stopping, NoPolling, ClientTypeOK
  <2>3. PoolInv'
    BY DEF PoolInv
  <2>4. HandlersInv'
    BY DEF HandlersInv
  <2> QED BY <2>1, <2>2, <2>3, <2>4
<1> QED BY <1>1, <1>2, <1>3, <1>4, <1>5 DEF NetStep

(* The threads of the pool, the handlers and the other side.                *)
LEMMA ConnectionsInv ==
  ASSUME IInv, \/ StartJob
               \/ \E c \in Conns : FinishJob(c) \/ RunHandler(c) \/ Remote(c) \/ Arrive(c)
  PROVE  IInv'
<1> USE DEF IInv
<1>1. CASE StartJob
  <2> USE <1>1 DEF StartJob, Pool!Start, GoTo
  <2>1. /\ Head(queue) = queue[1] /\ Head(queue) \in Conns /\ 1 \in 1..Len(queue)
        /\ queue' \in Seq(Conns) /\ Len(queue') = Len(queue) - 1
        /\ \A i \in 1..Len(queue') : i + 1 \in 1..Len(queue) /\ queue'[i] = queue[i + 1]
    BY HeadTail DEF PoolInv
  <2>2. ClientTypeOK'
    BY <2>1 DEF ClientTypeOK, ConnectionTypeOK, InHandler
  <2>3. ThreadsInv'
    BY DEF ThreadsInv, Started, Stopping, NoPolling
  <2>4. \A i \in 1..Len(queue') : queue'[i] # Head(queue)
    BY <2>1 DEF PoolInv
  <2>5. PoolInv'
    <3>1. \A i, k \in 1..Len(queue') : queue'[i] = queue'[k] => i = k
      BY <2>1 DEF PoolInv
    <3>2. \A i \in 1..Len(queue') : queue'[i] \in seen' \ (running' \cup done')
      BY <2>1, <2>4 DEF PoolInv
    <3> QED BY <2>1, <3>1, <3>2 DEF PoolInv
  <2>6. HandlersInv'
    <3>1. handler[Head(queue)] = "none"
      BY <2>1 DEF HandlersInv
    <3>2. Head(queue) \notin received \cup acked
      BY <3>1 DEF HandlersInv
    <3>3. Head(queue) \in seen
      BY <2>1 DEF PoolInv
    <3>4. \A c \in Conns : handler'[c] = IF c = Head(queue) THEN "start" ELSE handler[c]
      BY DEF ClientTypeOK, ConnectionTypeOK
    <3>5. \A i \in 1..Len(queue') : handler'[queue'[i]] = "none"
      BY <2>1, <2>4, <3>4 DEF HandlersInv, PoolInv
    <3> QED BY <3>2, <3>3, <3>4, <3>5 DEF HandlersInv, ClientTypeOK, ConnectionTypeOK
  <2> QED BY <2>2, <2>3, <2>5, <2>6
<1>2. ASSUME NEW c \in Conns, FinishJob(c)
      PROVE  IInv'
  <2> USE <1>2 DEF FinishJob, Pool!Complete
  <2>1. ClientTypeOK'
    BY DEF ClientTypeOK, ConnectionTypeOK, InHandler
  <2>2. ThreadsInv'
    BY DEF ThreadsInv, Started, Stopping, NoPolling
  <2>3. PoolInv'
    BY DEF PoolInv
  <2>4. HandlersInv'
    BY DEF HandlersInv, ClientTypeOK, ConnectionTypeOK
  <2> QED BY <2>1, <2>2, <2>3, <2>4
<1>3. ASSUME NEW c \in Conns, RunHandler(c)
      PROVE  IInv'
  <2> USE <1>3 DEF RunHandler, GoTo
  <2>1. handler[c] # "none" /\ handler[c] # "ended"
    BY DEF HandlerStep, Greet, ReadType, ReadSecret, WriteAck, ExchangeFails, StoreFile
  <2>2. ClientTypeOK'
    BY <2>1 DEF ClientTypeOK, ConnectionTypeOK, InHandler, HandlerStep, Greet, ReadType,
                ReadSecret, WriteAck, ExchangeFails, StoreFile
  <2>3. ThreadsInv' /\ PoolInv'
    BY DEF ThreadsInv, Started, Stopping, NoPolling, PoolInv
  <2>4. /\ \A d \in Conns \ {c} : handler'[d] = handler[d]
        /\ \A i \in 1..Len(queue) : queue[i] \in Conns \ {c}
    BY <2>1 DEF ClientTypeOK, ConnectionTypeOK, HandlersInv, PoolInv, HandlerStep, Greet,
                ReadType, ReadSecret, WriteAck, ExchangeFails, StoreFile
  <2>5. CASE Greet(c)
    BY <2>5, <2>2, <2>3, <2>4 DEF Greet, HandlersInv, ClientTypeOK, ConnectionTypeOK
  <2>6. CASE ReadType(c)
    BY <2>6, <2>2, <2>3, <2>4 DEF ReadType, HandlersInv, ClientTypeOK, ConnectionTypeOK
  <2>7. CASE ReadSecret(c)
    BY <2>7, <2>2, <2>3, <2>4 DEF ReadSecret, HandlersInv, ClientTypeOK, ConnectionTypeOK
  <2>8. CASE WriteAck(c)
    BY <2>8, <2>2, <2>3, <2>4 DEF WriteAck, HandlersInv, ClientTypeOK, ConnectionTypeOK
  <2>9. CASE ExchangeFails(c)
    BY <2>9, <2>2, <2>3, <2>4 DEF ExchangeFails, HandlersInv, ClientTypeOK, ConnectionTypeOK
  <2>10. CASE StoreFile(c)
    BY <2>10, <2>2, <2>3, <2>4 DEF StoreFile, HandlersInv, ClientTypeOK, ConnectionTypeOK
  <2> QED BY <2>5, <2>6, <2>7, <2>8, <2>9, <2>10 DEF HandlerStep
<1>4. ASSUME NEW c \in Conns, Remote(c)
      PROVE  IInv'
  <2> USE <1>4 DEF Remote, RemoteStep, SendType, SendSecret, Close
  <2>1. ClientTypeOK'
    BY DEF ClientTypeOK, ConnectionTypeOK, InHandler
  <2>2. ThreadsInv'
    BY DEF ThreadsInv, Started, Stopping, NoPolling
  <2>3. PoolInv'
    BY DEF PoolInv
  <2>4. HandlersInv'
    BY DEF HandlersInv, ClientTypeOK, ConnectionTypeOK
  <2> QED BY <2>1, <2>2, <2>3, <2>4
<1>5. ASSUME NEW c \in Conns, Arrive(c)
      PROVE  IInv'
  <2> USE <1>5 DEF Arrive
  <2>1. ClientTypeOK'
    BY DEF ClientTypeOK, ConnectionTypeOK, InHandler
  <2>2. ThreadsInv'
    BY DEF ThreadsInv, Started, Stopping, NoPolling
  <2>3. PoolInv'
    BY DEF PoolInv
  <2>4. HandlersInv'
    BY DEF HandlersInv, ClientTypeOK, ConnectionTypeOK
  <2> QED BY <2>1, <2>2, <2>3, <2>4
<1> QED BY <1>1, <1>2, <1>3, <1>4, <1>5

LEMMA StepInv == IInv /\ [ClientNext]_clientVars => IInv'
<1> SUFFICES ASSUME IInv, [ClientNext]_clientVars PROVE IInv'
  OBVIOUS
<1>1. CASE Crash
  BY <1>1 DEF Crash, IInv, ClientTypeOK, ConnectionTypeOK, InHandler, ThreadsInv, Started,
              Stopping, NoPolling, PoolInv, HandlersInv
<1>2. CASE UNCHANGED clientVars
  BY <1>2 DEF clientVars, IInv, ClientTypeOK, ConnectionTypeOK, InHandler, ThreadsInv,
              PoolInv, HandlersInv
<1> QED
  BY <1>1, <1>2, MainInv, ControllersInv, ConnectionsInv DEF ClientNext, AtRest

-----------------------------------------------------------------------------
(* The inductive invariant holds in every reachable state.                  *)
THEOREM Invariant == ClientSpec => []IInv
<1> QED BY InitInv, StepInv, PTL DEF ClientSpec

(* The state of the client is well formed, and a thread of the pool runs    *)
(* every handler under way.                                                 *)
THEOREM TypeCorrect == ClientSpec => []ClientTypeOK
<1>1. IInv => ClientTypeOK
  BY DEF IInv
<1> QED BY Invariant, <1>1, PTL

(* The accept loop and the pollers end before their controllers are         *)
(* destroyed, and the handlers before main returns, whatever ends start();  *)
(* a handler is without ioService_ only while main waits for the pool.      *)
THEOREM NoThreadIsLeft == ClientSpec => []NothingAfterMain
<1>1. IInv => NothingAfterMain
  <2> SUFFICES ASSUME IInv PROVE NothingAfterMain
    OBVIOUS
  <2>1. main = "done" => InHandler = {} /\ queue = <<>>
    BY DEF IInv, PoolInv, ClientTypeOK
  <2>2. seen = {} => InHandler = {} /\ queue = <<>>
    BY DEF IInv, PoolInv, HandlersInv, InHandler
  <2>3. (InHandler # {} \/ queue # <<>>) /\ ~ioService => main = "destroyPool"
    BY <2>1, <2>2 DEF IInv, ThreadsInv, Started
  <2> QED BY <2>1, <2>3 DEF NothingAfterMain, IInv, ThreadsInv, Stopping
<1> QED BY Invariant, <1>1, PTL

(* No secret that was acknowledged is dropped by an exit before             *)
(* Peer::storeFile has seen it.                                             *)
THEOREM AckedReachesStoreFile == ClientSpec => []AckedIsHandedOver
<1>1. IInv => AckedIsHandedOver
  BY DEF IInv, PoolInv, HandlersInv, ClientTypeOK, ConnectionTypeOK, InHandler,
         AckedIsHandedOver
<1> QED BY Invariant, <1>1, PTL
=============================================================================
