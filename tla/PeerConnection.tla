--------------------------- MODULE PeerConnection ---------------------------
(***************************************************************************)
(* Connections from other peers to a client: handlePeerSocketConnection of *)
(* src/core/PeerSocketConnection.cpp, and what the other side, and the     *)
(* network, may do to it.  The other side connects, sends a type byte,     *)
(* which is a ping or announces a secret, then the secret, and waits for   *)
(* one byte of acknowledgement; it may close or lose the connection at any *)
(* point, or say nothing for ever.  Each connection has its own secret,    *)
(* which is named like the connection.                                     *)
(*                                                                         *)
(* Module ClientLifecycle puts these handlers into the client's pool.      *)
(***************************************************************************)
EXTENDS Naturals, FiniteSets

CONSTANTS Conns,   (* connections                                            *)
          Silent,  (* connections whose other side may say nothing for ever  *)
          Garbage  (* what is in secretBuffer before a secret is read        *)

ASSUME ConnectionAssumption ==
  IsFiniteSet(Conns) /\ Silent \subseteq Conns /\ Garbage \notin Conns

VARIABLES
  link,       (* each connection: "none", "open" or "closed"                 *)
  sent,       (* what the other side has sent on it                          *)
  handler,    (* where the handler of each connection is                     *)
  received,   (* connections whose secret is in secretBuffer                 *)
  acked,      (* connections on which the acknowledgement was written        *)
  registered, (* secrets for which Peer::storeFile returned true             *)
  refused     (* secrets for which it returned false                         *)

linkVars == <<link, sent>>
handlerVars == <<handler, received, acked, registered, refused>>

Reading == {c \in Conns : handler[c] \in {"type", "secret"}}
InHandler == {c \in Conns : handler[c] \notin {"none", "ended"}}

ConnectionTypeOK ==
  /\ link \in [Conns -> {"none", "open", "closed"}]
  /\ sent \in [Conns -> {"nothing", "ping", "type", "secret"}]
  /\ handler \in [Conns -> {"none", "start", "type", "secret", "ack", "store", "ended"}]
  /\ received \subseteq Conns /\ acked \subseteq Conns
  /\ registered \cup refused \subseteq Conns \cup {Garbage}

ConnectionInit ==
  /\ link = [c \in Conns |-> "none"]
  /\ sent = [c \in Conns |-> "nothing"]
  /\ handler = [c \in Conns |-> "none"]
  /\ received = {} /\ acked = {} /\ registered = {} /\ refused = {}

-----------------------------------------------------------------------------
(* The other side.  (After the last read or write nobody notices a close.)  *)
SendType(c) ==
  /\ link[c] = "open" /\ sent[c] = "nothing"
  /\ \E type \in {"ping", "type"} : sent' = [sent EXCEPT ![c] = type]
  /\ UNCHANGED <<link, handlerVars>>

SendSecret(c) ==
  /\ link[c] = "open" /\ sent[c] = "type"
  /\ sent' = [sent EXCEPT ![c] = "secret"]
  /\ UNCHANGED <<link, handlerVars>>

Close(c) ==
  /\ link[c] = "open" /\ handler[c] \notin {"store", "ended"}
  /\ link' = [link EXCEPT ![c] = "closed"]
  /\ UNCHANGED <<sent, handlerVars>>

-----------------------------------------------------------------------------
GoTo(c, place) == handler' = [handler EXCEPT ![c] = place]

(* The greeting asks for remote_endpoint, outside of the try block.  It     *)
(* throws if the connection was reset, and then nothing catches it.         *)
Greet(c) ==
  /\ handler[c] = "start"
  /\ GoTo(c, "type")
  /\ UNCHANGED <<linkVars, received, acked, registered, refused>>

GreetThrows(c) == handler[c] = "start" /\ link[c] = "closed"

(* A ping is answered by the connection itself: nothing more is read.       *)
ReadType(c) ==
  /\ handler[c] = "type" /\ sent[c] # "nothing"
  /\ GoTo(c, IF sent[c] = "ping" THEN "ended" ELSE "secret")
  /\ UNCHANGED <<linkVars, received, acked, registered, refused>>

ReadSecret(c) ==
  /\ handler[c] = "secret" /\ sent[c] = "secret"
  /\ GoTo(c, "ack")
  /\ received' = received \cup {c}
  /\ UNCHANGED <<linkVars, acked, registered, refused>>

(* The write succeeds once the kernel has the byte, even if the other side  *)
(* will not read it.                                                        *)
WriteAck(c) ==
  /\ handler[c] = "ack"
  /\ GoTo(c, "store")
  /\ acked' = acked \cup {c}
  /\ UNCHANGED <<linkVars, received, registered, refused>>

(* A read or the write throws.  The catch block prints the error, and the   *)
(* handler goes on behind it.                                               *)
ExchangeFails(c) ==
  /\ handler[c] \in {"type", "secret", "ack"} /\ link[c] = "closed"
  /\ GoTo(c, "store")
  /\ UNCHANGED <<linkVars, received, acked, registered, refused>>

(* Peer::storeFile gets whatever is in secretBuffer, and may refuse it: the *)
(* handler prints that on cerr and is done.  The other side is told nothing *)
(* of it, and a secret that was read was acknowledged before.               *)
StoreFile(c) ==
  /\ handler[c] = "store"
  /\ GoTo(c, "ended")
  /\ LET secret == IF c \in received THEN c ELSE Garbage
     IN  \/ registered' = registered \cup {secret} /\ UNCHANGED refused
         \/ refused' = refused \cup {secret} /\ UNCHANGED registered
  /\ UNCHANGED <<linkVars, received, acked>>

HandlerStep(c) == \/ Greet(c) \/ ReadType(c) \/ ReadSecret(c) \/ WriteAck(c)
                  \/ ExchangeFails(c) \/ StoreFile(c)
RemoteStep(c) == SendType(c) \/ SendSecret(c) \/ Close(c)

-----------------------------------------------------------------------------
(* A statement of the source that the code does not meet.                   *)

(* PeerSocketConnection.cpp:19 says that the handler's secret is one got    *)
(* "from the network": nothing else is ever registered.                     *)
RegisteredWasReceived == Garbage \notin registered
=============================================================================
