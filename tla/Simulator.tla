------------------------------ MODULE Simulator ------------------------------
(***************************************************************************)
(* The simulated network of cmd/mpc-demo/network/simulator.go.  A send     *)
(* spawns a goroutine that sleeps and then writes to the buffered channel  *)
(* messageQueue; one handler goroutine ranges over the channel and calls   *)
(* the recipient's receive method; Stop closes the channel.  The protocols *)
(* (SumProtocol, DKG, Signing) extend this module and drive it from the    *)
(* main goroutine.                                                         *)
(*                                                                         *)
(* A share is not a number here.  A node deals a fresh polynomial each     *)
(* time a phase asks it to; Payload = r stands for the value, at the       *)
(* recipient's x coordinate To + 1, of the polynomial that From drew in    *)
(* its r-th dealing.  A sum of shares is the function that tells which     *)
(* dealing of each dealer it contains (0: none).                           *)
(***************************************************************************)
EXTENDS Naturals, Sequences, FiniteSets

CONSTANTS
  Ids,            \* the identifiers AddNode may be called with
  Networks,       \* the sets of nodes a caller builds before its first phase
  NumParties,     \* s.numParties
  Thresholds,     \* the thresholds NewSimulator is called with
  QueueCapacity,  \* capacity of messageQueue (1000 in the code)
  Nil             \* Go's nil

ASSUME IdsAssumption ==
  /\ Ids \subseteq Nat
  /\ IsFiniteSet(Ids)
ASSUME NetworksAssumption == Networks \subseteq SUBSET Ids
ASSUME SizeAssumption ==
  /\ NumParties \in Nat \ {0}
  /\ Thresholds \subseteq Nat
  /\ QueueCapacity \in Nat \ {0}

Parties == 0 .. NumParties - 1    \* the recipients a broadcast addresses

Message(types, payloads) ==
  [Type : types, From : Ids, To : Ids, Payload : payloads]

MessageTypes == {"share", "dkg_share", "sign_nonce"}

(* Nil is none of the values a variable may have instead.                   *)
ASSUME NilAssumption ==
  /\ \A S \in SUBSET Ids : S # Nil
  /\ Nil \notin Ids
  /\ Nil \notin Message(MessageTypes, Nat)

VARIABLES
  threshold,     \* s.threshold, fixed by NewSimulator
  nodes,         \* s.nodes: identifiers of the nodes that joined
  inflight,      \* messages whose sender goroutine still sleeps or blocks
  messageQueue,  \* the channel's buffer
  handling,      \* the message the handler goroutine is delivering, or Nil
  closed,        \* messageQueue was closed by Stop
  panic          \* "none", or what made the process die

netVars == <<threshold, nodes, inflight, messageQueue, handling, closed, panic>>

NetInit ==
  /\ threshold \in Thresholds
  /\ nodes = {}
  /\ inflight = {}
  /\ messageQueue = <<>>
  /\ handling = Nil
  /\ closed = FALSE
  /\ panic = "none"

(* A node joins before the phases start. *)
AddNode(id) ==
  /\ nodes' = nodes \cup {id}
  /\ UNCHANGED <<threshold, inflight, messageQueue, handling, closed, panic>>

(* Mutants of SharesOf: the loop skips the sender; it stops one too early.  *)
SharesOfOthers(type, from, dealing) ==
  {[Type |-> type, From |-> from, To |-> i, Payload |-> dealing] :
     i \in (Parties \cap nodes) \ {from}}

SharesOfAllButLast(type, from, dealing) ==
  {[Type |-> type, From |-> from, To |-> i, Payload |-> dealing] :
     i \in (Parties \cap nodes) \ {NumParties - 1}}

(* The messages of a loop over shares that calls SendMessage for every      *)
(* index that names a node.                                                 *)
SharesOf(type, from, dealing) ==
  {[Type |-> type, From |-> from, To |-> i, Payload |-> dealing] :
     i \in Parties \cap nodes}

SendMessages(type, from, dealing) ==
  /\ inflight' = inflight \cup SharesOf(type, from, dealing)
  /\ UNCHANGED <<threshold, nodes, messageQueue, handling, closed, panic>>

(* A sender goroutine wakes up and writes to the channel: it blocks while   *)
(* the buffer is full and panics when the channel is closed.                *)
Enqueue(m) ==
  /\ ~closed
  /\ Len(messageQueue) < QueueCapacity
  /\ inflight' = inflight \ {m}
  /\ messageQueue' = Append(messageQueue, m)
  /\ UNCHANGED <<threshold, nodes, handling, closed, panic>>

SendOnClosed(m) ==
  /\ closed
  /\ panic' = "send on closed channel"
  /\ inflight' = inflight \ {m}
  /\ UNCHANGED <<threshold, nodes, messageQueue, handling, closed>>

Sender == \E m \in inflight : Enqueue(m) \/ SendOnClosed(m)

(* The handler goroutine takes the next message; a closed channel is        *)
(* drained first.                                                           *)
TakeMessage ==
  /\ handling = Nil
  /\ messageQueue # <<>>
  /\ handling' = Head(messageQueue)
  /\ messageQueue' = Tail(messageQueue)
  /\ UNCHANGED <<threshold, nodes, inflight, closed, panic>>

(* The handler goroutine returns to its loop.                               *)
Delivered ==
  /\ handling' = Nil
  /\ UNCHANGED <<threshold, nodes, inflight, messageQueue, closed, panic>>

(* Stop closes the channel.                                                 *)
Stop ==
  /\ closed' = TRUE
  /\ UNCHANGED <<threshold, nodes, inflight, messageQueue, handling, panic>>

Alive == panic = "none"

(* Everything sent so far has been delivered: what the phases' comment      *)
(* "Wait for all messages to be delivered" asks of their Sleep.             *)
Quiescent == inflight = {} /\ messageQueue = <<>> /\ handling = Nil

(* The messages sent and not yet delivered, wherever they are.              *)
Undelivered ==
  inflight \cup {messageQueue[i] : i \in 1 .. Len(messageQueue)}
           \cup ({handling} \ {Nil})
=============================================================================
