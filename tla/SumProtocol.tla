----------------------------- MODULE SumProtocol -----------------------------
(***************************************************************************)
(* The sum demo (demoSumComputation): every node Shamir-shares its secret, *)
(* waits on a one-shot ready channel for the shares of all parties, adds   *)
(* them up, and the caller interpolates threshold of the results.          *)
(*                                                                         *)
(* There is one dealing per node, so a share is identified by its dealer   *)
(* and a sum of shares by how often each dealer's is in it.                *)
(***************************************************************************)
EXTENDS Simulator

ASSUME NilIsNoSum == Nil \notin [Ids -> Nat]

VARIABLES
  pc,              \* where the main goroutine is
  todo,            \* the nodes the current loop over s.nodes has left
  computing,       \* the node whose Compute the loop is in, or Nil
  share,           \* n.share # nil
  receivedShares,  \* keys of n.receivedShares
  ready,           \* tokens in the channel n.ready
  readyOnce,       \* n.readyOnce has run
  result,          \* n.result: by dealer, times added; or Nil
  sum              \* the same of the reconstructed sum, or Nil

mainVars == <<pc, todo, computing, sum>>
nodeVars == <<share, receivedShares, ready, readyOnce, result>>
vars == <<netVars, mainVars, nodeVars>>

Init ==
  /\ NetInit
  /\ pc = "setup"
  /\ todo = {}
  /\ computing = Nil
  /\ sum = Nil
  /\ share = [n \in Ids |-> FALSE]
  /\ receivedShares = [n \in Ids |-> {}]
  /\ ready = [n \in Ids |-> 0]
  /\ readyOnce = [n \in Ids |-> FALSE]
  /\ result = [n \in Ids |-> Nil]
-----------------------------------------------------------------------------
Join ==
  /\ pc = "setup"
  /\ \E id \in Ids \ nodes : AddNode(id)
  /\ UNCHANGED <<mainVars, nodeVars>>

StartSharing ==
  /\ pc = "setup"
  /\ nodes \in Networks
  /\ pc' = "share"
  /\ todo' = nodes
  /\ UNCHANGED <<netVars, computing, sum, nodeVars>>

(* The checks at the top of SecretSharing.Share.                            *)
BadThreshold == threshold > NumParties \/ threshold < 2

(* One turn of the loop of SecretSharingPhase: ShareSecret stores the       *)
(* node's own share, BroadcastShare sends one to every party.               *)
ShareSecret(n) ==
  /\ pc = "share"
  /\ n \in todo
  /\ ~BadThreshold
  /\ share' = [share EXCEPT ![n] = NumParties > n]
  /\ SendMessages("share", n, 1)
  /\ todo' = todo \ {n}
  /\ UNCHANGED <<pc, computing, sum, receivedShares, ready, readyOnce, result>>

(* Share returns an error, the phase returns it and main exits.             *)
ShareFails ==
  /\ pc = "share"
  /\ todo # {}
  /\ BadThreshold
  /\ pc' = "failed"
  /\ UNCHANGED <<netVars, todo, computing, sum, nodeVars>>

(* The Sleep ends, however many messages are still under way.               *)
WakeFromSleep ==
  /\ pc = "share"
  /\ todo = {}
  /\ pc' = "compute"
  /\ todo' = nodes
  /\ UNCHANGED <<netVars, computing, sum, nodeVars>>

(* The loop of ComputationPhase enters Compute of one node, which blocks    *)
(* until that node is ready.                                                *)
EnterCompute(n) ==
  /\ pc = "compute"
  /\ computing = Nil
  /\ n \in todo
  /\ computing' = n
  /\ UNCHANGED <<netVars, pc, todo, sum, nodeVars>>

(* The sum with every dealer of S in it, once.                              *)
Once(S) == [j \in Ids |-> IF j \in S THEN 1 ELSE 0]

(* Compute adds every received share, and the own share when it was not     *)
(* among them.                                                              *)
AddedShares(n) ==
  [j \in Ids |-> (IF j \in receivedShares[n] THEN 1 ELSE 0)
                + (IF j = n /\ share[n] /\ n \notin receivedShares[n] THEN 1 ELSE 0)]

(* Mutants of Compute: the own share is added without looking whether it    *)
(* was among the received ones; it does not wait for the ready token.       *)
ComputeOwnTwice(n) ==
  /\ pc = "compute"
  /\ computing = n
  /\ ready[n] > 0
  /\ ready' = [ready EXCEPT ![n] = @ - 1]
  /\ result' = [result EXCEPT ![n] =
       [AddedShares(n) EXCEPT ![n] = IF share[n] THEN @ + 1 ELSE @]]
  /\ computing' = Nil
  /\ todo' = todo \ {n}
  /\ UNCHANGED <<netVars, pc, sum, share, receivedShares, readyOnce>>

ComputeAtOnce(n) ==
  /\ pc = "compute"
  /\ computing = n
  /\ result' = [result EXCEPT ![n] = AddedShares(n)]
  /\ computing' = Nil
  /\ todo' = todo \ {n}
  /\ UNCHANGED <<netVars, pc, sum, share, receivedShares, ready, readyOnce>>

(* Compute takes the ready token and adds up the shares.                    *)
Compute(n) ==
  /\ pc = "compute"
  /\ computing = n
  /\ ready[n] > 0
  /\ ready' = [ready EXCEPT ![n] = @ - 1]
  /\ result' = [result EXCEPT ![n] = AddedShares(n)]
  /\ computing' = Nil
  /\ todo' = todo \ {n}
  /\ UNCHANGED <<netVars, pc, sum, share, receivedShares, readyOnce>>

(* The caller cuts the results off at threshold and interpolates: with      *)
(* points of one polynomial that yields the sum of their dealers' secrets,  *)
(* with points of different ones it yields no sum at all.                   *)
Interpolated(S) ==
  IF \A m, n \in S : result[m] = result[n]
    THEN result[CHOOSE n \in S : TRUE]
    ELSE Once({})

Reconstruct(S) ==
  /\ pc = "compute"
  /\ computing = Nil
  /\ todo = {}
  /\ S \subseteq nodes
  /\ Cardinality(S) = threshold
  /\ threshold >= 2
  /\ sum' = Interpolated(S)
  /\ pc' = "reconstructed"
  /\ UNCHANGED <<netVars, todo, computing, nodeVars>>

(* Fewer than threshold results, or fewer than the two that Reconstruct     *)
(* needs: main exits.                                                       *)
ReconstructFails ==
  /\ pc = "compute"
  /\ computing = Nil
  /\ todo = {}
  /\ Cardinality(nodes) < threshold \/ threshold < 2
  /\ pc' = "failed"
  /\ UNCHANGED <<netVars, todo, computing, sum, nodeVars>>

StopNetwork ==
  /\ pc = "reconstructed"
  /\ Stop
  /\ pc' = "stopped"
  /\ UNCHANGED <<todo, computing, sum, nodeVars>>

(* Mutants of ReceiveShare: every share is signalled, not only the last;    *)
(* the node is ready one share too early.                                   *)
ReceiveShareSignalsEach ==
  /\ handling # Nil
  /\ LET n == handling.To
     IN /\ receivedShares' = [receivedShares EXCEPT ![n] = @ \cup {handling.From}]
        /\ ready' = [ready EXCEPT ![n] = @ + 1]
  /\ Delivered
  /\ UNCHANGED <<mainVars, share, readyOnce, result>>

ReceiveShareReadyEarly ==
  /\ handling # Nil
  /\ LET n == handling.To
         shares == receivedShares[n] \cup {handling.From}
         signal == Cardinality(shares) >= NumParties - 1 /\ ~readyOnce[n]
     IN /\ receivedShares' = [receivedShares EXCEPT ![n] = shares]
        /\ readyOnce' = [readyOnce EXCEPT ![n] = @ \/ signal]
        /\ ready' = [ready EXCEPT ![n] = IF signal THEN @ + 1 ELSE @]
  /\ Delivered
  /\ UNCHANGED <<mainVars, share, result>>

(* ReceiveShare stores the share; the first time NumParties shares are      *)
(* there it puts the token into the ready channel.                          *)
ReceiveShare ==
  /\ handling # Nil
  /\ LET n == handling.To
         shares == receivedShares[n] \cup {handling.From}
         signal == Cardinality(shares) >= NumParties /\ ~readyOnce[n]
     IN /\ receivedShares' = [receivedShares EXCEPT ![n] = shares]
        /\ readyOnce' = [readyOnce EXCEPT ![n] = @ \/ signal]
        /\ ready' = [ready EXCEPT ![n] = IF signal THEN @ + 1 ELSE @]
  /\ Delivered
  /\ UNCHANGED <<mainVars, share, result>>
-----------------------------------------------------------------------------
Main ==
  \/ Join
  \/ StartSharing
  \/ \E n \in todo : ShareSecret(n)
  \/ ShareFails
  \/ WakeFromSleep
  \/ \E n \in todo : EnterCompute(n) \/ Compute(n)
  \/ \E S \in SUBSET nodes : Reconstruct(S)
  \/ ReconstructFails
  \/ StopNetwork

Handler == (TakeMessage /\ UNCHANGED <<mainVars, nodeVars>>) \/ ReceiveShare

Senders == Sender /\ UNCHANGED <<mainVars, nodeVars>>

(* log.Fatal ends the process, and so does a panic.                         *)
Running == Alive /\ pc # "failed"

Next == Running /\ (Main \/ Handler \/ Senders)

(* The Go scheduler runs every goroutine that can run.                      *)
Fairness == WF_vars(Running /\ Main) /\ WF_vars(Running /\ Handler)
            /\ WF_vars(Running /\ Senders)

Spec == Init /\ [][Next]_vars
FairSpec == Spec /\ Fairness
-----------------------------------------------------------------------------
ShareMessages == Message({"share"}, {1})

TypeOK ==
  /\ threshold \in Thresholds
  /\ nodes \subseteq Ids
  /\ inflight \subseteq ShareMessages
  /\ messageQueue \in Seq(ShareMessages)
  /\ handling \in ShareMessages \cup {Nil}
  /\ closed \in BOOLEAN
  /\ panic \in {"none", "send on closed channel"}
  /\ pc \in {"setup", "share", "compute", "reconstructed", "stopped", "failed"}
  /\ todo \subseteq nodes
  /\ computing \in todo \cup {Nil}
  /\ share \in [Ids -> BOOLEAN]
  /\ receivedShares \in [Ids -> SUBSET Ids]
  /\ ready \in [Ids -> {0, 1}]
  /\ readyOnce \in [Ids -> BOOLEAN]
  /\ result \in [Ids -> [Ids -> Nat] \cup {Nil}]
  /\ sum \in [Ids -> Nat] \cup {Nil}

(* The barrier in Compute, and not the 200 ms Sleep, is what makes Stop     *)
(* safe: when main closes the channel no sender goroutine is left that      *)
(* could still write to it.  (SendMessage, Compute, Stop.)                  *)
NoSendOnClosed == panic = "none"

(* A network that is not exactly the parties 0..NumParties-1 never gets     *)
(* past ComputationPhase: some node's Compute blocks for ever, so no wrong  *)
(* sum is ever printed for it.  (BroadcastShare, ReceiveShare, Compute.)    *)
OnlyFullNetworkFinishes ==
  pc \in {"reconstructed", "stopped"} => nodes = Parties

(* In the full network a node's result never misses a dealer nor counts one *)
(* twice, its own share that comes back to it over the network included,    *)
(* whatever the order and delay of the messages.  (ReceiveShare, Compute.)  *)
ResultsComplete ==
  nodes = Parties =>
    \A n \in nodes : result[n] # Nil => result[n] = Once(nodes)

(* The sum main prints contains, once, the secret of every node that shared *)
(* one, whichever threshold results the random map order put first.         *)
(* (ComputationPhase, demoSumComputation.)                                  *)
SumComplete == pc \in {"reconstructed", "stopped"} => sum = Once(nodes)

(* A node whose Compute has returned never gets another share: its result   *)
(* can not be stale.  (ReceiveShare runs in the handler, Compute in main.)  *)
ResultNeverStale ==
  [][\A n \in nodes : nodes = Parties /\ result[n] # Nil =>
        receivedShares'[n] = receivedShares[n]]_vars

(* The demo implements SecureSum: the only sum ever reconstructed is that   *)
(* of all parties, after all of them have dealt their shares.               *)
Contributed ==
  CASE pc = "setup" -> {}
    [] pc = "share" -> nodes \ todo
    [] pc = "failed" -> IF BadThreshold THEN {} ELSE nodes
    [] OTHER -> nodes

Ideal == INSTANCE SecureSum WITH
           parties <- nodes, contributed <- Contributed, output <- sum

ImplementsSecureSum == Ideal!Spec

(* In the full network with a usable threshold the demo terminates: no      *)
(* node waits for ever on its ready channel.                                *)
Terminates == (pc = "share" /\ nodes = Parties /\ ~BadThreshold) ~> (pc = "stopped")
-----------------------------------------------------------------------------
(* Why the properties above hold: the parts of an inductive invariant.      *)

(* n's turn in the loop of SecretSharingPhase is over.                      *)
HasDealt(n) == n \in nodes /\ pc # "setup" /\ ~(pc = "share" /\ n \in todo)

(* n's ready channel was, or could have been, signalled.                    *)
AllArrived(n) == Cardinality(receivedShares[n]) >= NumParties

(* Where main can be with which local variables and which channel.          *)
MainInv ==
  /\ pc = "setup" => todo = {}
  /\ pc \notin {"compute", "failed"} => computing = Nil
  /\ pc \in {"setup", "share"} => \A n \in Ids : result[n] = Nil
  /\ BadThreshold => /\ pc = "share" => todo = nodes
                     /\ pc = "compute" => nodes = {}
  /\ pc \notin {"reconstructed", "stopped"} => sum = Nil
  /\ closed => pc = "stopped"

(* A message comes from a node whose turn is over and goes to a party.      *)
RightlySent(m) == HasDealt(m.From) /\ m.To \in Parties \cap nodes

MessageInv ==
  /\ \A m \in inflight : RightlySent(m)
  /\ \A i \in 1 .. Len(messageQueue) : RightlySent(messageQueue[i])
  /\ handling # Nil => RightlySent(handling)
  /\ \A n \in Ids : \A j \in receivedShares[n] : HasDealt(j) /\ n \in Parties

(* A share a sender still holds is nowhere else.                            *)
OnceInv ==
  \A m \in inflight :
    /\ m.From \notin receivedShares[m.To]
    /\ handling # Nil => m # handling
    /\ \A i \in 1 .. Len(messageQueue) : m # messageQueue[i]

(* The barrier: who has a result has every share.                           *)
BarrierInv ==
  /\ \A n \in Ids : ready[n] = 1 => readyOnce[n]
  /\ \A n \in Ids : readyOnce[n] \/ result[n] # Nil => AllArrived(n)
  /\ \A n \in nodes : result[n] # Nil /\ nodes = Parties => result[n] = Once(nodes)
  /\ pc = "compute" => \A n \in nodes \ todo : result[n] # Nil

(* At the end main has a result of every node of a full network.            *)
FinishedInv ==
  pc \in {"reconstructed", "stopped"} =>
    /\ nodes = Parties
    /\ sum = Once(nodes)
    /\ \A n \in nodes : result[n] # Nil

(* The inductive invariant: when main stops the network nothing is left in  *)
(* flight because every node had all the shares when its Compute returned.  *)
IInv ==
  /\ TypeOK
  /\ MainInv
  /\ MessageInv
  /\ OnceInv
  /\ BarrierInv
  /\ FinishedInv
  /\ NoSendOnClosed
=============================================================================
