--------------------------------- MODULE DKG ---------------------------------
(***************************************************************************)
(* Distributed key generation: DKGPhase of the simulator, the DKG methods  *)
(* of Node and internal/dkg.  Every node deals a polynomial and hands its  *)
(* commitments to the others by direct calls, the shares travel over the   *)
(* simulated network, the main goroutine sleeps 200 ms, and then asks      *)
(* every node for its share of the private key and node 0 for the public   *)
(* key.                                                                    *)
(*                                                                         *)
(* A key share is the Sum of the shares in it.  A point d * G is           *)
(* represented by d, and the public key, a sum of one point per node, by   *)
(* the function from nodes to those points.                                *)
(***************************************************************************)
EXTENDS ShareCollection

CONSTANTS
  MaxDealings,  \* bound: calls of DKGPhase (main makes one)
  SleepCovers,  \* assume Sleep(200ms) outlasts every delivery
  SendersWait   \* assume no sender wakes (10ms) before the loop of sends ends

ASSUME DKGAssumption ==
  /\ MaxDealings \in Nat \ {0}
  /\ MaxRounds \in Nat
  /\ MaxRounds >= MaxDealings
  /\ SleepCovers \in BOOLEAN
  /\ SendersWait \in BOOLEAN

(* A public key: by node, what its point was computed from.                 *)
PublicKey == UNION {[N -> Sum] : N \in SUBSET Ids}

ASSUME NilIsNoKey == Nil \notin PublicKey

VARIABLES
  pc,               \* where the main goroutine is
  todo,             \* the nodes the current loop over s.nodes has left
  dealing,          \* how many times DKGPhase was called
  failure,          \* the error a phase returned, or "none"
  SecretShare,      \* dealing of state.SecretShare, 0: nil
  ReceivedShares,   \* state.ReceivedShares, by dealer
  Commitments,      \* dealing of state.Commitments, by dealer
  hasPrivateKey,    \* n.hasPrivateKey
  privateKeyShare,  \* n.privateKeyShare
  sharedPublicKey   \* n.sharedPublicKey, or Nil

mainVars == <<pc, todo, dealing, failure>>
partyVars == <<SecretShare, ReceivedShares, Commitments, hasPrivateKey,
               privateKeyShare, sharedPublicKey>>
dkgVars == <<netVars, collectVars, mainVars, partyVars>>

DKGInit ==
  /\ NetInit
  /\ CollectInit
  /\ pc = "setup"
  /\ todo = {}
  /\ dealing = 0
  /\ failure = "none"
  /\ SecretShare = [n \in Ids |-> 0]
  /\ ReceivedShares = [n \in Ids |-> NoShares]
  /\ Commitments = [n \in Ids |-> NoShares]
  /\ hasPrivateKey = [n \in Ids |-> FALSE]
  /\ privateKeyShare = [n \in Ids |-> NoShares]
  /\ sharedPublicKey = [n \in Ids |-> Nil]
-----------------------------------------------------------------------------
Join ==
  /\ pc = "setup"
  /\ \E id \in Ids \ nodes : AddNode(id)
  /\ UNCHANGED <<collectVars, mainVars, partyVars>>

(* No phase runs.                                                           *)
Idle == pc \in {"setup", "keyed", "signed", "failed"}

(* main calls DKGPhase once; a caller may call it again, to change the key  *)
(* or after an error.                                                       *)
StartDKG ==
  /\ Idle
  /\ nodes \in Networks
  /\ dealing < MaxDealings
  /\ dealing' = dealing + 1
  /\ pc' = "deal"
  /\ todo' = nodes
  /\ failure' = "none"
  /\ UNCHANGED <<netVars, collectVars, partyVars>>

(* A turn of the loop of phase 1 begins with GenerateSecretShare, which     *)
(* keeps the node's own share.  Unlike Share, it does not look at the       *)
(* threshold.                                                               *)
GenerateSecretShare(n) ==
  /\ pc = "deal"
  /\ n \in todo
  /\ current = Nil
  /\ threshold # 0
  /\ SecretShare' = [SecretShare EXCEPT ![n] = IF NumParties > n THEN dealing ELSE @]
  /\ current' = n
  /\ stage' = "commit"
  /\ UNCHANGED <<netVars, total, snapshot, mainVars, ReceivedShares, Commitments,
                 hasPrivateKey, privateKeyShare, sharedPublicKey>>

(* "Broadcast commitments to all nodes (for verification)": direct calls of *)
(* the other nodes' DKGReceiveCommitments.                                  *)
BroadcastCommitments(n) ==
  /\ pc = "deal"
  /\ current = n
  /\ stage = "commit"
  /\ Commitments' = [m \in Ids |->
       IF m \in nodes \ {n} THEN [Commitments[m] EXCEPT ![n] = dealing]
                            ELSE Commitments[m]]
  /\ stage' = "send"
  /\ UNCHANGED <<netVars, current, total, snapshot, mainVars, SecretShare,
                 ReceivedShares, hasPrivateKey, privateKeyShare, sharedPublicKey>>

(* Mutant of BroadcastShares: this loop comes before the one that hands out *)
(* the commitments.                                                         *)
BroadcastSharesFirst(n) ==
  /\ pc = "deal"
  /\ current = n
  /\ \/ /\ stage = "commit"
        /\ SendMessages("dkg_share", n, dealing)
        /\ UNCHANGED <<collectVars, todo>>
     \/ /\ stage = "send"
        /\ LeaveBody
        /\ todo' = todo \ {n}
        /\ UNCHANGED netVars
  /\ UNCHANGED <<pc, dealing, failure, partyVars>>

(* "Broadcast DKG shares to all nodes": one message per party.              *)
BroadcastShares(n) ==
  /\ pc = "deal"
  /\ current = n
  /\ stage = "send"
  /\ SendMessages("dkg_share", n, dealing)
  /\ LeaveBody
  /\ todo' = todo \ {n}
  /\ UNCHANGED <<pc, dealing, failure, partyVars>>

(* With threshold 0 there is no coefficients[0] to assign.                  *)
GenerateNoCoefficients ==
  /\ pc = "deal"
  /\ todo # {}
  /\ threshold = 0
  /\ panic' = "index out of range"
  /\ UNCHANGED <<threshold, nodes, inflight, messageQueue, handling, closed>>
  /\ UNCHANGED <<collectVars, mainVars, partyVars>>

(* The Sleep ends.  The loop of phase 1.5 that follows it only fills a      *)
(* local map nobody reads.                                                  *)
WakeFromDealing ==
  /\ pc = "deal"
  /\ todo = {}
  /\ SleepCovers => Quiescent
  /\ pc' = "derive"
  /\ todo' = nodes
  /\ UNCHANGED <<netVars, collectVars, dealing, failure, partyVars>>

(* Phase 2, node by node: ComputeSharedPrivateKey, then the node stores its *)
(* key share under its lock.                                                *)
DeriveStep(n) ==
  LET own == SecretShare[n]
      received == ReceivedShares[n]
  IN \/ /\ CountReceived(n, received) \/ CountOwn(n, own, received)
        /\ UNCHANGED <<mainVars, partyVars>>
     \/ /\ TooFew(n, own, received)
        /\ failure' = "missing shares"
        /\ pc' = "failed"
        /\ UNCHANGED <<todo, dealing, partyVars>>
     \/ /\ AddShares(n)
        /\ \E s \in SharesAdded(n, own, received) :
             privateKeyShare' = [privateKeyShare EXCEPT ![n] = s]
        /\ hasPrivateKey' = [hasPrivateKey EXCEPT ![n] = TRUE]
        /\ todo' = todo \ {n}
        /\ UNCHANGED <<pc, dealing, failure, SecretShare, ReceivedShares,
                       Commitments, sharedPublicKey>>

ComputeSharedPrivateKey(n) ==
  /\ pc = "derive"
  /\ n \in todo
  /\ DeriveStep(n)
  /\ UNCHANGED netVars

(* Mutant of CombinePublicKeys: the sum starts at the second point.         *)
CombineAllButOne ==
  /\ pc = "derive"
  /\ todo = {}
  /\ 0 \in nodes
  /\ sharedPublicKey' = [sharedPublicKey EXCEPT
                           ![0] = [n \in nodes \ {0} |-> privateKeyShare[n]]]
  /\ pc' = "keyed"
  /\ UNCHANGED <<netVars, collectVars, todo, dealing, failure, SecretShare,
                 ReceivedShares, Commitments, hasPrivateKey, privateKeyShare>>

(* Phases 3 and 4: one point per node, added up by node 0 alone.            *)
CombinePublicKeys ==
  /\ pc = "derive"
  /\ todo = {}
  /\ 0 \in nodes
  /\ sharedPublicKey' = [sharedPublicKey EXCEPT
                           ![0] = [n \in nodes |-> privateKeyShare[n]]]
  /\ pc' = "keyed"
  /\ UNCHANGED <<netVars, collectVars, todo, dealing, failure, SecretShare,
                 ReceivedShares, Commitments, hasPrivateKey, privateKeyShare>>

(* s.nodes[0] is nil.                                                       *)
CombineAtNilNode ==
  /\ pc = "derive"
  /\ todo = {}
  /\ 0 \notin nodes
  /\ panic' = "nil node"
  /\ UNCHANGED <<threshold, nodes, inflight, messageQueue, handling, closed>>
  /\ UNCHANGED <<collectVars, mainVars, partyVars>>

DKGMain ==
  \/ Join
  \/ StartDKG
  \/ \E n \in todo :
       \/ GenerateSecretShare(n) \/ BroadcastCommitments(n) \/ BroadcastShares(n)
       \/ ComputeSharedPrivateKey(n)
  \/ GenerateNoCoefficients
  \/ WakeFromDealing
  \/ CombinePublicKeys
  \/ CombineAtNilNode
-----------------------------------------------------------------------------
(* Mutant of ReceiveDKGShare: a share that is already there is kept.        *)
ReceiveFirstDKGShare ==
  /\ handling # Nil
  /\ handling.Type = "dkg_share"
  /\ ReceivedShares' = [ReceivedShares EXCEPT
       ![handling.To][handling.From] = IF @ = 0 THEN handling.Payload ELSE @]
  /\ Delivered
  /\ UNCHANGED <<collectVars, mainVars, SecretShare, Commitments,
                 hasPrivateKey, privateKeyShare, sharedPublicKey>>

(* The handler writes ReceivedShares without a lock.                        *)
ReceiveDKGShare ==
  /\ handling # Nil
  /\ handling.Type = "dkg_share"
  /\ ReceivedShares' = [ReceivedShares EXCEPT
                          ![handling.To][handling.From] = handling.Payload]
  /\ Delivered
  /\ UNCHANGED <<collectVars, mainVars, SecretShare, Commitments,
                 hasPrivateKey, privateKeyShare, sharedPublicKey>>

(* When main looks a key up or ranges over the same map at that moment, the *)
(* runtime may notice and kill the process.                                 *)
DKGMapRace ==
  /\ handling # Nil
  /\ handling.Type = "dkg_share"
  /\ pc = "derive"
  /\ current = handling.To
  /\ panic' = "concurrent map access"
  /\ UNCHANGED <<threshold, nodes, inflight, messageQueue, handling, closed>>
  /\ UNCHANGED <<collectVars, mainVars, partyVars>>

DKGHandler ==
  \/ TakeMessage /\ UNCHANGED <<collectVars, mainVars, partyVars>>
  \/ ReceiveDKGShare
  \/ DKGMapRace

DKGSenders ==
  /\ SendersWait => pc = "deal" /\ todo = {}
  /\ Sender
  /\ UNCHANGED <<collectVars, mainVars, partyVars>>

DKGNext == Alive /\ (DKGMain \/ DKGHandler \/ DKGSenders)

(* The Go scheduler runs every goroutine that can run; nobody is obliged to *)
(* call DKGPhase again.                                                     *)
DKGFairness ==
  /\ WF_dkgVars(Alive /\ DKGMain /\ pc \in {"deal", "derive"})
  /\ WF_dkgVars(Alive /\ DKGHandler)
  /\ WF_dkgVars(Alive /\ DKGSenders)

DKGSpec == DKGInit /\ [][DKGNext]_dkgVars /\ DKGFairness
-----------------------------------------------------------------------------
DKGMessages == Message({"dkg_share"}, 1 .. MaxDealings)
AnyMessage == Message(MessageTypes, Nat)

DKGPartyTypeOK ==
  /\ todo \subseteq nodes
  /\ dealing \in 0 .. MaxDealings
  /\ SecretShare \in [Ids -> 0 .. MaxDealings]
  /\ ReceivedShares \in [Ids -> Sum]
  /\ Commitments \in [Ids -> Sum]
  /\ hasPrivateKey \in [Ids -> BOOLEAN]
  /\ privateKeyShare \in [Ids -> Sum]
  /\ sharedPublicKey \in [Ids -> PublicKey \cup {Nil}]

DKGTypeOK ==
  /\ threshold \in Thresholds
  /\ nodes \subseteq Ids
  /\ inflight \subseteq DKGMessages
  /\ messageQueue \in Seq(DKGMessages)
  /\ handling \in DKGMessages \cup {Nil}
  /\ pc \in {"setup", "deal", "derive", "keyed", "failed"}
  /\ failure \in {"none", "missing shares"}
  /\ CollectTypeOK
  /\ DKGPartyTypeOK

(* DKGPhase returns a key only in the network it was built for: with a      *)
(* party missing, or an identifier beyond numParties, some node ends up     *)
(* with too few shares and the phase returns an error.  (The skip over      *)
(* unknown recipients in DKGPhase, totalShares < numParties.)               *)
OnlyFullNetworkKeyed == pc = "keyed" => nodes = Parties

(* Whatever the scheduling, a key share can miss no share but the node's    *)
(* own, as long as no identifier is beyond numParties.  (totalShares counts *)
(* the own share apart, the range is unlocked.)                             *)
OnlyOwnShareMissing ==
  nodes \subseteq Parties =>
    \A n \in nodes : hasPrivateKey[n] =>
      \A j \in nodes \ {n} : privateKeyShare[n][j] # 0

(* No node holds a share of a dealing before it holds the commitments the   *)
(* share is to be verified against.  (Direct calls of DKGReceiveCommitments *)
(* before SendMessage in the loop of phase 1.)                              *)
CommittedBeforeShared ==
  \A n \in nodes : \A j \in nodes \ {n} :
    ReceivedShares[n][j] <= Commitments[n][j]

(* The inductive invariant: what holds at every step of DKGPhase, also when *)
(* the phase runs among others in Signing.                                  *)
KeyTypeInv ==
  /\ nodes \subseteq Ids
  /\ inflight \subseteq AnyMessage
  /\ messageQueue \in Seq(AnyMessage)
  /\ handling \in AnyMessage \cup {Nil}
  /\ CollectTypeOK
  /\ DKGPartyTypeOK

(* Nodes join before anything else happens, dealings are counted from 1.    *)
SetupInv ==
  /\ pc = "setup" =>
       /\ Undelivered = {}
       /\ dealing = 0
       /\ \A n \in Ids : ~hasPrivateKey[n]
  /\ pc = "deal" => dealing # 0

(* The loop body in progress belongs to a loop over nodes, and when it gets *)
(* to sending shares the other nodes hold the commitments.                  *)
BodyInv ==
  /\ current = Nil <=> stage = "idle"
  /\ current # Nil => current \in todo
  /\ stage \in {"count", "sum"} => pc \in {"derive", "collect"}
  /\ stage \in {"init", "generate"} => pc = "nonce"
  /\ stage \in {"commit", "send"} => pc = "deal"
  /\ stage = "send" =>
       \A m \in nodes \ {current} : Commitments[m][current] = dealing

(* Shares travel from nodes to parties, behind their commitments.           *)
ShareInv ==
  \A m \in Undelivered : m.Type = "dkg_share" =>
    /\ m.From \in nodes
    /\ m.To \in Parties \cap nodes
    /\ m.Payload \in 1 .. dealing
    /\ m.To # m.From => m.Payload <= Commitments[m.To][m.From]

ReceivedInv ==
  \A n \in Ids :
    /\ SecretShare[n] # 0 => n \in Parties
    /\ \A j \in Ids :
         /\ Commitments[n][j] <= dealing
         /\ ReceivedShares[n][j] # 0 => n \in Parties /\ j \in nodes
         /\ j # n => ReceivedShares[n][j] <= Commitments[n][j]

(* What ComputeSharedPrivateKey has established so far at its node.         *)
DeriveInv ==
  pc = "derive" =>
    /\ stage = "count" => total <= Cardinality(Held(ReceivedShares[current]))
    /\ stage = "sum" =>
         /\ Complete(current, SecretShare[current], snapshot)
         /\ Held(snapshot) \subseteq Held(ReceivedShares[current])

KeyedInv ==
  /\ \A n \in Ids : hasPrivateKey[n] =>
       n \in nodes /\ Complete(n, SecretShare[n], ReceivedShares[n])
  /\ pc = "derive" => \A n \in nodes \ todo : hasPrivateKey[n]
  /\ pc = "keyed" => 0 \in nodes /\ sharedPublicKey[0] # Nil
  /\ \A n \in Ids : sharedPublicKey[n] # Nil =>
       0 \in nodes /\ \A m \in nodes : hasPrivateKey[m]

KeyInv ==
  /\ KeyTypeInv
  /\ SetupInv
  /\ BodyInv
  /\ ShareInv
  /\ ReceivedInv
  /\ DeriveInv
  /\ KeyedInv
  /\ OnlyOwnShareMissing

DKGInv == DKGTypeOK /\ KeyInv

(* What "Compute local share of shared private key = sum of all received    *)
(* shares + own share" says: every dealer's share is in the key share.      *)
KeyShareComplete ==
  \A n \in nodes : hasPrivateKey[n] =>
    \A j \in nodes : privateKeyShare[n][j] # 0

(* Every node's key share is built from the latest dealing of every node:   *)
(* a share of an earlier key generation never slips in.  (ReceivedShares    *)
(* is never cleared between calls of DKGPhase.)                             *)
KeyOfOneDealing ==
  pc = "keyed" => \A n, j \in nodes : privateKeyShare[n][j] = dealing
=============================================================================
