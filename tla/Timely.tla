------------------------------- MODULE Timely --------------------------------
(***************************************************************************)
(* What holds at every step of the threshold signing demo when the Sleeps  *)
(* cover the deliveries: the invariants behind the properties of Signing   *)
(* that are about several dealings and sessions.  Each is stated under the *)
(* timing it depends on; SendersWait, by which the senders sleep through   *)
(* the loop of sends, makes the first session safe too.                    *)
(***************************************************************************)
EXTENDS Signing

(* Outside of the phases' first loops and Sleeps nothing is on its way.     *)
QuietInv ==
  SleepCovers =>
    /\ pc \notin {"deal", "nonce"} => Undelivered = {}
    /\ pc = "nonce" => \A m \in Undelivered : m.Type = "sign_nonce"
    /\ pc = "deal" => \A m \in Undelivered : m.Type = "dkg_share"

(* Before ComputeSharedPrivateKey first gets to a node it has no key share. *)
FirstKeyInv ==
  /\ pc = "derive" => dealing # 0
  /\ dealing = 0 \/ (dealing = 1 /\ pc = "deal") => \A n \in Ids : ~hasPrivateKey[n]
  /\ dealing = 1 /\ pc = "derive" => \A n \in todo : ~hasPrivateKey[n]

(* Nothing is written to the maps while ComputeSharedPrivateKey reads them. *)
DeriveExactInv ==
  SleepCovers /\ pc = "derive" =>
    /\ stage = "count" => total = Cardinality(Held(ReceivedShares[current]))
    /\ stage = "sum" => snapshot = ReceivedShares[current]

(* Between two calls of DKGPhase the public key is that of the key shares,  *)
(* and it is there when they all are.                                       *)
PublicKeyInv ==
  pc # "derive" /\ 0 \in nodes =>
    /\ sharedPublicKey[0] # Nil =>
         sharedPublicKey[0] = [n \in nodes |-> privateKeyShare[n]]
    /\ (\A n \in nodes : hasPrivateKey[n]) => sharedPublicKey[0] # Nil

VerifyInv ==
  /\ SigningInv
  /\ QuietInv
  /\ FirstKeyInv
  /\ DeriveExactInv
  /\ PublicKeyInv
  /\ SignatureVerifies
-----------------------------------------------------------------------------
DealtMessage(j, n) ==
  [Type |-> "dkg_share", From |-> j, To |-> n, Payload |-> dealing]

(* A share of the latest dealing is on its way until it is received.        *)
LatestInv ==
  SleepCovers =>
    /\ pc = "deal" =>
         /\ \A m \in Undelivered : m.Payload = dealing
         /\ \A j \in nodes \ todo, n \in nodes \cap Parties :
              ReceivedShares[n][j] = dealing \/ DealtMessage(j, n) \in Undelivered
    /\ pc = "derive" =>
         /\ \A n \in nodes \cap Parties, j \in nodes : ReceivedShares[n][j] = dealing
         /\ \A n \in nodes \ todo, j \in nodes : privateKeyShare[n][j] = dealing
    /\ KeyOfOneDealing

(* The public key is made of the shares of one dealing, which is over.      *)
OneRound(key, r) == \A n, j \in nodes : key[n][j] = r

KeyRoundInv ==
  SleepCovers /\ 0 \in nodes /\ sharedPublicKey[0] # Nil =>
    \E r \in 1 .. dealing :
      /\ pc \in {"deal", "derive"} => r < dealing
      /\ OneRound(sharedPublicKey[0], r)

(* The channel is closed at the end only.                                   *)
ClosedInv == closed => pc \in {"stopped", "exited"}

LatestKeyInv == VerifyInv /\ ClosedInv /\ LatestInv /\ KeyRoundInv
-----------------------------------------------------------------------------
LastSigner(n) == signers[n][Len(signers[n])]

(* After the first session every node has its NodeSigning object.           *)
SessionInv ==
  /\ session # 0 /\ ~BadThreshold => AllSign \/ (session = 1 /\ pc = "nonce")
  /\ KeyFirst /\ session # 0 => Keyed
  /\ \A n \in Ids : \A i \in 1 .. Len(signers[n]) :
       /\ signers[n][i].NonceShare <= session
       /\ \A j \in Ids : signers[n][i].ReceivedNonces[j] <= session

(* Main and the handler do not both create an object from the second        *)
(* session on, or when the senders sleep through the loop of sends.         *)
NoRace == SleepCovers /\ (SendersWait \/ session > 1)

NoRaceInv ==
  /\ SleepCovers /\ SendersWait /\ pc \in {"deal", "nonce"} /\ todo # {} =>
       messageQueue = <<>> /\ handling = Nil
  /\ NoRace => receiving = "dispatch" /\ \A n \in Ids : MainInits(n) => NoSigner(n)

NonceMessage(j, n) ==
  [Type |-> "sign_nonce", From |-> j, To |-> n, Payload |-> session]

(* The nonce share of j is on its way to n, or n.signer holds it.           *)
Reaches(j, n) ==
  \/ ~NoSigner(n) /\ LastSigner(n).ReceivedNonces[j] = session
  \/ NonceMessage(j, n) \in Undelivered

(* Then a nonce share is on its way until n.signer holds it.                *)
DeliveredInv ==
  /\ SleepCovers /\ pc = "nonce" => \A m \in Undelivered : m.Payload = session
  /\ NoRace /\ pc = "nonce" =>
       \A j \in nodes \ todo, n \in nodes \cap Parties : Reaches(j, n)
  /\ NoRace /\ pc = "collect" =>
       \A n \in nodes \cap Parties, j \in nodes :
         LastSigner(n).ReceivedNonces[j] = session

(* Nothing is written to the maps while ComputeSharedNonce reads them.      *)
CollectExactInv ==
  /\ pc = "nonce" => nonceShares = <<>>
  /\ SleepCovers /\ pc = "collect" =>
       /\ stage # "idle" => held = Len(signers[current])
       /\ stage = "count" =>
            total = Cardinality(Held(LastSigner(current).ReceivedNonces))
       /\ stage = "sum" => snapshot = LastSigner(current).ReceivedNonces
       /\ \A i \in 1 .. Len(nonceShares) : \A j \in nodes :
            nonceShares[i].sum[j] = session

(* The signature of an earlier session is forgotten.                        *)
UnansweredInv == pc \in {"nonce", "collect"} => signature = Nil

RetryInv ==
  /\ LatestKeyInv
  /\ SessionInv
  /\ NoRaceInv
  /\ DeliveredInv
  /\ CollectExactInv
  /\ UnansweredInv
  /\ NonceOfOneSession
  /\ KeyFirst => OnlyFirstSessionFails
-----------------------------------------------------------------------------
(* What main relies on when it treats every error as fatal: its network,    *)
(* its threshold, its order of the phases and its Sleeps.                   *)
AsInMain ==
  /\ SleepCovers
  /\ SendersWait
  /\ KeyFirst
  /\ Networks \subseteq {Parties}
  /\ Thresholds \subseteq 2 .. NumParties

FullNetworkInv == pc # "setup" => nodes = Parties

DemoInv ==
  /\ RetryInv
  /\ FullNetworkInv
  /\ ThresholdInv
  /\ TimelyDemoSucceeds
=============================================================================
