------------------------------ MODULE DKGProofs ------------------------------
(***************************************************************************)
(* Proofs about distributed key generation, for any number of parties, any *)
(* network, any thresholds, any queue capacity, any number of dealings and *)
(* any timing.  The lemmas about DKG's actions are stated for KeyInv, so   *)
(* that they serve the specification of Signing as well.                   *)
(***************************************************************************)
EXTENDS DKG, SimulatorProofs

(* What ComputeSharedPrivateKey and ComputeSharedNonce establish, whatever  *)
(* the handler writes to their map meanwhile.                               *)
LEMMA HeldIds ==
  ASSUME NEW received
  PROVE  Held(received) \subseteq Ids
BY DEF Held

(* A count that is too low by the shares that came after it still proves    *)
(* that enough dealers are there.                                           *)
LEMMA EnoughIsComplete ==
  ASSUME NEW received \in Sum, NEW n \in Ids, NEW own, total \in Nat,
         total <= Cardinality(Held(received)), Enough(n, own, received)
  PROVE  Complete(n, own, received)
<1> DEFINE H == Held(received)
           D == H \cup (IF own # 0 THEN {n} ELSE {})
<1>1. /\ IsFiniteSet(H) /\ Cardinality(H) \in Nat
      /\ IsFiniteSet(D) /\ Cardinality(D) \in Nat
  BY HeldIds, FiniteIds
<1>2. Cardinality(H) <= Cardinality(D)
  BY <1>1, FS_Subset
<1>3. NumParties \in Nat
  BY SizeAssumption
<1>4. CASE OwnApart(n, own, received)
  <2>1. n \notin H /\ D = H \cup {n}
    BY <1>4 DEF OwnApart, Held
  <2>2. Cardinality(D) = Cardinality(H) + 1
    BY <1>1, <2>1, FS_AddElement
  <2>3. total + 1 >= NumParties
    BY <1>4 DEF Enough
  <2> QED
    BY <1>1, <1>3, <2>2, <2>3 DEF Complete
<1>5. CASE ~OwnApart(n, own, received)
  <2>1. total + 0 >= NumParties
    BY <1>5 DEF Enough
  <2> QED
    BY <1>1, <1>2, <1>3, <2>1 DEF Complete
<1> QED
  BY <1>4, <1>5

(* More shares never make a complete collection incomplete.                 *)
LEMMA CompleteGrows ==
  ASSUME NEW received, NEW later, NEW n \in Ids, NEW own, NEW ownLater,
         Held(received) \subseteq Held(later), own # 0 => ownLater # 0,
         Complete(n, own, received)
  PROVE  Complete(n, ownLater, later)
<1> DEFINE D == Held(received) \cup (IF own # 0 THEN {n} ELSE {})
           E == Held(later) \cup (IF ownLater # 0 THEN {n} ELSE {})
<1>1. /\ IsFiniteSet(E) /\ Cardinality(E) \in Nat
      /\ Cardinality(D) \in Nat
  BY HeldIds, FiniteIds
<1>2. Cardinality(D) <= Cardinality(E)
  BY <1>1, FS_Subset
<1>3. Cardinality(D) >= NumParties
  BY DEF Complete
<1> QED
  BY <1>1, <1>2, <1>3, SizeAssumption DEF Complete

(* Only a party that got something, or kept its own share, is complete.     *)
LEMMA CompleteIsParty ==
  ASSUME NEW received, NEW n \in Ids, NEW own, Complete(n, own, received),
         own # 0 => n \in Parties,
         \A j \in Held(received) : n \in Parties
  PROVE  n \in Parties
<1>1. Held(received) \cup (IF own # 0 THEN {n} ELSE {}) # {}
  <2>1. Cardinality({}) = 0
    BY FS_EmptySet
  <2> QED
    BY <2>1, SizeAssumption DEF Complete
<1> QED
  BY <1>1

(* In a network of parties, a complete collection comes from all of them.   *)
LEMMA CompleteHasAll ==
  ASSUME NEW received, NEW n \in nodes, NEW own, Complete(n, own, received),
         nodes \subseteq Parties, Held(received) \subseteq nodes
  PROVE  /\ nodes = Parties
         /\ nodes \ {n} \subseteq Held(received)
         /\ own = 0 => Held(received) = nodes
<1> DEFINE D == Held(received) \cup (IF own # 0 THEN {n} ELSE {})
<1>1. D \subseteq Parties /\ D \subseteq nodes /\ Cardinality(D) >= NumParties
  BY DEF Complete
<1>2. D = Parties
  BY <1>1, EnoughAreAll
<1> QED
  BY <1>1, <1>2

(* What a sum contains: the shares that were there when the range over the  *)
(* map began, or came meanwhile, and the own share if it was kept apart.    *)
LEMMA SharesInSum ==
  ASSUME NEW received \in Sum, NEW n \in Ids, NEW own \in 0 .. MaxRounds,
         snapshot \in Sum, NEW s \in SharesAdded(n, own, received)
  PROVE  /\ s \in Sum
         /\ \A j \in Ids \ {n} : s[j] = snapshot[j] \/ s[j] = received[j]
         /\ \/ s[n] = snapshot[n] \/ s[n] = received[n]
            \/ s[n] = own /\ OwnApart(n, own, received)
         /\ OwnApart(n, own, received) => s[n] = own
<1>1. PICK r \in Ranged(received) :
        s = IF OwnApart(n, own, received) THEN [r EXCEPT ![n] = own] ELSE r
  BY DEF SharesAdded
<1>2. /\ r \in Sum
      /\ \A j \in Ids : r[j] = snapshot[j] \/ r[j] = received[j]
  <2>1. PICK late \in SUBSET {j \in Ids : received[j] # snapshot[j]} :
          r = [j \in Ids |-> IF j \in late THEN received[j] ELSE snapshot[j]]
    BY <1>1 DEF Ranged
  <2> QED
    BY <2>1 DEF Sum
<1>3. CASE OwnApart(n, own, received)
  BY <1>1, <1>2, <1>3 DEF Sum
<1>4. CASE ~OwnApart(n, own, received)
  BY <1>1, <1>2, <1>4 DEF Sum
<1> QED
  BY <1>3, <1>4

(* When nothing is written to the map, it has exactly one sum.              *)
LEMMA OneSum ==
  ASSUME NEW received \in Sum, NEW n \in Ids, NEW own, snapshot = received,
         NEW s \in SharesAdded(n, own, received)
  PROVE  s = IF OwnApart(n, own, received) THEN [received EXCEPT ![n] = own]
                                           ELSE received
<1>1. Ranged(received) = {received}
  <2>1. {j \in Ids : received[j] # snapshot[j]} = {}
    OBVIOUS
  <2>2. [j \in Ids |-> IF j \in {} THEN received[j] ELSE snapshot[j]] = received
    BY DEF Sum
  <2>3. SUBSET {} = {{}}
    OBVIOUS
  <2> QED
    BY <2>1, <2>2, <2>3 DEF Ranged
<1> QED
  BY <1>1 DEF SharesAdded

(* With a share of every party there is no error return.                    *)
LEMMA AllAreEnough ==
  ASSUME NEW received, NEW n, NEW own, Parties \subseteq Held(received),
         total = Cardinality(Held(received))
  PROVE  Enough(n, own, received)
<1>1. /\ IsFiniteSet(Held(received)) /\ Cardinality(Held(received)) \in Nat
  BY HeldIds, FiniteIds
<1>2. NumParties <= Cardinality(Held(received))
  BY <1>1, CountParties, FS_Subset
<1> QED
  BY <1>1, <1>2, SizeAssumption DEF Enough
-----------------------------------------------------------------------------
(* Key generation.                                                          *)
LEMMA Bounds ==
  /\ MaxDealings \in Nat /\ MaxRounds \in Nat /\ MaxDealings <= MaxRounds
  /\ NumParties \in Nat /\ NumParties > 0
  /\ Nil \notin Ids /\ Nil \notin AnyMessage
BY DKGAssumption, SizeAssumption, NilAssumption DEF AnyMessage

LEMMA NothingCollected == NoShares \in Sum /\ 0 \in 0 .. Cardinality(Ids)
BY Bounds, FiniteIds DEF NoShares, Sum

(* The dealings are counted in natural numbers.                             *)
LEMMA DealingTyped == KeyInv => dealing \in Nat
BY Bounds DEF KeyInv, KeyTypeInv, DKGPartyTypeOK

LEMMA InitKeyInv == DKGInit => DKGInv
<1> SUFFICES ASSUME DKGInit PROVE DKGInv
  OBVIOUS
<1> USE Bounds DEF DKGInit, NetInit, CollectInit
<1>1. NoShares \in Sum /\ \A n \in Ids : NoShares[n] = 0
  BY DEF NoShares, Sum
<1>2. CollectTypeOK
  <2>1. Cardinality(Ids) \in Nat
    BY FiniteIds
  <2> QED
    BY <1>1, <2>1 DEF CollectTypeOK
<1>3. DKGPartyTypeOK
  BY <1>1 DEF DKGPartyTypeOK
<1>4. messageQueue \in Seq(AnyMessage) /\ messageQueue \in Seq(DKGMessages)
  BY EmptySeq
<1>5. DKGTypeOK /\ KeyTypeInv
  BY <1>2, <1>3, <1>4 DEF DKGTypeOK, KeyTypeInv
<1>6. Undelivered = {}
  BY <1>4, QuiescentIsUndelivered DEF Quiescent
<1>7. SetupInv /\ BodyInv /\ ShareInv
  BY <1>6 DEF SetupInv, BodyInv, ShareInv
<1>8. ReceivedInv
  BY <1>1 DEF ReceivedInv
<1>9. DeriveInv /\ KeyedInv /\ OnlyOwnShareMissing
  BY DEF DeriveInv, KeyedInv, OnlyOwnShareMissing
<1> QED
  BY <1>5, <1>7, <1>8, <1>9 DEF DKGInv, KeyInv
-----------------------------------------------------------------------------
LEMMA KeySharesTyped == KeyInv => [n \in nodes |-> privateKeyShare[n]] \in PublicKey
BY DEF KeyInv, KeyTypeInv, DKGPartyTypeOK, PublicKey

(* Between the loops no loop body is in progress.                           *)
LEMMA NoBody ==
  ASSUME KeyInv, pc \notin {"deal", "nonce", "derive", "collect"}
  PROVE  current = Nil /\ stage = "idle"
BY DEF KeyInv, KeyTypeInv, CollectTypeOK, BodyInv

(* A step that leaves the nodes' fields alone keeps the invariant if it     *)
(* adds no share of a dealing and does not enter or take part in phase 2.   *)
LEMMA KeyInvFrame ==
  ASSUME KeyInv, KeyTypeInv', BodyInv',
         UNCHANGED <<nodes, partyVars>>,
         dealing' = dealing \/ dealing' = dealing + 1,
         \A m \in Undelivered' : m.Type = "dkg_share" => m \in Undelivered,
         pc' = "setup" => pc = "setup" /\ Undelivered' \subseteq Undelivered
                                       /\ dealing' = dealing,
         pc' = "deal" => dealing' # 0,
         pc' = "derive" => pc = "derive" /\ UNCHANGED <<collectVars, todo>>,
         pc' = "keyed" => pc = "keyed"
  PROVE  KeyInv'
<1> USE DEF KeyInv, partyVars, collectVars
<1>1. SetupInv'
  BY DEF SetupInv
<1>2. dealing \in Nat /\ dealing' \in Nat
  BY Bounds DEF KeyTypeInv, DKGPartyTypeOK
<1>3. ShareInv'
  <2> SUFFICES ASSUME NEW m \in Undelivered', m.Type = "dkg_share"
               PROVE  /\ m.From \in nodes
                      /\ m.To \in Parties \cap nodes
                      /\ m.Payload \in 1 .. dealing'
                      /\ m.To # m.From => m.Payload <= Commitments[m.To][m.From]
    BY DEF ShareInv
  <2>1. m \in Undelivered
    OBVIOUS
  <2>2. m.Payload \in 1 .. dealing
    BY <2>1 DEF ShareInv
  <2> QED
    BY <1>2, <2>1, <2>2 DEF ShareInv
<1>4. ReceivedInv'
  <2>1. \A n, j \in Ids : Commitments[n][j] \in Nat
    BY Bounds DEF KeyTypeInv, DKGPartyTypeOK, Sum
  <2> QED
    BY <1>2, <2>1 DEF ReceivedInv
<1>5. DeriveInv'
  BY DEF DeriveInv, Complete, Held
<1>6. KeyedInv'
  BY DEF KeyedInv, Complete, Held
<1>7. OnlyOwnShareMissing'
  BY DEF OnlyOwnShareMissing
<1> QED
  BY <1>1, <1>3, <1>4, <1>5, <1>6, <1>7
-----------------------------------------------------------------------------
LEMMA JoinKeyInv ==
  ASSUME KeyInv, Join
  PROVE  KeyInv'
<1> USE DEF Join, collectVars, mainVars, partyVars
<1>1. PICK id \in Ids : AddNode(id)
  OBVIOUS
<1> USE <1>1 DEF AddNode
<1>2. KeyTypeInv'
  BY DEF KeyInv, KeyTypeInv, CollectTypeOK, DKGPartyTypeOK
<1>3. Undelivered' = Undelivered /\ Undelivered = {}
  BY NetworkStays DEF KeyInv, SetupInv
<1>4. SetupInv' /\ BodyInv' /\ ShareInv'
  BY <1>3 DEF KeyInv, SetupInv, BodyInv, ShareInv
<1>5. ReceivedInv'
  BY DEF KeyInv, ReceivedInv
<1>6. /\ \A n \in Ids : ~hasPrivateKey[n] /\ sharedPublicKey[n] = Nil
      /\ nodes' \subseteq Ids
  BY <1>2 DEF KeyInv, KeyTypeInv, SetupInv, KeyedInv
<1>7. DeriveInv' /\ KeyedInv'
  BY <1>6 DEF DeriveInv, KeyedInv
<1>8. OnlyOwnShareMissing'
  BY <1>6 DEF OnlyOwnShareMissing
<1> QED
  BY <1>2, <1>4, <1>5, <1>7, <1>8 DEF KeyInv
LEMMA StartDKGKeyInv ==
  ASSUME KeyInv, StartDKG
  PROVE  KeyInv'
<1> USE DEF StartDKG, Idle, netVars, collectVars, partyVars
<1>1. current = Nil /\ stage = "idle"
  BY NoBody
<1>2. dealing \in Nat /\ dealing' \in 0 .. MaxDealings
  BY Bounds DEF KeyInv, KeyTypeInv, DKGPartyTypeOK
<1>3. KeyTypeInv'
  BY <1>2 DEF KeyInv, KeyTypeInv, CollectTypeOK, DKGPartyTypeOK
<1>4. BodyInv'
  BY <1>1 DEF BodyInv
<1>5. Undelivered' = Undelivered
  BY NetworkStays
<1>6. dealing' # 0
  BY <1>2
<1> QED
  BY <1>3, <1>4, <1>5, <1>6, KeyInvFrame

(* A turn of the loop of phase 1: the own share, the commitments, and then  *)
(* the shares.                                                              *)
LEMMA GenerateKeyInv ==
  ASSUME KeyInv, NEW n \in todo, GenerateSecretShare(n)
  PROVE  KeyInv'
<1> USE DEF GenerateSecretShare, netVars, mainVars
<1>1. /\ n \in nodes /\ n \in Ids /\ n \in Nat /\ n # Nil
      /\ dealing \in 0 .. MaxDealings
  BY IdsAssumption, NilAssumption DEF KeyInv, KeyTypeInv, DKGPartyTypeOK
<1>2. KeyTypeInv'
  <2>1. SecretShare' \in [Ids -> 0 .. MaxDealings]
    BY <1>1 DEF KeyInv, KeyTypeInv, DKGPartyTypeOK
  <2>2. DKGPartyTypeOK'
    BY <2>1 DEF KeyInv, KeyTypeInv, DKGPartyTypeOK
  <2>3. CollectTypeOK'
    BY <1>1 DEF KeyInv, KeyTypeInv, CollectTypeOK
  <2> QED
    BY <2>2, <2>3 DEF KeyInv, KeyTypeInv
<1>3. SetupInv' /\ BodyInv'
  BY <1>1 DEF KeyInv, SetupInv, BodyInv
<1>4. Undelivered' = Undelivered
  BY NetworkStays
<1>5. ShareInv'
  BY <1>4 DEF KeyInv, ShareInv
<1>6. ReceivedInv'
  <2>1. NumParties > n => n \in Parties
    BY <1>1, Bounds DEF Parties
  <2>2. \A i \in Ids : SecretShare'[i] # SecretShare[i] => i = n /\ NumParties > n
    BY <1>1 DEF KeyInv, KeyTypeInv, DKGPartyTypeOK
  <2>3. \A i \in Ids : SecretShare'[i] # 0 => i \in Parties
    BY <2>1, <2>2 DEF KeyInv, ReceivedInv
  <2> QED
    BY <2>3 DEF KeyInv, ReceivedInv
<1>7. DeriveInv' /\ KeyedInv' /\ OnlyOwnShareMissing'
  <2>1. dealing # 0
    BY DEF KeyInv, SetupInv
  <2>2. \A i \in Ids : SecretShare[i] # 0 => SecretShare'[i] # 0
    BY <1>1, <2>1 DEF KeyInv, KeyTypeInv, DKGPartyTypeOK
  <2>3. \A i \in Ids : Complete(i, SecretShare[i], ReceivedShares[i]) =>
                        Complete(i, SecretShare'[i], ReceivedShares[i])
    BY <2>2, CompleteGrows
  <2> QED
    BY <2>3 DEF KeyInv, DeriveInv, KeyedInv, OnlyOwnShareMissing
<1> QED
  BY <1>2, <1>3, <1>5, <1>6, <1>7 DEF KeyInv

LEMMA CommitKeyInv ==
  ASSUME KeyInv, NEW n \in todo, BroadcastCommitments(n)
  PROVE  KeyInv'
<1> USE DEF BroadcastCommitments, netVars, mainVars
<1>1. /\ n \in nodes /\ n \in Ids /\ n # Nil
      /\ dealing \in 0 .. MaxRounds /\ dealing \in Nat
  BY NilAssumption, Bounds DEF KeyInv, KeyTypeInv, DKGPartyTypeOK
<1>2. \A m, j \in Ids :
        Commitments'[m][j] = IF m \in nodes \ {n} /\ j = n THEN dealing
                                                        ELSE Commitments[m][j]
  BY <1>1 DEF KeyInv, KeyTypeInv, DKGPartyTypeOK, Sum
<1>3. KeyTypeInv'
  <2>1. Commitments \in [Ids -> Sum]
    BY DEF KeyInv, KeyTypeInv, DKGPartyTypeOK
  <2>2. \A m \in Ids : [Commitments[m] EXCEPT ![n] = dealing] \in Sum
    BY <1>1, <2>1 DEF Sum
  <2>3. Commitments' \in [Ids -> Sum]
    BY <2>1, <2>2
  <2>4. CollectTypeOK' /\ DKGPartyTypeOK'
    BY <2>3 DEF KeyInv, KeyTypeInv, CollectTypeOK, DKGPartyTypeOK
  <2> QED
    BY <2>4 DEF KeyInv, KeyTypeInv
<1>4. SetupInv'
  BY DEF KeyInv, SetupInv
<1>5. BodyInv'
  <2>1. \A m \in nodes \ {n} : Commitments'[m][n] = dealing
    <3> HIDE DEF BroadcastCommitments
    <3>1. nodes \subseteq Ids
      BY DEF KeyInv, KeyTypeInv
    <3> QED
      BY <1>1, <1>2, <3>1
  <2> QED
    BY <1>1, <2>1 DEF KeyInv, BodyInv
<1>6. Undelivered' = Undelivered
  BY NetworkStays
<1>7. \A m, j \in Ids :
        /\ Commitments[m][j] \in Nat /\ Commitments[m][j] <= dealing
        /\ Commitments'[m][j] = dealing \/ Commitments'[m][j] = Commitments[m][j]
  BY <1>2, Bounds DEF KeyInv, KeyTypeInv, DKGPartyTypeOK, ReceivedInv, Sum
<1>8. ShareInv'
  <2> SUFFICES ASSUME NEW m \in Undelivered, m.Type = "dkg_share"
               PROVE  /\ m.From \in nodes
                      /\ m.To \in Parties \cap nodes
                      /\ m.Payload \in 1 .. dealing
                      /\ m.To # m.From => m.Payload <= Commitments'[m.To][m.From]
    BY <1>6 DEF ShareInv
  <2>1. /\ m.From \in nodes
        /\ m.To \in Parties \cap nodes
        /\ m.Payload \in 1 .. dealing
        /\ m.To # m.From => m.Payload <= Commitments[m.To][m.From]
    BY DEF KeyInv, ShareInv
  <2>2. m.To \in Ids /\ m.From \in Ids
    BY <2>1 DEF KeyInv, KeyTypeInv
  <2>3. m.Payload <= dealing
    BY <1>1, <2>1
  <2> QED
    BY <1>7, <2>1, <2>2, <2>3
<1>9. ReceivedInv'
  <2> SUFFICES ASSUME NEW i \in Ids, NEW j \in Ids
               PROVE  /\ Commitments'[i][j] <= dealing
                      /\ ReceivedShares[i][j] # 0 => i \in Parties /\ j \in nodes
                      /\ j # i => ReceivedShares[i][j] <= Commitments'[i][j]
    BY DEF KeyInv, ReceivedInv
  <2>1. /\ Commitments[i][j] <= dealing
        /\ ReceivedShares[i][j] # 0 => i \in Parties /\ j \in nodes
        /\ j # i => ReceivedShares[i][j] <= Commitments[i][j]
    BY DEF KeyInv, ReceivedInv
  <2>2. ReceivedShares[i][j] \in Nat /\ Commitments[i][j] \in Nat
    BY Bounds DEF KeyInv, KeyTypeInv, DKGPartyTypeOK, Sum
  <2> QED
    BY <1>1, <1>7, <2>1, <2>2
<1>10. DeriveInv' /\ KeyedInv' /\ OnlyOwnShareMissing'
  BY DEF KeyInv, DeriveInv, KeyedInv, OnlyOwnShareMissing, Complete, Held
<1> QED
  BY <1>3, <1>4, <1>5, <1>8, <1>9, <1>10 DEF KeyInv

LEMMA BroadcastKeyInv ==
  ASSUME KeyInv, NEW n \in todo, BroadcastShares(n)
  PROVE  KeyInv'
<1> USE DEF BroadcastShares, SendMessages, LeaveBody, partyVars
<1>1. /\ n \in nodes /\ n \in Ids /\ nodes \subseteq Ids
      /\ dealing \in 0 .. MaxDealings /\ dealing # 0
  BY DEF KeyInv, KeyTypeInv, DKGPartyTypeOK, SetupInv
<1>2. \A m \in SharesOf("dkg_share", n, dealing) :
        /\ m \in AnyMessage
        /\ m.Type = "dkg_share" /\ m.From = n /\ m.Payload = dealing
        /\ m.To \in Parties \cap nodes
  <2> SUFFICES ASSUME NEW i \in Parties \cap nodes
               PROVE  [Type |-> "dkg_share", From |-> n, To |-> i, Payload |-> dealing]
                        \in AnyMessage
    BY DEF SharesOf
  <2>1. i \in Ids
    BY <1>1
  <2> QED
    BY <1>1, <2>1, Bounds DEF AnyMessage, Message, MessageTypes
<1>3. KeyTypeInv'
  <2>1. inflight' \subseteq AnyMessage
    BY <1>2 DEF KeyInv, KeyTypeInv
  <2>2. CollectTypeOK' /\ DKGPartyTypeOK'
    BY NothingCollected DEF KeyInv, KeyTypeInv, CollectTypeOK, DKGPartyTypeOK
  <2> QED
    BY <2>1, <2>2 DEF KeyInv, KeyTypeInv
<1>4. SetupInv' /\ BodyInv'
  BY DEF KeyInv, SetupInv, BodyInv
<1>5. Undelivered' = Undelivered \cup SharesOf("dkg_share", n, dealing)
  BY SendingUndelivered DEF SendMessages
<1>6. ShareInv'
  <2> SUFFICES ASSUME NEW m \in Undelivered', m.Type = "dkg_share"
               PROVE  /\ m.From \in nodes
                      /\ m.To \in Parties \cap nodes
                      /\ m.Payload \in 1 .. dealing
                      /\ m.To # m.From => m.Payload <= Commitments[m.To][m.From]
    BY DEF ShareInv
  <2>1. CASE m \in SharesOf("dkg_share", n, dealing)
    <3>1. m.From = n /\ m.Payload = dealing /\ m.To \in Parties \cap nodes
      BY <1>2, <2>1
    <3>2. m.To # n => Commitments[m.To][n] = dealing
      BY <3>1 DEF KeyInv, BodyInv
    <3>3. dealing \in 1 .. dealing
      BY <1>1, Bounds
    <3> QED
      BY <1>1, <3>1, <3>2, <3>3
  <2>2. CASE m \in Undelivered
    BY <2>2 DEF KeyInv, ShareInv
  <2> QED
    BY <1>5, <2>1, <2>2
<1>7. ReceivedInv'
  BY DEF KeyInv, ReceivedInv
<1>8. DeriveInv' /\ KeyedInv' /\ OnlyOwnShareMissing'
  BY DEF KeyInv, DeriveInv, KeyedInv, OnlyOwnShareMissing, Complete, Held
<1> QED
  BY <1>3, <1>4, <1>6, <1>7, <1>8 DEF KeyInv

LEMMA WakeFromDealingKeyInv ==
  ASSUME KeyInv, WakeFromDealing
  PROVE  KeyInv'
<1> USE DEF WakeFromDealing, netVars, collectVars, partyVars
<1>1. current = Nil /\ stage = "idle"
  BY DEF KeyInv, BodyInv
<1>2. KeyTypeInv'
  BY DEF KeyInv, KeyTypeInv, CollectTypeOK, DKGPartyTypeOK
<1>3. SetupInv' /\ BodyInv' /\ DeriveInv'
  BY <1>1 DEF SetupInv, BodyInv, DeriveInv
<1>4. Undelivered' = Undelivered
  BY NetworkStays
<1>5. ShareInv' /\ ReceivedInv'
  BY <1>4 DEF KeyInv, ShareInv, ReceivedInv
<1>6. KeyedInv' /\ OnlyOwnShareMissing'
  BY DEF KeyInv, KeyedInv, OnlyOwnShareMissing
<1> QED
  BY <1>2, <1>3, <1>5, <1>6 DEF KeyInv

(* Phase 2 at one node: what was counted keeps being true, and a key share  *)
(* is made only of a complete collection.                                   *)
LEMMA ComputeKeyInv ==
  ASSUME KeyInv, NEW n \in todo, ComputeSharedPrivateKey(n)
  PROVE  KeyInv'
<1> USE DEF ComputeSharedPrivateKey, netVars
<1> DEFINE own == SecretShare[n]
           received == ReceivedShares[n]
<1>1. /\ n \in Ids /\ n \in nodes /\ n # Nil
      /\ own \in 0 .. MaxRounds /\ received \in Sum /\ snapshot \in Sum
      /\ total \in Nat
      /\ Held(received) \subseteq nodes
  <2>1. /\ n \in Ids /\ n \in nodes /\ n # Nil
        /\ own \in 0 .. MaxRounds /\ received \in Sum /\ snapshot \in Sum
    BY Bounds DEF KeyInv, KeyTypeInv, DKGPartyTypeOK, CollectTypeOK
  <2>2. total \in Nat
    BY FiniteIds DEF KeyInv, KeyTypeInv, CollectTypeOK
  <2>3. Held(received) \subseteq nodes
    BY <2>1 DEF KeyInv, ReceivedInv, Held
  <2> QED
    BY <2>1, <2>2, <2>3
<1>2. Undelivered' = Undelivered
  BY NetworkStays
<1>3. dealing \in Nat
  BY DealingTyped
<1>4. CASE CountReceived(n, received) /\ UNCHANGED <<mainVars, partyVars>>
  <2> USE <1>4 DEF CountReceived, mainVars, partyVars
  <2>1. KeyTypeInv'
    <3>1. total' \in 0 .. Cardinality(Ids)
      BY CountBound, HeldIds
    <3>2. CollectTypeOK'
      BY <1>1, <3>1 DEF KeyInv, KeyTypeInv, CollectTypeOK
    <3> QED
      BY <3>2 DEF KeyInv, KeyTypeInv, DKGPartyTypeOK
  <2>2. BodyInv' /\ SetupInv'
    BY <1>1 DEF KeyInv, BodyInv, SetupInv
  <2>3. ShareInv' /\ ReceivedInv' /\ KeyedInv' /\ OnlyOwnShareMissing'
    BY <1>2 DEF KeyInv, ShareInv, ReceivedInv, KeyedInv, OnlyOwnShareMissing
  <2>4. DeriveInv'
    BY <1>1, HeldIds, FiniteIds DEF DeriveInv, Held
  <2> QED
    BY <2>1, <2>2, <2>3, <2>4 DEF KeyInv
<1>5. CASE CountOwn(n, own, received) /\ UNCHANGED <<mainVars, partyVars>>
  <2> USE <1>5 DEF CountOwn, mainVars, partyVars
  <2>1. KeyTypeInv'
    BY <1>1 DEF KeyInv, KeyTypeInv, CollectTypeOK, DKGPartyTypeOK
  <2>2. BodyInv' /\ SetupInv'
    BY <1>1 DEF KeyInv, BodyInv, SetupInv
  <2>3. ShareInv' /\ ReceivedInv' /\ KeyedInv' /\ OnlyOwnShareMissing'
    BY <1>2 DEF KeyInv, ShareInv, ReceivedInv, KeyedInv, OnlyOwnShareMissing
  <2>4. total <= Cardinality(Held(received))
    BY DEF KeyInv, DeriveInv
  <2>5. Complete(n, own, received)
    BY <1>1, <2>4, EnoughIsComplete
  <2>6. DeriveInv'
    BY <2>5 DEF DeriveInv, Complete, Held
  <2> QED
    BY <2>1, <2>2, <2>3, <2>6 DEF KeyInv
<1>6. CASE /\ TooFew(n, own, received)
           /\ failure' = "missing shares"
           /\ pc' = "failed"
           /\ UNCHANGED <<todo, dealing, partyVars>>
  <2> USE <1>6 DEF TooFew, LeaveBody
  <2>2. KeyTypeInv'
    BY NothingCollected DEF KeyInv, KeyTypeInv, CollectTypeOK, DKGPartyTypeOK, partyVars
  <2>3. BodyInv'
    BY DEF BodyInv
  <2>4. UNCHANGED <<nodes, partyVars>> /\ dealing' = dealing /\ pc' = "failed"
    OBVIOUS
  <2> QED
    BY <1>2, <2>2, <2>3, <2>4, KeyInvFrame
<1>7. CASE /\ AddShares(n)
           /\ \E s \in SharesAdded(n, own, received) :
                privateKeyShare' = [privateKeyShare EXCEPT ![n] = s]
           /\ hasPrivateKey' = [hasPrivateKey EXCEPT ![n] = TRUE]
           /\ todo' = todo \ {n}
           /\ UNCHANGED <<pc, dealing, failure, SecretShare, ReceivedShares,
                          Commitments, sharedPublicKey>>
  <2> USE <1>7 DEF AddShares, LeaveBody
  <2>1. PICK s \in SharesAdded(n, own, received) :
          privateKeyShare' = [privateKeyShare EXCEPT ![n] = s]
    OBVIOUS
  <2>2. /\ s \in Sum
        /\ \A j \in Ids \ {n} : s[j] = snapshot[j] \/ s[j] = received[j]
    BY <1>1, SharesInSum
  <2>3. Complete(n, own, snapshot) /\ Held(snapshot) \subseteq Held(received)
    BY DEF KeyInv, DeriveInv
  <2>4. Complete(n, own, received)
    BY <1>1, <2>3, CompleteGrows
  <2>6. hasPrivateKey' \in [Ids -> BOOLEAN]
    BY <1>1, Zenon DEF KeyInv, KeyTypeInv, DKGPartyTypeOK
  <2>7. \A i \in Ids : hasPrivateKey'[i] <=> (hasPrivateKey[i] \/ i = n)
    BY <1>1, Zenon DEF KeyInv, KeyTypeInv, DKGPartyTypeOK
  <2>8. KeyTypeInv'
    BY <1>1, <2>1, <2>2, <2>6, NothingCollected DEF KeyInv, KeyTypeInv, CollectTypeOK, DKGPartyTypeOK
  <2>9. BodyInv' /\ SetupInv'
    BY DEF BodyInv, SetupInv
  <2>10. ShareInv' /\ ReceivedInv'
    BY <1>2 DEF KeyInv, ShareInv, ReceivedInv
  <2>11. DeriveInv'
    BY DEF DeriveInv
  <2>12. KeyedInv'
    BY <1>1, <2>4, <2>7 DEF KeyInv, KeyTypeInv, KeyedInv
  <2>13. OnlyOwnShareMissing'
    <3> SUFFICES ASSUME nodes \subseteq Parties, NEW i \in nodes, hasPrivateKey'[i],
                        NEW j \in nodes \ {i}
                 PROVE  privateKeyShare'[i][j] # 0
      BY DEF OnlyOwnShareMissing
    <3>1. i \in Ids /\ j \in Ids
      BY DEF KeyInv, KeyTypeInv
    <3>2. CASE i # n
      BY <1>1, <2>1, <2>7, <3>1, <3>2
         DEF KeyInv, KeyTypeInv, DKGPartyTypeOK, OnlyOwnShareMissing
    <3>3. CASE i = n
      <4>1. Held(snapshot) \subseteq nodes
        BY <1>1, <2>3
      <4>2. nodes \ {n} \subseteq Held(snapshot)
        BY <1>1, <2>3, <4>1, CompleteHasAll
      <4>3. snapshot[j] # 0 /\ received[j] # 0
        BY <2>3, <3>3, <4>2 DEF Held
      <4>4. privateKeyShare'[n] = s
        BY <1>1, <2>1 DEF KeyInv, KeyTypeInv, DKGPartyTypeOK
      <4> QED
        BY <2>2, <3>1, <3>3, <4>3, <4>4
    <3> QED
      BY <3>2, <3>3
  <2> QED
    BY <2>8, <2>9, <2>10, <2>11, <2>12, <2>13 DEF KeyInv
<1> QED
  BY <1>4, <1>5, <1>6, <1>7 DEF DeriveStep

LEMMA CombineKeyInv ==
  ASSUME KeyInv, CombinePublicKeys
  PROVE  KeyInv'
<1> USE DEF CombinePublicKeys, netVars, collectVars
<1> DEFINE key == [n \in nodes |-> privateKeyShare[n]]
<1>1. key \in PublicKey /\ key # Nil /\ 0 \in Ids
  BY KeySharesTyped, NilIsNoKey DEF KeyInv, KeyTypeInv
<1>2. KeyTypeInv'
  BY <1>1 DEF KeyInv, KeyTypeInv, CollectTypeOK, DKGPartyTypeOK
<1>3. current = Nil /\ stage = "idle"
  BY DEF KeyInv, BodyInv
<1>4. SetupInv' /\ BodyInv' /\ DeriveInv'
  BY <1>3 DEF SetupInv, BodyInv, DeriveInv
<1>5. Undelivered' = Undelivered
  BY NetworkStays
<1>6. ShareInv' /\ ReceivedInv' /\ OnlyOwnShareMissing'
  BY <1>5 DEF KeyInv, ShareInv, ReceivedInv, OnlyOwnShareMissing
<1>7. \A n \in nodes : hasPrivateKey[n]
  BY DEF KeyInv, KeyedInv
<1>8. KeyedInv'
  BY <1>1, <1>7 DEF KeyInv, KeyTypeInv, DKGPartyTypeOK, KeyedInv
<1> QED
  BY <1>2, <1>4, <1>6, <1>8 DEF KeyInv

(* A process that dies changes nothing.                                     *)
LEMMA DyingKeyInv ==
  ASSUME KeyInv, UNCHANGED <<threshold, nodes, inflight, messageQueue, handling, closed>>,
         UNCHANGED <<collectVars, mainVars, partyVars>>
  PROVE  KeyInv'
<1> USE DEF collectVars, mainVars, partyVars
<1>1. KeyTypeInv' /\ BodyInv'
  BY DEF KeyInv, KeyTypeInv, CollectTypeOK, DKGPartyTypeOK, BodyInv
<1>2. Undelivered' = Undelivered
  BY NetworkStays
<1> QED
  BY <1>1, <1>2, KeyInvFrame DEF KeyInv, SetupInv

LEMMA MainKeyInv ==
  ASSUME KeyInv, DKGMain
  PROVE  KeyInv'
<1>1. ASSUME NEW n \in todo, GenerateSecretShare(n) PROVE KeyInv'
  BY <1>1, GenerateKeyInv
<1>2. ASSUME NEW n \in todo, BroadcastCommitments(n) PROVE KeyInv'
  BY <1>2, CommitKeyInv
<1>3. ASSUME NEW n \in todo, BroadcastShares(n) PROVE KeyInv'
  BY <1>3, BroadcastKeyInv
<1>4. ASSUME NEW n \in todo, ComputeSharedPrivateKey(n) PROVE KeyInv'
  BY <1>4, ComputeKeyInv
<1>5. CASE GenerateNoCoefficients
  BY <1>5, DyingKeyInv DEF GenerateNoCoefficients
<1>6. CASE CombineAtNilNode
  BY <1>6, DyingKeyInv DEF CombineAtNilNode
<1> QED
  BY <1>1, <1>2, <1>3, <1>4, <1>5, <1>6, JoinKeyInv, StartDKGKeyInv,
     WakeFromDealingKeyInv, CombineKeyInv DEF DKGMain
-----------------------------------------------------------------------------
LEMMA TakeMessageKeyInv ==
  ASSUME KeyInv, TakeMessage, UNCHANGED <<collectVars, mainVars, partyVars>>
  PROVE  KeyInv'
<1> USE DEF collectVars, mainVars, partyVars
<1>1. /\ messageQueue' \in Seq(AnyMessage)
      /\ handling' \in AnyMessage
      /\ Undelivered' = Undelivered
      /\ UNCHANGED <<nodes, inflight>>
  BY Bounds, TakeUndelivered DEF KeyInv, KeyTypeInv
<1>2. KeyTypeInv' /\ BodyInv'
  BY <1>1 DEF KeyInv, KeyTypeInv, CollectTypeOK, DKGPartyTypeOK, BodyInv
<1> QED
  BY <1>1, <1>2, KeyInvFrame DEF KeyInv, SetupInv

LEMMA SenderKeyInv ==
  ASSUME KeyInv, Sender, UNCHANGED <<collectVars, mainVars, partyVars>>
  PROVE  KeyInv'
<1> USE DEF collectVars, mainVars, partyVars
<1>1. /\ messageQueue' \in Seq(AnyMessage)
      /\ inflight' \subseteq AnyMessage
      /\ Undelivered' \subseteq Undelivered
      /\ UNCHANGED <<nodes, handling>>
  BY SenderUndelivered DEF KeyInv, KeyTypeInv
<1>2. KeyTypeInv' /\ BodyInv'
  BY <1>1 DEF KeyInv, KeyTypeInv, CollectTypeOK, DKGPartyTypeOK, BodyInv
<1> QED
  BY <1>1, <1>2, KeyInvFrame DEF KeyInv, SetupInv

(* A share that arrives is one that was sent after its commitments.         *)
LEMMA ReceiveKeyInv ==
  ASSUME KeyInv, ReceiveDKGShare
  PROVE  KeyInv'
<1> USE DEF ReceiveDKGShare, Delivered, collectVars, mainVars
<1> DEFINE to == handling.To
           from == handling.From
<1>1. /\ handling \in Undelivered
      /\ Undelivered' \subseteq Undelivered
  BY DeliveredUndelivered
<1>2. /\ to \in Parties \cap nodes /\ from \in nodes
      /\ to \in Ids /\ from \in Ids
      /\ handling.Payload \in 1 .. dealing
      /\ to # from => handling.Payload <= Commitments[to][from]
      /\ dealing \in 0 .. MaxRounds
  BY <1>1, Bounds DEF KeyInv, KeyTypeInv, DKGPartyTypeOK, ShareInv
<1>3. \A n, j \in Ids :
        ReceivedShares'[n][j] = IF n = to /\ j = from THEN handling.Payload
                                                     ELSE ReceivedShares[n][j]
  BY <1>2 DEF KeyInv, KeyTypeInv, DKGPartyTypeOK, Sum
<1>4. KeyTypeInv'
  <2>1. handling.Payload \in 0 .. MaxRounds
    BY <1>2, Bounds
  <2>2. ReceivedShares' \in [Ids -> Sum]
    BY <1>2, <2>1 DEF KeyInv, KeyTypeInv, DKGPartyTypeOK, Sum
  <2>3. CollectTypeOK' /\ DKGPartyTypeOK'
    BY <2>2 DEF KeyInv, KeyTypeInv, CollectTypeOK, DKGPartyTypeOK
  <2> QED
    BY <2>3 DEF KeyInv, KeyTypeInv
<1>5. SetupInv' /\ BodyInv' /\ ShareInv'
  BY <1>1 DEF KeyInv, SetupInv, BodyInv, ShareInv
<1>6. ReceivedInv'
  BY <1>2, <1>3 DEF KeyInv, ReceivedInv
<1>7. \A n \in Ids : Held(ReceivedShares[n]) \subseteq Held(ReceivedShares'[n])
  BY <1>2, <1>3 DEF Held
<1>8. DeriveInv'
  <2> SUFFICES ASSUME pc = "derive", current # Nil
               PROVE  DeriveInv'
    BY DEF KeyInv, BodyInv, DeriveInv
  <2>1. current \in Ids /\ total \in Nat
    BY FiniteIds DEF KeyInv, KeyTypeInv, CollectTypeOK
  <2>2. Held(ReceivedShares[current]) \subseteq Held(ReceivedShares'[current])
    BY <1>7, <2>1
  <2>3. Cardinality(Held(ReceivedShares[current]))
          <= Cardinality(Held(ReceivedShares'[current]))
    BY <2>2, HeldIds, FiniteIds, FS_Subset
  <2>4. /\ Cardinality(Held(ReceivedShares[current])) \in Nat
        /\ Cardinality(Held(ReceivedShares'[current])) \in Nat
    BY HeldIds, FiniteIds
  <2> QED
    BY <2>1, <2>2, <2>3, <2>4 DEF KeyInv, DeriveInv, Complete, Held
<1>9. KeyedInv'
  <2>1. \A n \in Ids : Complete(n, SecretShare[n], ReceivedShares[n]) =>
                        Complete(n, SecretShare[n], ReceivedShares'[n])
    BY <1>7, CompleteGrows
  <2> QED
    BY <2>1 DEF KeyInv, KeyedInv
<1>10. OnlyOwnShareMissing'
  BY DEF KeyInv, OnlyOwnShareMissing
<1> QED
  BY <1>4, <1>5, <1>6, <1>8, <1>9, <1>10 DEF KeyInv

LEMMA HandlerKeyInv ==
  ASSUME KeyInv, DKGHandler
  PROVE  KeyInv'
<1>1. CASE DKGMapRace
  BY <1>1, DyingKeyInv DEF DKGMapRace
<1> QED
  BY <1>1, TakeMessageKeyInv, ReceiveKeyInv DEF DKGHandler
-----------------------------------------------------------------------------
(* Only DKGPhase sends messages here.                                       *)
LEMMA NextDKGTypeOK ==
  ASSUME DKGInv, KeyInv', DKGNext
  PROVE  DKGTypeOK'
<1> USE DEF DKGInv, netVars, collectVars, mainVars, partyVars
<1>1. CollectTypeOK' /\ DKGPartyTypeOK' /\ nodes' \subseteq Ids
  BY DEF KeyInv, KeyTypeInv
<1>2. Nil \notin DKGMessages
  BY Bounds DEF DKGMessages, AnyMessage, Message, MessageTypes
<1>3. ASSUME NEW n \in todo, BroadcastShares(n) PROVE DKGTypeOK'
  <2>1. n \in Ids /\ n \in nodes /\ nodes \subseteq Ids /\ dealing \in 1 .. MaxDealings
    BY <1>3, Bounds
       DEF KeyInv, KeyTypeInv, DKGPartyTypeOK, SetupInv, BroadcastShares
  <2>2. SharesOf("dkg_share", n, dealing) \subseteq DKGMessages
    BY <2>1 DEF SharesOf, DKGMessages, Message
  <2> QED
    BY <1>1, <1>3, <2>2 DEF BroadcastShares, SendMessages, DKGTypeOK
<1>4. ASSUME NEW n \in todo, ComputeSharedPrivateKey(n) PROVE DKGTypeOK'
  BY <1>1, <1>4 DEF ComputeSharedPrivateKey, DeriveStep, DKGTypeOK
<1>5. CASE DKGMain
  BY <1>1, <1>3, <1>4, <1>5
     DEF DKGMain, Join, AddNode, StartDKG, GenerateSecretShare, BroadcastCommitments,
         GenerateNoCoefficients, WakeFromDealing,
         CombinePublicKeys, CombineAtNilNode, DKGTypeOK
<1>6. CASE DKGHandler
  <2>1. CASE TakeMessage /\ UNCHANGED <<collectVars, mainVars, partyVars>>
    BY <1>1, <1>2, <2>1, TakeUndelivered DEF DKGTypeOK
  <2>2. CASE ReceiveDKGShare \/ DKGMapRace
    BY <1>1, <2>2 DEF ReceiveDKGShare, Delivered, DKGMapRace, DKGTypeOK
  <2> QED
    BY <1>6, <2>1, <2>2 DEF DKGHandler
<1>7. CASE DKGSenders
  BY <1>1, <1>7, SenderUndelivered DEF DKGSenders, DKGTypeOK
<1> QED
  BY <1>5, <1>6, <1>7 DEF DKGNext

LEMMA NextDKGInv == DKGInv /\ [DKGNext]_dkgVars => DKGInv'
<1>1. ASSUME DKGInv, DKGNext PROVE DKGInv'
  <2>1. KeyInv'
    BY <1>1, MainKeyInv, HandlerKeyInv, SenderKeyInv DEF DKGInv, DKGNext, DKGSenders
  <2> QED
    BY <1>1, <2>1, NextDKGTypeOK DEF DKGInv
<1>2. ASSUME DKGInv, UNCHANGED dkgVars PROVE DKGInv'
  <2>1. KeyInv'
    BY <1>2, DyingKeyInv DEF DKGInv, dkgVars, netVars
  <2>2. DKGTypeOK'
    BY <1>2 DEF DKGInv, DKGTypeOK, CollectTypeOK, DKGPartyTypeOK, dkgVars, netVars,
                collectVars, mainVars, partyVars
  <2> QED
    BY <2>1, <2>2 DEF DKGInv
<1> QED
  BY <1>1, <1>2
-----------------------------------------------------------------------------
(* The invariant that the properties of key generation follow from: shares  *)
(* travel behind their commitments and only between nodes, what is counted  *)
(* is not lost, and whoever has a key share had a complete collection.      *)
THEOREM DKGInvariant == DKGSpec => []DKGInv
<1> QED
  BY InitKeyInv, NextDKGInv, PTL DEF DKGSpec

(* Every variable of DKGPhase, ComputeSharedPrivateKey and the nodes' DKG   *)
(* state keeps its type.                                                    *)
THEOREM DKGTypeCorrect == DKGSpec => []DKGTypeOK
<1>1. DKGInv => DKGTypeOK
  BY DEF DKGInv
<1> QED
  BY <1>1, DKGInvariant, PTL

(* A node that has a key share is one of the parties.                       *)
LEMMA KeyedNodesAreParties ==
  ASSUME KeyInv, NEW n \in Ids, hasPrivateKey[n]
  PROVE  n \in Parties
<1>1. Complete(n, SecretShare[n], ReceivedShares[n])
  BY DEF KeyInv, KeyedInv
<1> QED
  BY <1>1, CompleteIsParty DEF KeyInv, ReceivedInv, Held

(* When all nodes have key shares the network is the full one.              *)
LEMMA AllKeyedIsFull ==
  ASSUME KeyInv, nodes # {}, \A n \in nodes : hasPrivateKey[n]
  PROVE  nodes = Parties
<1>1. nodes \subseteq Ids
  BY DEF KeyInv, KeyTypeInv
<1>2. nodes \subseteq Parties
  BY <1>1, KeyedNodesAreParties
<1>3. PICK n \in nodes : TRUE
  OBVIOUS
<1>4. Complete(n, SecretShare[n], ReceivedShares[n])
  BY <1>1, <1>3 DEF KeyInv, KeyedInv
<1>5. Held(ReceivedShares[n]) \subseteq nodes
  BY <1>1, <1>3 DEF KeyInv, ReceivedInv, Held
<1> QED
  BY <1>2, <1>3, <1>4, <1>5, CompleteHasAll

(* Once there is a public key the network is the full one.                  *)
LEMMA KeyMeansFull ==
  ASSUME KeyInv, NEW n \in Ids, sharedPublicKey[n] # Nil
  PROVE  nodes = Parties /\ 0 \in nodes /\ \A m \in nodes : hasPrivateKey[m]
<1>1. 0 \in nodes /\ \A m \in nodes : hasPrivateKey[m]
  BY DEF KeyInv, KeyedInv
<1> QED
  BY <1>1, AllKeyedIsFull

LEMMA KeyInvKeyed == KeyInv => OnlyFullNetworkKeyed
<1> SUFFICES ASSUME KeyInv, pc = "keyed" PROVE nodes = Parties
  BY DEF OnlyFullNetworkKeyed
<1>1. sharedPublicKey[0] # Nil /\ 0 \in Ids
  BY DEF KeyInv, KeyTypeInv, KeyedInv
<1> QED
  BY <1>1, KeyMeansFull

(* The skip over unknown recipients and the count of ComputeSharedPrivateKey*)
(* make a public key impossible in any network but the one DKGPhase was     *)
(* built for.                                                               *)
THEOREM OnlyFullNetworkGetsKey == DKGSpec => []OnlyFullNetworkKeyed
<1>1. DKGInv => OnlyFullNetworkKeyed
  BY KeyInvKeyed DEF DKGInv
<1> QED
  BY <1>1, DKGInvariant, PTL

(* However the handler races with phase 2, no share but the node's own is   *)
(* missing from a key share.                                                *)
THEOREM KeySharesLackOnlyOwn == DKGSpec => []OnlyOwnShareMissing
<1>1. DKGInv => OnlyOwnShareMissing
  BY DEF DKGInv, KeyInv
<1> QED
  BY <1>1, DKGInvariant, PTL

(* Every share a node holds can be verified: the commitments of its dealing *)
(* were stored before it was sent.                                          *)
THEOREM SharesAreVerifiable == DKGSpec => []CommittedBeforeShared
<1>1. DKGInv => CommittedBeforeShared
  BY DEF DKGInv, KeyInv, KeyTypeInv, ReceivedInv, CommittedBeforeShared
<1> QED
  BY <1>1, DKGInvariant, PTL
=============================================================================
