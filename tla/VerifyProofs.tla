----------------------------- MODULE VerifyProofs -----------------------------
(***************************************************************************)
(* Proofs about the keys of the threshold signing demo: the signature that *)
(* main verifies is accepted, whatever the network, the thresholds and the *)
(* order of the phases, if DKGPhase is called once, as main does, or if    *)
(* its Sleep covers the deliveries; and then a key is made of the shares   *)
(* of one dealing.                                                         *)
(***************************************************************************)
EXTENDS Timely, SigningProofs

(* What keeps the public key that of the key shares.                        *)
OneKeyOrTimely == MaxDealings = 1 \/ SleepCovers

LEMMA UndeliveredMessages ==
  TypeOK => /\ Undelivered \subseteq SignMessages
            /\ Quiescent <=> Undelivered = {}
            /\ \A m \in Undelivered : m.Type \in {"dkg_share", "sign_nonce"}
<1> SUFFICES ASSUME TypeOK
             PROVE  /\ Undelivered \subseteq SignMessages
                    /\ Quiescent <=> Undelivered = {}
                    /\ \A m \in Undelivered : m.Type \in {"dkg_share", "sign_nonce"}
  OBVIOUS
<1>1. /\ inflight \subseteq SignMessages /\ messageQueue \in Seq(SignMessages)
      /\ handling \in SignMessages \cup {Nil}
  BY DEF TypeOK
<1>2. Undelivered \subseteq SignMessages /\ (Quiescent <=> Undelivered = {})
  BY <1>1, UndeliveredTyped, QuiescentIsUndelivered
<1>3. \A m \in SignMessages : m.Type \in {"dkg_share", "sign_nonce"}
  BY DEF SignMessages, Message
<1> QED
  BY <1>2, <1>3

(* The only steps that put messages on their way are the sends.             *)
LEMMA MessageSteps ==
  ASSUME SigningInv, Next
  PROVE  \/ Undelivered' \subseteq Undelivered
         \/ \E n \in todo : /\ BroadcastShares(n)
                            /\ Undelivered' = Undelivered \cup SharesOf("dkg_share", n, dealing)
         \/ \E n \in todo : /\ GenerateNonceShare(n)
                            /\ Undelivered' = Undelivered \cup SharesOf("sign_nonce", n, session)
<1>1. /\ inflight \subseteq SignMessages /\ messageQueue \in Seq(SignMessages)
      /\ Nil \notin SignMessages
  BY SignMessageTypes DEF SigningInv, TypeOK
<1>2. ASSUME NEW n \in todo, BroadcastShares(n)
      PROVE  Undelivered' = Undelivered \cup SharesOf("dkg_share", n, dealing)
  BY <1>2, SendingUndelivered DEF BroadcastShares
<1>3. ASSUME NEW n \in todo, GenerateNonceShare(n)
      PROVE  Undelivered' = Undelivered \cup SharesOf("sign_nonce", n, session)
  BY <1>3, SendingUndelivered DEF GenerateNonceShare
<1>4. CASE TakeMessage
  BY <1>1, <1>4, TakeUndelivered
<1>5. CASE Sender
  BY <1>1, <1>5, SenderUndelivered
<1>6. CASE Delivered /\ handling # Nil
  BY <1>6, DeliveredUndelivered
<1>7. CASE UNCHANGED <<inflight, messageQueue, handling>>
  BY <1>7, NetworkStays
<1>8. CASE Main
  <2>1. CASE DKGMain
    BY <1>2, <1>7, <2>1
       DEF DKGMain, Join, AddNode, StartDKG, GenerateSecretShare,
           BroadcastCommitments, ComputeSharedPrivateKey, GenerateNoCoefficients,
           WakeFromDealing, CombinePublicKeys, CombineAtNilNode,
           netVars
  <2>2. CASE SignMain
    BY <1>3, <1>7, <2>2
       DEF SignMain, StartSigning, FindNoSigner, MainInitSigning, GenerateFails,
           GenerateAtNilSigner, ComputeSharedNonce, WakeFromNonces, Reconstruct,
           NonceHasNoInverse, ReconstructFails, NonceOutOfRange, StopNetwork, Stop, Exit,
           Die, netVars
  <2> QED
    BY <1>8, <2>1, <2>2 DEF Main
<1>9. CASE Handler
  BY <1>4, <1>6, <1>7, <1>9
     DEF Handler, DKGHandler, ReceiveDKGShare, DKGMapRace, SignHandler, Die,
         HandlerFindsNoSigner, HandlerInitSigning, ReceiveNonceShare, AtReceive,
         ReceivingNonce, ReceiveAtNilSigner, NonceMapRace, dkgVars, netVars
<1>10. CASE Senders
  BY <1>5, <1>10 DEF Senders
<1> QED
  BY <1>8, <1>9, <1>10 DEF Next

(* The steps that take main from one phase or loop to another.              *)
LEMMA PcSteps ==
  ASSUME Next
  PROVE  \/ pc' = pc
         \/ StartDKG \/ StartSigning \/ WakeFromDealing \/ WakeFromNonces
         \/ pc = "nonce" /\ pc' = "failed" /\ BadThreshold
         \/ /\ pc \in {"derive", "collect", "signed", "stopped"}
            /\ pc' \in {"keyed", "failed", "signed", "stopped", "exited"}
<1> USE DEF mainVars
<1>1. CASE DKGMain
  BY <1>1 DEF DKGMain, Join, GenerateSecretShare, BroadcastCommitments,
              BroadcastShares, ComputeSharedPrivateKey, DeriveStep,
              GenerateNoCoefficients, CombinePublicKeys, CombineAtNilNode
<1>2. CASE SignMain
  BY <1>2 DEF SignMain, FindNoSigner, MainInitSigning, GenerateNonceShare, GenerateFails,
              GenerateAtNilSigner, AtGenerate, ComputeSharedNonce, CollectStep, Reconstruct,
              NonceHasNoInverse, ReconstructFails, NonceOutOfRange, StopNetwork, Exit, Die
<1>3. CASE Handler \/ Senders
  BY <1>3 DEF Handler, DKGHandler, ReceiveDKGShare, DKGMapRace, SignHandler, Die,
              HandlerFindsNoSigner, HandlerInitSigning, ReceiveNonceShare,
              ReceiveAtNilSigner, NonceMapRace, Senders, dkgVars
<1> QED
  BY <1>1, <1>2, <1>3 DEF Next, Main
-----------------------------------------------------------------------------
(* When the Sleeps cover the deliveries nothing is on its way after them.   *)
LEMMA InitQuiet == Init => QuietInv
<1> SUFFICES ASSUME Init PROVE Undelivered = {} /\ pc = "setup"
  BY DEF QuietInv
<1>1. SigningInv /\ pc = "setup"
  BY InitSigningInv DEF Init, DKGInit
<1> QED
  BY <1>1 DEF SigningInv, KeyInv, SetupInv

LEMMA NextQuiet ==
  ASSUME SigningInv, QuietInv, Next
  PROVE  QuietInv'
<1> SUFFICES ASSUME SleepCovers PROVE QuietInv'
  BY DEF QuietInv
<1>1. /\ Quiescent <=> Undelivered = {}
      /\ \A m \in Undelivered : m.Type \in {"dkg_share", "sign_nonce"}
  BY UndeliveredMessages DEF SigningInv
<1>2. \A n : \A m \in SharesOf("dkg_share", n, dealing) : m.Type = "dkg_share"
  BY DEF SharesOf
<1>3. \A n : \A m \in SharesOf("sign_nonce", n, session) : m.Type = "sign_nonce"
  BY DEF SharesOf
<1>4. CASE pc' = pc
  <2>1. CASE Undelivered' \subseteq Undelivered
    BY <1>4, <2>1 DEF QuietInv
  <2>2. ASSUME NEW n \in todo, BroadcastShares(n),
               Undelivered' = Undelivered \cup SharesOf("dkg_share", n, dealing)
        PROVE  QuietInv'
    BY <1>2, <1>4, <2>2 DEF QuietInv, BroadcastShares
  <2>3. ASSUME NEW n \in todo, GenerateNonceShare(n),
               Undelivered' = Undelivered \cup SharesOf("sign_nonce", n, session)
        PROVE  QuietInv'
    BY <1>3, <1>4, <2>3 DEF QuietInv, GenerateNonceShare, AtGenerate
  <2> QED
    BY <2>1, <2>2, <2>3, MessageSteps
<1>5. CASE pc' # pc
  <2>1. Undelivered' \subseteq Undelivered
    BY <1>5, MessageSteps DEF BroadcastShares, GenerateNonceShare
  <2>2. CASE StartDKG \/ StartSigning
    BY <2>1, <2>2 DEF StartDKG, StartSigning, Idle, QuietInv
  <2>3. CASE WakeFromDealing \/ WakeFromNonces
    BY <1>1, <2>1, <2>3 DEF WakeFromDealing, WakeFromNonces, QuietInv
  <2>4. CASE pc = "nonce" /\ pc' = "failed" /\ BadThreshold
    <3>1. Undelivered = {}
      BY <1>1, <2>4 DEF QuietInv, SigningInv, NonceMessageInv
    <3> QED
      BY <2>1, <2>4, <3>1 DEF QuietInv
  <2>5. CASE /\ pc \in {"derive", "collect", "signed", "stopped"}
             /\ pc' \in {"keyed", "failed", "signed", "stopped", "exited"}
    BY <2>1, <2>5 DEF QuietInv
  <2> QED
    BY <1>5, <2>2, <2>3, <2>4, <2>5, PcSteps
<1> QED
  BY <1>4, <1>5
-----------------------------------------------------------------------------
(* A step that is none of DKGPhase's own keeps what is known of the keys.   *)
LEMMA VerifyFrame ==
  ASSUME VerifyInv, SigningInv', QuietInv',
         UNCHANGED <<nodes, dealing, hasPrivateKey, privateKeyShare, sharedPublicKey>>,
         pc' \in {"signed", "stopped"} => pc \in {"signed", "stopped"}
                                            /\ signature' = signature,
         pc = "derive" <=> pc' = "derive",
         pc = "derive" => UNCHANGED <<todo, collectVars>>
                            /\ (SleepCovers => UNCHANGED ReceivedShares),
         pc' = "deal" => pc = "deal"
  PROVE  VerifyInv'
<1> USE DEF VerifyInv, collectVars
<1>1. FirstKeyInv'
  BY DEF FirstKeyInv
<1>2. DeriveExactInv'
  BY DEF DeriveExactInv, Held
<1>3. PublicKeyInv'
  BY DEF PublicKeyInv
<1>4. SignatureVerifies'
  BY DEF SignatureVerifies
<1> QED
  BY <1>1, <1>2, <1>3, <1>4

LEMMA OtherSteps ==
  ASSUME VerifyInv, SigningInv', QuietInv', ~Reconstruct,
         \/ SignMain \/ Handler \/ Senders
         \/ GenerateNoCoefficients \/ CombineAtNilNode
         \/ \E n \in todo :
              GenerateSecretShare(n) \/ BroadcastCommitments(n) \/ BroadcastShares(n)
  PROVE  VerifyInv'
<1> USE DEF mainVars, partyVars
<1>1. CASE \/ GenerateNoCoefficients \/ CombineAtNilNode
           \/ \E n \in todo :
                GenerateSecretShare(n) \/ BroadcastCommitments(n) \/ BroadcastShares(n)
  <2>1. CASE \E n \in todo :
               GenerateSecretShare(n) \/ BroadcastCommitments(n) \/ BroadcastShares(n)
    BY <2>1, VerifyFrame
       DEF GenerateSecretShare, BroadcastCommitments, BroadcastShares, SendMessages, netVars
  <2>2. CASE GenerateNoCoefficients \/ CombineAtNilNode
    BY <2>2, VerifyFrame DEF GenerateNoCoefficients, CombineAtNilNode
  <2> QED
    BY <1>1, <2>1, <2>2
<1>2. CASE SignMain
  <2>1. CASE StartSigning
    BY <2>1, VerifyFrame DEF StartSigning, Idle, netVars
  <2>2. CASE \E n \in todo : \/ FindNoSigner(n) \/ MainInitSigning(n)
                             \/ GenerateNonceShare(n) \/ GenerateFails(n)
                             \/ GenerateAtNilSigner(n)
    <3>1. pc = "nonce"
      BY <2>2 DEF FindNoSigner, MainInitSigning, GenerateNonceShare, GenerateFails,
                  GenerateAtNilSigner, AtGenerate, VerifyInv, SigningInv, KeyInv, BodyInv
    <3> QED
      BY <2>2, <3>1, VerifyFrame
         DEF FindNoSigner, MainInitSigning, GenerateNonceShare, GenerateFails,
             GenerateAtNilSigner, SendMessages, Die, netVars
  <2>3. CASE \E n \in todo : ComputeSharedNonce(n)
    BY <2>3, VerifyFrame DEF ComputeSharedNonce, CollectStep, netVars
  <2>4. CASE WakeFromNonces \/ NonceHasNoInverse \/ ReconstructFails \/ NonceOutOfRange
    BY <2>4, VerifyFrame
       DEF WakeFromNonces, NonceHasNoInverse, ReconstructFails, NonceOutOfRange, Die,
           netVars
  <2>5. CASE StopNetwork \/ Exit
    BY <2>5, VerifyFrame DEF StopNetwork, Stop, Exit, netVars, signVars
  <2> QED
    BY <1>2, <2>1, <2>2, <2>3, <2>4, <2>5 DEF SignMain
<1>3. SleepCovers /\ pc = "derive" => handling = Nil
  BY DEF VerifyInv, QuietInv, Undelivered
<1>4. CASE Handler
  <2>1. CASE TakeMessage /\ UNCHANGED <<collectVars, mainVars, partyVars, signVars>>
    BY <2>1, VerifyFrame DEF TakeMessage, signVars
  <2>2. CASE ReceiveDKGShare /\ UNCHANGED signVars
    BY <1>3, <2>2, VerifyFrame DEF ReceiveDKGShare, Delivered, signVars
  <2>3. CASE DKGMapRace /\ UNCHANGED signVars
    BY <2>3, VerifyFrame DEF DKGMapRace, signVars
  <2>4. CASE SignHandler
    BY <2>4, VerifyFrame
       DEF SignHandler, HandlerFindsNoSigner, HandlerInitSigning, ReceiveNonceShare,
           ReceiveAtNilSigner, NonceMapRace, Die, Delivered, dkgVars, netVars, signVars
  <2> QED
    BY <1>4, <2>1, <2>2, <2>3, <2>4 DEF Handler, DKGHandler
<1>5. CASE Senders
  BY <1>5, VerifyFrame DEF Senders, Sender, Enqueue, SendOnClosed, signVars
<1> QED
  BY <1>1, <1>2, <1>4, <1>5
-----------------------------------------------------------------------------
(* The steps of DKGPhase that change what is known of the keys.             *)
LEMMA JoinVerify ==
  ASSUME VerifyInv, SigningInv', QuietInv', Join, UNCHANGED signVars
  PROVE  VerifyInv'
<1> USE DEF Join, AddNode, collectVars, mainVars, partyVars
<1>1. \A n \in Ids : ~hasPrivateKey[n] /\ sharedPublicKey[n] = Nil
  BY DEF VerifyInv, SigningInv, KeyInv, KeyTypeInv, SetupInv, KeyedInv
<1>2. nodes' \subseteq Ids
  BY DEF VerifyInv, SigningInv, TypeOK
<1>3. PublicKeyInv'
  BY <1>1, <1>2 DEF PublicKeyInv
<1>4. FirstKeyInv' /\ DeriveExactInv' /\ SignatureVerifies'
  BY <1>1 DEF FirstKeyInv, DeriveExactInv, SignatureVerifies
<1> QED
  BY <1>3, <1>4 DEF VerifyInv

LEMMA StartDKGVerify ==
  ASSUME VerifyInv, SigningInv', QuietInv', StartDKG
  PROVE  VerifyInv'
<1> USE DEF StartDKG, Idle, partyVars, netVars
<1>1. dealing \in Nat
  BY DealingTyped DEF VerifyInv, SigningInv
<1>2. FirstKeyInv' /\ DeriveExactInv' /\ SignatureVerifies'
  BY <1>1 DEF VerifyInv, FirstKeyInv, DeriveExactInv, SignatureVerifies
<1>3. PublicKeyInv'
  BY DEF VerifyInv, PublicKeyInv
<1> QED
  BY <1>2, <1>3 DEF VerifyInv

LEMMA WakeVerify ==
  ASSUME VerifyInv, SigningInv', QuietInv', WakeFromDealing
  PROVE  VerifyInv'
<1> USE DEF WakeFromDealing, partyVars, netVars, collectVars
<1>1. stage = "idle" /\ dealing # 0 /\ nodes \subseteq Ids
  BY DEF VerifyInv, SigningInv, KeyInv, SetupInv, BodyInv, TypeOK
<1>2. FirstKeyInv' /\ DeriveExactInv' /\ PublicKeyInv' /\ SignatureVerifies'
  BY <1>1 DEF VerifyInv, FirstKeyInv, DeriveExactInv, PublicKeyInv, SignatureVerifies
<1> QED
  BY <1>2 DEF VerifyInv

(* Enough counts as many shares as there are when nothing arrives meanwhile.*)
LEMMA CompleteIsEnough ==
  ASSUME NEW received \in Sum, NEW n \in Ids, NEW own,
         total = Cardinality(Held(received)), Complete(n, own, received)
  PROVE  Enough(n, own, received)
<1> DEFINE H == Held(received)
           D == H \cup (IF own # 0 THEN {n} ELSE {})
<1>1. /\ IsFiniteSet(H) /\ Cardinality(H) \in Nat
      /\ IsFiniteSet(D) /\ Cardinality(D) \in Nat
      /\ Cardinality(D) >= NumParties
  BY HeldIds, FiniteIds DEF Complete
<1>2. CASE OwnApart(n, own, received)
  <2>1. D = H \cup {n} /\ n \notin H
    BY <1>2 DEF OwnApart, Held
  <2>2. Cardinality(D) = Cardinality(H) + 1
    BY <1>1, <2>1, FS_AddElement
  <2>3. total = Cardinality(H) /\ NumParties \in Nat
    BY SizeAssumption
  <2>4. total + 1 >= NumParties
    BY <1>1, <2>2, <2>3
  <2> QED
    BY <1>2, <2>4 DEF Enough
<1>3. CASE ~OwnApart(n, own, received)
  <2>1. D = H
    BY <1>3 DEF OwnApart, Held
  <2>2. total = Cardinality(H) /\ NumParties \in Nat
    BY SizeAssumption
  <2>3. total + 0 >= NumParties
    BY <1>1, <2>1, <2>2
  <2> QED
    BY <1>3, <2>3 DEF Enough
<1> QED
  BY <1>2, <1>3

(* ComputeSharedPrivateKey fails only at a node that has no key share yet.  *)
LEMMA TooFewUnkeyed ==
  ASSUME VerifyInv, OneKeyOrTimely, pc = "derive", NEW n \in todo,
         TooFew(n, SecretShare[n], ReceivedShares[n])
  PROVE  n \in nodes /\ n \in Ids /\ ~hasPrivateKey[n]
<1>1. n \in nodes /\ n \in Ids /\ SecretShare \in [Ids -> 0 .. MaxDealings]
      /\ ReceivedShares \in [Ids -> Sum]
  BY DEF VerifyInv, SigningInv, TypeOK, DKGPartyTypeOK
<1>2. CASE MaxDealings = 1
  <2>1. dealing \in 0 .. MaxDealings /\ dealing # 0
    BY DEF VerifyInv, SigningInv, TypeOK, DKGPartyTypeOK, FirstKeyInv
  <2>2. dealing = 1
    BY <1>2, <2>1
  <2> QED
    BY <1>1, <2>2 DEF VerifyInv, FirstKeyInv
<1>3. CASE SleepCovers
  <2> SUFFICES ASSUME hasPrivateKey[n] PROVE FALSE
    BY <1>1
  <2>1. Complete(n, SecretShare[n], ReceivedShares[n])
    BY <1>1 DEF VerifyInv, SigningInv, KeyInv, KeyedInv
  <2>2. total = Cardinality(Held(ReceivedShares[n]))
    BY <1>3 DEF VerifyInv, DeriveExactInv, TooFew
  <2>3. ReceivedShares[n] \in Sum
    BY <1>1
  <2>4. Enough(n, SecretShare[n], ReceivedShares[n])
    <3> PICK received : received = ReceivedShares[n]
      OBVIOUS
    <3> PICK own : own = SecretShare[n]
      OBVIOUS
    <3> QED
      BY <1>1, <2>1, <2>2, <2>3, CompleteIsEnough
  <2> QED
    BY <2>4 DEF TooFew
<1> QED
  BY <1>2, <1>3 DEF OneKeyOrTimely

LEMMA DeriveVerify ==
  ASSUME VerifyInv, OneKeyOrTimely, SigningInv', QuietInv',
         NEW n \in todo, ComputeSharedPrivateKey(n)
  PROVE  VerifyInv'
<1> DEFINE own == SecretShare[n]
           received == ReceivedShares[n]
<1> USE DEF netVars, mainVars, partyVars
<1>1. pc = "derive" /\ DeriveStep(n) /\ UNCHANGED netVars
      /\ n \in nodes /\ n \in Ids /\ todo \subseteq nodes /\ nodes \subseteq Ids
  BY DEF ComputeSharedPrivateKey, VerifyInv, SigningInv, TypeOK, DKGPartyTypeOK
<1>2. CASE CountReceived(n, received) \/ CountOwn(n, own, received)
  <2>1. CASE UNCHANGED <<mainVars, partyVars>>
    <3>1. FirstKeyInv' /\ PublicKeyInv' /\ SignatureVerifies'
      BY <1>1, <2>1 DEF VerifyInv, FirstKeyInv, PublicKeyInv, SignatureVerifies
    <3>2. DeriveExactInv'
      BY <1>1, <1>2, <2>1
         DEF VerifyInv, DeriveExactInv, CountReceived, CountOwn, Held
    <3> QED
      BY <3>1, <3>2 DEF VerifyInv
  <2>2. CASE ~UNCHANGED <<mainVars, partyVars>>
    BY <1>1, <1>2, <2>2, Bounds
       DEF DeriveStep, CountReceived, CountOwn, TooFew, AddShares, LeaveBody
  <2> QED
    BY <2>1, <2>2
<1>3. CASE /\ TooFew(n, own, received)
           /\ failure' = "missing shares"
           /\ pc' = "failed"
           /\ UNCHANGED <<todo, dealing, partyVars>>
  <2>1. ~hasPrivateKey[n]
    BY <1>1, <1>3, TooFewUnkeyed
  <2>2. 0 \in nodes => sharedPublicKey[0] = Nil
    BY <1>1, <2>1 DEF VerifyInv, SigningInv, KeyInv, KeyedInv
  <2>3. FirstKeyInv' /\ DeriveExactInv' /\ SignatureVerifies'
    BY <1>1, <1>3 DEF VerifyInv, FirstKeyInv, DeriveExactInv, SignatureVerifies
  <2>4. PublicKeyInv'
    BY <1>1, <1>3, <2>1, <2>2 DEF PublicKeyInv
  <2> QED
    BY <2>3, <2>4 DEF VerifyInv
<1>4. CASE /\ AddShares(n)
           /\ hasPrivateKey' = [hasPrivateKey EXCEPT ![n] = TRUE]
           /\ todo' = todo \ {n}
           /\ UNCHANGED <<pc, dealing, failure, SecretShare, ReceivedShares,
                          Commitments, sharedPublicKey>>
  <2>1. DeriveExactInv' /\ PublicKeyInv' /\ SignatureVerifies'
    BY <1>1, <1>4
       DEF DeriveExactInv, PublicKeyInv, SignatureVerifies, AddShares, LeaveBody
  <2>2. hasPrivateKey \in [Ids -> BOOLEAN]
    BY DEF VerifyInv, SigningInv, TypeOK, DKGPartyTypeOK
  <2>3. \A m \in Ids \ {n} : hasPrivateKey'[m] = hasPrivateKey[m]
    BY <1>4, <2>2, Zenon
  <2>4. FirstKeyInv'
    BY <1>1, <1>4, <2>3 DEF VerifyInv, FirstKeyInv
  <2> QED
    BY <2>1, <2>4 DEF VerifyInv
<1> QED
  BY <1>1, <1>2, <1>3, <1>4 DEF DeriveStep

LEMMA CombineVerify ==
  ASSUME VerifyInv, SigningInv', QuietInv', CombinePublicKeys
  PROVE  VerifyInv'
<1> USE DEF CombinePublicKeys, netVars
<1>1. 0 \in Ids /\ sharedPublicKey \in [Ids -> PublicKey \cup {Nil}]
  BY DEF VerifyInv, SigningInv, TypeOK, DKGPartyTypeOK
<1>2. /\ sharedPublicKey'[0] = [n \in nodes |-> privateKeyShare[n]]
      /\ sharedPublicKey'[0] # Nil
  BY <1>1 DEF SigningInv, KeyInv, KeyedInv
<1>3. PublicKeyInv'
  BY <1>2 DEF PublicKeyInv
<1>4. FirstKeyInv' /\ DeriveExactInv' /\ SignatureVerifies'
  BY DEF VerifyInv, FirstKeyInv, DeriveExactInv, SignatureVerifies
<1> QED
  BY <1>3, <1>4 DEF VerifyInv

(* All nodes take part in a signature, so that the network is the full one, *)
(* they all have key shares, and there is a public key.                     *)
LEMMA ReconstructVerify ==
  ASSUME VerifyInv, SigningInv', QuietInv', Reconstruct
  PROVE  VerifyInv'
<1> USE DEF Reconstruct, netVars, collectVars, partyVars
<1>1. threshold \in 2 .. Len(nonceShares) /\ nonceShares \in Seq(NonceShare)
  BY DEF VerifyInv, SigningInv, TypeOK
<1>2. nodes # {} /\ AllSign /\ nodes \subseteq Ids
  <2>1. 1 \in 1 .. Len(nonceShares)
    <3>1. Len(nonceShares) \in Nat
      BY <1>1, LenProperties
    <3> QED
      BY <1>1, <3>1
  <2> QED
    BY <2>1 DEF VerifyInv, SigningInv, NonceShareInv, CollectInv, TypeOK
<1>3. \A n \in nodes : hasPrivateKey[n]
  BY <1>2 DEF VerifyInv, SigningInv, SignerInv, AllSign
<1>4. 0 \in nodes
  <2>1. nodes = Parties
    BY <1>2, <1>3, AllKeyedIsFull DEF VerifyInv, SigningInv
  <2> QED
    BY <2>1, SizeAssumption DEF Parties
<1>5. sharedPublicKey[0] = [n \in nodes |-> privateKeyShare[n]]
  BY <1>3, <1>4 DEF VerifyInv, PublicKeyInv
<1>6. SignatureVerifies'
  BY <1>5 DEF SignatureVerifies
<1>7. FirstKeyInv' /\ DeriveExactInv' /\ PublicKeyInv'
  BY DEF VerifyInv, FirstKeyInv, DeriveExactInv, PublicKeyInv
<1> QED
  BY <1>6, <1>7 DEF VerifyInv

LEMMA InitVerify == Init => VerifyInv
<1> SUFFICES ASSUME Init PROVE VerifyInv
  OBVIOUS
<1> USE DEF Init, DKGInit, NetInit, CollectInit
<1>1. SigningInv /\ QuietInv
  BY InitSigningInv, InitQuiet
<1>2. FirstKeyInv /\ DeriveExactInv /\ PublicKeyInv /\ SignatureVerifies
  BY DEF FirstKeyInv, DeriveExactInv, PublicKeyInv, SignatureVerifies
<1> QED
  BY <1>1, <1>2 DEF VerifyInv

LEMMA NextVerify ==
  ASSUME OneKeyOrTimely
  PROVE  VerifyInv /\ [Next]_vars => VerifyInv'
<1>1. ASSUME VerifyInv, Next PROVE VerifyInv'
  <2>1. SigningInv' /\ QuietInv'
    BY <1>1, NextSigningInv, NextQuiet DEF VerifyInv
  <2>2. CASE DKGMain /\ UNCHANGED signVars
    BY <1>1, <2>1, <2>2, JoinVerify, StartDKGVerify, WakeVerify, DeriveVerify,
       CombineVerify, OtherSteps
       DEF DKGMain, CombineAtNilNode, GenerateNoCoefficients, GenerateSecretShare,
           BroadcastCommitments, BroadcastShares, Reconstruct
  <2>3. CASE SignMain
    BY <1>1, <2>1, <2>3, ReconstructVerify, OtherSteps
  <2>4. CASE Handler \/ Senders
    BY <1>1, <2>1, <2>4, ReconstructVerify, OtherSteps
  <2> QED
    BY <1>1, <2>2, <2>3, <2>4 DEF Next, Main
<1>2. ASSUME VerifyInv, UNCHANGED vars PROVE VerifyInv'
  <2> USE <1>2 DEF vars, dkgVars, netVars, mainVars, partyVars, signVars
  <2>1. SigningInv'
    BY NextSigningInv DEF VerifyInv
  <2>2. QuietInv'
    BY NetworkStays DEF VerifyInv, QuietInv
  <2>3. pc' \in {"signed", "stopped"} => pc \in {"signed", "stopped"}
    OBVIOUS
  <2> QED
    BY <2>1, <2>2, <2>3, VerifyFrame
<1> QED
  BY <1>1, <1>2

(* The signature that main verifies is accepted: when DKGPhase is called    *)
(* once, whatever the scheduling, and when it is called again, if its Sleep *)
(* covers the deliveries.                                                   *)
THEOREM SignatureIsAccepted ==
  ASSUME OneKeyOrTimely
  PROVE  Spec => []SignatureVerifies
<1>1. VerifyInv /\ [Next]_vars => VerifyInv'
  BY NextVerify
<1>2. VerifyInv => SignatureVerifies
  BY DEF VerifyInv
<1> QED
  BY <1>1, <1>2, InitVerify, PTL DEF Spec
-----------------------------------------------------------------------------
(* The channel is closed when main is done with its phases.                 *)
LEMMA NextClosed ==
  ASSUME ClosedInv, Next
  PROVE  ClosedInv'
<1> USE DEF ClosedInv, mainVars
<1>1. CASE DKGMain
  BY <1>1 DEF DKGMain, Join, AddNode, StartDKG, Idle, GenerateSecretShare,
              BroadcastCommitments, BroadcastShares, SendMessages,
              ComputeSharedPrivateKey, DeriveStep, GenerateNoCoefficients,
              WakeFromDealing, CombinePublicKeys, CombineAtNilNode, netVars
<1>2. CASE SignMain
  BY <1>2 DEF SignMain, StartSigning, Idle, FindNoSigner, MainInitSigning,
              GenerateNonceShare, SendMessages, GenerateFails, GenerateAtNilSigner,
              AtGenerate, ComputeSharedNonce, CollectStep, WakeFromNonces, Reconstruct,
              NonceHasNoInverse, ReconstructFails, NonceOutOfRange, StopNetwork, Exit,
              Die, netVars
<1>3. CASE Handler \/ Senders
  BY <1>3 DEF Handler, DKGHandler, TakeMessage, ReceiveDKGShare, Delivered, DKGMapRace,
              SignHandler, Die, HandlerFindsNoSigner, HandlerInitSigning,
              ReceiveNonceShare, ReceiveAtNilSigner, NonceMapRace, Senders, Sender,
              Enqueue, SendOnClosed, dkgVars, netVars
<1> QED
  BY <1>1, <1>2, <1>3 DEF Next, Main

(* Key generation, when its Sleep covers the deliveries: a step that is none*)
(* of DKGPhase's own keeps what is known of the latest dealing.             *)
LEMMA LatestFrame ==
  ASSUME LatestKeyInv, VerifyInv', ClosedInv',
         UNCHANGED <<nodes, dealing, privateKeyShare, sharedPublicKey, ReceivedShares>>,
         pc' \in {"deal", "derive", "keyed"} => pc' = pc,
         pc' \in {"deal", "derive"} => UNCHANGED todo,
         pc' = "deal" => Undelivered' = Undelivered
  PROVE  LatestKeyInv'
<1> USE DEF LatestKeyInv
<1>1. LatestInv'
  BY DEF LatestInv, DealtMessage, KeyOfOneDealing
<1>2. KeyRoundInv'
  BY DEF KeyRoundInv, OneRound
<1> QED
  BY <1>1, <1>2

LEMMA ReceiveLatest ==
  ASSUME LatestKeyInv, SleepCovers, VerifyInv', ClosedInv',
         ReceiveDKGShare, UNCHANGED signVars
  PROVE  LatestKeyInv'
<1> USE DEF ReceiveDKGShare, mainVars
<1>1. handling \in Undelivered /\ handling.Type = "dkg_share"
      /\ Undelivered' \subseteq Undelivered /\ Undelivered \ {handling} \subseteq Undelivered'
  BY DeliveredUndelivered
<1>2. pc = "deal"
  BY <1>1 DEF LatestKeyInv, VerifyInv, QuietInv
<1>3. /\ handling.To \in nodes /\ handling.From \in nodes /\ handling.Payload = dealing
      /\ nodes \subseteq Ids /\ ReceivedShares \in [Ids -> Sum]
  BY <1>1, <1>2, Bounds
     DEF LatestKeyInv, VerifyInv, SigningInv, KeyInv, KeyTypeInv, ShareInv, LatestInv,
         DKGPartyTypeOK
<1>4. /\ ReceivedShares'[handling.To][handling.From] = dealing
      /\ \A n, j \in Ids : \/ ReceivedShares'[n][j] = ReceivedShares[n][j]
                           \/ ReceivedShares'[n][j] = dealing
  BY <1>3 DEF Sum
<1>5. LatestInv'
  <2>1. \A m \in Undelivered' : m.Payload = dealing
    BY <1>1, <1>2 DEF LatestKeyInv, LatestInv
  <2>2. ASSUME NEW j \in nodes \ todo, NEW n \in nodes \cap Parties
        PROVE  ReceivedShares'[n][j] = dealing \/ DealtMessage(j, n) \in Undelivered'
    <3>1. ReceivedShares[n][j] = dealing \/ DealtMessage(j, n) \in Undelivered
      BY <1>2 DEF LatestKeyInv, LatestInv
    <3>2. CASE DealtMessage(j, n) = handling
      BY <1>4, <3>2 DEF DealtMessage
    <3> QED
      BY <1>1, <1>3, <1>4, <3>1, <3>2
  <2> QED
    BY <1>2, <2>1, <2>2 DEF LatestInv, KeyOfOneDealing, Delivered, DealtMessage
<1>6. KeyRoundInv'
  BY <1>2 DEF LatestKeyInv, KeyRoundInv, OneRound, Delivered
<1> QED
  BY <1>5, <1>6 DEF LatestKeyInv

LEMMA StartLatest ==
  ASSUME LatestKeyInv, SleepCovers, VerifyInv', ClosedInv',
         (Join /\ UNCHANGED signVars) \/ StartDKG
  PROVE  LatestKeyInv'
<1> USE DEF Join, AddNode, StartDKG, Idle, netVars, mainVars, partyVars
<1>1. CASE Join
  <2>1. \A n \in Ids : sharedPublicKey[n] = Nil
    BY <1>1 DEF LatestKeyInv, VerifyInv, SigningInv, KeyInv, SetupInv, KeyedInv
  <2>2. nodes' \subseteq Ids
    BY DEF VerifyInv, SigningInv, TypeOK
  <2>3. LatestInv' /\ KeyRoundInv'
    BY <1>1, <2>1, <2>2 DEF LatestInv, KeyRoundInv, KeyOfOneDealing
  <2> QED
    BY <2>3 DEF LatestKeyInv
<1>2. CASE StartDKG
  <2>1. Undelivered = {} /\ Undelivered' = Undelivered
    BY <1>2, NetworkStays DEF LatestKeyInv, VerifyInv, QuietInv
  <2>2. LatestInv'
    BY <1>2, <2>1 DEF LatestInv, KeyOfOneDealing
  <2>3. dealing \in Nat
    BY DealingTyped DEF LatestKeyInv, VerifyInv, SigningInv
  <2>4. \A r \in 1 .. dealing : r \in 1 .. dealing' /\ r < dealing'
    BY <1>2, <2>3
  <2>5. KeyRoundInv'
    BY <1>2, <2>4 DEF LatestKeyInv, KeyRoundInv, OneRound
  <2> QED
    BY <2>2, <2>5 DEF LatestKeyInv
<1> QED
  BY <1>1, <1>2

LEMMA GenerateLatest ==
  ASSUME LatestKeyInv, SleepCovers, VerifyInv', ClosedInv',
         NEW n \in todo, BroadcastShares(n)
  PROVE  LatestKeyInv'
<1> USE DEF BroadcastShares, SendMessages, partyVars
<1>1. Undelivered' = Undelivered \cup SharesOf("dkg_share", n, dealing)
  BY SendingUndelivered
<1>2. \A m \in SharesOf("dkg_share", n, dealing) : m.Payload = dealing
  BY DEF SharesOf
<1>3. \A i \in nodes \cap Parties : DealtMessage(n, i) \in SharesOf("dkg_share", n, dealing)
  BY DEF SharesOf, DealtMessage
<1>4. LatestInv'
  <2>1. ASSUME NEW j \in nodes \ todo', NEW i \in nodes \cap Parties
        PROVE  ReceivedShares[i][j] = dealing \/ DealtMessage(j, i) \in Undelivered'
    BY <1>1, <1>3 DEF LatestKeyInv, LatestInv
  <2> QED
    BY <1>1, <1>2, <2>1 DEF LatestKeyInv, LatestInv, KeyOfOneDealing, DealtMessage
<1>5. KeyRoundInv'
  BY DEF LatestKeyInv, KeyRoundInv, OneRound
<1> QED
  BY <1>4, <1>5 DEF LatestKeyInv

LEMMA WakeLatest ==
  ASSUME LatestKeyInv, SleepCovers, VerifyInv', ClosedInv', WakeFromDealing
  PROVE  LatestKeyInv'
<1> USE DEF WakeFromDealing, netVars, partyVars
<1>1. Undelivered = {}
  BY UndeliveredMessages DEF LatestKeyInv, VerifyInv, SigningInv
<1>2. LatestInv'
  BY <1>1 DEF LatestKeyInv, LatestInv, KeyOfOneDealing
<1>3. KeyRoundInv'
  BY DEF LatestKeyInv, KeyRoundInv, OneRound
<1> QED
  BY <1>2, <1>3 DEF LatestKeyInv

LEMMA DeriveLatest ==
  ASSUME LatestKeyInv, SleepCovers, VerifyInv', ClosedInv',
         NEW n \in todo, ComputeSharedPrivateKey(n)
  PROVE  LatestKeyInv'
<1> PICK own : own = SecretShare[n]
  OBVIOUS
<1> PICK received : received = ReceivedShares[n]
  OBVIOUS
<1>1. /\ pc = "derive" /\ DeriveStep(n) /\ UNCHANGED netVars
      /\ n \in nodes /\ n \in Ids /\ todo \subseteq nodes /\ nodes \subseteq Ids
      /\ own \in 0 .. MaxDealings /\ received \in Sum
      /\ privateKeyShare \in [Ids -> Sum]
  BY DEF ComputeSharedPrivateKey, LatestKeyInv, VerifyInv, SigningInv, TypeOK,
         DKGPartyTypeOK
<1>2. CASE (CountReceived(n, received) \/ CountOwn(n, own, received))
           /\ UNCHANGED <<mainVars, partyVars>>
  <2>1. UNCHANGED <<nodes, pc, todo, dealing, privateKeyShare, sharedPublicKey,
                    ReceivedShares>>
    BY <1>1, <1>2 DEF netVars, mainVars, partyVars
  <2> QED
    BY <1>1, <2>1, LatestFrame
<1>3. CASE /\ TooFew(n, own, received)
           /\ pc' = "failed"
           /\ UNCHANGED <<todo, dealing, partyVars>>
  <2>1. UNCHANGED <<nodes, dealing, privateKeyShare, sharedPublicKey, ReceivedShares>>
    BY <1>1, <1>3 DEF netVars, partyVars
  <2> QED
    BY <1>3, <2>1, LatestFrame
<1>4. CASE /\ AddShares(n)
           /\ \E s \in SharesAdded(n, own, received) :
                privateKeyShare' = [privateKeyShare EXCEPT ![n] = s]
           /\ todo' = todo \ {n}
           /\ UNCHANGED <<pc, dealing, failure, SecretShare, ReceivedShares,
                          Commitments, sharedPublicKey>>
  <2>1. current = n /\ stage = "sum" /\ snapshot = received /\ Complete(n, own, received)
    BY <1>1, <1>4
       DEF AddShares, LatestKeyInv, VerifyInv, DeriveExactInv, SigningInv, KeyInv, DeriveInv
  <2>2. n \in Parties
    <3>1. /\ own # 0 => n \in Parties
          /\ \A j \in Held(received) : n \in Parties
      BY <1>1 DEF LatestKeyInv, VerifyInv, SigningInv, KeyInv, ReceivedInv, Held
    <3> QED
      BY <1>1, <2>1, <3>1, CompleteIsParty
  <2>3. \A j \in nodes : received[j] = dealing
    BY <1>1, <2>2 DEF LatestKeyInv, LatestInv
  <2>4. PICK s \in SharesAdded(n, own, received) :
          privateKeyShare' = [privateKeyShare EXCEPT ![n] = s]
    BY <1>4
  <2>5. dealing # 0
    BY <1>1 DEF LatestKeyInv, VerifyInv, FirstKeyInv
  <2>6. s = received
    BY <1>1, <2>1, <2>3, <2>5, OneSum DEF OwnApart
  <2>7. \A m \in nodes \ todo', j \in nodes : privateKeyShare'[m][j] = dealing
    BY <1>1, <1>4, <2>3, <2>4, <2>6 DEF LatestKeyInv, LatestInv
  <2>8. LatestInv'
    BY <1>1, <1>4, <2>7 DEF LatestKeyInv, LatestInv, KeyOfOneDealing, netVars
  <2>9. KeyRoundInv'
    BY <1>1, <1>4 DEF LatestKeyInv, KeyRoundInv, OneRound, netVars
  <2> QED
    BY <2>8, <2>9 DEF LatestKeyInv
<1> QED
  BY <1>1, <1>2, <1>3, <1>4 DEF DeriveStep

LEMMA CombineLatest ==
  ASSUME LatestKeyInv, SleepCovers, VerifyInv', ClosedInv', CombinePublicKeys
  PROVE  LatestKeyInv'
<1> USE DEF CombinePublicKeys, netVars
<1>1. \A n, j \in nodes : privateKeyShare[n][j] = dealing
  BY DEF LatestKeyInv, LatestInv
<1>2. LatestInv'
  BY <1>1 DEF LatestInv, KeyOfOneDealing
<1>3. sharedPublicKey'[0] = [n \in nodes |-> privateKeyShare[n]]
  BY DEF LatestKeyInv, VerifyInv, SigningInv, TypeOK, DKGPartyTypeOK
<1>4. dealing \in 1 .. dealing
  <2>1. dealing \in Nat /\ dealing # 0
    BY DealingTyped DEF LatestKeyInv, VerifyInv, SigningInv, FirstKeyInv
  <2> QED
    BY <2>1
<1>5. \A n, j \in nodes : sharedPublicKey'[0][n][j] = dealing
  BY <1>1, <1>3
<1>6. KeyRoundInv'
  BY <1>4, <1>5 DEF KeyRoundInv, OneRound
<1> QED
  BY <1>2, <1>6 DEF LatestKeyInv

(* The other steps: they leave key shares and the received shares alone.    *)
LEMMA OtherLatest ==
  ASSUME LatestKeyInv, SleepCovers, VerifyInv', ClosedInv',
         \/ SignMain \/ (SignHandler /\ UNCHANGED <<ReceivedShares, todo>>)
         \/ Senders \/ GenerateNoCoefficients \/ CombineAtNilNode
         \/ \E n \in todo : GenerateSecretShare(n) \/ BroadcastCommitments(n)
         \/ (TakeMessage \/ DKGMapRace) /\ UNCHANGED <<collectVars, mainVars, partyVars>>
  PROVE  LatestKeyInv'
<1> USE DEF mainVars, partyVars
<1>1. /\ inflight \subseteq SignMessages /\ messageQueue \in Seq(SignMessages)
      /\ Nil \notin SignMessages
  BY SignMessageTypes DEF LatestKeyInv, VerifyInv, SigningInv, TypeOK
<1>2. CASE SignMain
  <2>1. CASE \E n \in todo : \/ FindNoSigner(n) \/ MainInitSigning(n)
                             \/ GenerateNonceShare(n) \/ GenerateFails(n)
                             \/ GenerateAtNilSigner(n) \/ ComputeSharedNonce(n)
    <3>1. pc \in {"nonce", "collect"}
      BY <2>1 DEF FindNoSigner, MainInitSigning, GenerateNonceShare, GenerateFails,
                  GenerateAtNilSigner, AtGenerate, ComputeSharedNonce, LatestKeyInv,
                  VerifyInv, SigningInv, KeyInv, BodyInv
    <3> QED
      BY <2>1, <3>1, LatestFrame
         DEF FindNoSigner, MainInitSigning, GenerateNonceShare, GenerateFails,
             GenerateAtNilSigner, ComputeSharedNonce, CollectStep, SendMessages, Die,
             netVars
  <2>2. CASE StartSigning \/ WakeFromNonces \/ Reconstruct \/ NonceHasNoInverse
             \/ ReconstructFails \/ NonceOutOfRange
    BY <2>2, LatestFrame
       DEF StartSigning, WakeFromNonces, Reconstruct, NonceHasNoInverse,
           ReconstructFails, NonceOutOfRange, Die, netVars
  <2>3. CASE StopNetwork \/ Exit
    BY <2>3, LatestFrame DEF StopNetwork, Stop, Exit, netVars
  <2> QED
    BY <1>2, <2>1, <2>2, <2>3 DEF SignMain
<1>3. pc = "deal" => ~closed /\ ~ReceivingNonce
  BY ReceivingIsUndelivered DEF LatestKeyInv, ClosedInv, VerifyInv, QuietInv
<1>4. CASE SignHandler /\ UNCHANGED <<ReceivedShares, todo>>
  <2>1. ReceivingNonce
    BY <1>4 DEF SignHandler, HandlerFindsNoSigner, HandlerInitSigning, AtReceive,
                ReceiveNonceShare, ReceiveAtNilSigner, NonceMapRace
  <2> QED
    BY <1>3, <1>4, <2>1, LatestFrame
       DEF SignHandler, HandlerFindsNoSigner, HandlerInitSigning, ReceiveNonceShare,
           ReceiveAtNilSigner, NonceMapRace, Die, Delivered, dkgVars, netVars
<1>5. CASE Senders
  <2>1. Sender /\ UNCHANGED <<collectVars, mainVars, partyVars, signVars>>
    BY <1>5 DEF Senders
  <2>2. nodes' = nodes /\ (pc = "deal" => Undelivered' = Undelivered)
    BY <1>1, <1>3, <2>1, SenderUndelivered
  <2> QED
    BY <2>1, <2>2, LatestFrame
<1>6. CASE GenerateNoCoefficients \/ CombineAtNilNode
  BY <1>6, NetworkStays, LatestFrame DEF GenerateNoCoefficients, CombineAtNilNode
<1>7. CASE TakeMessage /\ UNCHANGED <<collectVars, mainVars, partyVars>>
  BY <1>1, <1>7, TakeUndelivered, LatestFrame
<1>8. CASE DKGMapRace /\ UNCHANGED <<collectVars, mainVars, partyVars>>
  BY <1>8, NetworkStays, LatestFrame DEF DKGMapRace
<1>9. CASE \E n \in todo : GenerateSecretShare(n) \/ BroadcastCommitments(n)
  BY <1>9, NetworkStays, LatestFrame
     DEF GenerateSecretShare, BroadcastCommitments, netVars
<1> QED
  BY <1>2, <1>4, <1>5, <1>6, <1>7, <1>8, <1>9

LEMMA InitLatest == Init => LatestKeyInv
<1> SUFFICES ASSUME Init PROVE LatestKeyInv
  OBVIOUS
<1> USE DEF Init, DKGInit, NetInit
<1>1. VerifyInv
  BY InitVerify
<1>2. ClosedInv /\ LatestInv /\ KeyRoundInv
  BY DEF ClosedInv, LatestInv, KeyRoundInv, KeyOfOneDealing
<1> QED
  BY <1>1, <1>2 DEF LatestKeyInv

LEMMA NextLatest ==
  ASSUME SleepCovers
  PROVE  LatestKeyInv /\ [Next]_vars => LatestKeyInv'
<1>1. ASSUME LatestKeyInv, Next PROVE LatestKeyInv'
  <2>1. VerifyInv' /\ ClosedInv'
    BY <1>1, NextVerify, NextClosed DEF LatestKeyInv, OneKeyOrTimely
  <2>2. CASE DKGMain /\ UNCHANGED signVars
    BY <1>1, <2>1, <2>2, StartLatest, GenerateLatest, DeriveLatest, WakeLatest,
       CombineLatest, OtherLatest DEF DKGMain
  <2>3. CASE DKGHandler /\ UNCHANGED signVars
    BY <1>1, <2>1, <2>3, ReceiveLatest, OtherLatest DEF DKGHandler, DKGMapRace
  <2>4. CASE SignHandler
    <3>1. UNCHANGED <<ReceivedShares, todo>>
      BY <2>4 DEF SignHandler, HandlerFindsNoSigner, HandlerInitSigning,
                  ReceiveNonceShare, ReceiveAtNilSigner, NonceMapRace, Die, dkgVars,
                  mainVars, partyVars
    <3> QED
      BY <1>1, <2>1, <2>4, <3>1, OtherLatest
  <2>5. CASE SignMain \/ Senders
    BY <1>1, <2>1, <2>5, OtherLatest
  <2> QED
    BY <1>1, <2>2, <2>3, <2>4, <2>5 DEF Next, Main, Handler
<1>2. ASSUME LatestKeyInv, UNCHANGED vars PROVE LatestKeyInv'
  <2>1. VerifyInv'
    BY <1>2, NextVerify DEF LatestKeyInv, OneKeyOrTimely
  <2>2. UNCHANGED <<nodes, dealing, privateKeyShare, sharedPublicKey, ReceivedShares, pc,
                    todo, closed>>
        /\ Undelivered' = Undelivered
    BY <1>2, NetworkStays DEF vars, dkgVars, netVars, mainVars, partyVars
  <2>3. ClosedInv'
    BY <1>2, <2>2 DEF LatestKeyInv, ClosedInv
  <2> QED
    BY <1>2, <2>1, <2>2, <2>3, LatestFrame
<1> QED
  BY <1>1, <1>2

(* A share of an earlier dealing, which ReceivedShares still holds, never   *)
(* gets into a key share when the Sleep of DKGPhase covers the deliveries.  *)
THEOREM KeysOfOneDealing ==
  ASSUME SleepCovers
  PROVE  Spec => []KeyOfOneDealing
<1>1. LatestKeyInv /\ [Next]_vars => LatestKeyInv'
  BY NextLatest
<1>2. LatestKeyInv => KeyOfOneDealing
  BY DEF LatestKeyInv, LatestInv
<1> QED
  BY <1>1, <1>2, InitLatest, PTL DEF Spec
=============================================================================
