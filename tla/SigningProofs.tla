---------------------------- MODULE SigningProofs ----------------------------
(***************************************************************************)
(* Proofs about the threshold signing demo for any number of parties, any  *)
(* network, any thresholds, any number of dealings and sessions, phases in *)
(* any order and any timing: the race on n.signer and the one on the maps  *)
(* are in.                                                                 *)
(***************************************************************************)
EXTENDS Signing, DKGProofs

LEMMA SessionBounds ==
  MaxSessions \in Nat /\ MaxSessions > 0 /\ MaxSessions <= MaxRounds /\ MaxRounds \in Nat
BY SigningAssumption, Bounds

LEMMA SignMessageTypes == SignMessages \subseteq AnyMessage /\ Nil \notin SignMessages
<1>1. SignMessages \subseteq AnyMessage
  BY Bounds, SessionBounds DEF SignMessages, AnyMessage, Message, MessageTypes
<1> QED
  BY <1>1, Bounds

LEMMA TypeOKKeyType == TypeOK => KeyTypeInv
<1> SUFFICES ASSUME TypeOK PROVE KeyTypeInv
  OBVIOUS
<1>1. messageQueue \in Seq(AnyMessage)
  BY SignMessageTypes, SeqMonotonic DEF TypeOK
<1> QED
  BY <1>1, SignMessageTypes DEF TypeOK, KeyTypeInv

LEMMA TypeOKKeyTypeNext == TypeOK' => KeyTypeInv'
BY TypeOKKeyType, PTL

LEMMA InitSigningInv == Init => SigningInv
<1> SUFFICES ASSUME Init PROVE SigningInv
  OBVIOUS
<1> USE DEF Init
<1>1. DKGTypeOK /\ KeyInv
  BY InitKeyInv DEF DKGInv
<1>2. Undelivered = {} /\ pc = "setup" /\ messageQueue = <<>> /\ current = Nil
      /\ inflight = {} /\ handling = Nil /\ panic = "none" /\ stage = "idle"
  BY <1>1 DEF KeyInv, SetupInv, DKGInit, NetInit, CollectInit
<1>3. messageQueue \in Seq(SignMessages) /\ <<>> \in Seq(Signer) /\ <<>> \in Seq(NonceShare)
  BY <1>2, EmptySeq
<1>4. TypeOK
  <2>1. signers \in [Ids -> Seq(Signer)] /\ nonceShares \in Seq(NonceShare)
    BY <1>3
  <2>2. \A n \in Ids : Len(signers[n]) <= 2
    BY EmptySeq
  <2> QED
    <3>1. /\ threshold \in Thresholds /\ nodes \subseteq Ids
          /\ CollectTypeOK /\ DKGPartyTypeOK
          /\ failure \in {"none", "missing shares"}
      BY <1>1 DEF DKGTypeOK
    <3>2. inflight \subseteq SignMessages /\ handling \in SignMessages \cup {Nil}
      BY <1>2
    <3>3. session \in 0 .. MaxSessions /\ held \in 0 .. 2
      BY SessionBounds
    <3> QED
      BY <1>2, <1>3, <2>1, <2>2, <3>1, <3>2, <3>3 DEF TypeOK
<1>5. FreshInv /\ NonceMessageInv
  BY <1>2 DEF FreshInv, NonceMessageInv, NoSigner
<1>6. SignerInv
  BY <1>2, EmptySeq DEF SignerInv, NoSigner, MainInits, HandlerInits
<1>7. GenerateInv /\ CollectInv /\ NonceShareInv
  BY <1>2, EmptySeq DEF GenerateInv, CollectInv, NonceShareInv
<1>8. OnlyOwnNonceMissing /\ NoNilSigner
  BY <1>2, EmptySeq DEF OnlyOwnNonceMissing, NoNilSigner
<1> QED
  BY <1>1, <1>4, <1>5, <1>6, <1>7, <1>8 DEF SigningInv
-----------------------------------------------------------------------------
(* Who has a NodeSigning object keeps it.                                   *)
LEMMA ReceivingIsUndelivered ==
  ReceivingNonce => handling \in Undelivered /\ handling.Type = "sign_nonce"
BY DEF ReceivingNonce, Undelivered

(* A step that leaves the signing state alone keeps its invariant if it     *)
(* does not enter or take part in the loops of SignPhase and leaves the     *)
(* first of them only when every node has a NodeSigning object.             *)
LEMMA SigningInvFrame ==
  ASSUME SigningInv, TypeOK', KeyInv', FreshInv',
         UNCHANGED <<nodes, threshold, session, signers, nonceShares, receiving>>,
         handling' = handling \/ receiving = "dispatch",
         \A m \in Undelivered' : m.Type = "sign_nonce" => m \in Undelivered,
         \A n \in Ids : hasPrivateKey[n] => hasPrivateKey'[n],
         pc = "nonce" => (pc' = "nonce" \/ AllSign \/ BadThreshold)
                           /\ hasPrivateKey' = hasPrivateKey,
         pc' \in {"nonce", "collect"} => UNCHANGED <<pc, todo, collectVars, held>>,
         panic' # "nil signer" \/ ~Keyed'
  PROVE  SigningInv'
<1> USE DEF SigningInv, collectVars
<1>1. UNCHANGED BadThreshold /\ AllSign' = AllSign
  BY DEF BadThreshold, AllSign, NoSigner
<1>2. NonceMessageInv'
  BY <1>1 DEF NonceMessageInv
<1>3. SignerInv'
  <2>1. receiving' # "dispatch" => ReceivingNonce'
    BY DEF SignerInv, ReceivingNonce
  <2>2. \A n \in Ids : MainInits(n)' => MainInits(n)
    BY DEF MainInits, KeyInv, BodyInv
  <2>3. \A n \in Ids : HandlerInits(n)' => HandlerInits(n)
    BY DEF HandlerInits, ReceivingNonce
  <2> QED
    BY <2>1, <2>2, <2>3 DEF SignerInv, NoSigner
<1>4. GenerateInv'
  <2>1. pc' = "nonce" => \A n \in nodes \ todo' : ~NoSigner(n)'
    BY DEF GenerateInv, NoSigner
  <2>2. stage' = "generate" => (hasPrivateKey'[current'] => ~NoSigner(current)')
    BY DEF GenerateInv, NoSigner, KeyInv, BodyInv
  <2>3. receiving' = "receive" => (hasPrivateKey'[handling'.To] => ~NoSigner(handling.To)')
    <3> SUFFICES ASSUME receiving = "receive", hasPrivateKey'[handling.To]
                 PROVE  ~NoSigner(handling.To)
      BY DEF NoSigner
    <3>1. handling \in Undelivered /\ handling.Type = "sign_nonce"
      BY ReceivingIsUndelivered DEF SignerInv
    <3>2. handling.To \in nodes /\ (pc = "nonce" \/ AllSign)
      BY <3>1 DEF NonceMessageInv
    <3> QED
      BY <3>2 DEF AllSign, GenerateInv
  <2> QED
    BY <2>1, <2>2, <2>3 DEF GenerateInv
<1>5. CollectInv'
  BY <1>1 DEF CollectInv, Complete, Held
<1>6. NonceShareInv'
  BY <1>1 DEF NonceShareInv
<1>7. OnlyOwnNonceMissing' /\ NoNilSigner'
  BY DEF OnlyOwnNonceMissing, NoNilSigner
<1> QED
  BY <1>2, <1>3, <1>4, <1>5, <1>6, <1>7
-----------------------------------------------------------------------------
(* The steps of DKGPhase, of the handler on its messages, and of the sender *)
(* goroutines.                                                              *)
LEMMA DKGPhaseTypeOK ==
  ASSUME SigningInv, KeyInv', DKGMain \/ ReceiveDKGShare \/ DKGMapRace, UNCHANGED signVars
  PROVE  TypeOK'
<1> USE DEF SigningInv, signVars, netVars, collectVars, mainVars, partyVars
<1>1. CollectTypeOK' /\ DKGPartyTypeOK' /\ nodes' \subseteq Ids
  BY DEF KeyInv, KeyTypeInv
<1>2. ASSUME NEW n \in todo, BroadcastShares(n) PROVE TypeOK'
  <2>1. n \in Ids /\ n \in nodes /\ nodes \subseteq Ids /\ dealing \in 1 .. MaxDealings
    BY <1>2, Bounds
       DEF KeyInv, KeyTypeInv, DKGPartyTypeOK, SetupInv, BroadcastShares
  <2>2. SharesOf("dkg_share", n, dealing) \subseteq SignMessages
    BY <2>1 DEF SharesOf, SignMessages, Message
  <2>3. /\ inflight' \subseteq SignMessages
        /\ UNCHANGED <<threshold, nodes, messageQueue, handling, pc, failure>>
        /\ UNCHANGED <<session, signers, held, receiving, nonceShares, signature>>
    BY <1>2, <2>2 DEF BroadcastShares, SendMessages, TypeOK
  <2> HIDE DEF SigningInv, collectVars, mainVars, partyVars, netVars, signVars
  <2>4. TypeOK
    BY DEF SigningInv
  <2> QED
    BY <1>1, <2>3, <2>4 DEF TypeOK
<1>3. ASSUME NEW n \in todo, ComputeSharedPrivateKey(n) PROVE TypeOK'
  BY <1>1, <1>3 DEF ComputeSharedPrivateKey, DeriveStep, TypeOK
<1>4. CASE DKGMain
  <2>1. CASE \E n \in todo : GenerateSecretShare(n) \/ BroadcastCommitments(n)
    BY <1>1, <2>1 DEF GenerateSecretShare, BroadcastCommitments, TypeOK
  <2>2. CASE \/ Join \/ StartDKG \/ GenerateNoCoefficients \/ WakeFromDealing
             \/ CombinePublicKeys \/ CombineAtNilNode
    BY <1>1, <2>2
       DEF Join, AddNode, StartDKG, GenerateNoCoefficients, WakeFromDealing,
           CombinePublicKeys, CombineAtNilNode, TypeOK
  <2> QED
    BY <1>2, <1>3, <1>4, <2>1, <2>2 DEF DKGMain
<1>5. CASE ReceiveDKGShare \/ DKGMapRace
  BY <1>1, <1>5 DEF ReceiveDKGShare, Delivered, DKGMapRace, TypeOK
<1> QED
  BY <1>4, <1>5

LEMMA TransportTypeOK ==
  ASSUME SigningInv, KeyInv', TakeMessage \/ Sender,
         UNCHANGED <<collectVars, mainVars, partyVars, signVars>>
  PROVE  TypeOK'
<1> USE DEF SigningInv, signVars, netVars, collectVars, mainVars, partyVars
<1>1. CollectTypeOK' /\ DKGPartyTypeOK' /\ nodes' \subseteq Ids
  BY DEF KeyInv, KeyTypeInv
<1>2. messageQueue \in Seq(SignMessages) /\ inflight \subseteq SignMessages
  BY DEF TypeOK
<1>3. CASE TakeMessage
  <2>1. messageQueue' \in Seq(SignMessages) /\ handling' \in SignMessages
        /\ UNCHANGED <<threshold, inflight>>
    BY <1>2, <1>3, SignMessageTypes, TakeUndelivered
  <2> QED
    BY <1>1, <2>1 DEF TypeOK
<1>4. CASE Sender
  <2>1. messageQueue' \in Seq(SignMessages) /\ inflight' \subseteq SignMessages
        /\ UNCHANGED <<threshold, handling>>
    BY <1>2, <1>4, SenderUndelivered
  <2> QED
    BY <1>1, <2>1 DEF TypeOK
<1> QED
  BY <1>3, <1>4

LEMMA JoinSigningInv ==
  ASSUME SigningInv, Join, UNCHANGED signVars
  PROVE  SigningInv'
<1> USE DEF SigningInv, signVars
<1>1. KeyInv' /\ TypeOK'
  BY JoinKeyInv, DKGPhaseTypeOK DEF DKGMain
<1>2. /\ session = 0 /\ pc = "setup" /\ nonceShares = <<>>
      /\ \A n \in Ids : NoSigner(n)
      /\ \A m \in Undelivered : m.Type # "sign_nonce"
      /\ UNCHANGED <<pc, collectVars, handling, hasPrivateKey, sharedPublicKey, panic>>
      /\ Undelivered' = Undelivered
  BY NetworkStays DEF Join, AddNode, FreshInv, mainVars, partyVars
<1>3. FreshInv' /\ NonceMessageInv'
  BY <1>2 DEF FreshInv, NonceMessageInv, NoSigner
<1>4. ~ReceivingNonce /\ receiving = "dispatch"
  BY <1>2, ReceivingIsUndelivered DEF SignerInv
<1>5. \A n \in Ids : signers[n] = <<>> /\ Len(signers[n]) = 0
  BY <1>2, EmptySeq DEF NoSigner
<1>6. SignerInv'
  BY <1>2, <1>4, <1>5 DEF SignerInv, NoSigner, MainInits, HandlerInits
<1>7. stage \notin {"init", "generate"}
  BY <1>2 DEF KeyInv, BodyInv
<1>8. GenerateInv' /\ CollectInv'
  BY <1>2, <1>4, <1>7 DEF GenerateInv, CollectInv, collectVars
<1>9. NonceShareInv' /\ OnlyOwnNonceMissing'
  BY <1>2, EmptySeq DEF NonceShareInv, OnlyOwnNonceMissing
<1>10. NoNilSigner'
  BY <1>2 DEF NoNilSigner, Keyed
<1> QED
  BY <1>1, <1>3, <1>6, <1>8, <1>9, <1>10

(* The steps of DKGPhase never take a key away from a node.                 *)
LEMMA DKGPhaseSigningInv ==
  ASSUME SigningInv, Alive, DKGMain, ~Join, UNCHANGED signVars
  PROVE  SigningInv'
<1> USE DEF SigningInv, signVars
<1>1. KeyInv' /\ TypeOK'
  BY MainKeyInv, DKGPhaseTypeOK
<1>2. /\ pc \notin {"nonce", "collect"}
      /\ pc' \in {"deal", "derive", "keyed", "failed"}
      /\ UNCHANGED <<nodes, threshold, handling>>
      /\ panic' # "nil signer"
  BY DEF DKGMain, Join, StartDKG, GenerateSecretShare, BroadcastCommitments,
         BroadcastShares, SendMessages, ComputeSharedPrivateKey, DeriveStep,
         GenerateNoCoefficients, WakeFromDealing, CombinePublicKeys,
         CombineAtNilNode, netVars, mainVars, Idle, Alive
<1>3. \A n \in Ids : hasPrivateKey[n] => hasPrivateKey'[n]
  <2>1. ASSUME NEW n \in todo, ComputeSharedPrivateKey(n)
        PROVE  \/ hasPrivateKey' = hasPrivateKey
               \/ hasPrivateKey' = [hasPrivateKey EXCEPT ![n] = TRUE]
    BY <2>1 DEF ComputeSharedPrivateKey, DeriveStep, partyVars
  <2>2. \/ hasPrivateKey' = hasPrivateKey
        \/ \E n \in todo : hasPrivateKey' = [hasPrivateKey EXCEPT ![n] = TRUE]
    BY <2>1 DEF DKGMain, Join, StartDKG, GenerateSecretShare, BroadcastCommitments,
                BroadcastShares, GenerateNoCoefficients, WakeFromDealing,
                CombinePublicKeys, CombineAtNilNode, partyVars
  <2>3. hasPrivateKey \in [Ids -> BOOLEAN]
    BY DEF KeyInv, KeyTypeInv, DKGPartyTypeOK
  <2> QED
    BY <2>2, <2>3, Zenon
<1>4. \A m \in Undelivered' : m.Type = "sign_nonce" => m \in Undelivered
  <2>1. ASSUME NEW n \in todo, BroadcastShares(n)
        PROVE  Undelivered' = Undelivered \cup SharesOf("dkg_share", n, dealing)
    BY <2>1, SendingUndelivered DEF BroadcastShares
  <2>2. CASE \E n \in todo : BroadcastShares(n)
    BY <2>1, <2>2 DEF SharesOf
  <2>3. CASE ~\E n \in todo : BroadcastShares(n)
    <3>1. UNCHANGED <<inflight, messageQueue, handling>>
      BY <2>3 DEF DKGMain, Join, StartDKG, GenerateSecretShare,
                  BroadcastCommitments, ComputeSharedPrivateKey,
                  GenerateNoCoefficients, WakeFromDealing, CombinePublicKeys,
                  CombineAtNilNode, netVars
    <3> QED
      BY <3>1, NetworkStays
  <2> QED
    BY <2>2, <2>3
<1>5. FreshInv'
  BY <1>2, <1>4 DEF FreshInv, NoSigner
<1> QED
  BY <1>1, <1>2, <1>3, <1>4, <1>5, SigningInvFrame

LEMMA TransportSigningInv ==
  ASSUME SigningInv, Alive, TakeMessage \/ Sender,
         UNCHANGED <<collectVars, mainVars, partyVars, signVars>>
  PROVE  SigningInv'
<1> USE DEF SigningInv, signVars, mainVars, partyVars
<1>1. KeyInv' /\ TypeOK'
  BY TakeMessageKeyInv, SenderKeyInv, TransportTypeOK
<1>2. /\ UNCHANGED <<nodes, threshold>>
      /\ Undelivered' \subseteq Undelivered
      /\ handling' = handling \/ receiving = "dispatch"
      /\ panic' # "nil signer"
  <2>1. messageQueue \in Seq(SignMessages) /\ inflight \subseteq SignMessages
    BY DEF TypeOK
  <2>2. CASE TakeMessage
    <3>1. ~ReceivingNonce /\ panic' = panic
      BY <2>2 DEF TakeMessage, ReceivingNonce
    <3>2. receiving = "dispatch"
      BY <3>1 DEF SignerInv
    <3> QED
      BY <2>1, <2>2, <3>1, <3>2, SignMessageTypes, TakeUndelivered DEF Alive
  <2>3. CASE Sender
    <3>1. panic' # "nil signer"
      BY <2>3 DEF Sender, Enqueue, SendOnClosed, Alive
    <3> QED
      BY <2>1, <2>3, <3>1, SenderUndelivered
  <2> QED
    BY <2>2, <2>3
<1>3. FreshInv'
  BY <1>2 DEF FreshInv, NoSigner
<1> QED
  BY <1>1, <1>2, <1>3, SigningInvFrame

LEMMA ReceiveDKGSigningInv ==
  ASSUME SigningInv, Alive, ReceiveDKGShare, UNCHANGED signVars
  PROVE  SigningInv'
<1> USE DEF SigningInv, signVars, mainVars, ReceiveDKGShare
<1>1. KeyInv' /\ TypeOK'
  BY ReceiveKeyInv, DKGPhaseTypeOK
<1>2. Undelivered' \subseteq Undelivered
  BY DeliveredUndelivered
<1>3. receiving = "dispatch"
  BY DEF SignerInv, ReceivingNonce
<1>4. FreshInv'
  BY <1>2 DEF FreshInv, NoSigner
<1> QED
  BY <1>1, <1>2, <1>3, <1>4, SigningInvFrame DEF Delivered, Alive

(* A process that dies changes nothing.                                     *)
LEMMA DyingSigningInv ==
  ASSUME SigningInv, panic' # "nil signer" \/ ~Keyed',
         UNCHANGED <<threshold, nodes, inflight, messageQueue, handling, closed>>,
         UNCHANGED <<collectVars, mainVars, partyVars, signVars>>
  PROVE  SigningInv'
<1> USE DEF SigningInv, signVars, mainVars, partyVars
<1>1. KeyInv'
  BY DyingKeyInv
<1>2. TypeOK'
  BY <1>1 DEF TypeOK, KeyInv, KeyTypeInv
<1>3. Undelivered' = Undelivered
  BY NetworkStays
<1>4. FreshInv'
  BY <1>3 DEF FreshInv, NoSigner
<1> QED
  BY <1>1, <1>2, <1>3, <1>4, SigningInvFrame

LEMMA DKGHandlerSigningInv ==
  ASSUME SigningInv, Alive, DKGHandler, UNCHANGED signVars
  PROVE  SigningInv'
<1>1. CASE TakeMessage /\ UNCHANGED <<collectVars, mainVars, partyVars>>
  BY <1>1, TransportSigningInv
<1>2. CASE ReceiveDKGShare
  BY <1>2, ReceiveDKGSigningInv
<1>3. CASE DKGMapRace
  BY <1>3, DyingSigningInv DEF DKGMapRace
<1> QED
  BY <1>1, <1>2, <1>3 DEF DKGHandler
-----------------------------------------------------------------------------
(* SignPhase's own steps.  Those that end a loop or the phase are instances *)
(* of the frame.                                                            *)
LEMMA PhaseEndSigningInv ==
  ASSUME SigningInv, TypeOK', current' = Nil, stage' = "idle", session # 0,
         UNCHANGED <<nodes, threshold, inflight, messageQueue, handling, dealing, partyVars>>,
         UNCHANGED <<session, signers, receiving, nonceShares>>,
         pc' \in {"signed", "stopped", "exited", "failed"},
         pc = "nonce" => BadThreshold,
         panic' # "nil signer"
  PROVE  SigningInv'
<1> USE DEF SigningInv, partyVars
<1>1. Undelivered' = Undelivered
  BY NetworkStays
<1>2. KeyTypeInv' /\ BodyInv'
  BY TypeOKKeyTypeNext DEF BodyInv
<1>3. KeyInv'
  BY <1>1, <1>2, KeyInvFrame
<1>4. FreshInv'
  BY DEF FreshInv
<1> QED
  BY <1>1, <1>3, <1>4, SigningInvFrame

LEMMA GenerateFailsSigningInv ==
  ASSUME SigningInv, Alive, NEW n \in todo, GenerateFails(n)
  PROVE  SigningInv'
<1> USE DEF SigningInv, GenerateFails, LeaveBody, netVars, signVars
<1>1. TypeOK'
  BY NothingCollected DEF TypeOK, CollectTypeOK, DKGPartyTypeOK, partyVars
<1>2. session # 0 /\ pc = "nonce"
  BY DEF FreshInv, AtGenerate
<1> QED
  BY <1>1, <1>2, PhaseEndSigningInv DEF Alive

LEMMA EndSigningInv ==
  ASSUME SigningInv, Alive,
         Reconstruct \/ NonceHasNoInverse \/ ReconstructFails \/ StopNetwork \/ Exit
  PROVE  SigningInv'
<1> USE DEF SigningInv
<1>1. /\ pc \in {"collect", "signed", "stopped"}
      /\ pc' \in {"signed", "stopped", "exited", "failed"}
      /\ failure' \in {failure, "zero nonce", "too few points"}
      /\ panic' = panic
      /\ UNCHANGED <<nodes, threshold, inflight, messageQueue, handling, dealing>>
      /\ UNCHANGED <<collectVars, todo, partyVars, session, signers, held, receiving,
                     nonceShares>>
  BY DEF Reconstruct, NonceHasNoInverse, ReconstructFails, StopNetwork, Exit, Stop,
         netVars, signVars
<1>2. session # 0
  BY <1>1 DEF FreshInv
<1>3. current' = Nil /\ stage' = "idle"
  <2>1. CASE pc = "collect"
    <3>1. todo = {}
      BY <2>1 DEF Reconstruct, NonceHasNoInverse, ReconstructFails, StopNetwork, Exit
    <3> QED
      BY <1>1, <3>1 DEF KeyInv, BodyInv, collectVars
  <2>2. CASE pc # "collect"
    BY <1>1, <2>2, NoBody DEF collectVars
  <2> QED
    BY <2>1, <2>2
<1>4. signature' \in Signature \cup {Nil}
  <2>1. CASE Reconstruct
    <3> HIDE DEF SigningInv
    <3>0. nonceShares \in Seq(NonceShare)
      BY DEF SigningInv, TypeOK
    <3>1. Len(nonceShares) \in Nat /\ threshold \in 2 .. Len(nonceShares)
      BY <2>1, <3>0, LenProperties DEF Reconstruct
    <3>2. \A i \in 1 .. threshold : nonceShares[i] \in NonceShare
      <4>1. \A i \in 1 .. Len(nonceShares) : nonceShares[i] \in NonceShare
        BY <3>0, ElementOfSeq
      <4> QED
        BY <3>1, <4>1
    <3>3. SubSeq(nonceShares, 1, threshold) \in Seq(NonceShare)
      BY <3>1, <3>2, SubSeqProperties
    <3> QED
      BY <2>1, <3>3, KeySharesTyped DEF Reconstruct, Signature, SigningInv
  <2>2. CASE ~Reconstruct
    BY <2>2 DEF TypeOK, NonceHasNoInverse, ReconstructFails, StopNetwork, Exit, signVars
  <2> QED
    BY <2>1, <2>2
<1>5. TypeOK'
  <2>1. CollectTypeOK' /\ DKGPartyTypeOK'
    BY <1>1 DEF TypeOK, CollectTypeOK, DKGPartyTypeOK, collectVars, partyVars
  <2> QED
    BY <1>1, <1>4, <2>1 DEF TypeOK
<1> QED
  BY <1>1, <1>2, <1>3, <1>5, PhaseEndSigningInv DEF Alive

LEMMA StartSigningInv ==
  ASSUME SigningInv, Alive, StartSigning
  PROVE  SigningInv'
<1> USE DEF StartSigning, Idle, netVars, collectVars, partyVars
<1>1. current = Nil /\ stage = "idle" /\ pc \notin {"nonce", "derive", "collect"}
  BY NoBody DEF SigningInv
<1>2. session \in Nat /\ session' \in Nat /\ session' \in 1 .. MaxSessions
  <2>1. session \in 0 .. MaxSessions
    BY DEF SigningInv, TypeOK
  <2> QED
    BY <2>1, SessionBounds
<1>3. TypeOK'
  <2>1. CollectTypeOK' /\ DKGPartyTypeOK'
    BY DEF SigningInv, TypeOK, CollectTypeOK, DKGPartyTypeOK
  <2>2. nonceShares' \in Seq(NonceShare)
    BY EmptySeq
  <2>3. session' \in 0 .. MaxSessions
    BY <1>2, SessionBounds
  <2> QED
    BY <2>1, <2>2, <2>3 DEF SigningInv, TypeOK
<1>4. Undelivered' = Undelivered
  BY NetworkStays
<1>5. KeyTypeInv' /\ BodyInv'
  BY <1>1, <1>3, TypeOKKeyTypeNext DEF BodyInv
<1>6. KeyInv'
  BY <1>4, <1>5, KeyInvFrame DEF SigningInv
<1>7. FreshInv'
  BY <1>2 DEF FreshInv
<1>8. NonceMessageInv'
  BY <1>2, <1>4 DEF SigningInv, NonceMessageInv, BadThreshold
<1>9. SignerInv'
  BY <1>1 DEF SigningInv, SignerInv, NoSigner, MainInits, HandlerInits, ReceivingNonce
<1>10. GenerateInv' /\ CollectInv'
  BY <1>1 DEF SigningInv, GenerateInv, CollectInv, NoSigner
<1>11. NonceShareInv' /\ OnlyOwnNonceMissing'
  BY EmptySeq DEF NonceShareInv, OnlyOwnNonceMissing
<1>12. NoNilSigner'
  BY DEF NoNilSigner, Alive
<1> QED
  BY <1>3, <1>6, <1>7, <1>8, <1>9, <1>10, <1>11, <1>12 DEF SigningInv

LEMMA FindNoSignerSigningInv ==
  ASSUME SigningInv, Alive, NEW n \in todo, FindNoSigner(n)
  PROVE  SigningInv'
<1> USE DEF FindNoSigner, netVars, mainVars, partyVars, signVars
<1>1. n \in nodes /\ n \in Ids /\ n # Nil
  BY Bounds DEF SigningInv, TypeOK, DKGPartyTypeOK
<1>2. TypeOK'
  <2>1. CollectTypeOK' /\ DKGPartyTypeOK'
    BY <1>1 DEF SigningInv, TypeOK, CollectTypeOK, DKGPartyTypeOK
  <2> QED
    BY <2>1 DEF SigningInv, TypeOK
<1>3. Undelivered' = Undelivered
  BY NetworkStays
<1>4. KeyTypeInv' /\ BodyInv'
  BY <1>1, <1>2, TypeOKKeyTypeNext DEF BodyInv
<1>5. KeyInv'
  BY <1>3, <1>4, KeyInvFrame DEF SigningInv
<1>6. FreshInv' /\ NonceMessageInv'
  BY <1>3 DEF SigningInv, FreshInv, NonceMessageInv, BadThreshold, AllSign, NoSigner
<1>7. SignerInv'
  <2>1. signers[n] = <<>> /\ Len(signers[n]) = 0
    BY EmptySeq DEF NoSigner
  <2>2. \A i \in Ids : MainInits(i)' => i = n
    BY DEF MainInits
  <2>3. \A i \in Ids : HandlerInits(i)' => HandlerInits(i)
    BY DEF HandlerInits, ReceivingNonce
  <2> QED
    BY <1>1, <2>1, <2>2, <2>3 DEF SigningInv, SignerInv, NoSigner, ReceivingNonce
<1>8. GenerateInv' /\ CollectInv'
  BY DEF SigningInv, GenerateInv, CollectInv, NoSigner
<1>9. NonceShareInv' /\ OnlyOwnNonceMissing'
  BY DEF SigningInv, NonceShareInv, OnlyOwnNonceMissing, AllSign, NoSigner
<1>10. NoNilSigner'
  BY DEF NoNilSigner, Alive
<1> QED
  BY <1>2, <1>5, <1>6, <1>7, <1>8, <1>9, <1>10 DEF SigningInv

LEMMA WakeFromNoncesSigningInv ==
  ASSUME SigningInv, Alive, WakeFromNonces
  PROVE  SigningInv'
<1> USE DEF WakeFromNonces, netVars, collectVars, partyVars, signVars
<1>1. current = Nil /\ stage = "idle"
  BY DEF SigningInv, KeyInv, BodyInv
<1>2. TypeOK'
  <2>1. CollectTypeOK' /\ DKGPartyTypeOK'
    BY DEF SigningInv, TypeOK, CollectTypeOK, DKGPartyTypeOK
  <2> QED
    BY <2>1 DEF SigningInv, TypeOK
<1>3. Undelivered' = Undelivered
  BY NetworkStays
<1>4. KeyTypeInv' /\ BodyInv'
  BY <1>1, <1>2, TypeOKKeyTypeNext DEF BodyInv
<1>5. KeyInv'
  BY <1>3, <1>4, KeyInvFrame DEF SigningInv
<1>6. AllSign
  BY DEF SigningInv, GenerateInv, AllSign
<1>7. FreshInv' /\ NonceMessageInv'
  BY <1>3, <1>6 DEF SigningInv, FreshInv, NonceMessageInv, BadThreshold, AllSign, NoSigner
<1>8. SignerInv'
  BY DEF SigningInv, SignerInv, NoSigner, MainInits, HandlerInits, ReceivingNonce
<1>9. GenerateInv' /\ CollectInv'
  BY <1>1, <1>6 DEF SigningInv, GenerateInv, CollectInv, NoSigner, AllSign
<1>10. NonceShareInv' /\ OnlyOwnNonceMissing'
  BY DEF SigningInv, NonceShareInv, OnlyOwnNonceMissing, AllSign, NoSigner
<1>11. NoNilSigner'
  BY DEF NoNilSigner, Alive
<1> QED
  BY <1>2, <1>5, <1>7, <1>8, <1>9, <1>10, <1>11 DEF SigningInv

(* A node finds no n.signer after InitSigning only when it has no key, and  *)
(* then there is no public key.                                             *)
LEMMA NilSignerSigningInv ==
  ASSUME SigningInv, NEW n \in nodes, NoSigner(n), ~hasPrivateKey[n], Die("nil signer")
  PROVE  SigningInv'
<1>1. ~Keyed
  BY KeyMeansFull DEF SigningInv, Keyed
<1>2. ~Keyed'
  BY <1>1 DEF Keyed, Die, partyVars
<1> QED
  BY <1>2, DyingSigningInv DEF Die
-----------------------------------------------------------------------------
(* The steps that change a NodeSigning object or make one: no node loses    *)
(* its object, and no object loses a share.                                 *)
Grown ==
  \A n \in Ids : \A i \in 1 .. Len(signers[n]) :
    /\ i \in 1 .. Len(signers'[n])
    /\ signers[n][i].NonceShare # 0 => signers'[n][i].NonceShare # 0
    /\ Held(signers[n][i].ReceivedNonces) \subseteq Held(signers'[n][i].ReceivedNonces)

(* The objects of every node, by type.                                      *)
SignersTyped ==
  \A n \in Ids :
    /\ signers[n] \in Seq(Signer)
    /\ Len(signers[n]) \in 0 .. 2
    /\ NoSigner(n) <=> Len(signers[n]) = 0
    /\ \A i \in 1 .. Len(signers[n]) :
         /\ signers[n][i] \in Signer
         /\ signers[n][i].NonceShare \in 0 .. MaxSessions
         /\ signers[n][i].ReceivedNonces \in Sum

LEMMA SignerTyped == TypeOK => SignersTyped
<1> SUFFICES ASSUME TypeOK, NEW n \in Ids
             PROVE  /\ signers[n] \in Seq(Signer)
                    /\ Len(signers[n]) \in 0 .. 2
                    /\ NoSigner(n) <=> Len(signers[n]) = 0
                    /\ \A i \in 1 .. Len(signers[n]) :
                         /\ signers[n][i] \in Signer
                         /\ signers[n][i].NonceShare \in 0 .. MaxSessions
                         /\ signers[n][i].ReceivedNonces \in Sum
  BY DEF SignersTyped
<1>1. signers[n] \in Seq(Signer) /\ Len(signers[n]) <= 2
  BY DEF TypeOK
<1>2. Len(signers[n]) \in Nat
  BY <1>1, LenProperties
<1>3. \A i \in 1 .. Len(signers[n]) : signers[n][i] \in Signer
  BY <1>1, ElementOfSeq
<1>4. \A x \in Signer : x.NonceShare \in 0 .. MaxSessions /\ x.ReceivedNonces \in Sum
  BY DEF Signer
<1>5. signers[n] = <<>> <=> Len(signers[n]) = 0
  BY <1>1, EmptySeq
<1>6. Len(signers[n]) \in 0 .. 2
  <2>1. \A k \in Nat : k <= 2 => k \in 0 .. 2
    OBVIOUS
  <2> QED
    BY <1>1, <1>2, <2>1
<1> QED
  BY <1>1, <1>3, <1>4, <1>5, <1>6 DEF NoSigner

LEMMA SignerTypedNext == TypeOK' => SignersTyped'
BY SignerTyped, PTL

LEMMA GrownKeeps ==
  ASSUME SigningInv, TypeOK', Grown, UNCHANGED <<nodes, pc, held, nonceShares>>,
         pc = "collect" => UNCHANGED collectVars
  PROVE  /\ \A n \in Ids : ~NoSigner(n) => ~NoSigner(n)'
         /\ AllSign => AllSign'
         /\ CollectInv'
         /\ NonceShareInv' /\ OnlyOwnNonceMissing'
<1> USE DEF SigningInv
<1>1. \A n \in Ids : ~NoSigner(n) => ~NoSigner(n)'
  <2> SUFFICES ASSUME NEW n \in Ids, ~NoSigner(n) PROVE ~NoSigner(n)'
    OBVIOUS
  <2>1. Len(signers[n]) \in 0 .. 2 /\ Len(signers[n]) # 0
    BY SignerTyped DEF SignersTyped
  <2>2. 1 \in 1 .. Len(signers'[n])
    BY <2>1 DEF Grown
  <2>3. Len(signers'[n]) # 0
    BY <2>2
  <2> QED
    BY <2>3, SignerTypedNext DEF SignersTyped
<1>2. AllSign => AllSign'
  BY <1>1 DEF AllSign, TypeOK
<1>3. CollectInv'
  <2> SUFFICES ASSUME pc = "collect" PROVE CollectInv'
    BY DEF CollectInv
  <2>1. AllSign'
    BY <1>2 DEF CollectInv
  <2>2. CASE stage = "idle"
    BY <2>1, <2>2 DEF CollectInv, collectVars
  <2>3. CASE stage # "idle"
    <3> DEFINE old == signers[current][held]
               new == signers'[current][held]
    <3>0. current \in nodes /\ nodes \subseteq Ids /\ total \in 0 .. Cardinality(Ids)
      BY <2>3 DEF TypeOK, CollectTypeOK, KeyInv, BodyInv
    <3>1. current \in Ids /\ total \in Nat
      BY <3>0, FiniteIds
    <3>2. held \in 1 .. Len(signers[current])
      BY <2>3 DEF CollectInv
    <3>3. /\ held \in 1 .. Len(signers'[current])
          /\ old.NonceShare # 0 => new.NonceShare # 0
          /\ Held(old.ReceivedNonces) \subseteq Held(new.ReceivedNonces)
      BY <3>1, <3>2 DEF Grown
    <3>4. /\ Cardinality(Held(old.ReceivedNonces)) <= Cardinality(Held(new.ReceivedNonces))
          /\ Cardinality(Held(old.ReceivedNonces)) \in Nat
          /\ Cardinality(Held(new.ReceivedNonces)) \in Nat
      BY <3>3, HeldIds, FiniteIds, FS_Subset
    <3>5. stage = "count" => total <= Cardinality(Held(new.ReceivedNonces))
      BY <3>1, <3>4 DEF CollectInv
    <3>6. stage = "sum" =>
            /\ Complete(current, new.NonceShare, snapshot)
            /\ Held(snapshot) \subseteq Held(new.ReceivedNonces)
      <4> SUFFICES ASSUME stage = "sum"
                   PROVE  /\ Complete(current, new.NonceShare, snapshot)
                          /\ Held(snapshot) \subseteq Held(new.ReceivedNonces)
        OBVIOUS
      <4>1. /\ Complete(current, old.NonceShare, snapshot)
            /\ Held(snapshot) \subseteq Held(old.ReceivedNonces)
        BY DEF CollectInv
      <4>2. Held(snapshot) \subseteq Held(snapshot)
        OBVIOUS
      <4>3. Complete(current, new.NonceShare, snapshot)
        <5> HIDE DEF old, new
        <5> QED
          BY <3>1, <3>3, <4>1, <4>2, CompleteGrows
      <4> QED
        BY <3>3, <4>1, <4>3
    <3> QED
      BY <2>1, <3>3, <3>5, <3>6 DEF CollectInv, collectVars, Complete, Held
  <2> QED
    BY <2>2, <2>3
<1>4. NonceShareInv' /\ OnlyOwnNonceMissing'
  BY <1>2 DEF NonceShareInv, OnlyOwnNonceMissing
<1> QED
  BY <1>1, <1>2, <1>3, <1>4

(* InitSigning adds an empty object, at a node that has a key share.        *)
LEMMA InitSigningGrows ==
  ASSUME TypeOK, NEW n \in Ids, InitSigning(n), Len(signers[n]) <= 1
  PROVE  /\ signers' \in [Ids -> Seq(Signer)]
         /\ \A m \in Ids : Len(signers'[m]) <= 2
         /\ \A m \in Ids \ {n} : signers'[m] = signers[m]
         /\ hasPrivateKey[n] => Len(signers'[n]) = Len(signers[n]) + 1
         /\ ~hasPrivateKey[n] => signers' = signers
         /\ Grown
         /\ \A m \in Ids : \A i \in 1 .. Len(signers'[m]) :
              \/ i \in 1 .. Len(signers[m]) /\ signers'[m][i] = signers[m][i]
              \/ Held(signers'[m][i].ReceivedNonces) = {}
<1>1. CASE ~hasPrivateKey[n]
  <2>1. signers' = signers
    BY <1>1 DEF InitSigning
  <2> QED
    BY <1>1, <2>1 DEF TypeOK, Grown
<1>2. CASE hasPrivateKey[n]
  <2> DEFINE fresh == NewNodeSigning(n)
  <2>1. signers' = [signers EXCEPT ![n] = Append(signers[n], fresh)]
    BY <1>2 DEF InitSigning
  <2>2. fresh \in Signer
    <3>1. privateKeyShare[n] \in Sum
      BY DEF TypeOK, DKGPartyTypeOK
    <3>2. 0 \in 0 .. MaxSessions
      BY SessionBounds
    <3> QED
      BY <3>1, <3>2, NothingCollected DEF NewNodeSigning, Signer
  <2>3. signers \in [Ids -> Seq(Signer)] /\ \A m \in Ids : Len(signers[m]) <= 2
    BY DEF TypeOK
  <2>4. Held(fresh.ReceivedNonces) = {}
    BY DEF NewNodeSigning, Held, NoShares
  <2> HIDE DEF fresh
  <2>5. /\ signers'[n] = Append(signers[n], fresh)
        /\ \A m \in Ids \ {n} : signers'[m] = signers[m]
    BY <2>1, <2>3
  <2>6. /\ Append(signers[n], fresh) \in Seq(Signer)
        /\ Len(Append(signers[n], fresh)) = Len(signers[n]) + 1
        /\ Append(signers[n], fresh)[Len(signers[n]) + 1] = fresh
        /\ \A i \in 1 .. Len(signers[n]) : Append(signers[n], fresh)[i] = signers[n][i]
        /\ Len(signers[n]) \in Nat
    BY <2>2, <2>3, AppendProperties, LenProperties
  <2>7. signers' \in [Ids -> Seq(Signer)]
    BY <2>1, <2>3, <2>6
  <2>8. \A i \in 1 .. Len(signers[n]) + 1 :
          i \in 1 .. Len(signers[n]) \/ i = Len(signers[n]) + 1
    BY <2>6
  <2>9. Grown
    BY <2>5, <2>6 DEF Grown
  <2>10. \A m \in Ids : \A i \in 1 .. Len(signers'[m]) :
           \/ i \in 1 .. Len(signers[m]) /\ signers'[m][i] = signers[m][i]
           \/ Held(signers'[m][i].ReceivedNonces) = {}
    <3> SUFFICES ASSUME NEW i \in 1 .. Len(signers'[n])
                 PROVE  \/ i \in 1 .. Len(signers[n]) /\ signers'[n][i] = signers[n][i]
                        \/ Held(signers'[n][i].ReceivedNonces) = {}
      BY <2>5
    <3> QED
      BY <2>4, <2>5, <2>6, <2>8
  <2>11. \A m \in Ids : Len(signers'[m]) <= 2
    BY <2>3, <2>5, <2>6
  <2> QED
    BY <1>2, <2>5, <2>6, <2>7, <2>9, <2>10, <2>11
<1> QED
  BY <1>1, <1>2

(* What a step that calls InitSigning keeps, whoever takes it.              *)
LEMMA InitSigningFrame ==
  ASSUME SigningInv, Alive, NEW n \in nodes, InitSigning(n), Len(signers[n]) <= 1,
         session # 0,
         UNCHANGED <<netVars, mainVars, partyVars, session, held, nonceShares, signature>>,
         UNCHANGED <<current, total, snapshot>>,
         stage' \in {stage, "generate"}, pc # "nonce" \/ current = Nil => stage' = stage,
         receiving' \in {receiving, "receive"}
  PROVE  /\ TypeOK'
         /\ KeyInv'
         /\ FreshInv'
         /\ NonceMessageInv'
         /\ \A m \in Ids : ~NoSigner(m) => ~NoSigner(m)'
         /\ hasPrivateKey[n] => ~NoSigner(n)'
         /\ \A m \in Ids : ~NoSigner(m)' => hasPrivateKey[m]
         /\ \A m \in Ids : \A i \in 1 .. Len(signers'[m]) :
              Held(signers'[m][i].ReceivedNonces) \subseteq nodes
         /\ CollectInv' /\ NonceShareInv' /\ OnlyOwnNonceMissing'
         /\ NoNilSigner'
<1> USE DEF netVars, mainVars, partyVars
<1>0. n \in Ids /\ TypeOK /\ KeyInv
  BY DEF SigningInv, TypeOK
<1>1. /\ signers' \in [Ids -> Seq(Signer)]
      /\ \A m \in Ids : Len(signers'[m]) <= 2
      /\ \A m \in Ids \ {n} : signers'[m] = signers[m]
      /\ hasPrivateKey[n] => Len(signers'[n]) = Len(signers[n]) + 1
      /\ ~hasPrivateKey[n] => signers' = signers
      /\ Grown
      /\ \A m \in Ids : \A i \in 1 .. Len(signers'[m]) :
           \/ i \in 1 .. Len(signers[m]) /\ signers'[m][i] = signers[m][i]
           \/ Held(signers'[m][i].ReceivedNonces) = {}
  BY <1>0, InitSigningGrows
<1>2. TypeOK'
  <2>1. CollectTypeOK' /\ DKGPartyTypeOK'
    BY <1>0 DEF TypeOK, CollectTypeOK, DKGPartyTypeOK
  <2> QED
    BY <1>0, <1>1, <2>1 DEF TypeOK
<1>3. Undelivered' = Undelivered
  BY NetworkStays
<1>4. KeyTypeInv' /\ BodyInv'
  BY <1>0, <1>2, TypeOKKeyTypeNext DEF KeyInv, BodyInv
<1>5. KeyInv'
  <2>1. pc = "derive" => stage' = stage
    OBVIOUS
  <2>2. KeyInv /\ UNCHANGED <<nodes, dealing, pc, partyVars, current, total, snapshot, todo>>
        /\ (pc' = "setup" => Undelivered' \subseteq Undelivered)
        /\ (\A m \in Undelivered' : m.Type = "dkg_share" => m \in Undelivered)
        /\ (pc' = "deal" => dealing' # 0)
    BY <1>0, <1>3 DEF KeyInv, SetupInv
  <2> QED
    BY <1>4, <2>1, <2>2, KeyInvFrame DEF collectVars
<1>6. pc = "collect" => UNCHANGED collectVars
  BY DEF collectVars
<1>7. /\ \A m \in Ids : ~NoSigner(m) => ~NoSigner(m)'
      /\ AllSign => AllSign'
      /\ CollectInv' /\ NonceShareInv' /\ OnlyOwnNonceMissing'
  BY <1>1, <1>2, <1>6, GrownKeeps
<1>8. FreshInv'
  BY DEF SigningInv, FreshInv
<1>9. NonceMessageInv'
  BY <1>3, <1>7 DEF SigningInv, NonceMessageInv, BadThreshold
<1>10. hasPrivateKey[n] => ~NoSigner(n)'
  <2>1. Len(signers[n]) \in 0 .. 2 /\ (NoSigner(n)' <=> Len(signers'[n]) = 0)
    BY <1>0, <1>2, SignerTyped, SignerTypedNext DEF SignersTyped
  <2> QED
    BY <1>1, <2>1
<1>11. \A m \in Ids : ~NoSigner(m)' => hasPrivateKey[m]
  BY <1>1 DEF SigningInv, SignerInv, NoSigner
<1>12. \A m \in Ids : \A i \in 1 .. Len(signers'[m]) :
         Held(signers'[m][i].ReceivedNonces) \subseteq nodes
  BY <1>1 DEF SigningInv, SignerInv
<1>13. NoNilSigner'
  BY DEF NoNilSigner, Alive
<1> QED
  BY <1>2, <1>5, <1>7, <1>8, <1>9, <1>10, <1>11, <1>12, <1>13

LEMMA MainInitSigningInv ==
  ASSUME SigningInv, Alive, NEW n \in todo, MainInitSigning(n)
  PROVE  SigningInv'
<1> USE DEF MainInitSigning
<1>0. TypeOK
  BY DEF SigningInv
<1>1. /\ n \in nodes /\ n \in Ids /\ pc = "nonce" /\ session # 0 /\ current # Nil
      /\ MainInits(n) /\ Len(signers[n]) <= 1
  BY Bounds DEF SigningInv, KeyInv, BodyInv, FreshInv, TypeOK, DKGPartyTypeOK,
                SignerInv, MainInits
<1>2. /\ TypeOK' /\ KeyInv' /\ FreshInv' /\ NonceMessageInv'
      /\ \A m \in Ids : ~NoSigner(m) => ~NoSigner(m)'
      /\ hasPrivateKey[n] => ~NoSigner(n)'
      /\ \A m \in Ids : ~NoSigner(m)' => hasPrivateKey[m]
      /\ \A m \in Ids : \A i \in 1 .. Len(signers'[m]) :
           Held(signers'[m][i].ReceivedNonces) \subseteq nodes
      /\ CollectInv' /\ NonceShareInv' /\ OnlyOwnNonceMissing' /\ NoNilSigner'
  <2> HIDE DEF MainInitSigning
  <2>1. /\ InitSigning(n)
        /\ UNCHANGED <<netVars, mainVars, partyVars, session, held, nonceShares, signature>>
        /\ UNCHANGED <<current, total, snapshot>>
        /\ stage' \in {stage, "generate"}
        /\ pc # "nonce" \/ current = Nil => stage' = stage
        /\ receiving' \in {receiving, "receive"}
    BY <1>1 DEF MainInitSigning
  <2> QED
    BY <1>1, <2>1, InitSigningFrame
<1>3. SignerInv'
  <2>0. /\ \A m \in Ids \ {n} : signers'[m] = signers[m]
        /\ Len(signers'[n]) \in {Len(signers[n]), Len(signers[n]) + 1}
    <3> HIDE DEF MainInitSigning
    <3>1. InitSigning(n)
      BY DEF MainInitSigning
    <3> QED
      BY <1>0, <1>1, <3>1, InitSigningGrows
  <2>1. \A m \in Ids : ~MainInits(m)'
    BY DEF MainInits
  <2>2. \A m \in Ids : HandlerInits(m)' => HandlerInits(m) /\ Len(signers'[m]) <= 1
    <3> SUFFICES ASSUME NEW m \in Ids, HandlerInits(m) PROVE Len(signers'[m]) <= 1
      BY DEF HandlerInits, ReceivingNonce, netVars
    <3>1. Len(signers[m]) <= 1
      BY DEF SigningInv, SignerInv
    <3>2. CASE m = n
      <4>1. Len(signers[n]) = 0
        BY <1>1, <3>2, EmptySeq DEF SigningInv, SignerInv, NoSigner
      <4>2. Len(signers'[n]) \in {0, 1}
        BY <2>0, <4>1
      <4>3. \A k \in {0, 1} : k <= 1
        OBVIOUS
      <4> QED
        BY <3>2, <4>2, <4>3
    <3>3. CASE m # n
      BY <2>0, <3>1, <3>3
    <3> QED
      BY <3>2, <3>3
  <2> QED
    BY <1>2, <2>1, <2>2 DEF SigningInv, SignerInv, ReceivingNonce, netVars, partyVars
<1>4. GenerateInv'
  <2>1. nodes \subseteq Ids
    BY DEF SigningInv, TypeOK
  <2>2. receiving = "receive" => handling.To \in Ids
    BY ReceivingIsUndelivered
       DEF SigningInv, SignerInv, KeyInv, KeyTypeInv, AnyMessage, Message, ReceivingNonce
  <2> QED
    BY <1>1, <1>2, <2>1, <2>2 DEF SigningInv, GenerateInv, netVars, mainVars, partyVars
<1> QED
  BY <1>2, <1>3, <1>4 DEF SigningInv

LEMMA HandlerFindsSigningInv ==
  ASSUME SigningInv, Alive, HandlerFindsNoSigner
  PROVE  SigningInv'
<1> USE DEF HandlerFindsNoSigner, dkgVars, netVars, collectVars, mainVars, partyVars
<1>1. handling.To \in nodes /\ handling.To \in Ids
  BY ReceivingIsUndelivered DEF SigningInv, TypeOK, NonceMessageInv
<1>2. TypeOK'
  <2>1. CollectTypeOK' /\ DKGPartyTypeOK'
    BY DEF SigningInv, TypeOK, CollectTypeOK, DKGPartyTypeOK
  <2> QED
    BY <2>1 DEF SigningInv, TypeOK
<1>3. Undelivered' = Undelivered
  BY NetworkStays
<1>4. KeyTypeInv' /\ BodyInv'
  BY <1>2, TypeOKKeyTypeNext DEF SigningInv, KeyInv, BodyInv
<1>5. KeyInv'
  BY <1>3, <1>4, KeyInvFrame DEF SigningInv, KeyInv, SetupInv
<1>6. FreshInv' /\ NonceMessageInv'
  BY <1>3 DEF SigningInv, FreshInv, NonceMessageInv, BadThreshold, AllSign, NoSigner
<1>7. SignerInv'
  <2>1. signers[handling.To] = <<>> /\ Len(signers[handling.To]) = 0
    BY EmptySeq DEF NoSigner
  <2>2. \A m \in Ids : HandlerInits(m)' => m = handling.To
    BY DEF HandlerInits
  <2>3. \A m \in Ids : MainInits(m)' <=> MainInits(m)
    BY DEF MainInits
  <2> QED
    BY <1>1, <2>1, <2>2, <2>3 DEF SigningInv, SignerInv, NoSigner, ReceivingNonce
<1>8. GenerateInv' /\ CollectInv'
  BY DEF SigningInv, GenerateInv, CollectInv, AllSign, NoSigner, Complete, Held
<1>9. NonceShareInv' /\ OnlyOwnNonceMissing' /\ NoNilSigner'
  BY DEF SigningInv, NonceShareInv, OnlyOwnNonceMissing, AllSign, NoSigner, NoNilSigner,
         Alive
<1> QED
  BY <1>2, <1>5, <1>6, <1>7, <1>8, <1>9 DEF SigningInv

LEMMA HandlerInitSigningInv ==
  ASSUME SigningInv, Alive, HandlerInitSigning
  PROVE  SigningInv'
<1> PICK n : n = handling.To
  OBVIOUS
<1>0. TypeOK
  BY DEF SigningInv
<1>1. /\ n \in nodes /\ n \in Ids /\ session # 0
      /\ HandlerInits(n) /\ Len(signers[n]) <= 1
  <2>1. handling \in Undelivered /\ handling.Type = "sign_nonce"
    BY ReceivingIsUndelivered DEF HandlerInitSigning
  <2>2. n \in nodes /\ n \in Ids /\ session # 0
    BY <2>1 DEF SigningInv, TypeOK, NonceMessageInv, FreshInv
  <2>3. HandlerInits(n)
    BY DEF HandlerInitSigning, HandlerInits
  <2> QED
    BY <2>2, <2>3 DEF SigningInv, SignerInv
<1>2. /\ InitSigning(n)
      /\ UNCHANGED <<netVars, mainVars, partyVars, session, held, nonceShares, signature>>
      /\ UNCHANGED collectVars
      /\ receiving' = "receive"
      /\ ReceivingNonce
  BY DEF HandlerInitSigning, dkgVars
<1>3. /\ TypeOK' /\ KeyInv' /\ FreshInv' /\ NonceMessageInv'
      /\ \A m \in Ids : ~NoSigner(m) => ~NoSigner(m)'
      /\ hasPrivateKey[n] => ~NoSigner(n)'
      /\ \A m \in Ids : ~NoSigner(m)' => hasPrivateKey[m]
      /\ \A m \in Ids : \A i \in 1 .. Len(signers'[m]) :
           Held(signers'[m][i].ReceivedNonces) \subseteq nodes
      /\ CollectInv' /\ NonceShareInv' /\ OnlyOwnNonceMissing' /\ NoNilSigner'
  <2>1. /\ InitSigning(n)
        /\ UNCHANGED <<netVars, mainVars, partyVars, session, held, nonceShares, signature>>
        /\ UNCHANGED <<current, total, snapshot>>
        /\ stage' \in {stage, "generate"}
        /\ pc # "nonce" \/ current = Nil => stage' = stage
        /\ receiving' \in {receiving, "receive"}
    BY <1>2 DEF collectVars
  <2> QED
    BY <1>1, <2>1, InitSigningFrame
<1>4. SignerInv'
  <2>0. /\ \A m \in Ids \ {n} : signers'[m] = signers[m]
        /\ Len(signers'[n]) \in {Len(signers[n]), Len(signers[n]) + 1}
    <3>1. InitSigning(n)
      BY <1>2
    <3> QED
      BY <1>0, <1>1, <3>1, InitSigningGrows
  <2>1. \A m \in Ids : ~HandlerInits(m)'
    BY <1>2 DEF HandlerInits
  <2>2. \A m \in Ids : MainInits(m)' => MainInits(m) /\ Len(signers'[m]) <= 1
    <3> SUFFICES ASSUME NEW m \in Ids, MainInits(m) PROVE Len(signers'[m]) <= 1
      BY <1>2 DEF MainInits, collectVars
    <3>1. Len(signers[m]) <= 1
      BY DEF SigningInv, SignerInv
    <3>2. CASE m = n
      <4>1. Len(signers[n]) = 0
        BY <1>1, <3>2, EmptySeq DEF SigningInv, SignerInv, NoSigner
      <4>2. Len(signers'[n]) \in {0, 1}
        BY <2>0, <4>1
      <4>3. \A k \in {0, 1} : k <= 1
        OBVIOUS
      <4> QED
        BY <3>2, <4>2, <4>3
    <3>3. CASE m # n
      BY <2>0, <3>1, <3>3
    <3> QED
      BY <3>2, <3>3
  <2> QED
    BY <1>2, <1>3, <2>1, <2>2 DEF SigningInv, SignerInv, ReceivingNonce, netVars, partyVars
<1>5. GenerateInv'
  <2>1. nodes \subseteq Ids
    BY DEF SigningInv, TypeOK
  <2>2. stage = "generate" => current \in Ids
    BY <2>1 DEF SigningInv, KeyInv, BodyInv, TypeOK, DKGPartyTypeOK
  <2> QED
    BY <1>1, <1>2, <1>3, <2>1, <2>2
       DEF SigningInv, GenerateInv, netVars, mainVars, partyVars, collectVars
<1> QED
  BY <1>3, <1>4, <1>5 DEF SigningInv
-----------------------------------------------------------------------------
(* Generating and receiving a nonce share replace n.signer's content.       *)
LastReplaced(n, new) ==
  signers' = [signers EXCEPT ![n] = [signers[n] EXCEPT ![Len(signers[n])] = new]]

LEMMA ReplacingGrows ==
  ASSUME TypeOK, NEW n \in Ids, ~NoSigner(n), NEW new \in Signer, LastReplaced(n, new),
         signers[n][Len(signers[n])].NonceShare # 0 => new.NonceShare # 0,
         Held(signers[n][Len(signers[n])].ReceivedNonces) \subseteq Held(new.ReceivedNonces)
  PROVE  /\ signers' \in [Ids -> Seq(Signer)]
         /\ \A m \in Ids : Len(signers'[m]) = Len(signers[m])
         /\ \A m \in Ids : Len(signers'[m]) <= 2
         /\ Grown
         /\ \A m \in Ids : \A i \in 1 .. Len(signers'[m]) :
              signers'[m][i] = signers[m][i] \/ signers'[m][i] = new
<1> DEFINE last == Len(signers[n])
           old == signers[n]
           later == [old EXCEPT ![last] = new]
<1>1. signers \in [Ids -> Seq(Signer)] /\ \A m \in Ids : Len(signers[m]) <= 2
  BY DEF TypeOK
<1>2. old \in Seq(Signer) /\ last \in Nat /\ last \in 1 .. last
  <2>1. last \in 0 .. 2 /\ last # 0 /\ old \in Seq(Signer)
    BY SignerTyped DEF SignersTyped
  <2> QED
    BY <2>1
<1>3. /\ later \in Seq(Signer)
      /\ Len(later) = last
      /\ \A i \in 1 .. last : later[i] = IF i = last THEN new ELSE old[i]
  <2> HIDE DEF last, old
  <2>1. last = Len(old)
    BY DEF last, old
  <2> QED
    BY <1>2, <2>1, ExceptSeq
<1>4. signers' = [signers EXCEPT ![n] = later]
  BY DEF LastReplaced
<1> HIDE DEF later
<1>6. signers'[n] = later /\ \A m \in Ids \ {n} : signers'[m] = signers[m]
  BY <1>1, <1>4
<1>7. signers' \in [Ids -> Seq(Signer)]
  BY <1>1, <1>3, <1>4
<1>8. \A m \in Ids : Len(signers'[m]) = Len(signers[m])
  BY <1>3, <1>6
<1>9. \A m \in Ids : Len(signers'[m]) <= 2
  BY <1>1, <1>8
<1>10. Grown
  <2> SUFFICES ASSUME NEW m \in Ids, NEW i \in 1 .. Len(signers[m])
               PROVE  /\ i \in 1 .. Len(signers'[m])
                      /\ signers[m][i].NonceShare # 0 => signers'[m][i].NonceShare # 0
                      /\ Held(signers[m][i].ReceivedNonces)
                           \subseteq Held(signers'[m][i].ReceivedNonces)
    BY DEF Grown
  <2>1. CASE m = n
    <3>1. signers'[n][i] = IF i = last THEN new ELSE signers[n][i]
      BY <1>3, <1>6, <2>1
    <3> QED
      BY <1>8, <2>1, <3>1
  <2>2. CASE m # n
    BY <1>6, <2>2
  <2> QED
    BY <2>1, <2>2
<1>11. \A m \in Ids : \A i \in 1 .. Len(signers'[m]) :
         signers'[m][i] = signers[m][i] \/ signers'[m][i] = new
  <2> SUFFICES ASSUME NEW i \in 1 .. Len(signers'[n])
               PROVE  signers'[n][i] = signers[n][i] \/ signers'[n][i] = new
    BY <1>6
  <2> QED
    BY <1>3, <1>6
<1> QED
  BY <1>7, <1>8, <1>9, <1>10, <1>11

(* What a step that writes to n.signer keeps, whoever takes it.             *)
LEMMA ReplacingFrame ==
  ASSUME SigningInv, Alive, NEW n \in nodes, ~NoSigner(n), session # 0,
         NEW new \in Signer, LastReplaced(n, new),
         signers[n][Len(signers[n])].NonceShare # 0 => new.NonceShare # 0,
         Held(signers[n][Len(signers[n])].ReceivedNonces) \subseteq Held(new.ReceivedNonces),
         Held(new.ReceivedNonces) \subseteq nodes,
         UNCHANGED <<threshold, nodes, pc, dealing, failure, partyVars, panic>>,
         UNCHANGED <<session, held, nonceShares, signature>>,
         pc = "collect" => UNCHANGED collectVars,
         pc = "derive" => UNCHANGED <<collectVars, todo>>,
         inflight' \subseteq SignMessages, messageQueue' \in Seq(SignMessages),
         handling' \in SignMessages \cup {Nil},
         receiving' \in {"dispatch", "init", "receive"},
         todo' \subseteq todo, CollectTypeOK', BodyInv',
         \A m \in Undelivered' :
           m \in Undelivered \/ (m.Type = "sign_nonce" /\ pc # "setup")
  PROVE  /\ TypeOK'
         /\ KeyInv'
         /\ FreshInv'
         /\ \A m \in Ids : ~NoSigner(m) => ~NoSigner(m)'
         /\ AllSign => AllSign'
         /\ \A m \in Ids : Len(signers'[m]) = Len(signers[m])
         /\ \A m \in Ids : ~NoSigner(m)' => hasPrivateKey[m]
         /\ \A m \in Ids : \A i \in 1 .. Len(signers'[m]) :
              Held(signers'[m][i].ReceivedNonces) \subseteq nodes
         /\ CollectInv' /\ NonceShareInv' /\ OnlyOwnNonceMissing'
         /\ NoNilSigner'
<1> USE DEF partyVars
<1>0. n \in Ids /\ TypeOK /\ KeyInv
  BY DEF SigningInv, TypeOK
<1>1. /\ signers' \in [Ids -> Seq(Signer)]
      /\ \A m \in Ids : Len(signers'[m]) = Len(signers[m])
      /\ \A m \in Ids : Len(signers'[m]) <= 2
      /\ Grown
      /\ \A m \in Ids : \A i \in 1 .. Len(signers'[m]) :
           signers'[m][i] = signers[m][i] \/ signers'[m][i] = new
  BY <1>0, ReplacingGrows
<1>2. TypeOK'
  <2>1. DKGPartyTypeOK'
    BY <1>0 DEF TypeOK, DKGPartyTypeOK
  <2> QED
    BY <1>0, <1>1, <2>1 DEF TypeOK
<1>3. KeyTypeInv'
  BY <1>2, TypeOKKeyTypeNext
<1>4. KeyInv'
  <2>1. /\ \A m \in Undelivered' : m.Type = "dkg_share" => m \in Undelivered
        /\ pc' = "setup" => Undelivered' \subseteq Undelivered
        /\ pc' = "deal" => dealing' # 0
    BY <1>0 DEF KeyInv, SetupInv
  <2> QED
    BY <1>0, <1>3, <2>1, KeyInvFrame
<1>5. /\ \A m \in Ids : ~NoSigner(m) => ~NoSigner(m)'
      /\ AllSign => AllSign'
      /\ CollectInv' /\ NonceShareInv' /\ OnlyOwnNonceMissing'
  BY <1>1, <1>2, GrownKeeps
<1>6. FreshInv'
  BY DEF SigningInv, FreshInv
<1>7. \A m \in Ids : ~NoSigner(m)' => hasPrivateKey[m]
  <2>1. \A m \in Ids : ~NoSigner(m)' => ~NoSigner(m)
    BY <1>0, <1>1, <1>2, SignerTyped, SignerTypedNext DEF SignersTyped
  <2> QED
    BY <2>1 DEF SigningInv, SignerInv
<1>8. \A m \in Ids : \A i \in 1 .. Len(signers'[m]) :
         Held(signers'[m][i].ReceivedNonces) \subseteq nodes
  BY <1>1 DEF SigningInv, SignerInv
<1>9. NoNilSigner'
  BY DEF NoNilSigner, Alive
<1> QED
  BY <1>1, <1>2, <1>4, <1>5, <1>6, <1>7, <1>8, <1>9

LEMMA GenerateNonceSigningInv ==
  ASSUME SigningInv, Alive, NEW n \in todo, GenerateNonceShare(n)
  PROVE  SigningInv'
<1> DEFINE last == Len(signers[n])
           new == [signers[n][last] EXCEPT !.NonceShare =
                     IF NumParties > n THEN session ELSE @]
<1>0. TypeOK /\ KeyInv /\ nodes \subseteq Ids /\ n \in nodes /\ n \in Ids
  BY DEF SigningInv, TypeOK, DKGPartyTypeOK
<1>1. pc = "nonce" /\ ~NoSigner(n) /\ session # 0 /\ ~BadThreshold
  BY DEF GenerateNonceShare, AtGenerate, SigningInv, FreshInv
<1>2. session \in 1 .. MaxSessions
  <2>1. session \in 0 .. MaxSessions
    BY <1>0 DEF TypeOK
  <2> QED
    BY <1>1, <2>1, SessionBounds
<1>3. /\ LastReplaced(n, new)
      /\ SendMessages("sign_nonce", n, session)
      /\ LeaveBody
      /\ todo' = todo \ {n}
      /\ UNCHANGED <<pc, dealing, failure, partyVars, session, held, receiving,
                     nonceShares, signature>>
  BY DEF GenerateNonceShare, LastReplaced
<1>4. last \in 1 .. last /\ signers[n][last] \in Signer
  <2>1. last \in 0 .. 2 /\ last # 0 /\ \A i \in 1 .. last : signers[n][i] \in Signer
    BY <1>0, <1>1, SignerTyped DEF SignersTyped
  <2> QED
    BY <2>1
<1>5. /\ new \in Signer
      /\ signers[n][last].NonceShare # 0 => new.NonceShare # 0
      /\ Held(new.ReceivedNonces) = Held(signers[n][last].ReceivedNonces)
  <2>1. session \in 0 .. MaxSessions
    BY <1>2
  <2> HIDE DEF last
  <2>2. new \in Signer /\ new.ReceivedNonces = signers[n][last].ReceivedNonces
        /\ (signers[n][last].NonceShare # 0 => new.NonceShare # 0)
    BY <1>1, <1>4, <2>1 DEF Signer
  <2> QED
    BY <2>2
<1>6. Held(new.ReceivedNonces) \subseteq nodes
  BY <1>0, <1>4, <1>5 DEF SigningInv, SignerInv
<1>7. Undelivered' = Undelivered \cup SharesOf("sign_nonce", n, session)
  BY <1>3, SendingUndelivered
<1>8. \A m \in SharesOf("sign_nonce", n, session) :
        /\ m \in SignMessages
        /\ m.Type = "sign_nonce" /\ m.From = n /\ m.Payload = session
        /\ m.To \in Parties \cap nodes
  BY <1>0, <1>2 DEF SharesOf, SignMessages, Message
<1>9. CollectTypeOK' /\ BodyInv'
  BY <1>1, <1>3, NothingCollected DEF CollectTypeOK, LeaveBody, BodyInv
<1>10. /\ inflight' \subseteq SignMessages /\ messageQueue' \in Seq(SignMessages)
       /\ handling' \in SignMessages \cup {Nil}
       /\ receiving' \in {"dispatch", "init", "receive"}
       /\ todo' \subseteq todo
       /\ UNCHANGED <<threshold, nodes, handling, panic>>
  BY <1>0, <1>3, <1>8 DEF TypeOK, SendMessages
<1> HIDE DEF last, new
<1>11. /\ TypeOK' /\ KeyInv' /\ FreshInv'
       /\ \A m \in Ids : ~NoSigner(m) => ~NoSigner(m)'
       /\ AllSign => AllSign'
       /\ \A m \in Ids : Len(signers'[m]) = Len(signers[m])
       /\ \A m \in Ids : ~NoSigner(m)' => hasPrivateKey[m]
       /\ \A m \in Ids : \A i \in 1 .. Len(signers'[m]) :
            Held(signers'[m][i].ReceivedNonces) \subseteq nodes
       /\ CollectInv' /\ NonceShareInv' /\ OnlyOwnNonceMissing' /\ NoNilSigner'
  <2>1. /\ signers[n][Len(signers[n])].NonceShare # 0 => new.NonceShare # 0
        /\ Held(signers[n][Len(signers[n])].ReceivedNonces) \subseteq Held(new.ReceivedNonces)
    BY <1>5 DEF last
  <2>2. \A m \in Undelivered' :
          m \in Undelivered \/ (m.Type = "sign_nonce" /\ pc # "setup")
    BY <1>1, <1>7, <1>8
  <2> QED
    BY <1>0, <1>1, <1>3, <1>5, <1>6, <1>9, <1>10, <2>1, <2>2, ReplacingFrame
<1>12. NonceMessageInv'
  <2>1. UNCHANGED BadThreshold
    BY <1>10 DEF BadThreshold
  <2>2. session \in 1 .. session /\ session' = session /\ pc' = "nonce"
    BY <1>1, <1>2, <1>3
  <2>3. ASSUME NEW m \in Undelivered, m.Type = "sign_nonce"
        PROVE  /\ m.From \in nodes
               /\ m.To \in Parties \cap nodes
               /\ m.Payload \in 1 .. session
    BY <2>3 DEF SigningInv, NonceMessageInv
  <2> QED
    BY <1>0, <1>1, <1>7, <1>8, <1>10, <2>1, <2>2, <2>3 DEF NonceMessageInv
<1>13. SignerInv'
  <2>1. \A m \in Ids : ~MainInits(m)' /\ (HandlerInits(m)' <=> HandlerInits(m))
    BY <1>3, <1>10 DEF MainInits, HandlerInits, ReceivingNonce, LeaveBody
  <2> QED
    BY <1>3, <1>10, <1>11, <2>1 DEF SigningInv, SignerInv, ReceivingNonce, partyVars
<1>14. GenerateInv'
  <2>1. receiving = "receive" => handling.To \in Ids
    BY ReceivingIsUndelivered
       DEF SigningInv, SignerInv, KeyInv, KeyTypeInv, AnyMessage, Message, ReceivingNonce
  <2>2. stage' = "idle"
    BY <1>3 DEF LeaveBody
  <2> QED
    BY <1>0, <1>1, <1>3, <1>10, <1>11, <2>1, <2>2
       DEF SigningInv, GenerateInv, partyVars
<1> QED
  BY <1>11, <1>12, <1>13, <1>14 DEF SigningInv

LEMMA ReceiveNonceSigningInv ==
  ASSUME SigningInv, Alive, ReceiveNonceShare
  PROVE  SigningInv'
<1> PICK n : n = handling.To
  OBVIOUS
<1> PICK from : from = handling.From
  OBVIOUS
<1> PICK payload : payload = handling.Payload
  OBVIOUS
<1> DEFINE last == Len(signers[n])
           new == [signers[n][last] EXCEPT !.ReceivedNonces[from] = payload]
<1>0. TypeOK /\ KeyInv /\ nodes \subseteq Ids
  BY DEF SigningInv, TypeOK
<1>1. handling # Nil /\ handling \in Undelivered /\ handling.Type = "sign_nonce"
  BY ReceivingIsUndelivered DEF ReceiveNonceShare, AtReceive, ReceivingNonce
<1>2. /\ n \in nodes /\ n \in Ids /\ from \in nodes /\ from \in Ids
      /\ payload \in 1 .. session /\ session # 0 /\ pc # "setup"
  BY <1>0, <1>1 DEF SigningInv, NonceMessageInv, FreshInv
<1>3. /\ LastReplaced(n, new)
      /\ ~NoSigner(n)
      /\ Delivered
      /\ receiving' = "dispatch"
      /\ UNCHANGED <<collectVars, mainVars, partyVars, session, held, nonceShares,
                     signature>>
  BY DEF ReceiveNonceShare, LastReplaced
<1>4. last \in 1 .. last /\ signers[n][last] \in Signer
  <2>1. last \in 0 .. 2 /\ last # 0 /\ \A i \in 1 .. last : signers[n][i] \in Signer
    BY <1>0, <1>2, <1>3, SignerTyped DEF SignersTyped
  <2> QED
    BY <2>1
<1>5. payload \in 0 .. MaxRounds /\ payload # 0
  <2>1. session \in 0 .. MaxSessions
    BY <1>0 DEF TypeOK
  <2> QED
    BY <1>2, <2>1, SessionBounds
<1>6. /\ new \in Signer
      /\ new.NonceShare = signers[n][last].NonceShare
      /\ Held(new.ReceivedNonces) = Held(signers[n][last].ReceivedNonces) \cup {from}
  <2> HIDE DEF last
  <2>1. /\ new.NonceShare = signers[n][last].NonceShare
        /\ new.ReceivedNonces = [signers[n][last].ReceivedNonces EXCEPT ![from] = payload]
        /\ signers[n][last].ReceivedNonces \in Sum
    BY <1>4 DEF Signer
  <2>2. new.ReceivedNonces \in Sum
    BY <1>2, <1>5, <2>1 DEF Sum
  <2>3. new \in Signer
    BY <1>4, <2>1, <2>2 DEF Signer
  <2> HIDE DEF new
  <2>4. Held(new.ReceivedNonces) = Held(signers[n][last].ReceivedNonces) \cup {from}
    BY <1>2, <1>5, <2>1 DEF Held, Sum
  <2> QED
    BY <2>1, <2>3, <2>4
<1>7. Held(new.ReceivedNonces) \subseteq nodes
  BY <1>0, <1>2, <1>4, <1>6 DEF SigningInv, SignerInv
<1>8. Undelivered' \subseteq Undelivered
  BY <1>1, <1>3, DeliveredUndelivered
<1>9. CollectTypeOK' /\ BodyInv'
  BY <1>0, <1>3
     DEF TypeOK, CollectTypeOK, KeyInv, BodyInv, Delivered, collectVars, mainVars, partyVars
<1>10. /\ inflight' \subseteq SignMessages /\ messageQueue' \in Seq(SignMessages)
       /\ handling' = Nil
       /\ UNCHANGED <<threshold, nodes, panic>>
       /\ UNCHANGED <<pc, dealing, failure, todo>>
  BY <1>0, <1>3 DEF TypeOK, Delivered, mainVars
<1> HIDE DEF last, new
<1>11. /\ TypeOK' /\ KeyInv' /\ FreshInv'
       /\ \A m \in Ids : ~NoSigner(m) => ~NoSigner(m)'
       /\ AllSign => AllSign'
       /\ \A m \in Ids : Len(signers'[m]) = Len(signers[m])
       /\ \A m \in Ids : ~NoSigner(m)' => hasPrivateKey[m]
       /\ \A m \in Ids : \A i \in 1 .. Len(signers'[m]) :
            Held(signers'[m][i].ReceivedNonces) \subseteq nodes
       /\ CollectInv' /\ NonceShareInv' /\ OnlyOwnNonceMissing' /\ NoNilSigner'
  <2>1. /\ signers[n][Len(signers[n])].NonceShare # 0 => new.NonceShare # 0
        /\ Held(signers[n][Len(signers[n])].ReceivedNonces) \subseteq Held(new.ReceivedNonces)
    BY <1>6 DEF last
  <2> QED
    BY <1>0, <1>2, <1>3, <1>6, <1>7, <1>8, <1>9, <1>10, <2>1, ReplacingFrame
<1>12. NonceMessageInv'
  <2>1. UNCHANGED BadThreshold
    BY <1>10 DEF BadThreshold
  <2> QED
    BY <1>3, <1>8, <1>10, <1>11, <2>1 DEF SigningInv, NonceMessageInv
<1>13. SignerInv'
  <2>1. \A m \in Ids : ~HandlerInits(m)' /\ (MainInits(m)' <=> MainInits(m))
    BY <1>3, <1>10 DEF MainInits, HandlerInits, ReceivingNonce, collectVars
  <2> QED
    BY <1>3, <1>10, <1>11, <2>1 DEF SigningInv, SignerInv, ReceivingNonce, partyVars
<1>14. GenerateInv'
  <2>1. stage = "generate" => current \in Ids
    BY <1>0 DEF KeyInv, BodyInv, TypeOK, DKGPartyTypeOK
  <2> QED
    BY <1>0, <1>3, <1>10, <1>11, <2>1 DEF SigningInv, GenerateInv, partyVars, collectVars
<1> QED
  BY <1>11, <1>12, <1>13, <1>14 DEF SigningInv
-----------------------------------------------------------------------------
(* ComputeSharedNonce, step by step.                                        *)
LEMMA CollectFrame ==
  ASSUME SigningInv, Alive, pc = "collect",
         UNCHANGED <<netVars, partyVars, session, signers, receiving, signature>>,
         UNCHANGED <<pc, dealing, failure>>, todo' \subseteq todo, held' \in 0 .. 2,
         stage' \notin {"init", "generate"}, CollectTypeOK', BodyInv',
         nonceShares' \in Seq(NonceShare),
         CollectInv', NonceShareInv', OnlyOwnNonceMissing'
  PROVE  SigningInv'
<1> USE DEF netVars, partyVars
<1>1. TypeOK'
  <2>1. DKGPartyTypeOK'
    BY DEF SigningInv, TypeOK, DKGPartyTypeOK
  <2> QED
    BY <2>1 DEF SigningInv, TypeOK
<1>2. Undelivered' = Undelivered
  BY NetworkStays
<1>3. KeyInv'
  BY <1>1, <1>2, TypeOKKeyTypeNext, KeyInvFrame DEF SigningInv
<1>4. FreshInv' /\ NonceMessageInv'
  BY <1>2 DEF SigningInv, FreshInv, NonceMessageInv, BadThreshold, AllSign, NoSigner
<1>5. SignerInv'
  <2>1. \A m \in Ids : ~MainInits(m)' /\ (HandlerInits(m)' <=> HandlerInits(m))
    BY DEF MainInits, HandlerInits, ReceivingNonce
  <2> QED
    BY <2>1 DEF SigningInv, SignerInv, NoSigner, ReceivingNonce
<1>6. GenerateInv' /\ NoNilSigner'
  BY DEF SigningInv, GenerateInv, NoSigner, NoNilSigner, Alive
<1> QED
  BY <1>1, <1>3, <1>4, <1>5, <1>6 DEF SigningInv

(* The object ComputeSharedNonce runs on.                                   *)
LEMMA AtHeldSigner ==
  ASSUME SigningInv, pc = "collect", NEW n \in todo,
         NEW i \in 1 .. Len(signers[n])
  PROVE  /\ n \in nodes /\ n \in Ids /\ nodes \subseteq Ids /\ nodes = Parties
         /\ i \in 1 .. 2
         /\ Len(signers[n]) \in 1 .. Len(signers[n])
         /\ signers[n][i].NonceShare \in 0 .. MaxSessions
         /\ signers[n][i].NonceShare \in 0 .. MaxRounds
         /\ signers[n][i].ReceivedNonces \in Sum
         /\ Held(signers[n][i].ReceivedNonces) \subseteq nodes
<1>1. TypeOK /\ KeyInv /\ n \in nodes /\ n \in Ids /\ nodes \subseteq Ids
  BY DEF SigningInv, TypeOK, DKGPartyTypeOK
<1>2. /\ Len(signers[n]) \in 0 .. 2
      /\ signers[n][i].NonceShare \in 0 .. MaxSessions
      /\ signers[n][i].ReceivedNonces \in Sum
  BY <1>1, SignerTyped DEF SignersTyped
<1>3. \A k \in 0 .. 2 : i \in 1 .. k => i \in 1 .. 2 /\ k \in 1 .. k
  OBVIOUS
<1>4. signers[n][i].NonceShare \in 0 .. MaxRounds
  BY <1>2, SessionBounds
<1>5. nodes = Parties
  BY <1>1, AllKeyedIsFull DEF SigningInv, CollectInv, AllSign, SignerInv
<1>6. Held(signers[n][i].ReceivedNonces) \subseteq nodes
  BY <1>1 DEF SigningInv, SignerInv
<1> QED
  BY <1>1, <1>2, <1>3, <1>4, <1>5, <1>6

LEMMA AddNonceSigningInv ==
  ASSUME SigningInv, Alive, pc = "collect", NEW n \in todo, AddShares(n),
         UNCHANGED <<netVars, partyVars, session, signers, receiving, signature>>,
         UNCHANGED <<pc, dealing, failure>>, todo' = todo \ {n}, held' = 0,
         NEW s \in SharesAdded(n, signers[n][held].NonceShare,
                               signers[n][held].ReceivedNonces),
         nonceShares' = Append(nonceShares, [node |-> n, sum |-> s])
  PROVE  SigningInv'
<1> PICK i : i = held
  OBVIOUS
<1> PICK own : own = signers[n][i].NonceShare
  OBVIOUS
<1> PICK received : received = signers[n][i].ReceivedNonces
  OBVIOUS
<1>1. /\ current = n /\ stage = "sum" /\ LeaveBody
      /\ s \in SharesAdded(n, own, received)
  BY DEF AddShares
<1>2. /\ i \in 1 .. Len(signers[n])
      /\ Complete(n, own, snapshot)
      /\ Held(snapshot) \subseteq Held(received)
      /\ AllSign
  BY <1>1 DEF SigningInv, CollectInv
<1>3. /\ n \in nodes /\ n \in Ids /\ nodes \subseteq Ids /\ nodes = Parties
      /\ own \in 0 .. MaxRounds /\ received \in Sum
      /\ Held(received) \subseteq nodes
  BY <1>2, AtHeldSigner
<1>4. snapshot \in Sum /\ nonceShares \in Seq(NonceShare)
  BY DEF SigningInv, TypeOK, CollectTypeOK
<1>5. /\ s \in Sum
      /\ \A j \in Ids \ {n} : s[j] = snapshot[j] \/ s[j] = received[j]
  BY <1>1, <1>3, <1>4, SharesInSum
<1>6. \A j \in nodes \ {n} : s[j] # 0
  <2> PICK seen : seen = snapshot
    OBVIOUS
  <2>1. Held(seen) \subseteq nodes /\ Complete(n, own, seen)
    BY <1>2, <1>3
  <2>2. nodes \ {n} \subseteq Held(seen)
    BY <1>3, <2>1, CompleteHasAll
  <2>3. \A j \in nodes \ {n} : snapshot[j] # 0 /\ received[j] # 0
    BY <1>2, <2>2 DEF Held
  <2> QED
    BY <1>3, <1>5, <2>3
<1>7. /\ nonceShares' \in Seq(NonceShare)
      /\ \A x \in 1 .. Len(nonceShares') :
           \/ x \in 1 .. Len(nonceShares) /\ nonceShares'[x] = nonceShares[x]
           \/ nonceShares'[x] = [node |-> n, sum |-> s]
  <2>1. [node |-> n, sum |-> s] \in NonceShare
    BY <1>3, <1>5 DEF NonceShare
  <2>2. Len(nonceShares) \in Nat
    BY <1>4, LenProperties
  <2>3. /\ nonceShares' \in Seq(NonceShare)
        /\ Len(nonceShares') = Len(nonceShares) + 1
        /\ \A x \in 1 .. Len(nonceShares) : nonceShares'[x] = nonceShares[x]
        /\ nonceShares'[Len(nonceShares) + 1] = [node |-> n, sum |-> s]
    BY <1>4, <2>1, AppendProperties
  <2>4. \A x \in 1 .. Len(nonceShares) + 1 :
          x \in 1 .. Len(nonceShares) \/ x = Len(nonceShares) + 1
    BY <2>2
  <2> QED
    BY <2>3, <2>4
<1>8. nodes' = nodes /\ AllSign'
  BY <1>2 DEF AllSign, NoSigner, netVars
<1>9. NonceShareInv'
  BY <1>3, <1>7, <1>8 DEF SigningInv, NonceShareInv
<1>10. OnlyOwnNonceMissing'
  BY <1>6, <1>7, <1>8 DEF SigningInv, OnlyOwnNonceMissing
<1>11. CollectTypeOK' /\ BodyInv' /\ stage' = "idle"
  BY <1>1, NothingCollected DEF LeaveBody, CollectTypeOK, BodyInv
<1>12. CollectInv'
  BY <1>8, <1>11 DEF CollectInv
<1> QED
  BY <1>7, <1>9, <1>10, <1>11, <1>12, CollectFrame

LEMMA ComputeNonceSigningInv ==
  ASSUME SigningInv, Alive, NEW n \in todo, ComputeSharedNonce(n)
  PROVE  SigningInv'
<1> PICK i : i = held
  OBVIOUS
<1> PICK own : own = signers[n][i].NonceShare
  OBVIOUS
<1> PICK received : received = signers[n][i].ReceivedNonces
  OBVIOUS
<1>1. pc = "collect" /\ CollectStep(n)
      /\ UNCHANGED <<netVars, partyVars, session, signers, receiving, signature>>
  BY DEF ComputeSharedNonce
<1>2. AllSign /\ AllSign' /\ nodes' = nodes /\ n \in nodes /\ n \in Ids
  BY <1>1 DEF SigningInv, CollectInv, AllSign, NoSigner, netVars, TypeOK, DKGPartyTypeOK
<1>3. /\ snapshot \in Sum /\ total \in 0 .. Cardinality(Ids)
      /\ held \in 0 .. 2 /\ nonceShares \in Seq(NonceShare)
  BY DEF SigningInv, TypeOK, CollectTypeOK
<1>4. CASE /\ CountReceived(n, signers[n][Len(signers[n])].ReceivedNonces)
           /\ held' = Len(signers[n])
           /\ UNCHANGED <<mainVars, nonceShares>>
  <2> PICK last : last = Len(signers[n])
    OBVIOUS
  <2>1. last \in 0 .. 2 /\ last # 0
    BY <1>2, SignerTyped DEF SigningInv, SignersTyped, AllSign
  <2>2. last \in 1 .. Len(signers[n])
    BY <2>1
  <2>3. Cardinality(Held(signers[n][last].ReceivedNonces)) \in 0 .. Cardinality(Ids)
    <3>1. /\ Held(signers[n][last].ReceivedNonces) \subseteq Ids
          /\ IsFiniteSet(Ids) /\ Cardinality(Ids) \in Nat
          /\ Cardinality(Held(signers[n][last].ReceivedNonces)) \in Nat
      BY HeldIds, FiniteIds
    <3>2. Cardinality(Held(signers[n][last].ReceivedNonces)) <= Cardinality(Ids)
      BY <3>1, FS_Subset
    <3> QED
      BY <3>1, <3>2
  <2>4. /\ current' = n /\ stage' = "count" /\ held' = last /\ snapshot' = snapshot
        /\ total' = Cardinality(Held(signers[n][last].ReceivedNonces))
        /\ UNCHANGED <<pc, todo, dealing, failure, nonceShares, signers, nodes>>
    BY <1>1, <1>4 DEF CountReceived, mainVars, netVars
  <2>5. CollectTypeOK' /\ BodyInv'
    BY <1>1, <1>2, <1>3, <2>3, <2>4, Bounds DEF CollectTypeOK, BodyInv
  <2>6. CollectInv'
    <3>1. total' <= Cardinality(Held(signers[n][last].ReceivedNonces))
      BY <2>3, <2>4
    <3> QED
      BY <1>2, <2>2, <2>4, <3>1 DEF CollectInv, Held
  <2>7. NonceShareInv' /\ OnlyOwnNonceMissing'
    BY <1>2, <2>4 DEF SigningInv, NonceShareInv, OnlyOwnNonceMissing
  <2> QED
    BY <1>1, <1>3, <2>1, <2>4, <2>5, <2>6, <2>7, CollectFrame
<1>5. CASE CountOwn(n, own, received) /\ UNCHANGED <<mainVars, held, nonceShares>>
  <2>1. /\ current = n /\ stage = "count" /\ Enough(n, own, received)
        /\ current' = n /\ stage' = "sum" /\ snapshot' = received /\ total' = total
        /\ UNCHANGED <<pc, todo, dealing, failure, held, nonceShares, signers, nodes>>
    BY <1>1, <1>5 DEF CountOwn, mainVars, netVars
  <2>2. i \in 1 .. Len(signers[n]) /\ total <= Cardinality(Held(received))
    BY <1>1, <2>1 DEF SigningInv, CollectInv
  <2>3. own \in 0 .. MaxSessions /\ received \in Sum
    BY <1>1, <2>2, AtHeldSigner
  <2>4. Complete(n, own, received)
    BY <1>2, <1>3, <2>1, <2>2, <2>3, FiniteIds, EnoughIsComplete
  <2>5. CollectTypeOK' /\ BodyInv'
    BY <1>1, <1>2, <1>3, <2>1, <2>3, Bounds DEF CollectTypeOK, BodyInv
  <2>6. CollectInv'
    BY <1>2, <2>1, <2>2, <2>4 DEF CollectInv, Held, Complete
  <2>7. NonceShareInv' /\ OnlyOwnNonceMissing'
    BY <1>2, <2>1 DEF SigningInv, NonceShareInv, OnlyOwnNonceMissing
  <2> QED
    BY <1>1, <1>3, <2>1, <2>5, <2>6, <2>7, CollectFrame
<1>6. CASE /\ TooFew(n, own, received)
           /\ held' = 0
           /\ failure' = "missing shares"
           /\ pc' = "failed"
           /\ UNCHANGED <<todo, dealing, nonceShares>>
  <2>1. LeaveBody
    BY <1>6 DEF TooFew
  <2>2. TypeOK'
    <3>1. CollectTypeOK' /\ DKGPartyTypeOK'
      BY <1>1, <1>6, <2>1, NothingCollected
         DEF SigningInv, TypeOK, CollectTypeOK, DKGPartyTypeOK, LeaveBody, partyVars, netVars
    <3>2. UNCHANGED <<threshold, nodes, inflight, messageQueue, handling, session,
                      signers, receiving, signature>>
      BY <1>1 DEF netVars
    <3>3. held' = 0 /\ pc' = "failed" /\ failure' = "missing shares"
          /\ nonceShares' = nonceShares
      BY <1>6
    <3>4. 0 \in 0 .. 2
      OBVIOUS
    <3> QED
      BY <3>1, <3>2, <3>3, <3>4 DEF SigningInv, TypeOK
  <2>3. session # 0
    BY <1>1 DEF SigningInv, FreshInv
  <2> QED
    BY <1>1, <1>6, <2>1, <2>2, <2>3, PhaseEndSigningInv DEF LeaveBody, netVars, Alive
<1>7. CASE /\ AddShares(n)
           /\ held' = 0
           /\ \E s \in SharesAdded(n, own, received) :
                nonceShares' = Append(nonceShares, [node |-> n, sum |-> s])
           /\ todo' = todo \ {n}
           /\ UNCHANGED <<pc, dealing, failure>>
  BY <1>1, <1>7, AddNonceSigningInv
<1> QED
  BY <1>1, <1>4, <1>5, <1>6, <1>7 DEF CollectStep
-----------------------------------------------------------------------------
(* The deaths of the process.                                               *)
LEMMA GenerateAtNilSigningInv ==
  ASSUME SigningInv, NEW n \in todo, GenerateAtNilSigner(n)
  PROVE  SigningInv'
<1>1. n \in nodes /\ NoSigner(n) /\ current = n /\ stage = "generate" /\ Die("nil signer")
  BY DEF GenerateAtNilSigner, AtGenerate, SigningInv, TypeOK, DKGPartyTypeOK
<1>2. ~hasPrivateKey[n]
  BY <1>1 DEF SigningInv, GenerateInv
<1> QED
  BY <1>1, <1>2, NilSignerSigningInv

LEMMA ReceiveAtNilSigningInv ==
  ASSUME SigningInv, ReceiveAtNilSigner
  PROVE  SigningInv'
<1> PICK n : n = handling.To
  OBVIOUS
<1>1. NoSigner(n) /\ receiving = "receive" /\ Die("nil signer")
  BY DEF ReceiveAtNilSigner, AtReceive
<1>2. n \in nodes
  BY ReceivingIsUndelivered
     DEF ReceiveAtNilSigner, AtReceive, SigningInv, NonceMessageInv
<1>3. ~hasPrivateKey[n]
  BY <1>1 DEF SigningInv, GenerateInv
<1> QED
  BY <1>1, <1>2, <1>3, NilSignerSigningInv

LEMMA RaceSigningInv ==
  ASSUME SigningInv, NonceMapRace \/ NonceOutOfRange
  PROVE  SigningInv'
BY DyingSigningInv DEF NonceMapRace, NonceOutOfRange, Die

LEMMA NextSigningInv == SigningInv /\ [Next]_vars => SigningInv'
<1>1. ASSUME SigningInv, UNCHANGED vars PROVE SigningInv'
  <2>1. /\ UNCHANGED <<threshold, nodes, inflight, messageQueue, handling, closed, panic>>
        /\ UNCHANGED <<collectVars, mainVars, partyVars, signVars>>
    BY <1>1 DEF vars, dkgVars, netVars
  <2>2. panic' # "nil signer" \/ ~Keyed'
    BY <1>1, <2>1 DEF SigningInv, NoNilSigner, Keyed, partyVars
  <2> QED
    BY <1>1, <2>1, <2>2, DyingSigningInv
<1>2. ASSUME SigningInv, Next PROVE SigningInv'
  <2>1. Alive /\ (Main \/ Handler \/ Senders)
    BY <1>2 DEF Next, Running
  <2>2. CASE DKGMain /\ UNCHANGED signVars
    BY <1>2, <2>1, <2>2, JoinSigningInv, DKGPhaseSigningInv
  <2>3. CASE SignMain
    <3>1. ASSUME NEW n \in todo,
                 \/ FindNoSigner(n) \/ MainInitSigning(n)
                 \/ GenerateNonceShare(n) \/ GenerateFails(n) \/ GenerateAtNilSigner(n)
                 \/ ComputeSharedNonce(n)
          PROVE  SigningInv'
      BY <1>2, <2>1, <3>1, FindNoSignerSigningInv, MainInitSigningInv,
         GenerateNonceSigningInv, GenerateFailsSigningInv, GenerateAtNilSigningInv,
         ComputeNonceSigningInv
    <3>2. CASE StartSigning \/ WakeFromNonces
      BY <1>2, <2>1, <3>2, StartSigningInv, WakeFromNoncesSigningInv
    <3>3. CASE Reconstruct \/ NonceHasNoInverse \/ ReconstructFails \/ StopNetwork \/ Exit
      BY <1>2, <2>1, <3>3, EndSigningInv
    <3>4. CASE NonceOutOfRange
      BY <1>2, <3>4, RaceSigningInv
    <3> QED
      BY <2>3, <3>1, <3>2, <3>3, <3>4 DEF SignMain
  <2>4. CASE DKGHandler /\ UNCHANGED signVars
    BY <1>2, <2>1, <2>4, DKGHandlerSigningInv
  <2>5. CASE SignHandler
    BY <1>2, <2>1, <2>5, HandlerFindsSigningInv, HandlerInitSigningInv,
       ReceiveNonceSigningInv, ReceiveAtNilSigningInv, RaceSigningInv DEF SignHandler
  <2>6. CASE Senders
    BY <1>2, <2>1, <2>6, TransportSigningInv DEF Senders
  <2> QED
    BY <2>1, <2>2, <2>3, <2>4, <2>5, <2>6 DEF Main, Handler
<1> QED
  BY <1>1, <1>2
-----------------------------------------------------------------------------
(* SignPhase reads as many nonce shares as there are nodes.                 *)
LEMMA AddingCounts ==
  ASSUME SigningInv, SigningInv', NonceCountInv, pc = "collect",
         NEW n \in todo, NEW s,
         nonceShares' = Append(nonceShares, [node |-> n, sum |-> s]),
         todo' = todo \ {n}, nodes' = nodes
  PROVE  Len(nonceShares') = Cardinality(nodes \ todo')
<1> PICK entry : entry = [node |-> n, sum |-> s]
  OBVIOUS
<1>1. /\ nonceShares \in Seq(NonceShare) /\ nonceShares' \in Seq(NonceShare)
      /\ nonceShares' = Append(nonceShares, entry)
  BY DEF SigningInv, TypeOK
<1>2. Len(nonceShares') = Len(nonceShares) + 1
  BY <1>1
<1>3. nodes \subseteq Ids /\ n \in nodes
  BY DEF SigningInv, TypeOK, DKGPartyTypeOK
<1>4. nodes \ todo' = (nodes \ todo) \cup {n} /\ n \notin nodes \ todo
  BY <1>3
<1>5. IsFiniteSet(nodes \ todo)
  BY <1>3, FiniteIds
<1>6. Cardinality((nodes \ todo) \cup {n}) = Cardinality(nodes \ todo) + 1
  BY <1>4, <1>5, FS_AddElement
<1> QED
  BY <1>2, <1>4, <1>6 DEF NonceCountInv

(* What can happen to the thresholds, the nodes and the nonce shares.       *)
LEMMA OtherThreshold ==
  ASSUME ThresholdInv,
         UNCHANGED <<threshold, nodes, todo, nonceShares, signature>>,
         pc' \in {"nonce", "collect"} => pc' = pc,
         panic' = "index out of range" => panic = panic'
  PROVE  ThresholdInv'
BY DEF ThresholdInv, NonceCountInv, UsableThreshold, BadThreshold

LEMMA DKGThreshold ==
  ASSUME SigningInv, ThresholdInv, DKGMain, UNCHANGED signVars, Alive
  PROVE  ThresholdInv'
<1> USE DEF signVars
<1>1. CASE \E n \in todo : \/ GenerateSecretShare(n) \/ BroadcastCommitments(n)
                           \/ BroadcastShares(n) \/ ComputeSharedPrivateKey(n)
  <2>1. pc \in {"deal", "derive"} /\ pc' \in {"deal", "derive", "failed"}
    BY <1>1 DEF GenerateSecretShare, BroadcastCommitments, BroadcastShares,
                ComputeSharedPrivateKey, DeriveStep, mainVars
  <2>2. UNCHANGED <<threshold, panic>>
    BY <1>1 DEF GenerateSecretShare, BroadcastCommitments, BroadcastShares,
                SendMessages, ComputeSharedPrivateKey, netVars
  <2> QED
    BY <2>1, <2>2 DEF ThresholdInv, NonceCountInv, UsableThreshold, Alive
<1>2. CASE Join \/ StartDKG \/ WakeFromDealing \/ CombinePublicKeys
  <2>1. pc' \in {"setup", "deal", "derive", "keyed"} /\ UNCHANGED <<threshold, panic>>
    BY <1>2 DEF Join, AddNode, StartDKG, WakeFromDealing, CombinePublicKeys, netVars,
                mainVars
  <2> QED
    BY <2>1 DEF ThresholdInv, NonceCountInv, UsableThreshold, Alive
<1>3. CASE GenerateNoCoefficients \/ CombineAtNilNode
  <2>1. pc' \in {"deal", "derive"} /\ UNCHANGED <<threshold, signature>>
    BY <1>3 DEF GenerateNoCoefficients, CombineAtNilNode, mainVars
  <2>2. panic' = "index out of range" => threshold = 0
    BY <1>3 DEF GenerateNoCoefficients, CombineAtNilNode
  <2> QED
    BY <2>1, <2>2 DEF ThresholdInv, NonceCountInv, UsableThreshold
<1> QED
  BY <1>1, <1>2, <1>3 DEF DKGMain

(* The step that takes nonceShares[0] to nonceShares[threshold - 1].        *)
LEMMA ReadingThreshold ==
  ASSUME SigningInv, ThresholdInv, pc = "collect", todo = {}
  PROVE  /\ Len(nonceShares) = Cardinality(nodes)
         /\ nodes # {} => /\ Cardinality(nodes) = NumParties
                          /\ threshold \in 2 .. NumParties
<1>1. Len(nonceShares) = Cardinality(nodes)
  BY DEF ThresholdInv, NonceCountInv
<1>2. ASSUME nodes # {}
      PROVE  Cardinality(nodes) = NumParties /\ threshold \in 2 .. NumParties
  <2>1. KeyInv /\ nodes \subseteq Ids /\ \A n \in nodes : hasPrivateKey[n]
    BY DEF SigningInv, CollectInv, AllSign, SignerInv, TypeOK
  <2>2. nodes = Parties
    BY <1>2, <2>1, AllKeyedIsFull
  <2>3. Cardinality(nodes) = NumParties
    BY <2>2, CountParties
  <2>4. threshold \in Nat /\ NumParties \in Nat /\ ~BadThreshold
    BY <1>2, SizeAssumption DEF ThresholdInv, SigningInv, TypeOK
  <2> QED
    BY <2>3, <2>4 DEF BadThreshold
<1> QED
  BY <1>1, <1>2

LEMMA SignThreshold ==
  ASSUME SigningInv, SigningInv', ThresholdInv, SignMain, Alive
  PROVE  ThresholdInv'
<1> USE DEF Alive
<1>1. todo \subseteq nodes /\ nodes \subseteq Ids
  BY DEF SigningInv, TypeOK, DKGPartyTypeOK
<1>2. CASE StartSigning
  <2>1. /\ pc' = "nonce" /\ nonceShares' = <<>> /\ todo' = nodes /\ nodes' = nodes
        /\ signature' = Nil /\ panic' = panic
    BY <1>2 DEF StartSigning, netVars
  <2> QED
    BY <2>1 DEF ThresholdInv, NonceCountInv, UsableThreshold
<1>3. ASSUME NEW n \in todo, FindNoSigner(n) \/ MainInitSigning(n)
      PROVE  ThresholdInv'
  BY <1>3, OtherThreshold DEF FindNoSigner, MainInitSigning, netVars, mainVars, signVars
<1>4. ASSUME NEW n \in todo, GenerateNonceShare(n) PROVE ThresholdInv'
  <2>1. /\ UNCHANGED <<threshold, nodes, nonceShares, signature, panic, pc>>
        /\ ~BadThreshold /\ pc = "nonce"
    BY <1>4 DEF GenerateNonceShare, SendMessages, AtGenerate
  <2> QED
    BY <2>1 DEF ThresholdInv, NonceCountInv, UsableThreshold, BadThreshold
<1>5. ASSUME NEW n \in todo, GenerateFails(n) \/ GenerateAtNilSigner(n)
      PROVE  ThresholdInv'
  BY <1>5, OtherThreshold
     DEF GenerateFails, GenerateAtNilSigner, Die, netVars, mainVars, signVars
<1>6. ASSUME NEW n \in todo, ComputeSharedNonce(n) PROVE ThresholdInv'
  <2>1. pc = "collect" /\ UNCHANGED <<threshold, nodes, signature, panic>>
    BY <1>6 DEF ComputeSharedNonce, netVars
  <2>2. CASE UNCHANGED <<mainVars, nonceShares>>
    BY <2>1, <2>2, OtherThreshold DEF mainVars
  <2>3. CASE ~UNCHANGED <<mainVars, nonceShares>> /\ pc' = "failed"
    BY <2>1, <2>3 DEF ThresholdInv, NonceCountInv, UsableThreshold
  <2>4. CASE ~UNCHANGED <<mainVars, nonceShares>> /\ pc' # "failed"
    <3>1. /\ todo' = todo \ {n} /\ pc' = pc
          /\ \E s : nonceShares' = Append(nonceShares, [node |-> n, sum |-> s])
      BY <1>6, <2>4 DEF ComputeSharedNonce, CollectStep
    <3>2. Len(nonceShares') = Cardinality(nodes \ todo')
      BY <2>1, <3>1, AddingCounts DEF ThresholdInv
    <3> QED
      BY <2>1, <3>1, <3>2 DEF ThresholdInv, NonceCountInv, UsableThreshold, BadThreshold
  <2> QED
    BY <2>2, <2>3, <2>4
<1>7. CASE WakeFromNonces
  <2>1. /\ pc = "nonce" /\ todo = {} /\ pc' = "collect" /\ todo' = nodes
        /\ UNCHANGED <<threshold, nodes, signature, panic, nonceShares>>
    BY <1>7 DEF WakeFromNonces, netVars, signVars
  <2>2. nonceShares = <<>> /\ (nodes = {} \/ ~BadThreshold)
    BY <2>1 DEF ThresholdInv
  <2>3. Len(nonceShares) = 0 /\ Cardinality(nodes \ nodes) = 0
    BY <2>2, EmptySeq, FS_EmptySet
  <2> QED
    BY <2>1, <2>2, <2>3 DEF ThresholdInv, NonceCountInv, UsableThreshold, BadThreshold
<1>8. CASE Reconstruct
  <2>1. /\ pc = "collect" /\ todo = {} /\ pc' = "signed"
        /\ threshold \in 2 .. Len(nonceShares) /\ UNCHANGED <<threshold, nodes, panic>>
    BY <1>8 DEF Reconstruct, netVars
  <2>2. nodes # {}
    <3> SUFFICES ASSUME nodes = {} PROVE FALSE
      OBVIOUS
    <3>1. Len(nonceShares) = 0
      BY <2>1, ReadingThreshold, FS_EmptySet
    <3> QED
      BY <2>1, <3>1
  <2>3. threshold \in 2 .. NumParties
    BY <2>1, <2>2, ReadingThreshold
  <2> QED
    BY <2>1, <2>3 DEF ThresholdInv, NonceCountInv, UsableThreshold
<1>9. CASE NonceOutOfRange
  <2>1. /\ pc = "collect" /\ todo = {} /\ threshold > Len(nonceShares)
        /\ UNCHANGED <<threshold, nodes, signature, nonceShares, todo, pc>>
    BY <1>9 DEF NonceOutOfRange, Die, mainVars, signVars
  <2>2. nodes = {}
    <3> SUFFICES ASSUME nodes # {} PROVE FALSE
      OBVIOUS
    <3>1. Len(nonceShares) = NumParties /\ threshold \in 2 .. NumParties
      BY <2>1, ReadingThreshold
    <3> QED
      BY <2>1, <3>1, SizeAssumption
  <2> QED
    BY <2>1, <2>2 DEF ThresholdInv, NonceCountInv, UsableThreshold, BadThreshold
<1>10. CASE NonceHasNoInverse \/ ReconstructFails \/ StopNetwork \/ Exit
  <2>1. /\ pc' \in {"failed", "stopped", "exited"}
        /\ UNCHANGED <<threshold, nodes, signature, panic>>
    BY <1>10 DEF NonceHasNoInverse, ReconstructFails, StopNetwork, Stop, Exit, netVars,
                 signVars
  <2> QED
    BY <2>1 DEF ThresholdInv, NonceCountInv, UsableThreshold
<1> QED
  BY <1>2, <1>3, <1>4, <1>5, <1>6, <1>7, <1>8, <1>9, <1>10 DEF SignMain

LEMMA InitThreshold == Init => ThresholdInv
BY DEF Init, DKGInit, NetInit, ThresholdInv, NonceCountInv, UsableThreshold

LEMMA NextThreshold == SigningInv /\ ThresholdInv /\ [Next]_vars => ThresholdInv'
<1>1. ASSUME SigningInv, ThresholdInv, UNCHANGED vars PROVE ThresholdInv'
  BY <1>1, OtherThreshold DEF vars, dkgVars, netVars, mainVars, signVars
<1>2. ASSUME SigningInv, ThresholdInv, Next PROVE ThresholdInv'
  <2>1. Alive /\ (Main \/ Handler \/ Senders) /\ SigningInv'
    BY <1>2, NextSigningInv DEF Next, Running
  <2>2. CASE Main
    BY <1>2, <2>1, <2>2, DKGThreshold, SignThreshold DEF Main
  <2>3. CASE Handler \/ Senders
    <3>1. UNCHANGED <<threshold, nodes, mainVars, nonceShares, signature>>
      BY <2>3 DEF Handler, DKGHandler, TakeMessage, ReceiveDKGShare, Delivered, DKGMapRace,
                  SignHandler, Die, HandlerFindsNoSigner, HandlerInitSigning,
                  ReceiveNonceShare, ReceiveAtNilSigner, NonceMapRace, Senders, Sender,
                  Enqueue, SendOnClosed, dkgVars, netVars, signVars
    <3>2. panic' # "index out of range"
      BY <2>1, <2>3
         DEF Alive, Handler, DKGHandler, TakeMessage, ReceiveDKGShare, Delivered,
             DKGMapRace, SignHandler, Die, HandlerFindsNoSigner, HandlerInitSigning,
             ReceiveNonceShare, ReceiveAtNilSigner, NonceMapRace, Senders, Sender,
             Enqueue, SendOnClosed, dkgVars, netVars
    <3> QED
      BY <1>2, <3>1, <3>2, OtherThreshold DEF mainVars
  <2> QED
    BY <2>1, <2>2, <2>3
<1> QED
  BY <1>1, <1>2
-----------------------------------------------------------------------------
(* The invariant behind the properties of signing: who is about to assign   *)
(* n.signer found it nil, nobody loses one, no object loses a share, and    *)
(* what ComputeSharedNonce has counted is there.                            *)
THEOREM SigningInvariant == Spec => []SigningInv
<1> QED
  BY InitSigningInv, NextSigningInv, PTL DEF Spec

(* Every variable of the whole demo keeps its type; in particular a node    *)
(* gets at most two NodeSigning objects, however main and the handler race. *)
THEOREM SigningTypeCorrect == Spec => []TypeOK
<1>1. SigningInv => TypeOK
  BY DEF SigningInv
<1> QED
  BY <1>1, SigningInvariant, PTL

(* The lost update on n.signer and the unlocked reads of ComputeSharedNonce *)
(* can cost a nonce share nothing but the node's own share.                 *)
THEOREM NonceSharesLackOnlyOwn == Spec => []OnlyOwnNonceMissing
<1>1. SigningInv => OnlyOwnNonceMissing
  BY DEF SigningInv
<1> QED
  BY <1>1, SigningInvariant, PTL

(* After DKGPhase has returned a key InitSigning always sets n.signer.      *)
THEOREM KeyedNeverNilSigner == Spec => []NoNilSigner
<1>1. SigningInv => NoNilSigner
  BY DEF SigningInv
<1> QED
  BY <1>1, SigningInvariant, PTL

(* Key generation checks no threshold and SignPhase indexes nonceShares up  *)
(* to it: whoever has got there has a threshold that Share accepted and as  *)
(* many nonce shares as parties, or no node at all.                         *)
THEOREM ThresholdIsUsable == Spec => []UsableThreshold
<1>1. ThresholdInv => UsableThreshold
  BY DEF ThresholdInv
<1> QED
  BY <1>1, InitThreshold, InitSigningInv, NextSigningInv, NextThreshold, PTL DEF Spec
=============================================================================
