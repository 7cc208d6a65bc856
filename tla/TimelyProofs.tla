----------------------------- MODULE TimelyProofs -----------------------------
(***************************************************************************)
(* Proofs about the sessions of the threshold signing demo when the Sleeps *)
(* of the phases cover the deliveries, for any number of parties, dealings *)
(* and sessions: a signature is made of nonce shares of its own session    *)
(* only, and a session that is retried does not lose a nonce share again.  *)
(***************************************************************************)
EXTENDS Timely, VerifyProofs

(* What the steps that touch NodeSigning objects do to them.                *)
LEMMA ReplacedObjects ==
  ASSUME TypeOK, NEW n \in Ids, ~NoSigner(n), NEW new, LastReplaced(n, new)
  PROVE  /\ \A m \in Ids : Len(signers'[m]) = Len(signers[m])
         /\ \A m \in Ids : \A i \in 1 .. Len(signers[m]) :
              signers'[m][i] = IF m = n /\ i = Len(signers[n]) THEN new
                                                              ELSE signers[m][i]
<1> PICK old : old = signers[n]
  OBVIOUS
<1> PICK last : last = Len(old)
  OBVIOUS
<1>1. signers \in [Ids -> Seq(Signer)] /\ old \in Seq(Signer) /\ last \in Nat
  BY LenProperties DEF TypeOK
<1>2. DOMAIN old = 1 .. last
  BY <1>1, LenProperties
<1>3. signers' = [signers EXCEPT ![n] = [old EXCEPT ![last] = new]]
  BY DEF LastReplaced
<1>4. /\ Len([old EXCEPT ![last] = new]) = last
      /\ \A i \in 1 .. last : [old EXCEPT ![last] = new][i] = IF i = last THEN new ELSE old[i]
  <2>1. last # 0
    BY <1>1, EmptySeq DEF NoSigner
  <2>2. last \in 1 .. last
    BY <1>1, <2>1
  <2> QED
    BY <1>1, <1>2, <2>2, LenProperties
<1>5. signers'[n] = [old EXCEPT ![last] = new] /\ \A m \in Ids \ {n} : signers'[m] = signers[m]
  BY <1>1, <1>3
<1> QED
  BY <1>4, <1>5

(* Objects that are as many as before are there as before.                  *)
LEMMA SameNumber ==
  ASSUME TypeOK, TypeOK', NEW m \in Ids, Len(signers'[m]) = Len(signers[m])
  PROVE  NoSigner(m)' <=> NoSigner(m)
BY SignerTyped, SignerTypedNext DEF SignersTyped

LEMMA GenerateObjects ==
  ASSUME SigningInv, SigningInv', NEW n \in todo, GenerateNonceShare(n)
  PROVE  /\ \A m \in Ids : Len(signers'[m]) = Len(signers[m])
         /\ \A m \in Ids : NoSigner(m)' <=> NoSigner(m)
         /\ \A m \in Ids : \A i \in 1 .. Len(signers[m]) :
              /\ signers'[m][i].ReceivedNonces = signers[m][i].ReceivedNonces
              /\ signers'[m][i].NonceShare \in {signers[m][i].NonceShare, session}
<1> PICK last : last = Len(signers[n])
  OBVIOUS
<1> PICK old : old = signers[n][last]
  OBVIOUS
<1> DEFINE new == [old EXCEPT !.NonceShare = IF NumParties > n THEN session ELSE @]
<1>1. TypeOK /\ TypeOK' /\ n \in Ids /\ ~NoSigner(n)
  BY DEF GenerateNonceShare, SigningInv, TypeOK, DKGPartyTypeOK
<1>2. LastReplaced(n, new)
  BY DEF GenerateNonceShare, LastReplaced
<1>3. old \in Signer
  <2>1. last \in 0 .. 2 /\ last # 0 /\ \A i \in 1 .. last : signers[n][i] \in Signer
    BY <1>1, SignerTyped DEF SignersTyped
  <2>2. last \in 1 .. last
    BY <2>1
  <2> QED
    BY <2>1, <2>2
<1>4. /\ new.ReceivedNonces = old.ReceivedNonces
      /\ new.NonceShare \in {old.NonceShare, session}
  BY <1>3 DEF Signer
<1> HIDE DEF new
<1>5. /\ \A m \in Ids : Len(signers'[m]) = Len(signers[m])
      /\ \A m \in Ids : \A i \in 1 .. Len(signers[m]) :
           signers'[m][i] = IF m = n /\ i = Len(signers[n]) THEN new ELSE signers[m][i]
  BY <1>1, <1>2, ReplacedObjects
<1>6. \A m \in Ids : NoSigner(m)' <=> NoSigner(m)
  BY <1>1, <1>5, SameNumber
<1> QED
  BY <1>4, <1>5, <1>6

LEMMA ReceiveObjects ==
  ASSUME SigningInv, SigningInv', ReceiveNonceShare,
         NEW n, n = handling.To, NEW from, from = handling.From
  PROVE  /\ \A m \in Ids : Len(signers'[m]) = Len(signers[m])
         /\ \A m \in Ids : NoSigner(m)' <=> NoSigner(m)
         /\ ~NoSigner(n)
         /\ \A m \in Ids : \A i \in 1 .. Len(signers[m]) :
              signers'[m][i].NonceShare = signers[m][i].NonceShare
         /\ \A m \in Ids : \A i \in 1 .. Len(signers[m]) : \A j \in Ids :
              signers'[m][i].ReceivedNonces[j] =
                IF m = n /\ i = Len(signers[n]) /\ j = from
                  THEN handling.Payload ELSE signers[m][i].ReceivedNonces[j]
<1> PICK payload : payload = handling.Payload
  OBVIOUS
<1> PICK last : last = Len(signers[n])
  OBVIOUS
<1> PICK old : old = signers[n][last]
  OBVIOUS
<1> DEFINE new == [old EXCEPT !.ReceivedNonces[from] = payload]
<1>0. handling # Nil /\ handling \in Undelivered /\ handling.Type = "sign_nonce"
  BY ReceivingIsUndelivered DEF ReceiveNonceShare, AtReceive, ReceivingNonce
<1>1. TypeOK /\ TypeOK' /\ n \in Ids /\ ~NoSigner(n)
  BY <1>0 DEF ReceiveNonceShare, SigningInv, TypeOK, NonceMessageInv
<1>2. LastReplaced(n, new)
  BY DEF ReceiveNonceShare, LastReplaced
<1>3. old \in Signer
  <2>1. last \in 0 .. 2 /\ last # 0 /\ \A i \in 1 .. last : signers[n][i] \in Signer
    BY <1>1, SignerTyped DEF SignersTyped
  <2>2. last \in 1 .. last
    BY <2>1
  <2> QED
    BY <2>1, <2>2
<1>4. /\ new.NonceShare = old.NonceShare
      /\ new.ReceivedNonces = [old.ReceivedNonces EXCEPT ![from] = payload]
      /\ old.ReceivedNonces \in Sum
  BY <1>3 DEF Signer
<1> HIDE DEF new
<1>5. \A j \in Ids : new.ReceivedNonces[j] = IF j = from THEN payload
                                                         ELSE old.ReceivedNonces[j]
  BY <1>4 DEF Sum
<1>6. /\ \A m \in Ids : Len(signers'[m]) = Len(signers[m])
      /\ \A m \in Ids : \A i \in 1 .. Len(signers[m]) :
           signers'[m][i] = IF m = n /\ i = Len(signers[n]) THEN new ELSE signers[m][i]
  BY <1>1, <1>2, ReplacedObjects
<1>7. \A m \in Ids : NoSigner(m)' <=> NoSigner(m)
  BY <1>1, <1>6, SameNumber
<1>8. ASSUME NEW m \in Ids, NEW i \in 1 .. Len(signers[m])
      PROVE  /\ signers'[m][i].NonceShare = signers[m][i].NonceShare
             /\ \A j \in Ids : signers'[m][i].ReceivedNonces[j] =
                  IF m = n /\ i = Len(signers[n]) /\ j = from
                    THEN payload ELSE signers[m][i].ReceivedNonces[j]
  <2>1. CASE m = n /\ i = Len(signers[n])
    <3>1. signers'[m][i] = new /\ signers[m][i] = old
      BY <1>6, <2>1
    <3>2. signers'[m][i].NonceShare = signers[m][i].NonceShare
      BY <1>4, <3>1
    <3>3. \A j \in Ids : signers'[m][i].ReceivedNonces[j] =
            IF j = from THEN payload ELSE signers[m][i].ReceivedNonces[j]
      BY <1>5, <3>1
    <3> QED
      BY <2>1, <3>2, <3>3
  <2>2. CASE ~(m = n /\ i = Len(signers[n]))
    <3>1. signers'[m][i] = signers[m][i]
      BY <1>6, <2>2
    <3> QED
      BY <2>2, <3>1
  <2> QED
    BY <2>1, <2>2
<1> QED
  BY <1>1, <1>6, <1>7, <1>8

(* InitSigning adds an empty object or none.                                *)
LEMMA InitObjects ==
  ASSUME SigningInv, NEW n \in Ids, InitSigning(n), Len(signers[n]) <= 1
  PROVE  /\ \A m \in Ids \ {n} : signers'[m] = signers[m]
         /\ ~NoSigner(n) => ~NoSigner(n)'
         /\ \A i \in 1 .. Len(signers'[n]) :
              \/ i \in 1 .. Len(signers[n]) /\ signers'[n][i] = signers[n][i]
              \/ /\ signers'[n][i].NonceShare = 0
                 /\ \A j \in Ids : signers'[n][i].ReceivedNonces[j] = 0
<1>1. signers \in [Ids -> Seq(Signer)]
  BY DEF SigningInv, TypeOK
<1>2. CASE ~hasPrivateKey[n]
  BY <1>2 DEF InitSigning, NoSigner
<1>3. CASE hasPrivateKey[n]
  <2> PICK fresh : fresh = NewNodeSigning(n)
    OBVIOUS
  <2> PICK old : old = signers[n]
    OBVIOUS
  <2>1. fresh.NonceShare = 0 /\ \A j \in Ids : fresh.ReceivedNonces[j] = 0
    BY DEF NewNodeSigning, NoShares
  <2>2. signers'[n] = Append(old, fresh) /\ \A m \in Ids \ {n} : signers'[m] = signers[m]
    BY <1>1, <1>3 DEF InitSigning
  <2>3. fresh \in Signer
    <3>1. privateKeyShare[n] \in Sum
      BY DEF SigningInv, TypeOK, DKGPartyTypeOK
    <3>2. 0 \in 0 .. MaxSessions
      BY SessionBounds
    <3> QED
      BY <3>1, <3>2, NothingCollected DEF NewNodeSigning, Signer
  <2>4. /\ Len(Append(old, fresh)) = Len(old) + 1
        /\ Append(old, fresh)[Len(old) + 1] = fresh
        /\ \A i \in 1 .. Len(old) : Append(old, fresh)[i] = old[i]
        /\ Len(old) \in Nat
    BY <1>1, <2>3, AppendProperties, LenProperties
  <2>5. \A i \in 1 .. Len(old) + 1 : i \in 1 .. Len(old) \/ i = Len(old) + 1
    BY <2>4
  <2>6. signers'[n] # <<>>
    <3>1. Append(old, fresh) # <<>>
      BY <1>1, <2>3, AppendProperties
    <3> QED
      BY <2>2, <3>1
  <2> QED
    BY <2>1, <2>2, <2>4, <2>5, <2>6 DEF NoSigner
<1> QED
  BY <1>2, <1>3

(* The steps that touch NodeSigning objects.                                *)
LEMMA SignerSteps ==
  ASSUME Next
  PROVE  \/ signers' = signers
         \/ \E n \in todo : MainInitSigning(n) \/ GenerateNonceShare(n)
         \/ HandlerInitSigning
         \/ ReceiveNonceShare
<1>1. CASE UNCHANGED signVars
  BY <1>1 DEF signVars
<1>2. CASE SignMain
  BY <1>2 DEF SignMain, StartSigning, FindNoSigner, GenerateFails, GenerateAtNilSigner,
              ComputeSharedNonce, WakeFromNonces, Reconstruct, NonceHasNoInverse,
              ReconstructFails, NonceOutOfRange, StopNetwork, Exit, Die, signVars
<1>3. CASE SignHandler
  BY <1>3 DEF SignHandler, HandlerFindsNoSigner, ReceiveAtNilSigner, NonceMapRace, Die,
              signVars
<1> QED
  BY <1>1, <1>2, <1>3 DEF Next, Main, Handler, Senders

(* Nodes and threshold stay what they are once a session began.             *)
LEMMA SessionSteps ==
  ASSUME SigningInv, Next
  PROVE  /\ StartSigning \/ session' = session
         /\ session' # 0 => UNCHANGED <<nodes, threshold>>
<1>1. CASE DKGMain /\ UNCHANGED signVars
  <2>1. CASE Join
    BY <1>1, <2>1 DEF Join, signVars, SigningInv, FreshInv
  <2>2. CASE ~Join
    BY <1>1, <2>2
       DEF DKGMain, StartDKG, GenerateSecretShare, BroadcastCommitments,
           BroadcastShares, SendMessages, ComputeSharedPrivateKey,
           GenerateNoCoefficients, WakeFromDealing, CombinePublicKeys,
           CombineAtNilNode, netVars, signVars
  <2> QED
    BY <2>1, <2>2
<1>2. CASE SignMain
  BY <1>2 DEF SignMain, FindNoSigner, MainInitSigning, GenerateNonceShare, SendMessages,
              StartSigning, GenerateFails, GenerateAtNilSigner, ComputeSharedNonce,
              WakeFromNonces, Reconstruct, NonceHasNoInverse, ReconstructFails,
              NonceOutOfRange, StopNetwork, Stop, Exit, Die, netVars, signVars
<1>3. CASE Handler
  BY <1>3 DEF Handler, DKGHandler, TakeMessage, ReceiveDKGShare, DKGMapRace, SignHandler,
              HandlerFindsNoSigner, HandlerInitSigning, ReceiveNonceShare,
              ReceiveAtNilSigner, NonceMapRace, Delivered, Die, dkgVars, netVars, signVars
<1>4. CASE Senders
  BY <1>4 DEF Senders, Sender, Enqueue, SendOnClosed, signVars
<1> QED
  BY <1>1, <1>2, <1>3, <1>4 DEF Next, Main

LEMMA KeyedStays ==
  ASSUME SigningInv, SigningInv', Next, Keyed
  PROVE  Keyed'
<1>1. CASE UNCHANGED sharedPublicKey
  BY <1>1 DEF Keyed
<1>2. CASE CombinePublicKeys
  <2>1. 0 \in nodes' /\ sharedPublicKey'[0] # Nil /\ nodes' \subseteq Ids
    BY <1>2 DEF CombinePublicKeys, SigningInv, TypeOK, KeyInv, KeyedInv
  <2> QED
    BY <2>1 DEF Keyed
<1>3. CASE ~UNCHANGED sharedPublicKey
  <2>1. CASE DKGMain
    BY <1>2, <1>3, <2>1
       DEF DKGMain, Join, StartDKG, GenerateSecretShare, BroadcastCommitments,
           BroadcastShares, ComputeSharedPrivateKey, DeriveStep,
           GenerateNoCoefficients, WakeFromDealing, CombineAtNilNode, partyVars
  <2>2. CASE SignMain
    BY <1>3, <2>2
       DEF SignMain, FindNoSigner, MainInitSigning, GenerateNonceShare, StartSigning,
           GenerateFails, GenerateAtNilSigner, ComputeSharedNonce, WakeFromNonces,
           Reconstruct, NonceHasNoInverse, ReconstructFails, NonceOutOfRange,
           StopNetwork, Exit, Die, partyVars
  <2>3. CASE Handler \/ Senders
    BY <1>3, <2>3
       DEF Handler, DKGHandler, ReceiveDKGShare, DKGMapRace, SignHandler,
           HandlerFindsNoSigner, HandlerInitSigning, ReceiveNonceShare,
           ReceiveAtNilSigner, NonceMapRace, Die, Senders, dkgVars, partyVars
  <2> QED
    BY <2>1, <2>2, <2>3 DEF Next, Main
<1> QED
  BY <1>1, <1>3

(* Main and the handler call InitSigning at a node that has at most one     *)
(* object.                                                                  *)
LEMMA InitSteps ==
  ASSUME SigningInv, (\E n \in todo : MainInitSigning(n)) \/ HandlerInitSigning
  PROVE  /\ \E n \in Ids : /\ InitSigning(n)
                           /\ Len(signers[n]) <= 1
                           /\ MainInits(n) \/ HandlerInits(n)
         /\ UNCHANGED session
<1>1. ASSUME NEW n \in todo, MainInitSigning(n)
      PROVE  n \in Ids /\ InitSigning(n) /\ Len(signers[n]) <= 1 /\ MainInits(n)
  BY <1>1 DEF MainInitSigning, MainInits, SigningInv, TypeOK, DKGPartyTypeOK, SignerInv
<1>2. CASE HandlerInitSigning
  <2> PICK n : n = handling.To
    OBVIOUS
  <2>1. n \in Ids
    BY <1>2, ReceivingIsUndelivered
       DEF HandlerInitSigning, SigningInv, TypeOK, NonceMessageInv
  <2>2. InitSigning(n) /\ HandlerInits(n)
    BY <1>2 DEF HandlerInitSigning, HandlerInits
  <2> QED
    BY <1>2, <2>1, <2>2 DEF SigningInv, SignerInv, HandlerInitSigning
<1> QED
  BY <1>1, <1>2 DEF MainInitSigning
-----------------------------------------------------------------------------
(* After the first session every node has its object, and no object holds a *)
(* share of a session that has not begun.                                   *)
LEMMA LaterNumbers == \A x \in Nat : x > 1 => x # 0
OBVIOUS

LEMMA SessionTyped == SigningInv => session \in Nat
<1>1. SigningInv => session \in 0 .. MaxSessions
  BY DEF SigningInv, TypeOK
<1> QED
  BY <1>1, SessionBounds

LEMMA SignersStay ==
  ASSUME SigningInv, SigningInv', Next
  PROVE  \A n \in Ids : ~NoSigner(n) => ~NoSigner(n)'
<1>1. CASE signers' = signers
  BY <1>1 DEF NoSigner
<1>2. CASE (\E n \in todo : MainInitSigning(n)) \/ HandlerInitSigning
  <2> PICK n \in Ids : InitSigning(n) /\ Len(signers[n]) <= 1
    BY <1>2, InitSteps
  <2> QED
    BY InitObjects DEF NoSigner
<1>3. CASE \E n \in todo : GenerateNonceShare(n)
  BY <1>3, GenerateObjects
<1>4. CASE ReceiveNonceShare
  <2> PICK n : n = handling.To
    OBVIOUS
  <2> PICK from : from = handling.From
    OBVIOUS
  <2> QED
    BY <1>4, ReceiveObjects
<1> QED
  BY <1>1, <1>2, <1>3, <1>4, SignerSteps

LEMMA SharesSoFar ==
  ASSUME SigningInv, SigningInv', SessionInv, Next,
         NEW m \in Ids, NEW i \in 1 .. Len(signers'[m])
  PROVE  /\ signers'[m][i].NonceShare <= session'
         /\ \A j \in Ids : signers'[m][i].ReceivedNonces[j] <= session'
<1>1. session \in Nat
  BY SessionTyped
<1>2. ASSUME NEW n \in Ids, NEW k \in 1 .. Len(signers[n])
      PROVE  /\ signers[n][k].NonceShare <= session
             /\ \A j \in Ids : signers[n][k].ReceivedNonces[j] <= session
  BY <1>2 DEF SessionInv
<1>3. CASE StartSigning
  <2>1. signers' = signers /\ session' = session + 1
    BY <1>3 DEF StartSigning
  <2>2. /\ signers[m][i].NonceShare \in 0 .. MaxSessions
        /\ signers[m][i].ReceivedNonces \in Sum
    BY <2>1, SignerTyped DEF SigningInv, SignersTyped
  <2>3. /\ signers[m][i].NonceShare \in Nat
        /\ \A j \in Ids : signers[m][i].ReceivedNonces[j] \in Nat
    BY <2>2, SessionBounds DEF Sum
  <2>4. \A x, y \in Nat : x <= y => x <= y + 1
    OBVIOUS
  <2> QED
    BY <1>1, <1>2, <2>1, <2>3, <2>4
<1>4. CASE session' = session
  <2>1. CASE signers' = signers
    BY <1>2, <1>4, <2>1
  <2>2. CASE (\E n \in todo : MainInitSigning(n)) \/ HandlerInitSigning
    <3> PICK n \in Ids : InitSigning(n) /\ Len(signers[n]) <= 1
      BY <2>2, InitSteps
    <3>1. CASE m # n
      <4>1. signers'[m] = signers[m]
        BY <3>1, InitObjects
      <4> QED
        BY <1>2, <1>4, <4>1
    <3>2. CASE m = n
      <4>1. \/ i \in 1 .. Len(signers[n]) /\ signers'[n][i] = signers[n][i]
            \/ /\ signers'[n][i].NonceShare = 0
               /\ \A j \in Ids : signers'[n][i].ReceivedNonces[j] = 0
        BY <3>2, InitObjects
      <4>2. 0 <= session
        BY <1>1
      <4> QED
        BY <1>2, <1>4, <3>2, <4>1, <4>2
    <3> QED
      BY <3>1, <3>2
  <2>3. CASE \E n \in todo : GenerateNonceShare(n)
    <3>1. /\ Len(signers'[m]) = Len(signers[m])
          /\ \A k \in 1 .. Len(signers[m]) :
               /\ signers'[m][k].ReceivedNonces = signers[m][k].ReceivedNonces
               /\ signers'[m][k].NonceShare \in {signers[m][k].NonceShare, session}
      BY <2>3, GenerateObjects
    <3>2. session <= session
      BY <1>1
    <3> QED
      BY <1>2, <1>4, <3>1, <3>2
  <2>4. CASE ReceiveNonceShare
    <3> PICK n : n = handling.To
      OBVIOUS
    <3> PICK from : from = handling.From
      OBVIOUS
    <3>1. /\ Len(signers'[m]) = Len(signers[m])
          /\ \A k \in 1 .. Len(signers[m]) :
               signers'[m][k].NonceShare = signers[m][k].NonceShare
          /\ \A k \in 1 .. Len(signers[m]) : \A j \in Ids :
               signers'[m][k].ReceivedNonces[j] \in
                 {handling.Payload, signers[m][k].ReceivedNonces[j]}
      BY <2>4, ReceiveObjects
    <3>2. handling.Payload <= session
      <4>1. ReceivingNonce
        BY <2>4 DEF ReceiveNonceShare, AtReceive
      <4>2. handling.Payload \in 1 .. session
        BY <4>1, ReceivingIsUndelivered DEF SigningInv, NonceMessageInv
      <4> QED
        BY <1>1, <4>2
    <3> QED
      BY <1>2, <1>4, <3>1, <3>2
  <2> QED
    BY <2>1, <2>2, <2>3, <2>4, SignerSteps
<1> QED
  BY <1>3, <1>4, SessionSteps

LEMMA NextSession ==
  ASSUME SigningInv, SigningInv', SessionInv, Next
  PROVE  SessionInv'
<1>1. session \in Nat
  BY SessionTyped
<1>2. AllSign /\ nodes' = nodes => AllSign'
  <2>1. nodes \subseteq Ids
    BY DEF SigningInv, TypeOK
  <2> QED
    BY <2>1, SignersStay DEF AllSign
<1>3. session' # 0 /\ ~BadThreshold' => AllSign' \/ (session' = 1 /\ pc' = "nonce")
  <2> SUFFICES ASSUME session' # 0, ~BadThreshold'
               PROVE  AllSign' \/ (session' = 1 /\ pc' = "nonce")
    OBVIOUS
  <2>1. nodes' = nodes /\ ~BadThreshold
    BY SessionSteps DEF BadThreshold
  <2>2. CASE StartSigning
    BY <1>1, <1>2, <2>1, <2>2 DEF StartSigning, Idle, SessionInv
  <2>3. CASE session' = session
    <3>1. CASE AllSign
      BY <1>2, <2>1, <3>1
    <3>2. CASE session = 1 /\ pc = "nonce"
      <4>1. CASE WakeFromNonces
        BY <1>2, <2>1, <3>2, <4>1 DEF WakeFromNonces, SigningInv, GenerateInv, AllSign
      <4>2. CASE ~WakeFromNonces
        BY <2>1, <2>3, <3>2, <4>2, PcSteps
           DEF StartDKG, StartSigning, WakeFromDealing, Idle
      <4> QED
        BY <4>1, <4>2
    <3> QED
      BY <2>1, <2>3, <3>1, <3>2 DEF SessionInv
  <2> QED
    BY <2>2, <2>3, SessionSteps
<1>4. KeyFirst /\ session' # 0 => Keyed'
  <2> SUFFICES ASSUME KeyFirst, session' # 0 PROVE Keyed'
    OBVIOUS
  <2>1. Keyed
    BY SessionSteps DEF StartSigning, SessionInv
  <2> QED
    BY <2>1, KeyedStays
<1> QED
  BY <1>3, <1>4, SharesSoFar DEF SessionInv
-----------------------------------------------------------------------------
(* Under SendersWait, and in any session but the first, main and the handler*)
(* do not both find n.signer nil.                                           *)
LEMMA NothingReceived ==
  ASSUME SigningInv, QuietInv, SessionInv, NoRaceInv, NoRace,
         ReceivingNonce
  PROVE  ~NoSigner(handling.To) /\ receiving = "dispatch"
<1>1. handling \in Undelivered /\ handling.Type = "sign_nonce" /\ handling # Nil
  BY ReceivingIsUndelivered DEF ReceivingNonce
<1>2. handling.To \in nodes /\ ~BadThreshold
  BY <1>1 DEF SigningInv, NonceMessageInv
<1>3. CASE session > 1
  <2>1. session # 0 /\ session # 1
    BY <1>3, SessionTyped
  <2>2. AllSign
    BY <1>2, <2>1 DEF SessionInv
  <2> QED
    BY <1>2, <2>2 DEF NoRaceInv, AllSign
<1>4. CASE SendersWait
  <2>1. pc = "nonce"
    BY <1>1 DEF NoRace, QuietInv
  <2>2. todo = {}
    BY <1>1, <1>4, <2>1 DEF NoRace, NoRaceInv
  <2> QED
    BY <1>2, <2>1, <2>2 DEF SigningInv, GenerateInv, NoRaceInv
<1> QED
  BY <1>3, <1>4 DEF NoRace

LEMMA NextQueueEmpty ==
  ASSUME SigningInv, QuietInv, NoRaceInv, Next, SleepCovers, SendersWait,
         pc' \in {"deal", "nonce"}, todo' # {}
  PROVE  messageQueue' = <<>> /\ handling' = Nil
<1>1. CASE StartDKG \/ StartSigning
  <2>1. Undelivered = {}
    BY <1>1 DEF StartDKG, StartSigning, Idle, QuietInv
  <2>2. Quiescent
    BY <2>1, UndeliveredMessages DEF SigningInv
  <2> QED
    BY <1>1, <2>2 DEF StartDKG, StartSigning, Quiescent, netVars
<1>2. CASE ~(StartDKG \/ StartSigning)
  <2>1. pc' = pc
    BY <1>2, PcSteps DEF WakeFromDealing, WakeFromNonces
  <2>2. todo # {}
    BY <1>2, <2>1
       DEF Next, Main, DKGMain, SignMain, Join, GenerateNoCoefficients,
           CombinePublicKeys, CombineAtNilNode, WakeFromDealing, WakeFromNonces,
           Reconstruct, NonceHasNoInverse, ReconstructFails, NonceOutOfRange, StopNetwork,
           Exit, Die, Handler, DKGHandler, ReceiveDKGShare, DKGMapRace, SignHandler,
           HandlerFindsNoSigner, HandlerInitSigning, ReceiveNonceShare,
           ReceiveAtNilSigner, NonceMapRace, Senders, mainVars, dkgVars
  <2>3. messageQueue = <<>> /\ handling = Nil
    BY <2>1, <2>2 DEF NoRaceInv
  <2>4. CASE Main
    <3>1. CASE DKGMain
      BY <1>2, <2>1, <2>3, <3>1
         DEF DKGMain, Join, AddNode, GenerateSecretShare, BroadcastCommitments,
             BroadcastShares, SendMessages, ComputeSharedPrivateKey,
             GenerateNoCoefficients, WakeFromDealing, CombinePublicKeys,
             CombineAtNilNode, netVars
    <3>2. CASE SignMain
      BY <1>2, <2>1, <2>3, <3>2
         DEF SignMain, FindNoSigner, MainInitSigning, GenerateNonceShare, SendMessages,
             GenerateFails, GenerateAtNilSigner, ComputeSharedNonce, WakeFromNonces,
             Reconstruct, NonceHasNoInverse, ReconstructFails, NonceOutOfRange,
             StopNetwork, Stop, Exit, Die, netVars
    <3> QED
      BY <2>4, <3>1, <3>2 DEF Main
  <2>5. CASE Handler
    BY <2>3, <2>5
       DEF Handler, DKGHandler, TakeMessage, ReceiveDKGShare, DKGMapRace, SignHandler,
           HandlerFindsNoSigner, HandlerInitSigning, ReceiveNonceShare,
           ReceiveAtNilSigner, NonceMapRace, AtReceive, ReceivingNonce
  <2>6. ~Senders
    BY <2>2 DEF Senders
  <2> QED
    BY <2>4, <2>5, <2>6 DEF Next
<1> QED
  BY <1>1, <1>2

LEMMA NextNoRace ==
  ASSUME SigningInv, QuietInv, SigningInv', SessionInv, NoRaceInv, Next
  PROVE  NoRaceInv'
<1>1. ASSUME NoRace'
      PROVE  receiving' = "dispatch" /\ \A n \in Ids : MainInits(n)' => NoSigner(n)'
  <2>1. CASE StartSigning
    <3>1. stage = "idle"
      BY <2>1, NoBody DEF StartSigning, Idle, SigningInv
    <3>2. ~ReceivingNonce
      BY <1>1, <2>1, ReceivingIsUndelivered DEF StartSigning, Idle, QuietInv, NoRace
    <3> QED
      BY <2>1, <3>1, <3>2
         DEF StartSigning, MainInits, SigningInv, SignerInv, collectVars
  <2>2. CASE session' = session
    <3>1. NoRace
      BY <1>1, <2>2 DEF NoRace
    <3>2. receiving = "dispatch" /\ \A n \in Ids : MainInits(n) => NoSigner(n)
      BY <3>1 DEF NoRaceInv
    <3>3. ~HandlerFindsNoSigner /\ ~HandlerInitSigning
      BY <3>1, <3>2, NothingReceived DEF HandlerFindsNoSigner, HandlerInitSigning
    <3>4. receiving' = "dispatch"
      BY <3>2, <3>3
         DEF Next, Main, SignMain, StartSigning, FindNoSigner, MainInitSigning,
             GenerateNonceShare, GenerateFails, GenerateAtNilSigner, ComputeSharedNonce,
             WakeFromNonces, Reconstruct, NonceHasNoInverse, ReconstructFails,
             NonceOutOfRange, StopNetwork, Exit, Die, Handler, SignHandler,
             ReceiveNonceShare, ReceiveAtNilSigner, NonceMapRace, Senders, signVars
    <3>5. ASSUME NEW n \in Ids, MainInits(n)' PROVE NoSigner(n)'
      <4>1. CASE FindNoSigner(n)
        BY <4>1 DEF FindNoSigner, signVars, NoSigner
      <4>2. CASE ~FindNoSigner(n)
        <5>1. n # Nil
          BY Bounds
        <5>2. MainInits(n)
          BY <3>5, <4>2, <5>1
             DEF Next, Main, DKGMain, Join, StartDKG, GenerateSecretShare,
                 BroadcastCommitments, BroadcastShares, ComputeSharedPrivateKey,
                 DeriveStep, CountReceived, CountOwn, TooFew, AddShares, LeaveBody,
                 GenerateNoCoefficients, WakeFromDealing, CombinePublicKeys,
                 CombineAtNilNode, SignMain, StartSigning, FindNoSigner,
                 MainInitSigning, GenerateNonceShare, GenerateFails,
                 GenerateAtNilSigner, ComputeSharedNonce, CollectStep,
                 WakeFromNonces, Reconstruct, NonceHasNoInverse, ReconstructFails,
                 NonceOutOfRange, StopNetwork, Exit, Die, Handler, DKGHandler,
                 ReceiveDKGShare, DKGMapRace, SignHandler, HandlerFindsNoSigner,
                 HandlerInitSigning, ReceiveNonceShare, ReceiveAtNilSigner,
                 NonceMapRace, Senders, collectVars, dkgVars, MainInits
        <5>3. ~\E m \in todo : MainInitSigning(m) \/ GenerateNonceShare(m)
          BY <3>5 DEF MainInits, MainInitSigning, GenerateNonceShare, LeaveBody
        <5>4. CASE signers' = signers
          BY <3>2, <5>2, <5>4 DEF NoSigner
        <5>5. CASE ReceiveNonceShare
          <6> PICK m : m = handling.To
            OBVIOUS
          <6> PICK from : from = handling.From
            OBVIOUS
          <6> QED
            BY <3>2, <5>2, <5>5, ReceiveObjects
        <5> QED
          BY <3>3, <5>3, <5>4, <5>5, SignerSteps
      <4> QED
        BY <4>1, <4>2
    <3> QED
      BY <3>4, <3>5
  <2> QED
    BY <2>1, <2>2, SessionSteps
<1> QED
  BY <1>1, NextQueueEmpty DEF NoRaceInv
-----------------------------------------------------------------------------
(* A message stays on its way until it is received.                         *)
LEMMA MessagesStay ==
  ASSUME SigningInv, ~closed, Next
  PROVE  \/ Undelivered \subseteq Undelivered'
         \/ (ReceiveDKGShare \/ ReceiveNonceShare)
              /\ Undelivered \ {handling} \subseteq Undelivered'
<1>1. /\ inflight \subseteq SignMessages /\ messageQueue \in Seq(SignMessages)
      /\ Nil \notin SignMessages
  BY SignMessageTypes DEF SigningInv, TypeOK
<1>2. CASE UNCHANGED <<inflight, messageQueue, handling>>
  BY <1>2, NetworkStays
<1>3. CASE DKGMain \/ SignMain
  <2>1. CASE \E n \in todo : BroadcastShares(n)
    BY <2>1, SendingUndelivered DEF BroadcastShares
  <2>2. CASE \E n \in todo : GenerateNonceShare(n)
    BY <2>2, SendingUndelivered DEF GenerateNonceShare
  <2> QED
    BY <1>2, <1>3, <2>1, <2>2
       DEF DKGMain, Join, AddNode, StartDKG, GenerateSecretShare,
           BroadcastCommitments, ComputeSharedPrivateKey, GenerateNoCoefficients,
           WakeFromDealing, CombinePublicKeys, CombineAtNilNode,
           SignMain, StartSigning, FindNoSigner, MainInitSigning, GenerateFails,
           GenerateAtNilSigner, ComputeSharedNonce, WakeFromNonces, Reconstruct,
           NonceHasNoInverse, ReconstructFails, NonceOutOfRange, StopNetwork, Stop, Exit,
           Die, netVars
<1>4. CASE TakeMessage
  BY <1>1, <1>4, TakeUndelivered
<1>5. CASE Sender
  BY <1>1, <1>5, SenderUndelivered
<1>6. CASE ReceiveDKGShare \/ ReceiveNonceShare
  BY <1>6, DeliveredUndelivered
     DEF ReceiveDKGShare, ReceiveNonceShare, AtReceive, ReceivingNonce
<1> QED
  BY <1>2, <1>3, <1>4, <1>5, <1>6
     DEF Next, Main, Handler, DKGHandler, DKGMapRace, SignHandler, HandlerFindsNoSigner,
         HandlerInitSigning, ReceiveAtNilSigner, NonceMapRace, Die, Senders, dkgVars, netVars

LEMMA NextPayloads ==
  ASSUME SigningInv, QuietInv, DeliveredInv, Next, SleepCovers, pc' = "nonce",
         NEW m \in Undelivered'
  PROVE  m.Payload = session'
<1>1. CASE StartSigning
  <2>1. Undelivered = {} /\ Undelivered' = Undelivered
    BY <1>1, NetworkStays DEF StartSigning, Idle, QuietInv, netVars
  <2> QED
    BY <2>1
<1>2. CASE session' = session
  <2>1. pc = "nonce"
    BY <1>2, PcSteps, SessionTyped
       DEF StartDKG, StartSigning, WakeFromDealing, WakeFromNonces
  <2>2. ASSUME NEW n \in todo, GenerateNonceShare(n) ,
               Undelivered' = Undelivered \cup SharesOf("sign_nonce", n, session)
        PROVE  m.Payload = session
    BY <2>1, <2>2 DEF SharesOf, DeliveredInv
  <2>3. ~\E n \in todo : BroadcastShares(n)
    BY <2>1 DEF BroadcastShares
  <2> QED
    BY <1>2, <2>1, <2>2, <2>3, MessageSteps DEF DeliveredInv
<1> QED
  BY <1>1, <1>2, SessionSteps

(* n.signer keeps what it holds in the steps that receive nothing.          *)
LEMMA HeldStays ==
  ASSUME SigningInv, SigningInv', NoRaceInv, NoRace,
         Next, session' = session, ~ReceiveNonceShare, receiving = "dispatch",
         NEW n \in Ids, ~NoSigner(n)
  PROVE  ~NoSigner(n)' /\ LastSigner(n)'.ReceivedNonces = LastSigner(n).ReceivedNonces
<1>1. ~HandlerInitSigning
  BY DEF HandlerInitSigning
<1>2. CASE signers' = signers
  BY <1>2 DEF NoSigner, LastSigner
<1>3. ASSUME NEW m \in todo, MainInitSigning(m)
      PROVE  ~NoSigner(n)' /\ LastSigner(n)'.ReceivedNonces = LastSigner(n).ReceivedNonces
  <2>1. m \in Ids /\ MainInits(m) /\ InitSigning(m) /\ Len(signers[m]) <= 1
    BY <1>3 DEF MainInitSigning, MainInits, SigningInv, TypeOK, DKGPartyTypeOK, SignerInv
  <2>2. NoSigner(m)
    BY <2>1 DEF NoRaceInv
  <2>3. signers'[n] = signers[n]
    BY <2>1, <2>2, InitObjects
  <2> QED
    BY <2>3 DEF NoSigner, LastSigner
<1>4. ASSUME NEW m \in todo, GenerateNonceShare(m)
      PROVE  ~NoSigner(n)' /\ LastSigner(n)'.ReceivedNonces = LastSigner(n).ReceivedNonces
  <2>1. Len(signers[n]) \in 1 .. Len(signers[n])
    <3>1. Len(signers[n]) \in 0 .. 2 /\ Len(signers[n]) # 0
      BY SignerTyped DEF SigningInv, SignersTyped
    <3> QED
      BY <3>1
  <2> PICK last : last = Len(signers[n])
    OBVIOUS
  <2>2. /\ Len(signers'[n]) = last /\ ~NoSigner(n)'
        /\ signers'[n][last].ReceivedNonces = signers[n][last].ReceivedNonces
    BY <1>4, <2>1, GenerateObjects
  <2> QED
    BY <2>2 DEF LastSigner
<1> QED
  BY <1>1, <1>2, <1>3, <1>4, SignerSteps

LEMMA ReceivedStays ==
  ASSUME SigningInv, SigningInv', DeliveredInv, SleepCovers, pc = "nonce", pc' = pc,
         ReceiveNonceShare, NEW j \in nodes, NEW n \in nodes, n \in Ids, j \in Ids,
         Reaches(j, n)
  PROVE  Reaches(j, n)'
<1> PICK to : to = handling.To
  OBVIOUS
<1> PICK from : from = handling.From
  OBVIOUS
<1>1. /\ \A m \in Ids : Len(signers'[m]) = Len(signers[m])
      /\ \A m \in Ids : NoSigner(m)' <=> NoSigner(m)
      /\ ~NoSigner(to)
      /\ \A m \in Ids : \A i \in 1 .. Len(signers[m]) : \A k \in Ids :
           signers'[m][i].ReceivedNonces[k] =
             IF m = to /\ i = Len(signers[m]) /\ k = from
               THEN handling.Payload ELSE signers[m][i].ReceivedNonces[k]
  BY ReceiveObjects
<1>2. session' = session /\ Delivered /\ ReceivingNonce /\ handling # Nil
  BY DEF ReceiveNonceShare, AtReceive, ReceivingNonce
<1>3. handling \in Undelivered /\ Undelivered \ {handling} \subseteq Undelivered'
  BY <1>2, DeliveredUndelivered
<1>4. handling.Payload = session
  BY <1>3 DEF DeliveredInv
<1>5. NoSigner(n) \/ Len(signers[n]) \in 1 .. Len(signers[n])
  <2>1. Len(signers[n]) \in 0 .. 2 /\ (NoSigner(n) <=> Len(signers[n]) = 0)
    BY SignerTyped DEF SigningInv, SignersTyped
  <2> QED
    BY <2>1
<1>6. CASE ~NoSigner(n) /\ (LastSigner(n).ReceivedNonces[j] = session \/ (n = to /\ j = from))
  BY <1>1, <1>2, <1>4, <1>5, <1>6 DEF Reaches, LastSigner
<1>7. CASE NonceMessage(j, n) \in Undelivered /\ NonceMessage(j, n) # handling
  BY <1>2, <1>3, <1>7 DEF Reaches, NonceMessage
<1>8. CASE NonceMessage(j, n) = handling
  <2>1. n = to /\ j = from
    BY <1>8 DEF NonceMessage
  <2> QED
    BY <1>1, <1>6, <2>1
<1> QED
  BY <1>6, <1>7, <1>8 DEF Reaches

LEMMA ReachesStays ==
  ASSUME LatestKeyInv, SigningInv', SessionInv, NoRaceInv, DeliveredInv,
         NoRace, Next, pc = "nonce", pc' = pc,
         NEW j \in nodes, NEW n \in nodes, Reaches(j, n)
  PROVE  Reaches(j, n)'
<1>1. SigningInv /\ QuietInv /\ ~closed /\ SleepCovers
  BY DEF LatestKeyInv, VerifyInv, ClosedInv, NoRace
<1>2. n \in Ids /\ j \in Ids
  BY <1>1 DEF SigningInv, TypeOK
<1>3. session' = session
  BY <1>1, SessionSteps DEF StartSigning, Idle
<1>4. CASE ReceiveNonceShare
  BY <1>1, <1>2, <1>4, ReceivedStays
<1>5. CASE ~ReceiveNonceShare
  <2>1. receiving = "dispatch"
    BY DEF NoRaceInv
  <2>2. ~ReceiveDKGShare
    BY <1>1 DEF ReceiveDKGShare, QuietInv, Undelivered
  <2>3. Undelivered \subseteq Undelivered'
    BY <1>1, <1>5, <2>2, MessagesStay
  <2>4. CASE NonceMessage(j, n) \in Undelivered
    BY <1>3, <2>3, <2>4 DEF Reaches, NonceMessage
  <2>5. CASE ~NoSigner(n) /\ LastSigner(n).ReceivedNonces[j] = session
    BY <1>1, <1>2, <1>3, <1>5, <2>1, <2>5, HeldStays DEF Reaches
  <2> QED
    BY <2>4, <2>5 DEF Reaches
<1> QED
  BY <1>4, <1>5

LEMMA NextDelivered ==
  ASSUME LatestKeyInv, SigningInv', SessionInv, NoRaceInv, DeliveredInv, Next
  PROVE  DeliveredInv'
<1>1. SigningInv /\ QuietInv
  BY DEF LatestKeyInv, VerifyInv
<1>2. ASSUME NoRace', pc' = "nonce", NEW j \in nodes' \ todo', NEW n \in nodes' \cap Parties
      PROVE  Reaches(j, n)'
  <2>1. CASE StartSigning
    BY <1>2, <2>1 DEF StartSigning, netVars
  <2>2. CASE ~StartSigning
    <3>1. pc = "nonce" /\ session' = session /\ NoRace
      BY <1>1, <1>2, <2>2, PcSteps, SessionSteps
         DEF StartDKG, WakeFromDealing, WakeFromNonces, NoRace
    <3>2. nodes' = nodes
      BY <1>1, <3>1, SessionSteps DEF SigningInv, FreshInv
    <3>3. CASE \E m \in todo : GenerateNonceShare(m)
      <4> PICK m \in todo : GenerateNonceShare(m)
        BY <3>3
      <4>1. todo' = todo \ {m} /\ Undelivered' = Undelivered \cup SharesOf("sign_nonce", m, session)
        BY SendingUndelivered DEF GenerateNonceShare
      <4>2. CASE j = m
        BY <1>2, <3>1, <3>2, <4>1, <4>2 DEF Reaches, NonceMessage, SharesOf
      <4>3. CASE j # m
        <5>1. Reaches(j, n)
          BY <1>2, <3>1, <3>2, <4>1, <4>3 DEF DeliveredInv
        <5> QED
          BY <1>1, <1>2, <3>1, <3>2, <5>1, ReachesStays
      <4> QED
        BY <4>2, <4>3
    <3>4. CASE ~\E m \in todo : GenerateNonceShare(m)
      <4>1. todo' = todo
        BY <1>1, <2>2, <3>1, <3>4, <1>2
           DEF Next, Main, DKGMain, SignMain, Join, StartDKG, GenerateSecretShare,
               BroadcastCommitments, BroadcastShares, ComputeSharedPrivateKey,
               GenerateNoCoefficients, WakeFromDealing, CombinePublicKeys,
               CombineAtNilNode, FindNoSigner, MainInitSigning, GenerateFails,
               GenerateAtNilSigner, ComputeSharedNonce, WakeFromNonces, Reconstruct,
               NonceHasNoInverse, ReconstructFails, NonceOutOfRange, StopNetwork,
               Exit, Die, Handler, DKGHandler, ReceiveDKGShare, DKGMapRace,
               SignHandler, HandlerFindsNoSigner, HandlerInitSigning,
               ReceiveNonceShare, ReceiveAtNilSigner, NonceMapRace, Senders,
               mainVars, dkgVars, Idle
      <4>2. Reaches(j, n)
        BY <1>2, <3>1, <3>2, <4>1 DEF DeliveredInv
      <4> QED
        BY <1>1, <1>2, <3>1, <3>2, <4>2, ReachesStays
    <3> QED
      BY <3>3, <3>4
  <2> QED
    BY <2>1, <2>2
<1>3. ASSUME NoRace', pc' = "collect", NEW n \in nodes' \cap Parties, NEW j \in nodes'
      PROVE  LastSigner(n)'.ReceivedNonces[j] = session'
  <2>1. session' = session /\ pc \in {"nonce", "collect"}
    BY <1>1, <1>3, PcSteps, SessionSteps
       DEF StartSigning, StartDKG, WakeFromDealing, WakeFromNonces
  <2>2. session # 0 /\ nodes' = nodes /\ NoRace
    BY <1>1, <1>3, <2>1, SessionSteps DEF SigningInv, FreshInv, NoRace
  <2>3. CASE WakeFromNonces
    <3>1. Undelivered = {}
      BY <1>1, <2>2, <2>3, UndeliveredMessages DEF WakeFromNonces, NoRace, SigningInv
    <3>2. LastSigner(n).ReceivedNonces[j] = session
      BY <1>3, <2>2, <2>3, <3>1 DEF WakeFromNonces, DeliveredInv, Reaches
    <3> QED
      BY <2>3, <3>2 DEF WakeFromNonces, signVars, LastSigner
  <2>4. CASE ~WakeFromNonces
    <3>1. pc = "collect"
      BY <1>3, <2>4, PcSteps DEF StartSigning, StartDKG, WakeFromDealing
    <3>2. ~ReceivingNonce
      BY <1>1, <2>2, <3>1, ReceivingIsUndelivered DEF NoRace, QuietInv
    <3>3. signers' = signers
      BY <1>1, <3>1, <3>2, SignerSteps
         DEF HandlerInitSigning, ReceiveNonceShare, AtReceive, GenerateNonceShare,
             AtGenerate, MainInitSigning, SigningInv, KeyInv, BodyInv
    <3> QED
      BY <1>3, <2>1, <2>2, <3>1, <3>3 DEF DeliveredInv, LastSigner
  <2> QED
    BY <2>3, <2>4
<1> QED
  BY <1>1, <1>2, <1>3, NextPayloads DEF DeliveredInv
-----------------------------------------------------------------------------
(* A node that has collected enough shares and reads a map nobody writes to *)
(* adds up the shares of the session: all there are in the first one, and   *)
(* later those that were received for it.                                   *)
LEMMA SharesOfSession ==
  ASSUME SigningInv, SessionInv, DeliveredInv, CollectExactInv, SleepCovers, Alive,
         pc = "collect", NEW n \in todo, current = n, stage = "sum",
         NEW s \in SharesAdded(n, signers[n][held].NonceShare,
                               signers[n][held].ReceivedNonces),
         NEW j \in nodes
  PROVE  s[j] = session
<1> PICK i : i = held
  OBVIOUS
<1> PICK own : own = signers[n][i].NonceShare
  OBVIOUS
<1> PICK received : received = signers[n][i].ReceivedNonces
  OBVIOUS
<1>1. i \in 1 .. Len(signers[n]) /\ Complete(n, own, snapshot)
  BY DEF SigningInv, CollectInv
<1>2. i = Len(signers[n]) /\ snapshot = received
  BY DEF CollectExactInv, LastSigner
<1>3. /\ n \in nodes /\ n \in Ids /\ nodes \subseteq Ids /\ nodes = Parties
      /\ own \in 0 .. MaxSessions /\ received \in Sum /\ Held(received) \subseteq nodes
  BY <1>1, AtHeldSigner
<1>4. s = IF OwnApart(n, own, received) THEN [received EXCEPT ![n] = own] ELSE received
  BY <1>2, <1>3, OneSum
<1>5. session \in Nat /\ session # 0
  BY SessionTyped DEF SigningInv, FreshInv
<1>6. CASE session > 1
  <2>1. \A k \in nodes : received[k] = session
    BY <1>2, <1>3, <1>6 DEF DeliveredInv, NoRace, LastSigner
  <2> QED
    BY <1>3, <1>4, <1>5, <2>1 DEF OwnApart
<1>7. CASE session = 1
  <2>1. Complete(n, own, received)
    BY <1>1, <1>2
  <2>2. /\ nodes \ {n} \subseteq Held(received)
        /\ own = 0 => Held(received) = nodes
    BY <1>3, <2>1, CompleteHasAll
  <2>3. own <= 1 /\ \A k \in Ids : received[k] <= 1
    BY <1>1, <1>3, <1>7 DEF SessionInv
  <2>4. own \in Nat /\ \A k \in Ids : received[k] \in Nat
    BY <1>3, SessionBounds DEF Sum
  <2>5. \A k \in nodes : s[k] # 0 /\ s[k] \in {own, received[k]}
    BY <1>3, <1>4, <2>2 DEF OwnApart, Held, Sum
  <2>6. \A x \in Nat : x <= 1 /\ x # 0 => x = 1
    OBVIOUS
  <2> QED
    BY <1>3, <1>7, <2>3, <2>4, <2>5, <2>6
<1> QED
  BY <1>5, <1>6, <1>7

LEMMA CollectExact ==
  ASSUME SigningInv, SigningInv', SessionInv, DeliveredInv, CollectExactInv, SleepCovers, Alive,
         NEW n \in todo, ComputeSharedNonce(n), pc' = "collect"
  PROVE  CollectExactInv'
<1>1. pc = "collect" /\ CollectStep(n) /\ UNCHANGED <<signers, session, nodes>>
  BY DEF ComputeSharedNonce, netVars
<1>2. CASE /\ CountReceived(n, signers[n][Len(signers[n])].ReceivedNonces)
           /\ held' = Len(signers[n])
           /\ UNCHANGED <<mainVars, nonceShares>>
  BY <1>1, <1>2 DEF CollectExactInv, CountReceived, LastSigner, Held
<1>3. CASE /\ CountOwn(n, signers[n][held].NonceShare, signers[n][held].ReceivedNonces)
           /\ UNCHANGED <<mainVars, held, nonceShares>>
  BY <1>1, <1>3 DEF CollectExactInv, CountOwn, LastSigner, Held
<1>4. CASE /\ AddShares(n)
           /\ \E s \in SharesAdded(n, signers[n][held].NonceShare,
                                   signers[n][held].ReceivedNonces) :
                nonceShares' = Append(nonceShares, [node |-> n, sum |-> s])
  <2> PICK s \in SharesAdded(n, signers[n][held].NonceShare,
                             signers[n][held].ReceivedNonces) :
             nonceShares' = Append(nonceShares, [node |-> n, sum |-> s])
    BY <1>4
  <2>1. current = n /\ stage = "sum" /\ stage' = "idle"
    BY <1>4 DEF AddShares, LeaveBody
  <2>2. \A j \in nodes : s[j] = session
    BY <1>1, <2>1, SharesOfSession
  <2> PICK entry : entry = [node |-> n, sum |-> s]
    OBVIOUS
  <2>3. nonceShares \in Seq(NonceShare) /\ nonceShares' \in Seq(NonceShare)
    BY DEF SigningInv, TypeOK
  <2>4. nonceShares' = Append(nonceShares, entry)
    OBVIOUS
  <2>5. /\ Len(nonceShares') = Len(nonceShares) + 1
        /\ \A i \in 1 .. Len(nonceShares) : nonceShares'[i] = nonceShares[i]
        /\ nonceShares'[Len(nonceShares) + 1] = entry
        /\ Len(nonceShares) \in Nat
    BY <2>3, <2>4
  <2>6. \A i \in 1 .. Len(nonceShares) + 1 :
          i \in 1 .. Len(nonceShares) \/ i = Len(nonceShares) + 1
    BY <2>5
  <2>7. \A i \in 1 .. Len(nonceShares') : \A j \in nodes : nonceShares'[i].sum[j] = session
    BY <1>1, <2>2, <2>5, <2>6 DEF CollectExactInv
  <2> QED
    BY <1>1, <2>1, <2>7 DEF CollectExactInv
<1> QED
  BY <1>1, <1>2, <1>3, <1>4 DEF CollectStep

LEMMA NextCollectExact ==
  ASSUME SigningInv, QuietInv, SigningInv', SessionInv, DeliveredInv, CollectExactInv,
         SleepCovers, Next
  PROVE  CollectExactInv'
<1>1. Alive
  BY DEF Next, Running
<1>2. CASE pc' = "nonce"
  <2>1. CASE StartSigning
    BY <2>1 DEF StartSigning, CollectExactInv
  <2>2. CASE ~StartSigning
    <3>1. pc = "nonce"
      BY <1>2, <2>2, PcSteps DEF StartDKG, WakeFromDealing, WakeFromNonces
    <3>2. nonceShares' = nonceShares
      BY <2>2, <3>1
         DEF Next, Main, SignMain, FindNoSigner, MainInitSigning, GenerateNonceShare,
             GenerateFails, GenerateAtNilSigner, ComputeSharedNonce, WakeFromNonces,
             Reconstruct, NonceHasNoInverse, ReconstructFails, NonceOutOfRange,
             StopNetwork, Exit, Die, Handler, SignHandler, HandlerFindsNoSigner,
             HandlerInitSigning, ReceiveNonceShare, ReceiveAtNilSigner, NonceMapRace,
             Senders, signVars
    <3> QED
      BY <1>2, <3>1, <3>2 DEF CollectExactInv
  <2> QED
    BY <2>1, <2>2
<1>3. CASE pc' = "collect"
  <2>1. CASE WakeFromNonces
    <3>1. stage = "idle" /\ nonceShares = <<>>
      BY <2>1 DEF WakeFromNonces, SigningInv, KeyInv, BodyInv, CollectExactInv
    <3> QED
      BY <1>3, <2>1, <3>1, EmptySeq
         DEF WakeFromNonces, CollectExactInv, collectVars, signVars
  <2>2. CASE \E n \in todo : ComputeSharedNonce(n)
    BY <1>1, <1>3, <2>2, CollectExact
  <2>3. CASE ~WakeFromNonces /\ ~\E n \in todo : ComputeSharedNonce(n)
    <3>1. pc = "collect"
      BY <1>3, <2>3, PcSteps DEF StartSigning, StartDKG, WakeFromDealing
    <3>2. ~ReceivingNonce /\ handling = Nil
      BY <3>1, ReceivingIsUndelivered DEF QuietInv, Undelivered
    <3>3. ~(stage \in {"init", "generate"})
      BY <3>1 DEF SigningInv, KeyInv, BodyInv
    <3>4. UNCHANGED <<nodes, session, signers, held, nonceShares, collectVars>>
      BY <1>3, <2>3, <3>1, <3>2, <3>3
         DEF Next, Main, DKGMain, Join, StartDKG, GenerateSecretShare,
             BroadcastCommitments, BroadcastShares, ComputeSharedPrivateKey,
             GenerateNoCoefficients, WakeFromDealing, CombinePublicKeys,
             CombineAtNilNode, SignMain, StartSigning, FindNoSigner,
             MainInitSigning, GenerateNonceShare, GenerateFails,
             GenerateAtNilSigner, AtGenerate, Reconstruct, NonceHasNoInverse,
             ReconstructFails, NonceOutOfRange, StopNetwork, Exit, Die, Handler,
             DKGHandler, TakeMessage, ReceiveDKGShare, DKGMapRace, SignHandler,
             HandlerFindsNoSigner, HandlerInitSigning, ReceiveNonceShare, AtReceive,
             ReceiveAtNilSigner, NonceMapRace, Senders, Sender, Enqueue,
             SendOnClosed, signVars, dkgVars, Idle
    <3> QED
      BY <1>3, <3>1, <3>4 DEF CollectExactInv, LastSigner, Held, collectVars
  <2> QED
    BY <2>1, <2>2, <2>3
<1>4. CASE pc' \notin {"nonce", "collect"}
  BY <1>4 DEF CollectExactInv
<1> QED
  BY <1>2, <1>3, <1>4
-----------------------------------------------------------------------------
(* What becomes of a session.                                               *)
LEMMA SignatureSteps ==
  ASSUME Next
  PROVE  StartSigning \/ Reconstruct \/ signature' = signature
BY DEF Next, Main, SignMain, FindNoSigner, MainInitSigning, GenerateNonceShare,
       GenerateFails, GenerateAtNilSigner, ComputeSharedNonce, WakeFromNonces,
       NonceHasNoInverse, ReconstructFails, NonceOutOfRange, StopNetwork, Exit, Die,
       Handler, SignHandler, HandlerFindsNoSigner, HandlerInitSigning,
       ReceiveNonceShare, ReceiveAtNilSigner, NonceMapRace, Senders, signVars

LEMMA NextUnanswered ==
  ASSUME UnansweredInv, Next
  PROVE  UnansweredInv'
<1> SUFFICES ASSUME pc' \in {"nonce", "collect"} PROVE signature' = Nil
  BY DEF UnansweredInv
<1>1. CASE StartSigning
  BY <1>1 DEF StartSigning
<1>2. CASE ~StartSigning
  <2>1. pc \in {"nonce", "collect"}
    BY <1>2, PcSteps DEF StartDKG, WakeFromDealing, WakeFromNonces
  <2>2. ~Reconstruct
    BY DEF Reconstruct
  <2> QED
    BY <1>2, <2>1, <2>2, SignatureSteps DEF UnansweredInv
<1> QED
  BY <1>1, <1>2

LEMMA NextNonceOfOneSession ==
  ASSUME SigningInv, SessionInv, CollectExactInv, NonceOfOneSession, SleepCovers, Next
  PROVE  NonceOfOneSession'
<1> SUFFICES ASSUME pc' = "signed" PROVE NonceOfOneSession'
  BY DEF NonceOfOneSession
<1>1. session' = session
  BY SessionSteps DEF StartSigning
<1>2. CASE Reconstruct
  <2>1. threshold \in 2 .. Len(nonceShares) /\ nonceShares \in Seq(NonceShare)
    BY <1>2 DEF Reconstruct, SigningInv, TypeOK
  <2>2. Len(nonceShares) \in Nat
    BY <2>1, LenProperties
  <2>3. \A i \in 1 .. threshold : i \in 1 .. Len(nonceShares)
    BY <2>1, <2>2
  <2> PICK k : k = SubSeq(nonceShares, 1, threshold)
    OBVIOUS
  <2>4. DOMAIN k = 1 .. threshold /\ \A x \in 1 .. threshold : k[x] = nonceShares[x]
    <3>1. threshold \in Nat
      BY <2>1, <2>2
    <3> QED
      BY <3>1
  <2>5. \A x \in DOMAIN k : \A j \in nodes : k[x].sum[j] = session
    BY <1>2, <2>3, <2>4 DEF Reconstruct, CollectExactInv
  <2>6. signature'.k = k /\ nodes' = nodes
    BY <1>2 DEF Reconstruct, netVars
  <2> QED
    BY <1>1, <2>5, <2>6 DEF NonceOfOneSession
<1>3. CASE ~Reconstruct
  <2>1. pc = "signed"
    BY <1>3
       DEF Next, Main, DKGMain, SignMain, Join, StartDKG, GenerateSecretShare,
           BroadcastCommitments, BroadcastShares, ComputeSharedPrivateKey,
           DeriveStep, GenerateNoCoefficients, WakeFromDealing, CombinePublicKeys,
           CombineAtNilNode, StartSigning, FindNoSigner, MainInitSigning,
           GenerateNonceShare, GenerateFails, GenerateAtNilSigner,
           ComputeSharedNonce, CollectStep, WakeFromNonces, NonceHasNoInverse,
           ReconstructFails, NonceOutOfRange, StopNetwork, Exit, Die, Handler,
           DKGHandler, ReceiveDKGShare, DKGMapRace, SignHandler,
           HandlerFindsNoSigner, HandlerInitSigning, ReceiveNonceShare,
           ReceiveAtNilSigner, NonceMapRace, Senders, mainVars, dkgVars, Idle
  <2>2. signature' = signature
    BY <1>3, SignatureSteps DEF StartSigning
  <2>3. nodes' = nodes
    BY <1>1, <2>1, SessionSteps DEF SigningInv, FreshInv
  <2> QED
    BY <1>1, <2>1, <2>2, <2>3 DEF NonceOfOneSession
<1> QED
  BY <1>2, <1>3

(* Without the race on n.signer every node has received a share of every    *)
(* other for the session.                                                   *)
LEMMA SessionHasAll ==
  ASSUME SigningInv, DeliveredInv, CollectExactInv, NoRace, pc = "collect",
         NEW n \in todo
  PROVE  ~TooFew(n, signers[n][held].NonceShare, signers[n][held].ReceivedNonces)
<1> SUFFICES ASSUME TooFew(n, signers[n][held].NonceShare, signers[n][held].ReceivedNonces)
             PROVE  FALSE
  OBVIOUS
<1> PICK i : i = held
  OBVIOUS
<1> PICK own : own = signers[n][i].NonceShare
  OBVIOUS
<1> PICK received : received = signers[n][i].ReceivedNonces
  OBVIOUS
<1>1. current = n /\ stage = "count" /\ ~Enough(n, own, received)
  BY DEF TooFew
<1>2. i \in 1 .. Len(signers[n]) /\ i = Len(signers[n])
      /\ total = Cardinality(Held(received))
  BY <1>1 DEF SigningInv, CollectInv, CollectExactInv, LastSigner, NoRace
<1>3. n \in nodes /\ nodes \subseteq Ids /\ nodes = Parties
  BY <1>2, AtHeldSigner
<1>4. \A j \in nodes : received[j] = session
  BY <1>2, <1>3 DEF DeliveredInv, NoRace, LastSigner
<1>5. session # 0
  BY SessionTyped DEF SigningInv, FreshInv
<1>6. Parties \subseteq Held(received)
  BY <1>3, <1>4, <1>5 DEF Held
<1> QED
  BY <1>1, <1>2, <1>6, AllAreEnough

(* The errors "missing shares" come from the two collections.               *)
LEMMA FailureSteps ==
  ASSUME Next, failure' = "missing shares"
  PROVE  \/ failure = "missing shares" /\ ~StartSigning
         \/ \E n \in todo : /\ pc = "derive"
                            /\ TooFew(n, SecretShare[n], ReceivedShares[n])
         \/ \E n \in todo : /\ pc = "collect"
                            /\ TooFew(n, signers[n][held].NonceShare,
                                      signers[n][held].ReceivedNonces)
<1>1. CASE DKGMain /\ UNCHANGED signVars
  BY <1>1
     DEF DKGMain, Join, StartDKG, GenerateSecretShare, BroadcastCommitments,
         BroadcastShares, ComputeSharedPrivateKey, DeriveStep,
         GenerateNoCoefficients, WakeFromDealing, CombinePublicKeys,
         CombineAtNilNode, StartSigning, mainVars
<1>2. CASE SignMain
  BY <1>2
     DEF SignMain, StartSigning, FindNoSigner, MainInitSigning, GenerateNonceShare,
         GenerateFails, GenerateAtNilSigner, ComputeSharedNonce, CollectStep,
         WakeFromNonces, Reconstruct, NonceHasNoInverse, ReconstructFails,
         NonceOutOfRange, StopNetwork, Exit, Die, mainVars
<1>3. CASE Handler \/ Senders
  BY <1>3
     DEF Handler, DKGHandler, ReceiveDKGShare, DKGMapRace, SignHandler,
         HandlerFindsNoSigner, HandlerInitSigning, ReceiveNonceShare,
         ReceiveAtNilSigner, NonceMapRace, Die, Senders, StartSigning, mainVars, dkgVars
<1> QED
  BY <1>1, <1>2, <1>3 DEF Next, Main

LEMMA NextOnlyFirstFails ==
  ASSUME VerifyInv, SessionInv, DeliveredInv, CollectExactInv, SleepCovers, KeyFirst,
         OnlyFirstSessionFails, Next
  PROVE  OnlyFirstSessionFails'
<1> SUFFICES ASSUME session' > 1, failure' = "missing shares" PROVE FALSE
  BY DEF OnlyFirstSessionFails
<1>1. SigningInv
  BY DEF VerifyInv
<1>2. ~StartSigning /\ session' = session
  BY <1>1, SessionSteps DEF StartSigning
<1>3. session > 1 /\ session # 0
  <2>1. session \in Nat /\ session > 1
    BY <1>1, <1>2, SessionTyped
  <2> QED
    BY <2>1, LaterNumbers
<1>4. ASSUME NEW n \in todo, pc = "derive", TooFew(n, SecretShare[n], ReceivedShares[n])
      PROVE  FALSE
  <2>1. n \in nodes /\ ~hasPrivateKey[n]
    BY <1>4, TooFewUnkeyed DEF OneKeyOrTimely
  <2>2. Keyed
    BY <1>3 DEF SessionInv
  <2> QED
    BY <1>1, <2>1, <2>2, KeyMeansFull DEF Keyed, SigningInv
<1> QED
  BY <1>1, <1>2, <1>3, <1>4, FailureSteps, SessionHasAll
     DEF OnlyFirstSessionFails, NoRace
-----------------------------------------------------------------------------
LEMMA InitRetry == Init => RetryInv
<1> SUFFICES ASSUME Init PROVE RetryInv
  OBVIOUS
<1> USE DEF Init, DKGInit, NetInit, CollectInit
<1>1. LatestKeyInv
  BY InitLatest
<1>2. SessionInv
  BY EmptySeq DEF SessionInv
<1>3. NoRaceInv
  BY DEF NoRaceInv, MainInits
<1>4. DeliveredInv /\ CollectExactInv
  BY DEF DeliveredInv, CollectExactInv
<1>5. UnansweredInv /\ NonceOfOneSession
  BY DEF UnansweredInv, NonceOfOneSession
<1>6. OnlyFirstSessionFails
  BY DEF OnlyFirstSessionFails
<1> QED
  BY <1>1, <1>2, <1>3, <1>4, <1>5, <1>6 DEF RetryInv

LEMMA NextRetry ==
  ASSUME SleepCovers
  PROVE  RetryInv /\ [Next]_vars => RetryInv'
<1>1. ASSUME RetryInv, Next PROVE RetryInv'
  <2>1. /\ LatestKeyInv /\ VerifyInv /\ SigningInv /\ QuietInv
        /\ SessionInv /\ NoRaceInv /\ DeliveredInv /\ CollectExactInv
        /\ UnansweredInv /\ NonceOfOneSession
    BY <1>1 DEF RetryInv, LatestKeyInv, VerifyInv
  <2>2. LatestKeyInv'
    BY <1>1, <2>1, NextLatest
  <2>3. SigningInv'
    BY <2>2 DEF LatestKeyInv, VerifyInv
  <2>4. SessionInv'
    BY <1>1, <2>1, <2>3, NextSession
  <2>5. NoRaceInv'
    BY <1>1, <2>1, <2>3, NextNoRace
  <2>6. DeliveredInv'
    BY <1>1, <2>1, <2>3, NextDelivered
  <2>7. CollectExactInv'
    BY <1>1, <2>1, <2>3, NextCollectExact
  <2>8. UnansweredInv' /\ NonceOfOneSession'
    BY <1>1, <2>1, NextUnanswered, NextNonceOfOneSession
  <2>9. KeyFirst => OnlyFirstSessionFails'
    BY <1>1, <2>1, NextOnlyFirstFails DEF RetryInv
  <2> QED
    BY <2>2, <2>4, <2>5, <2>6, <2>7, <2>8, <2>9 DEF RetryInv
<1>2. ASSUME RetryInv, UNCHANGED vars PROVE RetryInv'
  <2> USE <1>2 DEF vars, dkgVars, netVars, collectVars, mainVars, partyVars, signVars
  <2>1. LatestKeyInv' /\ Undelivered' = Undelivered
    BY NextLatest, NetworkStays DEF RetryInv
  <2>2. SessionInv'
    BY DEF RetryInv, SessionInv, BadThreshold, AllSign, NoSigner, Keyed
  <2>3. NoRaceInv'
    BY DEF RetryInv, NoRaceInv, NoRace, MainInits, NoSigner
  <2>4. DeliveredInv'
    BY <2>1 DEF RetryInv, DeliveredInv, NoRace, Reaches, NoSigner, LastSigner, NonceMessage
  <2>5. CollectExactInv'
    BY DEF RetryInv, CollectExactInv, LastSigner, Held
  <2>6. UnansweredInv' /\ NonceOfOneSession' /\ (KeyFirst => OnlyFirstSessionFails')
    BY DEF RetryInv, UnansweredInv, NonceOfOneSession, OnlyFirstSessionFails
  <2> QED
    BY <2>1, <2>2, <2>3, <2>4, <2>5, <2>6 DEF RetryInv
<1> QED
  BY <1>1, <1>2

(* When the Sleeps cover the deliveries, RetryInv holds at every step, in   *)
(* any network and for any number of dealings and sessions: at most one     *)
(* object per node is made from the second session on, what is on its way   *)
(* is of the phase that runs, and what a phase reads in its second loop is  *)
(* all there.                                                               *)
THEOREM RetryInvariant ==
  ASSUME SleepCovers
  PROVE  Spec => []RetryInv
<1>1. RetryInv /\ [Next]_vars => RetryInv'
  BY NextRetry
<1> QED
  BY <1>1, InitRetry, PTL DEF Spec

(* No share of an earlier session gets into a nonce share of a signature,   *)
(* although ReceivedNonces still holds it: in the first session there is    *)
(* none, and later ones replace all of them before ComputeSharedNonce runs. *)
THEOREM NoncesAreFresh ==
  ASSUME SleepCovers
  PROVE  Spec => []NonceOfOneSession
<1>1. RetryInv => NonceOfOneSession
  BY DEF RetryInv
<1> QED
  BY <1>1, RetryInvariant, PTL

(* The race on n.signer can cost a session its nonce shares only once: when *)
(* DKGPhase comes first, a second SignPhase never fails for want of shares, *)
(* and neither does a DKGPhase that follows it.                             *)
THEOREM RetriesHaveAllShares ==
  ASSUME SleepCovers, KeyFirst
  PROVE  Spec => []OnlyFirstSessionFails
<1>1. RetryInv => OnlyFirstSessionFails
  BY DEF RetryInv
<1> QED
  BY <1>1, RetryInvariant, PTL
-----------------------------------------------------------------------------
(* The demo as main runs it.                                                *)
LEMMA NextFullNetwork ==
  ASSUME AsInMain, FullNetworkInv, Next
  PROVE  FullNetworkInv'
<1>1. CASE StartDKG \/ StartSigning
  BY <1>1 DEF StartDKG, StartSigning, AsInMain, FullNetworkInv, netVars
<1>2. CASE Join
  BY <1>2 DEF Join, FullNetworkInv, mainVars
<1>3. CASE ~(StartDKG \/ StartSigning \/ Join)
  <2>1. nodes' = nodes
    <3>1. CASE DKGMain
      BY <1>3, <3>1
         DEF DKGMain, GenerateSecretShare, BroadcastCommitments, BroadcastShares,
             SendMessages, ComputeSharedPrivateKey, GenerateNoCoefficients,
             WakeFromDealing, CombinePublicKeys, CombineAtNilNode, netVars
    <3>2. CASE SignMain
      BY <1>3, <3>2
         DEF SignMain, FindNoSigner, MainInitSigning, GenerateNonceShare, SendMessages,
             GenerateFails, GenerateAtNilSigner, ComputeSharedNonce, WakeFromNonces,
             Reconstruct, NonceHasNoInverse, ReconstructFails, NonceOutOfRange,
             StopNetwork, Stop, Exit, Die, netVars
    <3>3. CASE Handler \/ Senders
      BY <3>3
         DEF Handler, DKGHandler, TakeMessage, ReceiveDKGShare, DKGMapRace, SignHandler,
             HandlerFindsNoSigner, HandlerInitSigning, ReceiveNonceShare,
             ReceiveAtNilSigner, NonceMapRace, Delivered, Die, Senders, Sender, Enqueue,
             SendOnClosed, dkgVars, netVars
    <3> QED
      BY <3>1, <3>2, <3>3 DEF Next, Main
  <2>2. pc = "setup" => pc' = "setup"
    BY <1>3, PcSteps DEF WakeFromDealing, WakeFromNonces
  <2> QED
    BY <2>1, <2>2 DEF FullNetworkInv
<1> QED
  BY <1>1, <1>2, <1>3

(* What a process can die of, and the errors the phases return.             *)
LEMMA PanicSteps ==
  ASSUME Next
  PROVE  \/ panic' = panic
         \/ GenerateNoCoefficients \/ CombineAtNilNode \/ DKGMapRace
         \/ (\E n \in todo : GenerateAtNilSigner(n)) \/ NonceOutOfRange
         \/ ReceiveAtNilSigner \/ NonceMapRace
         \/ closed /\ inflight # {}
<1>1. CASE DKGMain
  BY <1>1
     DEF DKGMain, Join, AddNode, StartDKG, GenerateSecretShare,
         BroadcastCommitments, BroadcastShares, SendMessages,
         ComputeSharedPrivateKey, WakeFromDealing, CombinePublicKeys, netVars
<1>2. CASE SignMain
  BY <1>2
     DEF SignMain, StartSigning, FindNoSigner, MainInitSigning, GenerateNonceShare,
         SendMessages, GenerateFails, ComputeSharedNonce, WakeFromNonces, Reconstruct,
         NonceHasNoInverse, ReconstructFails, StopNetwork, Stop, Exit, netVars
<1>3. CASE Handler \/ Senders
  BY <1>3
     DEF Handler, DKGHandler, TakeMessage, ReceiveDKGShare, SignHandler,
         HandlerFindsNoSigner, HandlerInitSigning, ReceiveNonceShare, Delivered,
         Senders, Sender, Enqueue, SendOnClosed, dkgVars, netVars
<1> QED
  BY <1>1, <1>2, <1>3 DEF Next, Main

LEMMA ErrorSteps ==
  ASSUME Next
  PROVE  \/ failure' \in {failure, "none", "zero nonce", "missing shares"}
         \/ (\E n \in todo : GenerateFails(n)) \/ ReconstructFails
<1>1. CASE DKGMain
  BY <1>1
     DEF DKGMain, Join, StartDKG, GenerateSecretShare, BroadcastCommitments,
         BroadcastShares, ComputeSharedPrivateKey, DeriveStep,
         GenerateNoCoefficients, WakeFromDealing, CombinePublicKeys,
         CombineAtNilNode, mainVars
<1>2. CASE SignMain
  BY <1>2
     DEF SignMain, StartSigning, FindNoSigner, MainInitSigning, GenerateNonceShare,
         GenerateAtNilSigner, ComputeSharedNonce, CollectStep, WakeFromNonces,
         Reconstruct, NonceHasNoInverse, NonceOutOfRange, StopNetwork, Exit, Die, mainVars
<1>3. CASE Handler \/ Senders
  BY <1>3
     DEF Handler, DKGHandler, ReceiveDKGShare, DKGMapRace, SignHandler,
         HandlerFindsNoSigner, HandlerInitSigning, ReceiveNonceShare,
         ReceiveAtNilSigner, NonceMapRace, Die, Senders, mainVars, dkgVars
<1> QED
  BY <1>1, <1>2, <1>3 DEF Next, Main

(* main gives the nodes a threshold between 2 and the number of parties.    *)
LEMMA ThresholdInMain ==
  ASSUME AsInMain, TypeOK
  PROVE  /\ threshold \in Nat /\ NumParties \in Nat
         /\ threshold >= 2 /\ threshold <= NumParties
<1>1. threshold \in 2 .. NumParties
  BY DEF AsInMain, TypeOK
<1> QED
  BY <1>1, SizeAssumption

(* No process dies: the threshold is in range, the node 0 is there, nothing *)
(* is delivered outside of the Sleeps and every node has a key share before *)
(* the first session.                                                       *)
LEMMA NextAlive ==
  ASSUME AsInMain, DemoInv, Next
  PROVE  panic' = "none"
<1>1. /\ RetryInv /\ LatestKeyInv /\ SigningInv /\ QuietInv /\ ClosedInv
      /\ SessionInv /\ NoRaceInv /\ FullNetworkInv /\ ThresholdInv /\ TypeOK /\ KeyInv
  BY DEF DemoInv, RetryInv, LatestKeyInv, VerifyInv, SigningInv
<1>2. SleepCovers /\ NoRace /\ panic = "none"
  BY DEF AsInMain, NoRace, DemoInv, TimelyDemoSucceeds
<1>3. threshold # 0 /\ threshold \in Nat /\ threshold <= NumParties /\ NumParties \in Nat
  BY <1>1, ThresholdInMain
<1>4. ~GenerateNoCoefficients
  BY <1>3 DEF GenerateNoCoefficients
<1>5. ~CombineAtNilNode
  <2>1. 0 \in Parties
    BY SizeAssumption DEF Parties
  <2> QED
    BY <1>1, <2>1 DEF CombineAtNilNode, FullNetworkInv
<1>6. pc \notin {"deal", "nonce"} => Undelivered = {}
  BY <1>1, <1>2 DEF QuietInv
<1>7. ~DKGMapRace
  BY <1>6 DEF DKGMapRace, Undelivered
<1>8. ~NonceMapRace
  BY <1>6, ReceivingIsUndelivered DEF NonceMapRace, AtReceive
<1>9. ~(closed /\ inflight # {})
  BY <1>1, <1>6 DEF ClosedInv, Undelivered
<1>10. ~ReceiveAtNilSigner
  BY <1>1, <1>2, NothingReceived DEF ReceiveAtNilSigner, AtReceive
<1>11. ~\E n \in todo : GenerateAtNilSigner(n)
  <2> SUFFICES ASSUME NEW n \in todo, GenerateAtNilSigner(n) PROVE FALSE
    OBVIOUS
  <2>1. pc = "nonce" /\ NoSigner(n) /\ current = n /\ stage = "generate"
    BY DEF GenerateAtNilSigner, AtGenerate
  <2>2. session # 0
    BY <1>1, <2>1 DEF SigningInv, FreshInv
  <2>3. Keyed
    BY <1>1, <2>2 DEF SessionInv, AsInMain
  <2>4. n \in nodes
    BY <1>1 DEF TypeOK, DKGPartyTypeOK
  <2>5. hasPrivateKey[n]
    BY <1>1, <2>3, <2>4, KeyMeansFull DEF Keyed
  <2> QED
    BY <1>1, <2>1, <2>5 DEF SigningInv, GenerateInv
<1>12. ~NonceOutOfRange
  <2> SUFFICES ASSUME NonceOutOfRange PROVE FALSE
    OBVIOUS
  <2>1. pc = "collect" /\ todo = {} /\ threshold > Len(nonceShares)
    BY DEF NonceOutOfRange
  <2>2. nodes = Parties /\ Len(nonceShares) = Cardinality(nodes \ todo)
    BY <1>1, <2>1 DEF FullNetworkInv, ThresholdInv, NonceCountInv
  <2>3. nodes \ todo = Parties
    BY <2>1, <2>2
  <2>4. Len(nonceShares) = NumParties
    BY <2>2, <2>3, CountParties
  <2> QED
    BY <1>3, <2>1, <2>4
<1> QED
  BY <1>2, <1>4, <1>5, <1>7, <1>8, <1>9, <1>10, <1>11, <1>12, PanicSteps

(* And no phase returns an error, but for a nonce of 0.                     *)
LEMMA NextUnfailed ==
  ASSUME AsInMain, DemoInv, Next
  PROVE  failure' \in {"none", "zero nonce"}
<1>1. /\ RetryInv /\ LatestKeyInv /\ VerifyInv /\ SigningInv /\ TypeOK
      /\ DeliveredInv /\ CollectExactInv /\ FullNetworkInv
  BY DEF DemoInv, RetryInv, LatestKeyInv, VerifyInv, SigningInv
<1>2. SleepCovers /\ NoRace /\ failure \in {"none", "zero nonce"}
  BY DEF AsInMain, NoRace, DemoInv, TimelyDemoSucceeds
<1>3. /\ threshold \in Nat /\ NumParties \in Nat
      /\ threshold >= 2 /\ threshold <= NumParties
  BY <1>1, ThresholdInMain
<1>4. ~(\E n \in todo : GenerateFails(n)) /\ ~ReconstructFails
  <2>1. ~BadThreshold /\ ~(threshold < 2)
    BY <1>3 DEF BadThreshold
  <2> QED
    BY <2>1 DEF GenerateFails, ReconstructFails
<1>5. failure' # "missing shares"
  <2> SUFFICES ASSUME failure' = "missing shares" PROVE FALSE
    OBVIOUS
  <2>1. CASE \E n \in todo : pc = "derive" /\ TooFew(n, SecretShare[n], ReceivedShares[n])
    <3> PICK n \in todo : pc = "derive" /\ TooFew(n, SecretShare[n], ReceivedShares[n])
      BY <2>1
    <3>1. n \in nodes /\ nodes \subseteq Ids /\ nodes = Parties
      BY <1>1 DEF TypeOK, DKGPartyTypeOK, FullNetworkInv
    <3>2. \A j \in nodes : ReceivedShares[n][j] = dealing
      BY <1>1, <1>2, <3>1 DEF LatestKeyInv, LatestInv
    <3>3. dealing # 0
      BY <1>1 DEF VerifyInv, FirstKeyInv
    <3>4. Parties \subseteq Held(ReceivedShares[n])
      BY <3>1, <3>2, <3>3 DEF Held
    <3>5. current = n /\ stage = "count" /\ ~Enough(n, SecretShare[n], ReceivedShares[n])
      BY DEF TooFew
    <3>6. total = Cardinality(Held(ReceivedShares[n]))
      BY <1>1, <1>2, <3>5 DEF VerifyInv, DeriveExactInv
    <3> QED
      BY <3>4, <3>5, <3>6, AllAreEnough
  <2>2. CASE \E n \in todo : pc = "collect" /\ TooFew(n, signers[n][held].NonceShare,
                                                      signers[n][held].ReceivedNonces)
    BY <1>1, <1>2, <2>2, SessionHasAll
  <2> QED
    BY <1>2, <2>1, <2>2, FailureSteps
<1> QED
  BY <1>2, <1>4, <1>5, ErrorSteps

LEMMA NextDemo ==
  ASSUME AsInMain
  PROVE  DemoInv /\ [Next]_vars => DemoInv'
<1>1. SleepCovers
  BY DEF AsInMain
<1>2. DemoInv /\ [Next]_vars => RetryInv'
  BY <1>1, NextRetry DEF DemoInv
<1>3. ASSUME DemoInv, Next PROVE DemoInv'
  <2>1. RetryInv' /\ SigningInv /\ SigningInv' /\ FullNetworkInv /\ ThresholdInv
    BY <1>2, <1>3 DEF DemoInv, RetryInv, LatestKeyInv, VerifyInv
  <2>2. FullNetworkInv' /\ ThresholdInv'
    BY <1>1, <1>3, <2>1, NextFullNetwork, NextThreshold
  <2>3. TimelyDemoSucceeds'
    BY <1>3, NextAlive, NextUnfailed DEF TimelyDemoSucceeds
  <2> QED
    BY <2>1, <2>2, <2>3 DEF DemoInv
<1>4. ASSUME DemoInv, UNCHANGED vars PROVE DemoInv'
  <2>1. ThresholdInv'
    BY <1>4, NextThreshold DEF DemoInv, RetryInv, LatestKeyInv, VerifyInv
  <2> QED
    BY <1>2, <1>4, <2>1 DEF DemoInv, FullNetworkInv, TimelyDemoSucceeds,
                            vars, dkgVars, netVars, mainVars, signVars
<1> QED
  BY <1>3, <1>4

LEMMA InitDemo == Init => DemoInv
BY InitRetry, InitThreshold
   DEF Init, DKGInit, NetInit, DemoInv, FullNetworkInv, TimelyDemoSucceeds

(* The invariant of the demo as main runs it, which the next theorem needs: *)
(* besides RetryInv, every phase works on all parties, and SignPhase's      *)
(* nonceShares has one entry per node it has dealt with.                    *)
THEOREM DemoInvariant ==
  ASSUME AsInMain
  PROVE  Spec => []DemoInv
<1>1. DemoInv /\ [Next]_vars => DemoInv'
  BY NextDemo
<1> QED
  BY <1>1, InitDemo, PTL DEF Spec

(* In main's network, with its order of the phases, a threshold the number  *)
(* of parties allows and Sleeps that cover the deliveries, no call of       *)
(* DKGPhase or SignPhase, however many, returns an error but for a nonce of *)
(* 0, and no goroutine panics: not at a nil n.signer, not over a map, not   *)
(* at the closed channel.                                                   *)
THEOREM DemoNeverFails ==
  ASSUME AsInMain
  PROVE  Spec => []TimelyDemoSucceeds
<1>1. DemoInv => TimelyDemoSucceeds
  BY DEF DemoInv
<1> QED
  BY <1>1, DemoInvariant, PTL
-----------------------------------------------------------------------------
(* The demo implements SigningService.                                      *)
LEMMA OneOfOne ==
  ASSUME NEW rounds, NEW r \in rounds, r # 0, \A x \in rounds : x = r
  PROVE  OneOf(rounds) = r
<1>1. rounds = {r}
  OBVIOUS
<1>2. Cardinality({r}) = 1 /\ 0 \notin {r} /\ (CHOOSE x \in {r} : TRUE) = r
  BY FS_Singleton
<1> QED
  BY <1>1, <1>2 DEF OneOf

LEMMA RoundOfAll ==
  ASSUME NEW sums, NEW dealers, NEW r, r # 0, sums # {}, dealers # {},
         \A s \in sums : \A j \in dealers : s[j] = r
  PROVE  Round(dealers, sums) = r
<1> DEFINE rounds == {s[j] : s \in sums, j \in dealers}
<1>1. r \in rounds
  <2> PICK s \in sums, j \in dealers : TRUE
    OBVIOUS
  <2>1. s[j] = r /\ s[j] \in rounds
    OBVIOUS
  <2> QED
    BY <2>1
<1>2. \A x \in rounds : x = r
  OBVIOUS
<1> HIDE DEF rounds
<1>3. OneOf(rounds) = r
  BY <1>1, <1>2, OneOfOne
<1> USE DEF rounds
<1> QED
  BY <1>3 DEF Round

(* The key in force is that of one dealing, which is over.                  *)
LEMMA KeyInForceIs ==
  ASSUME LatestKeyInv, SleepCovers, 0 \in Ids, sharedPublicKey[0] # Nil
  PROVE  /\ 0 \in nodes
         /\ KeyInForce \in 1 .. dealing
         /\ pc \in {"deal", "derive"} => KeyInForce < dealing
         /\ Round(nodes, {sharedPublicKey[0][n] : n \in nodes}) = KeyInForce
<1>1. 0 \in nodes
  BY KeyMeansFull DEF LatestKeyInv, VerifyInv, SigningInv
<1>2. PICK r \in 1 .. dealing : /\ pc \in {"deal", "derive"} => r < dealing
                                /\ OneRound(sharedPublicKey[0], r)
  BY <1>1 DEF LatestKeyInv, KeyRoundInv
<1>3. r # 0
  BY <1>2, DealingTyped DEF LatestKeyInv, VerifyInv, SigningInv
<1>4. \A s \in {sharedPublicKey[0][n] : n \in nodes}, j \in nodes : s[j] = r
  BY <1>2 DEF OneRound
<1>5. Round(nodes, {sharedPublicKey[0][n] : n \in nodes}) = r
  BY <1>1, <1>3, <1>4, RoundOfAll
<1>6. KeyInForce = r
  BY <1>5 DEF KeyInForce
<1>7. KeyInForce \in 1 .. dealing /\ (pc \in {"deal", "derive"} => KeyInForce < dealing)
  BY <1>2, <1>6
<1> QED
  BY <1>1, <1>5, <1>6, <1>7

(* A phase that runs after DKGPhase finds a key at node 0.                  *)
LEMMA KeyedIsInForce ==
  ASSUME LatestKeyInv, SleepCovers, 0 \in Ids, Keyed, pc # "derive"
  PROVE  sharedPublicKey[0] # Nil /\ KeyInForce # 0
<1>1. 0 \in nodes /\ \A m \in nodes : hasPrivateKey[m]
  BY KeyMeansFull DEF LatestKeyInv, VerifyInv, SigningInv, Keyed
<1>2. sharedPublicKey[0] # Nil
  BY <1>1 DEF LatestKeyInv, VerifyInv, PublicKeyInv
<1>3. KeyInForce \in 1 .. dealing /\ dealing \in Nat
  BY <1>2, KeyInForceIs, DealingTyped DEF LatestKeyInv, VerifyInv, SigningInv
<1> QED
  BY <1>2, <1>3

(* What a step changes of the service's state.                              *)
LEMMA ServiceSteps ==
  ASSUME SigningInv, Next
  PROVE  \/ UNCHANGED <<nodes, sharedPublicKey, session, signature>>
         \/ Join /\ UNCHANGED <<partyVars, session, signature>>
         \/ CombinePublicKeys /\ UNCHANGED <<session, signature>>
         \/ StartSigning
         \/ Reconstruct
<1>1. CASE DKGMain /\ UNCHANGED signVars
  BY <1>1
     DEF DKGMain, Join, StartDKG, GenerateSecretShare, BroadcastCommitments,
         BroadcastShares, SendMessages, ComputeSharedPrivateKey, DeriveStep,
         GenerateNoCoefficients, WakeFromDealing, CombineAtNilNode, netVars,
         partyVars, signVars
<1>2. CASE SignMain
  BY <1>2
     DEF SignMain, FindNoSigner, MainInitSigning, GenerateNonceShare, SendMessages,
         GenerateFails, GenerateAtNilSigner, ComputeSharedNonce, WakeFromNonces,
         NonceHasNoInverse, ReconstructFails, NonceOutOfRange, StopNetwork, Stop, Exit,
         Die, netVars, partyVars, signVars
<1>3. CASE Handler \/ Senders
  BY <1>3
     DEF Handler, DKGHandler, TakeMessage, ReceiveDKGShare, DKGMapRace, SignHandler,
         HandlerFindsNoSigner, HandlerInitSigning, ReceiveNonceShare,
         ReceiveAtNilSigner, NonceMapRace, Delivered, Die, Senders, Sender, Enqueue,
         SendOnClosed, dkgVars, netVars, partyVars, signVars
<1> QED
  BY <1>1, <1>2, <1>3 DEF Next, Main

(* A key that is combined is that of the dealing that has just ended.       *)
LEMMA CombineIsNewKey ==
  ASSUME LatestKeyInv, LatestKeyInv', SleepCovers, 0 \in Ids,
         CombinePublicKeys, UNCHANGED <<session, signature>>
  PROVE  Service!NewKey
<1>1. pc = "derive" /\ nodes' = nodes /\ dealing' = dealing
      /\ sharedPublicKey'[0] = [n \in nodes |-> privateKeyShare[n]]
  BY DEF CombinePublicKeys, netVars, LatestKeyInv, VerifyInv, SigningInv, TypeOK,
         DKGPartyTypeOK
<1>2. \A n, j \in nodes : sharedPublicKey'[0][n][j] = dealing
  BY <1>1 DEF CombinePublicKeys, LatestKeyInv, LatestInv
<1>3. dealing \in Nat /\ dealing # 0
  BY <1>1, DealingTyped DEF LatestKeyInv, VerifyInv, SigningInv, FirstKeyInv
<1>4. 0 \in nodes /\ sharedPublicKey'[0] # Nil
  <2>1. pc' = "keyed"
    BY DEF CombinePublicKeys
  <2> QED
    BY <1>1, <2>1 DEF CombinePublicKeys, LatestKeyInv, VerifyInv, SigningInv, KeyInv, KeyedInv
<1>5. Round(nodes, {sharedPublicKey[0][n] : n \in nodes})' = dealing
  <2>1. /\ nodes' # {} /\ {sharedPublicKey'[0][n] : n \in nodes'} # {}
        /\ \A s \in {sharedPublicKey'[0][n] : n \in nodes'}, j \in nodes' : s[j] = dealing
    BY <1>1, <1>2, <1>4
  <2>2. Round(nodes', {sharedPublicKey'[0][n] : n \in nodes'}) = dealing
    BY <1>3, <2>1, RoundOfAll
  <2> QED
    BY <2>2
<1>6. KeyInForce' = dealing
  BY <1>4, <1>5 DEF KeyInForce
<1>7. KeyInForce \in Nat /\ KeyInForce < dealing
  <2>1. CASE sharedPublicKey[0] = Nil
    <3>1. 0 < dealing
      BY <1>3
    <3> QED
      BY <2>1, <3>1 DEF KeyInForce
  <2>2. CASE sharedPublicKey[0] # Nil
    BY <1>1, <1>3, <2>2, KeyInForceIs
  <2> QED
    BY <2>1, <2>2
<1>8. Answer' = Answer
  BY <1>1 DEF Answer
<1> QED
  BY <1>3, <1>6, <1>7, <1>8 DEF Service!NewKey

(* A signature is made with the key in force and the nonces of its session. *)
LEMMA ReconstructAnswers ==
  ASSUME RetryInv, SleepCovers, KeyFirst, 0 \in Ids, Reconstruct
  PROVE  [Service!Next]_(Service!serviceVars)
<1>1. /\ LatestKeyInv /\ SigningInv /\ SessionInv /\ CollectExactInv /\ UnansweredInv
      /\ PublicKeyInv
  BY DEF RetryInv, LatestKeyInv, VerifyInv
<1>2. /\ pc = "collect" /\ threshold \in 2 .. Len(nonceShares)
      /\ signature'.k = SubSeq(nonceShares, 1, threshold)
      /\ signature'.d = [n \in nodes |-> privateKeyShare[n]]
      /\ UNCHANGED <<nodes, sharedPublicKey, session>>
  BY DEF Reconstruct, netVars, partyVars
<1>3. session # 0 /\ Keyed
  BY <1>1, <1>2 DEF SigningInv, FreshInv, SessionInv
<1>4. sharedPublicKey[0] # Nil /\ KeyInForce # 0 /\ 0 \in nodes
      /\ Round(nodes, {sharedPublicKey[0][n] : n \in nodes}) = KeyInForce
  BY <1>1, <1>2, <1>3, KeyedIsInForce, KeyInForceIs
<1>5. sharedPublicKey[0] = [n \in nodes |-> privateKeyShare[n]]
  BY <1>1, <1>2, <1>4 DEF PublicKeyInv
<1>6. Round(nodes, {signature.d[n] : n \in nodes})' = KeyInForce
  <2>1. {signature'.d[n] : n \in nodes'} = {sharedPublicKey[0][n] : n \in nodes}
    BY <1>2, <1>5
  <2> QED
    BY <1>2, <1>4, <2>1
<1>7. Round(nodes, {signature.k[x].sum : x \in DOMAIN signature.k})' = session
  <2>1. nonceShares \in Seq(NonceShare) /\ threshold \in Nat
    BY <1>1, SizeAssumption DEF SigningInv, TypeOK
  <2> PICK k : k = SubSeq(nonceShares, 1, threshold)
    OBVIOUS
  <2>2. DOMAIN k = 1 .. threshold /\ \A x \in 1 .. threshold : k[x] = nonceShares[x]
    BY <1>2, <2>1
  <2>3. \A i \in 1 .. Len(nonceShares) : \A j \in nodes : nonceShares[i].sum[j] = session
    BY <1>1, <1>2 DEF CollectExactInv
  <2>4. 1 .. threshold \subseteq 1 .. Len(nonceShares) /\ 1 \in 1 .. threshold
    BY <1>2, <2>1
  <2> PICK sums : sums = {k[x].sum : x \in DOMAIN k}
    OBVIOUS
  <2>5. sums # {}
    BY <2>2, <2>4
  <2>6. \A s \in sums, j \in nodes : s[j] = session
    <3> SUFFICES ASSUME NEW s \in sums, NEW j \in nodes PROVE s[j] = session
      OBVIOUS
    <3> PICK x \in 1 .. threshold : s = k[x].sum
      BY <2>2
    <3>1. x \in 1 .. Len(nonceShares) /\ s = nonceShares[x].sum
      BY <2>2, <2>4
    <3> QED
      BY <2>3, <3>1
  <2>7. Round(nodes, sums) = session
    BY <1>3, <1>4, <2>5, <2>6, RoundOfAll
  <2>8. {signature'.k[x].sum : x \in DOMAIN signature'.k} = sums
    BY <1>2
  <2> QED
    BY <1>2, <2>7, <2>8
<1>8. KeyInForce' = KeyInForce
  BY <1>2 DEF KeyInForce
<1>9. Answer = Nil
  BY <1>1, <1>2 DEF Answer, UnansweredInv
<1>10. CASE signature' = Nil
  BY <1>2, <1>8, <1>9, <1>10 DEF Answer, Service!serviceVars
<1>11. CASE signature' # Nil
  <2>1. Answer' = [key |-> KeyInForce, nonce |-> session]
    BY <1>6, <1>7, <1>11 DEF Answer
  <2>2. Service!Answer
    BY <1>2, <1>3, <1>4, <1>8, <1>9, <2>1 DEF Service!Answer
  <2> QED
    BY <2>2 DEF Service!Next
<1> QED
  BY <1>10, <1>11

LEMMA InitService == 0 \in Ids /\ Init => Service!Init
BY DEF Init, DKGInit, Service!Init, KeyInForce, Answer

LEMMA StepService ==
  ASSUME SleepCovers, KeyFirst, 0 \in Ids, RetryInv, RetryInv', [Next]_vars
  PROVE  [Service!Next]_(Service!serviceVars)
<1>1. LatestKeyInv /\ LatestKeyInv' /\ SigningInv
  BY DEF RetryInv, LatestKeyInv, VerifyInv
<1>2. CASE UNCHANGED <<nodes, sharedPublicKey, session, signature>>
  BY <1>2 DEF Service!serviceVars, KeyInForce, Answer
<1>3. CASE Join /\ UNCHANGED <<partyVars, session, signature>>
  <2>1. sharedPublicKey[0] = Nil /\ signature = Nil
    <3>1. pc = "setup"
      BY <1>3 DEF Join
    <3>2. signature = Nil /\ \A n \in Ids : ~hasPrivateKey[n]
      BY <1>1, <3>1 DEF SigningInv, FreshInv, KeyInv, SetupInv
    <3>3. sharedPublicKey[0] # Nil => 0 \in nodes /\ \A m \in nodes : hasPrivateKey[m]
      BY <1>1, KeyMeansFull DEF SigningInv
    <3> QED
      BY <3>2, <3>3
  <2> QED
    BY <1>3, <2>1 DEF partyVars, Service!serviceVars, KeyInForce, Answer
<1>4. CASE CombinePublicKeys /\ UNCHANGED <<session, signature>>
  BY <1>1, <1>4, CombineIsNewKey DEF Service!Next
<1>5. CASE StartSigning
  <2>1. Keyed /\ pc # "derive" /\ session' = session + 1 /\ signature' = Nil
        /\ UNCHANGED <<nodes, sharedPublicKey>>
    BY <1>5 DEF StartSigning, Idle, netVars, partyVars
  <2>2. KeyInForce # 0 /\ KeyInForce' = KeyInForce
    BY <1>1, <2>1, KeyedIsInForce DEF KeyInForce
  <2>3. Service!Request
    BY <2>1, <2>2 DEF Service!Request, Answer
  <2> QED
    BY <2>3 DEF Service!Next
<1>6. CASE Reconstruct
  BY <1>6, ReconstructAnswers
<1>7. CASE UNCHANGED vars
  BY <1>2, <1>7 DEF vars, dkgVars, netVars, partyVars, signVars
<1> QED
  BY <1>1, <1>2, <1>3, <1>4, <1>5, <1>6, <1>7, ServiceSteps

(* When DKGPhase comes first and the Sleeps cover the deliveries, any       *)
(* sequence of calls of DKGPhase and SignPhase, in whatever network, does   *)
(* what SigningService promises: a key is only replaced by that of a later  *)
(* dealing, and a signature is made with the key in force and the nonces of *)
(* the request it answers, the race on n.signer notwithstanding.            *)
THEOREM DemoImplementsSigningService ==
  ASSUME SleepCovers, KeyFirst, 0 \in Ids
  PROVE  Spec => ImplementsSigningService
<1>1. RetryInv /\ RetryInv' /\ [Next]_vars => [Service!Next]_(Service!serviceVars)
  BY StepService
<1>2. Init => Service!Init
  BY InitService
<1> QED
  BY <1>1, <1>2, RetryInvariant, PTL DEF Spec, ImplementsSigningService, Service!Spec
=============================================================================
