-------------------------- MODULE SumProtocolProofs --------------------------
(***************************************************************************)
(* Proofs about the sum demo for any number of parties, any set of         *)
(* networks, any thresholds and any queue capacity.                        *)
(***************************************************************************)
EXTENDS SumProtocol, SimulatorProofs

(* One more dealer never makes fewer shares.                                *)
LEMMA MoreShares ==
  ASSUME NEW S \in SUBSET Ids, NEW j \in Ids, Cardinality(S) >= NumParties
  PROVE  Cardinality(S \cup {j}) >= NumParties
<1>1. IsFiniteSet(S \cup {j})
  BY FiniteIds
<1>2. Cardinality(S) <= Cardinality(S \cup {j})
  BY <1>1, FS_Subset
<1> QED
  BY <1>2, FiniteIds, SizeAssumption

(* What a node that has every share knows: the network is the full one and  *)
(* the shares are those of all its nodes.                                   *)
LEMMA AllOfThem ==
  ASSUME TypeOK, MessageInv, NEW n \in Ids, AllArrived(n), nodes \subseteq Parties
  PROVE  receivedShares[n] = nodes /\ nodes = Parties
<1>1. receivedShares[n] \subseteq nodes
  BY DEF TypeOK, MessageInv, HasDealt
<1>2. receivedShares[n] \subseteq Parties
  BY <1>1
<1>3. Cardinality(receivedShares[n]) <= Cardinality(Parties)
  BY <1>2, CountParties, FS_Subset
<1>4. Cardinality(receivedShares[n]) = Cardinality(Parties)
  <2>1. Cardinality(receivedShares[n]) \in Nat
    BY FiniteIds DEF TypeOK
  <2> QED
    BY <1>3, <2>1, CountParties, SizeAssumption DEF AllArrived
<1>5. receivedShares[n] = Parties
  BY <1>2, <1>4, CountParties, FS_Subset
<1> QED
  BY <1>1, <1>5

(* A node that has every share is one of the parties.                       *)
LEMMA OnlyPartiesCount ==
  ASSUME TypeOK, MessageInv, NEW n \in Ids, AllArrived(n)
  PROVE  n \in Parties
<1>1. receivedShares[n] # {}
  <2>1. Cardinality({}) = 0
    BY FS_EmptySet
  <2> QED
    BY <2>1, SizeAssumption DEF AllArrived
<1> QED
  BY <1>1 DEF MessageInv

(* When every node has a result, nothing is in flight any more.             *)
LEMMA EverybodyDone ==
  ASSUME IInv, nodes # {}, \A n \in nodes : result[n] # Nil
  PROVE  /\ nodes = Parties
         /\ \A n \in nodes : receivedShares[n] = nodes
         /\ inflight = {}
<1> USE DEF IInv
<1>1. \A n \in nodes : n \in Ids /\ AllArrived(n)
  BY DEF TypeOK, BarrierInv
<1>2. nodes \subseteq Parties
  BY <1>1, OnlyPartiesCount
<1>3. \A n \in nodes : receivedShares[n] = nodes /\ nodes = Parties
  BY <1>1, <1>2, AllOfThem
<1>4. inflight = {}
  <2> SUFFICES ASSUME NEW m \in inflight PROVE FALSE
    OBVIOUS
  <2>1. m.From \in nodes /\ m.To \in nodes
    BY DEF MessageInv, RightlySent, HasDealt
  <2> QED
    BY <2>1, <1>3 DEF OnceInv
<1> QED
  BY <1>3, <1>4
-----------------------------------------------------------------------------
LEMMA InitIInv == Init => IInv
<1> SUFFICES ASSUME Init PROVE IInv
  OBVIOUS
<1> USE DEF Init, NetInit
<1>1. TypeOK
  <2>1. messageQueue \in Seq(ShareMessages)
    OBVIOUS
  <2>2. /\ receivedShares \in [Ids -> SUBSET Ids]
        /\ result \in [Ids -> [Ids -> Nat] \cup {Nil}]
        /\ ready \in [Ids -> {0, 1}]
    OBVIOUS
  <2> QED
    BY <2>1, <2>2 DEF TypeOK
<1>2. MainInv /\ OnceInv /\ FinishedInv /\ NoSendOnClosed
  BY DEF MainInv, OnceInv, FinishedInv, NoSendOnClosed
<1>3. MessageInv
  BY DEF MessageInv
<1>4. BarrierInv
  BY DEF BarrierInv
<1> QED
  BY <1>1, <1>2, <1>3, <1>4 DEF IInv
-----------------------------------------------------------------------------
(* Where the messages are does not change in a step of main alone.          *)
LEMMA MessagesStay ==
  ASSUME IInv, UNCHANGED <<nodes, inflight, messageQueue, handling, receivedShares>>,
         \A j : HasDealt(j) => HasDealt(j)'
  PROVE  MessageInv' /\ OnceInv'
<1>1. \A m \in inflight' : RightlySent(m)'
  BY DEF IInv, MessageInv, RightlySent
<1>2. ASSUME NEW i \in 1 .. Len(messageQueue)
      PROVE  RightlySent(messageQueue[i])'
  <2>1. RightlySent(messageQueue[i])
    BY DEF IInv, MessageInv
  <2> QED
    BY <2>1 DEF RightlySent, HasDealt
<1>3. (handling # Nil => RightlySent(handling))'
  BY DEF IInv, MessageInv, RightlySent, HasDealt
<1>4. \A n \in Ids : \A j \in receivedShares[n] : HasDealt(j)' /\ n \in Parties
  BY DEF IInv, MessageInv
<1>5. MessageInv'
  BY <1>1, <1>2, <1>3, <1>4 DEF MessageInv
<1>6. OnceInv'
  BY DEF IInv, OnceInv
<1> QED
  BY <1>5, <1>6

LEMMA JoinIInv == IInv /\ Join => IInv'
<1> SUFFICES ASSUME IInv, Join PROVE IInv'
  OBVIOUS
<1> USE DEF Join, AddNode, mainVars, nodeVars
<1>1. PICK id \in Ids : nodes' = nodes \cup {id}
  OBVIOUS
<1>2. TypeOK'
  BY <1>1 DEF IInv, TypeOK
<1>3. MainInv'
  BY <1>1 DEF IInv, MainInv, BadThreshold
<1>4. /\ inflight = {} /\ handling = Nil
      /\ \A i \in 1 .. Len(messageQueue) : FALSE
      /\ \A n \in Ids : receivedShares[n] = {}
  BY DEF IInv, MessageInv, RightlySent, HasDealt, TypeOK
<1>5. MessageInv' /\ OnceInv'
  BY <1>4 DEF MessageInv, OnceInv
<1>6. \A n \in Ids : result[n] = Nil
  BY DEF IInv, MainInv
<1>7. BarrierInv'
  BY <1>1, <1>2, <1>6 DEF IInv, BarrierInv, AllArrived, TypeOK
<1>8. FinishedInv' /\ NoSendOnClosed'
  BY DEF IInv, FinishedInv, NoSendOnClosed
<1> QED
  BY <1>2, <1>3, <1>5, <1>7, <1>8 DEF IInv

LEMMA StartSharingIInv == IInv /\ StartSharing => IInv'
<1> SUFFICES ASSUME IInv, StartSharing PROVE IInv'
  OBVIOUS
<1> USE DEF StartSharing, netVars, nodeVars
<1>1. TypeOK'
  BY DEF IInv, TypeOK
<1>2. MainInv'
  BY DEF IInv, MainInv, BadThreshold
<1>3. /\ inflight = {} /\ handling = Nil
      /\ \A i \in 1 .. Len(messageQueue) : FALSE
      /\ \A n \in Ids : receivedShares[n] = {}
  BY DEF IInv, MessageInv, RightlySent, HasDealt, TypeOK
<1>4. MessageInv' /\ OnceInv'
  BY <1>3 DEF MessageInv, OnceInv
<1>5. BarrierInv'
  BY DEF IInv, BarrierInv, AllArrived
<1>6. FinishedInv' /\ NoSendOnClosed'
  BY DEF IInv, FinishedInv, NoSendOnClosed
<1> QED
  BY <1>1, <1>2, <1>4, <1>5, <1>6 DEF IInv

LEMMA ShareSecretIInv ==
  ASSUME IInv, NEW n \in todo, ShareSecret(n)
  PROVE  IInv'
<1> USE DEF ShareSecret, SendMessages
<1>1. n \in Ids /\ n \in nodes /\ ~HasDealt(n)
  BY DEF IInv, TypeOK, HasDealt
<1>3. HasDealt(n)'
  BY <1>1 DEF HasDealt
<1>4. \A m \in SharesOf("share", n, 1) :
        m \in ShareMessages /\ m.From = n /\ m.To \in Parties \cap nodes
  <2> SUFFICES ASSUME NEW i \in Parties \cap nodes
               PROVE  [Type |-> "share", From |-> n, To |-> i, Payload |-> 1]
                        \in ShareMessages
    BY DEF SharesOf
  <2>1. i \in Ids
    BY DEF IInv, TypeOK
  <2> QED
    BY <1>1, <2>1 DEF ShareMessages, Message
<1>5. TypeOK'
  <2>1. inflight' \subseteq ShareMessages
    BY <1>4 DEF IInv, TypeOK
  <2>2. computing = Nil
    BY DEF IInv, MainInv
  <2>3. share' \in [Ids -> BOOLEAN]
    <3>1. share \in [Ids -> BOOLEAN]
      BY DEF IInv, TypeOK
    <3>2. (NumParties > n) \in BOOLEAN
      BY <1>1, IdsAssumption, SizeAssumption
    <3> QED
      BY <3>1, <3>2, Zenon
  <2> QED
    BY <2>1, <2>2, <2>3 DEF IInv, TypeOK
<1>6. MainInv'
  BY DEF IInv, MainInv, BadThreshold
<1>7. MessageInv'
  <2>1. \A m \in inflight' : RightlySent(m)'
    BY <1>3, <1>4 DEF IInv, MessageInv, RightlySent, HasDealt
  <2>2. ASSUME NEW i \in 1 .. Len(messageQueue)
        PROVE  RightlySent(messageQueue[i])'
    <3>1. RightlySent(messageQueue[i])
      BY DEF IInv, MessageInv
    <3> QED
      BY <3>1 DEF RightlySent, HasDealt
  <2>3. (handling # Nil => RightlySent(handling))'
    BY DEF IInv, MessageInv, RightlySent, HasDealt
  <2>4. \A i \in Ids : \A j \in receivedShares[i] : HasDealt(j)' /\ i \in Parties
    BY DEF IInv, MessageInv, HasDealt
  <2> QED
    BY <2>1, <2>2, <2>3, <2>4 DEF MessageInv
<1>8. OnceInv'
  <2> SUFFICES ASSUME NEW m \in SharesOf("share", n, 1)
               PROVE  /\ m.From \notin receivedShares[m.To]
                      /\ handling # Nil => m # handling
                      /\ \A i \in 1 .. Len(messageQueue) : m # messageQueue[i]
    BY DEF IInv, OnceInv
  <2>1. m.From = n /\ m.To \in Ids
    BY <1>4 DEF IInv, TypeOK
  <2>2. m.From \notin receivedShares[m.To]
    BY <1>1, <2>1 DEF IInv, MessageInv
  <2>3. handling # Nil => m # handling
    BY <1>1, <2>1 DEF IInv, MessageInv, RightlySent
  <2>4. \A i \in 1 .. Len(messageQueue) : m # messageQueue[i]
    BY <1>1, <2>1 DEF IInv, MessageInv, RightlySent
  <2> QED
    BY <2>2, <2>3, <2>4
<1>9. BarrierInv'
  BY DEF IInv, BarrierInv, AllArrived
<1>10. FinishedInv' /\ NoSendOnClosed'
  BY DEF IInv, FinishedInv, NoSendOnClosed
<1> QED
  BY <1>5, <1>6, <1>7, <1>8, <1>9, <1>10 DEF IInv

LEMMA ShareFailsIInv == IInv /\ ShareFails => IInv'
<1> SUFFICES ASSUME IInv, ShareFails PROVE IInv'
  OBVIOUS
<1> USE DEF ShareFails, netVars, nodeVars
<1>1. TypeOK' /\ MainInv'
  BY DEF IInv, TypeOK, MainInv
<1>2. MessageInv' /\ OnceInv'
  BY MessagesStay DEF HasDealt
<1>3. BarrierInv' /\ FinishedInv' /\ NoSendOnClosed'
  BY DEF IInv, BarrierInv, AllArrived, FinishedInv, NoSendOnClosed
<1> QED
  BY <1>1, <1>2, <1>3 DEF IInv

LEMMA WakeFromSleepIInv == IInv /\ WakeFromSleep => IInv'
<1> SUFFICES ASSUME IInv, WakeFromSleep PROVE IInv'
  OBVIOUS
<1> USE DEF WakeFromSleep, netVars, nodeVars
<1>1. TypeOK' /\ MainInv'
  BY DEF IInv, TypeOK, MainInv, BadThreshold
<1>2. MessageInv' /\ OnceInv'
  BY MessagesStay DEF HasDealt
<1>3. BarrierInv' /\ FinishedInv' /\ NoSendOnClosed'
  BY DEF IInv, BarrierInv, AllArrived, FinishedInv, NoSendOnClosed
<1> QED
  BY <1>1, <1>2, <1>3 DEF IInv

LEMMA EnterComputeIInv ==
  ASSUME IInv, NEW n \in todo, EnterCompute(n)
  PROVE  IInv'
<1> USE DEF EnterCompute, netVars, nodeVars
<1>1. TypeOK' /\ MainInv'
  BY DEF IInv, TypeOK, MainInv, BadThreshold
<1>2. MessageInv' /\ OnceInv'
  BY MessagesStay DEF HasDealt
<1>3. BarrierInv' /\ FinishedInv' /\ NoSendOnClosed'
  BY DEF IInv, BarrierInv, AllArrived, FinishedInv, NoSendOnClosed
<1> QED
  BY <1>1, <1>2, <1>3 DEF IInv

LEMMA ComputeIInv ==
  ASSUME IInv, NEW n \in todo, Compute(n)
  PROVE  IInv'
<1> USE DEF Compute
<1> DEFINE value == AddedShares(n)
<1>1. n \in nodes /\ n \in Ids
  BY DEF IInv, TypeOK
<1>2. value \in [Ids -> Nat] /\ value # Nil
  BY NilIsNoSum DEF AddedShares
<1>3. ready[n] = 1 /\ AllArrived(n)
  <2>1. ready[n] \in {0, 1}
    BY <1>1 DEF IInv, TypeOK
  <2>2. ready[n] = 1
    BY <2>1
  <2> QED
    BY <1>1, <2>2 DEF IInv, BarrierInv
<1>4. TypeOK'
  <2>1. ready' = [ready EXCEPT ![n] = 0]
    BY <1>3
  <2>2. ready' \in [Ids -> {0, 1}]
    BY <1>1, <2>1 DEF IInv, TypeOK
  <2>3. result' \in [Ids -> [Ids -> Nat] \cup {Nil}]
    BY <1>1, <1>2 DEF IInv, TypeOK
  <2> QED
    BY <2>2, <2>3 DEF IInv, TypeOK, netVars
<1>5. MainInv'
  BY DEF IInv, MainInv, BadThreshold, netVars
<1>6. MessageInv' /\ OnceInv'
  BY MessagesStay DEF HasDealt, netVars
<1>7. BarrierInv'
  <2>1. \A i \in Ids : ready'[i] = 1 => readyOnce'[i]
    BY <1>3 DEF IInv, BarrierInv, TypeOK
  <2>2. \A i \in Ids : readyOnce'[i] \/ result'[i] # Nil => AllArrived(i)'
    BY <1>3 DEF IInv, BarrierInv, TypeOK, AllArrived
  <2>3. nodes = Parties => value = Once(nodes)
    <3> SUFFICES ASSUME nodes = Parties PROVE value = Once(nodes)
      OBVIOUS
    <3>1. receivedShares[n] = nodes
      BY <1>1, <1>3, AllOfThem DEF IInv
    <3> QED
      BY <1>1, <3>1 DEF AddedShares, Once
  <2>4. \A i \in nodes' : result'[i] # Nil /\ nodes' = Parties => result'[i] = Once(nodes')
    BY <2>3 DEF IInv, BarrierInv, TypeOK, netVars
  <2>5. \A i \in nodes' \ todo' : result'[i] # Nil
    BY <1>1, <1>2 DEF IInv, BarrierInv, TypeOK, netVars
  <2> QED
    BY <2>1, <2>2, <2>4, <2>5 DEF BarrierInv
<1>8. FinishedInv' /\ NoSendOnClosed'
  BY DEF IInv, FinishedInv, NoSendOnClosed, netVars
<1> QED
  BY <1>4, <1>5, <1>6, <1>7, <1>8 DEF IInv

LEMMA ReconstructIInv ==
  ASSUME IInv, NEW S \in SUBSET nodes, Reconstruct(S)
  PROVE  IInv' /\ nodes # {} /\ sum' = Once(nodes)
<1> USE DEF Reconstruct, netVars, nodeVars
<1>1. S # {}
  <2> SUFFICES ASSUME S = {} PROVE FALSE
    OBVIOUS
  <2>1. Cardinality(S) = 0
    BY FS_EmptySet
  <2>2. threshold = 0 /\ threshold >= 2
    BY <2>1
  <2> QED
    BY <2>2
<1>2. nodes # {} /\ nodes \subseteq Ids
  BY <1>1 DEF IInv, TypeOK
<1>3. \A n \in nodes : result[n] # Nil
  BY DEF IInv, BarrierInv
<1>4. nodes = Parties
  BY <1>2, <1>3, EverybodyDone
<1>5. \A n \in nodes : result[n] = Once(nodes)
  BY <1>3, <1>4 DEF IInv, BarrierInv
<1>6. sum' = Once(nodes) /\ Once(nodes) \in [Ids -> Nat]
  <2>1. (CHOOSE n \in S : TRUE) \in nodes
    BY <1>1
  <2>2. \A m, n \in S : result[m] = result[n]
    BY <1>5
  <2> QED
    BY <1>5, <2>1, <2>2 DEF Interpolated, Once
<1>7. TypeOK' /\ MainInv'
  BY <1>2, <1>6 DEF IInv, TypeOK, MainInv, BadThreshold
<1>8. MessageInv' /\ OnceInv'
  BY MessagesStay DEF HasDealt
<1>9. BarrierInv' /\ FinishedInv' /\ NoSendOnClosed'
  BY <1>3, <1>4, <1>6
     DEF IInv, BarrierInv, AllArrived, FinishedInv, NoSendOnClosed
<1> QED
  BY <1>2, <1>6, <1>7, <1>8, <1>9 DEF IInv

LEMMA ReconstructFailsIInv == IInv /\ ReconstructFails => IInv'
<1> SUFFICES ASSUME IInv, ReconstructFails PROVE IInv'
  OBVIOUS
<1> USE DEF ReconstructFails, netVars, nodeVars
<1>1. TypeOK' /\ MainInv'
  BY DEF IInv, TypeOK, MainInv
<1>2. MessageInv' /\ OnceInv'
  BY MessagesStay DEF HasDealt
<1>3. BarrierInv' /\ FinishedInv' /\ NoSendOnClosed'
  BY DEF IInv, BarrierInv, AllArrived, FinishedInv, NoSendOnClosed
<1> QED
  BY <1>1, <1>2, <1>3 DEF IInv

LEMMA StopNetworkIInv == IInv /\ StopNetwork => IInv'
<1> SUFFICES ASSUME IInv, StopNetwork PROVE IInv'
  OBVIOUS
<1> USE DEF StopNetwork, Stop, nodeVars
<1>1. TypeOK' /\ MainInv'
  BY DEF IInv, TypeOK, MainInv, BadThreshold
<1>2. MessageInv' /\ OnceInv'
  BY MessagesStay DEF HasDealt
<1>3. BarrierInv' /\ FinishedInv' /\ NoSendOnClosed'
  BY DEF IInv, BarrierInv, AllArrived, FinishedInv, NoSendOnClosed
<1> QED
  BY <1>1, <1>2, <1>3 DEF IInv
-----------------------------------------------------------------------------
LEMMA TakeMessageIInv == IInv /\ TakeMessage /\ UNCHANGED <<mainVars, nodeVars>> => IInv'
<1> SUFFICES ASSUME IInv, TakeMessage, UNCHANGED <<mainVars, nodeVars>> PROVE IInv'
  OBVIOUS
<1> USE DEF TakeMessage, mainVars, nodeVars
<1>1. /\ messageQueue \in Seq(ShareMessages)
      /\ Len(messageQueue) > 0
      /\ handling' = messageQueue[1]
  <2>1. messageQueue \in Seq(ShareMessages) /\ messageQueue # <<>>
    BY DEF IInv, TypeOK
  <2>2. Len(messageQueue) \in Nat \ {0}
    BY <2>1, EmptySeq
  <2> QED
    BY <2>1, <2>2
<1>2. handling' \in ShareMessages /\ messageQueue' \in Seq(ShareMessages)
  BY <1>1, HeadTailProperties
<1>3. TypeOK'
  BY <1>2 DEF IInv, TypeOK
<1>4. MainInv' /\ BarrierInv' /\ FinishedInv' /\ NoSendOnClosed'
  BY DEF IInv, MainInv, BadThreshold, BarrierInv, AllArrived, FinishedInv,
         NoSendOnClosed
<1>5. \A i \in 1 .. Len(messageQueue') :
        i + 1 \in 1 .. Len(messageQueue) /\ messageQueue'[i] = messageQueue[i + 1]
  BY <1>1
<1>6. \A m : RightlySent(m) => RightlySent(m)'
  BY DEF RightlySent, HasDealt
<1>7. MessageInv'
  <2>1. \A m \in inflight' : RightlySent(m)'
    BY <1>6 DEF IInv, MessageInv
  <2>2. ASSUME NEW i \in 1 .. Len(messageQueue')
        PROVE  RightlySent(messageQueue[i])'
    <3>1. RightlySent(messageQueue[i + 1]) /\ messageQueue'[i] = messageQueue[i + 1]
      BY <1>5 DEF IInv, MessageInv
    <3> QED
      BY <3>1 DEF RightlySent, HasDealt
  <2>3. RightlySent(handling)'
    <3>1. RightlySent(messageQueue[1])
      BY <1>1 DEF IInv, MessageInv
    <3> QED
      BY <1>1, <3>1 DEF RightlySent, HasDealt
  <2>4. \A n \in Ids : \A j \in receivedShares'[n] : HasDealt(j)' /\ n \in Parties
    BY DEF IInv, MessageInv, HasDealt
  <2> QED
    BY <2>1, <2>2, <2>3, <2>4 DEF MessageInv
<1>8. OnceInv'
  <2> SUFFICES ASSUME NEW m \in inflight
               PROVE  /\ m.From \notin receivedShares[m.To]
                      /\ m # handling'
                      /\ \A i \in 1 .. Len(messageQueue') : m # messageQueue'[i]
    BY DEF OnceInv
  <2> QED
    BY <1>1, <1>5 DEF IInv, OnceInv
<1> QED
  BY <1>3, <1>4, <1>7, <1>8 DEF IInv

LEMMA EnqueueIInv ==
  ASSUME IInv, NEW m \in inflight, Enqueue(m), UNCHANGED <<mainVars, nodeVars>>
  PROVE  IInv'
<1> USE DEF Enqueue, mainVars, nodeVars
<1>1. messageQueue \in Seq(ShareMessages) /\ m \in ShareMessages
  BY DEF IInv, TypeOK
<1>2. TypeOK'
  <2>1. messageQueue' \in Seq(ShareMessages)
    BY <1>1, AppendProperties
  <2> QED
    BY <2>1 DEF IInv, TypeOK
<1>3. MainInv' /\ BarrierInv' /\ FinishedInv' /\ NoSendOnClosed'
  BY DEF IInv, MainInv, BadThreshold, BarrierInv, AllArrived, FinishedInv,
         NoSendOnClosed
<1>4. \A i \in 1 .. Len(messageQueue') :
        \/ i \in 1 .. Len(messageQueue) /\ messageQueue'[i] = messageQueue[i]
        \/ messageQueue'[i] = m
  BY <1>1
<1>5. RightlySent(m)
  BY DEF IInv, MessageInv
<1>6. MessageInv'
  <2>1. \A k \in inflight' : RightlySent(k)'
    BY DEF IInv, MessageInv, RightlySent, HasDealt
  <2>2. ASSUME NEW i \in 1 .. Len(messageQueue')
        PROVE  RightlySent(messageQueue[i])'
    <3>1. PICK k : RightlySent(k) /\ messageQueue'[i] = k
      BY <1>4, <1>5 DEF IInv, MessageInv
    <3> QED
      BY <3>1 DEF RightlySent, HasDealt
  <2>3. (handling # Nil => RightlySent(handling))'
    BY DEF IInv, MessageInv, RightlySent, HasDealt
  <2>4. \A n \in Ids : \A j \in receivedShares'[n] : HasDealt(j)' /\ n \in Parties
    BY DEF IInv, MessageInv, HasDealt
  <2> QED
    BY <2>1, <2>2, <2>3, <2>4 DEF MessageInv
<1>7. OnceInv'
  BY <1>4 DEF IInv, OnceInv
<1> QED
  BY <1>2, <1>3, <1>6, <1>7 DEF IInv

(* No sender finds the channel closed: what it holds has not been received, *)
(* and main stops the network only after everything has been.               *)
LEMMA NobodySendsOnClosed ==
  ASSUME IInv, NEW m \in inflight
  PROVE  ~SendOnClosed(m)
<1> SUFFICES ASSUME closed PROVE FALSE
  BY DEF SendOnClosed
<1>1. pc = "stopped"
  BY DEF IInv, MainInv
<1>2. \A n \in nodes : result[n] # Nil
  BY <1>1 DEF IInv, FinishedInv
<1>3. nodes # {}
  BY DEF IInv, MessageInv, RightlySent
<1> QED
  BY <1>2, <1>3, EverybodyDone

LEMMA ReceiveShareIInv == IInv /\ ReceiveShare => IInv'
<1> SUFFICES ASSUME IInv, ReceiveShare PROVE IInv'
  OBVIOUS
<1> DEFINE n == handling.To
           j == handling.From
           shares == receivedShares[n] \cup {j}
           signal == Cardinality(shares) >= NumParties /\ ~readyOnce[n]
<1>1. handling \in ShareMessages /\ RightlySent(handling) /\ handling # Nil
  BY DEF ReceiveShare, IInv, TypeOK, MessageInv
<1>2. n \in Ids /\ j \in Ids /\ n \in Parties /\ HasDealt(j)
  BY <1>1 DEF ShareMessages, Message, RightlySent
<1>3. /\ receivedShares' = [receivedShares EXCEPT ![n] = shares]
      /\ readyOnce' = [readyOnce EXCEPT ![n] = readyOnce[n] \/ signal]
      /\ ready' = [ready EXCEPT ![n] = IF signal THEN ready[n] + 1 ELSE ready[n]]
  BY DEF ReceiveShare
<1>4. /\ UNCHANGED <<threshold, nodes, inflight, messageQueue, closed, panic>>
      /\ UNCHANGED <<pc, todo, computing, sum, share, result>>
      /\ handling' = Nil
  BY DEF ReceiveShare, Delivered, mainVars
<1> HIDE DEF n, j, shares, signal
<1>5. /\ receivedShares \in [Ids -> SUBSET Ids] /\ ready \in [Ids -> {0, 1}]
      /\ readyOnce \in [Ids -> BOOLEAN] /\ signal \in BOOLEAN
      /\ shares \in SUBSET Ids /\ receivedShares'[n] = shares
      /\ \A i \in Ids \ {n} : receivedShares'[i] = receivedShares[i]
  BY <1>2, <1>3 DEF IInv, TypeOK, shares, signal
<1>6. signal => ready[n] = 0 /\ Cardinality(shares) >= NumParties
  BY <1>2, <1>5 DEF signal, IInv, BarrierInv
<1>7. ready' = [ready EXCEPT ![n] = IF signal THEN 1 ELSE ready[n]]
  <2>1. (IF signal THEN ready[n] + 1 ELSE ready[n]) = IF signal THEN 1 ELSE ready[n]
    BY <1>6
  <2> QED
    BY <1>3, <2>1
<1>8. TypeOK'
  <2>1. ready' \in [Ids -> {0, 1}]
    BY <1>2, <1>5, <1>7
  <2>2. readyOnce' \in [Ids -> BOOLEAN]
    BY <1>2, <1>3, <1>5, Zenon
  <2>3. receivedShares' \in [Ids -> SUBSET Ids]
    BY <1>2, <1>3, <1>5
  <2> QED
    BY <1>4, <2>1, <2>2, <2>3 DEF IInv, TypeOK
<1>9. MainInv' /\ FinishedInv' /\ NoSendOnClosed'
  BY <1>4 DEF IInv, MainInv, BadThreshold, FinishedInv, NoSendOnClosed
<1>10. MessageInv'
  <2>1. \A m \in inflight' : RightlySent(m)'
    BY <1>4 DEF IInv, MessageInv, RightlySent, HasDealt
  <2>2. ASSUME NEW i \in 1 .. Len(messageQueue)
        PROVE  RightlySent(messageQueue[i])'
    <3>1. RightlySent(messageQueue[i])
      BY DEF IInv, MessageInv
    <3> QED
      BY <1>4, <3>1 DEF RightlySent, HasDealt
  <2>3. ASSUME NEW i \in Ids, NEW k \in receivedShares'[i]
        PROVE  HasDealt(k)' /\ i \in Parties
    <3>1. HasDealt(k) /\ i \in Parties
      <4>1. CASE i = n /\ k = j
        BY <4>1, <1>2
      <4>2. CASE ~(i = n /\ k = j)
        <5>1. k \in receivedShares[i]
          BY <4>2, <1>5 DEF shares
        <5> QED
          BY <5>1 DEF IInv, MessageInv
      <4> QED
        BY <4>1, <4>2
    <3> QED
      BY <1>4, <3>1 DEF HasDealt
  <2> QED
    BY <1>4, <2>1, <2>2, <2>3 DEF MessageInv
<1>11. OnceInv'
  <2> SUFFICES ASSUME NEW m \in inflight
               PROVE  m.From \notin receivedShares'[m.To]
    BY <1>4 DEF IInv, OnceInv
  <2>1. m \in ShareMessages /\ m # handling /\ m.From \notin receivedShares[m.To]
    BY <1>1 DEF IInv, OnceInv, TypeOK
  <2>2. ~(m.From = j /\ m.To = n)
    BY <1>1, <2>1 DEF j, n, ShareMessages, Message
  <2>3. m.To \in Ids
    BY <2>1 DEF ShareMessages, Message
  <2> QED
    BY <1>5, <2>1, <2>2, <2>3 DEF shares
<1>12. BarrierInv'
  <2>1. \A i \in Ids : ready'[i] = 1 => readyOnce'[i]
    <3> SUFFICES ASSUME NEW i \in Ids, ready'[i] = 1 PROVE readyOnce'[i]
      OBVIOUS
    <3>1. CASE i # n
      BY <3>1, <1>2, <1>3, <1>5 DEF IInv, BarrierInv
    <3>2. CASE i = n /\ signal
      BY <3>2, <1>2, <1>3, <1>5, Zenon
    <3>3. CASE i = n /\ ~signal
      <4>1. readyOnce[n]
        BY <3>3, <1>2, <1>5, <1>7 DEF IInv, BarrierInv
      <4> QED
        BY <3>3, <4>1, <1>2, <1>3, <1>5, Zenon
    <3> QED
      BY <3>1, <3>2, <3>3
  <2>2. ASSUME NEW i \in Ids, readyOnce'[i] \/ result'[i] # Nil
        PROVE  AllArrived(i)'
    <3>1. CASE i # n
      <4>1. readyOnce'[i] = readyOnce[i] /\ result'[i] = result[i]
        BY <3>1, <1>3, <1>4, <1>5
      <4> QED
        BY <4>1, <2>2, <3>1, <1>5 DEF IInv, BarrierInv, AllArrived
    <3>2. CASE i = n /\ signal
      BY <3>2, <1>5, <1>6 DEF AllArrived
    <3>3. CASE i = n /\ ~signal
      <4>1. readyOnce[n] \/ result[n] # Nil
        BY <3>3, <2>2, <1>2, <1>3, <1>4, <1>5, Zenon
      <4>2. Cardinality(receivedShares[n]) >= NumParties
        BY <4>1, <1>2 DEF IInv, BarrierInv, AllArrived
      <4>3. Cardinality(shares) >= NumParties
        BY <4>2, <1>2, <1>5, MoreShares DEF shares
      <4> QED
        BY <3>3, <4>3, <1>5 DEF AllArrived
    <3> QED
      BY <3>1, <3>2, <3>3
  <2>3. /\ \A i \in nodes : result[i] # Nil /\ nodes = Parties => result[i] = Once(nodes)
        /\ pc = "compute" => \A i \in nodes \ todo : result[i] # Nil
    BY DEF IInv, BarrierInv
  <2> QED
    BY <1>4, <2>1, <2>2, <2>3 DEF BarrierInv
<1> QED
  BY <1>8, <1>9, <1>10, <1>11, <1>12 DEF IInv
-----------------------------------------------------------------------------
(* Every step of the demo preserves the invariant.                          *)
LEMMA NextIInv == IInv /\ [Next]_vars => IInv'
<1> SUFFICES ASSUME IInv, [Next]_vars PROVE IInv'
  OBVIOUS
<1>1. CASE Main
  BY <1>1, JoinIInv, StartSharingIInv, ShareSecretIInv, ShareFailsIInv,
     WakeFromSleepIInv, EnterComputeIInv, ComputeIInv, ReconstructIInv,
     ReconstructFailsIInv, StopNetworkIInv
     DEF Main
<1>2. CASE Handler
  BY <1>2, TakeMessageIInv, ReceiveShareIInv DEF Handler
<1>3. CASE Senders
  BY <1>3, EnqueueIInv, NobodySendsOnClosed DEF Senders, Sender
<1>4. CASE UNCHANGED vars
  <2>1. TypeOK' /\ MainInv' /\ OnceInv'
    BY <1>4 DEF IInv, TypeOK, MainInv, BadThreshold, OnceInv,
                vars, netVars, mainVars, nodeVars
  <2>2. MessageInv'
    BY <1>4, MessagesStay DEF HasDealt, vars, netVars, mainVars, nodeVars
  <2>3. BarrierInv' /\ FinishedInv' /\ NoSendOnClosed'
    BY <1>4 DEF IInv, BarrierInv, AllArrived, FinishedInv, NoSendOnClosed,
                vars, netVars, mainVars, nodeVars
  <2> QED
    BY <2>1, <2>2, <2>3 DEF IInv
<1> QED
  BY <1>1, <1>2, <1>3, <1>4 DEF Next

(* The inductive invariant holds in every reachable state.                  *)
THEOREM InductiveInvariant == Spec => []IInv
<1> QED
  BY InitIInv, NextIInv, PTL DEF Spec

(* Every variable keeps its type (threshold, nodes, the network, the nodes' *)
(* fields and main's locals), for any network.                              *)
THEOREM TypeCorrect == Spec => []TypeOK
<1>1. IInv => TypeOK
  BY DEF IInv
<1> QED
  BY <1>1, InductiveInvariant, PTL

(* The barrier in Compute makes Stop safe: no sender goroutine ever writes  *)
(* to the closed channel, whatever the delays and the network.              *)
THEOREM StopIsSafe == Spec => []NoSendOnClosed
<1>1. IInv => NoSendOnClosed
  BY DEF IInv
<1> QED
  BY <1>1, InductiveInvariant, PTL

(* Only the network that is exactly the parties gets past ComputationPhase. *)
THEOREM OnlyFullNetwork == Spec => []OnlyFullNetworkFinishes
<1>1. IInv => OnlyFullNetworkFinishes
  BY DEF IInv, FinishedInv, OnlyFullNetworkFinishes
<1> QED
  BY <1>1, InductiveInvariant, PTL

(* A result contains the share of every dealer.                             *)
THEOREM ResultsAreComplete == Spec => []ResultsComplete
<1>1. IInv => ResultsComplete
  BY DEF IInv, BarrierInv, ResultsComplete
<1> QED
  BY <1>1, InductiveInvariant, PTL

(* The printed sum is that of all nodes' secrets.                           *)
THEOREM SumIsComplete == Spec => []SumComplete
<1>1. IInv => SumComplete
  BY DEF IInv, FinishedInv, SumComplete
<1> QED
  BY <1>1, InductiveInvariant, PTL

(* A node that has computed its result has received everything before, so   *)
(* no later message changes what it has received.                           *)
THEOREM ResultsAreNeverStale == Spec => ResultNeverStale
<1>1. ASSUME IInv, [Next]_vars, NEW n \in nodes, nodes = Parties, result[n] # Nil
      PROVE  receivedShares'[n] = receivedShares[n]
  <2>1. CASE ~ReceiveShare
    BY <1>1, <2>1
       DEF Next, Main, Join, StartSharing, ShareSecret, ShareFails, WakeFromSleep,
           EnterCompute, Compute, Reconstruct, ReconstructFails, StopNetwork,
           Handler, Senders, vars, nodeVars
  <2>2. CASE ReceiveShare
    <3>1. n \in Ids /\ AllArrived(n)
      BY <1>1 DEF IInv, TypeOK, BarrierInv
    <3>2. receivedShares[n] = nodes
      BY <1>1, <3>1, AllOfThem DEF IInv
    <3>3. handling.From \in nodes
      BY <2>2, <1>1 DEF ReceiveShare, IInv, MessageInv, RightlySent, HasDealt
    <3> QED
      BY <2>2, <3>1, <3>2, <3>3, <1>1 DEF ReceiveShare, IInv, TypeOK
  <2> QED
    BY <2>1, <2>2
<1>2. IInv /\ [Next]_vars =>
        [\A n \in nodes : nodes = Parties /\ result[n] # Nil =>
           receivedShares'[n] = receivedShares[n]]_vars
  BY <1>1
<1> QED
  BY <1>2, InductiveInvariant, PTL DEF ResultNeverStale, Spec
-----------------------------------------------------------------------------
(* The detailed demo implements the abstract one: joining is Enter, a turn  *)
(* of the sharing loop is Contribute, the reconstruction is Publish, and    *)
(* everything else stutters.                                                *)
LEMMA InitRefines == Init => Ideal!Init
BY DEF Init, NetInit, Ideal!Init, Contributed

LEMMA StepRefines == IInv /\ [Next]_vars => [Ideal!Next]_(Ideal!sumVars)
<1> SUFFICES ASSUME IInv, [Next]_vars PROVE [Ideal!Next]_(Ideal!sumVars)
  OBVIOUS
<1> USE DEF Ideal!sumVars
<1>1. CASE Join
  <2>1. PICK id \in Ids : nodes' = nodes \cup {id}
    BY <1>1 DEF Join, AddNode
  <2>2. Contributed = {} /\ Contributed' = {} /\ sum = Nil /\ sum' = Nil
    BY <1>1 DEF Join, AddNode, mainVars, Contributed, IInv, MainInv
  <2>3. Ideal!Enter(id)
    BY <2>1, <2>2 DEF Ideal!Enter
  <2> QED
    BY <2>3 DEF Ideal!Next
<1>2. ASSUME NEW n \in todo, ShareSecret(n)
      PROVE  [Ideal!Next]_(Ideal!sumVars)
  <2>1. n \in nodes /\ todo \subseteq nodes
    BY DEF IInv, TypeOK
  <2>2. Contributed' = Contributed \cup {n} /\ sum = Nil
    BY <1>2, <2>1 DEF ShareSecret, SendMessages, Contributed, IInv, MainInv
  <2>3. Ideal!Contribute(n)
    BY <1>2, <2>2 DEF ShareSecret, SendMessages, Ideal!Contribute
  <2> QED
    BY <2>1, <2>3 DEF Ideal!Next
<1>3. ASSUME NEW S \in SUBSET nodes, Reconstruct(S)
      PROVE  [Ideal!Next]_(Ideal!sumVars)
  <2>1. nodes # {} /\ sum' = Once(nodes) /\ sum = Nil
    BY <1>3, ReconstructIInv DEF Reconstruct, IInv, MainInv
  <2>2. Contributed = nodes /\ Contributed' = nodes /\ nodes' = nodes
    BY <1>3 DEF Reconstruct, Contributed, netVars
  <2>3. Ideal!Publish
    BY <2>1, <2>2 DEF Ideal!Publish, Once
  <2> QED
    BY <2>3 DEF Ideal!Next
<1>4. CASE StartSharing \/ WakeFromSleep \/ ShareFails \/ ReconstructFails \/ StopNetwork
  <2>1. nodes' = nodes /\ sum' = sum /\ threshold' = threshold
    BY <1>4 DEF StartSharing, WakeFromSleep, ShareFails, ReconstructFails,
                StopNetwork, Stop, netVars
  <2>2. CASE StartSharing \/ WakeFromSleep \/ StopNetwork
    BY <2>1, <2>2 DEF StartSharing, WakeFromSleep, StopNetwork, Stop, netVars,
                      Contributed
  <2>3. CASE ShareFails
    BY <2>1, <2>3 DEF ShareFails, Contributed, BadThreshold, IInv, MainInv
  <2>4. CASE ReconstructFails
    BY <2>1, <2>4 DEF ReconstructFails, Contributed, BadThreshold, IInv, MainInv
  <2> QED
    BY <1>4, <2>2, <2>3, <2>4
<1>5. ASSUME NEW n \in todo, EnterCompute(n) \/ Compute(n)
      PROVE  [Ideal!Next]_(Ideal!sumVars)
  BY <1>5 DEF EnterCompute, Compute, netVars, Contributed, BadThreshold
<1>6. CASE Handler \/ Senders \/ UNCHANGED vars
  BY <1>6 DEF Handler, TakeMessage, ReceiveShare, Delivered, Senders, Sender,
              Enqueue, SendOnClosed, vars, netVars, mainVars, Contributed,
              BadThreshold
<1> QED
  BY <1>1, <1>2, <1>3, <1>4, <1>5, <1>6 DEF Next, Main

(* The demo implements SecureSum.                                           *)
THEOREM DemoImplementsSecureSum == Spec => ImplementsSecureSum
<1> QED
  BY InitRefines, StepRefines, InductiveInvariant, PTL
     DEF Spec, ImplementsSecureSum, Ideal!Spec
=============================================================================
