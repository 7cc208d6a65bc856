--------------------------- MODULE SimulatorProofs ---------------------------
(***************************************************************************)
(* What every proof about a protocol on the simulated network needs: sets  *)
(* of identifiers can be counted, and no step of the network loses, makes  *)
(* up or changes a message before the handler has dealt with it.           *)
(***************************************************************************)
EXTENDS Simulator, FiniteSetTheorems, SequenceTheorems, TLAPS

(* Sets of node identifiers are finite, so counting them makes sense.       *)
LEMMA FiniteIds ==
  ASSUME NEW S \in SUBSET Ids
  PROVE  IsFiniteSet(S) /\ Cardinality(S) \in Nat
BY FS_Subset, FS_CardinalityType, IdsAssumption

LEMMA CountBound ==
  ASSUME NEW S \in SUBSET Ids
  PROVE  Cardinality(S) \in 0 .. Cardinality(Ids)
<1>1. Cardinality(S) <= Cardinality(Ids)
  BY FS_Subset, IdsAssumption
<1>2. Cardinality(S) \in Nat /\ Cardinality(Ids) \in Nat
  BY FiniteIds
<1> QED
  BY <1>1, <1>2

(* The parties a broadcast addresses are NumParties many.                   *)
LEMMA CountParties == IsFiniteSet(Parties) /\ Cardinality(Parties) = NumParties
<1>1. NumParties \in Nat /\ NumParties > 0
  BY SizeAssumption
<1>2. IsFiniteSet(0 .. NumParties - 1)
      /\ Cardinality(0 .. NumParties - 1) =
           IF 0 > NumParties - 1 THEN 0 ELSE NumParties - 1 - 0 + 1
  BY <1>1, FS_Interval
<1> QED
  BY <1>1, <1>2 DEF Parties

(* As many dealers as there are parties, none of them beyond numParties:    *)
(* they are the parties.                                                    *)
LEMMA EnoughAreAll ==
  ASSUME NEW S, S \subseteq Parties, Cardinality(S) >= NumParties
  PROVE  S = Parties
<1>1. IsFiniteSet(S) /\ Cardinality(S) <= Cardinality(Parties)
  BY CountParties, FS_Subset
<1>2. Cardinality(S) \in Nat
  BY <1>1, FS_CardinalityType
<1>3. Cardinality(S) = Cardinality(Parties)
  BY <1>1, <1>2, CountParties, SizeAssumption
<1> QED
  BY <1>3, CountParties, FS_Subset
-----------------------------------------------------------------------------
(* The buffer of the channel as a set.                                      *)
LEMMA AppendRange ==
  ASSUME NEW M, NEW s \in Seq(M), NEW m \in M
  PROVE  {Append(s, m)[i] : i \in 1 .. Len(Append(s, m))} =
           {s[i] : i \in 1 .. Len(s)} \cup {m}
<1>1. /\ Len(Append(s, m)) = Len(s) + 1
      /\ \A i \in 1 .. Len(s) : Append(s, m)[i] = s[i]
      /\ Append(s, m)[Len(s) + 1] = m
      /\ Len(s) \in Nat
  BY AppendProperties, LenProperties
<1>2. 1 .. Len(s) + 1 = (1 .. Len(s)) \cup {Len(s) + 1}
  BY <1>1
<1> QED
  BY <1>1, <1>2

LEMMA HeadTailRange ==
  ASSUME NEW M, NEW s \in Seq(M), s # <<>>
  PROVE  {s[i] : i \in 1 .. Len(s)} =
           {Tail(s)[i] : i \in 1 .. Len(Tail(s))} \cup {Head(s)}
<1>1. /\ Len(Tail(s)) = Len(s) - 1
      /\ \A i \in 1 .. Len(Tail(s)) : Tail(s)[i] = s[i + 1]
  BY HeadTailProperties
<1>2. Len(s) \in Nat \ {0} /\ Head(s) = s[1]
  BY EmptySeq
<1>3. \A i \in 1 .. Len(s) : i = 1 \/ (i - 1 \in 1 .. Len(Tail(s)) /\ s[i] = Tail(s)[i - 1])
  BY <1>1, <1>2
<1>4. \A i \in 1 .. Len(Tail(s)) : i + 1 \in 1 .. Len(s) /\ s[i + 1] = Tail(s)[i]
  BY <1>1, <1>2
<1>5. 1 \in 1 .. Len(s)
  BY <1>2
<1> QED
  BY <1>2, <1>3, <1>4, <1>5

(* A message that was sent is of the type it was sent with.                 *)
LEMMA UndeliveredTyped ==
  ASSUME NEW M, inflight \subseteq M, messageQueue \in Seq(M), handling \in M \cup {Nil}
  PROVE  Undelivered \subseteq M
BY ElementOfSeq DEF Undelivered

LEMMA QuiescentIsUndelivered ==
  ASSUME NEW M, messageQueue \in Seq(M)
  PROVE  Quiescent <=> Undelivered = {}
<1>1. messageQueue = <<>> <=> Len(messageQueue) = 0
  BY EmptySeq
<1>2. Len(messageQueue) \in Nat
  BY LenProperties
<1>3. messageQueue = <<>> <=> {messageQueue[i] : i \in 1 .. Len(messageQueue)} = {}
  <2>1. CASE Len(messageQueue) = 0
    BY <1>1, <2>1
  <2>2. CASE Len(messageQueue) # 0
    <3>1. 1 \in 1 .. Len(messageQueue)
      BY <1>2, <2>2
    <3> QED
      BY <1>1, <2>2, <3>1
  <2> QED
    BY <2>1, <2>2
<1>4. handling = Nil <=> {handling} \ {Nil} = {}
  OBVIOUS
<1> QED
  BY <1>3, <1>4 DEF Quiescent, Undelivered

(* SendMessage adds the shares of one loop, a sender goroutine and the      *)
(* handler only move messages, and what is delivered was being handled.     *)
LEMMA SendingUndelivered ==
  ASSUME NEW type, NEW from, NEW dealing, SendMessages(type, from, dealing)
  PROVE  Undelivered' = Undelivered \cup SharesOf(type, from, dealing)
BY DEF SendMessages, Undelivered

LEMMA SenderUndelivered ==
  ASSUME NEW M, inflight \subseteq M, messageQueue \in Seq(M), Sender
  PROVE  /\ inflight' \subseteq M
         /\ messageQueue' \in Seq(M)
         /\ UNCHANGED <<threshold, nodes, handling, closed>>
         /\ Undelivered' \subseteq Undelivered
         /\ ~closed => Undelivered' = Undelivered /\ panic' = panic
<1>1. PICK m \in inflight : Enqueue(m) \/ SendOnClosed(m)
  BY DEF Sender
<1>2. CASE Enqueue(m)
  <2>1. {messageQueue'[i] : i \in 1 .. Len(messageQueue')} =
          {messageQueue[i] : i \in 1 .. Len(messageQueue)} \cup {m}
    BY <1>2, AppendRange DEF Enqueue
  <2>2. Undelivered' = Undelivered
    BY <1>2, <2>1 DEF Enqueue, Undelivered
  <2>3. messageQueue' \in Seq(M)
    BY <1>2, AppendProperties DEF Enqueue
  <2> QED
    BY <1>2, <2>2, <2>3 DEF Enqueue
<1>3. CASE SendOnClosed(m)
  BY <1>3 DEF SendOnClosed, Undelivered
<1> QED
  BY <1>1, <1>2, <1>3

LEMMA TakeUndelivered ==
  ASSUME NEW M, Nil \notin M, messageQueue \in Seq(M), TakeMessage
  PROVE  /\ messageQueue' \in Seq(M)
         /\ handling' \in M
         /\ Undelivered' = Undelivered
         /\ UNCHANGED <<threshold, nodes, inflight, closed, panic>>
<1>1. Head(messageQueue) \in M /\ Tail(messageQueue) \in Seq(M)
  BY HeadTailProperties DEF TakeMessage
<1>2. {messageQueue[i] : i \in 1 .. Len(messageQueue)} =
        {messageQueue'[i] : i \in 1 .. Len(messageQueue')} \cup {handling'}
  BY HeadTailRange DEF TakeMessage
<1>3. Undelivered' = Undelivered
  BY <1>1, <1>2 DEF TakeMessage, Undelivered
<1> QED
  BY <1>1, <1>3 DEF TakeMessage

LEMMA DeliveredUndelivered ==
  ASSUME Delivered, handling # Nil
  PROVE  /\ handling \in Undelivered
         /\ Undelivered' \subseteq Undelivered
         /\ Undelivered \ {handling} \subseteq Undelivered'
BY DEF Delivered, Undelivered

(* A step that leaves the network alone leaves its messages alone.          *)
LEMMA NetworkStays ==
  UNCHANGED <<inflight, messageQueue, handling>> => Undelivered' = Undelivered
BY DEF Undelivered
=============================================================================
