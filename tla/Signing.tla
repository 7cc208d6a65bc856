------------------------------- MODULE Signing -------------------------------
(***************************************************************************)
(* The threshold ECDSA demo of main: DKGPhase, then SignPhase, then Stop.  *)
(* This module adds SignPhase, the Sign methods of Node and                *)
(* internal/signing to DKG.                                                *)
(*                                                                         *)
(* InitSigning creates a node's NodeSigning object lazily, and both the    *)
(* main goroutine (SignGenerateNonceShare) and the handler goroutine       *)
(* (SignReceiveNonceShare) do so after an unlocked test of n.signer, so    *)
(* that one may replace the object the other has just filled.  signers[n]  *)
(* is the sequence of objects made for node n; n.signer is the last.       *)
(***************************************************************************)
EXTENDS DKG

CONSTANTS
  MaxSessions,  \* bound: calls of SignPhase (main makes one)
  KeyFirst      \* assume that the caller runs DKGPhase first, as main does

ASSUME SigningAssumption ==
  /\ MaxSessions \in Nat \ {0}
  /\ MaxRounds >= MaxSessions
  /\ KeyFirst \in BOOLEAN

(* A node's NodeSigning object, a nonce share with the node it came from,   *)
(* and what went into a signature: the nonce shares k was interpolated from *)
(* and the key shares of the nodes.                                         *)
Signer == [privateKeyShare : Sum, NonceShare : 0 .. MaxSessions, ReceivedNonces : Sum]
NonceShare == [node : Ids, sum : Sum]
Signature == [k : Seq(NonceShare), d : PublicKey]

ASSUME NilIsNoSignature == Nil \notin Signature

VARIABLES
  session,      \* how many times SignPhase was called
  signers,      \* the NodeSigning objects of each node, n.signer last
  held,         \* position of the object whose ComputeSharedNonce runs
  receiving,    \* what the handler does next with a sign_nonce message
  nonceShares,  \* nonceShares: what each node computed, in map order
  signature     \* the signature SignPhase returned, or Nil

signVars == <<session, signers, held, receiving, nonceShares, signature>>
vars == <<dkgVars, signVars>>

Init ==
  /\ DKGInit
  /\ session = 0
  /\ signers = [n \in Ids |-> <<>>]
  /\ held = 0
  /\ receiving = "dispatch"
  /\ nonceShares = <<>>
  /\ signature = Nil

(* NewNodeSigning keeps the key share of the moment it is called.           *)
NewNodeSigning(n) ==
  [privateKeyShare |-> privateKeyShare[n], NonceShare |-> 0, ReceivedNonces |-> NoShares]

(* Mutant of InitSigning: the test for the key share is inverted.           *)
InitSigningInverted(n) ==
  signers' = IF hasPrivateKey[n]
               THEN signers
               ELSE [signers EXCEPT ![n] = Append(@, NewNodeSigning(n))]

(* InitSigning does nothing, and says nothing, without a private key share. *)
InitSigning(n) ==
  signers' = IF hasPrivateKey[n]
               THEN [signers EXCEPT ![n] = Append(@, NewNodeSigning(n))]
               ELSE signers

NoSigner(n) == signers[n] = <<>>
-----------------------------------------------------------------------------
(* A DKGPhase has returned a public key.                                    *)
Keyed == \E n \in Ids : sharedPublicKey[n] # Nil

(* main calls SignPhase once, after DKGPhase; a caller may sign again, also *)
(* after an error.                                                          *)
StartSigning ==
  /\ Idle
  /\ KeyFirst => Keyed
  /\ nodes \in Networks
  /\ session < MaxSessions
  /\ session' = session + 1
  /\ pc' = "nonce"
  /\ todo' = nodes
  /\ failure' = "none"
  /\ nonceShares' = <<>>
  /\ signature' = Nil
  /\ UNCHANGED <<netVars, collectVars, dealing, partyVars>>
  /\ UNCHANGED <<signers, held, receiving>>

(* Mutant of FindNoSigner: every session makes a new object.                *)
AlwaysInitSigning(n) ==
  /\ pc = "nonce"
  /\ n \in todo
  /\ current = Nil
  /\ current' = n
  /\ stage' = "init"
  /\ UNCHANGED <<netVars, total, snapshot, mainVars, partyVars, signVars>>

(* SignGenerateNonceShare finds n.signer nil ...                            *)
FindNoSigner(n) ==
  /\ pc = "nonce"
  /\ n \in todo
  /\ current = Nil
  /\ NoSigner(n)
  /\ current' = n
  /\ stage' = "init"
  /\ UNCHANGED <<netVars, total, snapshot, mainVars, partyVars, signVars>>

(* ... and assigns it.                                                      *)
MainInitSigning(n) ==
  /\ current = n
  /\ stage = "init"
  /\ InitSigning(n)
  /\ stage' = "generate"
  /\ UNCHANGED <<netVars, current, total, snapshot, mainVars, partyVars>>
  /\ UNCHANGED <<session, held, receiving, nonceShares, signature>>

AtGenerate(n) ==
  /\ pc = "nonce"
  /\ n \in todo
  /\ \/ current = n /\ stage = "generate"
     \/ current = Nil /\ ~NoSigner(n)

(* Mutant of BadThreshold: only too low a threshold is refused.             *)
TooLowThreshold == threshold < 2

BadThreshold == threshold > NumParties \/ threshold < 2

(* GenerateNonceShare draws a nonce, keeps the own share in the object and  *)
(* the loop of SignPhase sends one share to every party.                    *)
GenerateNonceShare(n) ==
  /\ AtGenerate(n)
  /\ ~NoSigner(n)
  /\ ~BadThreshold
  /\ signers' = [signers EXCEPT ![n][Len(signers[n])].NonceShare =
                   IF NumParties > n THEN session ELSE @]
  /\ SendMessages("sign_nonce", n, session)
  /\ LeaveBody
  /\ todo' = todo \ {n}
  /\ UNCHANGED <<pc, dealing, failure, partyVars>>
  /\ UNCHANGED <<session, held, receiving, nonceShares, signature>>

(* ECSecretSharing.Share refuses the threshold and SignPhase returns the    *)
(* error.                                                                   *)
GenerateFails(n) ==
  /\ AtGenerate(n)
  /\ ~NoSigner(n)
  /\ BadThreshold
  /\ LeaveBody
  /\ pc' = "failed"
  /\ failure' = "bad threshold"
  /\ UNCHANGED <<netVars, todo, dealing, partyVars, signVars>>

Die(reason) ==
  /\ panic' = reason
  /\ UNCHANGED <<threshold, nodes, inflight, messageQueue, handling, closed>>
  /\ UNCHANGED <<collectVars, mainVars, partyVars, signVars>>

GenerateAtNilSigner(n) ==
  /\ AtGenerate(n)
  /\ NoSigner(n)
  /\ Die("nil signer")

WakeFromNonces ==
  /\ pc = "nonce"
  /\ todo = {}
  /\ SleepCovers => Quiescent
  /\ pc' = "collect"
  /\ todo' = nodes
  /\ UNCHANGED <<netVars, collectVars, dealing, failure, partyVars, signVars>>

(* Phase 2, node by node: ComputeSharedNonce of the object n.signer refers  *)
(* to when it is called.                                                    *)
CollectStep(n) ==
  LET signer == signers[n][held]
      own == signer.NonceShare
      received == signer.ReceivedNonces
  IN \/ /\ CountReceived(n, signers[n][Len(signers[n])].ReceivedNonces)
        /\ held' = Len(signers[n])
        /\ UNCHANGED <<mainVars, nonceShares>>
     \/ /\ CountOwn(n, own, received)
        /\ UNCHANGED <<mainVars, held, nonceShares>>
     \/ /\ TooFew(n, own, received)
        /\ held' = 0
        /\ failure' = "missing shares"
        /\ pc' = "failed"
        /\ UNCHANGED <<todo, dealing, nonceShares>>
     \/ /\ AddShares(n)
        /\ held' = 0
        /\ \E s \in SharesAdded(n, own, received) :
             nonceShares' = Append(nonceShares, [node |-> n, sum |-> s])
        /\ todo' = todo \ {n}
        /\ UNCHANGED <<pc, dealing, failure>>

ComputeSharedNonce(n) ==
  /\ pc = "collect"
  /\ n \in todo
  /\ CollectStep(n)
  /\ UNCHANGED <<netVars, partyVars, session, signers, receiving, signature>>

(* Mutant of Reconstruct: the nodes sign with the key share that their      *)
(* NodeSigning keeps, as ComputeSignatureShare does.                        *)
ReconstructWithKept ==
  /\ pc = "collect"
  /\ todo = {}
  /\ threshold \in 2 .. Len(nonceShares)
  /\ signature' = [k |-> SubSeq(nonceShares, 1, threshold),
                   d |-> [n \in nodes |-> signers[n][Len(signers[n])].privateKeyShare]]
  /\ pc' = "signed"
  /\ UNCHANGED <<netVars, collectVars, todo, dealing, failure, partyVars>>
  /\ UNCHANGED <<session, signers, held, receiving, nonceShares>>

(* SignPhase gives the i-th entry of nonceShares the x coordinate i,        *)
(* interpolates k, and adds up the signature shares k^-1 * r * d_i and      *)
(* k^-1 * h.                                                                *)
Reconstruct ==
  /\ pc = "collect"
  /\ todo = {}
  /\ threshold \in 2 .. Len(nonceShares)
  /\ signature' = [k |-> SubSeq(nonceShares, 1, threshold),
                   d |-> [n \in nodes |-> privateKeyShare[n]]]
  /\ pc' = "signed"
  /\ UNCHANGED <<netVars, collectVars, todo, dealing, failure, partyVars>>
  /\ UNCHANGED <<session, signers, held, receiving, nonceShares>>

(* k may be 0, which has no inverse.                                        *)
NonceHasNoInverse ==
  /\ pc = "collect"
  /\ todo = {}
  /\ threshold \in 2 .. Len(nonceShares)
  /\ pc' = "failed"
  /\ failure' = "zero nonce"
  /\ UNCHANGED <<netVars, collectVars, todo, dealing, partyVars, signVars>>

(* Only an empty network gets here with too few shares: Reconstruct refuses *)
(* fewer than two points, the loop before it has no such entry to read.     *)
ReconstructFails ==
  /\ pc = "collect"
  /\ todo = {}
  /\ threshold <= Len(nonceShares)
  /\ threshold < 2
  /\ pc' = "failed"
  /\ failure' = "too few points"
  /\ UNCHANGED <<netVars, collectVars, todo, dealing, partyVars, signVars>>

NonceOutOfRange ==
  /\ pc = "collect"
  /\ todo = {}
  /\ threshold > Len(nonceShares)
  /\ Die("index out of range")

(* main prints the result of the verification and closes the channel; the   *)
(* process lives on until main returns.                                     *)
StopNetwork ==
  /\ pc = "signed"
  /\ Stop
  /\ pc' = "stopped"
  /\ UNCHANGED <<collectVars, todo, dealing, failure, partyVars, signVars>>

Exit ==
  /\ pc = "stopped"
  /\ pc' = "exited"
  /\ UNCHANGED <<netVars, collectVars, todo, dealing, failure, partyVars, signVars>>

SignMain ==
  \/ StartSigning
  \/ \E n \in todo :
       \/ FindNoSigner(n) \/ MainInitSigning(n)
       \/ GenerateNonceShare(n) \/ GenerateFails(n) \/ GenerateAtNilSigner(n)
       \/ ComputeSharedNonce(n)
  \/ WakeFromNonces
  \/ Reconstruct
  \/ NonceHasNoInverse
  \/ ReconstructFails
  \/ NonceOutOfRange
  \/ StopNetwork
  \/ Exit
-----------------------------------------------------------------------------
ReceivingNonce == handling # Nil /\ handling.Type = "sign_nonce"

(* SignReceiveNonceShare finds n.signer nil ...                             *)
HandlerFindsNoSigner ==
  /\ ReceivingNonce
  /\ receiving = "dispatch"
  /\ NoSigner(handling.To)
  /\ receiving' = "init"
  /\ UNCHANGED <<dkgVars, session, signers, held, nonceShares, signature>>

(* ... and assigns it.                                                      *)
HandlerInitSigning ==
  /\ ReceivingNonce
  /\ receiving = "init"
  /\ InitSigning(handling.To)
  /\ receiving' = "receive"
  /\ UNCHANGED <<dkgVars, session, held, nonceShares, signature>>

AtReceive ==
  /\ ReceivingNonce
  /\ receiving = "receive" \/ (receiving = "dispatch" /\ ~NoSigner(handling.To))

(* Mutant of ReceiveNonceShare: a share that is already there is kept.      *)
ReceiveFirstNonceShare ==
  /\ AtReceive
  /\ ~NoSigner(handling.To)
  /\ LET n == handling.To
     IN signers' = [signers EXCEPT
          ![n][Len(signers[n])].ReceivedNonces[handling.From] =
             IF @ = 0 THEN handling.Payload ELSE @]
  /\ receiving' = "dispatch"
  /\ Delivered
  /\ UNCHANGED <<collectVars, mainVars, partyVars>>
  /\ UNCHANGED <<session, held, nonceShares, signature>>

ReceiveNonceShare ==
  /\ AtReceive
  /\ ~NoSigner(handling.To)
  /\ LET n == handling.To
     IN signers' = [signers EXCEPT
          ![n][Len(signers[n])].ReceivedNonces[handling.From] = handling.Payload]
  /\ receiving' = "dispatch"
  /\ Delivered
  /\ UNCHANGED <<collectVars, mainVars, partyVars>>
  /\ UNCHANGED <<session, held, nonceShares, signature>>

(* The node has no key share, and InitSigning did not say so.               *)
ReceiveAtNilSigner ==
  /\ AtReceive
  /\ NoSigner(handling.To)
  /\ Die("nil signer")

(* Main looks up or ranges over the map the handler is about to write to.   *)
NonceMapRace ==
  /\ AtReceive
  /\ pc = "collect"
  /\ current = handling.To
  /\ held = Len(signers[current])
  /\ Die("concurrent map access")

SignHandler ==
  \/ HandlerFindsNoSigner
  \/ HandlerInitSigning
  \/ ReceiveNonceShare
  \/ ReceiveAtNilSigner
  \/ NonceMapRace
-----------------------------------------------------------------------------
Senders ==
  /\ SendersWait => pc \in {"deal", "nonce"} /\ todo = {}
  /\ Sender
  /\ UNCHANGED <<collectVars, mainVars, partyVars, signVars>>

Main == (DKGMain /\ UNCHANGED signVars) \/ SignMain

Handler == (DKGHandler /\ UNCHANGED signVars) \/ SignHandler

Running == Alive /\ pc # "exited"

Next == Running /\ (Main \/ Handler \/ Senders)

(* Between its phases main goes on to the next one, as a fair goroutine; it *)
(* need not join nodes or start a phase.                                    *)
Busy == pc \in {"deal", "derive", "nonce", "collect", "stopped"}

Fairness ==
  /\ WF_vars(Running /\ Main /\ Busy)
  /\ WF_vars(Running /\ Handler)
  /\ WF_vars(Running /\ Senders)

Spec == Init /\ [][Next]_vars /\ Fairness
-----------------------------------------------------------------------------
SignMessages == Message({"dkg_share"}, 1 .. MaxDealings)
                  \cup Message({"sign_nonce"}, 1 .. MaxSessions)

TypeOK ==
  /\ threshold \in Thresholds
  /\ nodes \subseteq Ids
  /\ inflight \subseteq SignMessages
  /\ messageQueue \in Seq(SignMessages)
  /\ handling \in SignMessages \cup {Nil}
  /\ pc \in {"setup", "deal", "derive", "keyed", "nonce", "collect", "signed",
             "stopped", "exited", "failed"}
  /\ failure \in {"none", "missing shares", "bad threshold", "zero nonce",
                 "too few points"}
  /\ CollectTypeOK
  /\ DKGPartyTypeOK
  /\ session \in 0 .. MaxSessions
  /\ signers \in [Ids -> Seq(Signer)]
  /\ \A n \in Ids : Len(signers[n]) <= 2
  /\ held \in 0 .. 2
  /\ receiving \in {"dispatch", "init", "receive"}
  /\ nonceShares \in Seq(NonceShare)
  /\ signature \in Signature \cup {Nil}

(* The signature main verifies is accepted: the key shares that went into s *)
(* are the ones the public key was added up from.  Both r and s use the     *)
(* same interpolated k, whatever it is, so k cancels.  (CombinePublicKeys,  *)
(* SignPhase, VerifyWithCurve.)                                             *)
SignatureVerifies ==
  pc \in {"signed", "stopped"} => signature.d = sharedPublicKey[0]

(* A nonce share that reached a signature holds the share of every other    *)
(* node, however the handler and main race.  (totalNonces, n.signer.)       *)
OnlyOwnNonceMissing ==
  \A i \in 1 .. Len(nonceShares) :
    \A j \in nodes \ {nonceShares[i].node} : nonceShares[i].sum[j] # 0

(* A phase that runs after DKGPhase has returned a key never calls a method *)
(* of a nil n.signer, although InitSigning returns no error when it sets    *)
(* none.                                                                    *)
NoNilSigner == Keyed => panic # "nil signer"

(* No threshold gets past the checks of Share that SignPhase can not use:   *)
(* it never takes the i-th of too few nonce shares, but in an empty network *)
(* (or where GenerateSecretShare had no coefficients to assign to), and     *)
(* makes no signature with a threshold a network of NumParties can not have.*)
(* (GenerateSecretShare checks nothing; nonceShares[i].)                    *)
UsableThreshold ==
  /\ panic = "index out of range" => threshold = 0 \/ nodes = {}
  /\ signature # Nil => threshold \in 2 .. NumParties

(* The inductive invariant, for any timing and any order of the phases.     *)
(* Nothing of a signing session exists before the first one.                *)
FreshInv ==
  /\ pc = "setup" => session = 0
  /\ session = 0 =>
       /\ pc \in {"setup", "deal", "derive", "keyed", "failed"}
       /\ \A n \in Ids : NoSigner(n)
       /\ \A m \in Undelivered : m.Type # "sign_nonce"
       /\ nonceShares = <<>>
       /\ signature = Nil

AllSign == \A n \in nodes : ~NoSigner(n)

(* A nonce share is only on its way while its session generates them, or    *)
(* when every node has got past that.                                       *)
NonceMessageInv ==
  \A m \in Undelivered : m.Type = "sign_nonce" =>
    /\ m.From \in nodes
    /\ m.To \in Parties \cap nodes
    /\ m.Payload \in 1 .. session
    /\ ~BadThreshold
    /\ pc = "nonce" \/ AllSign

MainInits(n) == current = n /\ stage = "init"
HandlerInits(n) == ReceivingNonce /\ receiving = "init" /\ handling.To = n

(* The race on n.signer: who is about to assign it has found it nil.        *)
SignerInv ==
  /\ receiving # "dispatch" => ReceivingNonce
  /\ \A n \in Ids :
       /\ ~NoSigner(n) => hasPrivateKey[n]
       /\ \A i \in 1 .. Len(signers[n]) : Held(signers[n][i].ReceivedNonces) \subseteq nodes
       /\ MainInits(n) \/ HandlerInits(n) => Len(signers[n]) <= 1
       /\ MainInits(n) /\ HandlerInits(n) => NoSigner(n)

GenerateInv ==
  /\ pc = "nonce" => \A n \in nodes \ todo : ~NoSigner(n)
  /\ stage = "generate" => (hasPrivateKey[current] => ~NoSigner(current))
  /\ receiving = "receive" => (hasPrivateKey[handling.To] => ~NoSigner(handling.To))

(* What ComputeSharedNonce has established so far at its object.            *)
CollectInv ==
  pc = "collect" =>
    /\ AllSign
    /\ stage # "idle" => held \in 1 .. Len(signers[current])
    /\ stage = "count" =>
         total <= Cardinality(Held(signers[current][held].ReceivedNonces))
    /\ stage = "sum" =>
         /\ Complete(current, signers[current][held].NonceShare, snapshot)
         /\ Held(snapshot) \subseteq Held(signers[current][held].ReceivedNonces)

NonceShareInv ==
  /\ nonceShares # <<>> => AllSign
  /\ \A i \in 1 .. Len(nonceShares) : nonceShares[i].node \in nodes

SigningInv ==
  /\ TypeOK
  /\ KeyInv
  /\ FreshInv
  /\ NonceMessageInv
  /\ SignerInv
  /\ GenerateInv
  /\ CollectInv
  /\ NonceShareInv
  /\ OnlyOwnNonceMissing
  /\ NoNilSigner

(* SignPhase reads as many nonce shares as there are nodes; what the loop   *)
(* before it has let through is a threshold that Share has accepted, unless *)
(* there was no node to ask.                                                *)
NonceCountInv == pc = "collect" => Len(nonceShares) = Cardinality(nodes \ todo)

ThresholdInv ==
  /\ NonceCountInv
  /\ pc = "nonce" => nonceShares = <<>> /\ (todo # nodes => ~BadThreshold)
  /\ pc = "collect" => nodes = {} \/ ~BadThreshold
  /\ UsableThreshold

(* With the timing the two Sleeps are meant to give, the whole demo runs    *)
(* without an error other than a zero nonce, and no message finds the       *)
(* channel closed.                                                          *)
TimelyDemoSucceeds ==
  panic = "none" /\ failure \in {"none", "zero nonce"}

(* Every nonce share of a signature was dealt in this session: no share of  *)
(* an earlier one, which ReceivedNonces still holds, is used again.         *)
NonceOfOneSession ==
  pc = "signed" => \A x \in DOMAIN signature.k : \A j \in nodes :
                     signature.k[x].sum[j] = session

(* Once the deliveries of a first session are over every node has its one   *)
(* NodeSigning object, so a retried SignPhase can not lose a nonce share to *)
(* the race on n.signer again.  (InitSigning, SignReceiveNonceShare.)       *)
OnlyFirstSessionFails == session > 1 => failure # "missing shares"

(* The one round all the shares of these dealers in these sums come from,   *)
(* Nil when they come from several or a share is missing.                   *)
OneOf(rounds) ==
  IF Cardinality(rounds) = 1 /\ 0 \notin rounds
    THEN CHOOSE r \in rounds : TRUE
    ELSE Nil

Round(dealers, sums) == OneOf({s[j] : s \in sums, j \in dealers})

KeyInForce ==
  IF sharedPublicKey[0] = Nil THEN 0
                              ELSE Round(nodes, {sharedPublicKey[0][n] : n \in nodes})

Answer ==
  IF signature = Nil
    THEN Nil
    ELSE [key |-> Round(nodes, {signature.d[n] : n \in nodes}),
          nonce |-> Round(nodes, {signature.k[x].sum : x \in DOMAIN signature.k})]

Service == INSTANCE SigningService WITH
             key <- KeyInForce, request <- session, answer <- Answer

(* When the Sleeps cover the deliveries, any sequence of calls of DKGPhase  *)
(* and SignPhase that begins with a key, retries and changes of the key     *)
(* included, does what SigningService promises: no share of an earlier      *)
(* dealing or session gets into a key or a signature, and no signature is   *)
(* made with the key share of an earlier key, which n.signer keeps.         *)
(* (ReceivedShares and ReceivedNonces are never cleared; after the first    *)
(* session InitSigning is not called again.)                                *)
ImplementsSigningService == Service!Spec

(* A SignPhase called again, after an error or after a signature, ends in a *)
(* signature (or in a nonce of 0) when the Sleeps cover the deliveries:     *)
(* neither the shares nor the NodeSigning objects that the sessions before  *)
(* it left behind stand in its way.                                         *)
RetrySigns ==
  (pc = "nonce" /\ session > 1) ~> (pc = "signed" \/ failure = "zero nonce")

(* What "Reconstruct k from nonce shares" says: k is interpolated from each *)
(* node's share at that node's own x coordinate.                            *)
NonceIsJoint ==
  pc = "signed" => \A x \in DOMAIN signature.k : signature.k[x].node + 1 = x

(* What "Wait for nonce shares to be delivered" says: once the deliveries   *)
(* are over, no node is short of a nonce share.                             *)
DeliveredNonceIsFound == failure # "missing shares"
=============================================================================
