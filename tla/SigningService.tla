--------------------------- MODULE SigningService ---------------------------
(***************************************************************************)
(* What key generation and threshold signing promise together, without     *)
(* nodes, shares, messages or threads: there is one key in force at a      *)
(* time, it is only ever replaced by the key of a later dealing, and a     *)
(* signature is made with the key in force and the nonce of the request it *)
(* answers, so that no nonce is used for two requests.                     *)
(*                                                                         *)
(* Keys and nonces are represented by the number of the dealing and of the *)
(* request they were drawn for.                                            *)
(***************************************************************************)
EXTENDS Naturals

CONSTANT Nil

VARIABLES
  key,       \* the dealing whose key is in force, 0 when there is none
  request,   \* how many signatures were asked for
  answer     \* the signature that answers the latest request, or Nil

serviceVars == <<key, request, answer>>

Init ==
  /\ key = 0
  /\ request = 0
  /\ answer = Nil

(* A signature made with an earlier key stays what it is.                   *)
NewKey ==
  /\ key' \in Nat
  /\ key' > key
  /\ UNCHANGED <<request, answer>>

(* The answer to an earlier request is forgotten.  A request may remain     *)
(* unanswered.                                                              *)
Request ==
  /\ key # 0
  /\ request' = request + 1
  /\ answer' = Nil
  /\ UNCHANGED key

Answer ==
  /\ key # 0
  /\ request # 0
  /\ answer = Nil
  /\ answer' = [key |-> key, nonce |-> request]
  /\ UNCHANGED <<key, request>>

Next == NewKey \/ Request \/ Answer

Spec == Init /\ [][Next]_serviceVars
=============================================================================
