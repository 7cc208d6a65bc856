------------------------------ MODULE SecureSum ------------------------------
(***************************************************************************)
(* What the sum demo promises, without shares, messages or threads: the    *)
(* parties put in one secret each, and the only thing that ever comes out  *)
(* is the sum of the secrets of all of them.  A sum is represented by how  *)
(* often the secret of each party is in it.                                *)
(***************************************************************************)
EXTENDS Naturals

CONSTANTS Ids, Nil

VARIABLES
  parties,      \* who takes part
  contributed,  \* who has put in a secret
  output        \* the sum, or Nil

sumVars == <<parties, contributed, output>>

Init ==
  /\ parties = {}
  /\ contributed = {}
  /\ output = Nil

Enter(p) ==
  /\ contributed = {}
  /\ output = Nil
  /\ parties' = parties \cup {p}
  /\ UNCHANGED <<contributed, output>>

Contribute(p) ==
  /\ output = Nil
  /\ contributed' = contributed \cup {p}
  /\ UNCHANGED <<parties, output>>

Publish ==
  /\ parties # {}
  /\ contributed = parties
  /\ output = Nil
  /\ output' = [p \in Ids |-> IF p \in parties THEN 1 ELSE 0]
  /\ UNCHANGED <<parties, contributed>>

Next ==
  \/ \E p \in Ids : Enter(p)
  \/ \E p \in parties : Contribute(p)
  \/ Publish

Spec == Init /\ [][Next]_sumVars
=============================================================================
