--------------------------- MODULE ShareCollection ---------------------------
(***************************************************************************)
(* ComputeSharedPrivateKey (dkg.go) and ComputeSharedNonce (threshold.go)  *)
(* are the same procedure: count the shares received, add one for the own  *)
(* share when it is kept apart, fail when they are too few, then range     *)
(* over the map and finally add the own share.  The map is read four times *)
(* without a lock while the handler goroutine may write to it, so the      *)
(* procedure is three steps here, each reading the map as it then is.      *)
(***************************************************************************)
EXTENDS Simulator

CONSTANT MaxRounds   \* bound: dealings (or signing sessions) per behaviour

Sum == [Ids -> 0 .. MaxRounds]   \* shares by dealer: in which dealing, 0 none
NoShares == [j \in Ids |-> 0]

VARIABLES
  current,   \* the node the main goroutine's loop body works on, or Nil
  stage,     \* what that loop body does next
  total,     \* totalShares / totalNonces
  snapshot   \* the map as it was when the range over it began

collectVars == <<current, stage, total, snapshot>>

CollectInit ==
  /\ current = Nil
  /\ stage = "idle"
  /\ total = 0
  /\ snapshot = NoShares

LeaveBody ==
  /\ current' = Nil
  /\ stage' = "idle"
  /\ total' = 0
  /\ snapshot' = NoShares

Held(received) == {j \in Ids : received[j] # 0}

(* The own share counts (and is added) only when the map has no entry for   *)
(* the node itself.                                                         *)
OwnApart(n, own, received) == own # 0 /\ received[n] = 0

CountReceived(n, received) ==
  /\ current = Nil
  /\ current' = n
  /\ stage' = "count"
  /\ total' = Cardinality(Held(received))
  /\ UNCHANGED snapshot

(* Mutant of Enough: off by one.                                            *)
NearlyEnough(n, own, received) ==
  total + (IF OwnApart(n, own, received) THEN 1 ELSE 0) >= NumParties - 1

Enough(n, own, received) ==
  total + (IF OwnApart(n, own, received) THEN 1 ELSE 0) >= NumParties

CountOwn(n, own, received) ==
  /\ current = n
  /\ stage = "count"
  /\ Enough(n, own, received)
  /\ stage' = "sum"
  /\ snapshot' = received
  /\ UNCHANGED <<current, total>>

TooFew(n, own, received) ==
  /\ current = n
  /\ stage = "count"
  /\ ~Enough(n, own, received)
  /\ LeaveBody

(* A range over a map that is written meanwhile yields, for each key, its   *)
(* value before or after the write; a key that is new may be skipped.       *)
Ranged(received) ==
  {[j \in Ids |-> IF j \in late THEN received[j] ELSE snapshot[j]] :
     late \in SUBSET {j \in Ids : received[j] # snapshot[j]}}

(* Mutant of SharesAdded: the own share is added without looking for it     *)
(* among the received ones.                                                 *)
OwnShareTwice(n, own, received) ==
  {[s EXCEPT ![n] = @ + own] : s \in Ranged(received)}

SharesAdded(n, own, received) ==
  {IF OwnApart(n, own, received) THEN [s EXCEPT ![n] = own] ELSE s :
     s \in Ranged(received)}

(* Enough shares to go on with, counted as a set of dealers: what Enough    *)
(* decides when nothing is written to the map meanwhile.                    *)
Complete(n, own, received) ==
  Cardinality(Held(received) \cup (IF own # 0 THEN {n} ELSE {})) >= NumParties

AddShares(n) ==
  /\ current = n
  /\ stage = "sum"
  /\ LeaveBody

CollectTypeOK ==
  /\ current \in nodes \cup {Nil}
  /\ stage \in {"idle", "commit", "send", "init", "generate", "count", "sum"}
  /\ total \in 0 .. Cardinality(Ids)
  /\ snapshot \in Sum
=============================================================================
