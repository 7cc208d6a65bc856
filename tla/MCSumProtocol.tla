---------------------------- MODULE MCSumProtocol ----------------------------
(* TLC instances of SumProtocol.                                            *)
EXTENDS SumProtocol
CONSTANT MaxId    \* AddNode is called with 0..MaxId
MCIds == 0 .. MaxId
MCNetworks == {N \in SUBSET MCIds : Cardinality(N) <= NumParties}
=============================================================================
