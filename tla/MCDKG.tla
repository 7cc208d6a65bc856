-------------------------------- MODULE MCDKG --------------------------------
(* TLC instances of DKG.                                                    *)
EXTENDS DKG
CONSTANT MaxId    \* AddNode is called with 0..MaxId
MCIds == 0 .. MaxId
MCNetworks == SUBSET MCIds          \* any network
MCParties == {0 .. NumParties - 1}  \* the network main builds
=============================================================================
