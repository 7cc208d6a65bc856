-------------------------- MODULE MCDemoArithmetic --------------------------
(* TLC instances of DemoArithmetic: y^2 = x^3 - 3x + 1 modulo 7, a curve    *)
(* with five points, two of them with abscissa 0.                           *)
EXTENDS DemoArithmetic
MCBase == <<4, 2>>
MCHashes == (0 .. Order) \cup {258}    \* one hash of two bytes
MCResponses == 0 .. 3 * Order - 1
MCSecrets == 0 .. Prime + 1
=============================================================================
