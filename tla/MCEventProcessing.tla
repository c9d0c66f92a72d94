--------------------------- MODULE MCEventProcessing ---------------------------
(***************************************************************************)
(* Instances of EventProcessing: one capture or two captures of the same   *)
(* employee a tick apart, with one or two accepted faces.                  *)
(***************************************************************************)
EXTENDS EventProcessing

CONSTANTS c1, c2, s1, s2

OneFace     == c1 :> <<s1>>
TwoFaces    == c1 :> <<s1, s2>>
TwoCaptures == (c1 :> <<s1>>) @@ (c2 :> <<s1>>)
PairThenOne == (c1 :> <<s1, s2>>) @@ (c2 :> <<s1>>)
Alone       == c1 :> 1
Apart       == (c1 :> 1) @@ (c2 :> 2)
=============================================================================
