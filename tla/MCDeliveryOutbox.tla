--------------------------- MODULE MCDeliveryOutbox ---------------------------
(* Instances of DeliveryOutbox for TLC. *)
EXTENDS DeliveryOutbox, TLC

CONSTANTS j1, j2, s1, w1, w2

\* Two captures of one scope: the second one tick later than the first, or
\* one cooldown later.
MCWithinCooldown == [j \in Jobs |-> IF j = j1 THEN 1 ELSE 2]
MCAfterCooldown  == [j \in Jobs |-> IF j = j1 THEN 1 ELSE 3]

MCOneScope == [j \in Jobs |-> s1]

Symmetry == Permutations(Workers)
=============================================================================
