----------------------------- MODULE MCDelivery -----------------------------
(* Finite instances of Delivery: two devices a and b.                      *)
EXTENDS Delivery, TLC

CONSTANTS a, b, m1, m2

OneWayFrom == (m1 :> a) @@ (m2 :> a)
OneWayTo   == (m1 :> b) @@ (m2 :> b)
SingleFrom == m1 :> a
SingleTo   == m1 :> b
Gen12 == (a :> 1) @@ (b :> 2)
Gen22 == (a :> 2) @@ (b :> 2)

\* What is explored beyond one envelope: the second one (the two are alike) is
\* sent after the first, while the sender has its first connection and no fault
\* has happened.
Scope == stamp[m2] = 0 \/ (stamp[m1] > 0 /\ faults = 0 /\ ws[a] <= 1)

=============================================================================
