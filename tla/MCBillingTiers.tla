--------------------------- MODULE MCBillingTiers ---------------------------
(* Small instances of BillingTiers: two projects with one server each, the *)
(* ports bound to the first at boot.                                       *)
EXTENDS BillingTiers

CONSTANTS m1, m2, s1, s2, t1, t2

OneEach == [s \in Servers |-> IF s = s1 THEN t1 ELSE t2]

AllOnS1 == [m \in Macs |-> s1]
=============================================================================
