--------------------------- MODULE MCMacLifecycle ---------------------------
(* Small instances of MacLifecycle.                                        *)
EXTENDS MacLifecycle, TLC

CONSTANTS m1, m2, t1, t2

\* MACs and owners are interchangeable.
Symmetric == Permutations({m1, m2}) \cup Permutations({t1, t2})
=============================================================================
