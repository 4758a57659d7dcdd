---------------------------- MODULE MCTrieDelta -----------------------------
(* Small instances of TrieDelta: one destination covered by a row of the   *)
(* tenant and by one of the sentinel.                                      *)
EXTENDS TrieDelta, TLC

CONSTANTS own1, own2, shared1, all, d1, d2

\* d1 lies in a subnet of the tenant and in a shared one, d2 in two of the
\* tenant.
TwoDests == (d1 :> {own1, shared1}) @@ (d2 :> {own1, own2})

OneDest == (d1 :> {own1, shared1})
=============================================================================
