--------------------------- MODULE MCFlowPipeline ---------------------------
(* Small instances of FlowPipeline: one VM per flow, one- and two-byte     *)
(* packets.                                                                *)
EXTENDS FlowPipeline

CONSTANTS f1, f2, m1, m2

OwnMac == [k \in Flows |-> IF k = f1 THEN m1 ELSE m2]
=============================================================================
