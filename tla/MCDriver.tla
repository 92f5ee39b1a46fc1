------------------------------ MODULE MCDriver ------------------------------
(***************************************************************************)
(* Instances of Driver for TLC.                                            *)
(***************************************************************************)
EXTENDS Driver, TLC

CONSTANTS npu, accel0, c1, w1, w2

OneNameOf == [d \in Devices |-> npu]
OneNodeOf == [d \in Devices |-> accel0]
OneAlloc == c1 :> {npu}
=============================================================================
