-------------------------- MODULE MCRollingUpdate ---------------------------
(***************************************************************************)
(* Instances of RollingUpdate for TLC.                                     *)
(***************************************************************************)
EXTENDS RollingUpdate, TLC

CONSTANTS npu, accel0, c1

OneNameOf == [d \in Devices |-> npu]
OneNodeOf == [d \in Devices |-> accel0]
OneAlloc == [c \in Claims |-> {npu}]
=============================================================================
