--------------------------- MODULE MCDeviceState ----------------------------
(***************************************************************************)
(* Instances of DeviceState for TLC.                                       *)
(***************************************************************************)
EXTENDS DeviceState, TLC

CONSTANTS npu, moved, accel0, accel1, c1, c2

\* The NPU, and the NPU when it has come back at another path.
NPUName == [d \in Devices |-> npu]
NPUNode == [d \in Devices |-> IF d = moved THEN accel1 ELSE accel0]

\* Two claims that share a device.
SharedAlloc == c1 :> {npu} @@ c2 :> {npu}

ClaimSymmetry == Permutations(Claims)
=============================================================================
