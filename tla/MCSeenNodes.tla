---------------------------- MODULE MCSeenNodes -----------------------------
(***************************************************************************)
(* DeviceState with a history of the char devices that have existed, and   *)
(* what the comment of Reconcile says in terms of it.                      *)
(***************************************************************************)
EXTENDS MCDeviceState

VARIABLE everPresent    \* history: the char devices that have existed

SeenSpec ==
    /\ Init /\ everPresent = nodes
    /\ [][Next /\ everPresent' = everPresent \cup nodes']_<<vars, everPresent>>

\* "A char device that has never been seen is reported unknown and is not
\* tainted: udev may still be creating it": a device that Reconcile tracks as
\* tainted because its char device is missing has a char device that has existed.
NeverSeenNotTainted ==
    \A n \in DOMAIN tracked :
        tracked[n].taintValue = "node-missing" => NodeOf[tracked[n].dev] \in everPresent
=============================================================================
