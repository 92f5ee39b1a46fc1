--------------------------- MODULE RollingUpdate ----------------------------
(***************************************************************************)
(* Two plugin processes on one node while a DaemonSet update with maxSurge *)
(* 1 replaces the old pod: kubeletplugin.RollingUpdate lets both be        *)
(* registered, and they share the checkpoint, claim-devices.json and the   *)
(* CDI directory, while each has a mutex and a tracked set of its own.     *)
(*                                                                         *)
(* The kubelet may call either. The helper (external) serializes Prepare   *)
(* and Unprepare across both by a lock file; Reconcile takes no part in    *)
(* that lock.                                                              *)
(***************************************************************************)
EXTENDS DeviceHealth

CONSTANTS Claims, Alloc, Torn, NoResources, MaxClock

ASSUME SurgeAssumption ==
    /\ Alloc \in PartialFn(Claims, SUBSET Names)
    /\ \A S \in SUBSET Claims : Torn # S
    /\ MaxClock \in Nat \ {0}

VARIABLES
    \* The node and the files, as in DeviceState.
    sysfs, nodes, clock,
    checkpoint, claimDevices, cdiSpecs, durable, outcome,
    \* The process of the old pod, and that of the new one.
    oldPhase, oldRpc, oldRec, oldTracked, oldResources,
    newPhase, newRpc, newRec, newTracked, newResources

shared     == <<sysfs, nodes, clock, checkpoint, claimDevices, cdiSpecs, durable, outcome>>
oldProcess == <<oldPhase, oldRpc, oldRec, oldTracked, oldResources>>
newProcess == <<newPhase, newRpc, newRec, newTracked, newResources>>
surge      == <<shared, oldProcess, newProcess>>

Old ==
    INSTANCE DeviceState
    WITH phase <- oldPhase, rpc <- oldRpc, rec <- oldRec,
         tracked <- oldTracked, driverResources <- oldResources

New ==
    INSTANCE DeviceState
    WITH phase <- newPhase, rpc <- newRpc, rec <- newRec,
         tracked <- newTracked, driverResources <- newResources

SurgeInit == Old!Init /\ New!Init

\* Mutant: no lock file.
Serialized_Never(otherRpc) == TRUE

\* The lock file: a call begins only when the other process has none.
Serialized(otherRpc) == otherRpc = Old!IdleCall

OldBegins(c) ==
    /\ Serialized(newRpc)
    /\ Old!PrepareBegin(c) \/ Old!UnprepareBegin(c)
    /\ UNCHANGED newProcess

NewBegins(c) ==
    /\ Serialized(oldRpc)
    /\ New!PrepareBegin(c) \/ New!UnprepareBegin(c)
    /\ UNCHANGED oldProcess

OldRuns ==
    /\ Old!Start \/ Old!Crash \/ Old!RpcStep \/ Old!ReconcileStep
    /\ UNCHANGED newProcess

NewRuns ==
    /\ New!Start \/ New!Crash \/ New!RpcStep \/ New!ReconcileStep
    /\ UNCHANGED oldProcess

SurgeNext ==
    \/ Old!Environment /\ UNCHANGED newProcess
    \/ OldRuns
    \/ NewRuns
    \/ \E c \in Claims : OldBegins(c) \/ NewBegins(c)

SurgeSpec == SurgeInit /\ [][SurgeNext]_surge

-----------------------------------------------------------------------------
\* Properties.

\* The last call on a claim decides, whichever process served it, whether the
\* claim is in the checkpoint and has a CDI spec: no call of one process undoes
\* the result of a call that the other has answered, and no reconcile touches
\* either file.
CallsAgreeAcrossProcesses ==
    \A c \in Claims :
        /\ outcome[c] = "prepared" => c \in durable \cap DOMAIN cdiSpecs
        /\ outcome[c] = "unprepared" => c \notin durable \cup DOMAIN cdiSpecs

\* A claim that a Prepare has answered keeps its entry in claim-devices.json,
\* from which the next process republishes its devices, until it is
\* unprepared.
PreparedKeepsSnapshot ==
    \A c \in Claims : outcome[c] = "prepared" => c \in DOMAIN claimDevices

=============================================================================
