---------------------------- MODULE DeviceHealth ----------------------------
(***************************************************************************)
(* The health the plugin decides for a device, and what it publishes of    *)
(* it: the pure part of cmd/kubeletplugin/reconcile.go and devices.go.     *)
(*                                                                         *)
(* A device, as discovery.Enumerate returns it, is a value of Devices with *)
(* a name and a char-device path; its other attributes (model, gid, share  *)
(* cap, ...) are whatever tells two values of Devices with the same name   *)
(* apart. A device path is never empty: every discoverer sets one.         *)
(* Mock mode, in which every node "exists", is left out.                   *)
(***************************************************************************)
EXTENDS Naturals, Functions

CONSTANTS
    Names,      \* device names (discovery.Device.Name)
    Nodes,      \* char-device paths
    Devices,    \* device values
    NameOf,     \* the name of each device value
    NodeOf      \* the char-device path of each device value

ASSUME DeviceAssumption ==
    /\ NameOf \in [Devices -> Names]
    /\ NodeOf \in [Devices -> Nodes]

\* The set of functions from a subset of S to T: Go maps with keys in S.
PartialFn(S, T) == UNION {[D -> T] : D \in SUBSET S}

\* The same as a predicate, for a T that TLC cannot enumerate.
IsMap(f, S, T) == DOMAIN f \subseteq S /\ f \in [DOMAIN f -> T]

\* Lists of devices with distinct names, such as Enumerate returns, and the
\* lists of prepared devices that are built from them.
DeviceMap == PartialFn(Names, Devices)

\* A map with no entry.
NoEntries == [n \in {} |-> n]

Statuses == {"Healthy", "Unhealthy", "Unknown"}

TaintValues == {"", "node-missing", "not-discovered"}

\* time.Time{}, for which IsZero holds. The clock starts at 1.
ZeroTime == 0

\* trackedDevice. The message is left out: it is determined by the status and
\* the taint value. A tracked device is retained (no longer enumerated) iff
\* its taint value is "not-discovered".
TrackedDevice ==
    [dev: Devices, status: Statuses, nodeSeen: BOOLEAN,
     taintedAt: Nat, taintValue: TaintValues]

\* A device of the ResourceSlice: its attributes and its taint, whose value is
\* "" and whose time is ZeroTime when there is none.
ResourceDevice == [dev: Devices, taint: TaintValues, timeAdded: Nat]

-----------------------------------------------------------------------------

\* Mutant: every reconcile stamps the taint again.
markUnavailable_Restamps(td, value, now) ==
    [td EXCEPT !.status = "Unhealthy", !.taintValue = value, !.taintedAt = now]

\* A tracked device that has just become unusable keeps the time it was first
\* tainted.
markUnavailable(td, value, now) ==
    [td EXCEPT !.status = "Unhealthy",
               !.taintValue = value,
               !.taintedAt = IF @ = ZeroTime THEN now ELSE @]

\* Mutant: the status of a device whose node is not there yet is left at Go's
\* zero value.
assessEnumerated_NoStatus(d, tracked, nodeOK, now) ==
    [dev |-> d,
     status |-> IF nodeOK THEN "Healthy" ELSE "",
     nodeSeen |-> nodeOK,
     taintedAt |-> ZeroTime,
     taintValue |-> ""]

\* Mutant: a node that is not there is missing, whether it was seen or not.
assessEnumerated_Missing(d, tracked, nodeOK, now) ==
    LET td == [dev |-> d, status |-> "Healthy", nodeSeen |-> TRUE,
               taintedAt |-> ZeroTime, taintValue |-> ""]
    IN  IF nodeOK THEN td ELSE markUnavailable(td, "node-missing", now)

\* The tracked device for an enumerated device d; nodeOK says whether its
\* char device exists.
assessEnumerated(d, tracked, nodeOK, now) ==
    LET had == NameOf[d] \in DOMAIN tracked
        td  == [dev |-> d,
                status |-> "Unknown",
                nodeSeen |-> nodeOK \/ (had /\ tracked[NameOf[d]].nodeSeen),
                taintedAt |-> ZeroTime,
                taintValue |-> ""]
    IN  IF nodeOK
        THEN [td EXCEPT !.status = "Healthy"]
        ELSE IF td.nodeSeen
        THEN markUnavailable(
                 [td EXCEPT !.taintedAt = tracked[NameOf[d]].taintedAt],
                 "node-missing", now)
        ELSE td

\* The tracked device for a name that is no longer enumerated but that a
\* prepared claim's snapshot still holds: the previous one, or the snapshot
\* itself when the process has not tracked that name yet.
retain(name, snap, tracked, now) ==
    LET prev == IF name \in DOMAIN tracked
                THEN tracked[name]
                ELSE [dev |-> snap,
                      status |-> "Unknown",
                      nodeSeen |-> FALSE,
                      taintedAt |-> ZeroTime,
                      taintValue |-> ""]
    IN  markUnavailable(prev, "not-discovered", now)

\* Mutant: claims are not looked at.
nextTracked_FoundOnly(found, snapshots, tracked, present, now) ==
    [n \in DOMAIN found |->
        assessEnumerated(found[n], tracked, NodeOf[found[n]] \in present, now)]

\* Mutant: whatever was tracked is kept.
nextTracked_KeepsAll(found, snapshots, tracked, present, now) ==
    [n \in DOMAIN found \cup DOMAIN snapshots \cup DOMAIN tracked |->
        IF n \in DOMAIN found
        THEN assessEnumerated(found[n], tracked, NodeOf[found[n]] \in present, now)
        ELSE retain(n, IF n \in DOMAIN tracked THEN tracked[n].dev ELSE snapshots[n],
                    tracked, now)]

\* The tracked set after a reconcile that found the devices found, with the
\* snapshots of the prepared claims and the char devices present.
nextTracked(found, snapshots, tracked, present, now) ==
    [n \in DOMAIN found \cup DOMAIN snapshots |->
        IF n \in DOMAIN found
        THEN assessEnumerated(found[n], tracked, NodeOf[found[n]] \in present, now)
        ELSE retain(n, snapshots[n], tracked, now)]

-----------------------------------------------------------------------------

\* Mutant: the node is there, so the device is taken to be usable.
prepareError_NodeOnly(td, nodeExists) == ~nodeExists

\* Prepare refuses a device that is unhealthy or whose node is missing.
prepareError(td, nodeExists) == td.status = "Unhealthy" \/ ~nodeExists

toResourceDevice(td) ==
    LET tainted == td.status = "Unhealthy"
    IN  [dev |-> td.dev,
         taint |-> IF tainted THEN td.taintValue ELSE "",
         timeAdded |-> IF tainted THEN td.taintedAt ELSE ZeroTime]

devicesToResources(tracked) == [n \in DOMAIN tracked |-> toResourceDevice(tracked[n])]

\* What the kubelet is told of every tracked device.
healthReport(tracked) ==
    [n \in DOMAIN tracked |-> <<tracked[n].status, tracked[n].taintValue>>]

\* Two tracked sets that the kubelet need not tell apart.
healthEqual(a, b) == healthReport(a) = healthReport(b)

=============================================================================
