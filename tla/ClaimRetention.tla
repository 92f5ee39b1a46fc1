--------------------------- MODULE ClaimRetention ---------------------------
(***************************************************************************)
(* What the plugin promises about the devices of prepared claims, without  *)
(* files, steps, sysfs or health: "A device that disappears is kept [...]  *)
(* while any prepared claim still references it. It is dropped only after  *)
(* the last such claim is unprepared." (cmd/kubeletplugin/reconcile.go)    *)
(***************************************************************************)
CONSTANTS
    Names,      \* device names
    Claims,     \* claim UIDs
    Alloc       \* the names an allocated claim holds

VARIABLES
    alive,      \* the plugin serves calls
    held,       \* the prepared claims, which survive a restart
    published   \* the devices the plugin publishes while it is alive

retention == <<alive, held, published>>

\* The devices that a set of claims needs.
Needed(claims) == {n \in Names : \E c \in claims : n \in Alloc[c]}

Init == alive = FALSE /\ held = {} /\ published = {}

\* The plugin comes up, publishing at least what the prepared claims need.
Start ==
    /\ ~alive
    /\ alive' = TRUE
    /\ published' \in SUBSET Names
    /\ Needed(held) \subseteq published'
    /\ UNCHANGED held

Stop ==
    /\ alive
    /\ alive' = FALSE
    /\ published' = {}
    /\ UNCHANGED held

\* A claim can be prepared only on devices that are published.
Hold(c) ==
    /\ alive
    /\ c \in DOMAIN Alloc
    /\ Alloc[c] \subseteq published
    /\ held' = held \cup {c}
    /\ UNCHANGED <<alive, published>>

Release(c) ==
    /\ alive
    /\ held' = held \ {c}
    /\ UNCHANGED <<alive, published>>

\* Devices come and go, except for those that a prepared claim needs.
Refresh ==
    /\ alive
    /\ published' \in SUBSET Names
    /\ Needed(held) \subseteq published'
    /\ UNCHANGED <<alive, held>>

Next ==
    \/ Start
    \/ Stop
    \/ Refresh
    \/ \E c \in Claims : Hold(c) \/ Release(c)

Spec == Init /\ [][Next]_retention

=============================================================================
