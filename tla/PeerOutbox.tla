----------------------------- MODULE PeerOutbox -----------------------------
(***************************************************************************)
(* What the table of change events is for, without saying who works on it. *)
(* A peer has a row, which asks for an interface, and an interface in the  *)
(* kernel.  A row changes only together with a durable event.  While the   *)
(* service is up, the interface of a peer is touched only while an event   *)
(* of that peer is pending, and the last event of a peer goes away only    *)
(* when the interface is the one the row asks for.  While the service is   *)
(* down or recovers, the interfaces may change in any way; it comes up     *)
(* only when every peer is in order or has an event.                       *)
(***************************************************************************)
CONSTANTS
    Peers,    \* peer ids
    Devices   \* states an interface can be in, its absence included

VARIABLES
    target,   \* the interface that the row of each peer asks for
    resting,  \* the peers whose row waits for nobody: active, disabled, or gone
    actual,   \* the interface of each peer
    pending,  \* the peers that have an event
    open      \* whether the service is up

outboxVars == <<target, resting, actual, pending, open>>

InOrder(p) == actual[p] = target[p] /\ p \in resting

Init ==
    /\ target \in [Peers -> Devices]
    /\ resting = Peers
    /\ actual = target
    /\ pending = {}
    /\ open = TRUE

\* Some rows change, each with an event.
RowsChange ==
    /\ pending' \subseteq Peers
    /\ pending \subseteq pending'
    /\ target' \in [Peers -> Devices]
    /\ resting' \subseteq Peers
    /\ \A p \in Peers \ pending' :
         target'[p] = target[p] /\ (p \in resting' <=> p \in resting)

Write ==
    /\ RowsChange
    /\ UNCHANGED <<actual, open>>

Touch(p) ==
    /\ open
    /\ p \in pending
    /\ \E device \in Devices : actual' = [actual EXCEPT ![p] = device]
    /\ UNCHANGED <<target, resting, pending, open>>

Settle(p) ==
    /\ open
    /\ p \in pending
    /\ InOrder(p)
    /\ pending' = pending \ {p}
    /\ UNCHANGED <<target, resting, actual, open>>

\* The service dies, the machine restarts, or recover works.
Closed ==
    /\ open' = FALSE
    /\ actual' \in [Peers -> Devices]
    /\ UNCHANGED <<target, resting, pending>>

Reopen ==
    /\ ~open
    /\ open' = TRUE
    /\ RowsChange
    /\ UNCHANGED actual
    /\ \A p \in Peers \ pending' : InOrder(p)'

Next ==
    \/ Write
    \/ \E p \in Peers : Touch(p) \/ Settle(p)
    \/ Closed
    \/ Reopen

Spec == Init /\ [][Next]_outboxVars
=============================================================================
