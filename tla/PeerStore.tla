----------------------------- MODULE PeerStore -----------------------------
(***************************************************************************)
(* The PostgreSQL side of the service (src/src/persist.rs): the table      *)
(* `peers` and the outbox `peer_change_events`, which a row trigger fills. *)
(*                                                                         *)
(* A peer is identified to the public by its key, the pair (asn,           *)
(* peer_name), and inside by its peer_id.  What can be configured on a     *)
(* peer (public key, endpoint, link-local addresses, MTU) is one opaque    *)
(* value, its cfg.  The interface name is always wgp<peer_id>, so the id   *)
(* stands for it.  Ports are offsets from 20000.                           *)
(***************************************************************************)
EXTENDS Naturals

CONSTANTS
    Keys,        \* the (asn, peer_name) pairs in play
    TestKeys,    \* those whose asn is LOCAL_ASN: a create only tests
    Cfgs,        \* possible configurations of a peer
    NumPorts,    \* size of the listen port range, 10000 in the code
    Preferred,   \* Preferred[k] is asn % 10000 for the asn of k
    MaxId,       \* bound: how many peer ids the sequence may hand out
    NoRow        \* stands for the absence of a row

Ports == 0 .. NumPorts - 1
PeerIds == 1 .. MaxId

(***************************************************************************)
(* str_to_status reads any other text as PeerStatus::Error.                *)
(***************************************************************************)
Statuses == {"provisioning", "active", "deleting", "disabled", "error"}

Peer == [key : Keys, cfg : Cfgs, port : Ports, status : Statuses]

ASSUME StoreAssumption ==
    /\ TestKeys \subseteq Keys
    /\ NumPorts \in Nat \ {0}
    /\ Preferred \in [Keys -> Ports]
    /\ MaxId \in Nat \ {0}
    /\ NoRow \notin Peer

VARIABLES
    rows,     \* the table peers: id -> row
    events,   \* the table peer_change_events, as a bag of changes
    nextId    \* the next value of the sequence peers_peer_id_seq

storeVars == <<rows, events, nextId>>

(***************************************************************************)
(* An event keeps what its consumers look at: the peer, its key, and       *)
(* whether TG_OP was DELETE.  The listener deletes an event by its own     *)
(* event_id, so two equal changes count twice.  The order of the ids is    *)
(* left out: every consumer reads the row again.                           *)
(***************************************************************************)
Change == [id : PeerIds, key : Keys, op : {"upsert", "delete"}]
NoChanges == [c \in Change |-> 0]

StoreTypeOK ==
    /\ rows \in [PeerIds -> Peer \cup {NoRow}]
    /\ events \in [Change -> Nat]
    /\ nextId \in 1 .. MaxId + 1

Exists(id) == rows[id] # NoRow

KeyTaken(k) == \E id \in PeerIds : Exists(id) /\ rows[id].key = k

(***************************************************************************)
(* The row get_peer finds: UNIQUE (asn, peer_name) makes it the only one.  *)
(***************************************************************************)
IdOf(k) == CHOOSE id \in PeerIds : Exists(id) /\ rows[id].key = k

PortTaken(port) == \E id \in PeerIds : Exists(id) /\ rows[id].port = port

(***************************************************************************)
(* The filter that list_peers' callers apply: not deleting, not disabled.  *)
(***************************************************************************)
Wanted(row) == row # NoRow /\ row.status \notin {"deleting", "disabled"}

(***************************************************************************)
(* list_peers as BIRD and nftables use it: the wanted rows, as [id, cfg,   *)
(* port].                                                                  *)
(***************************************************************************)
Listing(table) ==
    {[id |-> id, cfg |-> table[id].cfg, port |-> table[id].port] :
        id \in {i \in PeerIds : Wanted(table[i])}}

(***************************************************************************)
(* The trigger autopeer_enqueue_peer_change, run in the transaction of     *)
(* every INSERT, UPDATE and DELETE on peers.                               *)
(***************************************************************************)
Enqueue(id, key, op) ==
    events' = [events EXCEPT ![[id |-> id, key |-> key, op |-> op]] = @ + 1]

(***************************************************************************)
(* Writes.  Each is one statement: the row and its event change together.  *)
(* A write to a row that is not there changes nothing (rows_affected = 0). *)
(***************************************************************************)
WriteRow(id, row) ==
    /\ rows' = [rows EXCEPT ![id] = row]
    /\ Enqueue(id, row.key, "upsert")

set_status(id, status) ==
    IF Exists(id)
      THEN WriteRow(id, [rows[id] EXCEPT !.status = status])
      ELSE UNCHANGED <<rows, events>>

update_peer_desired(id, cfg, port) ==
    IF Exists(id)
      THEN WriteRow(id, [rows[id] EXCEPT !.cfg = cfg, !.port = port,
                                         !.status = "provisioning"])
      ELSE UNCHANGED <<rows, events>>

delete_row(id) ==
    IF Exists(id)
      THEN /\ rows' = [rows EXCEPT ![id] = NoRow]
           /\ Enqueue(id, rows[id].key, "delete")
      ELSE UNCHANGED <<rows, events>>

(***************************************************************************)
(* The same statement for each row of a set, one after the other.  They    *)
(* touch different rows, so one step stands for the loop.                  *)
(***************************************************************************)
EnqueueAll(ids, op) ==
    events' = [c \in Change |->
                IF c.id \in ids /\ c.key = rows[c.id].key /\ c.op = op
                  THEN events[c] + 1 ELSE events[c]]

activate_rows(ids) ==
    /\ rows' = [id \in PeerIds |->
                  IF id \in ids THEN [rows[id] EXCEPT !.status = "active"]
                  ELSE rows[id]]
    /\ EnqueueAll(ids, "upsert")

delete_rows(ids) ==
    /\ rows' = [id \in PeerIds |-> IF id \in ids THEN NoRow ELSE rows[id]]
    /\ EnqueueAll(ids, "delete")

delete_peer_change(change) ==
    /\ events' = [events EXCEPT ![change] = IF @ > 0 THEN @ - 1 ELSE 0]
    /\ UNCHANGED rows

Pending(id) == \E c \in Change : c.id = id /\ events[c] > 0

=============================================================================
